-------------------------------- MODULE Mail --------------------------------
(***************************************************************************)
(* The way of a mail from a request to the mail server (email.queue.ts):   *)
(* with Redis, through a queue that a worker of any process drains, with   *)
(* retries; without, or when it cannot be queued, sent by the request.     *)
(* Redis, the transport and the processes fail, or are shut down, at most  *)
(* MaxFaults times.                                                        *)
(* BullMQ and its Redis client are external: they are modelled from the    *)
(* options they are given here.                                            *)
(***************************************************************************)
EXTENDS Naturals, FiniteSets

CONSTANTS Mails, Processes, Nothing,
          Jobs,      \* rows of the queue
          Attempts,  \* of a job, defaultJobOptions
          MaxFaults  \* bound on the failures and shutdowns of a behaviour

ASSUME AttemptsArePositive == Attempts \in Nat \ {0}
ASSUME NothingIsNone == Nothing \notin Mails \cup Jobs \cup Processes
ASSUME QueueIsFinite == IsFiniteSet(Jobs) /\ IsFiniteSet(Processes)
ASSUME FaultsAreCounted == MaxFaults \in Nat

VARIABLES
    redis,   \* "none" if it is not configured, "up" or "down"
    process, \* the processes
    call,    \* dispatchEmail for each mail, and the process that runs it
    queue,   \* the queue
    worker,  \* the job each process's worker has in hand
    faults,  \* failures and shutdowns so far
    sent,    \* history: copies the mail server took
    troubled \* history: failures after which a copy may be sent again

mailVars == <<redis, process, call, queue, worker, faults, sent, troubled>>

NoCall == [step |-> "none", at |-> Nothing]
NoEntry == [state |-> "none", mail |-> Nothing, by |-> Nothing, tries |-> 0, stalled |-> FALSE]
Idle == [job |-> Nothing, step |-> "idle"]

MailTypeOK ==
    /\ redis \in {"none", "up", "down"}
    /\ process \in [Processes -> {"up", "closing", "down"}]
    /\ call \in [Mails -> [step : {"none", "add", "inline", "answered", "refused"},
                           at : Processes \cup {Nothing}]]
    /\ queue \in [Jobs -> [state : {"none", "waiting", "active", "delayed", "done", "failed"},
                         mail : Mails \cup {Nothing}, by : Processes \cup {Nothing},
                         tries : 0 .. Attempts, stalled : BOOLEAN]]
    /\ \A j \in Jobs : queue[j].by # Nothing <=> queue[j].state = "active"
    /\ worker \in [Processes -> [job : Jobs \cup {Nothing},
                                 step : {"idle", "send", "done", "failed"}]]
    /\ redis = "none" => \A j \in Jobs : queue[j] = NoEntry
    /\ \A s \in Processes : process[s] = "down" => worker[s] = Idle
    /\ faults \in 0 .. MaxFaults
    /\ sent \in [Mails -> Nat] /\ troubled \in [Mails -> Nat]

MailInit ==
    /\ redis \in {"none", "up"}
    /\ process = [s \in Processes |-> "up"]
    /\ call = [m \in Mails |-> NoCall]
    /\ queue = [j \in Jobs |-> NoEntry]
    /\ worker = [s \in Processes |-> Idle]
    /\ faults = 0
    /\ sent = [m \in Mails |-> 0]
    /\ troubled = [m \in Mails |-> 0]

Fault == faults < MaxFaults /\ faults' = faults + 1
Sound == UNCHANGED <<faults, troubled>>
Trouble(m) == Fault /\ troubled' = [troubled EXCEPT ![m] = @ + 1]

-------------------------------------------------------------------------------
(* dispatchEmail: q.add, or sendEmailNow if there is no queue. *)
dispatchEmail(m, s) ==
    /\ process[s] = "up" /\ call[m] = NoCall
    /\ call' = [call EXCEPT ![m] = [step |-> IF redis = "none" THEN "inline" ELSE "add", at |-> s]]
    /\ UNCHANGED <<redis, process, queue, worker, sent>> /\ Sound

Enqueued(m, j) == [queue EXCEPT ![j] = [NoEntry EXCEPT !.state = "waiting", !.mail = m]]

(* Mutant: a queued mail is sent inline as well. *)
InlineAsWell == "inline"

AfterAdd == "answered"

(* While Redis is down the client keeps the command, and the request waits.*)
add(m, j) ==
    /\ call[m].step = "add" /\ redis = "up"
    /\ queue[j] = NoEntry
    /\ queue' = Enqueued(m, j)
    /\ call' = [call EXCEPT ![m].step = AfterAdd]
    /\ UNCHANGED <<redis, process, worker, sent>> /\ Sound

(* The connection breaks before the answer: the client sends the command   *)
(* again when it is back.                                                  *)
addAgain(m, j) ==
    /\ call[m].step = "add" /\ redis = "up"
    /\ queue[j] = NoEntry
    /\ queue' = Enqueued(m, j)
    /\ redis' = "down"
    /\ Trouble(m)
    /\ UNCHANGED <<process, call, worker, sent>>

(* Redis refuses the command: it is out of memory, or a replica. *)
addFails(m) ==
    /\ call[m].step = "add" /\ redis = "up"
    /\ call' = [call EXCEPT ![m].step = "inline"]
    /\ Fault
    /\ UNCHANGED <<redis, process, queue, worker, sent, troubled>>

(* The mail server takes the mail; if its answer is late, the transport    *)
(* fails all the same.                                                     *)
Take(m) == sent' = [sent EXCEPT ![m] = @ + 1]
Accepts(m) == Take(m) /\ Sound
Fails(m) ==
    \/ Fault /\ UNCHANGED <<sent, troubled>>
    \/ Take(m) /\ Trouble(m)

sendInline(m) ==
    /\ call[m].step = "inline"
    /\ \/ Accepts(m) /\ call' = [call EXCEPT ![m].step = "answered"]
       \/ Fails(m) /\ call' = [call EXCEPT ![m].step = "refused"]
    /\ UNCHANGED <<redis, process, queue, worker>>

-------------------------------------------------------------------------------
(* The worker takes one job at a time, also while requests end before it   *)
(* is told to close.                                                       *)
takeJob(s, j) ==
    /\ redis = "up" /\ process[s] # "down"
    /\ worker[s] = Idle /\ queue[j].state = "waiting"
    /\ queue' = [queue EXCEPT ![j].state = "active", ![j].by = s]
    /\ worker' = [worker EXCEPT ![s] = [job |-> j, step |-> "send"]]
    /\ UNCHANGED <<redis, process, call, sent>> /\ Sound

(* Mutant: the worker does not wait for the transport. *)
DoneAnyway(outcome) == "done"

Reported(outcome) == outcome

sendEmailNow(s) ==
    LET m == queue[worker[s].job].mail
    IN  /\ worker[s].step = "send"
        /\ \/ Accepts(m) /\ worker' = [worker EXCEPT ![s].step = Reported("done")]
           \/ Fails(m) /\ worker' = [worker EXCEPT ![s].step = Reported("failed")]
        /\ UNCHANGED <<redis, process, call, queue>>

(* A job that fails waits for its backoff, unless it was its last attempt. *)
AfterFailure(tries) == IF tries = Attempts THEN "failed" ELSE "delayed"

(* The worker reports, and is not heard if the job is not its any more. *)
report(s) ==
    LET j == worker[s].job
        mine == queue[j].by = s
        tries == queue[j].tries + 1
    IN  /\ redis = "up"
        /\ worker[s].step \in {"done", "failed"}
        /\ \/ ~mine /\ UNCHANGED queue
           \/ /\ mine /\ worker[s].step = "done"
              /\ queue' = [queue EXCEPT ![j].state = "done", ![j].by = Nothing]
           \/ /\ mine /\ worker[s].step = "failed"
              /\ queue' = [queue EXCEPT ![j].state = AfterFailure(tries), ![j].tries = tries,
                                    ![j].by = Nothing]
        /\ worker' = [worker EXCEPT ![s] = Idle]
        /\ UNCHANGED <<redis, process, call, sent>> /\ Sound

backoffEnds(j) ==
    /\ redis = "up" /\ queue[j].state = "delayed"
    /\ queue' = [queue EXCEPT ![j].state = "waiting"]
    /\ UNCHANGED <<redis, process, call, worker, sent>> /\ Sound

(* A worker that does not renew its lock, because it died, or could not    *)
(* reach Redis, has stalled: the job is given to another, once.            *)
Stalled(j) ==
    IF queue[j].stalled THEN [queue EXCEPT ![j].state = "failed", ![j].by = Nothing]
    ELSE [queue EXCEPT ![j].state = "waiting", ![j].by = Nothing, ![j].stalled = TRUE]

stallOrphan(j) ==
    /\ redis = "up" /\ queue[j].state = "active"
    /\ worker[queue[j].by].job # j
    /\ queue' = Stalled(j)
    /\ UNCHANGED <<redis, process, call, worker, sent>> /\ Sound

stallSlow(j) ==
    /\ redis = "up" /\ queue[j].state = "active"
    /\ worker[queue[j].by].job = j
    /\ queue' = Stalled(j)
    /\ Trouble(queue[j].mail)
    /\ UNCHANGED <<redis, process, call, worker, sent>>

-------------------------------------------------------------------------------
RedisFails ==
    /\ redis = "up" /\ redis' = "down" /\ Fault
    /\ UNCHANGED <<process, call, queue, worker, sent, troubled>>

RedisRecovers ==
    /\ redis = "down" /\ redis' = "up"
    /\ UNCHANGED <<process, call, queue, worker, sent>> /\ Sound

(* server.close takes no more requests; when the last one is answered,     *)
(* closeEmailJobs waits for the job in hand.                               *)
shutdown(s) ==
    /\ process[s] = "up"
    /\ process' = [process EXCEPT ![s] = "closing"]
    /\ Fault
    /\ UNCHANGED <<redis, call, queue, worker, sent, troubled>>

Busy(s) == \E m \in Mails : call[m].at = s /\ call[m].step \in {"add", "inline"}

closeEmailJobs(s) ==
    /\ process[s] = "closing"
    /\ ~Busy(s) /\ worker[s] = Idle
    /\ process' = [process EXCEPT ![s] = "down"]
    /\ UNCHANGED <<redis, call, queue, worker, sent>> /\ Sound

(* The process dies, or is not done ten seconds after the signal; a mail   *)
(* its worker had sent is not reported.                                    *)
Die(s) ==
    /\ process[s] # "down"
    /\ process' = [process EXCEPT ![s] = "down"]
    /\ call' = [m \in Mails |-> IF call[m].at = s /\ call[m].step \in {"add", "inline"}
                                THEN [call[m] EXCEPT !.step = "refused"] ELSE call[m]]
    /\ worker' = [worker EXCEPT ![s] = Idle]
    /\ IF worker[s].step = "done" THEN Trouble(queue[worker[s].job].mail)
                                  ELSE Fault /\ UNCHANGED troubled
    /\ UNCHANGED <<redis, queue, sent>>

Start(s) ==
    /\ process[s] = "down"
    /\ process' = [process EXCEPT ![s] = "up"]
    /\ UNCHANGED <<redis, call, queue, worker, sent>> /\ Sound

-------------------------------------------------------------------------------
Works(s) == sendEmailNow(s) \/ report(s) \/ closeEmailJobs(s) \/ \E j \in Jobs : takeJob(s, j)
Queue(j) == backoffEnds(j) \/ stallOrphan(j)
Dispatches(m) == sendInline(m) \/ \E j \in Jobs : add(m, j)

MailNext ==
    \/ \E m \in Mails : \/ \E s \in Processes : dispatchEmail(m, s)
                        \/ Dispatches(m) \/ addFails(m)
                        \/ \E j \in Jobs : addAgain(m, j)
    \/ \E s \in Processes : Works(s) \/ shutdown(s) \/ Die(s) \/ Start(s)
    \/ \E j \in Jobs : Queue(j) \/ stallSlow(j)
    \/ RedisFails \/ RedisRecovers

(* The event loops run, BullMQ looks after delayed and stalled jobs, and   *)
(* Redis and the processes are started again.                              *)
Fairness ==
    /\ \A m \in Mails : WF_mailVars(Dispatches(m))
    /\ \A s \in Processes : WF_mailVars(Works(s)) /\ WF_mailVars(Start(s))
    /\ \A j \in Jobs : WF_mailVars(Queue(j))
    /\ WF_mailVars(RedisRecovers)

MailSpec == MailInit /\ [][MailNext]_mailVars /\ Fairness

-------------------------------------------------------------------------------
(* A mail goes out twice only if something failed after a copy had gone,   *)
(* or might have: retries, restarts, the fallback to an inline send and a  *)
(* second worker make no other copies.  The state is well typed.           *)
CopiesExplained == MailTypeOK /\ \A m \in Mails : sent[m] <= 1 + troubled[m]

Abandoned(m) == \E j \in Jobs : queue[j].mail = m /\ queue[j].state = "failed"

(* "rather than dropping the email": a mail whose request was answered     *)
(* goes out, or is recorded as failed after its last attempt or a second   *)
(* stall, whatever fails on the way and comes back.                        *)
MailSettles ==
    \A m \in Mails : call[m].step = "answered" ~> sent[m] > 0 \/ Abandoned(m)
=============================================================================
