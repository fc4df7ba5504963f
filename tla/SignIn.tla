-------------------------------- MODULE SignIn --------------------------------
(***************************************************************************)
(* The first factor of one active account: the password with its lockout   *)
(* (auth.service.ts, lockout.ts), the alert about a new device             *)
(* (suspiciousLogin.ts), and the magic links and login codes of            *)
(* passwordless.service.ts.  A request is a process with one step per      *)
(* statement; it keeps the user's row as it read it.                       *)
(***************************************************************************)
EXTENDS Naturals, FiniteSets, FiniteSetsExt

CONSTANTS Requests, None,
          Devices,       \* IP address and user agent of requests, or None for either
          MaxFailed,     \* MAX_FAILED_ATTEMPTS
          MaxAttempts,   \* MAX_OTP_ATTEMPTS
          MaxTokens,     \* bound on the links and codes sent
          MaxOps         \* bound on the requests of a behaviour

ASSUME BoundsAreNatural ==
    /\ {MaxFailed, MaxAttempts} \subseteq Nat \ {0}
    /\ {MaxTokens, MaxOps} \subseteq Nat

ASSUME FinitelyMany == IsFiniteSet(Requests)
ASSUME DevicesHaveBoth ==
    None \notin Devices /\ \A d \in Devices : d = [ip |-> d.ip, agent |-> d.agent]

VARIABLES
    user,       \* users: failed_login_attempts, and whether locked_until is
                \* null, in the future or in the past
    seen,       \* login_attempts: the devices of successful ones
    tokens,     \* login_tokens: magic links and login codes
    pc, job,    \* the requests in flight: next statement and local variables
    begun,      \* requests so far
    streak,     \* history: wrong passwords answered since the last success
    unnoticed,  \* history: devices recorded as new with nobody told
    accepted,   \* history: how often a link or code was accepted
    guessed,    \* history: how often a wrong code was compared with a code
    overlapped  \* history: the pairs of operations that overlapped

tables == <<user, seen, tokens>>
history == <<streak, unnoticed, accepted, guessed>>
vars == <<tables, pc, job, begun, history, overlapped>>

Tokens == 1 .. MaxTokens
Kinds == {"link", "code"}
Steps == {"idle", "fail", "clear", "check", "match", "record", "replace", "useLink", "findCode",
          "exhaust", "count", "claim", "finalize"}
Logins == {"rightLogin", "wrongLogin"}

(* Pairs of operations that can upset each other when they overlap. *)
Races == {{"rightLogin"}, {"wrongLogin"}, Logins, {"wrongLogin", "unlock"}}

Unset == [failed |-> 0, lock |-> "none"]
NoToken == [kind |-> "link", state |-> "none", attempts |-> 0, expired |-> FALSE]
NoJob == [op |-> "none", user |-> Unset, device |-> None, alert |-> "none",
          token |-> 0, kind |-> "link", old |-> {}]

(* What became of the alert about the device of a sign-in. *)
Alerts == {"none", "sent", "failed"}

Users == [failed : Nat, lock : {"none", "held", "past"}]

(* A counter at the limit goes with a lock, held or past. *)
LockGoesWithCount == user.failed >= MaxFailed => user.lock # "none"

TypeOK ==
    /\ user \in Users
    /\ LockGoesWithCount
    /\ seen \subseteq Devices
    /\ tokens \in [Tokens -> [kind : Kinds, state : {"none", "open", "consumed", "deleted"},
                              attempts : Nat, expired : BOOLEAN]]
    /\ pc \in [Requests -> Steps]
    /\ job \in [Requests -> [op : Logins \cup {"none", "request", "link", "code"}, user : Users,
                             device : Devices \cup {None}, alert : Alerts,
                             token : 0 .. MaxTokens, kind : Kinds, old : SUBSET Tokens]]
    /\ begun \in 0 .. MaxOps
    /\ streak \in Nat
    /\ unnoticed \subseteq seen
    /\ {accepted, guessed} \subseteq [Tokens -> Nat]

Init ==
    /\ user = Unset
    /\ seen = {}
    /\ tokens = [x \in Tokens |-> NoToken]
    /\ pc = [r \in Requests |-> "idle"]
    /\ job = [r \in Requests |-> NoJob]
    /\ begun = 0
    /\ streak = 0 /\ unnoticed = {}
    /\ accepted = [x \in Tokens |-> 0]
    /\ guessed = [x \in Tokens |-> 0]
    /\ overlapped = {}

-------------------------------------------------------------------------------
Begin(r, step, j) ==
    /\ pc[r] = "idle"
    /\ begun < MaxOps
    /\ begun' = begun + 1
    /\ pc' = [pc EXCEPT ![r] = step]
    /\ job' = [job EXCEPT ![r] = j]
    /\ overlapped' = overlapped \cup
           (Races \cap {{j.op, job[q].op} : q \in {q \in Requests : pc[q] # "idle"}})
    /\ UNCHANGED <<tables, history>>

At(r, step) == pc[r] = step /\ UNCHANGED <<begun, overlapped>>
Goto(r, step) == pc' = [pc EXCEPT ![r] = step] /\ UNCHANGED job
(* Local variables that are read no more are dropped. *)
Proceed(r, step, j) == pc' = [pc EXCEPT ![r] = step] /\ job' = [job EXCEPT ![r] = j]
Finish(r) == pc' = [pc EXCEPT ![r] = "idle"] /\ job' = [job EXCEPT ![r] = NoJob]

-------------------------------------------------------------------------------
(* Signing in with the password.  A locked account is refused before the   *)
(* password is looked at.  The device matters to a success only.           *)
BeginLogin(r, device, right) ==
    /\ user.lock # "held"
    /\ Begin(r, IF right THEN "clear" ELSE "fail",
             [NoJob EXCEPT !.op = IF right THEN "rightLogin" ELSE "wrongLogin",
                           !.user = user, !.device = device])

(* Mutant: the lock comes one attempt late. *)
AfterFailureLate(read) ==
    [failed |-> read.failed + 1,
     lock |-> IF read.failed + 1 > MaxFailed THEN "held" ELSE user.lock]

(* The counter that was read, plus one. *)
AfterFailure(read) ==
    [failed |-> read.failed + 1,
     lock |-> IF read.failed + 1 >= MaxFailed THEN "held" ELSE user.lock]

registerFailedAttempt(r) ==
    /\ At(r, "fail")
    /\ user' = AfterFailure(job[r].user)
    /\ streak' = streak + 1
    /\ Finish(r)
    /\ UNCHANGED <<seen, tokens, unnoticed, accepted, guessed>>

(* Mutant: the counter is cleared only together with a lock. *)
ClearedOnlyIfLocked(read) == IF read.lock = "none" THEN user ELSE Unset

(* Nothing is written if there was nothing to clear when the row was read. *)
Cleared(read) == IF read = Unset THEN user ELSE Unset

clearFailedAttempts(r) ==
    /\ At(r, "clear")
    /\ user' = Cleared(job[r].user)
    /\ streak' = 0
    /\ Proceed(r, "check", [job[r] EXCEPT !.user = Unset])
    /\ UNCHANGED <<seen, tokens, unnoticed, accepted, guessed>>

Unlocked == Unset

(* An administrator unlocks the account. *)
unlockUser ==
    /\ user # Unset
    /\ user' = Unlocked
    /\ streak' = 0
    /\ overlapped' = overlapped \cup (Races \cap {{job[r].op, "unlock"} : r \in Requests})
    /\ UNCHANGED <<seen, tokens, pc, job, begun, unnoticed, accepted, guessed>>

(* Mutant: the attempt is recorded before the check. *)
PriorSuccessesTooLate(r) == seen \cup {job[r].device}

PriorSuccesses(r) == seen

HasSignal(device) == device.ip # None \/ device.agent # None

(* The same IP address is enough, and so is the same user agent. *)
SeenBefore(device, prior) ==
    \E d \in prior : \/ device.ip # None /\ d.ip = device.ip
                     \/ device.agent # None /\ d.agent = device.agent

EndCheck(r, alert) == Proceed(r, "record", [job[r] EXCEPT !.alert = alert])

(* Its first statement.  Best effort: whatever fails is caught, here and   *)
(* below.                                                                  *)
checkSuspiciousLogin(r) ==
    LET compares == PriorSuccesses(r) # {} /\ HasSignal(job[r].device)
    IN  /\ At(r, "check")
        /\ \/ compares /\ Goto(r, "match")
           \/ ~compares /\ EndCheck(r, "none")
           \/ EndCheck(r, "failed")
        /\ UNCHANGED <<tables, history>>

(* Its second, and the alert. *)
sendSuspiciousLoginEmail(r) ==
    LET known == SeenBefore(job[r].device, PriorSuccesses(r))
    IN  /\ At(r, "match")
        /\ \/ known /\ EndCheck(r, "none")
           \/ ~known /\ EndCheck(r, "sent")
           \/ EndCheck(r, "failed")
        /\ UNCHANGED <<tables, history>>

(* A device that is not the first, and that nothing earlier resembles.     *)
New(device) == seen # {} /\ HasSignal(device) /\ ~SeenBefore(device, seen)

(* Best effort: the sign-in goes on if the row cannot be written. *)
recordLoginAttempt(r) ==
    LET device == job[r].device
    IN  /\ At(r, "record")
        /\ \/ /\ seen' = seen \cup {device}
              /\ unnoticed' = IF New(device) /\ job[r].alert = "none"
                              THEN unnoticed \cup {device} ELSE unnoticed
           \/ UNCHANGED <<seen, unnoticed>>
        /\ Proceed(r, "finalize", [NoJob EXCEPT !.op = job[r].op])
        /\ UNCHANGED <<user, tokens, streak, accepted, guessed>>

(* A session, or the challenge of the second factor. *)
finalizeLogin(r) ==
    /\ At(r, "finalize")
    /\ Finish(r)
    /\ UNCHANGED <<tables, history>>

-------------------------------------------------------------------------------
(* Magic links and login codes. *)
TokensLeft ==
    Cardinality({r \in Requests : job[r].op = "request"})
        < Cardinality({x \in Tokens : tokens[x].state = "none"})

(* The rows that deleteMany will delete are those of its snapshot. *)
BeginRequest(r, kind) ==
    /\ TokensLeft
    /\ Begin(r, "replace",
             [NoJob EXCEPT !.op = "request", !.kind = kind,
                 !.old = {x \in Tokens : tokens[x].kind = kind
                                         /\ tokens[x].state \in {"open", "consumed"}}])

(* The number of a row stands for its created_at. *)
requestToken(r, x) ==
    LET rest == [y \in Tokens |-> IF y \in job[r].old THEN [tokens[y] EXCEPT !.state = "deleted"]
                                  ELSE tokens[y]]
    IN  /\ At(r, "replace")
        /\ tokens[x].state = "none"
        /\ tokens' = [rest EXCEPT ![x] = [NoToken EXCEPT !.kind = job[r].kind, !.state = "open"]]
        /\ Finish(r)
        /\ UNCHANGED <<user, seen, history>>

Open(x, kind) == tokens[x].kind = kind /\ tokens[x].state = "open"

BeginMagicLink(r, x) ==
    /\ Open(x, "link") /\ ~tokens[x].expired
    /\ Begin(r, "claim", [NoJob EXCEPT !.op = "link", !.token = x])

(* verifyLoginOtp with code x, or with a wrong one: 0. *)
BeginLoginOtp(r, x) ==
    Begin(r, "findCode", [NoJob EXCEPT !.op = "code", !.token = x, !.kind = "code"])

(* The latest code is looked at; job.token becomes its row. *)
FindCode(r) ==
    LET open == {x \in Tokens : Open(x, "code")}
        latest == Max(open)
    IN  /\ At(r, "findCode")
        /\ IF open = {} \/ tokens[latest].expired
           THEN Finish(r)
           ELSE /\ pc' = [pc EXCEPT ![r] =
                       IF tokens[latest].attempts >= MaxAttempts THEN "exhaust"
                       ELSE IF job[r].token = latest THEN "claim" ELSE "count"]
                /\ job' = [job EXCEPT ![r].token = latest]
        /\ UNCHANGED <<tables, history>>

(* By the row's id: each fails if the row is gone. *)
ExhaustCode(r) ==
    /\ At(r, "exhaust")
    /\ tokens' = [tokens EXCEPT ![job[r].token].state = IF @ = "deleted" THEN @ ELSE "consumed"]
    /\ Finish(r)
    /\ UNCHANGED <<user, seen, history>>

Counted(attempts) == attempts + 1

CountAttempt(r) ==
    LET x == job[r].token
    IN  /\ At(r, "count")
        /\ tokens' = IF tokens[x].state = "deleted" THEN tokens
                     ELSE [tokens EXCEPT ![x].attempts = Counted(@)]
        /\ guessed' = [guessed EXCEPT ![x] = @ + 1]
        /\ Finish(r)
        /\ UNCHANGED <<user, seen, streak, unnoticed, accepted>>

(* Mutant: the claim is by the row's id alone. *)
ClaimableUnguarded(x) == tokens[x].state # "deleted"

(* updateMany where consumed_at is null. *)
Claimable(x) == tokens[x].state = "open"

ClaimToken(r) ==
    LET x == job[r].token
    IN  /\ At(r, "claim")
        /\ \/ /\ Claimable(x)
              /\ tokens' = [tokens EXCEPT ![x].state = "consumed"]
              /\ accepted' = [accepted EXCEPT ![x] = @ + 1]
              /\ Goto(r, "finalize")
           \/ /\ ~Claimable(x)
              /\ Finish(r)
              /\ UNCHANGED <<tokens, accepted>>
        /\ UNCHANGED <<user, seen, streak, unnoticed, guessed>>

-------------------------------------------------------------------------------
ExpireLock ==
    /\ user.lock = "held"
    /\ user' = [user EXCEPT !.lock = "past"]
    /\ UNCHANGED <<seen, tokens, pc, job, begun, history, overlapped>>

ExpireToken(x) ==
    /\ tokens[x].state = "open" /\ ~tokens[x].expired
    /\ tokens' = [tokens EXCEPT ![x].expired = TRUE]
    /\ UNCHANGED <<user, seen, pc, job, begun, history, overlapped>>

(* The process dies between two statements. *)
Crash(r) ==
    /\ pc[r] # "idle"
    /\ Finish(r)
    /\ UNCHANGED <<tables, begun, history, overlapped>>

Arrive(r) ==
    \/ BeginLogin(r, None, FALSE) \/ \E device \in Devices : BeginLogin(r, device, TRUE)
    \/ \E kind \in Kinds : BeginRequest(r, kind)
    \/ \E x \in Tokens : BeginMagicLink(r, x)
    \/ \E x \in {x \in Tokens : tokens[x].kind = "code" /\ tokens[x].state # "none"} \cup {0} :
          BeginLoginOtp(r, x)

Continue(r) ==
    \/ registerFailedAttempt(r) \/ clearFailedAttempts(r)
    \/ checkSuspiciousLogin(r) \/ sendSuspiciousLoginEmail(r)
    \/ recordLoginAttempt(r) \/ finalizeLogin(r)
    \/ \E x \in Tokens : requestToken(r, x)
    \/ FindCode(r) \/ ExhaustCode(r) \/ CountAttempt(r) \/ ClaimToken(r)

Next ==
    \/ \E r \in Requests : Arrive(r) \/ Continue(r) \/ Crash(r)
    \/ unlockUser \/ ExpireLock
    \/ \E x \in Tokens : ExpireToken(x)

Spec == Init /\ [][Next]_vars

-------------------------------------------------------------------------------
(* Properties. *)

Apart(op1, op2) == {op1, op2} \notin overlapped

(* lockout.ts: "Lock the account after this many consecutive failed        *)
(* password attempts".  The wrong password that makes it that many, and    *)
(* each one after a lock has run out, locks the account, and no other      *)
(* does, unless a sign-in with a wrong password overlapped another sign-in *)
(* or an unlocking.                                                        *)
LocksAtMaxFailed ==
    [][streak' > streak /\ (\A op \in Logins \cup {"unlock"} : Apart("wrongLogin", op))
           => (user'.lock = "held" <=> streak' >= MaxFailed)]_vars

(* Wrong passwords that overlap can be too few in the counter, never too   *)
(* many: no account is locked before MaxFailed of them, unless one         *)
(* overlapped a success or an unlocking and wrote what it had read before. *)
NeverLocksEarly ==
    user.lock # "none" /\ Apart("wrongLogin", "rightLogin") /\ Apart("wrongLogin", "unlock")
        => streak >= MaxFailed

(* suspiciousLogin.ts: a sign-in "from a device/location the user hasn't   *)
(* used before" is alerted about, if the alert does not fail.  It escapes  *)
(* only next to the very first sign-in: two sign-ins overlapped, and fewer *)
(* devices ever escape than there are requests at a time.                  *)
NewDevicesAlerted ==
    unnoticed # {} => /\ ~Apart("rightLogin", "rightLogin")
                      /\ Cardinality(unnoticed) < Cardinality(Requests)

(* schema.prisma: a login token is "Single-use", however many requests     *)
(* present it at once and whatever replaces it meanwhile, and "`attempts`  *)
(* caps OTP guessing": a wrong code is counted each time, so that a code   *)
(* takes MaxAttempts wrong guesses, and one more for each request that had *)
(* read it before the last of them.  Rows are well typed.                  *)
LoginTokenHolds ==
    /\ TypeOK
    /\ \A x \in Tokens :
          /\ accepted[x] <= 1
          /\ guessed[x] <= MaxAttempts + Cardinality(Requests) - 1
===============================================================================
