----------------------------- MODULE SignIn_proofs -----------------------------
(***************************************************************************)
(* What the first factor promises, for any number of devices, of links and *)
(* codes and of requests at a time.                                        *)
(***************************************************************************)
EXTENDS SignIn, FiniteSetTheorems, WellFoundedInduction, TLAPS

Token == [kind : Kinds, state : {"none", "open", "consumed", "deleted"},
          attempts : Nat, expired : BOOLEAN]
Job == [op : Logins \cup {"none", "request", "link", "code"}, user : Users,
        device : Devices \cup {None}, alert : Alerts, token : 0 .. MaxTokens,
        kind : Kinds, old : SUBSET Tokens]

(* What a request knows when it comes to a step. *)
Knows(step, j) ==
    /\ step = "fail" => j.op = "wrongLogin"
    /\ step \in {"clear", "check", "match", "record"} => j.op = "rightLogin" /\ j.device \in Devices
    /\ step \in {"claim", "exhaust", "count"} =>
          j.token \in Tokens /\ tokens[j.token].state # "none"

RequestTyped(q) ==
    /\ pc[q] = "idle" => job[q] = NoJob
    /\ pc[q] # "idle" => Knows(pc[q], job[q])

RequestsTyped ==
    /\ pc \in [Requests -> Steps] /\ job \in [Requests -> Job]
    /\ \A q \in Requests : RequestTyped(q)

TablesTyped ==
    /\ user \in Users
    /\ LockGoesWithCount
    /\ seen \subseteq Devices
    /\ tokens \in [Tokens -> Token]
    /\ begun \in 0 .. MaxOps
    /\ streak \in Nat
    /\ unnoticed \subseteq seen
    /\ accepted \in [Tokens -> Nat]
    /\ guessed \in [Tokens -> Nat]

Typed == TablesTyped /\ RequestsTyped

(* The requests that compared a wrong code with x and have not counted it. *)
Counting(x) == {r \in Requests : pc[r] = "count" /\ job[r].token = x}

(* A code's guesses are those its row counts, until the row is deleted; a  *)
(* request that is about to count one found guesses left.                  *)
TokensHold ==
    \A x \in Tokens :
        /\ accepted[x] <= 1
        /\ accepted[x] = 1 => tokens[x].state \in {"consumed", "deleted"}
        /\ tokens[x].state = "none" => tokens[x].attempts = 0
        /\ tokens[x].state # "deleted" => guessed[x] = tokens[x].attempts
        /\ guessed[x] + Cardinality(Counting(x)) <= MaxAttempts + Cardinality(Requests) - 1

(* Two requests in flight that can upset each other are noted. *)
OverlapsNoted ==
    \A p, q \in Requests :
        p # q /\ pc[p] # "idle" /\ pc[q] # "idle" /\ {job[p].op, job[q].op} \in Races
            => {job[p].op, job[q].op} \in overlapped

(* The sign-ins that will record a new device that nobody was told about,  *)
(* having looked for earlier ones before there were any.                   *)
Unalarmed(r) ==
    /\ pc[r] = "record" /\ job[r].alert = "none"
    /\ HasSignal(job[r].device) /\ ~ SeenBefore(job[r].device, seen)

Escaping == {r \in Requests : Unalarmed(r)}

(* The first to record a device lets all others escape that have checked   *)
(* theirs, and nobody starts to escape later.                              *)
EscapesFew ==
    /\ IsFiniteSet(unnoticed)
    /\ seen = {} => unnoticed = {}
    /\ seen # {} => Cardinality(unnoticed) + Cardinality(Escaping) <= Cardinality(Requests) - 1
    /\ seen # {} /\ Apart("rightLogin", "rightLogin") => unnoticed = {} /\ Escaping = {}

(* The counter, and the copies that wrong passwords will write back, are   *)
(* at most the streak.                                                     *)
CounterBehind ==
    Apart("wrongLogin", "rightLogin") /\ Apart("wrongLogin", "unlock") =>
        /\ user.failed <= streak
        /\ user.lock # "none" => streak >= MaxFailed
        /\ \A r \in Requests :
              /\ pc[r] = "fail" => job[r].user.failed <= streak
              /\ pc[r] = "clear" /\ job[r].user = Unset => user = Unset

(* They are the streak when wrong passwords come one after the other.      *)
CounterExact ==
    (\A op \in Logins \cup {"unlock"} : Apart("wrongLogin", op)) =>
        /\ user.failed = streak
        /\ \A r \in Requests : pc[r] = "fail" => job[r].user.failed = streak

-------------------------------------------------------------------------------
(* The bounds are natural numbers. *)
LEMMA Numbers ==
    MaxFailed \in Nat \ {0} /\ MaxAttempts \in Nat \ {0} /\ MaxTokens \in Nat /\ MaxOps \in Nat
BY BoundsAreNatural

(* The greatest of some codes is one of them: the intervals that end with  *)
(* the last row have a least one among those that begin with one of them.  *)
LEMMA LatestIsOne ==
    ASSUME NEW S \in SUBSET Tokens, S # {}
    PROVE  Max(S) \in S
<1> DEFINE intervals == {x .. MaxTokens : x \in S}
           order == StrictSubsetOrdering(Tokens)
<1>1. IsWellFoundedOn(order, SUBSET Tokens)
  <2>1. IsFiniteSet(Tokens)
    BY Numbers, FS_Interval DEF Tokens
  <2> QED BY <2>1, FS_StrictSubsetOrderingWellFounded, FS_FiniteSubsetsOfFinite
<1>2. intervals \subseteq SUBSET Tokens /\ intervals # {}
  <2>1. \A x \in Tokens : x .. MaxTokens \subseteq Tokens
    BY Numbers DEF Tokens
  <2> QED BY <2>1
<1>3. PICK least \in intervals : \A other \in intervals : ~ (<<other, least>> \in order)
  <2> HIDE DEF intervals, order
  <2> QED BY <1>1, <1>2, WFMin
<1>4. PICK n \in S : least = n .. MaxTokens
  BY <1>3
<1>5. ASSUME NEW x \in S PROVE n >= x
  <2>1. n \in 1 .. MaxTokens /\ x \in 1 .. MaxTokens
    BY DEF Tokens
  <2>2. ~ (<<x .. MaxTokens, n .. MaxTokens>> \in order)
    BY <1>3, <1>4
  <2>3. ~ (x .. MaxTokens \subseteq n .. MaxTokens /\ x .. MaxTokens # n .. MaxTokens)
    BY <1>2, <1>4, <2>2 DEF StrictSubsetOrdering
  <2>4. SUFFICES ASSUME n < x PROVE FALSE
    BY <2>1, Numbers
  <2>5. x .. MaxTokens \subseteq n .. MaxTokens
    BY <2>1, <2>4, Numbers
  <2>6. n \in n .. MaxTokens /\ n \notin x .. MaxTokens
    BY <2>1, <2>4, Numbers
  <2> QED BY <2>3, <2>5, <2>6
<1> QED BY <1>5 DEF Max

-------------------------------------------------------------------------------
(* Types. *)

(* A request that is idle asks for nothing. *)
LEMMA NoJobIsOne == NoJob \in Job /\ NoJob.op = "none" /\ NoJob.user = Unset
BY Numbers DEF NoJob, Job, Unset, Users, Kinds, Logins, Alerts

(* Nothing is in flight at first. *)
LEMMA InitTyped == Init => Typed
<1> SUFFICES ASSUME Init PROVE Typed
  OBVIOUS
<1>1. TablesTyped
  BY Numbers DEF Init, TablesTyped, Unset, Users, LockGoesWithCount, NoToken, Token, Kinds
<1>2. RequestsTyped
  BY NoJobIsOne DEF Init, RequestsTyped, RequestTyped, Knows, Steps
<1> QED BY <1>1, <1>2 DEF Typed

(* What a request that arrives carries. *)
LEMMA Arrives ==
    ASSUME Typed, NEW r \in Requests, Arrive(r)
    PROVE  \E step \in Steps \ {"idle"}, j \in Job :
              /\ pc[r] = "idle" /\ Knows(step, j) /\ Begin(r, step, j)
              /\ step = "fail" => j.user = user
              /\ step = "clear" => j.user = user
              /\ step \notin {"record", "match", "check", "count"}
<1> USE NoJobIsOne, Numbers DEF Typed, TablesTyped, RequestsTyped
<1>1. ASSUME NEW device \in Devices \cup {None}, NEW right \in BOOLEAN,
             right => device \in Devices, BeginLogin(r, device, right)
      PROVE  \E step \in {"clear", "fail"}, j \in Job :
                /\ Begin(r, step, j) /\ Knows(step, j) /\ j.user = user
  <2>1. PICK op \in Logins : op = IF right THEN "rightLogin" ELSE "wrongLogin"
    BY DEF Logins
  <2>2. PICK i : i = [NoJob EXCEPT !.op = op]
    OBVIOUS
  <2>3. PICK k : k = [i EXCEPT !.user = user]
    OBVIOUS
  <2>4. PICK j : j = [k EXCEPT !.device = device]
    OBVIOUS
  <2>5. j \in Job /\ j.op = op /\ j.user = user /\ j.device = device
    BY <2>2, <2>3, <2>4 DEF Job
  <2>6. PICK step \in {"clear", "fail"} : step = IF right THEN "clear" ELSE "fail"
    OBVIOUS
  <2>7. j = [NoJob EXCEPT !.op = op, !.user = user, !.device = device]
    BY <2>2, <2>3, <2>4, Zenon
  <2>8. Begin(r, step, j)
    BY <1>1, <2>1, <2>6, <2>7, Zenon DEF BeginLogin
  <2>9. Knows(step, j)
    BY <1>1, <2>1, <2>5, <2>6 DEF Knows
  <2> QED BY <2>5, <2>8, <2>9
<1>2. ASSUME NEW kind \in Kinds, BeginRequest(r, kind)
      PROVE  \E j \in Job : Begin(r, "replace", j) /\ Knows("replace", j)
  <2>1. PICK S \in SUBSET Tokens :
             S = {x \in Tokens : tokens[x].kind = kind /\ tokens[x].state \in {"open", "consumed"}}
    OBVIOUS
  <2>2. PICK i : i = [NoJob EXCEPT !.op = "request"]
    OBVIOUS
  <2>3. PICK k : k = [i EXCEPT !.kind = kind]
    OBVIOUS
  <2>4. PICK j : j = [k EXCEPT !.old = S]
    OBVIOUS
  <2>5. j \in Job
    BY <2>2, <2>3, <2>4 DEF Job
  <2>6. j = [NoJob EXCEPT !.op = "request", !.kind = kind, !.old = S]
    BY <2>2, <2>3, <2>4, Zenon
  <2>7. Begin(r, "replace", j)
    BY <1>2, <2>1, <2>6, Zenon DEF BeginRequest
  <2> QED BY <2>5, <2>7 DEF Knows
<1>3. ASSUME NEW x \in Tokens, BeginMagicLink(r, x)
      PROVE  \E j \in Job : Begin(r, "claim", j) /\ Knows("claim", j)
  <2>1. PICK i : i = [NoJob EXCEPT !.op = "link"]
    OBVIOUS
  <2>2. PICK j : j = [i EXCEPT !.token = x]
    OBVIOUS
  <2>0. x \in 0 .. MaxTokens
    BY DEF Tokens
  <2>3. j \in Job /\ j.token = x
    BY <2>0, <2>1, <2>2 DEF Job
  <2>4. j = [NoJob EXCEPT !.op = "link", !.token = x]
    BY <2>1, <2>2, Zenon
  <2>5. Begin(r, "claim", j) /\ tokens[x].state = "open"
    BY <1>3, <2>4, Zenon DEF BeginMagicLink, Open
  <2> QED BY <2>3, <2>5 DEF Knows
<1>4. ASSUME NEW x \in Tokens \cup {0}, BeginLoginOtp(r, x)
      PROVE  \E j \in Job : Begin(r, "findCode", j) /\ Knows("findCode", j)
  <2>1. PICK i : i = [NoJob EXCEPT !.op = "code"]
    OBVIOUS
  <2>2. PICK k : k = [i EXCEPT !.token = x]
    OBVIOUS
  <2>3. PICK j : j = [k EXCEPT !.kind = "code"]
    OBVIOUS
  <2>0. x \in 0 .. MaxTokens
    BY DEF Tokens
  <2>4. j \in Job
    BY <2>0, <2>1, <2>2, <2>3 DEF Job, Kinds
  <2>5. j = [NoJob EXCEPT !.op = "code", !.token = x, !.kind = "code"]
    BY <2>1, <2>2, <2>3, Zenon
  <2>6. Begin(r, "findCode", j)
    BY <1>4, <2>5, Zenon DEF BeginLoginOtp
  <2> QED BY <2>4, <2>6 DEF Knows
<1>5. \A step, j : Begin(r, step, j) => pc[r] = "idle"
  BY DEF Begin
<1> QED
  <2> HIDE DEF Typed, TablesTyped, RequestsTyped
  <2>1. {"clear", "fail", "replace", "claim", "findCode"} \subseteq Steps \ {"idle"}
    BY DEF Steps
  <2>2. \/ \E device \in Devices \cup {None}, right \in BOOLEAN :
              (right => device \in Devices) /\ BeginLogin(r, device, right)
        \/ \E kind \in Kinds : BeginRequest(r, kind)
        \/ \E x \in Tokens : BeginMagicLink(r, x)
        \/ \E x \in Tokens \cup {0} : BeginLoginOtp(r, x)
    BY DEF Arrive
  <2> QED BY <1>1, <1>2, <1>3, <1>4, <1>5, <2>1, <2>2

(* No link or code that was sent is unsent. *)
RowsStay == \A x \in Tokens : tokens[x].state # "none" => tokens'[x].state # "none"

(* One request comes to a step, and the others wait. *)
LEMMA OneComes ==
    ASSUME Typed, RowsStay, NEW r \in Requests, NEW step \in Steps \ {"idle"}, NEW j \in Job,
           Proceed(r, step, j), Knows(step, j)
    PROVE  RequestsTyped'
<1>1. pc' \in [Requests -> Steps] /\ job' \in [Requests -> Job]
  BY DEF Typed, RequestsTyped, Proceed
<1>2. ASSUME NEW q \in Requests PROVE RequestTyped(q)'
  <2>1. RequestTyped(q)
    BY DEF Typed, RequestsTyped
  <2>2. CASE q = r
    BY <1>1, <2>2 DEF Proceed, Typed, RequestsTyped, RequestTyped, Knows, RowsStay
  <2>3. CASE q # r
    <3>1. pc'[q] = pc[q] /\ job'[q] = job[q]
      BY <2>3 DEF Proceed, Typed, RequestsTyped
    <3> QED BY <2>1, <3>1 DEF RequestTyped, Knows, RowsStay
  <2> QED BY <2>2, <2>3
<1> QED BY <1>1, <1>2 DEF RequestsTyped

(* Going on keeps the request as it is. *)
LEMMA GoingOn ==
    ASSUME Typed, NEW r \in Requests, NEW step, Goto(r, step)
    PROVE  Proceed(r, step, job[r])
BY DEF Typed, RequestsTyped, Proceed, Goto

(* One request ends, and the others wait. *)
LEMMA OneEnds ==
    ASSUME Typed, RowsStay, NEW r \in Requests, Finish(r)
    PROVE  RequestsTyped'
<1>1. pc' \in [Requests -> Steps] /\ job' \in [Requests -> Job]
  BY NoJobIsOne DEF Typed, RequestsTyped, Finish, Steps
<1>2. ASSUME NEW q \in Requests PROVE RequestTyped(q)'
  <2>1. RequestTyped(q)
    BY DEF Typed, RequestsTyped
  <2>2. CASE q = r
    BY <1>1, <2>2 DEF Finish, Typed, RequestsTyped, RequestTyped
  <2>3. CASE q # r
    <3>1. pc'[q] = pc[q] /\ job'[q] = job[q]
      BY <2>3 DEF Finish, Typed, RequestsTyped
    <3> QED BY <2>1, <3>1 DEF RequestTyped, Knows, RowsStay
  <2> QED BY <2>2, <2>3
<1> QED BY <1>1, <1>2 DEF RequestsTyped

(* While nobody moves, the requests stay typed. *)
LEMMA AllWait ==
    ASSUME Typed, RowsStay, UNCHANGED <<pc, job>>
    PROVE  RequestsTyped'
<1>1. \A q \in Requests : RequestTyped(q)'
  BY DEF Typed, RequestsTyped, RequestTyped, Knows, RowsStay
<1> QED BY <1>1 DEF Typed, RequestsTyped

(* requestToken deletes the rows of its snapshot and inserts one. *)
LEMMA Replaced ==
    ASSUME Typed, NEW r \in Requests, NEW x \in Tokens, requestToken(r, x)
    PROVE  /\ pc[r] = "replace" /\ tokens[x].state = "none"
           /\ tokens' \in [Tokens -> Token]
           /\ tokens'[x].state = "open" /\ tokens'[x].attempts = 0
           /\ \A y \in Tokens \ {x} :
                 /\ tokens'[y].attempts = tokens[y].attempts
                 /\ tokens'[y].state \in {tokens[y].state, "deleted"}
           /\ Finish(r) /\ UNCHANGED <<user, seen, begun, history, overlapped>>
<1> DEFINE rest == [y \in Tokens |-> IF y \in job[r].old
                                     THEN [tokens[y] EXCEPT !.state = "deleted"] ELSE tokens[y]]
<1>1. PICK table : table = rest
  OBVIOUS
<1>2. /\ table \in [Tokens -> Token]
      /\ \A y \in Tokens : /\ table[y].attempts = tokens[y].attempts
                           /\ table[y].state \in {tokens[y].state, "deleted"}
  BY <1>1 DEF Typed, TablesTyped, Token
<1>3. PICK i : i = [NoToken EXCEPT !.kind = job[r].kind]
  OBVIOUS
<1>4. PICK row : row = [i EXCEPT !.state = "open"]
  OBVIOUS
<1>5. row \in Token /\ row.state = "open" /\ row.attempts = 0
  <2>1. i \in Token /\ i.attempts = 0
    BY <1>3 DEF Typed, RequestsTyped, Job, NoToken, Token
  <2> QED BY <1>4, <2>1 DEF Token
<1>6. row = [NoToken EXCEPT !.kind = job[r].kind, !.state = "open"]
  BY <1>3, <1>4, Zenon
<1>7. tokens' = [table EXCEPT ![x] = row]
  BY <1>1, <1>6, Zenon DEF requestToken
<1>8. /\ tokens' \in [Tokens -> Token]
      /\ tokens'[x].state = "open" /\ tokens'[x].attempts = 0
      /\ \A y \in Tokens \ {x} :
            /\ tokens'[y].attempts = tokens[y].attempts
            /\ tokens'[y].state \in {tokens[y].state, "deleted"}
  <2> HIDE DEF rest
  <2> QED BY <1>2, <1>5, <1>7
<1> QED BY <1>8 DEF requestToken, At

(* FindCode comes upon the latest open code, and lets guesses of it be     *)
(* counted while it has some left.                                         *)
LEMMA Found ==
    ASSUME Typed, NEW r \in Requests, FindCode(r)
    PROVE  /\ pc[r] = "findCode" /\ UNCHANGED <<tables, begun, history, overlapped>>
           /\ \/ Finish(r)
              \/ \E step \in {"exhaust", "claim", "count"}, x \in Tokens, j \in Job :
                    /\ Proceed(r, step, j) /\ j.token = x /\ j.op = job[r].op
                    /\ tokens[x].state = "open"
                    /\ step = "count" => tokens[x].attempts < MaxAttempts
<1>1. PICK open \in SUBSET Tokens : open = {x \in Tokens : Open(x, "code")}
  OBVIOUS
<1>2. PICK x : x = Max(open)
  OBVIOUS
<1>3. ASSUME ~ Finish(r)
      PROVE  /\ open # {}
             /\ pc' = [pc EXCEPT ![r] = IF tokens[x].attempts >= MaxAttempts THEN "exhaust"
                                        ELSE IF job[r].token = x THEN "claim" ELSE "count"]
             /\ job' = [job EXCEPT ![r].token = x]
  BY <1>1, <1>2, <1>3, Zenon DEF FindCode
<1>4. ASSUME ~ Finish(r)
      PROVE  \E step \in {"exhaust", "claim", "count"}, y \in Tokens, j \in Job :
                    /\ Proceed(r, step, j) /\ j.token = y /\ j.op = job[r].op
                    /\ tokens[y].state = "open"
                    /\ step = "count" => tokens[y].attempts < MaxAttempts
  <2>1. x \in open
    BY <1>2, <1>3, <1>4, LatestIsOne
  <2>2. x \in Tokens /\ tokens[x].state = "open"
    BY <1>1, <2>1 DEF Open
  <2>3. PICK step : step = IF tokens[x].attempts >= MaxAttempts THEN "exhaust"
                           ELSE IF job[r].token = x THEN "claim" ELSE "count"
    OBVIOUS
  <2>4. step \in {"exhaust", "claim", "count"}
        /\ (step = "count" => tokens[x].attempts < MaxAttempts)
    BY <2>2, <2>3, Numbers DEF Typed, TablesTyped, Token
  <2>5. PICK i : i = job[r]
    OBVIOUS
  <2>6. PICK j : j = [i EXCEPT !.token = x]
    OBVIOUS
  <2>7. x \in 0 .. MaxTokens
    BY <2>2 DEF Tokens
  <2>8. j \in Job /\ j.token = x /\ j.op = job[r].op
    BY <2>5, <2>6, <2>7 DEF Typed, RequestsTyped, Job
  <2>9. job' = [job EXCEPT ![r] = j]
    BY <1>3, <1>4, <2>5, <2>6, Zenon
  <2>10. Proceed(r, step, j)
    BY <1>3, <1>4, <2>3, <2>9 DEF Proceed
  <2> QED BY <2>2, <2>4, <2>8, <2>10
<1> QED BY <1>4 DEF FindCode, At

(* What is done to a link or a code, when it is not replaced. *)
LEMMA RowWrites ==
    ASSUME Typed, NEW r \in Requests,
           ExhaustCode(r) \/ CountAttempt(r) \/ ClaimToken(r)
    PROVE  \E x \in Tokens :
              /\ x = job[r].token /\ tokens[x].state # "none"
              /\ tokens' \in [Tokens -> Token]
              /\ \A y \in Tokens \ {x} : tokens'[y] = tokens[y]
              /\ ExhaustCode(r) => /\ tokens'[x].attempts = tokens[x].attempts
                                   /\ tokens'[x].state \in {"deleted", "consumed"}
                                   /\ tokens[x].state = "deleted" => tokens'[x].state = "deleted"
              /\ CountAttempt(r) =>
                    /\ tokens'[x].state = tokens[x].state
                    /\ tokens[x].state # "deleted" => tokens'[x].attempts = tokens[x].attempts + 1
              /\ ClaimToken(r) =>
                    /\ tokens'[x].attempts = tokens[x].attempts
                    /\ \/ /\ tokens[x].state = "open" /\ tokens'[x].state = "consumed"
                          /\ accepted' = [accepted EXCEPT ![x] = @ + 1]
                       \/ tokens'[x].state = tokens[x].state /\ accepted' = accepted
<1>1. PICK x : x = job[r].token
  OBVIOUS
<1>2. x \in Tokens /\ tokens[x].state # "none"
  <2>1. pc[r] \in {"claim", "exhaust", "count"}
    BY DEF ExhaustCode, CountAttempt, ClaimToken, At
  <2>2. RequestTyped(r)
    BY DEF Typed, RequestsTyped
  <2> QED BY <1>1, <2>1, <2>2 DEF RequestTyped, Knows
<1>3. PICK row : row = tokens[x]
  OBVIOUS
<1>4. row \in Token
  BY <1>2, <1>3 DEF Typed, TablesTyped
<1>5. CASE ExhaustCode(r)
  <2>1. PICK state : state = IF row.state = "deleted" THEN row.state ELSE "consumed"
    OBVIOUS
  <2>2. tokens' = [tokens EXCEPT ![x] = [row EXCEPT !.state = state]]
    BY <1>1, <1>3, <1>5, <2>1, Zenon DEF ExhaustCode
  <2>3. PICK new : new = [row EXCEPT !.state = state]
    OBVIOUS
  <2>4. new \in Token /\ new.attempts = row.attempts /\ new.state = state
    BY <1>4, <2>1, <2>3 DEF Token
  <2>5. ~ CountAttempt(r) /\ ~ ClaimToken(r)
    BY <1>5 DEF ExhaustCode, CountAttempt, ClaimToken, At
  <2> QED BY <1>1, <1>2, <1>3, <1>4, <2>1, <2>2, <2>3, <2>4, <2>5 DEF Typed, TablesTyped
<1>6. CASE CountAttempt(r)
  <2>1. ~ ExhaustCode(r) /\ ~ ClaimToken(r)
    BY <1>6 DEF ExhaustCode, CountAttempt, ClaimToken, At
  <2>2. CASE row.state = "deleted"
    <3>1. tokens' = tokens
      BY <1>1, <1>3, <1>6, <2>2, Zenon DEF CountAttempt
    <3> QED BY <1>1, <1>2, <1>3, <2>1, <2>2, <3>1 DEF Typed, TablesTyped
  <2>3. CASE row.state # "deleted"
    <3>1. tokens' = [tokens EXCEPT ![x] = [row EXCEPT !.attempts = Counted(row.attempts)]]
      BY <1>1, <1>3, <1>6, <2>3, Zenon DEF CountAttempt
    <3>2. PICK new : new = [row EXCEPT !.attempts = Counted(row.attempts)]
      OBVIOUS
    <3>3. new \in Token /\ new.attempts = row.attempts + 1 /\ new.state = row.state
      BY <1>4, <3>2 DEF Token, Counted
    <3> QED BY <1>1, <1>2, <1>3, <2>1, <3>1, <3>2, <3>3 DEF Typed, TablesTyped
  <2> QED BY <2>2, <2>3
<1>7. CASE ClaimToken(r)
  <2>1. ~ ExhaustCode(r) /\ ~ CountAttempt(r)
    BY <1>7 DEF ExhaustCode, CountAttempt, ClaimToken, At
  <2>2. CASE ~ Claimable(x)
    <3>1. tokens' = tokens /\ accepted' = accepted
      BY <1>1, <1>7, <2>2, Zenon DEF ClaimToken
    <3> QED BY <1>1, <1>2, <1>3, <2>1, <3>1 DEF Typed, TablesTyped
  <2>3. CASE Claimable(x)
    <3>1. /\ tokens' = [tokens EXCEPT ![x] = [row EXCEPT !.state = "consumed"]]
          /\ accepted' = [accepted EXCEPT ![x] = @ + 1]
      BY <1>1, <1>3, <1>7, <2>3, Zenon DEF ClaimToken
    <3>2. PICK new : new = [row EXCEPT !.state = "consumed"]
      OBVIOUS
    <3>3. new \in Token /\ new.attempts = row.attempts /\ new.state = "consumed"
      BY <1>4, <3>2 DEF Token
    <3>4. row.state = "open"
      BY <1>3, <2>3 DEF Claimable
    <3> QED BY <1>1, <1>2, <1>3, <2>1, <3>1, <3>2, <3>3, <3>4 DEF Typed, TablesTyped
  <2> QED BY <2>2, <2>3
<1> QED BY <1>5, <1>6, <1>7

(* A success needs the counter that it read no longer. *)
LEMMA FailuresForgotten ==
    ASSUME Typed, NEW r \in Requests, clearFailedAttempts(r)
    PROVE  \E j \in Job : /\ Proceed(r, "check", j)
                          /\ j.op = job[r].op /\ j.device = job[r].device
<1>1. PICK i : i = job[r]
  OBVIOUS
<1>2. PICK j : j = [i EXCEPT !.user = Unset]
  OBVIOUS
<1>3. i \in Job /\ Unset \in Users
  BY <1>1, NoJobIsOne DEF Typed, RequestsTyped, Job
<1>4. j \in Job /\ j.op = i.op /\ j.device = i.device
  BY <1>2, <1>3 DEF Job
<1>5. Proceed(r, "check", j)
  BY <1>1, <1>2, Zenon DEF clearFailedAttempts
<1> QED BY <1>1, <1>4, <1>5

(* The request goes on with what became of the alert. *)
LEMMA CheckEnds ==
    ASSUME Typed, NEW r \in Requests, NEW alert \in Alerts, EndCheck(r, alert)
    PROVE  \E j \in Job : /\ Proceed(r, "record", j) /\ j.alert = alert
                          /\ j.op = job[r].op /\ j.device = job[r].device
<1>1. PICK i : i = job[r]
  OBVIOUS
<1>2. PICK j : j = [i EXCEPT !.alert = alert]
  OBVIOUS
<1>3. i \in Job
  BY <1>1 DEF Typed, RequestsTyped
<1>4. j \in Job /\ j.alert = alert /\ j.op = i.op /\ j.device = i.device
  BY <1>2, <1>3 DEF Job
<1>5. Proceed(r, "record", j)
  BY <1>1, <1>2, Zenon DEF EndCheck
<1> QED BY <1>1, <1>4, <1>5

(* All it needs from then on is what it is. *)
LEMMA DeviceRecorded ==
    ASSUME Typed, NEW r \in Requests, recordLoginAttempt(r)
    PROVE  \E j \in Job : Proceed(r, "finalize", j) /\ j.op = job[r].op
<1>1. PICK op : op = job[r].op
  OBVIOUS
<1>2. PICK i : i = NoJob
  OBVIOUS
<1>3. PICK j : j = [i EXCEPT !.op = op]
  OBVIOUS
<1>4. i \in Job /\ op \in Logins \cup {"none", "request", "link", "code"}
  BY <1>1, <1>2, NoJobIsOne DEF Typed, RequestsTyped, Job
<1>5. j \in Job /\ j.op = op
  BY <1>3, <1>4 DEF Job
<1>6. Proceed(r, "finalize", j)
  BY <1>1, <1>2, <1>3, Zenon DEF recordLoginAttempt
<1> QED BY <1>1, <1>5, <1>6

(* Each statement keeps the types, and no row is unsent. *)
LEMMA LoginTyped ==
    ASSUME Typed, NEW r \in Requests,
           \/ registerFailedAttempt(r) \/ clearFailedAttempts(r)
           \/ checkSuspiciousLogin(r) \/ sendSuspiciousLoginEmail(r)
           \/ recordLoginAttempt(r) \/ finalizeLogin(r)
    PROVE  Typed'
<1> USE DEF At, tables, history
<1>1. RowsStay
  BY DEF RowsStay, registerFailedAttempt, clearFailedAttempts, checkSuspiciousLogin,
         sendSuspiciousLoginEmail, recordLoginAttempt, finalizeLogin
<1>2. job[r] \in Job /\ RequestTyped(r) /\ Unset \in Users
  BY NoJobIsOne DEF Typed, RequestsTyped, Job
<1>3. CASE registerFailedAttempt(r)
  <2>1. RequestsTyped'
    BY <1>1, <1>3, OneEnds DEF registerFailedAttempt
  <2>2. user' \in Users /\ LockGoesWithCount'
    BY <1>2, <1>3, Numbers
    DEF registerFailedAttempt, AfterFailure, Users, Typed, TablesTyped, Job, LockGoesWithCount
  <2>3. TablesTyped'
    BY <1>3, <2>2 DEF registerFailedAttempt, Typed, TablesTyped
  <2> QED BY <2>1, <2>3 DEF Typed
<1>4. CASE clearFailedAttempts(r)
  <2>1. PICK j \in Job : /\ j.op = job[r].op /\ j.device = job[r].device
                         /\ Proceed(r, "check", j)
    BY <1>4, FailuresForgotten
  <2>2. Knows("check", j)
    BY <1>2, <1>4, <2>1 DEF clearFailedAttempts, RequestTyped, Knows
  <2>3. RequestsTyped'
    BY <1>1, <2>1, <2>2, OneComes DEF Steps
  <2>4. user' \in Users /\ LockGoesWithCount'
    BY <1>2, <1>4, Numbers
    DEF clearFailedAttempts, Cleared, Typed, TablesTyped, Unset, LockGoesWithCount
  <2>5. TablesTyped'
    BY <1>4, <2>4 DEF clearFailedAttempts, Typed, TablesTyped
  <2> QED BY <2>3, <2>5 DEF Typed
<1>5. CASE checkSuspiciousLogin(r) \/ sendSuspiciousLoginEmail(r)
  <2>1. TablesTyped'
    BY <1>5 DEF checkSuspiciousLogin, sendSuspiciousLoginEmail, Typed, TablesTyped,
                LockGoesWithCount
  <2>2. CASE Goto(r, "match")
    <3>1. Knows("match", job[r])
      BY <1>2, <1>5 DEF checkSuspiciousLogin, sendSuspiciousLoginEmail, RequestTyped, Knows
    <3> QED BY <1>1, <1>2, <2>1, <2>2, <3>1, GoingOn, OneComes DEF Steps, Typed
  <2>3. ASSUME NEW alert \in Alerts, EndCheck(r, alert) PROVE Typed'
    <3>1. PICK j \in Job : /\ Proceed(r, "record", j)
                           /\ j.op = job[r].op /\ j.device = job[r].device
      BY <1>2, <2>3, CheckEnds
    <3>2. Knows("record", j)
      BY <1>2, <1>5, <3>1
      DEF checkSuspiciousLogin, sendSuspiciousLoginEmail, RequestTyped, Knows
    <3> QED BY <1>1, <2>1, <3>1, <3>2, OneComes DEF Steps, Typed
  <2> QED BY <1>5, <2>2, <2>3 DEF checkSuspiciousLogin, sendSuspiciousLoginEmail, Alerts
<1>6. CASE recordLoginAttempt(r)
  <2>1. PICK j \in Job : Proceed(r, "finalize", j)
    BY <1>6, DeviceRecorded
  <2>2. RequestsTyped'
    BY <1>1, <2>1, OneComes DEF Steps, Knows
  <2>3. job[r].device \in Devices
    BY <1>2, <1>6 DEF recordLoginAttempt, RequestTyped, Knows
  <2>4. TablesTyped'
    BY <1>6, <2>3 DEF recordLoginAttempt, Typed, TablesTyped, LockGoesWithCount
  <2> QED BY <2>2, <2>4 DEF Typed
<1>7. CASE finalizeLogin(r)
  <2>1. RequestsTyped'
    BY <1>1, <1>7, OneEnds DEF finalizeLogin
  <2> QED BY <1>7, <2>1 DEF finalizeLogin, Typed, TablesTyped, LockGoesWithCount
<1> QED BY <1>3, <1>4, <1>5, <1>6, <1>7

(* The same for the statements about links and codes. *)
LEMMA TokenTyped ==
    ASSUME Typed, NEW r \in Requests,
           \/ \E x \in Tokens : requestToken(r, x)
           \/ FindCode(r) \/ ExhaustCode(r) \/ CountAttempt(r) \/ ClaimToken(r)
    PROVE  Typed'
<1> USE DEF At, tables, history
<1>1. ASSUME NEW x \in Tokens, requestToken(r, x) PROVE Typed'
  <2>1. RowsStay /\ Finish(r)
    BY <1>1, Replaced DEF RowsStay
  <2>2. TablesTyped'
    BY <1>1, Replaced DEF Typed, TablesTyped, LockGoesWithCount
  <2> QED BY <2>1, <2>2, OneEnds DEF Typed
<1>2. CASE FindCode(r)
  <2>1. RowsStay /\ TablesTyped'
    BY <1>2, Found DEF RowsStay, Typed, TablesTyped, LockGoesWithCount
  <2>2. CASE Finish(r)
    BY <2>1, <2>2, OneEnds DEF Typed
  <2>3. CASE ~ Finish(r)
    <3>1. PICK step \in {"exhaust", "claim", "count"}, x \in Tokens, j \in Job :
               Proceed(r, step, j) /\ j.token = x /\ tokens[x].state = "open"
      BY <1>2, <2>3, Found
    <3>2. Knows(step, j) /\ step \in Steps \ {"idle"}
      BY <3>1 DEF Knows, Steps
    <3> QED BY <2>1, <3>1, <3>2, OneComes DEF Typed
  <2> QED BY <2>2, <2>3
<1>3. CASE ExhaustCode(r) \/ CountAttempt(r) \/ ClaimToken(r)
  <2>1. PICK x \in Tokens :
              /\ x = job[r].token /\ tokens[x].state # "none"
              /\ tokens' \in [Tokens -> Token]
              /\ \A y \in Tokens \ {x} : tokens'[y] = tokens[y]
              /\ ExhaustCode(r) => tokens'[x].state \in {"deleted", "consumed"}
              /\ CountAttempt(r) => tokens'[x].state = tokens[x].state
              /\ ClaimToken(r) => tokens'[x].state \in {"consumed", tokens[x].state}
    BY <1>3, RowWrites
  <2>2. RowsStay
    BY <1>3, <2>1 DEF RowsStay
  <2>3. /\ UNCHANGED <<user, seen, begun, streak, unnoticed>>
        /\ guessed' = guessed \/ guessed' = [guessed EXCEPT ![x] = @ + 1]
        /\ accepted' = accepted \/ accepted' = [accepted EXCEPT ![x] = @ + 1]
    BY <1>3, <2>1 DEF ExhaustCode, CountAttempt, ClaimToken
  <2>4. TablesTyped'
    BY <2>1, <2>3 DEF Typed, TablesTyped, LockGoesWithCount
  <2>5. CASE Finish(r)
    BY <2>2, <2>4, <2>5, OneEnds DEF Typed
  <2>6. CASE Goto(r, "finalize")
    <3>1. Knows("finalize", job[r]) /\ job[r] \in Job
      BY DEF Knows, Typed, RequestsTyped
    <3> QED BY <2>2, <2>4, <2>6, <3>1, GoingOn, OneComes DEF Typed, Steps
  <2> QED BY <1>3, <2>5, <2>6 DEF ExhaustCode, CountAttempt, ClaimToken
<1> QED BY <1>1, <1>2, <1>3

(* Every step keeps the types. *)
LEMMA TypedStep == Typed /\ [Next]_vars => Typed'
<1> SUFFICES ASSUME Typed, [Next]_vars PROVE Typed'
  OBVIOUS
<1> USE DEF tables, history
<1>1. ASSUME NEW r \in Requests, Arrive(r) PROVE Typed'
  <2>1. PICK step \in Steps \ {"idle"}, j \in Job : Knows(step, j) /\ Begin(r, step, j)
    BY <1>1, Arrives
  <2>2. RowsStay /\ Proceed(r, step, j)
    BY <2>1 DEF Begin, RowsStay, Proceed
  <2>3. RequestsTyped'
    BY <2>1, <2>2, OneComes
  <2> QED BY <2>1, <2>3, Numbers DEF Begin, Typed, TablesTyped, LockGoesWithCount
<1>2. ASSUME NEW r \in Requests, Continue(r) PROVE Typed'
  BY <1>2, LoginTyped, TokenTyped DEF Continue
<1>3. ASSUME NEW r \in Requests, Crash(r) PROVE Typed'
  <2>1. RowsStay /\ Finish(r)
    BY <1>3 DEF Crash, RowsStay
  <2> QED BY <1>3, <2>1, OneEnds DEF Crash, Typed, TablesTyped, LockGoesWithCount
<1>4. CASE unlockUser
  <2>1. RowsStay /\ UNCHANGED <<pc, job>>
    BY <1>4 DEF unlockUser, RowsStay
  <2> QED BY <1>4, <2>1, AllWait, Numbers
          DEF unlockUser, Unlocked, Unset, Users, Typed, TablesTyped, LockGoesWithCount
<1>5. CASE ExpireLock
  <2>1. RowsStay /\ UNCHANGED <<pc, job>>
    BY <1>5 DEF ExpireLock, RowsStay
  <2> QED BY <1>5, <2>1, AllWait
          DEF ExpireLock, Users, Typed, TablesTyped, LockGoesWithCount
<1>6. ASSUME NEW x \in Tokens, ExpireToken(x) PROVE Typed'
  <2>1. tokens' \in [Tokens -> Token] /\ RowsStay /\ UNCHANGED <<pc, job>>
    BY <1>6 DEF ExpireToken, RowsStay, Typed, TablesTyped, Token
  <2> QED BY <1>6, <2>1, AllWait DEF ExpireToken, Typed, TablesTyped, LockGoesWithCount
<1>7. CASE UNCHANGED vars
  <2>1. RowsStay
    BY <1>7 DEF vars, RowsStay
  <2> QED BY <1>7, <2>1, AllWait DEF vars, Typed, TablesTyped, LockGoesWithCount
<1> QED BY <1>1, <1>2, <1>3, <1>4, <1>5, <1>6, <1>7 DEF Next

-------------------------------------------------------------------------------
(* Links and codes. *)

(* Nothing is in flight, accepted or guessed at first. *)
LEMMA InitTokensHold == Init => TokensHold
<1> SUFFICES ASSUME Init, NEW x \in Tokens
             PROVE  /\ accepted[x] = 0 /\ tokens[x].attempts = 0 /\ guessed[x] = 0
                    /\ Cardinality(Counting(x)) <= MaxAttempts + Cardinality(Requests) - 1
  <2>1. \A x \in Tokens : Init => Cardinality(Counting(x)) \in Nat
    <3>1. \A x \in Tokens : Counting(x) \subseteq Requests
      BY DEF Counting
    <3> QED BY <3>1, FinitelyMany, FS_Subset, FS_CardinalityType
  <2> QED BY <2>1 DEF TokensHold
<1>1. Counting(x) = {}
  BY DEF Init, Counting
<1>2. Cardinality(Counting(x)) = 0
  <2> HIDE DEF Counting
  <2> QED BY <1>1, FS_EmptySet
<1>3. Cardinality(Requests) \in Nat
  BY FinitelyMany, FS_CardinalityType
<1> QED BY <1>2, <1>3, Numbers DEF Init, NoToken

(* What a row says of a link or a code, but for how many are counting.     *)
RowHolds(x) ==
    /\ accepted[x] <= 1
    /\ accepted[x] = 1 => tokens[x].state \in {"consumed", "deleted"}
    /\ tokens[x].state = "none" => tokens[x].attempts = 0
    /\ tokens[x].state # "deleted" => guessed[x] = tokens[x].attempts

GuessesFew(x) == guessed[x] + Cardinality(Counting(x)) <= MaxAttempts + Cardinality(Requests) - 1

(* Those who count are few, and fewer when one of them is gone. *)
LEMMA CountingIsFinite ==
    ASSUME NEW x
    PROVE  /\ IsFiniteSet(Counting(x)) /\ IsFiniteSet(Counting(x)')
           /\ Cardinality(Counting(x)) \in Nat /\ Cardinality(Counting(x)') \in Nat
           /\ Cardinality(Requests) \in Nat
           /\ Cardinality(Counting(x)') <= Cardinality(Requests)
           /\ Counting(x)' \subseteq Counting(x) =>
                 Cardinality(Counting(x)') <= Cardinality(Counting(x))
           /\ \A r \in Counting(x) : Counting(x)' \subseteq Counting(x) \ {r} =>
                 Cardinality(Counting(x)') <= Cardinality(Counting(x)) - 1
<1>1. Counting(x) \subseteq Requests /\ Counting(x)' \subseteq Requests
  BY DEF Counting
<1> HIDE DEF Counting
<1>2. /\ IsFiniteSet(Counting(x)) /\ IsFiniteSet(Counting(x)')
      /\ Cardinality(Counting(x)') <= Cardinality(Requests)
  BY <1>1, FinitelyMany, FS_Subset
<1>3. /\ Cardinality(Counting(x)) \in Nat /\ Cardinality(Counting(x)') \in Nat
      /\ Cardinality(Requests) \in Nat
  BY <1>2, FinitelyMany, FS_CardinalityType
<1>4. Counting(x)' \subseteq Counting(x) => Cardinality(Counting(x)') <= Cardinality(Counting(x))
  BY <1>2, FS_Subset
<1>5. ASSUME NEW r \in Counting(x), Counting(x)' \subseteq Counting(x) \ {r}
      PROVE  Cardinality(Counting(x)') <= Cardinality(Counting(x)) - 1
  <2>1. Cardinality(Counting(x) \ {r}) = Cardinality(Counting(x)) - 1
        /\ IsFiniteSet(Counting(x) \ {r})
    BY <1>2, FS_RemoveElement
  <2> QED BY <1>5, <2>1, FS_Subset
<1> QED BY <1>2, <1>3, <1>4, <1>5

(* As many guesses, and no one else counting. *)
LEMMA NoMoreGuesses ==
    ASSUME Typed, NEW x \in Tokens, GuessesFew(x), guessed'[x] = guessed[x],
           Counting(x)' \subseteq Counting(x)
    PROVE  GuessesFew(x)'
<1>1. guessed[x] \in Nat
  BY DEF Typed, TablesTyped
<1> HIDE DEF Counting
<1> QED BY <1>1, CountingIsFinite, Numbers DEF GuessesFew

(* A request comes to count a guess from nowhere but the search. *)
LEMMA WhoCounts ==
    ASSUME Typed, NEW r \in Requests, Arrive(r) \/ Continue(r) \/ Crash(r),
           Finish(r) \/ ~ FindCode(r), NEW x \in Tokens
    PROVE  Counting(x)' \subseteq Counting(x) \ {r}
<1> SUFFICES (\A q \in Requests \ {r} : pc'[q] = pc[q] /\ job'[q] = job[q]) /\ pc'[r] # "count"
  BY DEF Counting
<1>1. ASSUME NEW step \in Steps \ {"count"}, NEW j, Proceed(r, step, j)
      PROVE  (\A q \in Requests \ {r} : pc'[q] = pc[q] /\ job'[q] = job[q]) /\ pc'[r] # "count"
  BY <1>1 DEF Proceed, Typed, RequestsTyped
<1>2. CASE Finish(r)
  BY <1>1, <1>2 DEF Finish, Proceed, Steps
<1>3. CASE \E step \in {"check", "match", "record", "finalize"} :
             Goto(r, step) \/ \E j : Proceed(r, step, j)
  BY <1>1, <1>3, GoingOn DEF Steps
<1>4. CASE Arrive(r)
  <2>1. PICK step \in Steps \ {"idle"}, j \in Job : Begin(r, step, j) /\ step # "count"
    BY <1>4, Arrives
  <2> QED BY <1>1, <2>1 DEF Begin, Proceed
<1>5. CASE Crash(r)
  BY <1>2, <1>5 DEF Crash
<1>6. CASE Continue(r)
  BY <1>2, <1>3, <1>6 DEF Continue, registerFailedAttempt, clearFailedAttempts,
     checkSuspiciousLogin, sendSuspiciousLoginEmail, EndCheck, recordLoginAttempt,
     finalizeLogin, requestToken, ExhaustCode, CountAttempt, ClaimToken
<1> QED BY <1>4, <1>5, <1>6

(* Most steps leave the links and codes as they are. *)
TokensQuiet ==
    /\ UNCHANGED <<accepted, guessed>>
    /\ \A x \in Tokens : /\ tokens'[x].state = tokens[x].state
                         /\ tokens'[x].attempts = tokens[x].attempts
                         /\ Counting(x)' \subseteq Counting(x)

(* They keep what the tables say of them. *)
LEMMA QuietTokens ==
    ASSUME Typed, TokensHold, TokensQuiet
    PROVE  TokensHold'
<1> SUFFICES ASSUME NEW x \in Tokens PROVE RowHolds(x)' /\ GuessesFew(x)'
  BY DEF TokensHold, RowHolds, GuessesFew
<1>1. RowHolds(x) /\ GuessesFew(x)
  BY DEF TokensHold, RowHolds, GuessesFew
<1>2. RowHolds(x)'
  BY <1>1 DEF RowHolds, TokensQuiet
<1> QED BY <1>1, <1>2, NoMoreGuesses DEF TokensQuiet

(* A link or a code that was accepted is never open again, and guesses     *)
(* stay few.                                                               *)
LEMMA TokensHoldStep == Typed /\ TokensHold /\ [Next]_vars => TokensHold'
<1> SUFFICES ASSUME Typed, TokensHold, [Next]_vars PROVE TokensHold'
  OBVIOUS
<1> USE DEF tables, history
<1>0. \A x \in Tokens : RowHolds(x) /\ GuessesFew(x) /\ accepted[x] \in Nat /\ guessed[x] \in Nat
                        /\ tokens[x].attempts \in Nat
  BY DEF TokensHold, RowHolds, GuessesFew, Typed, TablesTyped, Token
<1>a. (\A x \in Tokens : RowHolds(x)' /\ GuessesFew(x)') => TokensHold'
  BY DEF TokensHold, RowHolds, GuessesFew
<1>1. CASE unlockUser \/ ExpireLock \/ UNCHANGED vars
  <2>1. UNCHANGED <<tokens, accepted, guessed, pc, job>>
    BY <1>1 DEF unlockUser, ExpireLock, vars
  <2>2. TokensQuiet
    BY <2>1 DEF TokensQuiet, Counting
  <2> QED BY <2>2, QuietTokens
<1>2. ASSUME NEW y \in Tokens, ExpireToken(y) PROVE TokensHold'
  <2>1. UNCHANGED <<accepted, guessed, pc, job>>
    BY <1>2 DEF ExpireToken
  <2>2. \A x \in Tokens : /\ tokens'[x].state = tokens[x].state
                          /\ tokens'[x].attempts = tokens[x].attempts
    BY <1>2 DEF ExpireToken, Typed, TablesTyped, Token
  <2> QED BY <2>1, <2>2, QuietTokens DEF TokensQuiet, Counting
<1>3. ASSUME NEW r \in Requests,
             \/ Arrive(r) \/ Crash(r) \/ registerFailedAttempt(r) \/ clearFailedAttempts(r)
             \/ checkSuspiciousLogin(r) \/ sendSuspiciousLoginEmail(r)
             \/ recordLoginAttempt(r) \/ finalizeLogin(r)
      PROVE  TokensHold'
  <2>1. UNCHANGED <<tokens, accepted, guessed>>
    <3>1. CASE Arrive(r)
      BY <3>1, Arrives DEF Begin
    <3> QED BY <1>3, <3>1 DEF Crash, registerFailedAttempt, clearFailedAttempts,
            checkSuspiciousLogin, sendSuspiciousLoginEmail, recordLoginAttempt,
            finalizeLogin
  <2>2. Finish(r) \/ ~ FindCode(r)
    <3>1. Arrive(r) => pc[r] = "idle"
      BY Arrives
    <3> QED BY <1>3, <3>1 DEF Crash, FindCode, At, registerFailedAttempt, clearFailedAttempts,
            checkSuspiciousLogin, sendSuspiciousLoginEmail, recordLoginAttempt,
            finalizeLogin
  <2>3. \A x \in Tokens : Counting(x)' \subseteq Counting(x)
    BY <1>3, <2>2, WhoCounts DEF Continue
  <2> QED BY <2>1, <2>3, QuietTokens DEF TokensQuiet
<1>4. ASSUME NEW r \in Requests, NEW y \in Tokens, requestToken(r, y) PROVE TokensHold'
  <2>1. /\ pc[r] = "replace" /\ Finish(r) /\ UNCHANGED <<accepted, guessed>>
        /\ tokens[y].state = "none" /\ tokens'[y].state = "open" /\ tokens'[y].attempts = 0
        /\ \A x \in Tokens \ {y} : /\ tokens'[x].attempts = tokens[x].attempts
                                   /\ tokens'[x].state \in {tokens[x].state, "deleted"}
    BY <1>4, Replaced
  <2>2. \A x \in Tokens : RowHolds(x)'
    BY <1>0, <2>1 DEF RowHolds
  <2>3. \A x \in Tokens : Counting(x)' \subseteq Counting(x)
    BY <1>4, <2>1, WhoCounts DEF Continue
  <2> QED BY <1>0, <1>a, <2>1, <2>2, <2>3, NoMoreGuesses
<1>5. ASSUME NEW r \in Requests, FindCode(r) PROVE TokensHold'
  <2>1. UNCHANGED <<tokens, accepted, guessed>>
    BY <1>5, Found
  <2>2. CASE Finish(r)
    BY <1>5, <2>1, <2>2, WhoCounts, QuietTokens DEF TokensQuiet, Continue
  <2>3. CASE ~ Finish(r)
    <3>1. PICK step \in {"exhaust", "claim", "count"}, y \in Tokens, j \in Job :
               /\ Proceed(r, step, j) /\ j.token = y /\ tokens[y].state = "open"
               /\ step = "count" => tokens[y].attempts < MaxAttempts
      BY <1>5, <2>3, Found
    <3>2. \A x \in Tokens : Counting(x)' \subseteq Counting(x) \/ (x = y /\ step = "count")
      BY <3>1 DEF Proceed, Counting, Typed, RequestsTyped
    <3>3. \A x \in Tokens : RowHolds(x)'
      BY <1>0, <2>1 DEF RowHolds
    <3>4. ASSUME NEW x \in Tokens PROVE GuessesFew(x)'
      <4>1. CASE Counting(x)' \subseteq Counting(x)
        BY <1>0, <2>1, <4>1, NoMoreGuesses
      <4>2. CASE x = y /\ step = "count"
        <5>1. guessed'[x] < MaxAttempts /\ guessed'[x] \in Nat
          BY <1>0, <2>1, <3>1, <4>2 DEF RowHolds
        <5> HIDE DEF Counting
        <5> QED BY <5>1, CountingIsFinite, Numbers DEF GuessesFew
      <4> QED BY <3>2, <4>1, <4>2
    <3> QED BY <1>a, <3>3, <3>4
  <2> QED BY <2>2, <2>3
<1>6. ASSUME NEW r \in Requests, ExhaustCode(r) \/ ClaimToken(r) PROVE TokensHold'
  <2>1. PICK y \in Tokens :
              /\ \A x \in Tokens \ {y} : tokens'[x] = tokens[x]
              /\ ExhaustCode(r) => /\ tokens'[y].attempts = tokens[y].attempts
                                   /\ tokens'[y].state \in {"deleted", "consumed"}
                                   /\ tokens[y].state = "deleted" => tokens'[y].state = "deleted"
              /\ ClaimToken(r) =>
                    /\ tokens'[y].attempts = tokens[y].attempts
                    /\ \/ /\ tokens[y].state = "open" /\ tokens'[y].state = "consumed"
                          /\ accepted' = [accepted EXCEPT ![y] = @ + 1]
                       \/ tokens'[y].state = tokens[y].state /\ accepted' = accepted
    BY <1>6, RowWrites
  <2>2. guessed' = guessed /\ (ExhaustCode(r) => accepted' = accepted) /\ ~ FindCode(r)
    BY <1>6 DEF ExhaustCode, ClaimToken, FindCode, At
  <2>3. \A x \in Tokens : Counting(x)' \subseteq Counting(x)
    BY <1>6, <2>2, WhoCounts DEF Continue
  <2>4. accepted \in [Tokens -> Nat]
    BY DEF Typed, TablesTyped
  <2>5. ASSUME NEW x \in Tokens PROVE RowHolds(x)'
    <3>1. CASE x # y
      BY <1>0, <1>6, <2>1, <2>2, <2>4, <3>1 DEF RowHolds
    <3>2. CASE x = y /\ ExhaustCode(r)
      BY <1>0, <2>1, <2>2, <3>2 DEF RowHolds
    <3>3. CASE x = y /\ ClaimToken(r)
      BY <1>0, <2>1, <2>2, <2>4, <3>3 DEF RowHolds
    <3> QED BY <1>6, <3>1, <3>2, <3>3
  <2> QED BY <1>0, <1>a, <2>2, <2>3, <2>5, NoMoreGuesses
<1>7. ASSUME NEW r \in Requests, CountAttempt(r) PROVE TokensHold'
  <2>1. PICK y \in Tokens :
              /\ y = job[r].token /\ tokens[y].state # "none"
              /\ \A x \in Tokens \ {y} : tokens'[x] = tokens[x]
              /\ tokens'[y].state = tokens[y].state
              /\ tokens[y].state # "deleted" => tokens'[y].attempts = tokens[y].attempts + 1
    BY <1>7, RowWrites
  <2>2. /\ guessed' = [guessed EXCEPT ![y] = @ + 1] /\ accepted' = accepted
        /\ r \in Counting(y) /\ ~ FindCode(r)
    BY <1>7, <2>1 DEF CountAttempt, FindCode, At, Counting
  <2>3. \A x \in Tokens : Counting(x)' \subseteq Counting(x) \ {r}
    BY <1>7, <2>2, WhoCounts DEF Continue
  <2>4. guessed'[y] = guessed[y] + 1 /\ \A x \in Tokens \ {y} : guessed'[x] = guessed[x]
    BY <2>2 DEF Typed, TablesTyped
  <2>5. \A x \in Tokens : RowHolds(x)'
    BY <1>0, <2>1, <2>2, <2>4 DEF RowHolds
  <2>6. ASSUME NEW x \in Tokens PROVE GuessesFew(x)'
    <3> HIDE DEF Counting
    <3>1. CASE x = y
      BY <1>0, <2>2, <2>3, <2>4, <3>1, CountingIsFinite, Numbers DEF GuessesFew
    <3>2. CASE x # y
      BY <1>0, <2>3, <2>4, <3>2, NoMoreGuesses
    <3> QED BY <3>1, <3>2
  <2> QED BY <1>a, <2>5, <2>6
<1> QED BY <1>1, <1>2, <1>3, <1>4, <1>5, <1>6, <1>7 DEF Next, Continue

(* A link or a code is accepted at most once, and a code takes no more     *)
(* wrong guesses than the limit and one for each other request.            *)
THEOREM LoginTokensHold == Spec => []LoginTokenHolds
<1>1. Init => Typed /\ TokensHold
  BY InitTyped, InitTokensHold
<1>2. Typed /\ TokensHold /\ [Next]_vars => (Typed /\ TokensHold)'
  BY TypedStep, TokensHoldStep
<1>3. Typed /\ TokensHold => LoginTokenHolds
  <2> SUFFICES ASSUME Typed, TokensHold PROVE LoginTokenHolds
    OBVIOUS
  <2>1. TypeOK
    BY DEF Typed, TablesTyped, RequestsTyped, TypeOK, Token, Job
  <2>2. ASSUME NEW x \in Tokens
        PROVE  accepted[x] <= 1 /\ guessed[x] <= MaxAttempts + Cardinality(Requests) - 1
    <3>1. /\ guessed[x] \in Nat /\ accepted[x] <= 1
          /\ guessed[x] + Cardinality(Counting(x)) <= MaxAttempts + Cardinality(Requests) - 1
      BY DEF TokensHold, Typed, TablesTyped
    <3> HIDE DEF Counting
    <3> QED BY <3>1, CountingIsFinite, Numbers
  <2> QED BY <2>1, <2>2 DEF LoginTokenHolds
<1> QED BY <1>1, <1>2, <1>3, PTL DEF Spec

-------------------------------------------------------------------------------
(* Signing in with the password. *)

(* Who goes on or dies leaves the others, and its operation, as they are. *)
LEMMA Moves ==
    ASSUME Typed, NEW r \in Requests, Continue(r) \/ Crash(r)
    PROVE  /\ overlapped' = overlapped
           /\ \A q \in Requests \ {r} : pc'[q] = pc[q] /\ job'[q] = job[q]
           /\ pc'[r] # "idle" => pc[r] # "idle" /\ job'[r].op = job[r].op
           /\ pc'[r] \notin {"fail", "clear"}
           /\ pc'[r] = "record" =>
                 \E alert \in Alerts : /\ EndCheck(r, alert)
                                       /\ checkSuspiciousLogin(r) \/ sendSuspiciousLoginEmail(r)
<1> USE DEF At
<1>1. overlapped' = overlapped
  BY Found, Replaced DEF Continue, Crash, registerFailedAttempt, clearFailedAttempts,
     checkSuspiciousLogin, sendSuspiciousLoginEmail, recordLoginAttempt, finalizeLogin,
     ExhaustCode, CountAttempt, ClaimToken
<1>2. ASSUME NEW step \in Steps, NEW j, Proceed(r, step, j)
      PROVE  /\ \A q \in Requests \ {r} : pc'[q] = pc[q] /\ job'[q] = job[q]
             /\ pc'[r] = step /\ job'[r] = j
  BY <1>2 DEF Proceed, Typed, RequestsTyped
<1>3. CASE Finish(r)
  BY <1>1, <1>2, <1>3 DEF Finish, Proceed, Steps
<1>4. CASE Goto(r, "match") /\ checkSuspiciousLogin(r)
  BY <1>1, <1>2, <1>4, GoingOn DEF checkSuspiciousLogin, Steps
<1>5. ASSUME NEW alert \in Alerts, EndCheck(r, alert),
             checkSuspiciousLogin(r) \/ sendSuspiciousLoginEmail(r)
      PROVE  /\ \A q \in Requests \ {r} : pc'[q] = pc[q] /\ job'[q] = job[q]
             /\ pc'[r] = "record" /\ pc[r] # "idle" /\ job'[r].op = job[r].op
  <2>1. PICK j \in Job : Proceed(r, "record", j) /\ j.op = job[r].op
    BY <1>5, CheckEnds
  <2> QED BY <1>2, <1>5, <2>1 DEF checkSuspiciousLogin, sendSuspiciousLoginEmail, Steps
<1>6. CASE clearFailedAttempts(r)
  <2>1. PICK j \in Job : Proceed(r, "check", j) /\ j.op = job[r].op
    BY <1>6, FailuresForgotten
  <2> QED BY <1>1, <1>2, <1>6, <2>1 DEF clearFailedAttempts, Steps
<1>7. CASE recordLoginAttempt(r)
  <2>1. PICK j \in Job : Proceed(r, "finalize", j) /\ j.op = job[r].op
    BY <1>7, DeviceRecorded
  <2> QED BY <1>1, <1>2, <1>7, <2>1 DEF recordLoginAttempt, Steps
<1>8. CASE ClaimToken(r) /\ ~ Finish(r)
  BY <1>1, <1>2, <1>8, GoingOn DEF ClaimToken, Steps
<1>9. CASE FindCode(r) /\ ~ Finish(r)
  <2>1. PICK step \in {"exhaust", "claim", "count"}, j \in Job :
             Proceed(r, step, j) /\ j.op = job[r].op
    BY <1>9, Found
  <2> QED BY <1>1, <1>2, <1>9, <2>1 DEF FindCode, Steps
<1>10. CASE checkSuspiciousLogin(r) \/ sendSuspiciousLoginEmail(r)
  <2>1. \/ Goto(r, "match") /\ checkSuspiciousLogin(r)
        \/ \E alert \in Alerts : EndCheck(r, alert)
    BY <1>10 DEF checkSuspiciousLogin, sendSuspiciousLoginEmail, Alerts
  <2> QED BY <1>1, <1>4, <1>5, <1>10, <2>1
<1> QED BY <1>3, <1>6, <1>7, <1>8, <1>9, <1>10 DEF Continue, Crash, registerFailedAttempt,
        finalizeLogin, requestToken, ExhaustCode, CountAttempt

(* The first request has nobody to overlap. *)
LEMMA InitOverlapsNoted == Init => OverlapsNoted
BY DEF Init, OverlapsNoted

(* Who arrives is noted with everybody in flight. *)
LEMMA OverlapsNotedStep == Typed /\ OverlapsNoted /\ [Next]_vars => OverlapsNoted'
<1> SUFFICES ASSUME Typed, OverlapsNoted, [Next]_vars,
                    NEW p \in Requests, NEW q \in Requests, p # q,
                    pc'[p] # "idle", pc'[q] # "idle", {job'[p].op, job'[q].op} \in Races
             PROVE  {job'[p].op, job'[q].op} \in overlapped'
  BY DEF OverlapsNoted
<1>1. CASE UNCHANGED <<pc, job>> /\ overlapped \subseteq overlapped'
  BY <1>1 DEF OverlapsNoted
<1>2. ASSUME NEW r \in Requests, Arrive(r) PROVE {job'[p].op, job'[q].op} \in overlapped'
  <2>1. PICK step, j : Begin(r, step, j)
    BY <1>2, Arrives
  <2>2. \A a \in Requests \ {r} : pc'[a] = pc[a] /\ job'[a] = job[a]
    BY <2>1 DEF Begin, Typed, RequestsTyped
  <2>3. job'[r] = j /\ overlapped \subseteq overlapped'
    BY <2>1 DEF Begin, Typed, RequestsTyped
  <2>4. ASSUME NEW a \in Requests \ {r}, pc'[a] # "idle", {j.op, job[a].op} \in Races
        PROVE  {j.op, job[a].op} \in overlapped'
    BY <2>1, <2>2, <2>4 DEF Begin
  <2>5. CASE p = r
    BY <2>2, <2>3, <2>4, <2>5
  <2>6. CASE q = r
    <3>1. {job'[p].op, job'[q].op} = {j.op, job[p].op}
      BY <2>2, <2>3, <2>6
    <3> QED BY <2>4, <2>6, <3>1
  <2>7. CASE p # r /\ q # r
    BY <2>2, <2>3, <2>7 DEF OverlapsNoted
  <2> QED BY <2>5, <2>6, <2>7
<1>3. ASSUME NEW r \in Requests, Continue(r) \/ Crash(r)
      PROVE  {job'[p].op, job'[q].op} \in overlapped'
  <2>1. /\ pc[p] # "idle" /\ job'[p].op = job[p].op
        /\ pc[q] # "idle" /\ job'[q].op = job[q].op
        /\ overlapped' = overlapped
    BY <1>3, Moves
  <2> QED BY <2>1 DEF OverlapsNoted
<1>4. CASE UNCHANGED vars
  BY <1>1, <1>4 DEF vars
<1> QED BY <1>1, <1>2, <1>3, <1>4 DEF Next, unlockUser, ExpireLock, ExpireToken

(* Two sign-ins in flight are not apart. *)
LEMMA TwoAtOnce ==
    ASSUME Typed, OverlapsNoted, NEW p \in Requests, NEW q \in Requests, p # q,
           pc[p] \in {"fail", "clear", "check", "match", "record"},
           pc[q] \in {"fail", "clear", "check", "match", "record"}
    PROVE  /\ pc[p] = "fail" /\ pc[q] = "fail" => ~ Apart("wrongLogin", "wrongLogin")
           /\ pc[p] = "fail" /\ pc[q] # "fail" => ~ Apart("wrongLogin", "rightLogin")
           /\ pc[p] # "fail" /\ pc[q] = "fail" => ~ Apart("wrongLogin", "rightLogin")
           /\ pc[p] # "fail" /\ pc[q] # "fail" => ~ Apart("rightLogin", "rightLogin")
<1>1. /\ pc[p] = "fail" => job[p].op = "wrongLogin"
      /\ pc[p] # "fail" => job[p].op = "rightLogin"
      /\ pc[q] = "fail" => job[q].op = "wrongLogin"
      /\ pc[q] # "fail" => job[q].op = "rightLogin"
  BY DEF Typed, RequestsTyped, RequestTyped, Knows
<1>2. {job[p].op, job[q].op} \in Races
  BY <1>1 DEF Races, Logins
<1>3. {job[p].op, job[q].op} \in overlapped
  BY <1>2 DEF OverlapsNoted
<1>4. {"rightLogin", "wrongLogin"} = {"wrongLogin", "rightLogin"}
  OBVIOUS
<1> QED BY <1>1, <1>3, <1>4 DEF Apart

(* Nobody has signed in at first. *)
LEMMA InitLogins == Init => EscapesFew /\ CounterBehind /\ CounterExact
BY Numbers, FS_EmptySet DEF Init, EscapesFew, CounterBehind, CounterExact, Unset

(* What is noted stays noted. *)
LEMMA Noted == Typed /\ [Next]_vars => overlapped \subseteq overlapped'
<1> SUFFICES ASSUME Typed, [Next]_vars PROVE overlapped \subseteq overlapped'
  OBVIOUS
<1>1. ASSUME NEW r \in Requests, Arrive(r) PROVE overlapped \subseteq overlapped'
  BY <1>1, Arrives DEF Begin
<1>2. ASSUME NEW r \in Requests, Continue(r) \/ Crash(r) PROVE overlapped \subseteq overlapped'
  BY <1>2, Moves
<1> QED BY <1>1, <1>2 DEF Next, vars, unlockUser, ExpireLock, ExpireToken

(* Who escapes is one of the requests, and fewer do when one is gone. *)
LEMMA EscapingIsFinite ==
    /\ IsFiniteSet(Escaping) /\ IsFiniteSet(Escaping')
    /\ Cardinality(Escaping) \in Nat /\ Cardinality(Escaping') \in Nat
    /\ Cardinality(Requests) \in Nat
    /\ Escaping' \subseteq Escaping => Cardinality(Escaping') <= Cardinality(Escaping)
    /\ \A r \in Escaping : Escaping' \subseteq Escaping \ {r} =>
          Cardinality(Escaping') <= Cardinality(Escaping) - 1
    /\ \A r \in Requests : Escaping' \subseteq Requests \ {r} =>
          Cardinality(Escaping') <= Cardinality(Requests) - 1
<1>1. Escaping \subseteq Requests /\ Escaping' \subseteq Requests
  BY DEF Escaping
<1> HIDE DEF Escaping
<1>2. IsFiniteSet(Escaping) /\ IsFiniteSet(Escaping')
  BY <1>1, FinitelyMany, FS_Subset
<1>3. /\ Cardinality(Escaping) \in Nat /\ Cardinality(Escaping') \in Nat
      /\ Cardinality(Requests) \in Nat
  BY <1>2, FinitelyMany, FS_CardinalityType
<1>4. Escaping' \subseteq Escaping => Cardinality(Escaping') <= Cardinality(Escaping)
  BY <1>2, FS_Subset
<1>5. ASSUME NEW S, IsFiniteSet(S), NEW r \in S, Escaping' \subseteq S \ {r}
      PROVE  Cardinality(Escaping') <= Cardinality(S) - 1
  <2>1. Cardinality(S \ {r}) = Cardinality(S) - 1 /\ IsFiniteSet(S \ {r})
    BY <1>5, FS_RemoveElement
  <2> QED BY <1>5, <2>1, FS_Subset
<1> QED BY <1>2, <1>3, <1>4, <1>5, FinitelyMany

(* Most steps record no device, and let no one start to escape. *)
LEMMA QuietDevices ==
    ASSUME EscapesFew, overlapped \subseteq overlapped', UNCHANGED <<seen, unnoticed>>,
           seen # {} => Escaping' \subseteq Escaping
    PROVE  EscapesFew'
<1>1. Apart("rightLogin", "rightLogin")' => Apart("rightLogin", "rightLogin")
  BY DEF Apart
<1>2. IsFiniteSet(unnoticed) /\ Cardinality(unnoticed) \in Nat
  BY FS_CardinalityType DEF EscapesFew
<1> HIDE DEF Escaping
<1> QED BY <1>1, <1>2, EscapingIsFinite DEF EscapesFew

(* Those who are not about to record a device stay where they are, or      *)
(* record none.                                                            *)
LEMMA QuietRequests ==
    ASSUME EscapesFew, overlapped \subseteq overlapped', UNCHANGED <<seen, unnoticed>>,
           \A q \in Requests : pc'[q] = "record" => pc[q] = "record" /\ job'[q] = job[q]
    PROVE  EscapesFew'
<1>1. Escaping' \subseteq Escaping
  BY DEF Escaping, Unalarmed
<1> QED BY <1>1, QuietDevices

(* Who finds earlier devices tells the user about another one, or fails to. *)
LEMMA CheckedInTime ==
    ASSUME Typed, EscapesFew, overlapped \subseteq overlapped', NEW r \in Requests,
           checkSuspiciousLogin(r) \/ sendSuspiciousLoginEmail(r)
    PROVE  EscapesFew'
<1>1. UNCHANGED <<seen, unnoticed>>
  BY DEF checkSuspiciousLogin, sendSuspiciousLoginEmail, tables, history
<1>2. CASE Goto(r, "match")
  <2>1. \A q \in Requests : pc'[q] = "record" => pc[q] = "record" /\ job'[q] = job[q]
    BY <1>2 DEF Goto, Typed, RequestsTyped
  <2> QED BY <1>1, <2>1, QuietRequests
<1>3. ASSUME NEW alert \in Alerts, EndCheck(r, alert),
             alert = "none" /\ seen # {} => \/ ~ HasSignal(job[r].device)
                                            \/ SeenBefore(job[r].device, seen)
      PROVE  EscapesFew'
  <2>1. PICK j \in Job : Proceed(r, "record", j) /\ j.alert = alert /\ j.device = job[r].device
    BY <1>3, CheckEnds
  <2>2. /\ \A q \in Requests \ {r} : pc'[q] = pc[q] /\ job'[q] = job[q]
        /\ job'[r].alert = alert /\ job'[r].device = job[r].device
    BY <2>1 DEF Proceed, Typed, RequestsTyped
  <2>3. ASSUME seen # {}, NEW q \in Escaping' PROVE q \in Escaping
    <3>1. CASE q = r
      BY <1>1, <1>3, <2>2, <2>3, <3>1 DEF Escaping, Unalarmed
    <3>2. CASE q # r
      BY <1>1, <2>2, <2>3, <3>2 DEF Escaping, Unalarmed
    <3> QED BY <3>1, <3>2
  <2> QED BY <1>1, <2>3, QuietDevices
<1> QED BY <1>2, <1>3 DEF checkSuspiciousLogin, sendSuspiciousLoginEmail, PriorSuccesses, Alerts

(* A device that is recorded is known to those who check after it; those   *)
(* who checked before it are no more than the other requests.              *)
LEMMA DeviceKnown ==
    ASSUME Typed, OverlapsNoted, EscapesFew, NEW r \in Requests, recordLoginAttempt(r)
    PROVE  EscapesFew'
<1> DEFINE device == job[r].device
<1>1. /\ pc[r] = "record" /\ overlapped' = overlapped
      /\ \/ /\ seen' = seen \cup {device}
            /\ unnoticed' = IF New(device) /\ job[r].alert = "none"
                            THEN unnoticed \cup {device} ELSE unnoticed
         \/ UNCHANGED <<seen, unnoticed>>
  BY DEF recordLoginAttempt, At
<1>2. \A q \in Requests : pc'[q] = "record" => pc[q] = "record" /\ job'[q] = job[q] /\ q # r
  <2>1. PICK j \in Job : Proceed(r, "finalize", j)
    BY DeviceRecorded
  <2> QED BY <2>1 DEF Proceed, Typed, RequestsTyped
<1>3. CASE UNCHANGED <<seen, unnoticed>>
  BY <1>1, <1>2, <1>3, QuietRequests
<1>4. CASE ~ UNCHANGED <<seen, unnoticed>>
  <2>1. seen' = seen \cup {device}
    BY <1>1, <1>4
  <2>2. Escaping' \subseteq Escaping \ {r}
    BY <1>2, <2>1 DEF Escaping, Unalarmed, SeenBefore
  <2>3. IsFiniteSet(unnoticed) /\ Cardinality(unnoticed) \in Nat
    BY FS_CardinalityType DEF EscapesFew
  <2>4. CASE seen = {}
    <3>1. unnoticed' = {} /\ unnoticed = {}
      BY <1>1, <1>4, <2>4 DEF New, EscapesFew
    <3>2. Cardinality(unnoticed') = 0 /\ IsFiniteSet(unnoticed')
      BY <3>1, FS_EmptySet
    <3>3. Cardinality(Escaping') <= Cardinality(Requests) - 1
      <4>1. Escaping' \subseteq Requests \ {r}
        BY <2>2 DEF Escaping
      <4> HIDE DEF Escaping
      <4> QED BY <4>1, EscapingIsFinite
    <3>4. Apart("rightLogin", "rightLogin") => Escaping' = {}
      <4> SUFFICES ASSUME Apart("rightLogin", "rightLogin"), NEW q \in Escaping' PROVE FALSE
        OBVIOUS
      <4>1. q \in Requests \ {r} /\ pc[q] = "record"
        BY <1>2 DEF Escaping, Unalarmed
      <4> QED BY <1>1, <4>1, TwoAtOnce
    <3> HIDE DEF Escaping
    <3>5. Cardinality(unnoticed') + Cardinality(Escaping') <= Cardinality(Requests) - 1
      BY <3>2, <3>3, EscapingIsFinite
    <3> QED BY <1>1, <2>1, <3>1, <3>2, <3>4, <3>5 DEF EscapesFew, Apart
  <2>5. CASE seen # {} /\ New(device) /\ job[r].alert = "none"
    <3>1. unnoticed' = unnoticed \cup {device}
      BY <1>1, <1>4, <2>5
    <3>2. r \in Escaping
      BY <1>1, <2>5 DEF New, Escaping, Unalarmed
    <3>3. IsFiniteSet(unnoticed') /\ Cardinality(unnoticed') <= Cardinality(unnoticed) + 1
          /\ Cardinality(unnoticed') \in Nat
      <4> HIDE DEF device
      <4> QED BY <2>3, <3>1, FS_AddElement, FS_CardinalityType
    <3> HIDE DEF Escaping, device
    <3>4. Cardinality(unnoticed') + Cardinality(Escaping') <= Cardinality(Requests) - 1
      BY <2>2, <2>3, <2>5, <3>2, <3>3, EscapingIsFinite DEF EscapesFew
    <3> QED BY <1>1, <2>1, <2>5, <3>2, <3>3, <3>4 DEF EscapesFew, Apart
  <2>6. CASE seen # {} /\ ~ (New(device) /\ job[r].alert = "none")
    <3>1. unnoticed' = unnoticed
      BY <1>1, <1>4, <2>6
    <3> HIDE DEF Escaping, device
    <3>2. Cardinality(unnoticed') + Cardinality(Escaping') <= Cardinality(Requests) - 1
      BY <2>2, <2>3, <2>6, <3>1, EscapingIsFinite DEF EscapesFew
    <3> QED BY <1>1, <2>1, <2>2, <2>6, <3>1, <3>2 DEF EscapesFew, Apart
  <2> QED BY <2>4, <2>5, <2>6
<1> QED BY <1>3, <1>4

(* Only next to the first sign-in does a new device escape. *)
LEMMA EscapesFewStep == Typed /\ OverlapsNoted /\ EscapesFew /\ [Next]_vars => EscapesFew'
<1> SUFFICES ASSUME Typed, OverlapsNoted, EscapesFew, [Next]_vars PROVE EscapesFew'
  OBVIOUS
<1>0. overlapped \subseteq overlapped'
  BY Noted
<1>1. CASE UNCHANGED <<pc, job, seen, unnoticed>>
  BY <1>0, <1>1, QuietRequests
<1>2. ASSUME NEW r \in Requests, Arrive(r) PROVE EscapesFew'
  <2>1. PICK step, j : Begin(r, step, j) /\ step # "record"
    BY <1>2, Arrives
  <2> QED BY <1>0, <2>1, QuietRequests DEF Begin, Typed, RequestsTyped, tables, history
<1>3. ASSUME NEW r \in Requests, Continue(r) \/ Crash(r),
             ~ checkSuspiciousLogin(r), ~ sendSuspiciousLoginEmail(r), ~ recordLoginAttempt(r)
      PROVE  EscapesFew'
  <2>1. UNCHANGED <<seen, unnoticed>>
    BY <1>3, Found, Replaced DEF Continue, Crash, registerFailedAttempt, clearFailedAttempts,
       finalizeLogin, ExhaustCode, CountAttempt, ClaimToken, tables, history
  <2>2. \A q \in Requests : pc'[q] = "record" => pc[q] = "record" /\ job'[q] = job[q]
    BY <1>3, Moves
  <2> QED BY <1>0, <2>1, <2>2, QuietRequests
<1> QED BY <1>0, <1>1, <1>2, <1>3, CheckedInTime, DeviceKnown
        DEF Next, vars, unlockUser, ExpireLock, ExpireToken, tables, history

-------------------------------------------------------------------------------
(* The lockout. *)

(* Most steps count nothing, and read no counter. *)
LEMMA QuietCounter ==
    ASSUME CounterBehind, CounterExact, overlapped \subseteq overlapped',
           UNCHANGED <<user, streak>>,
           \A q \in Requests : pc'[q] \in {"fail", "clear"} => pc'[q] = pc[q] /\ job'[q] = job[q]
    PROVE  CounterBehind' /\ CounterExact'
<1>1. CounterBehind'
  BY DEF CounterBehind, Apart
<1>2. CounterExact'
  BY DEF CounterExact, Apart
<1> QED BY <1>1, <1>2

(* A wrong password counts from what it read, which is no more than the    *)
(* streak while no success and no unlocking comes between.                 *)
LEMMA FailureCounted ==
    ASSUME Typed, OverlapsNoted, CounterBehind, CounterExact,
           NEW r \in Requests, registerFailedAttempt(r)
    PROVE  CounterBehind' /\ CounterExact'
<1>1. /\ pc[r] = "fail" /\ user' = AfterFailure(job[r].user) /\ streak' = streak + 1
      /\ Finish(r) /\ overlapped' = overlapped
  BY DEF registerFailedAttempt, At
<1>2. \A q \in Requests : pc'[q] \in {"fail", "clear"} =>
         pc'[q] = pc[q] /\ job'[q] = job[q] /\ q # r
  BY <1>1 DEF Finish, Typed, RequestsTyped
<1>3. /\ job[r].user.failed \in Nat /\ streak \in Nat /\ user.failed \in Nat
      /\ \A q \in Requests : job[q].user.failed \in Nat
  BY DEF Typed, TablesTyped, RequestsTyped, Users, Job
<1>4. /\ user'.failed = job[r].user.failed + 1
      /\ user'.lock = IF job[r].user.failed + 1 >= MaxFailed THEN "held" ELSE user.lock
  BY <1>1 DEF AfterFailure
<1>5. CounterBehind'
  <2> SUFFICES ASSUME Apart("wrongLogin", "rightLogin"), Apart("wrongLogin", "unlock")
               PROVE  /\ user'.failed <= streak'
                      /\ user'.lock # "none" => streak' >= MaxFailed
                      /\ \A q \in Requests :
                            /\ pc'[q] = "fail" => job'[q].user.failed <= streak'
                            /\ pc'[q] # "clear"
    BY <1>1 DEF CounterBehind, Apart
  <2>1. /\ user.failed <= streak /\ (user.lock # "none" => streak >= MaxFailed)
        /\ \A q \in Requests : pc[q] = "fail" => job[q].user.failed <= streak
    BY DEF CounterBehind
  <2>2. ASSUME NEW q \in Requests, pc'[q] = "clear" PROVE FALSE
    <3>1. q # r /\ pc[q] = "clear"
      BY <1>2, <2>2
    <3> QED BY <1>1, <3>1, TwoAtOnce
  <2>3. user'.failed <= streak'
    BY <1>1, <1>3, <1>4, <2>1
  <2>4. user'.lock # "none" => streak' >= MaxFailed
    BY <1>1, <1>3, <1>4, <2>1, Numbers
  <2>5. \A q \in Requests : pc'[q] = "fail" => job'[q].user.failed <= streak'
    BY <1>1, <1>2, <1>3, <2>1
  <2> QED BY <2>2, <2>3, <2>4, <2>5
<1>6. CounterExact'
  <2> SUFFICES ASSUME \A op \in Logins \cup {"unlock"} : Apart("wrongLogin", op)
               PROVE  user'.failed = streak' /\ \A q \in Requests : pc'[q] # "fail"
    BY <1>1 DEF CounterExact, Apart
  <2>1. job[r].user.failed = streak
    BY <1>1 DEF CounterExact
  <2>2. ASSUME NEW q \in Requests, pc'[q] = "fail" PROVE FALSE
    <3>1. q # r /\ pc[q] = "fail"
      BY <1>2, <2>2
    <3> QED BY <1>1, <3>1, TwoAtOnce DEF Logins
  <2> QED BY <1>1, <1>4, <2>1, <2>2
<1> QED BY <1>5, <1>6

(* A success clears the counter, or had read that there was nothing to clear. *)
LEMMA FailuresCleared ==
    ASSUME Typed, OverlapsNoted, CounterBehind, CounterExact,
           NEW r \in Requests, clearFailedAttempts(r)
    PROVE  CounterBehind' /\ CounterExact'
<1>1. /\ pc[r] = "clear" /\ user' = Cleared(job[r].user) /\ streak' = 0
      /\ overlapped' = overlapped
  BY DEF clearFailedAttempts, At
<1>2. \A q \in Requests : pc'[q] \in {"fail", "clear"} =>
         pc'[q] = pc[q] /\ job'[q] = job[q] /\ q # r
  BY FailuresForgotten DEF Proceed, Typed, RequestsTyped
<1> SUFFICES ASSUME Apart("wrongLogin", "rightLogin"), Apart("wrongLogin", "unlock")
             PROVE  CounterBehind' /\ CounterExact'
  BY <1>1 DEF CounterBehind, CounterExact, Apart, Logins
<1>3. ASSUME NEW q \in Requests, pc'[q] = "fail" PROVE FALSE
  <2>1. q # r /\ pc[q] = "fail"
    BY <1>2, <1>3
  <2> QED BY <1>1, <2>1, TwoAtOnce
<1>4. user' = Unset
  BY <1>1 DEF Cleared, CounterBehind
<1> QED BY <1>1, <1>3, <1>4 DEF CounterBehind, CounterExact, Unset

(* The counter is at most the streak, and the streak itself when no        *)
(* sign-ins overlap.                                                       *)
LEMMA CounterStep ==
    Typed /\ OverlapsNoted /\ CounterBehind /\ CounterExact /\ [Next]_vars
        => CounterBehind' /\ CounterExact'
<1> SUFFICES ASSUME Typed, OverlapsNoted, CounterBehind, CounterExact, [Next]_vars
             PROVE  CounterBehind' /\ CounterExact'
  OBVIOUS
<1>0. overlapped \subseteq overlapped'
  BY Noted
<1>1. CASE UNCHANGED <<pc, job, user, streak>>
  BY <1>0, <1>1, QuietCounter
<1>2. ASSUME NEW r \in Requests, Arrive(r) PROVE CounterBehind' /\ CounterExact'
  <2>1. PICK step, j : /\ Begin(r, step, j)
                       /\ step \in {"fail", "clear"} => j.user = user
    BY <1>2, Arrives
  <2>2. /\ pc'[r] = step /\ job'[r] = j /\ UNCHANGED <<user, streak>>
        /\ \A q \in Requests \ {r} : pc'[q] = pc[q] /\ job'[q] = job[q]
    BY <2>1 DEF Begin, Typed, RequestsTyped, tables, history
  <2>3. CounterBehind'
    BY <1>0, <2>1, <2>2 DEF CounterBehind, Apart
  <2>4. CounterExact'
    BY <1>0, <2>1, <2>2 DEF CounterExact, Apart
  <2> QED BY <2>3, <2>4
<1>3. ASSUME NEW r \in Requests, Continue(r) \/ Crash(r),
             ~ registerFailedAttempt(r), ~ clearFailedAttempts(r)
      PROVE  CounterBehind' /\ CounterExact'
  <2>1. UNCHANGED <<user, streak>>
    BY <1>3, Found, Replaced DEF Continue, Crash, checkSuspiciousLogin, sendSuspiciousLoginEmail,
       recordLoginAttempt, finalizeLogin, ExhaustCode, CountAttempt, ClaimToken, tables, history
  <2>2. \A q \in Requests : pc'[q] \in {"fail", "clear"} => pc'[q] = pc[q] /\ job'[q] = job[q]
    BY <1>3, Moves
  <2> QED BY <1>0, <2>1, <2>2, QuietCounter
<1>4. CASE unlockUser
  <2>1. /\ user' = Unset /\ streak' = 0 /\ UNCHANGED <<pc, job>>
        /\ overlapped' = overlapped \cup (Races \cap {{job[r].op, "unlock"} : r \in Requests})
    BY <1>4 DEF unlockUser, Unlocked
  <2> SUFFICES ASSUME Apart("wrongLogin", "unlock")' PROVE CounterBehind' /\ CounterExact'
    BY DEF CounterBehind, CounterExact
  <2>2. \A q \in Requests : pc'[q] # "fail"
    <3> SUFFICES ASSUME NEW q \in Requests, pc[q] = "fail" PROVE FALSE
      BY <2>1
    <3>1. job[q].op = "wrongLogin"
      BY DEF Typed, RequestsTyped, RequestTyped, Knows
    <3>2. {"wrongLogin", "unlock"} \in Races \cap {{job[r].op, "unlock"} : r \in Requests}
      BY <3>1 DEF Races
    <3> QED BY <2>1, <3>2 DEF Apart
  <2> QED BY <2>1, <2>2 DEF CounterBehind, CounterExact, Unset
<1>5. CASE ExpireLock
  <2>1. /\ user.lock = "held" /\ user'.failed = user.failed /\ user # Unset
        /\ UNCHANGED <<pc, job, streak, overlapped>>
    BY <1>5 DEF ExpireLock, Typed, TablesTyped, Users, Unset, history
  <2>2. CounterBehind'
    BY <2>1 DEF CounterBehind, Apart
  <2>3. CounterExact'
    BY <2>1 DEF CounterExact, Apart
  <2> QED BY <2>2, <2>3
<1> QED BY <1>1, <1>2, <1>3, <1>4, <1>5, FailureCounted, FailuresCleared
        DEF Next, vars, ExpireToken, tables, history

-------------------------------------------------------------------------------
(* What holds of signing in with the password. *)
LoginInv == Typed /\ OverlapsNoted /\ EscapesFew /\ CounterBehind /\ CounterExact

(* It is so in every state. *)
LEMMA LoginInvHolds == Spec => []LoginInv
<1>1. Init => LoginInv
  BY InitTyped, InitOverlapsNoted, InitLogins DEF LoginInv
<1>2. LoginInv /\ [Next]_vars => LoginInv'
  BY TypedStep, OverlapsNotedStep, EscapesFewStep, CounterStep DEF LoginInv
<1> QED BY <1>1, <1>2, PTL DEF Spec

(* A device that resembles none before it is alerted about, unless the     *)
(* alert fails.  Only sign-ins next to the very first one escape, and      *)
(* fewer devices than there are requests at a time.                        *)
THEOREM DevicesAreAlertedAbout == Spec => []NewDevicesAlerted
<1>1. LoginInv => NewDevicesAlerted
  <2> SUFFICES ASSUME LoginInv, unnoticed # {}
               PROVE  /\ ~ Apart("rightLogin", "rightLogin")
                      /\ Cardinality(unnoticed) < Cardinality(Requests)
    BY DEF NewDevicesAlerted
  <2>1. seen # {} /\ ~ Apart("rightLogin", "rightLogin")
    BY DEF LoginInv, EscapesFew
  <2>2. Cardinality(unnoticed) + Cardinality(Escaping) <= Cardinality(Requests) - 1
        /\ Cardinality(unnoticed) \in Nat
    BY <2>1, FS_CardinalityType DEF LoginInv, EscapesFew
  <2> HIDE DEF Escaping
  <2> QED BY <2>1, <2>2, EscapingIsFinite
<1> QED BY <1>1, LoginInvHolds, PTL

(* No account is locked before MaxFailed wrong passwords, unless one       *)
(* overlapped a success or an unlocking.                                   *)
THEOREM LocksAreEarned == Spec => []NeverLocksEarly
<1>1. LoginInv => NeverLocksEarly
  BY DEF LoginInv, CounterBehind, NeverLocksEarly
<1> QED BY <1>1, LoginInvHolds, PTL

(* The wrong password that makes MaxFailed locks the account, and none     *)
(* before it, unless a wrong password overlapped a sign-in or an unlocking. *)
THEOREM LocksOnTime == Spec => LocksAtMaxFailed
<1>1. ASSUME LoginInv, [Next]_vars, streak' > streak,
             \A op \in Logins \cup {"unlock"} : Apart("wrongLogin", op)
      PROVE  user'.lock = "held" <=> streak' >= MaxFailed
  <2>1. streak \in Nat
    BY <1>1 DEF LoginInv, Typed, TablesTyped
  <2>2. ~ (streak' = streak) /\ ~ (streak' = 0)
    BY <1>1, <2>1
  <2>3. PICK r \in Requests : registerFailedAttempt(r)
    <3>1. \A r \in Requests : ~ Arrive(r)
      BY <1>1, <2>2, Arrives DEF LoginInv, Begin, history
    <3>2. \A r \in Requests : Continue(r) \/ Crash(r) => registerFailedAttempt(r)
      BY <1>1, <2>2, Found, Replaced DEF LoginInv, Continue, Crash, clearFailedAttempts,
         checkSuspiciousLogin, sendSuspiciousLoginEmail, recordLoginAttempt, finalizeLogin,
         ExhaustCode, CountAttempt, ClaimToken, history
    <3> QED BY <1>1, <2>2, <3>1, <3>2 DEF Next, vars, unlockUser, ExpireLock, ExpireToken, history
  <2>4. /\ pc[r] = "fail" /\ streak' = streak + 1
        /\ user'.lock = IF job[r].user.failed + 1 >= MaxFailed THEN "held" ELSE user.lock
    BY <2>3 DEF registerFailedAttempt, At, AfterFailure
  <2>5. job[r].user.failed = streak
    BY <1>1, <2>4 DEF LoginInv, CounterExact
  <2>6. user.lock # "none" => streak >= MaxFailed
    BY <1>1 DEF LoginInv, CounterBehind, Logins
  <2> QED BY <2>1, <2>4, <2>5, <2>6, Numbers
<1>2. LoginInv /\ [Next]_vars =>
         [streak' > streak /\ (\A op \in Logins \cup {"unlock"} : Apart("wrongLogin", op))
             => (user'.lock = "held" <=> streak' >= MaxFailed)]_vars
  BY <1>1
<1> QED BY <1>2, LoginInvHolds, PTL DEF Spec, LocksAtMaxFailed
===============================================================================
