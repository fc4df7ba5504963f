-------------------------- MODULE SecondFactor_proofs --------------------------
(***************************************************************************)
(* What the second factor promises, for any number of secrets, codes,      *)
(* phones and requests at a time.                                          *)
(***************************************************************************)
EXTENDS SecondFactor, FiniteSetTheorems, WellFoundedInduction, TLAPS

User == [enabled : BOOLEAN, secret : Secrets \cup {None}, phone : Phones \cup {None},
         verified : BOOLEAN]
Otp == [channel : Channels, state : {"none", "open", "consumed", "deleted"},
        attempts : Nat, expired : BOOLEAN, phone : Phones \cup {None}]
Codes == Secrets \cup Backups \cup Otps \cup {None}
Job == [op : Ops \cup {"none"}, code : Codes, channel : Channels, row : Otps \cup {0},
        old : (SUBSET Backups) \cup (SUBSET Otps), enrolment : Nat]

(* The bounds are natural numbers. *)
LEMMA Numbers == MaxAttempts \in Nat \ {0} /\ MaxOtps \in Nat /\ MaxOps \in Nat
BY BoundsAreNatural

(* The greatest of some codes is one of them: the intervals that end with  *)
(* the last code have a least one among those that begin with one of them. *)
LEMMA LatestIsOne ==
    ASSUME NEW S \in SUBSET Otps, S # {}
    PROVE  Max(S) \in S
<1> DEFINE intervals == {x .. MaxOtps : x \in S}
           order == StrictSubsetOrdering(Otps)
<1>1. IsWellFoundedOn(order, SUBSET Otps)
  <2>1. IsFiniteSet(Otps)
    BY Numbers, FS_Interval DEF Otps
  <2> QED BY <2>1, FS_StrictSubsetOrderingWellFounded, FS_FiniteSubsetsOfFinite
<1>2. intervals \subseteq SUBSET Otps /\ intervals # {}
  <2>1. \A x \in Otps : x .. MaxOtps \subseteq Otps
    BY Numbers DEF Otps
  <2> QED BY <2>1
<1>3. PICK least \in intervals : \A other \in intervals : ~ (<<other, least>> \in order)
  <2> HIDE DEF intervals, order
  <2> QED BY <1>1, <1>2, WFMin
<1>4. PICK n \in S : least = n .. MaxOtps
  BY <1>3
<1>5. ASSUME NEW x \in S PROVE n >= x
  <2>1. n \in 1 .. MaxOtps /\ x \in 1 .. MaxOtps
    BY DEF Otps
  <2>2. ~ (<<x .. MaxOtps, n .. MaxOtps>> \in order)
    BY <1>3, <1>4
  <2>3. ~ (x .. MaxOtps \subseteq n .. MaxOtps /\ x .. MaxOtps # n .. MaxOtps)
    BY <1>2, <1>4, <2>2 DEF StrictSubsetOrdering
  <2>4. SUFFICES ASSUME n < x PROVE FALSE
    BY <2>1, Numbers
  <2>5. x .. MaxOtps \subseteq n .. MaxOtps
    BY <2>1, <2>4, Numbers
  <2>6. n \in n .. MaxOtps /\ n \notin x .. MaxOtps
    BY <2>1, <2>4, Numbers
  <2> QED BY <2>3, <2>5, <2>6
<1> QED BY <1>5 DEF Max

-------------------------------------------------------------------------------
(* The requests. *)

WriteOps == {"setup", "enable", "disable", "setupSms", "removeSms"}
ReplaceOps == {"regenerate", "requestEmail", "requestSms"}

(* The steps that the operations take. *)
OnPath(step, j) ==
    /\ step = "idle" <=> j.op = "none"
    /\ j.op \in WriteOps => step = "write"
    /\ j.op \in ReplaceOps => step = "replace"
    /\ j.op = "login" =>
          step \in {"issue", "trust", "backup", "useBackup", "count", "claim", "email", "sms"}
    /\ j.op = "verifyPhone" => step \in {"phone", "count", "claim", "setVerified"}
    /\ j.op \in {"login", "requestEmail", "requestSms"} => j.channel \in {"email", "sms"}
    /\ j.op = "verifyPhone" => j.channel = "phone"
    /\ step \in {"backup", "useBackup"} => j.code \in Backups
    /\ step \in {"count", "claim"} => j.row \in Otps

(* What has been read of the rows and stays so. *)
Remembers(step, j) ==
    /\ step \in {"count", "claim"} =>
          otp[j.row].state # "none" /\ otp[j.row].channel = j.channel
    /\ j.op = "login" => j.enrolment \in 1 .. enrolment

RequestsTyped ==
    /\ pc \in [Requests -> Steps] /\ job \in [Requests -> Job]
    /\ \A r \in Requests : /\ OnPath(pc[r], job[r]) /\ Remembers(pc[r], job[r])
                           /\ pc[r] = "idle" => job[r] = NoJob

TablesTyped ==
    /\ user \in User
    /\ backup \in [Backups -> {"none", "unused", "used", "deleted"}]
    /\ otp \in [Otps -> Otp]
    /\ devices \subseteq 1 .. enrolment
    /\ begun \in 0 .. MaxOps
    /\ enrolment \in Nat /\ enrolment <= Cardinality(KnownBackups)
    /\ user.enabled => enrolment > 0
    /\ proven \subseteq Secrets \cup Phones
    /\ accepted \in [Backups \cup Otps -> Nat]
    /\ overlapped \subseteq Races

Typed == TablesTyped /\ RequestsTyped

OthersGoOn(r) ==
    \A q \in Requests \ {r} : pc'[q] = pc[q] /\ job'[q] = job[q]

(* There are at most as many known backup codes as backup codes. *)
LEMMA KnownAreFew == Cardinality(KnownBackups) <= Cardinality(Backups) /\ IsFiniteSet(KnownBackups)
                     /\ Cardinality(KnownBackups) \in Nat /\ Cardinality(Backups) \in Nat
BY FinitelyMany, FS_Subset, FS_CardinalityType DEF KnownBackups

(* Typed rows and requests are what TypeOK asks for, and more. *)
LEMMA TypedIsTypeOK == Typed => TypeOK
<1> SUFFICES ASSUME Typed PROVE TypeOK
  OBVIOUS
<1>1. enrolment \in 0 .. Cardinality(Backups)
  BY KnownAreFew DEF Typed, TablesTyped
<1>2. ASSUME NEW r \in Requests
      PROVE  /\ pc[r] = "idle" <=> job[r] = NoJob
             /\ job[r].op \in Ops \cup {"none"}
             /\ job[r].old \subseteq Backups \/ job[r].old \subseteq Otps
             /\ pc[r] \in {"count", "claim"} => otp[job[r].row].channel = job[r].channel
             /\ pc[r] = "trust" => job[r].enrolment \in 1 .. enrolment
  <2>1. job[r] \in Job /\ OnPath(pc[r], job[r]) /\ Remembers(pc[r], job[r])
        /\ (pc[r] = "idle" => job[r] = NoJob)
    BY DEF Typed, RequestsTyped
  <2>2. job[r] = NoJob => job[r].op = "none"
    BY DEF NoJob
  <2>3. pc[r] = "trust" => job[r].op = "login"
    BY <2>1 DEF OnPath, Job, Ops, WriteOps, ReplaceOps
  <2>4. job[r].old \subseteq Backups \/ job[r].old \subseteq Otps
    BY <2>1 DEF Job
  <2>5. job[r].op \in Ops \cup {"none"}
    BY <2>1 DEF Job
  <2> QED BY <2>1, <2>2, <2>3, <2>4, <2>5 DEF OnPath, Remembers
<1> QED BY <1>1, <1>2 DEF Typed, TablesTyped, RequestsTyped, TypeOK, User, Otp

-------------------------------------------------------------------------------
(* How a step changes the requests. *)
LEMMA Answered ==
    ASSUME Typed, NEW r \in Requests, Finish(r)
    PROVE  /\ OthersGoOn(r) /\ pc'[r] = "idle" /\ job'[r] = NoJob
           /\ pc' \in [Requests -> Steps] /\ job' \in [Requests -> Job]
<1>1. NoJob \in Job
  BY DEF NoJob, Job, Codes, Channels
<1> QED BY <1>1 DEF Finish, OthersGoOn, Typed, RequestsTyped, Steps

(* A request that goes to its next statement keeps them. *)
LEMMA Moved ==
    ASSUME Typed, NEW r \in Requests, NEW step \in Steps, Goto(r, step)
    PROVE  /\ OthersGoOn(r) /\ pc'[r] = step /\ job'[r] = job[r]
           /\ pc' \in [Requests -> Steps] /\ job' \in [Requests -> Job]
BY DEF Goto, OthersGoOn, Typed, RequestsTyped

(* What a request that begins takes with it. *)
Arrives(r, step, j) ==
    /\ pc[r] = "idle" /\ pc'[r] = step /\ job'[r] = j /\ OthersGoOn(r)
    /\ pc' \in [Requests -> Steps] /\ job' \in [Requests -> Job]
    /\ overlapped' = overlapped \cup (Races \cap {{j.op, job[q].op} : q \in InFlight})
    /\ begun' \in 0 .. MaxOps
    /\ UNCHANGED <<tables, enrolment, accepted>>
    /\ OnPath(step, j) /\ step \notin {"idle", "useBackup", "count", "claim", "setVerified", "trust"}
    /\ proven \subseteq proven' /\ proven' \subseteq Secrets \cup Phones
    /\ j.op = "setup" => ~user.enabled
    /\ j.op = "enable" => user.secret \in proven'
    /\ j.op = "login" => user.enabled /\ j.enrolment = enrolment

(* What Begin writes for the request that begins. *)
LEMMA BegunRequest ==
    ASSUME Typed, NEW r \in Requests, NEW op \in Ops, NEW step \in Steps, NEW j \in Job,
           Begin(r, op, step, j)
    PROVE  LET k == [j EXCEPT !.op = op]
           IN  /\ k \in Job /\ k.op = op /\ k.code = j.code /\ k.channel = j.channel
               /\ k.enrolment = j.enrolment /\ k.row = j.row
               /\ pc[r] = "idle" /\ pc'[r] = step /\ job'[r] = k /\ OthersGoOn(r)
               /\ pc' \in [Requests -> Steps] /\ job' \in [Requests -> Job]
               /\ overlapped' = overlapped \cup (Races \cap {{k.op, job[q].op} : q \in InFlight})
               /\ begun' \in 0 .. MaxOps /\ UNCHANGED tables
<1>1. PICK k : k = [j EXCEPT !.op = op]
  OBVIOUS
<1>2. /\ k \in Job /\ k.op = op /\ k.code = j.code /\ k.channel = j.channel
      /\ k.enrolment = j.enrolment /\ k.row = j.row
  BY <1>1 DEF Job
<1>3. /\ pc[r] = "idle" /\ pc' = [pc EXCEPT ![r] = step] /\ job' = [job EXCEPT ![r] = k]
      /\ overlapped' = overlapped \cup (Races \cap {{op, job[q].op} : q \in InFlight})
      /\ begun < MaxOps /\ begun' = begun + 1 /\ UNCHANGED tables
  BY <1>1 DEF Begin
<1>4. pc' \in [Requests -> Steps] /\ job' \in [Requests -> Job] /\ OthersGoOn(r)
      /\ pc'[r] = step /\ job'[r] = k
  BY <1>2, <1>3 DEF OthersGoOn, Typed, RequestsTyped
<1>5. begun' \in 0 .. MaxOps
  BY <1>3, Numbers DEF Typed, TablesTyped
<1> QED BY <1>1, <1>2, <1>3, <1>4, <1>5

(* Every operation begins in this way. *)
LEMMA Arrival ==
    ASSUME Typed, NEW r \in Requests, Arrive(r)
    PROVE  \E step \in Steps, j \in Job : Arrives(r, step, j)
<1>1. NoJob \in Job /\ NoJob.channel = "email"
  BY DEF NoJob, Job, Codes, Channels
<1>2. proven \subseteq Secrets \cup Phones /\ user \in User
  BY DEF Typed, TablesTyped
(* It is enough to know the operation, the first statement and the local   *)
(* variables that differ from NoJob.                                       *)
<1>3. ASSUME NEW op \in Ops, NEW step \in Steps, NEW j \in Job, Begin(r, op, step, j),
             UNCHANGED <<enrolment, accepted>>, proven \subseteq proven',
             proven' \subseteq Secrets \cup Phones,
             step \notin {"idle", "useBackup", "count", "claim", "setVerified", "trust"},
             op \in WriteOps => step = "write",
             op \in ReplaceOps => step = "replace",
             op = "login" => step \in {"issue", "backup", "email"},
             op = "verifyPhone" => step = "phone" /\ j.channel = "phone",
             op \in {"login", "requestEmail", "requestSms"} => j.channel \in {"email", "sms"},
             step = "backup" => j.code \in Backups,
             op = "setup" => ~user.enabled,
             op = "enable" => user.secret \in proven',
             op = "login" => user.enabled /\ j.enrolment = enrolment
      PROVE  \E s \in Steps, k \in Job : Arrives(r, s, k)
  <2>0. PICK k : k = [j EXCEPT !.op = op]
    OBVIOUS
  <2>1. /\ k \in Job /\ k.op = op /\ k.code = j.code /\ k.channel = j.channel
        /\ k.enrolment = j.enrolment
        /\ pc[r] = "idle" /\ pc'[r] = step /\ job'[r] = k /\ OthersGoOn(r)
        /\ pc' \in [Requests -> Steps] /\ job' \in [Requests -> Job]
        /\ overlapped' = overlapped \cup (Races \cap {{k.op, job[q].op} : q \in InFlight})
        /\ begun' \in 0 .. MaxOps /\ UNCHANGED tables
    BY <1>3, <2>0, BegunRequest
  <2>2. OnPath(step, k)
    BY <1>3, <2>1 DEF OnPath, Ops
  <2>3. Arrives(r, step, k)
    BY <1>3, <2>1, <2>2 DEF Arrives
  <2> QED BY <1>3, <2>1, <2>3
<1>4. CASE BeginSetup(r) \/ BeginDisable(r) \/ \E op \in {"setupSms", "removeSms"} : BeginPhone(r, op)
  BY <1>1, <1>2, <1>3, <1>4
     DEF BeginSetup, BeginDisable, BeginPhone, history, Ops, Steps, WriteOps, ReplaceOps
<1>5. CASE BeginEnable(r)
  <2>1. user.secret \in Secrets
    BY <1>2, <1>5 DEF BeginEnable, User
  <2> QED BY <1>1, <1>2, <1>3, <1>5, <2>1 DEF BeginEnable, Ops, Steps, WriteOps, ReplaceOps
<1>6. CASE BeginRegenerate(r)
  <2>1. PICK j : j = [NoJob EXCEPT !.old = {b \in Backups : backup[b] \in {"unused", "used"}}]
    OBVIOUS
  <2>2. j \in Job
    BY <1>1, <2>1 DEF Job
  <2>3. Begin(r, "regenerate", "replace", j) /\ UNCHANGED <<enrolment, accepted, proven>>
    BY <1>6, <2>1 DEF BeginRegenerate, history
  <2> QED BY <1>2, <1>3, <2>2, <2>3 DEF Ops, Steps, WriteOps, ReplaceOps
<1>7. ASSUME NEW channel \in {"email", "sms"}, BeginRequestOtp(r, channel)
      PROVE  \E step \in Steps, j \in Job : Arrives(r, step, j)
  <2>1. PICK j : j = [NoJob EXCEPT !.channel = channel, !.old = Existing({channel})]
    OBVIOUS
  <2>2. j \in Job /\ j.channel = channel
    BY <1>1, <2>1 DEF Job, Existing, Channels
  <2>3. PICK op \in {"requestEmail", "requestSms"} : Begin(r, op, "replace", j)
    BY <1>7, <2>1 DEF BeginRequestOtp
  <2>4. UNCHANGED <<enrolment, accepted, proven>>
    BY <1>7 DEF BeginRequestOtp, history
  <2> QED BY <1>2, <1>3, <2>2, <2>3, <2>4 DEF Ops, Steps, WriteOps, ReplaceOps
<1>8. ASSUME NEW c \in DeliveredCodes \cup {None}, BeginVerifyPhone(r, c)
      PROVE  \E step \in Steps, j \in Job : Arrives(r, step, j)
  <2>1. PICK j : j = [NoJob EXCEPT !.code = c, !.channel = "phone"]
    OBVIOUS
  <2>2. j \in Job /\ j.channel = "phone"
    BY <1>1, <2>1 DEF Job, Codes, DeliveredCodes, Channels
  <2>3. Begin(r, "verifyPhone", "phone", j) /\ UNCHANGED <<enrolment, accepted, proven>>
    BY <1>8, <2>1 DEF BeginVerifyPhone, history
  <2> QED BY <1>2, <1>3, <2>2, <2>3 DEF Ops, Steps, WriteOps, ReplaceOps, Channels
<1>9. ASSUME NEW c \in Secrets \cup KnownBackups \cup DeliveredCodes \cup {None}, BeginLogin(r, c)
      PROVE  \E step \in Steps, j \in Job : Arrives(r, step, j)
  <2>1. PICK j : j = [NoJob EXCEPT !.code = c, !.enrolment = enrolment]
    OBVIOUS
  <2>2. j \in Job /\ j.channel = "email" /\ j.enrolment = enrolment /\ j.code = c
    BY <1>1, <2>1 DEF Job, Codes, DeliveredCodes, KnownBackups, Typed, TablesTyped
  <2>3. PICK step : /\ Begin(r, "login", step, j) /\ UNCHANGED <<enrolment, accepted, proven>>
                    /\ step \in {"issue", "backup", "email"} /\ user.enabled
                    /\ step = "backup" => c \in Backups
    BY <1>9, <2>1 DEF BeginLogin, history
  <2> QED BY <1>2, <1>3, <2>2, <2>3 DEF Ops, Steps, WriteOps, ReplaceOps, Channels
<1> QED BY <1>4, <1>5, <1>6, <1>7, <1>8, <1>9 DEF Arrive

(* What a request that goes on takes with it. *)
Continues(r) ==
    /\ pc[r] # "idle" /\ OthersGoOn(r)
    /\ pc' \in [Requests -> Steps] /\ job' \in [Requests -> Job]
    /\ UNCHANGED <<begun, overlapped>>
    /\ \/ pc'[r] = "idle" /\ job'[r] = NoJob
       \/ /\ pc'[r] # "idle" /\ OnPath(pc'[r], job'[r])
          /\ job'[r].op = job[r].op /\ job'[r].code = job[r].code
          /\ job'[r].enrolment = job[r].enrolment

(* A request goes on by being answered, *)
LEMMA EndsContinue ==
    ASSUME Typed, NEW r \in Requests, pc[r] # "idle", Finish(r), UNCHANGED <<begun, overlapped>>
    PROVE  Continues(r)
BY Answered DEF Continues

(* or by going to another statement of its operation. *)
LEMMA MovesContinue ==
    ASSUME Typed, NEW r \in Requests, NEW step \in Steps \ {"idle"}, Goto(r, step), pc[r] # "idle",
           OnPath(step, job[r]), UNCHANGED <<begun, overlapped>>
    PROVE  Continues(r)
BY Moved DEF Continues

(* The code that FindOtp finds is written down, or the search goes on. *)
LEMMA FoundOtp ==
    ASSUME Typed, NEW r \in Requests, NEW channel \in Channels, FindOtp(r, channel)
    PROVE  /\ Continues(r) /\ UNCHANGED <<tables, history>>
           /\ \/ /\ pc'[r] \in {"count", "claim"}
                 /\ job'[r].row \in OpenCodes(channel) /\ job'[r].channel = channel
                 /\ Usable(job'[r].row)
              \/ pc'[r] = "sms" \/ pc'[r] = "idle"
<1>1. /\ pc \in [Requests -> Steps] /\ job \in [Requests -> Job] /\ OnPath(pc[r], job[r])
      /\ pc[r] = channel /\ pc[r] # "idle" /\ UNCHANGED <<tables, begun, history, overlapped>>
  BY DEF Typed, RequestsTyped, FindOtp, Channels
<1>2. PICK o : o = Max(OpenCodes(channel))
  OBVIOUS
<1>3. CASE OpenCodes(channel) # {} /\ Usable(o)
  <2>1. o \in OpenCodes(channel) /\ o \in Otps
    BY <1>2, <1>3, LatestIsOne DEF OpenCodes
  <2>2. PICK step \in {"count", "claim"} : pc' = [pc EXCEPT ![r] = step]
    BY <1>2, <1>3 DEF FindOtp
  <2>3. PICK j : j = [job[r] EXCEPT !.row = o]
    OBVIOUS
  <2>4. PICK k : k = [j EXCEPT !.channel = channel]
    OBVIOUS
  <2>5. j \in Job /\ j.row = o /\ j.op = job[r].op /\ j.code = job[r].code
        /\ j.enrolment = job[r].enrolment
    BY <1>1, <2>1, <2>3 DEF Job
  <2>6. k \in Job /\ k.row = o /\ k.op = job[r].op /\ k.code = job[r].code
        /\ k.enrolment = job[r].enrolment /\ k.channel = channel
    BY <2>4, <2>5 DEF Job
  <2>7. job' = [job EXCEPT ![r].row = o, ![r].channel = channel]
    BY <1>2, <1>3 DEF FindOtp
  <2>8. job' = [job EXCEPT ![r] = k]
    BY <1>1, <2>3, <2>4, <2>7
  <2>9. OnPath(step, k)
    BY <1>1, <2>1, <2>2, <2>6 DEF OnPath, WriteOps, ReplaceOps, Channels
  <2>10. /\ pc' \in [Requests -> Steps] /\ job' \in [Requests -> Job] /\ OthersGoOn(r)
         /\ pc'[r] = step /\ job'[r] = k
    BY <1>1, <2>2, <2>6, <2>8 DEF OthersGoOn, Steps
  <2> QED BY <1>1, <1>3, <2>1, <2>2, <2>6, <2>9, <2>10 DEF Continues
<1>4. CASE ~ (OpenCodes(channel) # {} /\ Usable(o))
  <2>1. IF channel = "email" THEN Goto(r, "sms") ELSE Finish(r)
    BY <1>2, <1>4 DEF FindOtp
  <2>2. CASE channel = "email" /\ Goto(r, "sms")
    <3>1. OnPath("sms", job[r])
      BY <1>1, <2>2 DEF OnPath, WriteOps, ReplaceOps
    <3> QED BY <1>1, <2>2, <3>1, Moved, MovesContinue DEF Steps, Channels
  <2>3. CASE Finish(r)
    BY <1>1, <2>3, Answered, EndsContinue
  <2> QED BY <2>1, <2>2, <2>3
<1> QED BY <1>3, <1>4

(* The write of an operation is its last statement. *)
LEMMA Written ==
    ASSUME Typed, NEW r \in Requests, NEW op, Write(r, op)
    PROVE  Continues(r) /\ pc[r] = "write" /\ job[r].op = op /\ pc'[r] = "idle"
BY Answered, EndsContinue DEF Write

(* Every statement of a request that has begun goes on in this way. *)
LEMMA Continuation ==
    ASSUME Typed, NEW r \in Requests, Continue(r)
    PROVE  Continues(r)
<1>1. OnPath(pc[r], job[r]) /\ job[r] \in Job
  BY DEF Typed, RequestsTyped
<1> USE DEF Steps
<1>2. CASE \/ \E k \in Secrets : setupTwoFactor(r, k)
           \/ \E b \in Backups : enableTwoFactor(r, b)
           \/ disableTwoFactor(r) \/ removeSmsFactor(r)
           \/ \E o \in Otps, p \in Phones : setupSmsFactor(r, p, o)
  BY <1>2, Written DEF setupTwoFactor, enableTwoFactor, disableTwoFactor, removeSmsFactor,
                       setupSmsFactor
<1>3. CASE \/ \E b \in Backups : regenerateBackupCodes(r, b)
           \/ \E o \in Otps : requestOtp(r, o)
           \/ SetVerified(r) \/ registerTrustedDevice(r)
  BY <1>3, EndsContinue DEF regenerateBackupCodes, requestOtp, SetVerified, registerTrustedDevice
<1>4. CASE FindBackup(r)
  <2>1. OnPath("useBackup", job[r])
    BY <1>1, <1>4 DEF OnPath, FindBackup, WriteOps, ReplaceOps
  <2> QED BY <1>4, <2>1, EndsContinue, MovesContinue DEF FindBackup
<1>5. CASE UseBackup(r)
  <2>1. OnPath("issue", job[r])
    BY <1>1, <1>5 DEF OnPath, UseBackup, WriteOps, ReplaceOps
  <2> QED BY <1>5, <2>1, EndsContinue, MovesContinue DEF UseBackup
<1>6. ASSUME pc[r] \in {"count", "claim"}, NextChannel(r), UNCHANGED <<begun, overlapped>>
      PROVE  Continues(r)
  <2>1. CASE job[r].channel = "email"
    <3>1. OnPath("sms", job[r])
      BY <1>1, <1>6, <2>1 DEF OnPath, WriteOps, ReplaceOps
    <3> QED BY <1>6, <2>1, <3>1, MovesContinue DEF NextChannel, Channels
  <2>2. CASE job[r].channel # "email"
    <3>1. Finish(r)
      BY <1>6, <2>2 DEF NextChannel
    <3> QED BY <1>6, <3>1, EndsContinue
  <2> QED BY <2>1, <2>2
<1>7. CASE CountAttempt(r)
  BY <1>6, <1>7, EndsContinue DEF CountAttempt
<1>8. CASE ClaimOtp(r)
  <2>1. CASE Goto(r, IF job[r].op = "login" THEN "issue" ELSE "setVerified")
    <3>1. pc[r] = "claim" /\ UNCHANGED <<begun, overlapped>>
      BY <1>8 DEF ClaimOtp
    <3>2. job[r].op \in {"login", "verifyPhone"}
      BY <1>1, <3>1 DEF OnPath, Job, Ops, WriteOps, ReplaceOps
    <3>3. PICK step \in {"issue", "setVerified"} :
              step = IF job[r].op = "login" THEN "issue" ELSE "setVerified"
      OBVIOUS
    <3>4. OnPath(step, job[r])
      BY <1>1, <3>1, <3>2, <3>3 DEF OnPath, WriteOps, ReplaceOps
    <3>5. Goto(r, step)
      BY <2>1, <3>3
    <3> QED BY <3>1, <3>3, <3>4, <3>5, MovesContinue
  <2> QED BY <1>6, <1>8, <2>1 DEF ClaimOtp
<1>9. CASE IssueSession(r)
  <2>1. OnPath("trust", job[r])
    BY <1>1, <1>9 DEF OnPath, IssueSession, WriteOps, ReplaceOps
  <2> QED BY <1>9, <2>1, EndsContinue, MovesContinue DEF IssueSession
<1> QED BY <1>2, <1>3, <1>4, <1>5, <1>7, <1>8, <1>9, FoundOtp DEF Continue

-------------------------------------------------------------------------------
(* How a step changes the rows. *)

(* Delivered codes once written keep their channel and phone. *)
OtpsKept ==
    \A o \in Otps : otp[o].state # "none" =>
        otp'[o].state # "none" /\ otp'[o].channel = otp[o].channel /\ otp'[o].phone = otp[o].phone

(* Deleting codes changes nothing but the state of those. *)
LEMMA DeletedOtps ==
    ASSUME Typed, NEW old
    PROVE  /\ DeleteOtps(old) \in [Otps -> Otp]
           /\ \A o \in Otps : LET row == DeleteOtps(old)[o]
                              IN  /\ row.state = IF o \in old THEN "deleted" ELSE otp[o].state
                                  /\ row.channel = otp[o].channel /\ row.phone = otp[o].phone
                                  /\ row.attempts = otp[o].attempts
BY DEF Typed, TablesTyped, DeleteOtps, Otp

(* Sending a code deletes the old ones and writes the fresh one. *)
LEMMA SentOtp ==
    ASSUME Typed, NEW o \in Otps, NEW old, NEW channel \in Channels, NEW p \in Phones \cup {None},
           otp' = Sent(o, old, channel, p), otp[o].state = "none"
    PROVE  /\ otp' \in [Otps -> Otp] /\ OtpsKept
           /\ otp'[o].channel = channel /\ otp'[o].state = "open" /\ otp'[o].attempts = 0
           /\ otp'[o].phone = p
           /\ \A x \in Otps \ {o} :
                /\ otp'[x].state = IF x \in old THEN "deleted" ELSE otp[x].state
                /\ otp'[x].channel = otp[x].channel /\ otp'[x].phone = otp[x].phone
                /\ otp'[x].attempts = otp[x].attempts
<1>1. PICK table, row : /\ table = DeleteOtps(old)
                        /\ row = [NoOtp EXCEPT !.channel = channel, !.state = "open", !.phone = p]
  OBVIOUS
<1>2. otp' = [table EXCEPT ![o] = row]
  BY <1>1 DEF Sent
<1>3. row \in Otp /\ row.channel = channel /\ row.state = "open" /\ row.attempts = 0
      /\ row.phone = p
  BY <1>1 DEF NoOtp, Otp
<1>4. table \in [Otps -> Otp]
  BY <1>1, DeletedOtps
<1>5. \A x \in Otps : LET gone == table[x]
                      IN  /\ gone.state = IF x \in old THEN "deleted" ELSE otp[x].state
                          /\ gone.channel = otp[x].channel /\ gone.phone = otp[x].phone
                          /\ gone.attempts = otp[x].attempts
  BY <1>1, DeletedOtps
<1>6. otp'[o] = row /\ \A x \in Otps \ {o} : otp'[x] = table[x]
  BY <1>2, <1>4
<1> QED BY <1>2, <1>3, <1>4, <1>5, <1>6 DEF OtpsKept

(* Backup codes once written stay in the table, so that there are at least *)
(* as many as there were enrolments.                                       *)
BackupsKept == \A b \in Backups : backup[b] # "none" => backup'[b] # "none"

(* Deleting backup codes changes nothing but the state of those. *)
LEMMA DeletedBackups ==
    ASSUME Typed, NEW old, backup' = Delete(backup, old)
    PROVE  /\ backup' \in [Backups -> {"none", "unused", "used", "deleted"}] /\ BackupsKept
           /\ \A x \in Backups : backup'[x] = IF x \in old THEN "deleted" ELSE backup[x]
BY DEF Typed, TablesTyped, Delete, BackupsKept

(* Replacing backup codes deletes the old ones and writes the fresh one. *)
LEMMA ReplacedBackups ==
    ASSUME Typed, NEW old, NEW b \in Backups, backup[b] = "none",
           backup' = [Delete(backup, old) EXCEPT ![b] = "unused"]
    PROVE  /\ backup' \in [Backups -> {"none", "unused", "used", "deleted"}] /\ BackupsKept
           /\ backup'[b] = "unused"
           /\ \A x \in Backups \ {b} : backup'[x] = IF x \in old THEN "deleted" ELSE backup[x]
BY DEF Typed, TablesTyped, Delete, BackupsKept

(* No backup code is forgotten. *)
LEMMA MoreBackups ==
    ASSUME Typed, BackupsKept
    PROVE  Cardinality(KnownBackups) <= Cardinality(KnownBackups')
<1>1. KnownBackups \subseteq KnownBackups' /\ IsFiniteSet(KnownBackups')
  BY FinitelyMany, FS_Subset DEF KnownBackups, BackupsKept
<1> QED BY <1>1, FS_Subset

(* A fresh backup code is one more. *)
LEMMA OneMoreBackup ==
    ASSUME Typed, BackupsKept, NEW b \in Backups, backup[b] = "none", backup'[b] # "none"
    PROVE  Cardinality(KnownBackups) + 1 <= Cardinality(KnownBackups')
<1> DEFINE more == KnownBackups \cup {b}
<1>1. more \subseteq KnownBackups' /\ IsFiniteSet(KnownBackups') /\ IsFiniteSet(KnownBackups)
  BY FinitelyMany, FS_Subset DEF KnownBackups, BackupsKept
<1>2. b \notin KnownBackups
  BY DEF KnownBackups
<1>3. Cardinality(more) = Cardinality(KnownBackups) + 1
  BY <1>1, <1>2, FS_AddElement
<1>4. Cardinality(more) <= Cardinality(KnownBackups')
  BY <1>1, FS_Subset
<1> QED BY <1>3, <1>4

(* A step of the tables that a request or the clock takes. *)
RowsStep ==
    /\ TablesTyped' /\ OtpsKept /\ BackupsKept /\ enrolment <= enrolment'

(* A step that leaves the rows alone leaves them well typed. *)
LEMMA RowsSame ==
    ASSUME Typed, UNCHANGED <<tables, enrolment, accepted>>, begun' \in 0 .. MaxOps,
           overlapped' \subseteq Races, proven' \subseteq Secrets \cup Phones
    PROVE  RowsStep
<1>1. UNCHANGED <<user, backup, otp, devices>>
  BY DEF tables
<1>2. KnownBackups' = KnownBackups
  BY <1>1 DEF KnownBackups
<1> QED BY <1>1, <1>2 DEF Typed, TablesTyped, RowsStep, OtpsKept, BackupsKept

(* So does a step of a request that has begun, *)
LEMMA RowsContinue ==
    ASSUME Typed, NEW r \in Requests, Continue(r)
    PROVE  RowsStep
<1> USE DEF Typed, TablesTyped
<1>1. /\ job[r] \in Job /\ OnPath(pc[r], job[r]) /\ Remembers(pc[r], job[r])
      /\ UNCHANGED <<begun, overlapped>>
  BY Continuation DEF RequestsTyped, Continues
<1>2. Cardinality(KnownBackups) \in Nat
  BY KnownAreFew
<1>3. ASSUME BackupsKept PROVE Cardinality(KnownBackups') \in Nat
  BY FinitelyMany, FS_Subset, FS_CardinalityType DEF KnownBackups
<1>4. ASSUME BackupsKept, OtpsKept, user' \in User, otp' \in [Otps -> Otp],
             backup' \in [Backups -> {"none", "unused", "used", "deleted"}],
             devices' \subseteq 1 .. enrolment, enrolment' = enrolment,
             user'.enabled => user.enabled, proven' \subseteq Secrets \cup Phones,
             accepted' \in [Backups \cup Otps -> Nat]
      PROVE  RowsStep
  <2>1. enrolment' <= Cardinality(KnownBackups')
    BY <1>2, <1>3, <1>4, MoreBackups
  <2>2. TablesTyped'
    BY <1>1, <1>4, <2>1
  <2> QED BY <1>4, <2>2 DEF RowsStep
<1>5. UNCHANGED backup => BackupsKept /\ backup' \in [Backups -> {"none", "unused", "used", "deleted"}]
  BY DEF BackupsKept
<1>6. UNCHANGED otp => OtpsKept /\ otp' \in [Otps -> Otp]
  BY DEF OtpsKept
<1>7. ASSUME NEW k \in Secrets, setupTwoFactor(r, k) PROVE RowsStep
  BY <1>4, <1>5, <1>6, <1>7 DEF setupTwoFactor, history, User
<1>8. ASSUME NEW b \in Backups, enableTwoFactor(r, b) PROVE RowsStep
  <2>1. /\ user' = [user EXCEPT !.enabled = TRUE] /\ backup[b] = "none"
        /\ UNCHANGED <<otp, devices, proven, accepted>>
        /\ enrolment' = IF user.enabled THEN enrolment ELSE enrolment + 1
    BY <1>8 DEF enableTwoFactor
  <2>2. /\ backup' \in [Backups -> {"none", "unused", "used", "deleted"}] /\ BackupsKept
        /\ backup'[b] = "unused"
    BY <1>8, <2>1, ReplacedBackups DEF enableTwoFactor
  <2>3. enrolment' <= Cardinality(KnownBackups')
    BY <1>2, <1>3, <2>1, <2>2, OneMoreBackup
  <2>4. user' \in User
    BY <2>1 DEF User
  <2>5. enrolment' \in Nat /\ enrolment' > 0 /\ enrolment <= enrolment'
    BY <2>1
  <2>7. devices' \subseteq 1 .. enrolment'
    <3>1. 1 .. enrolment \subseteq 1 .. enrolment'
      BY <2>5
    <3> QED BY <2>1, <3>1
  <2>6. TablesTyped'
    BY <1>1, <1>6, <2>1, <2>2, <2>3, <2>4, <2>5, <2>7
  <2> QED BY <1>6, <2>1, <2>2, <2>5, <2>6 DEF RowsStep
<1>9. CASE disableTwoFactor(r)
  <2>1. BackupsKept /\ backup' \in [Backups -> {"none", "unused", "used", "deleted"}]
    BY <1>9, DeletedBackups DEF disableTwoFactor
  <2> QED BY <1>4, <1>6, <1>9, <2>1 DEF disableTwoFactor, history, User
<1>10. ASSUME NEW b \in Backups, regenerateBackupCodes(r, b) PROVE RowsStep
  <2>1. BackupsKept /\ backup' \in [Backups -> {"none", "unused", "used", "deleted"}]
    BY <1>10, ReplacedBackups DEF regenerateBackupCodes
  <2> QED BY <1>4, <1>6, <1>10, <2>1 DEF regenerateBackupCodes, history
<1>11. ASSUME NEW o \in Otps, requestOtp(r, o) PROVE RowsStep
  <2>1. OtpsKept /\ otp' \in [Otps -> Otp]
    BY <1>1, <1>11, SentOtp DEF requestOtp, Job
  <2> QED BY <1>4, <1>5, <1>11, <2>1 DEF requestOtp, history
<1>12. ASSUME NEW o \in Otps, NEW p \in Phones, setupSmsFactor(r, p, o) PROVE RowsStep
  <2>1. OtpsKept /\ otp' \in [Otps -> Otp]
    BY <1>12, SentOtp DEF setupSmsFactor, Channels
  <2> QED BY <1>4, <1>5, <1>12, <2>1 DEF setupSmsFactor, history, User
<1>13. CASE removeSmsFactor(r)
  <2>1. OtpsKept /\ otp' \in [Otps -> Otp]
    BY <1>13, DeletedOtps DEF removeSmsFactor, OtpsKept
  <2> QED BY <1>4, <1>5, <1>13, <2>1 DEF removeSmsFactor, history, User
<1>14. CASE SetVerified(r)
  BY <1>4, <1>5, <1>6, <1>14 DEF SetVerified, history, User
<1>15. CASE FindBackup(r) \/ IssueSession(r)
  BY <1>1, <1>15, RowsSame DEF FindBackup, IssueSession, history
<1>16. CASE UseBackup(r)
  <2>1. job[r].code \in Backups
    BY <1>1, <1>16 DEF OnPath, UseBackup
  <2>2. BackupsKept /\ backup' \in [Backups -> {"none", "unused", "used", "deleted"}]
    BY <1>16, <2>1 DEF UseBackup, BackupsKept
  <2>3. accepted' \in [Backups \cup Otps -> Nat]
    BY <1>16, <2>1 DEF UseBackup
  <2> QED BY <1>4, <1>6, <1>16, <2>2, <2>3 DEF UseBackup
<1>17. ASSUME NEW channel \in Channels, FindOtp(r, channel) PROVE RowsStep
  BY <1>1, <1>17, RowsSame, FoundOtp DEF history
<1>18. CASE CountAttempt(r)
  <2>1. PICK o \in Otps : o = job[r].row
    BY <1>1, <1>18 DEF OnPath, CountAttempt
  <2>2. otp' = otp \/ otp' = [otp EXCEPT ![o] = [otp[o] EXCEPT !.attempts = otp[o].attempts + 1]]
    BY <1>18, <2>1 DEF CountAttempt
  <2>3. OtpsKept /\ otp' \in [Otps -> Otp]
    BY <2>2 DEF OtpsKept, Otp
  <2> QED BY <1>4, <1>5, <1>18, <2>3 DEF CountAttempt, history
<1>19. CASE ClaimOtp(r)
  <2>1. PICK o \in Otps : o = job[r].row
    BY <1>1, <1>19 DEF OnPath, ClaimOtp
  <2>2. otp' = otp \/ otp' = [otp EXCEPT ![o] = [otp[o] EXCEPT !.state = "consumed"]]
    BY <1>19, <2>1 DEF ClaimOtp
  <2>3. OtpsKept /\ otp' \in [Otps -> Otp]
    BY <2>2 DEF OtpsKept, Otp
  <2>4. accepted' \in [Backups \cup Otps -> Nat]
    BY <1>19, <2>1 DEF ClaimOtp
  <2>5. otp[o].phone \in Phones \cup {None}
    BY DEF Otp
  <2>6. proven' \subseteq Secrets \cup Phones
    BY <1>19, <2>1, <2>5 DEF ClaimOtp
  <2> QED BY <1>4, <1>5, <1>19, <2>3, <2>4, <2>6 DEF ClaimOtp
<1>20. CASE registerTrustedDevice(r)
  <2>1. job[r].enrolment \in 1 .. enrolment
    <3>1. job[r].op = "login"
      BY <1>1, <1>20 DEF registerTrustedDevice, OnPath, Job, Ops, WriteOps, ReplaceOps
    <3> QED BY <1>1, <3>1 DEF Remembers
  <2> QED BY <1>4, <1>5, <1>6, <1>20, <2>1 DEF registerTrustedDevice, history
<1> QED BY <1>7, <1>8, <1>9, <1>10, <1>11, <1>12, <1>13, <1>14, <1>15, <1>16, <1>17, <1>18,
           <1>19, <1>20 DEF Continue

(* and any other. *)
LEMMA RowsGoOn ==
    ASSUME Typed, [Next]_vars
    PROVE  RowsStep
<1> USE DEF Typed, TablesTyped
<1>1. ASSUME NEW r \in Requests, Arrive(r) PROVE RowsStep
  <2>1. PICK step \in Steps, j \in Job : Arrives(r, step, j)
    BY <1>1, Arrival
  <2>2. overlapped' \subseteq Races
    BY <2>1 DEF Arrives
  <2> QED BY <2>1, <2>2, RowsSame DEF Arrives
<1>2. CASE \E r \in Requests : Crash(r)
  BY <1>2, RowsSame DEF Crash, history
<1>3. ASSUME NEW o \in Otps, ExpireOtp(o) PROVE RowsStep
  <2>1. otp' = [otp EXCEPT ![o] = [otp[o] EXCEPT !.expired = TRUE]]
        /\ UNCHANGED <<user, backup, devices, begun, history, overlapped>>
    BY <1>3 DEF ExpireOtp
  <2>2. otp' \in [Otps -> Otp] /\ OtpsKept
    BY <2>1 DEF Otp, OtpsKept
  <2>3. KnownBackups' = KnownBackups
    BY <2>1 DEF KnownBackups
  <2> QED BY <2>1, <2>2, <2>3 DEF RowsStep, BackupsKept, history
<1>4. CASE ExpireDevices
  <2>1. KnownBackups' = KnownBackups
    BY <1>4 DEF KnownBackups, ExpireDevices
  <2> QED BY <1>4, <2>1 DEF RowsStep, BackupsKept, OtpsKept, history, ExpireDevices
<1>5. CASE UNCHANGED vars
  BY <1>5, RowsSame DEF vars, history
<1> QED BY <1>1, <1>2, <1>3, <1>4, <1>5, RowsContinue DEF Next

-------------------------------------------------------------------------------
(* Which statement comes before which. *)
LEMMA ComesFrom ==
    ASSUME Typed, NEW r \in Requests, Continue(r)
    PROVE  /\ pc'[r] \in {"count", "claim"} => \E channel \in Channels : FindOtp(r, channel)
           /\ pc'[r] = "useBackup" => FindBackup(r)
           /\ pc'[r] = "setVerified" => ClaimOtp(r)
<1> DEFINE Passed == pc'[r] \notin {"count", "claim", "useBackup", "setVerified"}
<1> USE DEF Steps, Channels
<1>1. CASE \/ \E k \in Secrets : setupTwoFactor(r, k)
           \/ \E b \in Backups : enableTwoFactor(r, b)
           \/ disableTwoFactor(r) \/ removeSmsFactor(r)
           \/ \E o \in Otps, p \in Phones : setupSmsFactor(r, p, o)
  <2>1. Passed
    BY <1>1, Written DEF setupTwoFactor, enableTwoFactor, disableTwoFactor, removeSmsFactor,
                         setupSmsFactor
  <2> QED BY <2>1
<1>2. CASE \/ \E b \in Backups : regenerateBackupCodes(r, b)
           \/ \E o \in Otps : requestOtp(r, o)
           \/ SetVerified(r) \/ registerTrustedDevice(r)
  <2>1. Passed
    BY <1>2, Answered DEF regenerateBackupCodes, requestOtp, SetVerified, registerTrustedDevice
  <2> QED BY <2>1
<1>3. CASE UseBackup(r) \/ IssueSession(r)
  <2>1. Passed
    BY <1>3, Answered, Moved DEF UseBackup, IssueSession
  <2> QED BY <2>1
<1>4. CASE FindBackup(r)
  BY <1>4, Answered, Moved DEF FindBackup
<1>5. CASE CountAttempt(r)
  <2>1. Passed
    BY <1>5, Answered, Moved DEF CountAttempt, NextChannel
  <2> QED BY <2>1
<1>6. CASE ClaimOtp(r)
  <2>1. pc'[r] \notin {"count", "claim", "useBackup"}
    BY <1>6, Answered, Moved DEF ClaimOtp, NextChannel
  <2> QED BY <1>6, <2>1
<1>7. ASSUME NEW channel \in Channels, FindOtp(r, channel)
      PROVE  pc'[r] \notin {"useBackup", "setVerified"}
  BY <1>7, FoundOtp
<1> QED BY <1>1, <1>2, <1>3, <1>4, <1>5, <1>6, <1>7 DEF Continue

(* A step leaves the local variables of the requests well typed. *)
LEMMA RequestsGoOn ==
    ASSUME Typed, [Next]_vars
    PROVE  RequestsTyped'
<1>1. OtpsKept /\ enrolment <= enrolment' /\ enrolment' \in Nat /\ enrolment \in Nat
  BY RowsGoOn DEF RowsStep, Typed, TablesTyped
<1>2. RequestsTyped
  BY DEF Typed
<1>3. ASSUME NEW q \in Requests, pc'[q] = pc[q], job'[q] = job[q]
      PROVE  /\ OnPath(pc'[q], job'[q]) /\ (pc'[q] = "idle" => job'[q] = NoJob)
             /\ pc'[q] \in {"count", "claim"} =>
                    otp'[job'[q].row].state # "none" /\ otp'[job'[q].row].channel = job'[q].channel
             /\ job'[q].op = "login" => job'[q].enrolment \in 1 .. enrolment'
  <2>1. OnPath(pc[q], job[q]) /\ Remembers(pc[q], job[q]) /\ (pc[q] = "idle" => job[q] = NoJob)
        /\ job[q] \in Job
    BY <1>2 DEF RequestsTyped
  <2>2. pc[q] \in {"count", "claim"} => job[q].row \in Otps
    BY <2>1 DEF OnPath
  <2>3. job[q].op = "login" => job[q].enrolment \in 1 .. enrolment'
    BY <1>1, <2>1 DEF Remembers
  <2> QED BY <1>1, <1>3, <2>1, <2>2, <2>3 DEF Remembers, OtpsKept
(* It is enough to look at the request that takes the step. *)
<1>4. ASSUME NEW r \in Requests, OthersGoOn(r), pc' \in [Requests -> Steps],
             job' \in [Requests -> Job], OnPath(pc'[r], job'[r]),
             pc'[r] = "idle" => job'[r] = NoJob,
             pc'[r] \in {"count", "claim"} =>
                    otp'[job'[r].row].state # "none" /\ otp'[job'[r].row].channel = job'[r].channel,
             job'[r].op = "login" => job'[r].enrolment \in 1 .. enrolment'
      PROVE  RequestsTyped'
  <2>1. ASSUME NEW q \in Requests
        PROVE  /\ OnPath(pc'[q], job'[q]) /\ (pc'[q] = "idle" => job'[q] = NoJob)
               /\ pc'[q] \in {"count", "claim"} =>
                    otp'[job'[q].row].state # "none" /\ otp'[job'[q].row].channel = job'[q].channel
               /\ job'[q].op = "login" => job'[q].enrolment \in 1 .. enrolment'
    BY <1>3, <1>4 DEF OthersGoOn
  <2> QED BY <1>4, <2>1 DEF RequestsTyped, Remembers
<1>5. OnPath("idle", NoJob) /\ NoJob.op = "none"
  BY DEF OnPath, NoJob, WriteOps, ReplaceOps
<1>6. ASSUME NEW r \in Requests, Arrive(r) PROVE RequestsTyped'
  <2>1. PICK step \in Steps, j \in Job : Arrives(r, step, j)
    BY <1>6, Arrival
  <2>2. j.op = "login" => j.enrolment \in 1 .. enrolment'
    BY <2>1 DEF Arrives, Typed, TablesTyped
  <2> QED BY <1>4, <2>1, <2>2 DEF Arrives
<1>7. ASSUME NEW r \in Requests, Continue(r) PROVE RequestsTyped'
  <2>1. Continues(r)
    BY <1>7, Continuation
  <2>2. pc'[r] \in {"count", "claim"} =>
          otp'[job'[r].row].state # "none" /\ otp'[job'[r].row].channel = job'[r].channel
    <3>1. SUFFICES ASSUME pc'[r] \in {"count", "claim"}
                   PROVE  otp'[job'[r].row].state # "none"
                          /\ otp'[job'[r].row].channel = job'[r].channel
      OBVIOUS
    <3>2. PICK channel \in Channels : FindOtp(r, channel)
      BY <1>7, <3>1, ComesFrom
    <3>3. job'[r].row \in OpenCodes(channel) /\ job'[r].channel = channel /\ UNCHANGED tables
      BY <3>1, <3>2, FoundOtp
    <3> QED BY <3>3 DEF OpenCodes, tables
  <2>3. job'[r].op = "login" => job'[r].enrolment \in 1 .. enrolment'
    <3>1. job[r].op = "login" => job[r].enrolment \in 1 .. enrolment
      BY <1>2 DEF RequestsTyped, Remembers
    <3> QED BY <1>1, <1>5, <2>1, <3>1 DEF Continues
  <2> QED BY <1>4, <1>5, <2>1, <2>2, <2>3 DEF Continues
<1>8. ASSUME NEW r \in Requests, Crash(r) PROVE RequestsTyped'
  BY <1>4, <1>5, <1>8, Answered DEF Crash
<1>9. CASE UNCHANGED <<pc, job>>
  BY <1>2, <1>3, <1>9 DEF RequestsTyped, Remembers
<1> QED BY <1>6, <1>7, <1>8, <1>9 DEF Next, vars, ExpireOtp, ExpireDevices

(* All is well typed at first, *)
LEMMA TypedInit == Init => Typed
<1> SUFFICES ASSUME Init PROVE Typed
  OBVIOUS
<1>1. NoJob \in Job /\ NoJob.op = "none" /\ NoOtp \in Otp
  BY DEF NoJob, NoOtp, Job, Otp, Codes, Channels
<1>2. RequestsTyped
  BY <1>1 DEF Init, RequestsTyped, OnPath, Remembers, Steps, WriteOps, ReplaceOps
<1>3. /\ user \in User /\ backup \in [Backups -> {"none", "unused", "used", "deleted"}]
      /\ proven \subseteq Secrets \cup Phones
  <2>1. CASE enrolment = 0
    <3>1. user = [enabled |-> FALSE, secret |-> None, phone |-> None, verified |-> FALSE]
          /\ backup = [b \in Backups |-> "none"] /\ proven = {}
      BY <2>1 DEF Init
    <3>2. user \in User
      BY <3>1 DEF User
    <3> QED BY <3>1, <3>2
  <2>2. CASE enrolment # 0
    <3>1. PICK k \in Secrets, b1 \in Backups, p \in Phones \cup {None} :
             /\ user = [enabled |-> TRUE, secret |-> k, phone |-> p, verified |-> p # None]
             /\ backup = [b \in Backups |-> IF b = b1 THEN "unused" ELSE "none"]
             /\ proven = {k, p} \ {None}
      BY <2>2 DEF Init
    <3>2. (p # None) \in BOOLEAN
      OBVIOUS
    <3>3. user \in User
      BY <3>1, <3>2 DEF User
    <3> QED BY <3>1, <3>3
  <2> QED BY <2>1, <2>2
<1>4. enrolment \in Nat /\ enrolment <= Cardinality(KnownBackups) /\ (user.enabled => enrolment > 0)
  <2>1. CASE enrolment = 0
    BY <2>1, KnownAreFew DEF Init
  <2>2. CASE enrolment # 0
    <3>1. PICK b1 \in Backups : backup = [b \in Backups |-> IF b = b1 THEN "unused" ELSE "none"]
                                /\ enrolment = 1
      BY <2>2 DEF Init
    <3>2. KnownBackups = {b1}
      BY <3>1 DEF KnownBackups
    <3> QED BY <3>1, <3>2, FS_Singleton
  <2> QED BY <2>1, <2>2
<1>5. otp \in [Otps -> Otp] /\ devices \subseteq 1 .. enrolment /\ begun \in 0 .. MaxOps
      /\ accepted \in [Backups \cup Otps -> Nat] /\ overlapped \subseteq Races
  BY <1>1, Numbers DEF Init
<1> QED BY <1>2, <1>3, <1>4, <1>5 DEF Typed, TablesTyped

(* and stays so. *)
LEMMA TypedStep == Typed /\ [Next]_vars => Typed'
BY RowsGoOn, RequestsGoOn DEF Typed, RowsStep

(* The rows, and the local variables of the requests, are well typed: a   *)
(* request in flight is at a statement of its operation.                   *)
THEOREM SecondFactorIsTyped == Spec => []Typed
BY TypedInit, TypedStep, PTL DEF Spec

-------------------------------------------------------------------------------
(* What a step changes, and whose it is. *)

(* Every request stays where it is, is answered, goes on or begins. *)
LEMMA RequestsMove ==
    ASSUME Typed, [Next]_vars
    PROVE  /\ overlapped \subseteq overlapped'
           /\ \A q \in Requests :
                \/ pc'[q] = pc[q] /\ job'[q] = job[q]
                \/ pc'[q] = "idle" /\ job'[q].op = "none"
                \/ /\ Continue(q) /\ pc[q] # "idle" /\ job'[q].op = job[q].op
                   /\ job'[q].code = job[q].code /\ job'[q].enrolment = job[q].enrolment
                \/ \E step \in Steps, j \in Job : Arrives(q, step, j)
<1>0. NoJob.op = "none"
  BY DEF NoJob
<1>1. ASSUME NEW r \in Requests, Arrive(r) PROVE \E step \in Steps, j \in Job : Arrives(r, step, j)
  BY <1>1, Arrival
<1>2. ASSUME NEW r \in Requests, Crash(r)
      PROVE  OthersGoOn(r) /\ pc'[r] = "idle" /\ job'[r] = NoJob /\ overlapped' = overlapped
  BY <1>2, Answered DEF Crash
<1>3. CASE UNCHANGED <<pc, job, overlapped>>
  BY <1>3
<1> QED BY <1>0, <1>1, <1>2, <1>3, Continuation
        DEF Next, vars, ExpireOtp, ExpireDevices, Arrives, Continues, OthersGoOn

(* The steps that change rows, and the others. *)
LEMMA Changes ==
    ASSUME Typed, [Next]_vars
    PROVE  \/ \E r \in Requests :
                \/ \E k \in Secrets : setupTwoFactor(r, k)
                \/ \E b \in Backups : enableTwoFactor(r, b) \/ regenerateBackupCodes(r, b)
                \/ disableTwoFactor(r)
                \/ \E o \in Otps : requestOtp(r, o)
                \/ \E o \in Otps, p \in Phones : setupSmsFactor(r, p, o)
                \/ removeSmsFactor(r) \/ SetVerified(r) \/ UseBackup(r)
                \/ CountAttempt(r) \/ ClaimOtp(r) \/ registerTrustedDevice(r)
           \/ \E o \in Otps : ExpireOtp(o)
           \/ /\ UNCHANGED <<user, backup, otp, enrolment, accepted>>
              /\ devices' \subseteq devices /\ proven \subseteq proven'
<1> DEFINE Quiet == /\ UNCHANGED <<user, backup, otp, enrolment, accepted>>
                    /\ devices' \subseteq devices /\ proven \subseteq proven'
<1>1. ASSUME NEW r \in Requests, Arrive(r) PROVE Quiet
  BY <1>1, Arrival DEF Arrives, tables
<1>2. ASSUME NEW r \in Requests, FindBackup(r) \/ IssueSession(r) \/ Crash(r)
      PROVE  Quiet
  BY <1>2 DEF FindBackup, IssueSession, Crash, tables, history
<1>3. ASSUME NEW r \in Requests, NEW channel \in Channels, FindOtp(r, channel) PROVE Quiet
  BY <1>3 DEF FindOtp, tables, history
<1>4. CASE ExpireDevices
  BY <1>4 DEF ExpireDevices, history
<1>5. CASE UNCHANGED vars
  BY <1>5 DEF vars, tables, history
<1> QED BY <1>1, <1>2, <1>3, <1>4, <1>5 DEF Next, Continue

-------------------------------------------------------------------------------
(* Two requests in flight whose operations race are noted. *)
OverlapsNoted ==
    \A q, r \in Requests :
        q # r /\ pc[q] # "idle" /\ pc[r] # "idle" /\ {job[q].op, job[r].op} \in Races
            => {job[q].op, job[r].op} \in overlapped

(* At first no request is in flight. *)
LEMMA OverlapsInit == Init => OverlapsNoted
BY DEF Init, OverlapsNoted

(* A request that begins notes those that it meets. *)
LEMMA OverlapsStep ==
    ASSUME Typed, OverlapsNoted, [Next]_vars
    PROVE  OverlapsNoted'
<1> SUFFICES ASSUME NEW q \in Requests, NEW r \in Requests, q # r, pc'[q] # "idle",
                    pc'[r] # "idle", {job'[q].op, job'[r].op} \in Races
             PROVE  {job'[q].op, job'[r].op} \in overlapped'
  BY DEF OverlapsNoted
<1>1. overlapped \subseteq overlapped'
  BY RequestsMove
<1>2. pc \in [Requests -> Steps] /\ job \in [Requests -> Job]
  BY DEF Typed, RequestsTyped
(* A request that begins meets those in flight. *)
<1>3. ASSUME NEW x \in Requests, NEW y \in Requests, x # y, pc'[y] # "idle",
             {job'[x].op, job'[y].op} \in Races,
             \E step \in Steps, j \in Job : Arrives(x, step, j)
      PROVE  {job'[x].op, job'[y].op} \in overlapped'
  <2>1. PICK step \in Steps, j \in Job : Arrives(x, step, j)
    BY <1>3
  <2>2. y \in InFlight /\ job'[y] = job[y] /\ job'[x] = j
    BY <1>3, <2>1 DEF Arrives, OthersGoOn, InFlight
  <2> QED BY <1>3, <2>1, <2>2 DEF Arrives
<1>4. CASE \E step \in Steps, j \in Job : Arrives(q, step, j)
  BY <1>3, <1>4
<1>5. CASE \E step \in Steps, j \in Job : Arrives(r, step, j)
  <2>1. {job'[r].op, job'[q].op} = {job'[q].op, job'[r].op}
    OBVIOUS
  <2> QED BY <1>3, <1>5, <2>1
<1>6. ASSUME NEW x \in Requests, pc'[x] # "idle",
             ~ \E step \in Steps, j \in Job : Arrives(x, step, j)
      PROVE  pc[x] # "idle" /\ job'[x].op = job[x].op
  BY <1>6, RequestsMove
<1>7. CASE /\ ~ \E step \in Steps, j \in Job : Arrives(q, step, j)
           /\ ~ \E step \in Steps, j \in Job : Arrives(r, step, j)
  BY <1>1, <1>6, <1>7 DEF OverlapsNoted
<1> QED BY <1>4, <1>5, <1>7

-------------------------------------------------------------------------------
(* Delivered codes. *)

Spent == {"consumed", "deleted"}
Counting(o) == {r \in Requests : pc[r] = "count" /\ job[r].row = o}

(* A code that was accepted is spent; the guesses, and those about to be   *)
(* counted, are as few as one short of the limit and one for each request. *)
OtpInv ==
    \A o \in Otps :
        /\ accepted[o] <= 1 /\ (accepted[o] = 1 => otp[o].state \in Spent)
        /\ otp[o].attempts + Cardinality(Counting(o)) <= MaxAttempts + Cardinality(Requests) - 1

(* What a step does to a code. *)
OtpGoesOn(o) ==
    /\ otp[o].state \in Spent => otp'[o].state \in Spent
    /\ \/ otp'[o].attempts = otp[o].attempts
       \/ otp[o].state = "none" /\ otp'[o].attempts = 0
       \/ /\ otp'[o].attempts = otp[o].attempts + 1
          /\ \E r \in Requests : CountAttempt(r) /\ job[r].row = o
    /\ \/ accepted'[o] = accepted[o]
       \/ /\ accepted'[o] = accepted[o] + 1
          /\ otp[o].state = "open" /\ otp'[o].state = "consumed"

(* Every step does that to a code. *)
LEMMA OtpsGoOn ==
    ASSUME Typed, [Next]_vars, NEW o \in Otps
    PROVE  OtpGoesOn(o)
<1> USE DEF Typed, TablesTyped
<1>1. \A r \in Requests : OnPath(pc[r], job[r]) /\ Remembers(pc[r], job[r]) /\ job[r] \in Job
  BY DEF RequestsTyped
<1>2. CASE UNCHANGED <<otp, accepted>>
  BY <1>2 DEF OtpGoesOn
<1>3. ASSUME NEW r \in Requests, NEW x \in Otps, requestOtp(r, x) PROVE OtpGoesOn(o)
  <2>1. otp' = Sent(x, job[r].old, job[r].channel, None) /\ otp[x].state = "none"
        /\ accepted' = accepted /\ job[r].channel \in Channels
    BY <1>1, <1>3 DEF requestOtp, history, Job
  <2>2. otp'[x].attempts = 0 /\ \A y \in Otps \ {x} :
            /\ otp'[y].state = IF y \in job[r].old THEN "deleted" ELSE otp[y].state
            /\ otp'[y].attempts = otp[y].attempts
    BY <2>1, SentOtp
  <2>3. CASE o = x
    BY <2>1, <2>2, <2>3 DEF OtpGoesOn, Spent
  <2>4. CASE o # x
    BY <2>1, <2>2, <2>4 DEF OtpGoesOn, Spent
  <2> QED BY <2>3, <2>4
<1>4. ASSUME NEW r \in Requests, NEW x \in Otps, NEW p \in Phones, setupSmsFactor(r, p, x)
      PROVE  OtpGoesOn(o)
  <2>1. otp' = Sent(x, Existing({"phone"}), "phone", p) /\ otp[x].state = "none"
        /\ accepted' = accepted /\ "phone" \in Channels
    BY <1>4 DEF setupSmsFactor, history, Channels
  <2>2. otp'[x].attempts = 0 /\ \A y \in Otps \ {x} :
            /\ otp'[y].state = IF y \in Existing({"phone"}) THEN "deleted" ELSE otp[y].state
            /\ otp'[y].attempts = otp[y].attempts
    BY <2>1, SentOtp
  <2>3. CASE o = x
    BY <2>1, <2>2, <2>3 DEF OtpGoesOn, Spent
  <2>4. CASE o # x
    BY <2>1, <2>2, <2>4 DEF OtpGoesOn, Spent
  <2> QED BY <2>3, <2>4
<1>5. ASSUME NEW r \in Requests, removeSmsFactor(r) PROVE OtpGoesOn(o)
  <2>1. otp' = DeleteOtps(Existing({"phone", "sms"})) /\ accepted' = accepted
    BY <1>5 DEF removeSmsFactor, history
  <2> QED BY <2>1, DeletedOtps DEF OtpGoesOn, Spent
<1>6. ASSUME NEW r \in Requests, CountAttempt(r) PROVE OtpGoesOn(o)
  <2>1. PICK x \in Otps : x = job[r].row
    BY <1>1, <1>6 DEF OnPath, CountAttempt
  <2>2. accepted' = accepted
        /\ \/ otp' = otp
           \/ otp' = [otp EXCEPT ![x] = [otp[x] EXCEPT !.attempts = otp[x].attempts + 1]]
    BY <1>6, <2>1 DEF CountAttempt, history
  <2>3. CASE otp' = otp
    BY <1>2, <2>2, <2>3
  <2>4. CASE otp' = [otp EXCEPT ![x] = [otp[x] EXCEPT !.attempts = otp[x].attempts + 1]]
    <3>1. otp[x] \in Otp
      OBVIOUS
    <3>2. otp'[x].state = otp[x].state /\ otp'[x].attempts = otp[x].attempts + 1
      BY <2>4, <3>1 DEF Otp
    <3>3. o # x => otp'[o] = otp[o]
      BY <2>4
    <3> QED BY <1>6, <2>1, <2>2, <3>2, <3>3 DEF OtpGoesOn
  <2> QED BY <2>2, <2>3, <2>4
<1>7. ASSUME NEW r \in Requests, ClaimOtp(r) PROVE OtpGoesOn(o)
  <2>1. PICK x \in Otps : x = job[r].row
    BY <1>1, <1>7 DEF OnPath, ClaimOtp
  <2>2. \/ UNCHANGED <<otp, accepted>>
        \/ /\ otp' = [otp EXCEPT ![x] = [otp[x] EXCEPT !.state = "consumed"]]
           /\ accepted' = [accepted EXCEPT ![x] = accepted[x] + 1] /\ otp[x].state = "open"
    BY <1>7, <2>1 DEF ClaimOtp, Claimable
  <2>3. CASE /\ otp' = [otp EXCEPT ![x] = [otp[x] EXCEPT !.state = "consumed"]]
             /\ accepted' = [accepted EXCEPT ![x] = accepted[x] + 1] /\ otp[x].state = "open"
    <3>1. otp[x] \in Otp
      OBVIOUS
    <3>2. /\ otp'[x].state = "consumed" /\ otp'[x].attempts = otp[x].attempts
          /\ accepted'[x] = accepted[x] + 1
      BY <2>3, <3>1 DEF Otp
    <3>3. o # x => otp'[o] = otp[o] /\ accepted'[o] = accepted[o]
      BY <2>3
    <3> QED BY <2>3, <3>2, <3>3 DEF OtpGoesOn, Spent
  <2> QED BY <1>2, <2>2, <2>3
<1>8. ASSUME NEW r \in Requests, UseBackup(r) PROVE OtpGoesOn(o)
  <2>1. PICK b \in Backups : b = job[r].code
    BY <1>1, <1>8 DEF OnPath, UseBackup
  <2>2. o # b
    BY CodesAreDistinct DEF Otps
  <2>3. otp' = otp /\ (accepted' = accepted \/ accepted' = [accepted EXCEPT ![b] = accepted[b] + 1])
    BY <1>8, <2>1 DEF UseBackup
  <2> QED BY <2>2, <2>3 DEF OtpGoesOn
<1>9. ASSUME NEW x \in Otps, ExpireOtp(x) PROVE OtpGoesOn(o)
  <2>1. otp' = [otp EXCEPT ![x] = [otp[x] EXCEPT !.expired = TRUE]] /\ accepted' = accepted
    BY <1>9 DEF ExpireOtp, history
  <2>2. otp'[o].state = otp[o].state /\ otp'[o].attempts = otp[o].attempts
    BY <2>1 DEF Otp
  <2> QED BY <2>1, <2>2 DEF OtpGoesOn
<1>10. ASSUME NEW r \in Requests,
              \/ \E k \in Secrets : setupTwoFactor(r, k)
              \/ \E b \in Backups : enableTwoFactor(r, b) \/ regenerateBackupCodes(r, b)
              \/ disableTwoFactor(r) \/ SetVerified(r) \/ registerTrustedDevice(r)
       PROVE  OtpGoesOn(o)
  <2>1. UNCHANGED <<otp, accepted>>
    BY <1>10 DEF setupTwoFactor, enableTwoFactor, regenerateBackupCodes, disableTwoFactor,
                 SetVerified, registerTrustedDevice, history
  <2> QED BY <1>2, <2>1
<1> QED BY <1>2, <1>3, <1>4, <1>5, <1>6, <1>7, <1>8, <1>9, <1>10, Changes

(* A code that was accepted stays spent, and guesses stay few. *)
LEMMA OtpInvStep ==
    ASSUME Typed, OtpInv, [Next]_vars
    PROVE  OtpInv'
<1> SUFFICES ASSUME NEW o \in Otps
             PROVE  /\ accepted'[o] <= 1 /\ (accepted'[o] = 1 => otp'[o].state \in Spent)
                    /\ otp'[o].attempts + Cardinality(Counting(o)')
                           <= MaxAttempts + Cardinality(Requests) - 1
  BY DEF OtpInv
<1>1. OtpGoesOn(o) /\ accepted[o] \in Nat /\ otp[o] \in Otp /\ otp'[o] \in Otp
  BY OtpsGoOn, TypedStep DEF Typed, TablesTyped
<1>2. accepted'[o] <= 1 /\ (accepted'[o] = 1 => otp'[o].state \in Spent)
  BY <1>1 DEF OtpInv, OtpGoesOn, Spent
<1> SUFFICES otp'[o].attempts + Cardinality(Counting(o)') <= MaxAttempts + Cardinality(Requests) - 1
  BY <1>2
<1>3. Counting(o) \subseteq Requests /\ Counting(o)' \subseteq Requests
  BY DEF Counting
<1>4. /\ Cardinality(Requests) \in Nat /\ IsFiniteSet(Requests)
      /\ Cardinality(Counting(o)) \in Nat /\ IsFiniteSet(Counting(o))
      /\ Cardinality(Counting(o)') \in Nat /\ Cardinality(Counting(o)') <= Cardinality(Requests)
  BY <1>3, FinitelyMany, FS_Subset, FS_CardinalityType
<1>5. otp[o].attempts \in Nat /\ otp'[o].attempts \in Nat
      /\ otp[o].attempts + Cardinality(Counting(o)) <= MaxAttempts + Cardinality(Requests) - 1
  BY <1>1 DEF Otp, OtpInv
(* Who comes to count a guess has found the code with guesses left. *)
<1>6. CASE Counting(o)' \subseteq Counting(o)
  <2>1. Cardinality(Counting(o)') <= Cardinality(Counting(o))
    BY <1>4, <1>6, FS_Subset
  <2>2. CASE otp'[o].attempts = otp[o].attempts
    BY <1>4, <1>5, <2>1, <2>2, Numbers
  <2>3. CASE otp[o].state = "none" /\ otp'[o].attempts = 0
    <3>1. Counting(o) = {}
      BY <2>3 DEF Counting, Typed, RequestsTyped, Remembers
    <3>2. Counting(o)' = {}
      BY <1>6, <3>1
    <3> HIDE DEF Counting
    <3>3. Cardinality(Counting(o)') = 0
      BY <3>2, FS_EmptySet
    <3>4. otp[o].attempts <= MaxAttempts + Cardinality(Requests) - 1
      BY <1>4, <1>5, Numbers
    <3> QED BY <1>4, <1>5, <2>3, <3>3, <3>4, Numbers
  <2>4. ASSUME NEW r \in Requests, CountAttempt(r), job[r].row = o,
               otp'[o].attempts = otp[o].attempts + 1
        PROVE  otp'[o].attempts + Cardinality(Counting(o)')
                   <= MaxAttempts + Cardinality(Requests) - 1
    <3>1. r \in Counting(o)
      BY <2>4 DEF Counting, CountAttempt
    <3>2. pc'[r] # "count"
      <4>1. Continue(r)
        BY <2>4 DEF Continue
      <4>2. \A channel \in Channels : ~ FindOtp(r, channel)
        BY <2>4 DEF CountAttempt, FindOtp, Channels
      <4> QED BY <4>1, <4>2, ComesFrom
    <3>3. Counting(o)' \subseteq Counting(o) \ {r}
      BY <1>6, <3>2 DEF Counting
    <3>4. Cardinality(Counting(o) \ {r}) = Cardinality(Counting(o)) - 1
          /\ IsFiniteSet(Counting(o) \ {r})
      BY <1>4, <3>1, FS_RemoveElement
    <3>5. Cardinality(Counting(o)') <= Cardinality(Counting(o)) - 1
      BY <3>3, <3>4, FS_Subset
    <3> QED BY <1>4, <1>5, <2>4, <3>5, Numbers
  <2> QED BY <1>1, <2>2, <2>3, <2>4 DEF OtpGoesOn
<1>7. CASE ~ (Counting(o)' \subseteq Counting(o))
  <2>1. PICK r \in Requests : pc'[r] = "count" /\ job'[r].row = o /\ r \notin Counting(o)
    BY <1>7 DEF Counting
  <2>2. Continue(r)
    BY <2>1, RequestsMove DEF Counting, Arrives
  <2>3. PICK channel \in Channels : FindOtp(r, channel)
    BY <2>1, <2>2, ComesFrom
  <2>4. Usable(o) /\ UNCHANGED tables
    BY <2>1, <2>3, FoundOtp
  <2>5. otp'[o].attempts < MaxAttempts
    BY <2>4 DEF Usable, tables
  <2> QED BY <1>4, <1>5, <2>5, Numbers
<1> QED BY <1>2, <1>6, <1>7

(* A delivered code passes once, and takes as many guesses as the limit    *)
(* and one more for each request that had read it before: the claim of     *)
(* consumeDeliveredOtp is an update where the code is still open.          *)
THEOREM DeliveredCodesHold == Spec => []DeliveredCodeHolds
<1>1. Init => OtpInv
  <2> SUFFICES ASSUME Init, NEW o \in Otps
               PROVE  /\ accepted[o] <= 1 /\ (accepted[o] = 1 => otp[o].state \in Spent)
                      /\ otp[o].attempts + Cardinality(Counting(o))
                             <= MaxAttempts + Cardinality(Requests) - 1
    BY DEF OtpInv
  <2>1. accepted[o] = 0 /\ otp[o].attempts = 0
    BY DEF Init, NoOtp
  <2>2. Counting(o) = {}
    BY DEF Init, Counting
  <2>3. Cardinality(Counting(o)) = 0
    BY <2>2, FS_EmptySet
  <2>4. Cardinality(Requests) \in Nat
    BY FinitelyMany, FS_CardinalityType
  <2> QED BY <2>1, <2>3, <2>4, Numbers
<1>2. Typed /\ OtpInv /\ [Next]_vars => OtpInv'
  BY OtpInvStep
<1>3. Typed /\ OtpInv => DeliveredCodeHolds
  <2> SUFFICES ASSUME Typed, OtpInv, NEW o \in Otps
               PROVE  /\ accepted[o] <= 1
                      /\ otp[o].attempts <= MaxAttempts + Cardinality(Requests) - 1
    BY DEF DeliveredCodeHolds
  <2>1. Counting(o) \subseteq Requests
    BY DEF Counting
  <2>2. Cardinality(Counting(o)) \in Nat /\ Cardinality(Requests) \in Nat
    BY <2>1, FinitelyMany, FS_Subset, FS_CardinalityType
  <2>3. otp[o].attempts \in Nat
    BY DEF Typed, TablesTyped, Otp
  <2> QED BY <2>2, <2>3, Numbers DEF OtpInv
<1> QED BY <1>1, <1>2, <1>3, SecondFactorIsTyped, PTL DEF Spec

-------------------------------------------------------------------------------
(* Backup codes. *)

(* Unless two sign-ins overlapped, a code that was accepted is marked, and *)
(* the sign-in about to mark one is the first that it admits.              *)
BackupInv ==
    Apart("login", "login") =>
        /\ \A b \in Backups : /\ accepted[b] <= 1
                              /\ accepted[b] = 1 => backup[b] \in {"used", "deleted"}
        /\ \A r \in Requests : pc[r] = "useBackup" => accepted[job[r].code] = 0

(* What a step does to a backup code. *)
BackupGoesOn(b) ==
    /\ backup[b] \in {"used", "deleted"} => backup'[b] \in {"used", "deleted"}
    /\ \/ accepted'[b] = accepted[b]
       \/ /\ accepted'[b] = accepted[b] + 1 /\ backup'[b] = "used"
          /\ \E r \in Requests : UseBackup(r) /\ job[r].code = b

(* Every step does that to a backup code. *)
LEMMA BackupsGoOn ==
    ASSUME Typed, [Next]_vars, NEW b \in Backups
    PROVE  BackupGoesOn(b)
<1> USE DEF Typed, TablesTyped
<1>1. \A r \in Requests : OnPath(pc[r], job[r])
  BY DEF RequestsTyped
<1>2. CASE UNCHANGED <<backup, accepted>>
  BY <1>2 DEF BackupGoesOn
<1>3. ASSUME NEW r \in Requests, NEW x \in Backups, NEW old, backup[x] = "none",
             backup' = [Delete(backup, old) EXCEPT ![x] = "unused"], accepted' = accepted
      PROVE  BackupGoesOn(b)
  <2>1. \A y \in Backups \ {x} : backup'[y] = IF y \in old THEN "deleted" ELSE backup[y]
    BY <1>3, ReplacedBackups
  <2>2. CASE b = x
    BY <1>3, <2>2 DEF BackupGoesOn
  <2>3. CASE b # x
    BY <1>3, <2>1, <2>3 DEF BackupGoesOn
  <2> QED BY <2>2, <2>3
<1>4. ASSUME NEW r \in Requests, NEW x \in Backups, enableTwoFactor(r, x) PROVE BackupGoesOn(b)
  BY <1>3, <1>4 DEF enableTwoFactor
<1>5. ASSUME NEW r \in Requests, NEW x \in Backups, regenerateBackupCodes(r, x)
      PROVE  BackupGoesOn(b)
  BY <1>3, <1>5 DEF regenerateBackupCodes, history
<1>6. ASSUME NEW r \in Requests, disableTwoFactor(r) PROVE BackupGoesOn(b)
  BY <1>6, DeletedBackups DEF disableTwoFactor, history, BackupGoesOn
<1>7. ASSUME NEW r \in Requests, UseBackup(r) PROVE BackupGoesOn(b)
  <2>1. PICK x \in Backups : x = job[r].code
    BY <1>1, <1>7 DEF OnPath, UseBackup
  <2>2. \/ UNCHANGED <<backup, accepted>>
        \/ /\ backup' = [backup EXCEPT ![x] = "used"]
           /\ accepted' = [accepted EXCEPT ![x] = accepted[x] + 1]
    BY <1>7, <2>1 DEF UseBackup
  <2>3. CASE /\ backup' = [backup EXCEPT ![x] = "used"]
             /\ accepted' = [accepted EXCEPT ![x] = accepted[x] + 1]
    BY <1>7, <2>1, <2>3 DEF BackupGoesOn
  <2> QED BY <1>2, <2>2, <2>3
<1>8. ASSUME NEW r \in Requests, ClaimOtp(r) PROVE BackupGoesOn(b)
  <2>1. PICK x \in Otps : x = job[r].row
    BY <1>1, <1>8 DEF OnPath, ClaimOtp
  <2>2. b # x
    BY CodesAreDistinct DEF Otps
  <2>3. backup' = backup
        /\ (accepted' = accepted \/ accepted' = [accepted EXCEPT ![x] = accepted[x] + 1])
    BY <1>8, <2>1 DEF ClaimOtp
  <2> QED BY <2>2, <2>3 DEF BackupGoesOn
<1>9. ASSUME NEW r \in Requests,
             \/ \E k \in Secrets : setupTwoFactor(r, k)
             \/ \E o \in Otps : requestOtp(r, o)
             \/ \E o \in Otps, p \in Phones : setupSmsFactor(r, p, o)
             \/ removeSmsFactor(r) \/ SetVerified(r) \/ CountAttempt(r)
             \/ registerTrustedDevice(r)
      PROVE  BackupGoesOn(b)
  <2>1. UNCHANGED <<backup, accepted>>
    BY <1>9 DEF setupTwoFactor, requestOtp, setupSmsFactor, removeSmsFactor, SetVerified,
                CountAttempt, registerTrustedDevice, history
  <2> QED BY <1>2, <2>1
<1>10. CASE \E o \in Otps : ExpireOtp(o)
  BY <1>2, <1>10 DEF ExpireOtp, history
<1> QED BY <1>2, <1>4, <1>5, <1>6, <1>7, <1>8, <1>9, <1>10, Changes

(* A backup code that was accepted stays marked. *)
LEMMA BackupInvStep ==
    ASSUME Typed, OverlapsNoted, BackupInv, [Next]_vars
    PROVE  BackupInv'
<1> SUFFICES ASSUME {"login", "login"} \notin overlapped'
             PROVE  /\ \A b \in Backups :
                          /\ accepted'[b] <= 1
                          /\ accepted'[b] = 1 => backup'[b] \in {"used", "deleted"}
                    /\ \A r \in Requests : pc'[r] = "useBackup" => accepted'[job'[r].code] = 0
  BY DEF BackupInv, Apart
<1>1. Apart("login", "login")
  BY RequestsMove DEF Apart
<1>2. accepted \in [Backups \cup Otps -> Nat]
  BY DEF Typed, TablesTyped
<1>3. \A r \in Requests : OnPath(pc[r], job[r]) /\ job[r] \in Job
  BY DEF Typed, RequestsTyped
<1>4. ASSUME NEW r \in Requests, pc[r] = "useBackup"
      PROVE  job[r].op = "login" /\ job[r].code \in Backups
  BY <1>3, <1>4 DEF OnPath, Job, Ops, WriteOps, ReplaceOps
<1>5. ASSUME NEW b \in Backups
      PROVE  accepted'[b] <= 1 /\ (accepted'[b] = 1 => backup'[b] \in {"used", "deleted"})
  <2>1. BackupGoesOn(b)
    BY BackupsGoOn
  <2>2. accepted[b] \in Nat /\ accepted[b] <= 1
        /\ (accepted[b] = 1 => backup[b] \in {"used", "deleted"})
    BY <1>1, <1>2 DEF BackupInv
  <2>3. ASSUME NEW r \in Requests, UseBackup(r), job[r].code = b PROVE accepted[b] = 0
    BY <1>1, <2>3 DEF BackupInv, UseBackup
  <2> QED BY <2>1, <2>2, <2>3 DEF BackupGoesOn
<1>6. ASSUME NEW r \in Requests, pc'[r] = "useBackup" PROVE accepted'[job'[r].code] = 0
  <2>1. CASE pc'[r] = pc[r] /\ job'[r] = job[r]
    <3>1. PICK b \in Backups : b = job[r].code
      BY <1>4, <1>6, <2>1
    <3>2. accepted[b] = 0
      BY <1>1, <1>6, <2>1, <3>1 DEF BackupInv
    <3>3. ASSUME NEW q \in Requests, UseBackup(q) PROVE FALSE
      <4>1. q # r
        <5>1. Continue(q)
          BY <3>3 DEF Continue
        <5>2. pc[q] = "useBackup" /\ ~ FindBackup(q)
          BY <3>3 DEF UseBackup, FindBackup
        <5> QED BY <1>6, <5>1, <5>2, ComesFrom
      <4>2. job[q].op = "login" /\ job[r].op = "login" /\ pc[q] # "idle" /\ pc[r] # "idle"
        BY <1>4, <1>6, <2>1, <3>3 DEF UseBackup
      <4>3. {"login", "login"} \in Races
        BY DEF Races
      <4> QED BY <1>1, <4>1, <4>2, <4>3 DEF OverlapsNoted, Apart
    <3>4. accepted'[b] = accepted[b]
      BY <3>3, BackupsGoOn DEF BackupGoesOn
    <3> QED BY <2>1, <3>1, <3>2, <3>4
  <2>2. CASE Continue(r) /\ job'[r].code = job[r].code
    <3>1. FindBackup(r)
      BY <1>6, <2>2, ComesFrom
    <3>2. PICK b \in Backups : b = job[r].code
      BY <1>3, <3>1 DEF FindBackup, OnPath
    <3>3. backup[b] = "unused"
      <4>1. CASE Finish(r)
        BY <1>6, <4>1, Answered
      <4> QED BY <3>1, <3>2, <4>1 DEF FindBackup
    <3>4. accepted'[b] = accepted[b]
      BY <3>1 DEF FindBackup, history
    <3>5. accepted[b] = 0
      BY <1>1, <1>2, <3>3 DEF BackupInv
    <3> QED BY <2>2, <3>2, <3>4, <3>5
  <2>3. ~ \E step \in Steps, j \in Job : Arrives(r, step, j)
    BY <1>6 DEF Arrives
  <2> QED BY <1>6, <2>1, <2>2, <2>3, RequestsMove
<1> QED BY <1>5, <1>6

(* Reuse of a backup code is impossible unless two sign-ins overlap:       *)
(* completeTwoFactorLogin finds the code unused, then marks it.            *)
THEOREM BackupCodesOnce == Spec => []BackupCodeOnceUnlessRaced
<1>1. Init => BackupInv /\ OverlapsNoted
  <2> SUFFICES ASSUME Init PROVE BackupInv
    BY OverlapsInit
  <2> QED BY DEF Init, BackupInv
<1>2. Typed /\ OverlapsNoted /\ BackupInv /\ [Next]_vars => OverlapsNoted' /\ BackupInv'
  BY OverlapsStep, BackupInvStep
<1>3. BackupInv => BackupCodeOnceUnlessRaced
  BY DEF BackupInv, BackupCodeOnceUnlessRaced
<1> QED BY <1>1, <1>2, <1>3, SecondFactorIsTyped, PTL DEF Spec

-------------------------------------------------------------------------------
(* The phone. *)

(* An open code that verifies a phone was sent to the phone of the user.   *)
SentToPhone ==
    \A o \in Otps : otp[o].channel = "phone" /\ otp[o].state = "open" => otp[o].phone = user.phone

(* Unless a setup overlapped a verification, the phone about to be marked, *)
(* and the one that is, is one whose holder showed a code.                 *)
PhoneProven ==
    Apart("setupSms", "verifyPhone") =>
        /\ user.verified /\ user.phone # None => user.phone \in proven
        /\ \A r \in Requests : pc[r] = "setVerified" => user.phone \in proven \cup {None}

(* What the claim of a code changes. *)
LEMMA ClaimedOtp ==
    ASSUME Typed, NEW r \in Requests, ClaimOtp(r)
    PROVE  \E o \in Otps :
             /\ o = job[r].row
             /\ \/ UNCHANGED <<otp, proven>> /\ pc'[r] # "setVerified"
                \/ /\ otp[o].state = "open" /\ otp'[o].state = "consumed"
                   /\ otp'[o].channel = otp[o].channel /\ otp'[o].phone = otp[o].phone
                   /\ \A x \in Otps \ {o} : otp'[x] = otp[x]
                   /\ proven' = proven \cup ({otp[o].phone} \ {None})
<1>1. PICK o \in Otps : o = job[r].row
  BY DEF Typed, RequestsTyped, OnPath, ClaimOtp
<1>2. \/ UNCHANGED <<otp, proven>> /\ NextChannel(r)
      \/ /\ otp' = [otp EXCEPT ![o] = [otp[o] EXCEPT !.state = "consumed"]]
         /\ otp[o].state = "open" /\ proven' = proven \cup ({otp[o].phone} \ {None})
  BY <1>1 DEF ClaimOtp, Claimable
<1>3. CASE UNCHANGED <<otp, proven>> /\ NextChannel(r)
  BY <1>1, <1>3, Answered, Moved DEF NextChannel, Steps, Channels
<1>4. CASE /\ otp' = [otp EXCEPT ![o] = [otp[o] EXCEPT !.state = "consumed"]]
           /\ otp[o].state = "open" /\ proven' = proven \cup ({otp[o].phone} \ {None})
  <2>1. otp \in [Otps -> Otp]
    BY DEF Typed, TablesTyped
  <2>2. otp'[o].state = "consumed" /\ otp'[o].channel = otp[o].channel
        /\ otp'[o].phone = otp[o].phone
    BY <1>4, <2>1 DEF Otp
  <2> QED BY <1>1, <1>4, <2>1, <2>2
<1> QED BY <1>2, <1>3, <1>4

(* Setting up a phone, or removing it, deletes the codes sent to the last. *)
LEMMA SentToPhoneStep ==
    ASSUME Typed, SentToPhone, [Next]_vars
    PROVE  SentToPhone'
<1> USE DEF Typed, TablesTyped
<1>1. \A r \in Requests : OnPath(pc[r], job[r]) /\ job[r] \in Job
  BY DEF RequestsTyped
(* Most steps send no such code and leave the phone alone.                 *)
<1>2. ASSUME user'.phone = user.phone,
             \A o \in Otps : otp'[o].channel = "phone" /\ otp'[o].state = "open" =>
                otp[o].channel = "phone" /\ otp[o].state = "open" /\ otp'[o].phone = otp[o].phone
      PROVE  SentToPhone'
  BY <1>2 DEF SentToPhone
<1>3. ASSUME UNCHANGED otp, user'.phone = user.phone PROVE SentToPhone'
  BY <1>2, <1>3
<1>4. ASSUME NEW r \in Requests, NEW k \in Secrets, setupTwoFactor(r, k) PROVE SentToPhone'
  BY <1>3, <1>4 DEF setupTwoFactor, User
<1>5. ASSUME NEW r \in Requests, NEW b \in Backups, enableTwoFactor(r, b) PROVE SentToPhone'
  BY <1>3, <1>5 DEF enableTwoFactor, User
<1>6. ASSUME NEW r \in Requests, disableTwoFactor(r) \/ SetVerified(r) PROVE SentToPhone'
  BY <1>3, <1>6 DEF disableTwoFactor, SetVerified, User
<1>7. ASSUME NEW r \in Requests, NEW x \in Otps, requestOtp(r, x) PROVE SentToPhone'
  <2>1. /\ otp' = Sent(x, job[r].old, job[r].channel, None) /\ otp[x].state = "none"
        /\ user' = user /\ job[r].channel \in {"email", "sms"} /\ job[r].channel \in Channels
    BY <1>1, <1>7 DEF requestOtp, OnPath, Channels
  <2>2. /\ otp'[x].channel # "phone"
        /\ \A o \in Otps \ {x} :
              /\ otp'[o].state = IF o \in job[r].old THEN "deleted" ELSE otp[o].state
              /\ otp'[o].channel = otp[o].channel /\ otp'[o].phone = otp[o].phone
    BY <2>1, SentOtp
  <2> QED BY <1>2, <2>1, <2>2
<1>8. ASSUME NEW r \in Requests, NEW x \in Otps, NEW p \in Phones, setupSmsFactor(r, p, x)
      PROVE  SentToPhone'
  <2>1. /\ otp' = Sent(x, Existing({"phone"}), "phone", p) /\ otp[x].state = "none"
        /\ user' = [user EXCEPT !.phone = p, !.verified = FALSE] /\ "phone" \in Channels
    BY <1>8 DEF setupSmsFactor, Channels
  <2>2. /\ otp'[x].phone = p
        /\ \A o \in Otps \ {x} :
              /\ otp'[o].state = IF o \in Existing({"phone"}) THEN "deleted" ELSE otp[o].state
              /\ otp'[o].channel = otp[o].channel
    BY <2>1, SentOtp
  <2>3. user'.phone = p
    BY <2>1 DEF User
  <2>4. \A o \in Otps \ {x} : ~ (otp'[o].channel = "phone" /\ otp'[o].state = "open")
    BY <2>2 DEF Existing
  <2> QED BY <2>2, <2>3, <2>4 DEF SentToPhone
<1>9. ASSUME NEW r \in Requests, removeSmsFactor(r) PROVE SentToPhone'
  <2>1. otp' = DeleteOtps(Existing({"phone", "sms"}))
    BY <1>9 DEF removeSmsFactor
  <2>2. \A o \in Otps :
            /\ otp'[o].state = IF o \in Existing({"phone", "sms"}) THEN "deleted" ELSE otp[o].state
            /\ otp'[o].channel = otp[o].channel
    BY <2>1, DeletedOtps
  <2>3. \A o \in Otps : ~ (otp'[o].channel = "phone" /\ otp'[o].state = "open")
    BY <2>2 DEF Existing
  <2> QED BY <2>3 DEF SentToPhone
<1>10. ASSUME NEW r \in Requests, CountAttempt(r) PROVE SentToPhone'
  <2>1. PICK x \in Otps : x = job[r].row
    BY <1>1, <1>10 DEF OnPath, CountAttempt
  <2>2. user' = user
        /\ \/ otp' = otp
           \/ otp' = [otp EXCEPT ![x] = [otp[x] EXCEPT !.attempts = otp[x].attempts + 1]]
    BY <1>10, <2>1 DEF CountAttempt
  <2>3. \A o \in Otps : otp'[o].state = otp[o].state /\ otp'[o].channel = otp[o].channel
                        /\ otp'[o].phone = otp[o].phone
    BY <2>2 DEF Otp
  <2> QED BY <1>2, <2>2, <2>3
<1>11. ASSUME NEW r \in Requests, ClaimOtp(r) PROVE SentToPhone'
  <2>1. user' = user
    BY <1>11 DEF ClaimOtp
  <2> QED BY <1>2, <1>3, <1>11, <2>1, ClaimedOtp
<1>12. ASSUME NEW x \in Otps, ExpireOtp(x) PROVE SentToPhone'
  <2>1. otp' = [otp EXCEPT ![x] = [otp[x] EXCEPT !.expired = TRUE]] /\ user' = user
    BY <1>12 DEF ExpireOtp
  <2>2. \A o \in Otps : otp'[o].state = otp[o].state /\ otp'[o].channel = otp[o].channel
                        /\ otp'[o].phone = otp[o].phone
    BY <2>1 DEF Otp
  <2> QED BY <1>2, <2>1, <2>2
<1>13. ASSUME NEW r \in Requests,
              \/ \E b \in Backups : regenerateBackupCodes(r, b)
              \/ UseBackup(r) \/ registerTrustedDevice(r)
       PROVE  SentToPhone'
  BY <1>3, <1>13 DEF regenerateBackupCodes, UseBackup, registerTrustedDevice
<1> QED BY <1>3, <1>4, <1>5, <1>6, <1>7, <1>8, <1>9, <1>10, <1>11, <1>12, <1>13, Changes

(* The phone and its mark change in three steps; proofs are kept. *)
LEMMA PhoneChanges ==
    ASSUME Typed, [Next]_vars
    PROVE  /\ proven \subseteq proven'
           /\ \/ user'.phone = user.phone /\ user'.verified = user.verified
              \/ \E r \in Requests :
                    \/ SetVerified(r) /\ user'.phone = user.phone
                    \/ removeSmsFactor(r) /\ user'.phone = None
                    \/ \E o \in Otps, p \in Phones : setupSmsFactor(r, p, o) /\ ~ user'.verified
<1>1. user \in User
  BY DEF Typed, TablesTyped
<1>2. CASE UNCHANGED user /\ proven \subseteq proven'
  BY <1>2
<1>3. ASSUME NEW r \in Requests, NEW k \in Secrets, setupTwoFactor(r, k)
      PROVE  /\ proven \subseteq proven'
             /\ user'.phone = user.phone /\ user'.verified = user.verified
  BY <1>1, <1>3 DEF setupTwoFactor, history, User
<1>4. ASSUME NEW r \in Requests, NEW b \in Backups, enableTwoFactor(r, b)
      PROVE  /\ proven \subseteq proven'
             /\ user'.phone = user.phone /\ user'.verified = user.verified
  BY <1>1, <1>4 DEF enableTwoFactor, User
<1>5. ASSUME NEW r \in Requests, disableTwoFactor(r)
      PROVE  /\ proven \subseteq proven'
             /\ user'.phone = user.phone /\ user'.verified = user.verified
  BY <1>1, <1>5 DEF disableTwoFactor, history, User
<1>6. ASSUME NEW r \in Requests, SetVerified(r)
      PROVE  proven \subseteq proven' /\ user'.phone = user.phone
  BY <1>1, <1>6 DEF SetVerified, history, User
<1>7. ASSUME NEW r \in Requests, removeSmsFactor(r)
      PROVE  proven \subseteq proven' /\ user'.phone = None
  BY <1>1, <1>7 DEF removeSmsFactor, history, User
<1>8. ASSUME NEW r \in Requests, NEW o \in Otps, NEW p \in Phones, setupSmsFactor(r, p, o)
      PROVE  proven \subseteq proven' /\ ~ user'.verified
  BY <1>1, <1>8 DEF setupSmsFactor, history, User
<1>9. ASSUME NEW r \in Requests,
             \/ \E b \in Backups : regenerateBackupCodes(r, b)
             \/ \E o \in Otps : requestOtp(r, o)
             \/ UseBackup(r) \/ CountAttempt(r) \/ registerTrustedDevice(r)
      PROVE  UNCHANGED user /\ proven \subseteq proven'
  BY <1>9 DEF regenerateBackupCodes, requestOtp, UseBackup, CountAttempt,
              registerTrustedDevice, history
<1>10. ASSUME NEW r \in Requests, ClaimOtp(r) PROVE UNCHANGED user /\ proven \subseteq proven'
  BY <1>10 DEF ClaimOtp
<1>11. CASE \E o \in Otps : ExpireOtp(o)
  BY <1>11 DEF ExpireOtp, history
<1> QED BY <1>2, <1>3, <1>4, <1>5, <1>6, <1>7, <1>8, <1>9, <1>10, <1>11, Changes

(* A phone is marked only after its holder showed a code. *)
LEMMA PhoneProvenStep ==
    ASSUME Typed, OverlapsNoted, SentToPhone, PhoneProven, [Next]_vars
    PROVE  PhoneProven'
<1> SUFFICES ASSUME {"setupSms", "verifyPhone"} \notin overlapped'
             PROVE  /\ user'.verified /\ user'.phone # None => user'.phone \in proven'
                    /\ \A r \in Requests : pc'[r] = "setVerified" => user'.phone \in proven' \cup {None}
  BY DEF PhoneProven, Apart
<1>1. /\ {"setupSms", "verifyPhone"} \notin overlapped
      /\ user.verified /\ user.phone # None => user.phone \in proven
      /\ \A r \in Requests : pc[r] = "setVerified" => user.phone \in proven \cup {None}
  BY RequestsMove DEF PhoneProven, Apart
<1>2. \A r \in Requests : OnPath(pc[r], job[r]) /\ Remembers(pc[r], job[r]) /\ job[r] \in Job
  BY DEF Typed, RequestsTyped
<1>3. user'.verified /\ user'.phone # None => user'.phone \in proven'
  <2>1. ASSUME NEW r \in Requests, SetVerified(r), user'.phone = user.phone
        PROVE  user'.phone \in proven' \cup {None}
    BY <1>1, <2>1, PhoneChanges DEF SetVerified
  <2> QED BY <1>1, <2>1, PhoneChanges
<1>4. ASSUME NEW r \in Requests, pc'[r] = "setVerified" PROVE user'.phone \in proven' \cup {None}
  <2>1. CASE pc[r] = "setVerified"
    <3>1. job[r].op = "verifyPhone"
      BY <1>2, <2>1 DEF OnPath, Job, Ops, WriteOps, ReplaceOps
    <3>2. ASSUME NEW q \in Requests, NEW o \in Otps, NEW p \in Phones, setupSmsFactor(q, p, o)
          PROVE  FALSE
      <4>1. pc[q] = "write" /\ job[q].op = "setupSms"
        BY <3>2 DEF setupSmsFactor, Write
      <4>2. {"setupSms", "verifyPhone"} \in Races
        BY DEF Races
      <4> QED BY <1>1, <2>1, <3>1, <4>1, <4>2 DEF OverlapsNoted
    <3> QED BY <1>1, <2>1, <3>2, PhoneChanges
  <2>2. CASE pc[r] # "setVerified"
    <3>1. Continue(r)
      BY <1>4, <2>2, RequestsMove DEF Arrives
    <3>2. ClaimOtp(r)
      BY <1>4, <3>1, ComesFrom
    <3>3. PICK o \in Otps : /\ o = job[r].row /\ otp[o].state = "open"
                            /\ proven' = proven \cup ({otp[o].phone} \ {None})
      BY <1>4, <3>2, ClaimedOtp
    <3>4. job[r].op = "verifyPhone"
      <4>1. CASE job[r].op = "login"
        <5>1. pc'[r] # "setVerified"
          BY <3>2, <4>1, Moved DEF ClaimOtp, NextChannel, Finish, Steps, Channels, Typed, RequestsTyped
        <5> QED BY <1>4, <5>1
      <4> QED BY <1>2, <3>2, <4>1 DEF ClaimOtp, OnPath, Job, Ops, WriteOps, ReplaceOps
    <3>5. otp[o].channel = "phone"
      BY <1>2, <3>2, <3>3, <3>4 DEF ClaimOtp, Remembers, OnPath
    <3>6. otp[o].phone = user.phone /\ user' = user
      BY <3>2, <3>3, <3>5 DEF SentToPhone, ClaimOtp
    <3> QED BY <3>3, <3>6
  <2> QED BY <2>1, <2>2
<1> QED BY <1>3, <1>4

-------------------------------------------------------------------------------
(* The secret and the enrolment. *)

(* Unless enabling overlapped a setup or a disabling, the secret of who is *)
(* about to be enabled, or is, is one whose holder showed a code.          *)
SecretProven ==
    Apart("enable", "setup") /\ Apart("enable", "disable") =>
        /\ user.enabled => user.secret \in proven
        /\ \A r \in Requests :
              /\ pc[r] # "idle" /\ job[r].op = "enable" => user.secret \in proven
              /\ pc[r] # "idle" /\ job[r].op = "setup" => ~ user.enabled

(* Unless a sign-in overlapped a disabling, sign-ins and trusted devices   *)
(* are of the enrolment that is in force.                                  *)
TrustInForce ==
    Apart("login", "disable") =>
        /\ devices \subseteq (IF user.enabled THEN {enrolment} ELSE {})
        /\ \A r \in Requests : pc[r] # "idle" /\ job[r].op = "login" =>
              user.enabled /\ job[r].enrolment = enrolment

(* The enrolment and its secret change in three steps, trusted devices in  *)
(* one more; proofs are kept.                                              *)
LEMMA EnrolmentChanges ==
    ASSUME Typed, [Next]_vars
    PROVE  /\ proven \subseteq proven'
           /\ \/ /\ user'.secret = user.secret /\ user'.enabled = user.enabled
                 /\ enrolment' = enrolment
                 /\ \/ devices' \subseteq devices
                    \/ \E r \in Requests : /\ registerTrustedDevice(r)
                                           /\ devices' = devices \cup {job[r].enrolment}
              \/ \E r \in Requests, k \in Secrets :
                    /\ setupTwoFactor(r, k) /\ user'.enabled = user.enabled
                    /\ enrolment' = enrolment /\ devices' = devices
              \/ \E r \in Requests, b \in Backups :
                    /\ enableTwoFactor(r, b) /\ user'.enabled /\ user'.secret = user.secret
                    /\ enrolment' = IF user.enabled THEN enrolment ELSE enrolment + 1
                    /\ devices' = devices
              \/ \E r \in Requests :
                    /\ disableTwoFactor(r) /\ ~ user'.enabled /\ devices' = {}
<1>1. user \in User
  BY DEF Typed, TablesTyped
<1>2. CASE /\ UNCHANGED <<user, enrolment>>
           /\ devices' \subseteq devices /\ proven \subseteq proven'
  BY <1>2
<1>3. ASSUME NEW r \in Requests, NEW k \in Secrets, setupTwoFactor(r, k)
      PROVE  /\ proven \subseteq proven' /\ user'.enabled = user.enabled
             /\ enrolment' = enrolment /\ devices' = devices
  BY <1>1, <1>3 DEF setupTwoFactor, history, User
<1>4. ASSUME NEW r \in Requests, NEW b \in Backups, enableTwoFactor(r, b)
      PROVE  /\ proven \subseteq proven' /\ user'.enabled /\ user'.secret = user.secret
             /\ enrolment' = IF user.enabled THEN enrolment ELSE enrolment + 1
             /\ devices' = devices
  BY <1>1, <1>4 DEF enableTwoFactor, User
<1>5. ASSUME NEW r \in Requests, disableTwoFactor(r)
      PROVE  proven \subseteq proven' /\ ~ user'.enabled /\ devices' = {}
  <2>1. PICK u : u = [user EXCEPT !.enabled = FALSE, !.secret = None]
    OBVIOUS
  <2>2. ~ u.enabled
    BY <1>1, <2>1 DEF User
  <2>3. user' = u
    BY <1>5, <2>1 DEF disableTwoFactor
  <2> QED BY <1>5, <2>2, <2>3 DEF disableTwoFactor, history
<1>6. ASSUME NEW r \in Requests, SetVerified(r) \/ removeSmsFactor(r)
      PROVE  /\ proven \subseteq proven' /\ enrolment' = enrolment /\ devices' = devices
             /\ user'.secret = user.secret /\ user'.enabled = user.enabled
  BY <1>1, <1>6 DEF SetVerified, removeSmsFactor, history, User
<1>7. ASSUME NEW r \in Requests, NEW o \in Otps, NEW p \in Phones, setupSmsFactor(r, p, o)
      PROVE  /\ proven \subseteq proven' /\ enrolment' = enrolment /\ devices' = devices
             /\ user'.secret = user.secret /\ user'.enabled = user.enabled
  BY <1>1, <1>7 DEF setupSmsFactor, history, User
<1>8. ASSUME NEW r \in Requests, registerTrustedDevice(r)
      PROVE  /\ proven \subseteq proven' /\ UNCHANGED <<user, enrolment>>
             /\ devices' = devices \cup {job[r].enrolment}
  BY <1>8 DEF registerTrustedDevice, history
<1>9. ASSUME NEW r \in Requests,
             \/ \E b \in Backups : regenerateBackupCodes(r, b)
             \/ \E o \in Otps : requestOtp(r, o)
             \/ UseBackup(r) \/ CountAttempt(r) \/ ClaimOtp(r)
      PROVE  UNCHANGED <<user, enrolment, devices>> /\ proven \subseteq proven'
  BY <1>9 DEF regenerateBackupCodes, requestOtp, UseBackup, CountAttempt, ClaimOtp, history
<1>10. CASE \E o \in Otps : ExpireOtp(o)
  BY <1>10 DEF ExpireOtp, history
<1> QED BY <1>2, <1>3, <1>4, <1>5, <1>6, <1>7, <1>8, <1>9, <1>10, Changes

(* A request in flight after a step was in flight before, or began.        *)
LEMMA WasInFlight ==
    ASSUME Typed, [Next]_vars, NEW r \in Requests, pc'[r] # "idle"
    PROVE  \/ pc[r] # "idle" /\ job[r].op = job'[r].op /\ job[r].enrolment = job'[r].enrolment
           \/ \E step \in Steps, j \in Job : Arrives(r, step, j)
BY RequestsMove

(* Of two operations in flight that race, their meeting is noted. *)
LEMMA Met ==
    ASSUME OverlapsNoted, NEW q \in Requests, NEW r \in Requests, pc[q] # "idle", pc[r] # "idle",
           job[q].op # job[r].op, {job[q].op, job[r].op} \in Races
    PROVE  ~ Apart(job[q].op, job[r].op)
BY DEF OverlapsNoted, Apart

(* A secret is in force only after its holder showed a code. *)
LEMMA SecretProvenStep ==
    ASSUME Typed, OverlapsNoted, SecretProven, [Next]_vars
    PROVE  SecretProven'
<1> SUFFICES ASSUME {"enable", "setup"} \notin overlapped', {"enable", "disable"} \notin overlapped'
             PROVE  /\ user'.enabled => user'.secret \in proven'
                    /\ \A r \in Requests :
                          /\ pc'[r] # "idle" /\ job'[r].op = "enable" => user'.secret \in proven'
                          /\ pc'[r] # "idle" /\ job'[r].op = "setup" => ~ user'.enabled
  BY DEF SecretProven, Apart
<1>1. Apart("enable", "setup") /\ Apart("enable", "disable")
  BY RequestsMove DEF Apart
<1>2. /\ user.enabled => user.secret \in proven
      /\ \A r \in Requests :
            /\ pc[r] # "idle" /\ job[r].op = "enable" => user.secret \in proven
            /\ pc[r] # "idle" /\ job[r].op = "setup" => ~ user.enabled
  BY <1>1 DEF SecretProven
<1>3. {"enable", "setup"} \in Races /\ {"enable", "disable"} \in Races
  BY DEF Races
<1>4. \A r \in Requests : /\ \A k \in Secrets : setupTwoFactor(r, k) => pc[r] # "idle" /\ job[r].op = "setup"
                          /\ \A b \in Backups : enableTwoFactor(r, b) => pc[r] # "idle" /\ job[r].op = "enable"
                          /\ disableTwoFactor(r) => pc[r] # "idle" /\ job[r].op = "disable"
  BY DEF setupTwoFactor, enableTwoFactor, disableTwoFactor, Write
<1>5. user'.enabled => user'.secret \in proven'
  BY <1>2, <1>4, EnrolmentChanges
(* A request that begins leaves the user alone. *)
<1>6. ASSUME NEW r \in Requests, pc'[r] # "idle", \E step \in Steps, j \in Job : Arrives(r, step, j)
      PROVE  /\ job'[r].op = "enable" => user'.secret \in proven'
             /\ job'[r].op = "setup" => ~ user'.enabled
  BY <1>6 DEF Arrives, tables
<1>7. ASSUME NEW r \in Requests, pc[r] # "idle", job[r].op = "enable"
      PROVE  user'.secret \in proven'
  <2>1. ASSUME NEW q \in Requests, NEW k \in Secrets, setupTwoFactor(q, k) PROVE FALSE
    BY <1>1, <1>3, <1>4, <1>7, <2>1, Met
  <2>2. ASSUME NEW q \in Requests, disableTwoFactor(q) PROVE FALSE
    <3>1. job[q].op = "disable" /\ pc[q] # "idle" /\ {job[r].op, job[q].op} = {"enable", "disable"}
      BY <1>4, <1>7, <2>2
    <3> QED BY <1>1, <1>3, <1>7, <3>1, Met DEF Apart
  <2> QED BY <1>2, <1>7, <2>1, <2>2, EnrolmentChanges
<1>8. ASSUME NEW r \in Requests, pc[r] # "idle", job[r].op = "setup"
      PROVE  ~ user'.enabled
  <2>1. ASSUME NEW q \in Requests, NEW b \in Backups, enableTwoFactor(q, b) PROVE FALSE
    <3>1. job[q].op = "enable" /\ pc[q] # "idle" /\ {job[r].op, job[q].op} = {"enable", "setup"}
      BY <1>4, <1>8, <2>1
    <3> QED BY <1>1, <1>3, <1>8, <3>1, Met DEF Apart
  <2> QED BY <1>2, <1>8, <2>1, EnrolmentChanges
<1> QED BY <1>5, <1>6, <1>7, <1>8, WasInFlight

(* A device is trusted only under the enrolment in force. *)
LEMMA TrustInForceStep ==
    ASSUME Typed, OverlapsNoted, TrustInForce, [Next]_vars
    PROVE  TrustInForce'
<1> SUFFICES ASSUME {"login", "disable"} \notin overlapped'
             PROVE  /\ devices' \subseteq (IF user'.enabled THEN {enrolment'} ELSE {})
                    /\ \A r \in Requests : pc'[r] # "idle" /\ job'[r].op = "login" =>
                          user'.enabled /\ job'[r].enrolment = enrolment'
  BY DEF TrustInForce, Apart
<1>1. Apart("login", "disable")
  BY RequestsMove DEF Apart
<1>2. /\ devices \subseteq (IF user.enabled THEN {enrolment} ELSE {})
      /\ \A r \in Requests : pc[r] # "idle" /\ job[r].op = "login" =>
            user.enabled /\ job[r].enrolment = enrolment
  BY <1>1 DEF TrustInForce
<1>3. ASSUME NEW r \in Requests, registerTrustedDevice(r)
      PROVE  user.enabled /\ job[r].enrolment = enrolment
  <2>1. job[r].op = "login" /\ pc[r] # "idle"
    BY <1>3 DEF registerTrustedDevice, Typed, RequestsTyped, OnPath, Job, Ops, WriteOps, ReplaceOps
  <2> QED BY <1>2, <2>1
<1>4. devices' \subseteq (IF user'.enabled THEN {enrolment'} ELSE {})
  <2>1. ASSUME user'.enabled = user.enabled, enrolment' = enrolment
        PROVE  devices' \subseteq (IF user'.enabled THEN {enrolment'} ELSE {})
    <3>1. ASSUME NEW r \in Requests, registerTrustedDevice(r),
                 devices' = devices \cup {job[r].enrolment}
          PROVE  devices' \subseteq (IF user'.enabled THEN {enrolment'} ELSE {})
      BY <1>2, <1>3, <2>1, <3>1
    <3>2. CASE devices' \subseteq devices
      BY <1>2, <2>1, <3>2
    <3>3. CASE \E r \in Requests, b \in Backups : enableTwoFactor(r, b)
      <4>1. devices' = devices
        BY <3>3 DEF enableTwoFactor
      <4> QED BY <3>2, <4>1
    <3>4. CASE \E r \in Requests : disableTwoFactor(r)
      <4>1. devices' = {}
        BY <3>4 DEF disableTwoFactor
      <4> QED BY <4>1
    <3> QED BY <3>1, <3>2, <3>3, <3>4, EnrolmentChanges
  <2>2. CASE \E r \in Requests, b \in Backups :
                /\ enableTwoFactor(r, b) /\ user'.enabled /\ user'.secret = user.secret
                /\ enrolment' = (IF user.enabled THEN enrolment ELSE enrolment + 1)
                /\ devices' = devices
    BY <1>2, <2>1, <2>2
  <2>3. CASE devices' = {}
    BY <2>3
  <2> QED BY <2>1, <2>2, <2>3, EnrolmentChanges
<1>5. ASSUME NEW r \in Requests, pc'[r] # "idle", job'[r].op = "login"
      PROVE  user'.enabled /\ job'[r].enrolment = enrolment'
  <2>1. CASE \E step \in Steps, j \in Job : Arrives(r, step, j)
    BY <1>5, <2>1 DEF Arrives, tables
  <2>2. CASE pc[r] # "idle" /\ job[r].op = job'[r].op /\ job[r].enrolment = job'[r].enrolment
    <3>1. user.enabled /\ job[r].enrolment = enrolment
      BY <1>2, <1>5, <2>2
    <3>2. ASSUME NEW q \in Requests, disableTwoFactor(q) PROVE FALSE
      <4>1. job[q].op = "disable" /\ pc[q] # "idle"
        BY <3>2 DEF disableTwoFactor, Write
      <4>2. {"login", "disable"} \in Races
        BY DEF Races
      <4> QED BY <1>1, <1>5, <2>2, <4>1, <4>2, Met
    <3> QED BY <2>2, <3>1, <3>2, EnrolmentChanges
  <2> QED BY <1>5, <2>1, <2>2, WasInFlight
<1> QED BY <1>4, <1>5

(* A phone counts as verified only when its holder showed a code, unless a *)
(* setup overlapped the verification, and so for the secret of who is      *)
(* enabled: verifySmsFactor and enableTwoFactor write what was proven of   *)
(* the row that they had read.                                             *)
THEOREM FactorsAreProven == Spec => []FactorsProven
<1>1. Init => OverlapsNoted /\ SentToPhone /\ PhoneProven /\ SecretProven
  <2> SUFFICES ASSUME Init PROVE SentToPhone /\ PhoneProven /\ SecretProven
    BY OverlapsInit
  <2>1. SentToPhone
    BY DEF Init, SentToPhone, NoOtp
  <2>2. CASE user = [enabled |-> FALSE, secret |-> None, phone |-> None, verified |-> FALSE]
    <3>1. ~ user.enabled /\ ~ user.verified
      BY <2>2
    <3>2. \A r \in Requests : pc[r] = "idle" /\ pc[r] # "setVerified"
      BY DEF Init
    <3>3. PhoneProven
      BY <3>1, <3>2 DEF PhoneProven
    <3>4. SecretProven
      BY <3>1, <3>2 DEF SecretProven
    <3> QED BY <2>1, <3>3, <3>4
  <2>3. ASSUME NEW k \in Secrets, NEW p \in Phones \cup {None},
               user = [enabled |-> TRUE, secret |-> k, phone |-> p, verified |-> p # None],
               proven = {k, p} \ {None}
        PROVE  PhoneProven /\ SecretProven
    <3>1. user.secret = k /\ user.phone = p /\ k # None
      BY <2>3, CodesAreDistinct
    <3> QED BY <2>3, <3>1 DEF Init, PhoneProven, SecretProven
  <2> QED BY <2>1, <2>2, <2>3 DEF Init
<1>2. /\ Typed /\ OverlapsNoted /\ SentToPhone /\ PhoneProven /\ SecretProven
      /\ [Next]_vars
      => OverlapsNoted' /\ SentToPhone' /\ PhoneProven' /\ SecretProven'
  BY OverlapsStep, SentToPhoneStep, PhoneProvenStep, SecretProvenStep
<1>3. Typed /\ PhoneProven /\ SecretProven => FactorsProven
  BY TypedIsTypeOK DEF PhoneProven, SecretProven, FactorsProven
<1> QED BY <1>1, <1>2, <1>3, SecondFactorIsTyped, PTL DEF Spec

(* A device trusted under one enrolment does not skip the second factor of *)
(* the next, unless a sign-in overlapped the disabling: disableTwoFactor   *)
(* deletes every device, and only sign-ins register one.                   *)
THEOREM TrustsEnd == Spec => []TrustEndsWithEnrolment
<1>1. Init => OverlapsNoted /\ TrustInForce
  <2> SUFFICES ASSUME Init PROVE TrustInForce
    BY OverlapsInit
  <2> QED BY DEF Init, TrustInForce
<1>2. Typed /\ OverlapsNoted /\ TrustInForce /\ [Next]_vars => OverlapsNoted' /\ TrustInForce'
  BY OverlapsStep, TrustInForceStep
<1>3. TrustInForce => TrustEndsWithEnrolment
  BY DEF TrustInForce, TrustEndsWithEnrolment
<1> QED BY <1>1, <1>2, <1>3, SecondFactorIsTyped, PTL DEF Spec
===============================================================================
