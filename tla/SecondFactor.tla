----------------------------- MODULE SecondFactor -----------------------------
(***************************************************************************)
(* The second factor of one user: twoFactor.service.ts and the challenge   *)
(* of auth.service.ts.  Every statement there is keyed by the user.  A     *)
(* request is a process with one step per SQL statement; a transaction     *)
(* that first updates the user's row is one step, since the lock on that   *)
(* row makes such transactions take turns, and one that replaces rows      *)
(* without it (deleteMany, then create) is two: the rows it will delete    *)
(* are those of its snapshot.                                              *)
(***************************************************************************)
EXTENDS Naturals, FiniteSets, FiniteSetsExt

CONSTANTS Secrets,       \* TOTP secrets
          Backups,       \* backup codes; one stands for the ten of a set
          Phones, Requests, None,
          MaxAttempts,   \* EMAIL_OTP_MAX_ATTEMPTS
          MaxOtps,       \* bound on the codes delivered
          MaxOps         \* bound on the requests of a behaviour

ASSUME CodesAreDistinct ==
    /\ Secrets \cap Backups = {}
    /\ (Secrets \cup Backups) \cap (1 .. MaxOtps) = {}
    /\ None \notin Secrets \cup Backups \cup Phones
ASSUME BoundsAreNatural == {MaxAttempts, MaxOtps, MaxOps} \subseteq Nat /\ MaxAttempts > 0
ASSUME FinitelyMany == IsFiniteSet(Backups) /\ IsFiniteSet(Requests)

VARIABLES
    user,       \* users: the columns of the second factor
    backup,     \* backup_codes
    otp,        \* login_tokens; a row stands for the code it was sent with
    devices,    \* trusted_devices: the enrolments they were registered in
    pc, job,    \* the requests in flight: next statement and local variables
    begun,      \* requests so far
    enrolment,  \* history: how often the second factor was enabled
    proven,     \* history: secrets and phones whose holder showed a code
    accepted,   \* history: how often a code was accepted
    overlapped  \* history: the races that have happened

tables == <<user, backup, otp, devices>>
history == <<enrolment, proven, accepted>>
vars == <<tables, pc, job, begun, history, overlapped>>

Otps == 1 .. MaxOtps
Channels == {"email", "sms", "phone"}
Ops == {"setup", "enable", "disable", "regenerate", "login", "requestEmail",
        "requestSms", "setupSms", "verifyPhone", "removeSms"}
Steps == {"idle", "write", "replace", "backup", "useBackup", "count", "claim", "issue",
          "trust", "setVerified"} \cup Channels

(* Pairs of operations that can upset each other when they overlap. *)
Races == {{"login"}, {"login", "disable"}, {"enable", "setup"}, {"enable", "disable"},
          {"setupSms", "verifyPhone"}}

NoOtp == [channel |-> "email", state |-> "none", attempts |-> 0, expired |-> FALSE,
          phone |-> None]
NoJob == [op |-> "none", code |-> None, channel |-> "email", row |-> 0, old |-> {},
          enrolment |-> 0]

TypeOK ==
    /\ user \in [enabled : BOOLEAN, secret : Secrets \cup {None},
                 phone : Phones \cup {None}, verified : BOOLEAN]
    /\ backup \in [Backups -> {"none", "unused", "used", "deleted"}]
    /\ otp \in [Otps -> [channel : Channels, state : {"none", "open", "consumed", "deleted"},
                         attempts : Nat, expired : BOOLEAN, phone : Phones \cup {None}]]
    /\ devices \subseteq 1 .. enrolment
    /\ pc \in [Requests -> Steps]
    /\ \A r \in Requests :
          /\ pc[r] = "idle" <=> job[r] = NoJob
          /\ job[r].op \in Ops \cup {"none"}
          /\ job[r].old \subseteq Backups \/ job[r].old \subseteq Otps
          /\ pc[r] \in {"count", "claim"} => otp[job[r].row].channel = job[r].channel
          /\ pc[r] = "trust" => job[r].enrolment \in 1 .. enrolment
    /\ begun \in 0 .. MaxOps
    /\ enrolment \in 0 .. Cardinality(Backups)
    /\ proven \subseteq Secrets \cup Phones
    /\ accepted \in [Backups \cup Otps -> Nat]
    /\ overlapped \subseteq Races

(* A user who has never set anything up, or one who is enrolled, and whose *)
(* phone, if any, is verified.                                             *)
Init ==
    /\ \/ /\ user = [enabled |-> FALSE, secret |-> None, phone |-> None, verified |-> FALSE]
          /\ backup = [b \in Backups |-> "none"]
          /\ proven = {} /\ enrolment = 0
       \/ \E k \in Secrets, b1 \in Backups, p \in Phones \cup {None} :
          /\ user = [enabled |-> TRUE, secret |-> k, phone |-> p, verified |-> p # None]
          /\ backup = [b \in Backups |-> IF b = b1 THEN "unused" ELSE "none"]
          /\ proven = {k, p} \ {None} /\ enrolment = 1
    /\ otp = [o \in Otps |-> NoOtp]
    /\ devices = {}
    /\ pc = [r \in Requests |-> "idle"]
    /\ job = [r \in Requests |-> NoJob]
    /\ begun = 0
    /\ accepted = [c \in Backups \cup Otps |-> 0]
    /\ overlapped = {}

-------------------------------------------------------------------------------
InFlight == {r \in Requests : pc[r] # "idle"}

Begin(r, op, step, j) ==
    /\ pc[r] = "idle"
    /\ begun < MaxOps
    /\ begun' = begun + 1
    /\ pc' = [pc EXCEPT ![r] = step]
    /\ job' = [job EXCEPT ![r] = [j EXCEPT !.op = op]]
    /\ overlapped' = overlapped \cup (Races \cap {{op, job[q].op} : q \in InFlight})
    /\ UNCHANGED tables

Goto(r, step) == pc' = [pc EXCEPT ![r] = step] /\ UNCHANGED job

Finish(r) ==
    /\ pc' = [pc EXCEPT ![r] = "idle"]
    /\ job' = [job EXCEPT ![r] = NoJob]

(* Request r is about to do the write of operation op. *)
Write(r, op) ==
    /\ pc[r] = "write"
    /\ job[r].op = op
    /\ Finish(r)
    /\ UNCHANGED <<begun, overlapped>>

(* Bounds: there are rows left for what the requests under way, and one    *)
(* more, will insert.                                                      *)
BackupsLeft ==
    Cardinality({r \in Requests : job[r].op \in {"enable", "regenerate"}})
        < Cardinality({b \in Backups : backup[b] = "none"})
OtpsLeft ==
    Cardinality({r \in Requests : job[r].op \in {"requestEmail", "requestSms", "setupSms"}})
        < Cardinality({o \in Otps : otp[o].state = "none"})

(* The rows of table after those in old are deleted. *)
Delete(table, old) == [x \in DOMAIN table |-> IF x \in old THEN "deleted" ELSE table[x]]
DeleteOtps(old) ==
    [o \in Otps |-> IF o \in old THEN [otp[o] EXCEPT !.state = "deleted"] ELSE otp[o]]

Existing(channels) ==
    {o \in Otps : otp[o].channel \in channels /\ otp[o].state \in {"open", "consumed"}}

-------------------------------------------------------------------------------
(* Enrolling. *)

(* Mutant: setting up again while enabled. *)
BeginSetupAlways(r) ==
    /\ Begin(r, "setup", "write", NoJob)
    /\ UNCHANGED history

BeginSetup(r) ==
    /\ ~user.enabled
    /\ Begin(r, "setup", "write", NoJob)
    /\ UNCHANGED history

setupTwoFactor(r, k) ==
    /\ Write(r, "setup")
    /\ user' = [user EXCEPT !.secret = k]
    /\ UNCHANGED <<backup, otp, devices, history>>

(* The code is checked against the secret that was read. *)
BeginEnable(r) ==
    /\ BackupsLeft
    /\ ~user.enabled /\ user.secret # None
    /\ Begin(r, "enable", "write", NoJob)
    /\ proven' = proven \cup {user.secret}
    /\ UNCHANGED <<enrolment, accepted>>

enableTwoFactor(r, b) ==
    /\ Write(r, "enable")
    /\ backup[b] = "none"
    /\ user' = [user EXCEPT !.enabled = TRUE]
    /\ backup' = [Delete(backup, {x \in Backups : backup[x] # "none"}) EXCEPT ![b] = "unused"]
    /\ enrolment' = IF user.enabled THEN enrolment ELSE enrolment + 1
    /\ UNCHANGED <<otp, devices, proven, accepted>>

BeginDisable(r) ==
    /\ user.enabled
    /\ Begin(r, "disable", "write", NoJob)
    /\ UNCHANGED history

(* Mutant: the trusted devices stay. *)
disableTwoFactorKeepsDevices(r) ==
    /\ Write(r, "disable")
    /\ user' = [user EXCEPT !.enabled = FALSE, !.secret = None]
    /\ backup' = Delete(backup, {x \in Backups : backup[x] # "none"})
    /\ UNCHANGED <<otp, devices, history>>

(* Secret, backup codes and trusted devices go; delivered codes stay. *)
disableTwoFactor(r) ==
    /\ Write(r, "disable")
    /\ user' = [user EXCEPT !.enabled = FALSE, !.secret = None]
    /\ backup' = Delete(backup, {x \in Backups : backup[x] # "none"})
    /\ devices' = {}
    /\ UNCHANGED <<otp, history>>

(* replaceBackupCodes, in a transaction that does not touch the user. *)
BeginRegenerate(r) ==
    /\ BackupsLeft
    /\ user.enabled
    /\ Begin(r, "regenerate", "replace",
             [NoJob EXCEPT !.old = {b \in Backups : backup[b] \in {"unused", "used"}}])
    /\ UNCHANGED history

regenerateBackupCodes(r, b) ==
    /\ pc[r] = "replace" /\ job[r].op = "regenerate"
    /\ backup[b] = "none"
    /\ backup' = [Delete(backup, job[r].old) EXCEPT ![b] = "unused"]
    /\ Finish(r)
    /\ UNCHANGED <<user, otp, devices, begun, history, overlapped>>

-------------------------------------------------------------------------------
(* Codes delivered by email or SMS, and the phone. *)

(* The table after the rows in old were replaced by the fresh row o.  Two  *)
(* transactions that overlap can leave two rows of a channel; the number   *)
(* of a row stands for its created_at, which either may have first.        *)
Sent(o, old, channel, phone) ==
    [DeleteOtps(old) EXCEPT ![o] = [NoOtp EXCEPT !.channel = channel, !.state = "open",
                                                 !.phone = phone]]

BeginRequestOtp(r, channel) ==
    /\ OtpsLeft
    /\ user.enabled
    /\ channel = "sms" => user.phone # None /\ user.verified
    /\ Begin(r, IF channel = "sms" THEN "requestSms" ELSE "requestEmail", "replace",
             [NoJob EXCEPT !.channel = channel, !.old = Existing({channel})])
    /\ UNCHANGED history

requestOtp(r, o) ==
    /\ pc[r] = "replace" /\ job[r].op \in {"requestEmail", "requestSms"}
    /\ otp[o].state = "none"
    /\ otp' = Sent(o, job[r].old, job[r].channel, None)
    /\ Finish(r)
    /\ UNCHANGED <<user, backup, devices, begun, history, overlapped>>

(* setupSmsFactor and removeSmsFactor read only that the account exists. *)
BeginPhone(r, op) ==
    /\ op = "setupSms" => OtpsLeft
    /\ Begin(r, op, "write", NoJob)
    /\ UNCHANGED history

setupSmsFactor(r, p, o) ==
    /\ Write(r, "setupSms")
    /\ otp[o].state = "none"
    /\ user' = [user EXCEPT !.phone = p, !.verified = FALSE]
    /\ otp' = Sent(o, Existing({"phone"}), "phone", p)
    /\ UNCHANGED <<backup, devices, history>>

removeSmsFactor(r) ==
    /\ Write(r, "removeSms")
    /\ user' = [user EXCEPT !.phone = None, !.verified = FALSE]
    /\ otp' = DeleteOtps(Existing({"phone", "sms"}))
    /\ UNCHANGED <<backup, devices, history>>

BeginVerifyPhone(r, c) ==
    /\ user.phone # None
    /\ Begin(r, "verifyPhone", "phone", [NoJob EXCEPT !.code = c, !.channel = "phone"])
    /\ UNCHANGED history

(* The user's row is updated whatever its phone is by now. *)
SetVerified(r) ==
    /\ pc[r] = "setVerified"
    /\ user' = [user EXCEPT !.verified = TRUE]
    /\ Finish(r)
    /\ UNCHANGED <<backup, otp, devices, begun, history, overlapped>>

-------------------------------------------------------------------------------
(* completeTwoFactorLogin with a valid challenge and code c: the current   *)
(* code of an app that holds a secret, a backup code, a delivered code, or *)
(* None for a wrong one.                                                   *)
BeginLogin(r, c) ==
    /\ user.enabled
    /\ Begin(r, "login",
             IF c \in Secrets /\ c = user.secret THEN "issue"
             ELSE IF c \in Backups THEN "backup" ELSE "email",
             [NoJob EXCEPT !.code = c, !.enrolment = enrolment])
    /\ UNCHANGED history

FindBackup(r) ==
    /\ pc[r] = "backup"
    /\ IF backup[job[r].code] = "unused" THEN Goto(r, "useBackup") ELSE Finish(r)
    /\ UNCHANGED <<tables, begun, history, overlapped>>

(* Mutant: the code is not marked. *)
UseBackupUnmarked(r) ==
    /\ pc[r] = "useBackup"
    /\ accepted' = [accepted EXCEPT ![job[r].code] = @ + 1]
    /\ Goto(r, "issue")
    /\ UNCHANGED <<tables, begun, enrolment, proven, overlapped>>

(* The update is by the row's id; it fails if the code was replaced. *)
UseBackup(r) ==
    LET b == job[r].code
    IN  /\ pc[r] = "useBackup"
        /\ \/ /\ backup[b] # "deleted"
              /\ backup' = [backup EXCEPT ![b] = "used"]
              /\ accepted' = [accepted EXCEPT ![b] = @ + 1]
              /\ Goto(r, "issue")
           \/ /\ backup[b] = "deleted"
              /\ Finish(r)
              /\ UNCHANGED <<backup, accepted>>
        /\ UNCHANGED <<user, otp, devices, begun, enrolment, proven, overlapped>>

(* A code that is no email code may still be an SMS code. *)
NextChannel(r) == IF job[r].channel = "email" THEN Goto(r, "sms") ELSE Finish(r)

Usable(o) == ~otp[o].expired /\ otp[o].attempts < MaxAttempts

OpenCodes(channel) == {o \in Otps : otp[o].channel = channel /\ otp[o].state = "open"}

(* consumeDeliveredOtp looks at the latest code of the channel only. *)
FindOtp(r, channel) ==
    LET latest == Max(OpenCodes(channel))
    IN  /\ pc[r] = channel
        /\ IF OpenCodes(channel) # {} /\ Usable(latest)
           THEN /\ pc' = [pc EXCEPT ![r] = IF job[r].code = latest THEN "claim" ELSE "count"]
                /\ job' = [job EXCEPT ![r].row = latest, ![r].channel = channel]
           ELSE IF channel = "email" THEN Goto(r, "sms") ELSE Finish(r)
        /\ UNCHANGED <<tables, begun, history, overlapped>>

(* One more wrong attempt; the update fails if the row is gone. *)
CountAttempt(r) ==
    LET o == job[r].row
    IN  /\ pc[r] = "count"
        /\ \/ /\ otp[o].state # "deleted"
              /\ otp' = [otp EXCEPT ![o].attempts = @ + 1]
              /\ NextChannel(r)
           \/ /\ otp[o].state = "deleted"
              /\ Finish(r)
              /\ UNCHANGED otp
        /\ UNCHANGED <<user, backup, devices, begun, history, overlapped>>

(* Mutant: the claim does not ask whether the code was consumed. *)
ClaimableUnguarded(o) == otp[o].state # "deleted"

Claimable(o) == otp[o].state = "open"

(* updateMany where consumed_at is null: the code passes for one request. *)
ClaimOtp(r) ==
    LET o == job[r].row
    IN  /\ pc[r] = "claim"
        /\ \/ /\ Claimable(o)
              /\ otp' = [otp EXCEPT ![o].state = "consumed"]
              /\ accepted' = [accepted EXCEPT ![o] = @ + 1]
              /\ proven' = proven \cup ({otp[o].phone} \ {None})
              /\ Goto(r, IF job[r].op = "login" THEN "issue" ELSE "setVerified")
           \/ /\ ~Claimable(o)
              /\ NextChannel(r)
              /\ UNCHANGED <<otp, accepted, proven>>
        /\ UNCHANGED <<user, backup, devices, begun, enrolment, overlapped>>

(* issueAuthenticatedSession; the request may ask to trust the device. *)
IssueSession(r) ==
    /\ pc[r] = "issue"
    /\ Goto(r, "trust") \/ Finish(r)
    /\ UNCHANGED <<tables, begun, history, overlapped>>

registerTrustedDevice(r) ==
    /\ pc[r] = "trust"
    /\ devices' = devices \cup {job[r].enrolment}
    /\ Finish(r)
    /\ UNCHANGED <<user, backup, otp, begun, history, overlapped>>

-------------------------------------------------------------------------------
ExpireOtp(o) ==
    /\ otp[o].state = "open" /\ ~otp[o].expired
    /\ otp' = [otp EXCEPT ![o].expired = TRUE]
    /\ UNCHANGED <<user, backup, devices, pc, job, begun, history, overlapped>>

ExpireDevices ==
    /\ devices # {}
    /\ devices' = {}
    /\ UNCHANGED <<user, backup, otp, pc, job, begun, history, overlapped>>

(* The process dies; a transaction under way is rolled back. *)
Crash(r) ==
    /\ pc[r] # "idle"
    /\ Finish(r)
    /\ UNCHANGED <<tables, begun, history, overlapped>>

DeliveredCodes == {o \in Otps : otp[o].state # "none"}
KnownBackups == {b \in Backups : backup[b] # "none"}

Arrive(r) ==
    \/ BeginSetup(r) \/ BeginEnable(r) \/ BeginDisable(r) \/ BeginRegenerate(r)
    \/ \E channel \in {"email", "sms"} : BeginRequestOtp(r, channel)
    \/ \E op \in {"setupSms", "removeSms"} : BeginPhone(r, op)
    \/ \E c \in DeliveredCodes \cup {None} : BeginVerifyPhone(r, c)
    \/ \E c \in Secrets \cup KnownBackups \cup DeliveredCodes \cup {None} : BeginLogin(r, c)

Continue(r) ==
    \/ \E k \in Secrets : setupTwoFactor(r, k)
    \/ \E b \in Backups : enableTwoFactor(r, b) \/ regenerateBackupCodes(r, b)
    \/ disableTwoFactor(r)
    \/ \E o \in Otps : requestOtp(r, o)
    \/ \E o \in Otps, p \in Phones : setupSmsFactor(r, p, o)
    \/ removeSmsFactor(r) \/ SetVerified(r)
    \/ FindBackup(r) \/ UseBackup(r)
    \/ \E channel \in Channels : FindOtp(r, channel)
    \/ CountAttempt(r) \/ ClaimOtp(r)
    \/ IssueSession(r) \/ registerTrustedDevice(r)

Next ==
    \/ \E r \in Requests : Arrive(r) \/ Continue(r) \/ Crash(r)
    \/ \E o \in Otps : ExpireOtp(o)
    \/ ExpireDevices

Spec == Init /\ [][Next]_vars

-------------------------------------------------------------------------------
(* Properties. *)

Apart(op1, op2) == {op1, op2} \notin overlapped

(* A delivered code passes once, however many requests present it at once  *)
(* and whatever replaces it meanwhile: consumeDeliveredOtp claims it.  It  *)
(* takes MaxAttempts wrong guesses, and one more for each request that had *)
(* read it before the last of them.                                        *)
DeliveredCodeHolds ==
    \A o \in Otps :
        /\ accepted[o] <= 1
        /\ otp[o].attempts <= MaxAttempts + Cardinality(Requests) - 1

(* README.md: "reuse of a backup code is impossible".  So it is unless two *)
(* sign-ins overlap, through replacements, crashes and re-enrolments.      *)
BackupCodeOnceUnlessRaced ==
    Apart("login", "login") => \A b \in Backups : accepted[b] <= 1

(* schema.prisma: "A phone is usable only once verified via an SMS code".  *)
(* A phone that counts as verified is one whose holder showed a code,      *)
(* unless a setup overlapped the verification; and while the second factor *)
(* is enabled its secret is one whose holder showed a code, unless         *)
(* enabling overlapped a new setup or a disabling.  Rows are well typed.   *)
FactorsProven ==
    /\ TypeOK
    /\ user.verified /\ user.phone # None /\ Apart("setupSms", "verifyPhone")
          => user.phone \in proven
    /\ user.enabled /\ Apart("enable", "setup") /\ Apart("enable", "disable")
          => user.secret \in proven

(* disableTwoFactor "clears all related secrets/devices": a device that    *)
(* was trusted under one enrolment does not skip the second factor of the  *)
(* next, unless it was being registered while the first was disabled.      *)
TrustEndsWithEnrolment ==
    user.enabled /\ Apart("login", "disable") => devices \subseteq {enrolment}
===============================================================================
