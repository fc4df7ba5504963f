------------------------- MODULE SessionRotation_proofs -------------------------
(***************************************************************************)
(* Proofs about SessionRotation for any number of users, sessions, tokens  *)
(* and concurrent requests, any clock and with or without crashes.         *)
(***************************************************************************)
EXTENDS SessionRotation, TLAPS

USE RowsAreDistinct, ClockIsNatural

-------------------------------------------------------------------------------
(* Type correctness. *)

(* The initial tables are well typed. *)
LEMMA InitTypeOK == Init => TypeOK
BY DEF Init, TypeOK, SessionRow, TokenRow, NoSession, NoToken, Job, NoJob, Ops,
       EvictingOps, OneSessionOps, Steps

(* A request that arrives keeps the types. *)
LEMMA ArriveTypeOK ==
    ASSUME TypeOK, NEW r \in Requests, Arrive(r)
    PROVE  TypeOK'
<1> USE DEF TypeOK, Start, SessionOf, assertSessionActive, Job, NoJob, Ops,
            EvictingOps, OneSessionOps, Steps, SessionRow, TokenRow
<1>1. ASSUME NEW u \in Users, Login(r, u) PROVE TypeOK'
  BY <1>1 DEF Login
<1>2. ASSUME NEW t \in Tokens, RefreshFindsReuse(r, t) PROVE TypeOK'
  BY <1>2 DEF RefreshFindsReuse
<1>3. ASSUME NEW t \in Tokens, RefreshFindsLive(r, t) PROVE TypeOK'
  BY <1>3 DEF RefreshFindsLive
<1>4. ASSUME NEW t \in Tokens, Logout(r, t) PROVE TypeOK'
  BY <1>4 DEF Logout
<1>5. ASSUME NEW c \in Sessions, NEW s \in Sessions, RevokeUserSession(r, c, s)
      PROVE  TypeOK'
  BY <1>5 DEF RevokeUserSession
<1>6. ASSUME NEW c \in Sessions, RevokeOtherSessions(r, c) PROVE TypeOK'
  BY <1>6 DEF RevokeOtherSessions
<1>7. ASSUME NEW c \in Sessions, ChangePassword(r, c) PROVE TypeOK'
  BY <1>7 DEF ChangePassword
<1>8. ASSUME NEW u \in Users, NEW op \in {"resetPassword", "disable", "delete"},
             EvictAll(r, u, op)
      PROVE  TypeOK'
  BY <1>8 DEF EvictAll
<1> QED BY <1>1, <1>2, <1>3, <1>4, <1>5, <1>6, <1>7, <1>8 DEF Arrive

(* The end of a handler keeps the types of what it changes. *)
LEMMA FinishTypeOK ==
    ASSUME TypeOK, NEW r \in Requests, Finish(r)
    PROVE  /\ lock' \in [Rows -> Requests \cup {None}]
           /\ pc' \in [Requests -> Steps]
           /\ job' \in [Requests -> Job]
BY DEF TypeOK, Finish, Unlock, Job, NoJob, Ops, EvictingOps, OneSessionOps, Steps

(* So does each statement of a request already started. *)
LEMMA ContinueTypeOK ==
    ASSUME TypeOK, NEW r \in Requests, Continue(r)
    PROVE  TypeOK'
<1> USE DEF TypeOK, Goto, refreshExpiry, Steps
<1>1. ASSUME NEW s \in Sessions, NEW t \in Tokens, IssueSession(r, s, t)
      PROVE  TypeOK'
  <2>1. job[r].user \in Users \cup {None} /\ now + TTL \in Nat
    BY DEF Job
  <2> QED BY <1>1, <2>1, FinishTypeOK DEF IssueSession, SessionRow, TokenRow
<1>2. CASE ClaimRotation(r)
  <2>1. [job[r] EXCEPT !.expires = now + TTL] \in Job
    BY DEF Job
  <2>2. lock' \in [Rows -> Requests \cup {None}]
    BY <1>2 DEF ClaimRotation
  <2>3. job' \in [Requests -> Job]
    BY <1>2, <2>1 DEF ClaimRotation
  <2> QED BY <1>2, <2>2, <2>3 DEF ClaimRotation
<1>3. CASE LoseRotation(r)
  BY <1>3 DEF LoseRotation, Job, Ops, OneSessionOps
<1>4. ASSUME NEW u \in Tokens, CommitRotation(r, u) PROVE TypeOK'
  <2>1. job[r].session \in Sessions \cup {None} /\ job[r].expires \in Nat
    BY DEF Job
  <2> DEFINE t == job[r].token
             s == job[r].session
             spent == [token[t] EXCEPT !.state = "revoked", !.replacedBy = u]
             fresh == [state |-> "live", session |-> s,
                       expires |-> job[r].expires, replacedBy |-> None]
  <2>2. token' \in [Tokens -> TokenRow]
    <3>1. ASSUME NEW row \in TokenRow
          PROVE  [row EXCEPT !.state = "revoked", !.replacedBy = u] \in TokenRow
      BY DEF TokenRow
    <3>2. t \in Tokens => token[t] \in TokenRow
      OBVIOUS
    <3>3. t \in Tokens => spent \in TokenRow
      BY <3>1, <3>2
    <3>4. fresh \in TokenRow
      BY <2>1 DEF TokenRow
    <3>5. token' = [token EXCEPT ![t] = spent, ![u] = fresh]
      BY <1>4 DEF CommitRotation
    <3> HIDE DEF t, spent, fresh
    <3> QED BY <3>3, <3>4, <3>5
  <2>3. session' \in [Sessions -> SessionRow]
    <3>1. s \in Sessions => Touched(session[s], job[r].expires) \in SessionRow
      BY <2>1 DEF Touched, SessionRow
    <3>2. session' = [session EXCEPT ![s] = Touched(session[s], job[r].expires)]
      BY <1>4 DEF CommitRotation
    <3> HIDE DEF s
    <3> QED BY <3>1, <3>2
  <2> QED BY <1>4, <2>2, <2>3, FinishTypeOK DEF CommitRotation
<1>5. CASE LockUser(r)
  BY <1>5 DEF LockUser
<1>6. ASSUME NEW found \in SUBSET (Sessions \cup Tokens),
             job' = [job EXCEPT ![r].todo = found]
      PROVE  job' \in [Requests -> Job]
  <2>1. [job[r] EXCEPT !.todo = found] \in Job
    BY DEF Job
  <2> QED BY <1>6, <2>1
<1>7. CASE FindSessions(r) \/ FindTokens(r)
  <2> DEFINE sessions == {s \in Sessions : session[s].state = "live" /\ InScope(job[r], s)}
             tokens == {t \in Tokens : token[t].state = "live"
                                       /\ InScope(job[r], SessionOf(t))}
  <2>1. job' \in [Requests -> Job]
    <3>1. sessions \in SUBSET (Sessions \cup Tokens) /\ tokens \in SUBSET (Sessions \cup Tokens)
      OBVIOUS
    <3>2. \/ job' = [job EXCEPT ![r].todo = sessions]
          \/ job' = [job EXCEPT ![r].todo = tokens]
      BY <1>7 DEF FindSessions, FindTokens
    <3> HIDE DEF sessions, tokens
    <3> QED BY <1>6, <3>1, <3>2
  <2> QED BY <1>7, <2>1 DEF FindSessions, FindTokens
<1>8. ASSUME NEW x \in Sessions \cup Tokens, LockRow(r, x) PROVE TypeOK'
  <2>1. [job[r] EXCEPT !.todo = @ \ {x}] \in Job
    BY DEF Job
  <2>2. lock' \in [Rows -> Requests \cup {None}]
    BY <1>8 DEF LockRow
  <2>3. job' \in [Requests -> Job]
    BY <1>8, <2>1 DEF LockRow
  <2> QED BY <1>8, <2>2, <2>3 DEF LockRow
<1>9. CASE EndSessions(r)
  BY <1>9 DEF EndSessions, RevokedSessions, Unlock, SessionRow
<1>10. CASE EndTokens(r)
  <2>1. session' \in [Sessions -> SessionRow] /\ token' \in [Tokens -> TokenRow]
    BY <1>10 DEF EndTokens, RevokedSessions, RevokedTokens, SessionRow, TokenRow
  <2>2. status' \in [Users -> {"active", "disabled", "deleted"}]
    BY <1>10 DEF EndTokens, StatusAfter
  <2> QED BY <1>10, <2>1, <2>2, FinishTypeOK DEF EndTokens
<1> QED BY <1>1, <1>2, <1>3, <1>4, <1>5, <1>7, <1>8, <1>9, <1>10 DEF Continue

(* Every step keeps the types. *)
LEMMA NextTypeOK == TypeOK /\ [Next]_vars => TypeOK'
<1> SUFFICES ASSUME TypeOK, [Next]_vars PROVE TypeOK'
  OBVIOUS
<1>1. ASSUME NEW r \in Requests, Arrive(r) PROVE TypeOK'
  BY <1>1, ArriveTypeOK
<1>2. ASSUME NEW r \in Requests, Continue(r) PROVE TypeOK'
  BY <1>2, ContinueTypeOK
<1>3. ASSUME NEW r \in Requests, AbortDeadlock(r) PROVE TypeOK'
  BY <1>3, FinishTypeOK DEF AbortDeadlock, TypeOK
<1>4. ASSUME NEW r \in Requests, Crash(r) PROVE TypeOK'
  BY <1>4, FinishTypeOK DEF Crash, TypeOK
<1>5. ASSUME NEW u \in Users, Enable(u) PROVE TypeOK'
  BY <1>5 DEF Enable, TypeOK
<1>6. CASE Tick
  BY <1>6 DEF Tick, TypeOK
<1>7. CASE UNCHANGED vars
  BY <1>7 DEF vars, TypeOK
<1> QED BY <1>1, <1>2, <1>3, <1>4, <1>5, <1>6, <1>7 DEF Next

(* Every reachable state is well typed. *)
THEOREM TypeCorrect == Spec => []TypeOK
BY InitTypeOK, NextTypeOK, PTL DEF Spec

-------------------------------------------------------------------------------
(* One live token per session, expiring with it. *)

(* The initial state satisfies the inductive invariant. *)
LEMMA InitRotationInv == Init => RotationInv
<1> SUFFICES ASSUME Init PROVE RotationInv
  OBVIOUS
<1>1. TypeOK
  BY InitTypeOK
<1>2. /\ TokensHaveSessions
      /\ LockedTokensExist
      /\ \A r \in Requests : ClaimHeld(r)
      /\ OneLiveToken
      /\ ExpiriesAgree
  BY DEF Init, NoToken, NoSession, NoJob, Rows, TokensHaveSessions,
         LockedTokensExist, ClaimHeld,
         OneLiveToken, ExpiriesAgree
<1> QED BY <1>1, <1>2 DEF RotationInv

(* A step of request r alone: nobody else's program counter, local         *)
(* variables or locks change, and r locks only tokens that exist.          *)
StepOf(r) ==
    /\ \A q \in Requests \ {r} :
        /\ pc'[q] = pc[q] /\ job'[q] = job[q]
        /\ \A x \in Rows : lock[x] = q => lock'[x] = q
    /\ \A t \in Tokens :
        lock'[t] = lock[t] \/ lock'[t] = None \/ token[t].state # "none"

(* The end of a handler is a step of it alone, and leaves it idle. *)
LEMMA FinishIsAStepOf ==
    ASSUME TypeOK, NEW r \in Requests, Finish(r)
    PROVE  StepOf(r) /\ ClaimHeld(r)'
BY DEF TypeOK, Finish, Unlock, StepOf, ClaimHeld, Rows

(* A step of r that writes no table keeps the invariant. *)
LEMMA QuietStep ==
    ASSUME RotationInv, NEW r \in Requests, StepOf(r), TypeOK',
           UNCHANGED <<session, token>>, ClaimHeld(r)'
    PROVE  RotationInv'
<1>1. \A q \in Requests : ClaimHeld(q)'
  BY DEF RotationInv, StepOf, ClaimHeld, Rows, SessionOf
<1>2. /\ TokensHaveSessions' /\ LockedTokensExist'
      /\ OneLiveToken' /\ ExpiriesAgree'
  BY DEF RotationInv, StepOf, TokensHaveSessions, LockedTokensExist, OneLiveToken,
         ExpiriesAgree, SessionOf, Siblings
<1> QED BY <1>1, <1>2 DEF RotationInv

(* The arrival of a request keeps it. *)
LEMMA ArriveRotationInv ==
    ASSUME RotationInv, NEW r \in Requests, Arrive(r)
    PROVE  RotationInv'
<1>1. TypeOK /\ TypeOK'
  BY ArriveTypeOK DEF RotationInv
<1>2. ASSUME NEW step \in Steps, NEW j, Start(r, step, j),
             step \notin {"claim", "touch"}
      PROVE  StepOf(r) /\ UNCHANGED <<session, token>> /\ ClaimHeld(r)'
  BY <1>1, <1>2 DEF TypeOK, Start, StepOf, ClaimHeld
<1>3. ASSUME NEW t \in Tokens, RefreshFindsLive(r, t)
      PROVE  StepOf(r) /\ UNCHANGED <<session, token>> /\ ClaimHeld(r)'
  BY <1>1, <1>3 DEF TypeOK, RefreshFindsLive, Start, StepOf, ClaimHeld, SessionOf, NoJob
<1>4. StepOf(r) /\ UNCHANGED <<session, token>> /\ ClaimHeld(r)'
  BY <1>2, <1>3 DEF Arrive, Login, RefreshFindsReuse, Logout, RevokeUserSession,
                    RevokeOtherSessions, ChangePassword, EvictAll, Steps
<1> QED BY <1>1, <1>4, QuietStep

(* Logging in keeps it: the new token belongs to a session that had none. *)
LEMMA IssueRotationInv ==
    ASSUME RotationInv, NEW r \in Requests, NEW s \in Sessions, NEW t \in Tokens,
           IssueSession(r, s, t), TypeOK'
    PROVE  RotationInv'
<1> USE DEF RotationInv, TypeOK
<1>1. StepOf(r) /\ ClaimHeld(r)'
  BY FinishIsAStepOf DEF IssueSession
<1>2. /\ \A u \in Tokens \ {t} : token'[u] = token[u]
      /\ \A v \in Sessions \ {s} : session'[v] = session[v]
      /\ token[t].state = "none" /\ session[s].state = "none"
      /\ token'[t].session = s /\ session'[s].state = "live"
      /\ token'[t].expires = session'[s].expires
  BY DEF IssueSession
<1>3. \A q \in Requests : ClaimHeld(q)'
  BY <1>1, <1>2 DEF StepOf, ClaimHeld, Rows, SessionOf
<1>4. \A u \in Tokens \ {t} : token[u].state # "none" => token[u].session # s
  BY <1>2 DEF TokensHaveSessions, SessionOf
<1>5. TokensHaveSessions' /\ OneLiveToken' /\ ExpiriesAgree'
  BY <1>2, <1>4 DEF TokensHaveSessions, OneLiveToken, ExpiriesAgree, SessionOf, Siblings
<1>6. LockedTokensExist'
  BY <1>1, <1>2 DEF IssueSession, StepOf, LockedTokensExist, Finish, Unlock, Rows
<1> QED BY <1>3, <1>5, <1>6

(* So does a rotation: the token it claimed was the session's only live    *)
(* one, is revoked, and leaves the place to its successor.                 *)
LEMMA CommitRotationInv ==
    ASSUME RotationInv, NEW r \in Requests, NEW u \in Tokens,
           CommitRotation(r, u), TypeOK'
    PROVE  RotationInv'
<1> DEFINE t == job[r].token
           s == job[r].session
<1> USE DEF RotationInv, TypeOK
<1>1. StepOf(r) /\ ClaimHeld(r)'
  BY FinishIsAStepOf DEF CommitRotation
<1>2. /\ t \in Tokens /\ s \in Sessions /\ token[t].session = s
      /\ token[t].state = "live" /\ lock[t] = r /\ t # u
      /\ session[s].state # "none"
  BY DEF CommitRotation, ClaimHeld, TokensHaveSessions, SessionOf
<1>3. /\ \A v \in Tokens \ {t, u} : token'[v] = token[v]
      /\ token'[t].state = "revoked" /\ token'[t].session = s
      /\ token'[u].session = s
      /\ token'[u].expires = job[r].expires
      /\ token[u].state = "none"
  <2> DEFINE spent == [token[t] EXCEPT !.state = "revoked", !.replacedBy = u]
             fresh == [state |-> "live", session |-> s,
                       expires |-> job[r].expires, replacedBy |-> None]
  <2>1. token' = [token EXCEPT ![t] = spent, ![u] = fresh] /\ token[u].state = "none"
    BY DEF CommitRotation
  <2>2. \A row \in TokenRow :
            LET gone == [row EXCEPT !.state = "revoked", !.replacedBy = u]
            IN  gone.state = "revoked" /\ gone.session = row.session
    BY DEF TokenRow
  <2>3. token[t] \in TokenRow
    BY <1>2
  <2>4. spent.state = "revoked" /\ spent.session = s
    BY <1>2, <2>2, <2>3
  <2>5. fresh.session = s /\ fresh.expires = job[r].expires
    OBVIOUS
  <2> HIDE DEF t, s, spent, fresh
  <2> QED BY <1>2, <2>1, <2>4, <2>5
<1>4. /\ \A v \in Sessions \ {s} : session'[v] = session[v]
      /\ session'[s].state = session[s].state
      /\ session'[s].expires = job[r].expires
  BY <1>2 DEF CommitRotation, Touched, SessionRow
<1>5. \A q \in Requests : ClaimHeld(q)'
  <2>1. ASSUME NEW q \in Requests, q # r PROVE ClaimHeld(q)'
    BY <1>1, <1>2, <1>3, <2>1 DEF StepOf, ClaimHeld, Rows, SessionOf
  <2> QED BY <1>1, <2>1
<1> HIDE DEF t, s
<1>6. \A v \in Tokens \ {t, u} : token[v].state = "live" => token[v].session # s
  BY <1>2 DEF OneLiveToken, Siblings
<1>7. TokensHaveSessions' /\ OneLiveToken' /\ ExpiriesAgree'
  BY <1>2, <1>3, <1>4, <1>6
     DEF TokensHaveSessions, OneLiveToken, ExpiriesAgree, SessionOf, Siblings
<1>8. LockedTokensExist'
  BY <1>1, <1>2, <1>3 DEF StepOf, LockedTokensExist
<1> QED BY <1>5, <1>7, <1>8

(* So does a revocation: it touches no row another request has locked. *)
LEMMA RevokeRotationInv ==
    ASSUME RotationInv, NEW r \in Requests, EndSessions(r) \/ EndTokens(r), TypeOK'
    PROVE  RotationInv'
<1> USE DEF RotationInv, TypeOK
<1>1. StepOf(r) /\ ClaimHeld(r)'
  <2>1. CASE EndSessions(r)
    BY <2>1 DEF EndSessions, Goto, Unlock, StepOf, ClaimHeld, Rows
  <2>2. CASE EndTokens(r)
    BY <2>2, FinishIsAStepOf DEF EndTokens
  <2> QED BY <2>1, <2>2
<1>2. \A s \in Sessions :
         /\ session'[s].expires = session[s].expires
         /\ session[s].state # "none" => session'[s].state # "none"
  BY DEF EndSessions, EndTokens, RevokedSessions, SessionRow
<1>3. \A t \in Tokens :
         /\ token'[t].session = token[t].session
         /\ token'[t].expires = token[t].expires
         /\ lock[t] # r => token'[t] = token[t]
         /\ token'[t].state = "live" => token[t].state = "live"
         /\ token'[t].state \in {token[t].state, "revoked"}
  BY DEF EndSessions, EndTokens, RevokedTokens, TokenRow
<1>4. \A t \in Tokens : token'[t].state # "none" <=> token[t].state # "none"
  BY <1>3 DEF LockedTokensExist
<1>5. \A q \in Requests : ClaimHeld(q)'
  <2>1. ASSUME NEW q \in Requests, q # r PROVE ClaimHeld(q)'
    BY <1>1, <1>3, <2>1 DEF StepOf, ClaimHeld, Rows, SessionOf
  <2> QED BY <1>1, <2>1
<1>6. TokensHaveSessions' /\ LockedTokensExist'
  BY <1>1, <1>2, <1>3, <1>4 DEF TokensHaveSessions, LockedTokensExist, StepOf, SessionOf
<1>7. OneLiveToken' /\ ExpiriesAgree'
  BY <1>2, <1>3 DEF TokensHaveSessions, OneLiveToken, ExpiriesAgree, SessionOf, Siblings
<1> QED BY <1>5, <1>6, <1>7

(* Every statement of a request already started keeps it. *)
LEMMA ContinueRotationInv ==
    ASSUME RotationInv, NEW r \in Requests, Continue(r)
    PROVE  RotationInv'
<1>1. TypeOK /\ TypeOK'
  BY ContinueTypeOK DEF RotationInv
<1>2. CASE ClaimRotation(r)
  <2>1. ClaimHeld(r) /\ job[r].token \in Tokens
    BY <1>2 DEF RotationInv, ClaimRotation, ClaimHeld
  <2>2. StepOf(r)
    BY <1>1, <1>2 DEF TypeOK, ClaimRotation, Free, StepOf, Rows
  <2>3. job'[r].token = job[r].token /\ job'[r].session = job[r].session
    <3>1. job' = [job EXCEPT ![r] = [job[r] EXCEPT !.expires = refreshExpiry]]
      BY <1>2 DEF ClaimRotation
    <3>2. job \in [Requests -> Job]
      BY <1>1 DEF TypeOK
    <3>3. \A j \in Job : /\ [j EXCEPT !.expires = refreshExpiry].token = j.token
                        /\ [j EXCEPT !.expires = refreshExpiry].session = j.session
      BY DEF Job
    <3> QED BY <3>1, <3>2, <3>3
  <2>4. ClaimHeld(r)'
    <3>1. lock'[job[r].token] = r /\ token' = token /\ token[job[r].token].state = "live"
      BY <1>1, <1>2, <2>1 DEF TypeOK, ClaimRotation, Rows
    <3>2. pc[r] = "claim"
      BY <1>2 DEF ClaimRotation
    <3>3. job[r].session = token[job[r].token].session
      BY <2>1, <3>2 DEF ClaimHeld, SessionOf
    <3> QED BY <2>1, <2>3, <3>1, <3>3 DEF ClaimHeld, SessionOf
  <2> QED BY <1>1, <1>2, <2>2, <2>4, QuietStep DEF ClaimRotation
<1>3. CASE LoseRotation(r) \/ LockUser(r) \/ FindSessions(r) \/ FindTokens(r)
  <2>1. ASSUME LockUser(r) PROVE StepOf(r) /\ ClaimHeld(r)'
    <3>1. job[r].user \notin Tokens
      BY <1>1 DEF TypeOK, Job
    <3>2. StepOf(r)
      BY <1>1, <2>1, <3>1 DEF TypeOK, LockUser, Goto, Free, StepOf, Rows
    <3>3. ClaimHeld(r)'
      BY <1>1, <2>1 DEF TypeOK, LockUser, Goto, ClaimHeld
    <3> QED BY <3>2, <3>3
  <2>2. ASSUME LoseRotation(r) \/ FindSessions(r) \/ FindTokens(r)
        PROVE  StepOf(r) /\ ClaimHeld(r)'
    <3>1. StepOf(r)
      BY <1>1, <2>2 DEF TypeOK, LoseRotation, FindSessions, FindTokens, StepOf
    <3>2. pc'[r] \notin {"claim", "touch"}
      BY <1>1, <2>2 DEF TypeOK, LoseRotation, FindSessions, FindTokens
    <3> QED BY <3>1, <3>2 DEF ClaimHeld
  <2> QED BY <1>1, <1>3, <2>1, <2>2, QuietStep
             DEF LoseRotation, LockUser, FindSessions, FindTokens
<1>4. ASSUME NEW x \in Sessions \cup Tokens, LockRow(r, x) PROVE RotationInv'
  <2>1. StepOf(r) /\ ClaimHeld(r)'
    BY <1>1, <1>4 DEF TypeOK, LockRow, Free, StepOf, ClaimHeld, Rows
  <2> QED BY <1>1, <1>4, <2>1, QuietStep DEF LockRow
<1> QED BY <1>1, <1>2, <1>3, <1>4, IssueRotationInv, CommitRotationInv,
           RevokeRotationInv DEF Continue

(* Every step of the specification keeps it. *)
LEMMA NextRotationInv == RotationInv /\ [Next]_vars => RotationInv'
<1> SUFFICES ASSUME RotationInv, [Next]_vars PROVE RotationInv'
  OBVIOUS
<1>1. TypeOK /\ TypeOK'
  BY NextTypeOK DEF RotationInv
<1>2. ASSUME NEW r \in Requests, AbortDeadlock(r) \/ Crash(r) PROVE RotationInv'
  BY <1>1, <1>2, FinishIsAStepOf, QuietStep DEF AbortDeadlock, Crash
<1>3. ASSUME UNCHANGED <<session, token, lock, pc, job>> PROVE RotationInv'
  BY <1>1, <1>3 DEF RotationInv, TokensHaveSessions, LockedTokensExist, ClaimHeld,
                    OneLiveToken, ExpiriesAgree, SessionOf, Siblings
<1> QED BY <1>2, <1>3, ArriveRotationInv, ContinueRotationInv
           DEF Next, Enable, Tick, vars

(* The inductive invariant holds in every reachable state. *)
THEOREM RotationInvariant == Spec => []RotationInv
BY InitRotationInv, NextRotationInv, PTL DEF Spec

(* However requests interleave, a session never has two live tokens. *)
THEOREM NeverTwoLiveTokens == Spec => []OneLiveToken
BY RotationInvariant, PTL DEF RotationInv

(* A live token expires when the session that the middleware checks does. *)
THEOREM ExpiriesAlwaysAgree == Spec => []ExpiriesAgree
BY RotationInvariant, PTL DEF RotationInv

-------------------------------------------------------------------------------
(* Revocation is final. *)

(* No step brings a revoked session or token back. *)
LEMMA RevokedStaysRevoked ==
    ASSUME TypeOK, [Next]_vars
    PROVE  /\ \A s \in Sessions : session[s].state = "revoked" => session'[s].state = "revoked"
           /\ \A t \in Tokens : token[t].state = "revoked" => token'[t].state = "revoked"
<1> USE DEF TypeOK
<1>1. ASSUME NEW r \in Requests, NEW u \in Tokens, CommitRotation(r, u)
      PROVE  /\ \A s \in Sessions : session'[s].state = session[s].state
             /\ \A t \in Tokens : token[t].state = "revoked" => token'[t].state = "revoked"
  <2> DEFINE t == job[r].token
             s == job[r].session
             spent == [token[t] EXCEPT !.state = "revoked", !.replacedBy = u]
             fresh == [state |-> "live", session |-> s,
                       expires |-> job[r].expires, replacedBy |-> None]
             touched == [session[s] EXCEPT !.expires = job[r].expires]
  <2>1. /\ token' = [token EXCEPT ![t] = spent, ![u] = fresh] /\ token[u].state = "none"
        /\ session' = [session EXCEPT ![s] = touched]
    BY <1>1 DEF CommitRotation, Touched
  <2>2. \A row \in TokenRow :
            [row EXCEPT !.state = "revoked", !.replacedBy = u].state = "revoked"
    BY DEF TokenRow
  <2>3. \A row \in SessionRow : [row EXCEPT !.expires = job[r].expires].state = row.state
    BY DEF SessionRow
  <2> HIDE DEF t, s
  <2>4. /\ t \in Tokens => spent.state = "revoked"
        /\ s \in Sessions => touched.state = session[s].state
    BY <2>2, <2>3
  <2> HIDE DEF spent, fresh, touched
  <2> QED BY <2>1, <2>4
<1>2. ASSUME NEW r \in Requests, EndSessions(r) \/ EndTokens(r)
      PROVE  /\ \A s \in Sessions : session'[s].state \in {session[s].state, "revoked"}
             /\ \A t \in Tokens : token'[t].state \in {token[t].state, "revoked"}
  BY <1>2 DEF EndSessions, EndTokens, RevokedSessions, RevokedTokens, SessionRow, TokenRow
<1>3. ASSUME NEW r \in Requests, NEW s \in Sessions, NEW t \in Tokens, IssueSession(r, s, t)
      PROVE  /\ session[s].state = "none" /\ token[t].state = "none"
             /\ \A v \in Sessions \ {s} : session'[v] = session[v]
             /\ \A v \in Tokens \ {t} : token'[v] = token[v]
  BY <1>3 DEF IssueSession
<1>4. ASSUME NEW r \in Requests, Arrive(r) \/ AbortDeadlock(r) \/ Crash(r)
      PROVE  UNCHANGED <<session, token>>
  BY <1>4 DEF Arrive, Start, Login, RefreshFindsReuse, RefreshFindsLive, Logout,
              RevokeUserSession, RevokeOtherSessions, ChangePassword, EvictAll,
              AbortDeadlock, Crash
<1>5. ASSUME NEW r \in Requests,
             \/ ClaimRotation(r) \/ LoseRotation(r) \/ LockUser(r)
             \/ FindSessions(r) \/ FindTokens(r)
             \/ \E x \in Sessions \cup Tokens : LockRow(r, x)
      PROVE  UNCHANGED <<session, token>>
  BY <1>5 DEF ClaimRotation, LoseRotation, LockUser, FindSessions, FindTokens, LockRow
<1> QED BY <1>1, <1>2, <1>3, <1>4, <1>5 DEF Next, Continue, Enable, Tick, vars

(* A touch that read the session before its revocation, a crash or the     *)
(* enabling of the account never brings a session or a token back.         *)
THEOREM RevokedForGood == Spec => RevocationIsFinal
<1>1. TypeOK /\ [Next]_vars =>
        [/\ \A s \in Sessions : session[s].state = "revoked" => session'[s].state = "revoked"
         /\ \A t \in Tokens : token[t].state = "revoked" => token'[t].state = "revoked"]_vars
  BY RevokedStaysRevoked
<1> QED BY <1>1, TypeCorrect, PTL DEF Spec, RevocationIsFinal

-------------------------------------------------------------------------------
(***************************************************************************)
(* That the tables and their transactions implement RefreshChain, for any  *)
(* number of users, sessions, tokens and concurrent requests, any clock,   *)
(* and with or without crashes.                                            *)
(***************************************************************************)

(* Only sessions that exist are locked: otherwise a revocation would close *)
(* a session before it was opened.                                         *)
LockedSessionsExist ==
    \A s \in Sessions : lock[s] # None => session[s].state # "none"

ChainInv == RotationInv /\ LockedSessionsExist

-------------------------------------------------------------------------------
(* A step locks a session only if it is live, and none ceases to exist. *)
LEMMA NextLockedSessions ==
    ASSUME TypeOK, LockedSessionsExist, [Next]_vars
    PROVE  LockedSessionsExist'
<1> USE DEF TypeOK, LockedSessionsExist
<1>1. ASSUME NEW r \in Requests, Finish(r),
             \A s \in Sessions : session[s].state # "none" => session'[s].state # "none"
      PROVE  LockedSessionsExist'
    BY <1>1 DEF Finish, Unlock, Rows
<1>2. ASSUME UNCHANGED <<session, lock>> PROVE LockedSessionsExist'
    BY <1>2
<1>3. ASSUME NEW r \in Requests, EndSessions(r) \/ EndTokens(r)
      PROVE  \A s \in Sessions : session[s].state # "none" => session'[s].state # "none"
    BY <1>3 DEF EndSessions, EndTokens, RevokedSessions, SessionRow
<1>4. ASSUME NEW r \in Requests, NEW s \in Sessions, NEW t \in Tokens, IssueSession(r, s, t)
      PROVE  LockedSessionsExist'
    BY <1>1, <1>4 DEF IssueSession
<1>5. ASSUME NEW r \in Requests, NEW u \in Tokens, CommitRotation(r, u)
      PROVE  LockedSessionsExist'
    <2> DEFINE s == job[r].session
               touched == [session[s] EXCEPT !.expires = job[r].expires]
    <2>1. session' = [session EXCEPT ![s] = touched]
        BY <1>5 DEF CommitRotation, Touched
    <2>2. \A row \in SessionRow : [row EXCEPT !.expires = job[r].expires].state = row.state
        BY DEF SessionRow
    <2>3. s \in Sessions => touched.state = session[s].state
        BY <2>2
    <2> HIDE DEF s, touched
    <2> QED
        BY <1>1, <1>5, <2>1, <2>3 DEF CommitRotation
<1>6. ASSUME NEW r \in Requests, NEW x \in Sessions \cup Tokens, LockRow(r, x)
      PROVE  LockedSessionsExist'
    BY <1>6 DEF LockRow, Rows
<1>7. ASSUME NEW r \in Requests, ClaimRotation(r) \/ LockUser(r) PROVE LockedSessionsExist'
    <2>1. \A x : lock' = [lock EXCEPT ![x] = r] /\ x \notin Sessions
                    => \A s \in Sessions : lock'[s] = lock[s]
        BY DEF Rows
    <2>2. job[r].token \notin Sessions /\ job[r].user \notin Sessions
        BY DEF Job
    <2> QED
        BY <1>7, <2>1, <2>2 DEF ClaimRotation, LockUser
<1>8. ASSUME NEW r \in Requests, EndSessions(r) PROVE LockedSessionsExist'
    BY <1>3, <1>8 DEF EndSessions, Unlock, Rows
<1>9. ASSUME NEW r \in Requests, EndTokens(r) PROVE LockedSessionsExist'
    BY <1>1, <1>3, <1>9 DEF EndTokens
<1>10. ASSUME NEW r \in Requests, LoseRotation(r) \/ FindSessions(r) \/ FindTokens(r)
       PROVE  UNCHANGED <<session, lock>>
    BY <1>10 DEF LoseRotation, FindSessions, FindTokens
<1>11. ASSUME NEW r \in Requests, Arrive(r)
       PROVE  UNCHANGED <<session, lock>>
    BY <1>11 DEF Arrive, Start, Login, RefreshFindsReuse, RefreshFindsLive, Logout,
        RevokeUserSession, RevokeOtherSessions, ChangePassword, EvictAll
<1>12. ASSUME NEW r \in Requests, AbortDeadlock(r) \/ Crash(r) PROVE LockedSessionsExist'
    BY <1>1, <1>12 DEF AbortDeadlock, Crash
<1> QED
    BY <1>2, <1>4, <1>5, <1>6, <1>7, <1>8, <1>9, <1>10, <1>11, <1>12
        DEF Next, Continue, Enable, Tick, vars

(* The invariant that the refinement rests on. *)
THEOREM ChainInvariant == Spec => []ChainInv
<1>1. Init => ChainInv
    BY InitRotationInv DEF Init, ChainInv, LockedSessionsExist, Rows
<1>2. ChainInv /\ [Next]_vars => ChainInv'
    BY NextRotationInv, NextLockedSessions DEF ChainInv, RotationInv
<1> QED
    BY <1>1, <1>2, PTL DEF Spec

-------------------------------------------------------------------------------
(* The mapping. *)

(* A set with one element has no other to choose. *)
LEMMA OnlyChoice ==
    ASSUME NEW S, NEW t \in S, \A u \in S : u = t
    PROVE  (CHOOSE u \in S : TRUE) = t
OBVIOUS

(* The holder of a session is its live token. *)
LEMMA HolderIs ==
    ASSUME OneLiveToken, NEW s \in Sessions, NEW t \in CurrentTokens(s), session[s].state = "live"
    PROVE  Phase(s) = "open" /\ Holder(s) = t
<1>1. Phase(s) = "open"
    BY DEF Phase
<1>2. \A u \in CurrentTokens(s) : u = t
    BY DEF CurrentTokens, OneLiveToken, Siblings
<1>3. (CHOOSE u \in CurrentTokens(s) : TRUE) = t
    BY <1>2, OnlyChoice
<1> QED
    BY <1>1, <1>3 DEF Holder

(* It still is after a step. *)
LEMMA HolderBecomes ==
    ASSUME OneLiveToken', NEW s \in Sessions, NEW t \in CurrentTokens(s)', session'[s].state = "live"
    PROVE  Phase(s)' = "open" /\ Holder(s)' = t
<1>1. Phase(s)' = "open"
    BY DEF Phase
<1>2. \A u \in CurrentTokens(s)' : u = t
    BY DEF CurrentTokens, OneLiveToken, Siblings
<1>3. (CHOOSE u \in CurrentTokens(s)' : TRUE) = t
    BY <1>2, OnlyChoice
<1> QED
    BY <1>1, <1>3 DEF Holder

(* The tokens that were handed out. *)
Used == {t \in Tokens : token[t].state # "none"}

(* A session of which nothing seen changes keeps its phase and its holder. *)
LEMMA Unseen ==
    ASSUME NEW s \in Sessions, session'[s].state = session[s].state,
           CurrentTokens(s)' = CurrentTokens(s)
    PROVE  Phase(s)' = Phase(s) /\ Holder(s)' = Holder(s)
<1>1. Phase(s)' = Phase(s)
    BY DEF Phase
<1> QED
    BY <1>1 DEF Holder

-------------------------------------------------------------------------------
(* The steps. *)

(* The empty tables are an unopened chain. *)
LEMMA InitChain == Init => Chain!ChainInit
<1> SUFFICES ASSUME Init PROVE Chain!ChainInit
    OBVIOUS
<1>1. \A s \in Sessions : Phase(s) = "unopened" /\ Holder(s) = None
    BY DEF Init, NoSession, Phase, Holder
<1>2. Used = {}
    BY DEF Init, NoToken, Used
<1> QED
    BY <1>1, <1>2 DEF Chain!ChainInit, Used

(* What writes neither table is a stutter. *)
LEMMA QuietIsStutter ==
    ASSUME UNCHANGED <<session, token>>
    PROVE  UNCHANGED Chain!chainVars
<1>1. ASSUME NEW s \in Sessions PROVE Phase(s)' = Phase(s) /\ Holder(s)' = Holder(s)
    BY Unseen DEF CurrentTokens
<1>2. Used' = Used
    BY DEF Used
<1> QED
    BY <1>1, <1>2 DEF Chain!chainVars, Used

(* The transaction of a login opens a session. *)
LEMMA IssueIsOpen ==
    ASSUME ChainInv, ChainInv', NEW r \in Requests, NEW s \in Sessions, NEW t \in Tokens,
           IssueSession(r, s, t)
    PROVE  Chain!Open(s, t)
<1> USE DEF ChainInv, RotationInv, TypeOK
<1>1. /\ session[s].state = "none" /\ token[t].state = "none"
      /\ session'[s].state = "live" /\ token'[t].state = "live" /\ token'[t].session = s
      /\ \A v \in Sessions \ {s} : session'[v] = session[v]
      /\ \A v \in Tokens \ {t} : token'[v] = token[v]
    BY DEF IssueSession
<1>2. Phase(s) = "unopened"
    BY <1>1 DEF Phase
<1>3. Phase(s)' = "open" /\ Holder(s)' = t
    <2>1. t \in CurrentTokens(s)'
        BY <1>1 DEF CurrentTokens
    <2> QED
        BY <1>1, <2>1, HolderBecomes
<1>4. ASSUME NEW v \in Sessions, v # s PROVE Phase(v)' = Phase(v) /\ Holder(v)' = Holder(v)
    <2>1. CurrentTokens(v)' = CurrentTokens(v)
        BY <1>1, <1>4 DEF CurrentTokens
    <2> QED
        BY <1>1, <1>4, <2>1, Unseen
<1>5. t \notin Used /\ Used' = Used \cup {t}
    BY <1>1 DEF Used
<1> QED
    BY <1>2, <1>3, <1>4, <1>5 DEF Chain!Open, Used

(* The transaction of a rotation passes its session on, or, if the session *)
(* was closed since the token was read, hands out a token that renews      *)
(* nothing.                                                                *)
LEMMA CommitIsRotateOrWaste ==
    ASSUME ChainInv, ChainInv', NEW r \in Requests, NEW u \in Tokens, CommitRotation(r, u)
    PROVE  (\E s \in Sessions : Chain!Rotate(s, u)) \/ Chain!Waste(u)
<1> USE DEF ChainInv, RotationInv, TypeOK
<1>1. PICK t \in Tokens, s \in Sessions :
          /\ t = job[r].token /\ s = job[r].session /\ token[t].session = s
          /\ token[t].state = "live" /\ session[s].state # "none"
    BY DEF CommitRotation, ClaimHeld, TokensHaveSessions, SessionOf
<1>2. /\ token[u].state = "none" /\ t # u
      /\ token'[t].state = "revoked" /\ token'[u].state = "live" /\ token'[u].session = s
      /\ \A v \in Tokens \ {t, u} : token'[v] = token[v]
    <2> DEFINE spent == [token[t] EXCEPT !.state = "revoked", !.replacedBy = u]
               fresh == [state |-> "live", session |-> s,
                         expires |-> job[r].expires, replacedBy |-> None]
    <2>1. token' = [token EXCEPT ![t] = spent, ![u] = fresh] /\ token[u].state = "none"
        BY <1>1 DEF CommitRotation
    <2>2. spent.state = "revoked"
        BY DEF TokenRow
    <2>3. fresh.state = "live" /\ fresh.session = s
        OBVIOUS
    <2> HIDE DEF spent, fresh
    <2> QED
        BY <1>1, <2>1, <2>2, <2>3
<1>3. /\ session'[s].state = session[s].state
      /\ \A v \in Sessions \ {s} : session'[v] = session[v]
    BY <1>1 DEF CommitRotation, Touched, SessionRow
<1>4. ASSUME NEW v \in Sessions, v # s PROVE Phase(v)' = Phase(v) /\ Holder(v)' = Holder(v)
    <2>1. CurrentTokens(v)' = CurrentTokens(v)
        BY <1>1, <1>2, <1>4 DEF CurrentTokens
    <2> QED
        BY <1>3, <1>4, <2>1, Unseen
<1>5. u \notin Used /\ Used' = Used \cup {u}
    BY <1>1, <1>2 DEF Used
<1>6. t \in CurrentTokens(s) /\ u \in CurrentTokens(s)'
    BY <1>1, <1>2 DEF CurrentTokens
<1>7. CASE session[s].state = "live"
    <2>1. Phase(s) = "open"
        BY <1>6, <1>7, HolderIs
    <2>2. Phase(s)' = "open" /\ Holder(s)' = u
        BY <1>3, <1>6, <1>7, HolderBecomes
    <2>3. Chain!Rotate(s, u)
        BY <1>4, <1>5, <2>1, <2>2 DEF Chain!Rotate, Used
    <2> QED
        BY <2>3
<1>8. CASE session[s].state # "live"
    <2>1. Phase(s)' = Phase(s) /\ Holder(s)' = Holder(s)
        BY <1>1, <1>3, <1>8 DEF Phase, Holder
    <2>2. Chain!Waste(u)
        BY <1>4, <1>5, <2>1 DEF Chain!Waste, Used
    <2> QED
        BY <2>2
<1> QED
    BY <1>7, <1>8

(* The end of a statement that revokes closes the sessions that have no    *)
(* live token any more or are themselves revoked, and opens none.          *)
LEMMA RevokingIsClose ==
    ASSUME ChainInv, ChainInv', NEW r \in Requests, EndSessions(r) \/ EndTokens(r)
    PROVE  \E S \in SUBSET Sessions : Chain!Close(S)
<1> DEFINE S == {s \in Sessions : Phase(s) = "open" /\ Phase(s)' # "open"}
<1> USE DEF ChainInv, RotationInv, TypeOK
<1>1. \A s \in Sessions :
         /\ session'[s].state \in {session[s].state, "revoked"}
         /\ session[s].state = "none" => session'[s].state = "none"
    BY DEF EndSessions, EndTokens, RevokedSessions, SessionRow, LockedSessionsExist
<1>2. \A t \in Tokens :
         /\ token'[t].session = token[t].session
         /\ token'[t].state = "live" => token[t].state = "live"
         /\ token'[t].state # "none" <=> token[t].state # "none"
    BY DEF EndSessions, EndTokens, RevokedTokens, TokenRow, LockedTokensExist
<1>3. ASSUME NEW s \in Sessions PROVE CurrentTokens(s)' \subseteq CurrentTokens(s)
    BY <1>2 DEF CurrentTokens
<1>4. ASSUME NEW s \in Sessions, s \in S
      PROVE  Phase(s)' = "closed" /\ Holder(s)' = None
    BY <1>1, <1>4 DEF Phase, Holder
<1>5. ASSUME NEW s \in Sessions, s \notin S
      PROVE  Phase(s)' = Phase(s) /\ Holder(s)' = Holder(s)
    <2>1. CASE Phase(s)' = "open"
        <3>1. PICK t \in CurrentTokens(s)' : session'[s].state = "live"
            BY <2>1 DEF Phase
        <3>2. t \in CurrentTokens(s) /\ session[s].state = "live"
            BY <1>1, <1>3, <3>1
        <3> QED
            BY <3>1, <3>2, HolderIs, HolderBecomes
    <2>2. CASE Phase(s)' # "open"
        <3>1. Phase(s) # "open"
            BY <1>5, <2>2
        <3>2. Phase(s)' = Phase(s)
            BY <1>1, <1>3, <2>2, <3>1 DEF Phase
        <3> QED
            BY <3>1, <3>2 DEF Holder
    <2> QED
        BY <2>1, <2>2
<1>6. Used' = Used
    BY <1>2 DEF Used
<1>7. /\ \A s \in S : s \in Sessions /\ Phase(s) = "open"
      /\ S \in SUBSET Sessions
    OBVIOUS
<1> HIDE DEF S
<1>8. Chain!Close(S)
    <2>1. \A s \in S : [v \in Sessions |-> Phase(v)][s] = "open"
        BY <1>7
    <2>2. [s \in Sessions |-> Phase(s)]'
            = [s \in Sessions |-> IF s \in S THEN "closed"
                                 ELSE [v \in Sessions |-> Phase(v)][s]]
        BY <1>4, <1>5
    <2>3. [s \in Sessions |-> Holder(s)]'
            = [s \in Sessions |-> IF s \in S THEN None
                                 ELSE [v \in Sessions |-> Holder(v)][s]]
        BY <1>4, <1>5
    <2> QED
        BY <1>6, <2>1, <2>2, <2>3 DEF Chain!Close, Used
<1> QED
    BY <1>7, <1>8

(* Every step of the tables is a step of the chain, or none. *)
LEMMA NextIsChainNext ==
    ASSUME ChainInv, ChainInv', [Next]_vars
    PROVE  [Chain!ChainNext]_(Chain!chainVars)
<1>1. ASSUME NEW r \in Requests, Arrive(r) \/ AbortDeadlock(r) \/ Crash(r)
      PROVE  UNCHANGED <<session, token>>
    BY <1>1 DEF Arrive, Start, Login, RefreshFindsReuse, RefreshFindsLive, Logout,
        RevokeUserSession, RevokeOtherSessions, ChangePassword, EvictAll, AbortDeadlock, Crash
<1>2. ASSUME NEW r \in Requests,
             \/ ClaimRotation(r) \/ LoseRotation(r) \/ LockUser(r)
             \/ FindSessions(r) \/ FindTokens(r)
             \/ \E x \in Sessions \cup Tokens : LockRow(r, x)
      PROVE  UNCHANGED <<session, token>>
    BY <1>2 DEF ClaimRotation, LoseRotation, LockUser, FindSessions, FindTokens, LockRow
<1>3. ASSUME NEW r \in Requests, NEW s \in Sessions, NEW t \in Tokens, IssueSession(r, s, t)
      PROVE  Chain!ChainNext
    BY <1>3, IssueIsOpen DEF Chain!ChainNext
<1>4. ASSUME NEW r \in Requests, NEW u \in Tokens, CommitRotation(r, u)
      PROVE  Chain!ChainNext
    BY <1>4, CommitIsRotateOrWaste DEF Chain!ChainNext
<1>5. ASSUME NEW r \in Requests, EndSessions(r) \/ EndTokens(r)
      PROVE  Chain!ChainNext
    BY <1>5, RevokingIsClose DEF Chain!ChainNext
<1>6. CASE UNCHANGED <<session, token>>
    BY <1>6, QuietIsStutter
<1> QED
    BY <1>1, <1>2, <1>3, <1>4, <1>5, <1>6 DEF Next, Continue, Enable, Tick, vars

(* Seen from the clients, the code is a refresh chain: whatever requests   *)
(* interleave, one token at a time renews a session, no token renews       *)
(* twice, and a session that was closed is not opened again.               *)
THEOREM RotationIsRefreshChain == Spec => ImplementsRefreshChain
<1>1. ChainInv /\ ChainInv' /\ [Next]_vars => [Chain!ChainNext]_(Chain!chainVars)
    BY NextIsChainNext
<1> QED
    BY InitChain, <1>1, ChainInvariant, PTL DEF Spec, ImplementsRefreshChain, Chain!ChainSpec

-------------------------------------------------------------------------------
(***************************************************************************)
(* That an eviction misses no session and no token, however many sign-ins, *)
(* rotations and other revocations run beside it.                          *)
(***************************************************************************)

(* A session has a user and a token a session once they are inserted. *)
RowsHaveOwners ==
    /\ \A s \in Sessions : /\ session[s].state = "none" => session[s].user = None
                           /\ session[s].state # "none" => session[s].user \in Users
    /\ \A t \in Tokens : token[t].state = "none" => SessionOf(t) = None

Target(j, s) == session[s].state = "live" /\ InScope(j, s)

Underway == {"findSessions", "lockSessions", "findTokens", "lockTokens"}

(* Who evicts holds the user's row, which every sign-in waits for, and     *)
(* each session it has passed, which every rotation waits for.             *)
EvictionHeld(r) ==
    LET j == job[r]
    IN  /\ pc[r] = "issue" \/ j.op \in EvictingOps => j.user \in Users
        /\ j.op = "burn" => j.session \in Sessions /\ session[j.session].state # "none"
        /\ j.op \in EvictingOps /\ pc[r] \in Underway => lock[j.user] = r
        /\ j.op \in TransactionOps =>
            /\ pc[r] = "lockSessions" =>
                    \A s \in Sessions : Target(j, s) => s \in j.todo \/ lock[s] = r
            /\ pc[r] \in {"findTokens", "lockTokens"} =>
                    \A s \in Sessions : Target(j, s) => lock[s] = r
            /\ pc[r] = "lockTokens" =>
                    \A t \in Tokens : token[t].state = "live" /\ Target(j, SessionOf(t))
                                        => t \in j.todo \/ lock[t] = r

EvictionInv ==
    /\ ChainInv
    /\ RowsHaveOwners
    /\ \A r \in Requests : EvictionHeld(r)

-------------------------------------------------------------------------------
(* What a step of any request leaves true of the rows: a session appears   *)
(* only while its user's row is free, and a token while its session is.    *)
RowsKept ==
    /\ \A s \in Sessions :
        /\ session[s].state # "none" =>
                session'[s].state # "none" /\ session'[s].user = session[s].user
        /\ session'[s].state = "live" =>
                \/ session[s].state = "live"
                \/ session[s].state = "none" /\ Free(session'[s].user)
    /\ \A t \in Tokens :
        token'[t].state = "live" =>
            /\ token'[t].session \in Sessions
            /\ \/ token[t].state = "live" /\ token'[t].session = token[t].session
               \/ Free(token'[t].session)

(* That is enough for the evictions of the other requests. *)
LEMMA OthersHeld ==
    ASSUME EvictionInv, RowsKept, NEW q \in Requests, StepOf(q), NEW r \in Requests \ {q}
    PROVE  EvictionHeld(r)'
<1>1. PICK j : j = job[r]
  OBVIOUS
<1>2. /\ pc'[r] = pc[r] /\ job'[r] = j /\ r # None
      /\ \A x \in Rows : lock[x] = r => lock'[x] = r
  BY <1>1 DEF StepOf
<1>3. EvictionHeld(r)
  BY DEF EvictionInv
<1> USE <1>1
<1>4. j.op = "burn" => j.session \in Sessions /\ session'[j.session].state # "none"
  BY <1>3 DEF EvictionHeld, RowsKept
<1>5. ASSUME NEW s \in Sessions, Target(j, s)', j.op \in TransactionOps, pc[r] \in Underway
      PROVE  Target(j, s)
  <2>1. CASE session[s].state = "live"
    BY <1>5, <2>1 DEF Target, InScope, RowsKept
  <2>2. CASE session[s].state = "none" /\ Free(session'[s].user)
    <3>1. j.op # "burn"
      BY <1>3, <1>5, <2>2 DEF EvictionHeld, Target, InScope, OneSessionOps
    <3>2. lock[j.user] = r /\ session'[s].user = j.user
      BY <1>3, <1>5, <3>1
         DEF EvictionHeld, Target, InScope, OneSessionOps, TransactionOps, EvictingOps
    <3> QED BY <1>2, <2>2, <3>2 DEF Free
  <2> QED BY <1>5, <2>1, <2>2 DEF Target, RowsKept
<1>6. ASSUME NEW t \in Tokens, token'[t].state = "live", Target(j, SessionOf(t))',
             j.op \in TransactionOps, pc[r] = "lockTokens"
      PROVE  token[t].state = "live" /\ Target(j, SessionOf(t))
  <2>1. PICK s \in Sessions : s = token'[t].session
    BY <1>6 DEF RowsKept
  <2>2. Target(j, s)'
    BY <1>6, <2>1 DEF SessionOf, Target, InScope
  <2>3. Target(j, s)
    BY <1>5, <1>6, <2>2 DEF Underway
  <2>4. lock[s] = r
    BY <1>3, <1>6, <2>3 DEF EvictionHeld
  <2> QED BY <1>2, <1>6, <2>1, <2>3, <2>4 DEF RowsKept, Free, SessionOf
<1>7. j.op \in TransactionOps =>
        /\ pc[r] = "lockSessions" =>
              \A s \in Sessions : Target(j, s)' => s \in j.todo \/ lock'[s] = r
        /\ pc[r] \in {"findTokens", "lockTokens"} =>
              \A s \in Sessions : Target(j, s)' => lock'[s] = r
  BY <1>2, <1>3, <1>5 DEF EvictionHeld, Underway, Rows
<1>8. j.op \in TransactionOps /\ pc[r] = "lockTokens" =>
        \A t \in Tokens : token'[t].state = "live" /\ Target(j, SessionOf(t))'
              => t \in j.todo \/ lock'[t] = r
  BY <1>2, <1>3, <1>6 DEF EvictionHeld, Rows, SessionOf
<1>9. /\ pc[r] = "issue" \/ j.op \in EvictingOps => j.user \in Users
      /\ j.op \in EvictingOps /\ pc[r] \in Underway => lock'[j.user] = r
  BY <1>2, <1>3 DEF EvictionHeld, Rows
<1> QED BY <1>2, <1>4, <1>7, <1>8, <1>9 DEF EvictionHeld, Target, InScope
-------------------------------------------------------------------------------
(* Every step keeps the rows so. *)
LEMMA SameRows ==
    ASSUME EvictionInv, UNCHANGED <<session, token>>
    PROVE  RowsKept /\ RowsHaveOwners'
<1>1. session' = session /\ token' = token /\ TokensHaveSessions /\ RowsHaveOwners
  BY DEF EvictionInv, ChainInv, RotationInv
<1>2. RowsKept
  BY <1>1 DEF RowsKept, TokensHaveSessions, SessionOf
<1>3. RowsHaveOwners'
  BY <1>1 DEF RowsHaveOwners, SessionOf
<1> QED BY <1>2, <1>3

(* A session appears at a sign-in, which waits for its user's row. *)
LEMMA IssueRows ==
    ASSUME EvictionInv, NEW r \in Requests, NEW s \in Sessions, NEW t \in Tokens,
           IssueSession(r, s, t)
    PROVE  RowsKept /\ RowsHaveOwners'
<1> DEFINE opened == [state |-> "live", user |-> job[r].user, expires |-> refreshExpiry]
           first == [state |-> "live", session |-> s, expires |-> refreshExpiry,
                     replacedBy |-> None]
<1>1. /\ pc[r] = "issue" /\ Free(job[r].user) /\ Free(s)
      /\ session[s].state = "none" /\ token[t].state = "none"
      /\ \A v \in Sessions \ {s} : session'[v] = session[v]
      /\ \A u \in Tokens \ {t} : token'[u] = token[u]
      /\ session'[s].state = "live" /\ session'[s].user = job[r].user
      /\ token'[t].state = "live" /\ token'[t].session = s
  <2>1. session \in [Sessions -> SessionRow] /\ token \in [Tokens -> TokenRow]
    BY DEF EvictionInv, ChainInv, RotationInv, TypeOK
  <2>2. session' = [session EXCEPT ![s] = opened] /\ token' = [token EXCEPT ![t] = first]
    BY DEF IssueSession
  <2>3. opened.state = "live" /\ opened.user = job[r].user /\ first.state = "live"
        /\ first.session = s
    OBVIOUS
  <2>4. /\ pc[r] = "issue" /\ Free(job[r].user)
        /\ session[s].state = "none" /\ token[t].state = "none"
    BY DEF IssueSession
  <2>5. Free(s)
    BY <2>4 DEF EvictionInv, ChainInv, LockedSessionsExist, Free
  <2> HIDE DEF opened, first
  <2> QED BY <2>1, <2>2, <2>3, <2>4, <2>5
<1>2. job[r].user \in Users
  BY <1>1 DEF EvictionInv, EvictionHeld
<1>3. TokensHaveSessions
  BY DEF EvictionInv, ChainInv, RotationInv
<1>4. RowsKept
  BY <1>1, <1>3 DEF RowsKept, TokensHaveSessions, SessionOf
<1>5. RowsHaveOwners'
  BY <1>1, <1>2 DEF EvictionInv, RowsHaveOwners, SessionOf
<1> QED BY <1>4, <1>5

(* A token appears at a rotation, which waits for its session's row. *)
LEMMA CommitRows ==
    ASSUME EvictionInv, NEW r \in Requests, NEW u \in Tokens, CommitRotation(r, u)
    PROVE  RowsKept /\ RowsHaveOwners'
<1>1. PICK t, s, e : t = job[r].token /\ s = job[r].session /\ e = job[r].expires
  OBVIOUS
<1>2. /\ session \in [Sessions -> SessionRow] /\ token \in [Tokens -> TokenRow]
      /\ TokensHaveSessions /\ ClaimHeld(r) /\ RowsHaveOwners
  BY DEF EvictionInv, ChainInv, RotationInv, TypeOK
<1>3. /\ Free(s) /\ pc[r] = "touch" /\ token[u].state = "none"
      /\ token' = [token EXCEPT
                ![t] = [token[t] EXCEPT !.state = "revoked", !.replacedBy = u],
                ![u] = [state |-> "live", session |-> s, expires |-> e, replacedBy |-> None]]
      /\ session' = [session EXCEPT ![s] = [session[s] EXCEPT !.expires = e]]
  BY <1>1 DEF CommitRotation, Touched
<1>4. t \in Tokens /\ t # u /\ token[t].session = s /\ s \in Sessions
  BY <1>1, <1>2, <1>3 DEF ClaimHeld, TokensHaveSessions, SessionOf
<1>5. /\ \A v \in Tokens \ {t, u} : token'[v] = token[v]
      /\ token'[t].state = "revoked"
      /\ token'[u].state = "live" /\ token'[u].session = s
  <2>1. \A row \in TokenRow : [row EXCEPT !.state = "revoked", !.replacedBy = u].state = "revoked"
    BY DEF TokenRow
  <2>2. PICK spent, fresh :
            /\ spent = [token[t] EXCEPT !.state = "revoked", !.replacedBy = u]
            /\ fresh = [state |-> "live", session |-> s, expires |-> e, replacedBy |-> None]
    OBVIOUS
  <2>3. spent.state = "revoked"
    BY <1>2, <1>4, <2>1, <2>2
  <2>4. fresh.state = "live" /\ fresh.session = s
    BY <2>2
  <2>5. token' = [token EXCEPT ![t] = spent, ![u] = fresh]
    BY <1>3, <2>2
  <2> QED BY <1>2, <1>4, <2>3, <2>4, <2>5
<1>6. \A v \in Sessions : session'[v].state = session[v].state /\ session'[v].user = session[v].user
  <2>1. \A row \in SessionRow : /\ [row EXCEPT !.expires = e].state = row.state
                                /\ [row EXCEPT !.expires = e].user = row.user
    BY DEF SessionRow
  <2>2. PICK slid : slid = [session[s] EXCEPT !.expires = e]
    OBVIOUS
  <2>3. slid.state = session[s].state /\ slid.user = session[s].user
    BY <1>2, <1>4, <2>1, <2>2
  <2>4. session' = [session EXCEPT ![s] = slid]
    BY <1>3, <2>2
  <2> QED BY <1>2, <1>4, <2>3, <2>4
<1>7. RowsKept
  BY <1>2, <1>3, <1>4, <1>5, <1>6 DEF RowsKept, TokensHaveSessions, SessionOf
<1>8. RowsHaveOwners'
  BY <1>2, <1>4, <1>5, <1>6 DEF RowsHaveOwners, SessionOf
<1> QED BY <1>7, <1>8

(* A revocation changes nothing but the state of what it has locked. *)
LEMMA RevokeRows ==
    ASSUME EvictionInv, NEW r \in Requests, EndSessions(r) \/ EndTokens(r)
    PROVE  RowsKept /\ RowsHaveOwners'
<1>1. /\ session \in [Sessions -> SessionRow] /\ token \in [Tokens -> TokenRow]
      /\ lock \in [Rows -> Requests \cup {None}]
      /\ TokensHaveSessions /\ RowsHaveOwners /\ LockedTokensExist /\ LockedSessionsExist
  BY DEF EvictionInv, ChainInv, RotationInv, TypeOK
<1>2. ASSUME NEW s \in Sessions
      PROVE  /\ session'[s].user = session[s].user
             /\ session'[s].state \in {session[s].state, "revoked"}
             /\ lock[s] # r => session'[s].state = session[s].state
  <2>1. CASE session'[s] = session[s]
    BY <2>1
  <2>2. CASE session' = RevokedSessions(r)
    BY <1>1, <2>2 DEF RevokedSessions, SessionRow
  <2> QED BY <2>1, <2>2 DEF EndSessions, EndTokens
<1>3. ASSUME NEW t \in Tokens
      PROVE  /\ token'[t].session = token[t].session
             /\ token'[t].state \in {token[t].state, "revoked"}
             /\ lock[t] # r => token'[t].state = token[t].state
  <2>1. CASE token'[t] = token[t]
    BY <2>1
  <2>2. CASE token' = RevokedTokens(r)
    BY <1>1, <2>2 DEF RevokedTokens, TokenRow
  <2> QED BY <2>1, <2>2 DEF EndSessions, EndTokens
<1>4. /\ \A s \in Sessions : lock[s] = r => session[s].state # "none"
      /\ \A t \in Tokens : lock[t] = r => token[t].state # "none"
  BY <1>1 DEF LockedTokensExist, LockedSessionsExist
<1>5. RowsKept
  BY <1>1, <1>2, <1>3 DEF RowsKept, TokensHaveSessions, SessionOf
<1>6. RowsHaveOwners'
  BY <1>1, <1>2, <1>3, <1>4 DEF RowsHaveOwners, SessionOf
<1> QED BY <1>5, <1>6
-------------------------------------------------------------------------------
(* Every step leaves the request that takes it with what it holds. *)
(* What a statement writes into its variables leaves the others alone. *)
LEMMA JobFields ==
    ASSUME NEW j \in Job, NEW set, NEW op, NEW e
    PROVE  /\ [j EXCEPT !.todo = set].todo = set
           /\ \A f \in {[j EXCEPT !.todo = set], [j EXCEPT !.expires = e]} :
                f.op = j.op /\ f.user = j.user /\ f.session = j.session
           /\ [j EXCEPT !.op = op].op = op /\ [j EXCEPT !.op = op].user = j.user
           /\ [j EXCEPT !.op = op].session = j.session
BY DEF Job

(* A request that arrives holds nothing yet. *)
LEMMA ArrivalHeld ==
    ASSUME EvictionInv, NEW r \in Requests, Arrive(r)
    PROVE  EvictionHeld(r)'
<1>1. /\ job \in [Requests -> Job] /\ pc \in [Requests -> Steps]
      /\ TokensHaveSessions /\ RowsHaveOwners
  BY DEF EvictionInv, ChainInv, RotationInv, TypeOK
<1>2. ASSUME NEW step, NEW j, Start(r, step, j)
      PROVE  pc'[r] = step /\ job'[r] = j /\ UNCHANGED <<session, token, lock>>
  BY <1>1, <1>2 DEF Start
<1>3. ASSUME NEW step \in {"issue", "claim", "lockUser", "findSessions"}, NEW j,
             pc'[r] = step, job'[r] = j, UNCHANGED <<session, token, lock>>,
             step = "issue" \/ j.op \in EvictingOps => j.user \in Users,
             j.op = "burn" => j.session \in Sessions /\ session[j.session].state # "none",
             step = "findSessions" => j.op \notin EvictingOps
      PROVE  EvictionHeld(r)'
  BY <1>3 DEF EvictionHeld, Underway
<1>4. ASSUME NEW u \in Users, Login(r, u) PROVE EvictionHeld(r)'
  <2>1. PICK j : j = [NoJob EXCEPT !.op = "login", !.user = u]
    OBVIOUS
  <2>2. j.op = "login" /\ j.user = u
    BY <2>1 DEF NoJob
  <2>3. Start(r, "issue", j) /\ j.op \notin EvictingOps
    BY <1>4, <2>1, <2>2 DEF Login, EvictingOps
  <2> QED BY <1>2, <1>3, <2>2, <2>3
<1>5. ASSUME NEW t \in Tokens, RefreshFindsReuse(r, t) PROVE EvictionHeld(r)'
  <2>1. PICK j : j = [NoJob EXCEPT !.op = "burn", !.session = SessionOf(t), !.token = t]
    OBVIOUS
  <2>2. j.op = "burn" /\ j.session = SessionOf(t)
    BY <2>1 DEF NoJob
  <2>3. token[t].state = "revoked" /\ Start(r, "findSessions", j)
    BY <1>5, <2>1 DEF RefreshFindsReuse
  <2>4. j.session \in Sessions /\ session[j.session].state # "none"
    BY <1>1, <2>2, <2>3 DEF TokensHaveSessions
  <2> QED BY <1>2, <1>3, <2>2, <2>3, <2>4 DEF EvictingOps
<1>6. ASSUME NEW t \in Tokens, RefreshFindsLive(r, t) PROVE EvictionHeld(r)'
  <2>1. PICK j : j = [NoJob EXCEPT !.op = "rotate", !.token = t, !.session = SessionOf(t)]
    OBVIOUS
  <2>2. j.op = "rotate"
    BY <2>1 DEF NoJob
  <2> QED BY <1>2, <1>3, <1>6, <2>1, <2>2 DEF RefreshFindsLive, EvictingOps
<1>7. ASSUME NEW s, Start(r, "findSessions", [NoJob EXCEPT !.op = "logout", !.session = s])
      PROVE  EvictionHeld(r)'
  <2>1. PICK j : j = [NoJob EXCEPT !.op = "logout", !.session = s]
    OBVIOUS
  <2>2. j.op = "logout"
    BY <2>1 DEF NoJob
  <2> QED BY <1>2, <1>3, <1>7, <2>1, <2>2 DEF EvictingOps
<1>8. ASSUME \/ \E t \in Tokens : Logout(r, t)
             \/ \E c, s \in Sessions : RevokeUserSession(r, c, s)
      PROVE  EvictionHeld(r)'
  BY <1>7, <1>8 DEF Logout, RevokeUserSession
<1>9. ASSUME NEW c \in Sessions, RevokeOtherSessions(r, c) PROVE EvictionHeld(r)'
  <2>1. PICK j : j = [NoJob EXCEPT !.op = "others", !.user = session[c].user, !.session = c]
    OBVIOUS
  <2>2. j.op = "others"
    BY <2>1 DEF NoJob
  <2> QED BY <1>2, <1>3, <1>9, <2>1, <2>2 DEF RevokeOtherSessions, EvictingOps
<1>10. ASSUME NEW c \in Sessions, ChangePassword(r, c) PROVE EvictionHeld(r)'
  <2>1. session[c].user \in Users
    BY <1>1, <1>10 DEF ChangePassword, assertSessionActive, RowsHaveOwners
  <2>2. PICK j : j = [NoJob EXCEPT !.op = "changePassword", !.user = session[c].user, !.session = c]
    OBVIOUS
  <2>3. j.op = "changePassword" /\ j.user \in Users
    BY <2>1, <2>2 DEF NoJob
  <2> QED BY <1>2, <1>3, <1>10, <2>2, <2>3 DEF ChangePassword
<1>11. ASSUME NEW u \in Users, NEW op \in {"resetPassword", "disable", "delete"},
              EvictAll(r, u, op)
       PROVE  EvictionHeld(r)'
  <2>1. PICK j : j = [NoJob EXCEPT !.op = op, !.user = u]
    OBVIOUS
  <2>2. j.op = op /\ j.user = u
    BY <2>1 DEF NoJob
  <2> QED BY <1>2, <1>3, <1>11, <2>1, <2>2 DEF EvictAll
<1> QED BY <1>4, <1>5, <1>6, <1>8, <1>9, <1>10, <1>11 DEF Arrive

(* Answered, aborted or dead, a request is idle. *)
LEMMA FinishedHeld ==
    ASSUME EvictionInv, NEW r \in Requests, Finish(r)
    PROVE  EvictionHeld(r)'
<1>1. pc'[r] = "idle" /\ job'[r] = NoJob
  BY DEF Finish, EvictionInv, ChainInv, RotationInv, TypeOK
<1> QED BY <1>1 DEF EvictionHeld, NoJob, EvictingOps, TransactionOps

(* Each statement hands on what it passed to the next. *)
LEMMA ContinueHeld ==
    ASSUME EvictionInv, NEW r \in Requests, Continue(r)
    PROVE  EvictionHeld(r)'
<1>1. /\ job \in [Requests -> Job] /\ pc \in [Requests -> Steps]
      /\ lock \in [Rows -> Requests \cup {None}]
      /\ TokensHaveSessions /\ ClaimHeld(r) /\ EvictionHeld(r)
  BY DEF EvictionInv, ChainInv, RotationInv, TypeOK
<1>2. PICK j \in Job : j = job[r]
  BY <1>1
<1> USE <1>2
<1>3. ASSUME \/ \E s \in Sessions, t \in Tokens : IssueSession(r, s, t)
             \/ \E u \in Tokens : CommitRotation(r, u)
             \/ EndTokens(r)
      PROVE  EvictionHeld(r)'
  BY <1>3, FinishedHeld DEF IssueSession, CommitRotation, EndTokens
<1>4. CASE ClaimRotation(r)
  <2>1. PICK k : k = [j EXCEPT !.expires = refreshExpiry]
    OBVIOUS
  <2>2. k.op = j.op /\ k.user = j.user /\ k.session = j.session
    BY <2>1, JobFields
  <2>3. pc'[r] = "touch" /\ job'[r] = k /\ session' = session
    BY <1>1, <1>4, <2>1 DEF ClaimRotation
  <2> QED BY <1>1, <2>2, <2>3 DEF EvictionHeld, Underway
<1>5. CASE LoseRotation(r)
  <2>1. PICK k : k = [j EXCEPT !.op = "burn"]
    OBVIOUS
  <2>2. k.op = "burn" /\ k.session = j.session
    BY <2>1, JobFields
  <2>3. pc'[r] = "findSessions" /\ job'[r] = k /\ session' = session /\ pc[r] = "claim"
    BY <1>1, <1>5, <2>1 DEF LoseRotation
  <2>4. j.session \in Sessions /\ session[j.session].state # "none"
    BY <1>1, <2>3 DEF ClaimHeld, TokensHaveSessions
  <2> QED BY <2>2, <2>3, <2>4 DEF EvictionHeld, EvictingOps
<1>6. CASE LockUser(r)
  <2>1. /\ pc[r] = "lockUser" /\ pc'[r] = "findSessions" /\ job'[r] = j /\ session' = session
        /\ lock' = [lock EXCEPT ![j.user] = r]
    BY <1>1, <1>6 DEF LockUser, Goto
  <2>2. j.user \in Users => lock'[j.user] = r
    BY <1>1, <2>1 DEF Rows
  <2> QED BY <1>1, <2>1, <2>2 DEF EvictionHeld
<1>7. CASE FindSessions(r)
  <2>1. PICK found : found = {s \in Sessions : Target(j, s)}
    OBVIOUS
  <2>2. PICK k : k = [j EXCEPT !.todo = found]
    OBVIOUS
  <2>3. k.op = j.op /\ k.user = j.user /\ k.session = j.session /\ k.todo = found
    BY <2>2, JobFields
  <2>4. /\ pc[r] = "findSessions" /\ pc'[r] = "lockSessions" /\ job'[r] = k
        /\ session' = session /\ lock' = lock
    BY <1>1, <1>7, <2>1, <2>2 DEF FindSessions, Target
  <2>5. \A s \in Sessions : Target(k, s)' => s \in k.todo
    BY <2>1, <2>3, <2>4 DEF Target, InScope
  <2> QED BY <1>1, <2>3, <2>4, <2>5 DEF EvictionHeld, Underway
<1>8. CASE FindTokens(r)
  <2>1. PICK found : found = {t \in Tokens : token[t].state = "live" /\ InScope(j, SessionOf(t))}
    OBVIOUS
  <2>2. PICK k : k = [j EXCEPT !.todo = found]
    OBVIOUS
  <2>3. k.op = j.op /\ k.user = j.user /\ k.session = j.session /\ k.todo = found
    BY <2>2, JobFields
  <2>4. /\ pc[r] = "findTokens" /\ pc'[r] = "lockTokens" /\ job'[r] = k
        /\ session' = session /\ token' = token /\ lock' = lock
    BY <1>1, <1>8, <2>1, <2>2 DEF FindTokens
  <2>5. \A t \in Tokens : token[t].state = "live" /\ Target(k, SessionOf(t))' => t \in k.todo
    BY <2>1, <2>3, <2>4 DEF Target, InScope, SessionOf
  <2>6. \A s \in Sessions : Target(k, s)' <=> Target(j, s)
    BY <2>3, <2>4 DEF Target, InScope
  <2> QED BY <1>1, <2>3, <2>4, <2>5, <2>6 DEF EvictionHeld, Underway
<1>9. ASSUME NEW x \in Sessions \cup Tokens, LockRow(r, x) PROVE EvictionHeld(r)'
  <2>1. PICK k : k = [j EXCEPT !.todo = @ \ {x}]
    OBVIOUS
  <2>2. k.op = j.op /\ k.user = j.user /\ k.session = j.session /\ k.todo = j.todo \ {x}
    BY <2>1, JobFields
  <2>3. /\ pc[r] \in {"lockSessions", "lockTokens"} /\ pc'[r] = pc[r] /\ job'[r] = k
        /\ session' = session /\ token' = token
    BY <1>1, <1>9, <2>1 DEF LockRow
  <2>4. \A y \in Rows : lock[y] = r => lock'[y] = r
    BY <1>1, <1>9 DEF LockRow
  <2>5. /\ x \in Sessions /\ session[x].state = "live" => lock'[x] = r
        /\ x \in Tokens /\ token[x].state = "live" => lock'[x] = r
    BY <1>1, <1>9 DEF LockRow, Rows
  <2>6. \A s \in Sessions : Target(k, s)' <=> Target(j, s)
    BY <2>2, <2>3 DEF Target, InScope
  <2>7. \A t \in Tokens : Target(k, SessionOf(t))' <=> Target(j, SessionOf(t))
    BY <2>2, <2>3 DEF Target, InScope, SessionOf
  <2>8. k.op \in TransactionOps /\ pc[r] = "lockSessions" =>
          \A s \in Sessions : Target(k, s)' => s \in k.todo \/ lock'[s] = r
    BY <1>1, <2>2, <2>4, <2>5, <2>6 DEF EvictionHeld, Target, Rows
  <2>9. k.op \in TransactionOps /\ pc[r] = "lockTokens" =>
          /\ \A s \in Sessions : Target(k, s)' => lock'[s] = r
          /\ \A t \in Tokens : token[t].state = "live" /\ Target(k, SessionOf(t))'
                                  => t \in k.todo \/ lock'[t] = r
    BY <1>1, <2>2, <2>4, <2>5, <2>6, <2>7 DEF EvictionHeld, Rows
  <2>10. /\ k.op \in EvictingOps => k.user \in Users /\ lock'[k.user] = r
         /\ k.op = "burn" => k.session \in Sessions /\ session'[k.session].state # "none"
    BY <1>1, <2>2, <2>3, <2>4 DEF EvictionHeld, Rows, Underway
  <2> QED BY <2>3, <2>8, <2>9, <2>10 DEF EvictionHeld
<1>10. CASE EndSessions(r)
  <2>1. /\ pc[r] = "lockSessions" /\ pc'[r] = "findTokens" /\ job'[r] = j /\ j.todo = {}
        /\ j.op \in TransactionOps => session' = session /\ lock' = lock
    BY <1>1, <1>10 DEF EndSessions, Goto
  <2>2. j.op \in TransactionOps => \A s \in Sessions : Target(j, s)' <=> Target(j, s)
    BY <2>1 DEF Target, InScope
  <2> QED BY <1>1, <2>1, <2>2 DEF EvictionHeld, Underway, TransactionOps
<1> QED BY <1>3, <1>4, <1>5, <1>6, <1>7, <1>8, <1>9, <1>10 DEF Continue
(* Statements concern the request that executes them. *)
LEMMA ContinueIsAStepOf ==
    ASSUME RotationInv, NEW r \in Requests, Continue(r)
    PROVE  StepOf(r)
<1>1. TypeOK /\ ClaimHeld(r)
  BY DEF RotationInv
<1>2. CASE \/ \E s \in Sessions, t \in Tokens : IssueSession(r, s, t)
           \/ \E u \in Tokens : CommitRotation(r, u)
           \/ EndTokens(r)
  BY <1>1, <1>2, FinishIsAStepOf DEF IssueSession, CommitRotation, EndTokens
<1>3. CASE ClaimRotation(r)
  BY <1>1, <1>3 DEF TypeOK, ClaimHeld, ClaimRotation, Free, StepOf, Rows
<1>4. CASE LockUser(r)
  <2>1. job[r].user \notin Tokens
    BY <1>1 DEF TypeOK, Job
  <2> QED BY <1>1, <1>4, <2>1 DEF TypeOK, LockUser, Goto, Free, StepOf, Rows
<1>5. CASE LoseRotation(r) \/ FindSessions(r) \/ FindTokens(r)
  BY <1>1, <1>5 DEF TypeOK, LoseRotation, FindSessions, FindTokens, StepOf
<1>6. ASSUME NEW x \in Sessions \cup Tokens, LockRow(r, x) PROVE StepOf(r)
  BY <1>1, <1>6 DEF TypeOK, LockRow, Free, StepOf, Rows
<1>7. CASE EndSessions(r)
  BY <1>1, <1>7 DEF TypeOK, EndSessions, Goto, Unlock, StepOf, Rows
<1> QED BY <1>2, <1>3, <1>4, <1>5, <1>6, <1>7 DEF Continue
(* Every step keeps the invariant. *)
LEMMA NextHeld == EvictionInv /\ [Next]_vars => EvictionInv'
<1> SUFFICES ASSUME EvictionInv, [Next]_vars PROVE EvictionInv'
  OBVIOUS
<1>1. ChainInv' /\ TypeOK
  BY NextRotationInv, NextLockedSessions DEF EvictionInv, ChainInv, RotationInv
<1>2. ASSUME RowsKept, RowsHaveOwners', NEW r \in Requests, StepOf(r), EvictionHeld(r)'
      PROVE  EvictionInv'
  <2>1. \A q \in Requests \ {r} : EvictionHeld(q)'
    BY <1>2, OthersHeld
  <2> QED BY <1>1, <1>2, <2>1 DEF EvictionInv
<1>3. ASSUME UNCHANGED <<session, token, lock, pc, job>> PROVE EvictionInv'
  <2>1. RowsHaveOwners'
    BY <1>3, SameRows
  <2>2. \A r \in Requests : EvictionHeld(r)'
    BY <1>3 DEF EvictionInv, EvictionHeld, Target, InScope, SessionOf
  <2> QED BY <1>1, <2>1, <2>2 DEF EvictionInv
<1>4. ASSUME NEW r \in Requests, Arrive(r) PROVE EvictionInv'
  <2>1. UNCHANGED <<session, token>>
    BY <1>4 DEF Arrive, Start, Login, RefreshFindsReuse, RefreshFindsLive, Logout,
                RevokeUserSession, RevokeOtherSessions, ChangePassword, EvictAll
  <2>2. StepOf(r)
    BY <1>1, <1>4 DEF TypeOK, StepOf, Arrive, Start, Login, RefreshFindsReuse, RefreshFindsLive,
            Logout, RevokeUserSession, RevokeOtherSessions, ChangePassword, EvictAll
  <2> QED BY <1>2, <1>4, <2>1, <2>2, SameRows, ArrivalHeld
<1>5. ASSUME NEW r \in Requests, AbortDeadlock(r) \/ Crash(r) PROVE EvictionInv'
  <2>1. Finish(r) /\ UNCHANGED <<session, token>>
    BY <1>5 DEF AbortDeadlock, Crash
  <2> QED BY <1>1, <1>2, <2>1, SameRows, FinishIsAStepOf, FinishedHeld
<1>6. ASSUME NEW r \in Requests, Continue(r) PROVE EvictionInv'
  <2>1. RowsKept /\ RowsHaveOwners'
    <3>1. CASE UNCHANGED <<session, token>>
      BY <3>1, SameRows
    <3>2. CASE \/ \E s \in Sessions, t \in Tokens : IssueSession(r, s, t)
               \/ \E u \in Tokens : CommitRotation(r, u)
               \/ EndSessions(r) \/ EndTokens(r)
      BY <3>2, IssueRows, CommitRows, RevokeRows
    <3> QED BY <1>6, <3>1, <3>2
            DEF Continue, ClaimRotation, LoseRotation, LockUser, FindSessions, FindTokens, LockRow
  <2>2. StepOf(r)
    BY <1>1, <1>6, ContinueIsAStepOf DEF EvictionInv, ChainInv
  <2> QED BY <1>2, <1>6, <2>1, <2>2, ContinueHeld
<1> QED BY <1>3, <1>4, <1>5, <1>6 DEF Next, Enable, Tick, vars

(* In every reachable state who evicts holds what it has passed. *)
THEOREM EvictionsHold == Spec => []EvictionInv
<1>1. Init => EvictionInv
  <2> SUFFICES ASSUME Init PROVE EvictionInv
    OBVIOUS
  <2>1. ChainInv
    BY InitRotationInv DEF Init, ChainInv, LockedSessionsExist, Rows
  <2>2. RowsHaveOwners
    BY DEF Init, RowsHaveOwners, NoSession, NoToken, SessionOf
  <2>3. \A r \in Requests : EvictionHeld(r)
    BY DEF Init, EvictionHeld, NoJob, EvictingOps, TransactionOps
  <2> QED BY <2>1, <2>2, <2>3 DEF EvictionInv
<1> QED BY <1>1, NextHeld, PTL DEF Spec

(* What the last statement of an eviction finds locked is all there is. *)
LEMMA NothingMissed ==
    ASSUME EvictionInv, NEW r \in Requests, pc[r] = "lockTokens", EndTokens(r)
    PROVE  /\ job[r].op = "burn" => session'[job[r].session].state = "revoked"
           /\ job[r].op \in EvictingOps =>
                \A s \in Sessions : session'[s].user = job[r].user /\ s # job[r].session =>
                  /\ session'[s].state = "revoked"
                  /\ session[s].state = "live" =>
                      \A t \in Tokens : token'[t].session = s => token'[t].state = "revoked"
<1>1. PICK j : j = job[r]
  OBVIOUS
<1>2. /\ session \in [Sessions -> SessionRow] /\ token \in [Tokens -> TokenRow]
      /\ RowsHaveOwners /\ EvictionHeld(r) /\ LockedSessionsExist
  BY DEF EvictionInv, ChainInv, RotationInv, TypeOK
<1>3. /\ session' = RevokedSessions(r) /\ token' = RevokedTokens(r) /\ j.todo = {}
  BY <1>1 DEF EndTokens
<1>4. ASSUME NEW s \in Sessions
      PROVE  /\ session'[s].user = session[s].user
             /\ session'[s].state = IF lock[s] = r THEN "revoked" ELSE session[s].state
  BY <1>2, <1>3 DEF RevokedSessions, SessionRow
<1>5. ASSUME NEW t \in Tokens
      PROVE  /\ token'[t].session = token[t].session
             /\ token'[t].state = IF lock[t] = r THEN "revoked" ELSE token[t].state
  BY <1>2, <1>3 DEF RevokedTokens, TokenRow
<1>6. ASSUME NEW s \in Sessions, j.op \in TransactionOps, session[s].state # "none", InScope(j, s)
      PROVE  session'[s].state = "revoked"
  <2>1. session[s].state \in {"live", "revoked"}
    BY <1>2, <1>6 DEF SessionRow
  <2>2. session[s].state = "live" => lock[s] = r
    BY <1>1, <1>2, <1>6 DEF EvictionHeld, Target
  <2> QED BY <1>4, <2>1, <2>2
<1>7. ASSUME j.op = "burn" PROVE session'[j.session].state = "revoked"
  <2>1. j.session \in Sessions /\ session[j.session].state # "none"
    BY <1>1, <1>2, <1>7 DEF EvictionHeld
  <2> QED BY <1>6, <1>7, <2>1 DEF InScope, OneSessionOps, TransactionOps
<1>8. ASSUME j.op \in EvictingOps, NEW s \in Sessions, session'[s].user = j.user, s # j.session
      PROVE  /\ session'[s].state = "revoked"
             /\ session[s].state = "live" =>
                  \A t \in Tokens : token'[t].session = s => token'[t].state = "revoked"
  <2>1. j.user \in Users
    BY <1>1, <1>2, <1>8 DEF EvictionHeld
  <2>2. session[s].user = j.user /\ session[s].state # "none"
    BY <1>2, <1>4, <1>8, <2>1 DEF RowsHaveOwners
  <2>3. InScope(j, s) /\ j.op \in TransactionOps
    BY <1>8, <2>2 DEF InScope, OneSessionOps, EvictingOps, TransactionOps
  <2>4. ASSUME NEW t \in Tokens, session[s].state = "live", token'[t].session = s
        PROVE  token'[t].state = "revoked"
    <3>1. token[t].session = s /\ token[t].state # "none"
      BY <1>2, <1>5, <2>4 DEF RowsHaveOwners, SessionOf
    <3>2. token[t].state \in {"live", "revoked"}
      BY <1>2, <3>1 DEF TokenRow
    <3>3. token[t].state = "live" => lock[t] = r
      BY <1>1, <1>2, <1>3, <2>3, <2>4, <3>1 DEF EvictionHeld, Target, SessionOf
    <3> QED BY <1>5, <3>2, <3>3
  <2> QED BY <1>6, <2>2, <2>3, <2>4
<1> QED BY <1>1, <1>7, <1>8

(* When a password change or reset, a disabling or a deletion commits, the *)
(* user has no live session but the exempt one, whatever sign-ins and      *)
(* rotations run beside it; and the answer to a reused token, when it      *)
(* commits, has revoked the session.                                       *)
THEOREM EvictionsMissNothing == Spec => EvictionIsComplete
<1>1. EvictionInv =>
        [\A r \in Requests : pc[r] = "lockTokens" /\ EndTokens(r) =>
           /\ job[r].op = "burn" => session'[job[r].session].state = "revoked"
           /\ job[r].op \in EvictingOps =>
                \A s \in Sessions : session'[s].user = job[r].user /\ s # job[r].session =>
                  /\ session'[s].state = "revoked"
                  /\ session[s].state = "live" =>
                      \A t \in Tokens : token'[t].session = s => token'[t].state = "revoked"
        ]_vars
  BY NothingMissed
<1> QED BY <1>1, EvictionsHold, PTL DEF EvictionIsComplete
===============================================================================
