---------------------------- MODULE SessionRotation ----------------------------
(***************************************************************************)
(* Sessions and refresh tokens: auth.service.ts (sign-in, refresh, logout),*)
(* sessions.service.ts (revocation) and the operations that evict a user's *)
(* sessions (password change and reset, disabling, account deletion).      *)
(*                                                                         *)
(* Each request is a process that advances one SQL statement at a time.    *)
(* The database is PostgreSQL at READ COMMITTED: an UPDATE locks the rows  *)
(* it changes until its transaction ends, waits for a row another request  *)
(* has locked and then looks at the row again; reads see committed rows    *)
(* only.  The tables below hold committed values; what a transaction wrote *)
(* but did not commit is determined by the rows it has locked.             *)
(***************************************************************************)
EXTENDS Naturals, FiniteSets

CONSTANTS Users, Sessions, Tokens,   \* the rows the tables can hold
          Requests,                  \* the requests in flight at one time
          None,
          TTL,                       \* REFRESH_TOKEN_TTL_DAYS, in ticks
          MaxNow,                    \* bound on the clock
          Crashes                    \* may a server die between statements

ASSUME RowsAreDistinct ==
    /\ Users \cap Sessions = {}
    /\ Users \cap Tokens = {}
    /\ Sessions \cap Tokens = {}
    /\ None \notin Users \cup Sessions \cup Tokens \cup Requests

ASSUME ClockIsNatural == TTL \in Nat /\ MaxNow \in Nat /\ Crashes \in BOOLEAN

VARIABLES
    now,       \* the clock
    status,    \* users: is_active and deleted_at
    session,   \* sessions
    token,     \* refresh_tokens
    lock,      \* the request whose transaction has locked a row
    pc,        \* the statement a request executes next
    job        \* the local variables of a request's handler

vars == <<now, status, session, token, lock, pc, job>>

Rows == Users \cup Sessions \cup Tokens

SessionRow == [state : {"none", "live", "revoked"},
               user : Users \cup {None}, expires : Nat]
TokenRow == [state : {"none", "live", "revoked"},
             session : Sessions \cup {None}, expires : Nat,
             replacedBy : Tokens \cup {None}]

NoSession == [state |-> "none", user |-> None, expires |-> 0]
NoToken == [state |-> "none", session |-> None, expires |-> 0,
            replacedBy |-> None]

(* Operations that revoke one session, and those that revoke all of a      *)
(* user's but possibly one; those that do so inside a transaction, and the *)
(* ones among these that update the user's row first.                      *)
EvictingOps == {"changePassword", "resetPassword", "disable", "delete"}
OneSessionOps == {"burn", "logout"}
TransactionOps == EvictingOps \cup {"burn"}
Ops == EvictingOps \cup OneSessionOps \cup {"others", "login", "rotate", "none"}

Steps == {"idle", "issue", "claim", "touch", "lockUser", "findSessions",
          "lockSessions", "findTokens", "lockTokens"}

Job == [op : Ops, user : Users \cup {None}, session : Sessions \cup {None},
        token : Tokens \cup {None}, todo : SUBSET (Sessions \cup Tokens),
        expires : Nat]
NoJob == [op |-> "none", user |-> None, session |-> None, token |-> None,
          todo |-> {}, expires |-> 0]

TypeOK ==
    /\ now \in Nat
    /\ status \in [Users -> {"active", "disabled", "deleted"}]
    /\ session \in [Sessions -> SessionRow]
    /\ token \in [Tokens -> TokenRow]
    /\ lock \in [Rows -> Requests \cup {None}]
    /\ pc \in [Requests -> Steps]
    /\ job \in [Requests -> Job]

Init ==
    /\ now = 0
    /\ status = [u \in Users |-> "active"]
    /\ session = [s \in Sessions |-> NoSession]
    /\ token = [t \in Tokens |-> NoToken]
    /\ lock = [x \in Rows |-> None]
    /\ pc = [r \in Requests |-> "idle"]
    /\ job = [r \in Requests |-> NoJob]

-------------------------------------------------------------------------------
(* Rows and locks. *)

Free(x) == lock[x] = None

Unlock(r) == [x \in Rows |-> IF lock[x] = r THEN None ELSE lock[x]]

SessionOf(t) == token[t].session

(* The middleware's check of an access token for session s. *)
assertSessionActive(s) ==
    /\ session[s].state = "live"
    /\ session[s].expires >= now
    /\ status[session[s].user] = "active"

refreshExpiry == now + TTL

(* Bounds: the tables have room for what the requests under way, and one   *)
(* more, will insert.                                                      *)
SessionsLeft ==
    Cardinality({r \in Requests : pc[r] = "issue"})
        < Cardinality({s \in Sessions : session[s].state = "none"})
TokensLeft ==
    Cardinality({r \in Requests : pc[r] \in {"issue", "claim", "touch"}})
        < Cardinality({t \in Tokens : token[t].state = "none"})

Start(r, step, j) ==
    /\ pc[r] = "idle"
    /\ pc' = [pc EXCEPT ![r] = step]
    /\ job' = [job EXCEPT ![r] = j]
    /\ UNCHANGED <<now, status, session, token, lock>>

Goto(r, step) == pc' = [pc EXCEPT ![r] = step] /\ UNCHANGED job

(* The handler returns or throws; its transaction, if any, has ended. *)
Finish(r) ==
    /\ pc' = [pc EXCEPT ![r] = "idle"]
    /\ job' = [job EXCEPT ![r] = NoJob]
    /\ lock' = Unlock(r)

-------------------------------------------------------------------------------
(* Signing in. *)

(* login: the user's row is read once, with no lock.  The password check   *)
(* and whatever else the login waits for come between this read and        *)
(* IssueSession, which does not read the row again.                        *)
Login(r, u) ==
    /\ SessionsLeft /\ TokensLeft
    /\ status[u] = "active"
    /\ Start(r, "issue", [NoJob EXCEPT !.op = "login", !.user = u])

(* Mutant: last_login_at is not updated, so no lock is waited for. *)
IssueSessionUnlocked(r, s, t) ==
    /\ pc[r] = "issue"
    /\ session[s].state = "none"
    /\ token[t].state = "none"
    /\ session' = [session EXCEPT ![s] =
            [state |-> "live", user |-> job[r].user, expires |-> refreshExpiry]]
    /\ token' = [token EXCEPT ![t] =
            [state |-> "live", session |-> s, expires |-> refreshExpiry,
             replacedBy |-> None]]
    /\ Finish(r)
    /\ UNCHANGED <<now, status>>

(* issueAuthenticatedSession: the transaction begins with the update of    *)
(* last_login_at, so it waits for the lock on the user's row.              *)
IssueSession(r, s, t) ==
    /\ pc[r] = "issue"
    /\ Free(job[r].user)
    /\ session[s].state = "none"
    /\ token[t].state = "none"
    /\ session' = [session EXCEPT ![s] =
            [state |-> "live", user |-> job[r].user, expires |-> refreshExpiry]]
    /\ token' = [token EXCEPT ![t] =
            [state |-> "live", session |-> s, expires |-> refreshExpiry,
             replacedBy |-> None]]
    /\ Finish(r)
    /\ UNCHANGED <<now, status>>

-------------------------------------------------------------------------------
(* Refreshing.  A request may present any token ever issued: the current   *)
(* one, one whose answer was lost, or one presented already.               *)

(* A token already rotated or revoked: the session is burned. *)
RefreshFindsReuse(r, t) ==
    /\ token[t].state = "revoked"
    /\ Start(r, "findSessions",
             [NoJob EXCEPT !.op = "burn", !.session = SessionOf(t), !.token = t])

RefreshFindsLive(r, t) ==
    /\ TokensLeft
    /\ token[t].state = "live"
    /\ token[t].expires >= now
    /\ session[SessionOf(t)].state = "live"
    /\ status[session[SessionOf(t)].user] = "active"
    /\ Start(r, "claim", [NoJob EXCEPT !.op = "rotate", !.token = t,
                                       !.session = SessionOf(t)])

(* Mutant: the claim updates the row by its id, revoked or not. *)
ClaimRotationUnguarded(r) ==
    /\ pc[r] = "claim"
    /\ Free(job[r].token)
    /\ lock' = [lock EXCEPT ![job[r].token] = r]
    /\ pc' = [pc EXCEPT ![r] = "touch"]
    /\ job' = [job EXCEPT ![r].expires = refreshExpiry]
    /\ UNCHANGED <<now, status, session, token>>

(* updateMany where revoked_at is null: one row changed. *)
ClaimRotation(r) ==
    /\ pc[r] = "claim"
    /\ Free(job[r].token)
    /\ token[job[r].token].state = "live"
    /\ lock' = [lock EXCEPT ![job[r].token] = r]
    /\ pc' = [pc EXCEPT ![r] = "touch"]
    /\ job' = [job EXCEPT ![r].expires = refreshExpiry]
    /\ UNCHANGED <<now, status, session, token>>

(* Mutant: the loser tries the claim again instead of burning the session. *)
LoseRotationRetried(r) ==
    /\ pc[r] = "claim"
    /\ Free(job[r].token)
    /\ token[job[r].token].state = "revoked"
    /\ UNCHANGED vars

(* No row changed: a concurrent request rotated or revoked the token. *)
LoseRotation(r) ==
    /\ pc[r] = "claim"
    /\ Free(job[r].token)
    /\ token[job[r].token].state = "revoked"
    /\ pc' = [pc EXCEPT ![r] = "findSessions"]
    /\ job' = [job EXCEPT ![r].op = "burn"]
    /\ UNCHANGED <<now, status, session, token, lock>>

(* Mutants: the session's window does not slide; the touch renews a        *)
(* revoked session.                                                        *)
TouchedLastUsedOnly(row, expires) == row
TouchedAndRenewed(row, expires) == [row EXCEPT !.expires = expires, !.state = "live"]

(* touchSession's new row. *)
Touched(row, expires) == [row EXCEPT !.expires = expires]

(* touchSession needs the lock on the session's row; then the transaction  *)
(* commits: t is revoked and points at its successor u, u is live, and the *)
(* session's window slides.                                                *)
CommitRotation(r, u) ==
    LET t == job[r].token
        s == job[r].session
    IN  /\ pc[r] = "touch"
        /\ Free(s)
        /\ token[u].state = "none"
        /\ token' = [token EXCEPT
                ![t] = [@ EXCEPT !.state = "revoked", !.replacedBy = u],
                ![u] = [state |-> "live", session |-> s,
                        expires |-> job[r].expires, replacedBy |-> None]]
        /\ session' = [session EXCEPT ![s] = Touched(@, job[r].expires)]
        /\ Finish(r)
        /\ UNCHANGED <<now, status>>

-------------------------------------------------------------------------------
(* Revoking.  revokeSession and revokeAllUserSessions are two statements,  *)
(* on sessions and then on refresh_tokens.  Each takes its snapshot of the *)
(* rows that match and locks them one after the other.                     *)

(* logout looks the token up whatever its state; revokeUserSession is      *)
(* given the session by its owner, who is signed in with session c.        *)
Logout(r, t) ==
    /\ token[t].state # "none"
    /\ Start(r, "findSessions",
             [NoJob EXCEPT !.op = "logout", !.session = SessionOf(t)])

RevokeUserSession(r, c, s) ==
    /\ assertSessionActive(c)
    /\ session[s].state # "none" /\ session[s].user = session[c].user
    /\ Start(r, "findSessions", [NoJob EXCEPT !.op = "logout", !.session = s])

(* The caller's own session c is exempt.  No transaction, no user lock. *)
RevokeOtherSessions(r, c) ==
    /\ assertSessionActive(c)
    /\ Start(r, "findSessions", [NoJob EXCEPT !.op = "others",
                                 !.user = session[c].user, !.session = c])

ChangePassword(r, c) ==
    /\ assertSessionActive(c)
    /\ Start(r, "lockUser", [NoJob EXCEPT !.op = "changePassword",
                             !.user = session[c].user, !.session = c])

(* The other three exempt no session.  A reset link works whatever the     *)
(* account's status; an administrator disables an account not deleted; the *)
(* owner deletes the account while signed in.                              *)
EvictAll(r, u, op) ==
    /\ \/ op = "resetPassword"
       \/ op = "disable" /\ status[u] # "deleted"
       \/ op = "delete" /\ \E c \in Sessions :
                               session[c].user = u /\ assertSessionActive(c)
    /\ Start(r, "lockUser", [NoJob EXCEPT !.op = op, !.user = u])

(* The first statement of an evicting transaction updates the user's row. *)
LockUser(r) ==
    /\ pc[r] = "lockUser"
    /\ Free(job[r].user)
    /\ lock' = [lock EXCEPT ![job[r].user] = r]
    /\ Goto(r, "findSessions")
    /\ UNCHANGED <<now, status, session, token>>

(* The sessions a revocation is about. *)
InScope(j, s) ==
    IF j.op \in OneSessionOps
    THEN s = j.session
    ELSE session[s].user = j.user /\ s # j.session

FindSessions(r) ==
    /\ pc[r] = "findSessions"
    /\ pc' = [pc EXCEPT ![r] = "lockSessions"]
    /\ job' = [job EXCEPT ![r].todo =
            {s \in Sessions : session[s].state = "live" /\ InScope(job[r], s)}]
    /\ UNCHANGED <<now, status, session, token, lock>>

FindTokens(r) ==
    /\ pc[r] = "findTokens"
    /\ pc' = [pc EXCEPT ![r] = "lockTokens"]
    /\ job' = [job EXCEPT ![r].todo =
            {t \in Tokens : token[t].state = "live"
                            /\ InScope(job[r], SessionOf(t))}]
    /\ UNCHANGED <<now, status, session, token, lock>>

(* The statement reaches row x.  Once x is free the row is looked at       *)
(* again, and one revoked meanwhile is passed over.                        *)
LockRow(r, x) ==
    /\ pc[r] \in {"lockSessions", "lockTokens"}
    /\ x \in job[r].todo
    /\ Free(x)
    /\ \/ /\ IF x \in Sessions THEN session[x].state = "live"
                               ELSE token[x].state = "live"
          /\ lock' = [lock EXCEPT ![x] = r]
       \/ /\ IF x \in Sessions THEN session[x].state # "live"
                               ELSE token[x].state # "live"
          /\ UNCHANGED lock
    /\ job' = [job EXCEPT ![r].todo = @ \ {x}]
    /\ UNCHANGED <<now, status, session, token, pc>>

(* Every row the request has locked becomes revoked. *)
RevokedSessions(r) ==
    [s \in Sessions |-> IF lock[s] = r THEN [session[s] EXCEPT !.state = "revoked"]
                                       ELSE session[s]]
RevokedTokens(r) ==
    [t \in Tokens |-> IF lock[t] = r THEN [token[t] EXCEPT !.state = "revoked"]
                                     ELSE token[t]]

(* The end of the first statement, which commits at once when there is no  *)
(* transaction around it.                                                  *)
EndSessions(r) ==
    /\ pc[r] = "lockSessions"
    /\ job[r].todo = {}
    /\ \/ /\ job[r].op \in TransactionOps
          /\ UNCHANGED <<session, lock>>
       \/ /\ job[r].op \notin TransactionOps
          /\ session' = RevokedSessions(r)
          /\ lock' = Unlock(r)
    /\ Goto(r, "findTokens")
    /\ UNCHANGED <<now, status, token>>

StatusAfter(j) ==
    CASE j.op = "disable" /\ status[j.user] # "deleted" ->
            [status EXCEPT ![j.user] = "disabled"]
      [] j.op = "delete" -> [status EXCEPT ![j.user] = "deleted"]
      [] OTHER -> status

(* The end of the second statement is the end of the handler. *)
EndTokens(r) ==
    /\ pc[r] = "lockTokens"
    /\ job[r].todo = {}
    /\ session' = RevokedSessions(r)
    /\ token' = RevokedTokens(r)
    /\ status' = StatusAfter(job[r])
    /\ Finish(r)
    /\ UNCHANGED now

(* setUserActive(true): one row, no session comes back. *)
Enable(u) ==
    /\ status[u] = "disabled"
    /\ Free(u)
    /\ status' = [status EXCEPT ![u] = "active"]
    /\ UNCHANGED <<now, session, token, lock, pc, job>>

-------------------------------------------------------------------------------
(* What the environment does. *)

(* Request r can be waiting for row x. *)
WaitsAt(r, x) ==
    \/ pc[r] = "claim" /\ x = job[r].token
    \/ pc[r] = "touch" /\ x = job[r].session
    \/ pc[r] \in {"issue", "lockUser"} /\ x = job[r].user
    \/ pc[r] \in {"lockSessions", "lockTokens"} /\ x \in job[r].todo

WaitsFor(r, q) == q # r /\ \E x \in Rows : WaitsAt(r, x) /\ lock[x] = q

InCycle(r) ==
    \E S \in SUBSET Requests :
        /\ r \in S
        /\ \A q \in S : /\ \E p \in S : WaitsFor(q, p)
                        /\ \E p \in S : WaitsFor(p, q)

(* PostgreSQL aborts one of the transactions that wait for each other; the *)
(* handler answers 500.                                                    *)
AbortDeadlock(r) ==
    /\ InCycle(r)
    /\ Finish(r)
    /\ UNCHANGED <<now, status, session, token>>

(* The process dies, or loses its connection: the open transaction, or the *)
(* open statement, is rolled back.                                         *)
Crash(r) ==
    /\ Crashes
    /\ pc[r] # "idle"
    /\ Finish(r)
    /\ UNCHANGED <<now, status, session, token>>

Tick ==
    /\ now < MaxNow
    /\ now' = now + 1
    /\ UNCHANGED <<status, session, token, lock, pc, job>>

-------------------------------------------------------------------------------
(* The statements of a request already started. *)
Continue(r) ==
    \/ \E s \in Sessions, t \in Tokens : IssueSession(r, s, t)
    \/ ClaimRotation(r)
    \/ LoseRotation(r)
    \/ \E u \in Tokens : CommitRotation(r, u)
    \/ LockUser(r)
    \/ FindSessions(r)
    \/ FindTokens(r)
    \/ \E x \in Sessions \cup Tokens : LockRow(r, x)
    \/ EndSessions(r)
    \/ EndTokens(r)

Arrive(r) ==
    \/ \E u \in Users : Login(r, u)
    \/ \E t \in Tokens : RefreshFindsReuse(r, t)
    \/ \E t \in Tokens : RefreshFindsLive(r, t)
    \/ \E t \in Tokens : Logout(r, t)
    \/ \E c, s \in Sessions : RevokeUserSession(r, c, s)
    \/ \E c \in Sessions : RevokeOtherSessions(r, c)
    \/ \E c \in Sessions : ChangePassword(r, c)
    \/ \E u \in Users : \E op \in {"resetPassword", "disable", "delete"} :
            EvictAll(r, u, op)

Next ==
    \/ \E r \in Requests : Arrive(r) \/ Continue(r) \/ AbortDeadlock(r) \/ Crash(r)
    \/ \E u \in Users : Enable(u)
    \/ Tick

Spec == Init /\ [][Next]_vars

(* Node runs every callback in turn, PostgreSQL queues the waiters of a    *)
(* row's lock in order of arrival, and its deadlock detector always runs.  *)
Fairness == \A r \in Requests : SF_vars(Continue(r)) /\ WF_vars(AbortDeadlock(r))

FairSpec == Spec /\ Fairness

-------------------------------------------------------------------------------
(* Properties. *)

Siblings(t, u) == token[t].session = token[u].session

(* However many requests present the same token at once, and whatever      *)
(* revocation runs meanwhile, a session has at most one token that is not  *)
(* revoked: refresh claims the old token before it issues the next.        *)
OneLiveToken ==
    \A t, u \in Tokens :
        token[t].state = "live" /\ token[u].state = "live" /\ Siblings(t, u)
            => t = u

(* The token a client holds lives exactly as long as the session the       *)
(* middleware checks, through every rotation.                              *)
ExpiriesAgree ==
    \A t \in Tokens :
        token[t].state = "live" => token[t].expires = session[SessionOf(t)].expires

(* What the two invariants rest on: a token's session exists, only tokens  *)
(* that exist are locked, a rotation under way is about a token of the     *)
(* session it will touch, and from its claim to its commit it holds the    *)
(* lock on that token, which stays live.                                   *)
TokensHaveSessions ==
    \A t \in Tokens : token[t].state # "none" =>
        SessionOf(t) \in Sessions /\ session[SessionOf(t)].state # "none"

LockedTokensExist ==
    \A t \in Tokens : lock[t] # None => token[t].state # "none"

ClaimHeld(r) ==
    /\ pc[r] \in {"claim", "touch"} =>
            /\ job[r].token \in Tokens
            /\ token[job[r].token].state # "none"
            /\ job[r].session = SessionOf(job[r].token)
    /\ pc[r] = "touch" =>
            lock[job[r].token] = r /\ token[job[r].token].state = "live"

RotationInv ==
    /\ TypeOK
    /\ TokensHaveSessions
    /\ LockedTokensExist
    /\ \A r \in Requests : ClaimHeld(r)
    /\ OneLiveToken
    /\ ExpiriesAgree

(* Nothing un-revokes a session or a token: not the touch of a rotation    *)
(* that read the session before it was revoked, nor enabling the account.  *)
RevocationIsFinal ==
    [][/\ \A s \in Sessions : session[s].state = "revoked" => session'[s].state = "revoked"
       /\ \A t \in Tokens : token[t].state = "revoked" => token'[t].state = "revoked"]_vars

(* When a password change or reset, a disabling or a deletion commits, the *)
(* user has no live session but the exempt one, and each session it        *)
(* revoked has no live token, even though logins and rotations run beside  *)
(* it: a login waits for the lock on the user's row, a rotation for the    *)
(* one on the session's.  (A session that a logout revoked before, with no *)
(* transaction, may keep a token that renews nothing.)  And architecture.md*)
(* says "presenting an already-rotated token (reuse) revokes the whole     *)
(* session": it does when the transaction of that answer commits, which an *)
(* abort or a crash can prevent.                                           *)
EvictionIsComplete ==
    [][\A r \in Requests : pc[r] = "lockTokens" /\ EndTokens(r) =>
         /\ job[r].op = "burn" => session'[job[r].session].state = "revoked"
         /\ job[r].op \in EvictingOps =>
              \A s \in Sessions : session'[s].user = job[r].user /\ s # job[r].session =>
                /\ session'[s].state = "revoked"
                /\ session[s].state = "live" =>
                    \A t \in Tokens : token'[t].session = s => token'[t].state = "revoked"
      ]_vars

(* No request waits for ever: rotations lock a token before its session,   *)
(* revocations the other way round, and the cycle this can close is broken *)
(* by the abort of one of them.                                            *)
RequestsEnd == \A r \in Requests : pc[r] # "idle" ~> pc[r] = "idle"

(* The refinement: a session renews while it is live and has a live token. *)
CurrentTokens(s) == {t \in Tokens : token[t].state = "live" /\ token[t].session = s}

Phase(s) ==
    CASE session[s].state = "none" -> "unopened"
      [] session[s].state = "live" /\ CurrentTokens(s) # {} -> "open"
      [] OTHER -> "closed"

Holder(s) == IF Phase(s) = "open" THEN CHOOSE t \in CurrentTokens(s) : TRUE ELSE None

Chain == INSTANCE RefreshChain WITH
            phase <- [s \in Sessions |-> Phase(s)],
            holder <- [s \in Sessions |-> Holder(s)],
            used <- {t \in Tokens : token[t].state # "none"}

(* Seen from the clients, the tables and their transactions are a refresh  *)
(* chain: one holder at a time, no token renews twice, closed is closed.   *)
ImplementsRefreshChain == Chain!ChainSpec
===============================================================================
