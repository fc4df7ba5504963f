---------------------------- MODULE AccessControl ----------------------------
(***************************************************************************)
(* Roles, permissions and account status: rbac.service.ts, rbac.seed.ts,   *)
(* rbac.middleware.ts, adminDashboard.service.ts (setUserActive) and the   *)
(* transaction that ends a registration.  A request of the administration  *)
(* authenticates, reads its permissions, reads what it is about, and then  *)
(* writes; nothing is locked in between.  Replacing a set of rows is a     *)
(* DELETE of the rows its snapshot shows, and an INSERT at the commit.     *)
(***************************************************************************)
EXTENDS Naturals, FiniteSets

CONSTANTS Users, Requests, None,
          First,       \* a user who holds the role "admin" at the start
          AskedRoles,  \* the sets of roles administrators ask for
          AskedGrants, \* the sets of permissions administrators ask for
          MaxRequests  \* bound on the requests of a behaviour

ASSUME FirstIsAUser == First \in Users
ASSUME NoneIsNoUser == None \notin Users
ASSUME MaxRequestsIsNatural == MaxRequests \in Nat

(* Reads have no effect and their permissions are left out; editor, guest  *)
(* and manager grant nothing else, as "customer".                          *)
Permissions == {"users:manage", "roles:manage"}
SystemGrants == [admin |-> Permissions, moderator |-> {"users:manage"}, customer |-> {}]
Roles == DOMAIN SystemGrants
DefaultRole == "customer"

ASSUME UsersAreNoRoles == Users \cap Roles = {}
ASSUME AskedAreKnown ==
    AskedRoles \subseteq SUBSET Roles /\ AskedGrants \subseteq SUBSET Permissions

VARIABLES
    user,      \* users.is_active, "absent" before the registration
    session,   \* the users with a session that is not revoked
    signingIn, \* sign-ins and registrations between their first read and their
               \* transaction
    role,      \* roles: absent, custom or system
    grants,    \* role_permissions
    held,      \* user_roles
    seed,      \* the seed script: the role it works on, and its next statement
    pc, job,   \* the requests in flight
    begun,     \* requests so far
    assigned,  \* history: the set last written for a user, of roles that still exist
    granted,   \* history: the set last written for a role
    written,   \* history: whether the rows of a user or a role are the set last
               \* written, half of it, or what two writers left
    overtaken, \* history: users with a sign-in under way when they were disabled
    crossed    \* history: somebody disabled a user after being disabled

tables == <<user, session, role, grants, held>>
history == <<assigned, granted, written, overtaken, crossed>>
vars == <<tables, signingIn, seed, pc, job, begun, history>>

Ops == {"setRoles", "createRole", "setPermissions", "deleteRole", "disable", "enable"}
Steps == {"idle", "authorize", "read", "clear", "insert", "write"}
Asking(op, u, t, r, S) ==
    [op |-> op, by |-> u, target |-> t, role |-> r, asked |-> S,
     doomed |-> {}, lost |-> FALSE, raced |-> FALSE, promoted |-> FALSE]
NoJob == Asking("none", None, None, "admin", {})
NoSeed == [role |-> "none", step |-> "upsert"]
SeedEnded == [role |-> "none", step |-> "done"]

Exists(r) == role[r] # "absent"
Existing == {r \in Roles : Exists(r)}
Known == {u \in Users : user[u] # "absent"}
MayCall(u) == u \in session /\ user[u] = "active"

(* getUserPermissionKeys *)
PermissionsOf(u) == UNION {grants[r] : r \in held[u]}

TypeOK ==
    /\ user \in [Users -> {"absent", "active", "disabled"}]
    /\ session \subseteq Users
    /\ signingIn \in [Users -> {"no", "registering", "checked"}]
    /\ role \in [Roles -> {"absent", "custom", "system"}]
    /\ grants \in [Roles -> SUBSET Permissions]
    /\ held \in [Users -> SUBSET Roles]
    /\ \A r \in Roles : ~Exists(r) => grants[r] = {} /\ \A u \in Users : r \notin held[u]
    /\ seed \in [role : Roles \cup {"none"}, step : {"upsert", "clear", "fill", "done"}]
    /\ pc \in [Requests -> Steps]
    /\ job \in [Requests -> [op : Ops \cup {"none"}, by : Users \cup {None},
                             target : Users \cup {None}, role : Roles,
                             asked : SUBSET (Roles \cup Permissions),
                             doomed : SUBSET (Roles \cup Permissions), lost : BOOLEAN,
                             raced : BOOLEAN, promoted : BOOLEAN]]
    /\ \A p \in Requests : pc[p] = "idle" <=> job[p].by = None
    /\ begun \in 0 .. MaxRequests
    /\ written \in [Users \cup Roles -> {"whole", "half", "mixed"}]

(* The database as the seed of an earlier release left it, with one or     *)
(* more administrators: the system's role "moderator" is new, and          *)
(* administrators may have created one of that name.                       *)
Init ==
    /\ \E A \in SUBSET Users, moderator \in {"absent", "custom"} :
          /\ First \in A
          /\ user = [u \in Users |-> IF u \in A THEN "active" ELSE "absent"]
          /\ session = A
          /\ role = [r \in Roles |-> IF r = "moderator" THEN moderator ELSE "system"]
          /\ held = [u \in Users |-> IF u \in A THEN {"admin"} ELSE {}]
    /\ signingIn = [u \in Users |-> "no"]
    /\ grants = [r \in Roles |-> IF r = "moderator" THEN {} ELSE SystemGrants[r]]
    /\ seed = NoSeed
    /\ pc = [p \in Requests |-> "idle"]
    /\ job = [p \in Requests |-> NoJob]
    /\ begun = 0
    /\ assigned = held
    /\ granted = grants
    /\ written = [x \in Users \cup Roles |-> "whole"]
    /\ overtaken = {}
    /\ crossed = FALSE

-------------------------------------------------------------------------------
(* A request passes requireAuth, and then requirePermission.               *)
RequiredPermission(op) ==
    IF op \in {"setRoles", "disable", "enable"} THEN "users:manage" ELSE "roles:manage"

(* The roles a request names by their ids: one created again has another.  *)
RefersTo(j) ==
    CASE j.op = "setRoles" -> j.asked
      [] j.op \in {"setPermissions", "deleteRole"} -> {j.role}
      [] OTHER -> {}

Arrive(p, u, j) ==
    /\ pc[p] = "idle"
    /\ begun < MaxRequests
    /\ MayCall(u)
    /\ begun' = begun + 1
    /\ pc' = [pc EXCEPT ![p] = "authorize"]
    /\ job' = [job EXCEPT ![p] = j]
    /\ UNCHANGED <<tables, signingIn, seed, history>>

AboutUser(op, u, t, S) == Asking(op, u, t, DefaultRole, S)
AboutRole(op, u, r, S) == Asking(op, u, None, r, S)

(* A request names users and roles that its sender has seen. *)
Request(p, u) ==
    \/ \E t \in Known, S \in AskedRoles :
          S \subseteq Existing /\ Arrive(p, u, AboutUser("setRoles", u, t, S))
    \/ \E r \in Roles \ Existing, S \in AskedGrants :
          Arrive(p, u, AboutRole("createRole", u, r, S))
    \/ \E r \in Existing, S \in AskedGrants :
          Arrive(p, u, AboutRole("setPermissions", u, r, S))
    \/ \E r \in Existing : Arrive(p, u, AboutRole("deleteRole", u, r, {}))
    \/ \E t \in Known, op \in {"disable", "enable"} :
          Arrive(p, u, AboutUser(op, u, t, {}))

At(p, step) == pc[p] = step /\ UNCHANGED <<signingIn, seed, begun>>
Goto(p, step) == pc' = [pc EXCEPT ![p] = step]
Finish(p) == Goto(p, "idle") /\ job' = [job EXCEPT ![p] = NoJob]

(* The handler throws, or its statement fails. *)
Refuse(p) == Finish(p) /\ UNCHANGED <<tables, history>>

requirePermission(p) ==
    /\ At(p, "authorize")
    /\ \/ /\ RequiredPermission(job[p].op) \in PermissionsOf(job[p].by)
          /\ Goto(p, IF job[p].op = "createRole" THEN "write" ELSE "read")
          /\ UNCHANGED <<tables, job, history>>
       \/ RequiredPermission(job[p].op) \notin PermissionsOf(job[p].by) /\ Refuse(p)

(* What a handler reads before it writes, and the step that follows.       *)
FoundSystemToo(j) ==
    /\ ~j.lost
    /\ j.op \in {"disable", "enable"} => j.target # j.by

FoundSelfToo(j) == ~j.lost /\ (j.op = "deleteRole" => role[j.role] = "custom")

Found(j) ==
    /\ ~j.lost
    /\ j.op = "deleteRole" => role[j.role] = "custom"
    /\ j.op \in {"disable", "enable"} => j.target # j.by

Replaces(j) == j.op \in {"setRoles", "setPermissions"}

read(p) ==
    /\ At(p, "read")
    /\ \/ /\ Found(job[p])
          /\ Goto(p, IF Replaces(job[p]) THEN "clear" ELSE "write")
          /\ UNCHANGED <<tables, job, history>>
       \/ ~Found(job[p]) /\ Refuse(p)

-------------------------------------------------------------------------------
(* Replacing the roles of a user or the permissions of a role.  The DELETE *)
(* takes the rows it sees; rows another transaction inserts meanwhile stay.*)
Key(j) == IF j.op = "setRoles" THEN j.target ELSE j.role
Rows(j) == IF j.op = "setRoles" THEN held[j.target] ELSE grants[j.role]

(* The replacements of the same rows, between their two statements.        *)
Beside(p) == {q \in Requests \ {p} :
                 pc[q] = "insert" /\ job[q].op = job[p].op /\ Key(job[q]) = Key(job[p])}

(* A registration has yet to assign the default role, or the seed to fill  *)
(* the role.                                                               *)
HalfWritten(j) ==
    \/ j.op = "setRoles" /\ signingIn[j.target] = "registering"
    \/ j.op = "setPermissions" /\ seed.role = j.role /\ seed.step = "fill"

clear(p) ==
    /\ At(p, "clear")
    /\ Goto(p, "insert")
    /\ job' = [q \in Requests |->
                  IF q = p THEN [job[p] EXCEPT !.doomed = Rows(job[p]),
                                               !.raced = Beside(p) # {} \/ HalfWritten(job[p])]
                  ELSE IF q \in Beside(p) THEN [job[q] EXCEPT !.raced = TRUE]
                  ELSE job[q]]
    /\ UNCHANGED <<tables, history>>

ReplacedKeepingOld(p) == Rows(job[p]) \cup job[p].asked
Replaced(p) == (Rows(job[p]) \ job[p].doomed) \cup job[p].asked

(* The rows this transaction deleted are not there for another to delete.  *)
Released(p) ==
    [q \in Requests |-> IF q = p THEN NoJob
                        ELSE IF q \in Beside(p)
                             THEN [job[q] EXCEPT !.doomed = @ \ job[p].doomed]
                             ELSE job[q]]

(* A role it refers to is gone: the transaction rolls back. *)
RolledBack(j) == j.lost

insert(p) ==
    LET j == job[p]
    IN  /\ At(p, "insert")
        /\ \/ RolledBack(j) /\ Refuse(p)
           \/ /\ ~RolledBack(j)
              /\ Goto(p, "idle")
              /\ job' = Released(p)
              /\ written' = [written EXCEPT ![Key(j)] =
                                IF j.raced \/ HalfWritten(j) THEN "mixed" ELSE "whole"]
              /\ \/ /\ j.op = "setRoles"
                    /\ held' = [held EXCEPT ![j.target] = Replaced(p)]
                    /\ assigned' = [assigned EXCEPT ![j.target] = j.asked]
                    /\ UNCHANGED <<grants, granted>>
                 \/ /\ j.op = "setPermissions"
                    /\ grants' = [grants EXCEPT ![j.role] = Replaced(p)]
                    /\ granted' = [granted EXCEPT ![j.role] = j.asked]
                    /\ UNCHANGED <<held, assigned>>
              /\ UNCHANGED <<user, session, role, overtaken, crossed>>

-------------------------------------------------------------------------------
(* The handlers that write once.                                           *)
createRole(p) ==
    LET r == job[p].role
    IN  /\ At(p, "write")
        /\ job[p].op = "createRole"
        /\ \/ Exists(r) /\ Refuse(p) \* the name is unique
           \/ /\ ~Exists(r)
              /\ Finish(p)
              /\ role' = [role EXCEPT ![r] = "custom"]
              /\ grants' = [grants EXCEPT ![r] = job[p].asked]
              /\ granted' = [granted EXCEPT ![r] = job[p].asked]
              /\ written' = [written EXCEPT ![r] = "whole"]
              /\ UNCHANGED <<user, session, held, assigned, overtaken, crossed>>

(* Deleting a role deletes its rows in the join tables; what still refers  *)
(* to it, as the seed may, fails on a foreign key.                         *)
deleteRole(p) ==
    LET r == job[p].role
    IN  /\ pc[p] = "write"
        /\ job[p].op = "deleteRole"
        /\ UNCHANGED <<signingIn, begun>>
        /\ \/ job[p].lost /\ Refuse(p) /\ UNCHANGED seed
           \/ /\ ~job[p].lost
              /\ seed' = IF seed.role = r /\ seed.step # "upsert" THEN SeedEnded ELSE seed
              /\ Goto(p, "idle")
              /\ job' = [q \in Requests |->
                            IF q = p THEN NoJob
                            ELSE [job[q] EXCEPT !.lost = @ \/ r \in RefersTo(job[q]),
                                                !.doomed = @ \ {r}]]
              /\ role' = [role EXCEPT ![r] = "absent"]
              /\ grants' = [grants EXCEPT ![r] = {}]
              /\ granted' = [granted EXCEPT ![r] = {}]
              /\ held' = [u \in Users |-> held[u] \ {r}]
              /\ assigned' = [u \in Users |-> assigned[u] \ {r}]
              /\ UNCHANGED <<user, session, written, overtaken, crossed>>

(* revokeAllUserSessions *)
NoneRevoked(t) == session
AllRevoked(t) == session \ {t}

(* setUserActive: one transaction; disabling revokes every session.        *)
setUserActive(p) ==
    LET t == job[p].target
    IN  /\ At(p, "write")
        /\ Finish(p)
        /\ \/ /\ job[p].op = "disable"
              /\ user' = [user EXCEPT ![t] = "disabled"]
              /\ session' = AllRevoked(t)
              /\ overtaken' = IF signingIn[t] = "no" THEN overtaken \ {t} ELSE overtaken \cup {t}
              /\ crossed' = (crossed \/ user[job[p].by] = "disabled")
           \/ /\ job[p].op = "enable"
              /\ user' = [user EXCEPT ![t] = "active"]
              /\ UNCHANGED <<session, overtaken, crossed>>
        /\ UNCHANGED <<role, grants, held, assigned, granted, written>>

-------------------------------------------------------------------------------
(* Signing in: the user is read, and found active, before the transaction  *)
(* that issues the session.                                                *)
Login(u) ==
    /\ user[u] = "active"
    /\ signingIn[u] = "no"
    /\ u \notin session
    /\ signingIn' = [signingIn EXCEPT ![u] = "checked"]
    /\ UNCHANGED <<tables, seed, pc, job, begun, history>>

issueAuthenticatedSession(u) ==
    /\ signingIn[u] = "checked"
    /\ signingIn' = [signingIn EXCEPT ![u] = "no"]
    /\ session' = session \cup {u}
    /\ UNCHANGED <<user, role, grants, held, seed, pc, job, begun, history>>

(* Registering: the user is created on its own, and then given the default *)
(* role, if there is one, and a session.                                   *)
register(u) ==
    /\ user[u] = "absent"
    /\ user' = [user EXCEPT ![u] = "active"]
    /\ signingIn' = [signingIn EXCEPT ![u] = "registering"]
    /\ assigned' = [assigned EXCEPT ![u] = {DefaultRole}]
    /\ written' = [written EXCEPT ![u] = "half"]
    /\ UNCHANGED <<session, role, grants, held, seed, pc, job, begun, granted, overtaken, crossed>>

(* The other half of a write is in place. *)
Completed(x, op) ==
    written' = [written EXCEPT ![x] =
                  IF @ = "mixed" \/ \E p \in Requests : pc[p] = "insert" /\ job[p].op = op
                                                           /\ Key(job[p]) = x
                  THEN "mixed" ELSE "whole"]

assignDefaultRole(u) ==
    /\ signingIn[u] = "registering"
    /\ signingIn' = [signingIn EXCEPT ![u] = "no"]
    /\ held' = [held EXCEPT ![u] = @ \cup ({DefaultRole} \cap Existing)]
    /\ session' = session \cup {u}
    /\ Completed(u, "setRoles")
    /\ UNCHANGED <<user, role, grants, seed, pc, job, begun, assigned, granted, overtaken, crossed>>

(* The process dies between the two. *)
RegistrationCut(u) ==
    /\ signingIn[u] = "registering"
    /\ signingIn' = [signingIn EXCEPT ![u] = "no"]
    /\ UNCHANGED <<tables, seed, pc, job, begun, history>>

-------------------------------------------------------------------------------
(* The seed script, once: three statements for each of the system's roles, *)
(* each of its own.                                                        *)
RoleAfter(r) == IF r = "admin" THEN "moderator" ELSE "customer"

Seeds(r, step, next) ==
    /\ seed.role = r
    /\ seed.step = step
    /\ seed' = next
    /\ UNCHANGED <<user, session, signingIn, pc, begun, overtaken, crossed>>

StartSeed ==
    /\ Seeds("none", "upsert", [NoSeed EXCEPT !.role = "admin"])
    /\ UNCHANGED <<role, grants, held, job, assigned, granted, written>>

(* The upsert of a role makes a role of that name the system's.            *)
SeedRole(r) ==
    /\ Seeds(r, "upsert", [NoSeed EXCEPT !.role = r, !.step = "clear"])
    /\ role' = [role EXCEPT ![r] = "system"]
    /\ job' = [p \in Requests |->
                  IF job[p].op = "deleteRole" /\ job[p].role = r /\ pc[p] = "write"
                  THEN [job[p] EXCEPT !.promoted = TRUE] ELSE job[p]]
    /\ UNCHANGED <<grants, held, assigned, granted, written>>

SeedClears(r) ==
    /\ Seeds(r, "clear", [NoSeed EXCEPT !.role = r, !.step = "fill"])
    /\ grants' = [grants EXCEPT ![r] = {}]
    /\ granted' = [granted EXCEPT ![r] = SystemGrants[r]]
    /\ job' = [p \in Requests |-> IF job[p].op = "setPermissions" /\ job[p].role = r
                                  THEN [job[p] EXCEPT !.doomed = {}, !.raced = TRUE] ELSE job[p]]
    /\ written' = [written EXCEPT ![r] = "half"]
    /\ UNCHANGED <<role, held, assigned>>

SeedFills(r) ==
    /\ Seeds(r, "fill", IF r = "customer" THEN SeedEnded ELSE [NoSeed EXCEPT !.role = RoleAfter(r)])
    /\ grants' = [grants EXCEPT ![r] = @ \cup SystemGrants[r]]
    /\ Completed(r, "setPermissions")
    /\ UNCHANGED <<role, held, job, assigned, granted>>

(* The role is gone, or the script is stopped. *)
SeedDies ==
    /\ seed.role # "none"
    /\ seed' = SeedEnded
    /\ UNCHANGED <<tables, signingIn, pc, job, begun, history>>

-------------------------------------------------------------------------------
Handle(p) ==
    \/ requirePermission(p) \/ read(p) \/ clear(p) \/ insert(p)
    \/ createRole(p) \/ deleteRole(p) \/ setUserActive(p)

Sign(u) ==
    \/ Login(u) \/ issueAuthenticatedSession(u)
    \/ register(u) \/ assignDefaultRole(u) \/ RegistrationCut(u)

Seed == StartSeed \/ SeedDies \/ \E r \in Roles : SeedRole(r) \/ SeedClears(r) \/ SeedFills(r)

Next ==
    \/ \E p \in Requests : Handle(p) \/ \E u \in Users : Request(p, u)
    \/ \E u \in Users : Sign(u)
    \/ Seed

Spec == Init /\ [][Next]_vars

-------------------------------------------------------------------------------
(* Replacing the roles of a user, or the permissions of a role, leaves     *)
(* exactly the set asked for, whatever other requests, deletions of roles  *)
(* and registrations do meanwhile, unless two writers of the same rows     *)
(* overlapped or one was cut short: two replacements at once leave the     *)
(* union, and a seed that dies leaves a role without its permissions.      *)
ReplacementsAreWholeUnlessRaced ==
    /\ \A u \in Users : written[u] = "whole" => held[u] = assigned[u]
    /\ \A r \in Roles : written[r] = "whole" => grants[r] = granted[r]

(* deleteRole: a role of the system is never deleted, unless the seed made *)
(* it one after the deletion had read it.                                  *)
SystemRolesStayUnlessSeeded ==
    [][\A r \in Roles : role[r] = "system" /\ role'[r] = "absent"
          => \E p \in Requests : job[p].role = r /\ job[p].promoted]_vars

(* setUserActive refuses the caller's own account: somebody is active at   *)
(* any time, unless a user who had just been disabled disabled another.    *)
SomebodyIsActiveUnlessCrossed == crossed \/ \E u \in Users : user[u] = "active"

(* A disabled user has no session that enabling would bring back, unless a *)
(* sign-in had read the user before: its session is issued all the same.   *)
(* Rows are well typed.                                                    *)
DisablingEndsSessionsUnlessOvertaken ==
    TypeOK /\ \A u \in session \ overtaken : user[u] # "disabled"

==============================================================================
