-------------------------- MODULE AccessControl_proofs --------------------------
(***************************************************************************)
(* Roles, permissions and account status, for any number of users, of      *)
(* requests at a time and of requests in all.                              *)
(***************************************************************************)
EXTENDS AccessControl, TLAPS

Job == [op : Ops \cup {"none"}, by : Users \cup {None}, target : Users \cup {None},
        role : Roles, asked : SUBSET (Roles \cup Permissions),
        doomed : SUBSET (Roles \cup Permissions), lost : BOOLEAN, raced : BOOLEAN,
        promoted : BOOLEAN]

(* What a request knows of the rows it names, until it is lost.            *)
Refers(j) ==
    /\ j.by \in Known
    /\ j.op \in Ops
    /\ j.op \in {"setRoles", "disable", "enable"} => j.target \in Known
    /\ j.op = "setRoles" => /\ j.asked \subseteq Roles
                            /\ ~j.lost => j.asked \subseteq Existing
    /\ j.op \in {"setPermissions", "createRole"} => j.asked \subseteq Permissions
    /\ j.op \in {"setPermissions", "deleteRole"} /\ ~j.lost => Exists(j.role)

(* What the handler has found before it writes.                            *)
Checked(step, j) ==
    /\ step \in {"clear", "insert"} => Replaces(j)
    /\ step = "write" /\ j.op \in {"disable", "enable"} => j.target # j.by
    /\ step = "write" /\ j.op = "deleteRole" =>
          /\ j.role # DefaultRole
          /\ ~j.lost => role[j.role] = "custom" \/ j.promoted

RequestsTyped ==
    /\ pc \in [Requests -> Steps] /\ job \in [Requests -> Job]
    /\ \A p \in Requests : pc[p] = "idle" => job[p] = NoJob
    /\ \A p \in Requests : pc[p] # "idle" => Refers(job[p]) /\ Checked(pc[p], job[p])

RowsRefer ==
    /\ \A r \in Roles \ Existing : grants[r] = {} /\ \A u \in Users : r \notin held[u]
    /\ \A u \in Users \ Known : held[u] = {} /\ signingIn[u] = "no"
    /\ role[DefaultRole] = "system"
    /\ seed.role # "none" /\ seed.step # "upsert" => seed.role \in Existing

TablesTyped ==
    /\ user \in [Users -> {"absent", "active", "disabled"}]
    /\ session \subseteq Users
    /\ signingIn \in [Users -> {"no", "registering", "checked"}]
    /\ role \in [Roles -> {"absent", "custom", "system"}]
    /\ grants \in [Roles -> SUBSET Permissions]
    /\ held \in [Users -> SUBSET Roles]
    /\ seed \in [role : Roles \cup {"none"}, step : {"upsert", "clear", "fill", "done"}]
    /\ begun \in 0 .. MaxRequests
    /\ assigned \in [Users -> SUBSET Roles]
    /\ granted \in [Roles -> SUBSET Permissions]
    /\ written \in [Users \cup Roles -> {"whole", "half", "mixed"}]
    /\ overtaken \subseteq Users
    /\ crossed \in BOOLEAN

Typed == TablesTyped /\ RowsRefer /\ RequestsTyped


(* The roles, and what the system's grant. *)
LEMMA TheRoles ==
    /\ Roles = {"admin", "moderator", "customer"} /\ DefaultRole \in Roles
    /\ SystemGrants \in [Roles -> SUBSET Permissions]
    /\ "none" \notin Roles
<1>1. Roles = {"admin", "moderator", "customer"}
  BY DEF Roles, SystemGrants
<1> QED BY <1>1 DEF DefaultRole, SystemGrants, Permissions

-------------------------------------------------------------------------------
(* The database as an earlier release left it is typed. *)
LEMMA InitTyped == Init => Typed
<1> SUFFICES ASSUME Init PROVE Typed
  OBVIOUS
<1> USE NoneIsNoUser, MaxRequestsIsNatural, TheRoles
<1>0. PICK A \in SUBSET Users, moderator \in {"absent", "custom"} :
          /\ First \in A
          /\ user = [u \in Users |-> IF u \in A THEN "active" ELSE "absent"]
          /\ session = A
          /\ role = [r \in Roles |-> IF r = "moderator" THEN moderator ELSE "system"]
          /\ held = [u \in Users |-> IF u \in A THEN {"admin"} ELSE {}]
  BY DEF Init
<1>a. grants \in [Roles -> SUBSET Permissions]
  BY DEF Init
<1>b. held \in [Users -> SUBSET Roles]
  BY <1>0
<1>c. role \in [Roles -> {"absent", "custom", "system"}] /\ session \subseteq Users
      /\ user \in [Users -> {"absent", "active", "disabled"}]
  BY <1>0
<1>d. /\ signingIn \in [Users -> {"no", "registering", "checked"}]
      /\ seed \in [role : Roles \cup {"none"}, step : {"upsert", "clear", "fill", "done"}]
      /\ written \in [Users \cup Roles -> {"whole", "half", "mixed"}]
  BY DEF Init, NoSeed
<1>g. begun \in 0 .. MaxRequests
  BY DEF Init
<1>e. overtaken \subseteq Users /\ crossed \in BOOLEAN
  BY DEF Init
<1>f. assigned = held /\ granted = grants
  BY DEF Init
<1>1. TablesTyped
  BY <1>a, <1>b, <1>c, <1>d, <1>e, <1>f, <1>g DEF TablesTyped
<1>2. RowsRefer
  BY <1>0 DEF Init, RowsRefer, Existing, Exists, Known, NoSeed, DefaultRole
<1>3. RequestsTyped
  BY DEF Init, RequestsTyped, NoJob, Asking, Job, Steps
<1> QED BY <1>1, <1>2, <1>3 DEF Typed

(* A request that arrives refers to rows that are there. *)
LEMMA Arrives ==
    ASSUME Typed, NEW p \in Requests, NEW u \in Users, Request(p, u)
    PROVE  \E j \in Job : /\ pc[p] = "idle"
                          /\ pc' = [pc EXCEPT ![p] = "authorize"]
                          /\ job' = [job EXCEPT ![p] = j]
                          /\ Refers(j)
                          /\ begun' \in 0 .. MaxRequests
                          /\ UNCHANGED <<tables, signingIn, seed, history>>
<1> USE TheRoles DEF Asking, Job, Ops, Refers, Known, Existing, Exists
<1>1. ASSUME NEW j \in Job, Arrive(p, u, j)
      PROVE  /\ pc[p] = "idle"
             /\ pc' = [pc EXCEPT ![p] = "authorize"]
             /\ job' = [job EXCEPT ![p] = j]
             /\ u \in Known
             /\ begun' \in 0 .. MaxRequests
             /\ UNCHANGED <<tables, signingIn, seed, history>>
  BY <1>1, MaxRequestsIsNatural DEF Arrive, MayCall, Typed, TablesTyped
<1>2. \A op \in Ops, t \in Users, S \in SUBSET (Roles \cup Permissions) :
         AboutUser(op, u, t, S) \in Job
  BY DEF AboutUser
<1>3. \A op \in Ops, r \in Roles, S \in SUBSET (Roles \cup Permissions) :
         AboutRole(op, u, r, S) \in Job
  BY DEF AboutRole
<1>4. ASSUME NEW t \in Known, NEW S \in AskedRoles, S \subseteq Existing,
             Arrive(p, u, AboutUser("setRoles", u, t, S))
      PROVE  AboutUser("setRoles", u, t, S) \in Job /\ Refers(AboutUser("setRoles", u, t, S))
  <2>1. AboutUser("setRoles", u, t, S) \in Job
    BY <1>2, AskedAreKnown
  <2> QED BY <1>1, <1>4, <2>1, AskedAreKnown DEF AboutUser
<1>5. ASSUME NEW op \in {"createRole", "setPermissions"}, NEW r \in Roles,
             op = "createRole" \/ r \in Existing,
             NEW S \in AskedGrants, Arrive(p, u, AboutRole(op, u, r, S))
      PROVE  AboutRole(op, u, r, S) \in Job /\ Refers(AboutRole(op, u, r, S))
  <2>1. AboutRole(op, u, r, S) \in Job
    BY <1>3, AskedAreKnown
  <2> QED BY <1>1, <1>5, <2>1, AskedAreKnown DEF AboutRole
<1>6. ASSUME NEW r \in Existing, Arrive(p, u, AboutRole("deleteRole", u, r, {}))
      PROVE  AboutRole("deleteRole", u, r, {}) \in Job /\ Refers(AboutRole("deleteRole", u, r, {}))
  <2>1. AboutRole("deleteRole", u, r, {}) \in Job
    BY <1>3
  <2> QED BY <1>1, <1>6, <2>1 DEF AboutRole
<1>7. ASSUME NEW t \in Known, NEW op \in {"disable", "enable"},
             Arrive(p, u, AboutUser(op, u, t, {}))
      PROVE  AboutUser(op, u, t, {}) \in Job /\ Refers(AboutUser(op, u, t, {}))
  <2>1. AboutUser(op, u, t, {}) \in Job
    BY <1>2
  <2> QED BY <1>1, <1>7, <2>1 DEF AboutUser
<1>8. \E j \in Job : Arrive(p, u, j) /\ Refers(j)
  <2> HIDE DEF Refers, Job, Asking
  <2> QED BY <1>4, <1>5, <1>6, <1>7 DEF Request
<1> QED
  <2> HIDE DEF Refers, Job, Asking
  <2> QED BY <1>1, <1>8

-------------------------------------------------------------------------------
(* Types. *)

(* No user and no role is lost. *)
RowsStay == Known \subseteq Known' /\ Existing \subseteq Existing'

(* A role stays custom, at least until the request q has deleted it.        *)
StaysCustom(q) ==
    \/ role[job[q].role] = "custom" => role'[job[q].role] = "custom"
    \/ pc[q] = "write" /\ job[q].op = "deleteRole" => job'[q].promoted

SameRequest(j, k) ==
    /\ j.op = k.op /\ j.by = k.by /\ j.target = k.target /\ j.role = k.role
    /\ j.asked = k.asked /\ j.lost = k.lost /\ (k.promoted => j.promoted)

(* The seed writes into the jobs about a role what other requests may.     *)
LEMMA SeedMarks ==
    ASSUME Typed, NEW r \in Roles, SeedRole(r) \/ SeedClears(r), NEW q \in Requests
    PROVE  /\ job'[q] \in Job /\ SameRequest(job'[q], job[q])
           /\ pc[q] = "idle" => job'[q] = job[q]
           /\ SeedRole(r) /\ job[q].op = "deleteRole" /\ job[q].role = r /\ pc[q] = "write"
                 => job'[q].promoted
           /\ SeedRole(r) => job'[q].raced = job[q].raced /\ job'[q].doomed = job[q].doomed
           /\ SeedClears(r) /\ ~job'[q].raced =>
                 /\ job'[q] = job[q]
                 /\ ~(job[q].op = "setPermissions" /\ job[q].role = r)
<1>1. PICK j : j = job[q]
  OBVIOUS
<1>2. PICK k : k = job'[q]
  OBVIOUS
<1>3. j \in Job /\ (pc[q] = "idle" => j = NoJob)
  BY <1>1 DEF Typed, RequestsTyped
<1>4. SameRequest(j, j) /\ (pc[q] = "idle" => j.op = "none")
  BY <1>3 DEF SameRequest, NoJob, Asking
<1>5. CASE SeedRole(r)
  <2>1. k = IF j.op = "deleteRole" /\ j.role = r /\ pc[q] = "write"
            THEN [j EXCEPT !.promoted = TRUE] ELSE j
    BY <1>1, <1>2, <1>5 DEF SeedRole
  <2>2. /\ k \in Job /\ SameRequest(k, j) /\ (pc[q] = "idle" => k = j)
        /\ j.op = "deleteRole" /\ j.role = r /\ pc[q] = "write" => k.promoted
        /\ k.raced = j.raced /\ k.doomed = j.doomed
    BY <1>3, <1>4, <2>1 DEF Job, SameRequest
  <2>3. ~ SeedClears(r)
    BY <1>5 DEF SeedRole, SeedClears, Seeds
  <2> QED BY <1>1, <1>2, <1>5, <2>2, <2>3
<1>6. CASE SeedClears(r)
  <2>1. k = IF j.op = "setPermissions" /\ j.role = r
            THEN [j EXCEPT !.doomed = {}, !.raced = TRUE] ELSE j
    BY <1>1, <1>2, <1>6 DEF SeedClears
  <2>2. /\ k \in Job /\ SameRequest(k, j) /\ (pc[q] = "idle" => k = j)
        /\ ~k.raced => k = j /\ ~(j.op = "setPermissions" /\ j.role = r)
    <3>1. CASE j.op = "setPermissions" /\ j.role = r
      <4>1. PICK d : d = [j EXCEPT !.doomed = {}]
        OBVIOUS
      <4>2. d \in Job /\ SameRequest(d, j)
        BY <1>3, <4>1 DEF Job, SameRequest
      <4>3. k = [d EXCEPT !.raced = TRUE]
        BY <2>1, <3>1, <4>1, Zenon
      <4>4. k \in Job /\ SameRequest(k, j) /\ k.raced
        BY <4>2, <4>3 DEF Job, SameRequest
      <4> QED BY <1>4, <3>1, <4>4 DEF SameRequest
    <3>2. CASE ~(j.op = "setPermissions" /\ j.role = r)
      BY <1>3, <1>4, <2>1, <3>2
    <3> QED BY <3>1, <3>2
  <2>3. ~ SeedRole(r)
    BY <1>6 DEF SeedRole, SeedClears, Seeds
  <2> QED BY <1>1, <1>2, <1>6, <2>2, <2>3
<1> QED BY <1>5, <1>6

(* A request that waits while no row goes. *)
Waits(q) ==
    /\ pc'[q] = pc[q] /\ SameRequest(job'[q], job[q]) /\ StaysCustom(q)
    /\ pc[q] = "idle" => job'[q] = job[q]

(* What is typed about one request. *)
RequestTyped(q) ==
    /\ pc[q] = "idle" => job[q] = NoJob
    /\ pc[q] # "idle" => Refers(job[q]) /\ Checked(pc[q], job[q])

(* A request that waits keeps what it knows. *)
LEMMA WaitingGoesOn ==
    ASSUME Typed, RowsStay, NEW q \in Requests, Waits(q)
    PROVE  RequestTyped(q)'
<1>1. RequestTyped(q) /\ job[q] \in Job
  BY DEF Typed, RequestsTyped, RequestTyped
<1>2. pc[q] # "idle" => Refers(job[q])'
  BY <1>1 DEF Refers, SameRequest, RowsStay, Existing, Exists, Known, Job, Waits, RequestTyped
<1>3. pc[q] # "idle" => Checked(pc[q], job[q])'
  BY <1>1 DEF Checked, SameRequest, StaysCustom, Waits, Replaces, Job, RequestTyped
<1> QED BY <1>1, <1>2, <1>3 DEF RequestTyped, Waits

(* While all wait, the requests stay typed. *)
LEMMA AllWait ==
    ASSUME Typed, RowsStay, pc' = pc, job' \in [Requests -> Job],
           \A q \in Requests : Waits(q)
    PROVE  RequestsTyped'
<1>1. \A q \in Requests : RequestTyped(q)'
  BY WaitingGoesOn
<1> QED BY <1>1 DEF Typed, RequestsTyped, RequestTyped

(* Nothing is written that a request knows of. *)
LEMMA RequestsLeftAlone ==
    ASSUME Typed, RowsStay, UNCHANGED <<pc, job, role>>
    PROVE  RequestsTyped'
<1>1. \A q \in Requests : Waits(q)
  BY DEF Waits, SameRequest, StaysCustom
<1> QED BY <1>1, AllWait DEF Typed, RequestsTyped

(* One request goes on to a step, the others wait. *)
LEMMA OneGoesOn ==
    ASSUME Typed, RowsStay, NEW p \in Requests, NEW step \in Steps,
           pc' = [pc EXCEPT ![p] = step], job' \in [Requests -> Job],
           \A q \in Requests \ {p} : Waits(q),
           RequestTyped(p)'
    PROVE  RequestsTyped'
<1>1. \A q \in Requests : RequestTyped(q)'
  BY WaitingGoesOn
<1>2. pc' \in [Requests -> Steps]
  BY DEF Typed, RequestsTyped
<1> QED BY <1>1, <1>2 DEF RequestsTyped, RequestTyped

(* Signing in and registering keep the types. *)
LEMMA SignTyped ==
    ASSUME Typed, NEW u \in Users, Sign(u)
    PROVE  Typed'
<1> USE TheRoles DEF Typed, tables, history, TablesTyped, RowsRefer
<1> SUFFICES TablesTyped' /\ RowsRefer' /\ RowsStay /\ UNCHANGED <<pc, job, role>>
  BY RequestsLeftAlone
<1> USE DEF RowsStay, Known, Existing, Exists
<1>1. CASE Login(u)
  BY <1>1 DEF Login
<1>2. CASE issueAuthenticatedSession(u)
  BY <1>2 DEF issueAuthenticatedSession
<1>3. CASE register(u)
  BY <1>3 DEF register
<1>4. CASE assignDefaultRole(u)
  <2>1. TablesTyped' /\ RowsStay /\ UNCHANGED <<pc, job, role>>
    BY <1>4 DEF assignDefaultRole, Completed
  <2>2. /\ signingIn' = [signingIn EXCEPT ![u] = "no"]
        /\ held' = [held EXCEPT ![u] = @ \cup ({DefaultRole} \cap Existing)]
        /\ UNCHANGED <<user, role, grants, seed>> /\ user[u] # "absent"
    BY <1>4 DEF assignDefaultRole
  <2>3. RowsRefer'
    BY <2>2
  <2> QED BY <2>1, <2>3
<1>5. CASE RegistrationCut(u)
  BY <1>5 DEF RegistrationCut
<1> QED BY <1>1, <1>2, <1>3, <1>4, <1>5 DEF Sign

(* The seed keeps the types, and what it works on exists until it is done. *)
LEMMA SeedTyped ==
    ASSUME Typed, Seed
    PROVE  Typed'
<1> USE TheRoles DEF Typed, tables, history, TablesTyped, RowsRefer, Seeds, NoSeed, SeedEnded
<1>1. CASE StartSeed
  <2>1. TablesTyped' /\ RowsRefer' /\ RowsStay
    BY <1>1 DEF StartSeed, RowsStay, Known, Existing, Exists
  <2> QED BY <1>1, <2>1, RequestsLeftAlone DEF StartSeed
<1>2. CASE SeedDies
  <2>1. TablesTyped' /\ RowsRefer' /\ RowsStay
    BY <1>2 DEF SeedDies, RowsStay, Known, Existing, Exists
  <2> QED BY <1>2, <2>1, RequestsLeftAlone DEF SeedDies
<1>3. ASSUME NEW r \in Roles, SeedFills(r) PROVE Typed'
  <2>1. TablesTyped'
    BY <1>3 DEF SeedFills, Completed, RoleAfter
  <2>2. RowsRefer' /\ RowsStay
    BY <1>3 DEF SeedFills, RowsStay, Known, Existing, Exists
  <2> QED BY <1>3, <2>1, <2>2, RequestsLeftAlone DEF SeedFills
<1>4. ASSUME NEW r \in Roles, SeedClears(r) PROVE Typed'
  <2>1. TablesTyped'
    BY <1>4 DEF SeedClears
  <2>2. RowsRefer' /\ RowsStay /\ pc' = pc /\ role' = role
    BY <1>4 DEF SeedClears, RowsStay, Known, Existing, Exists
  <2>3. job' \in [Requests -> Job]
    BY <1>4, SeedMarks DEF SeedClears
  <2>4. ASSUME NEW q \in Requests PROVE Waits(q)
    BY <1>4, <2>2, SeedMarks DEF Waits, StaysCustom
  <2> HIDE DEF Typed, RowsRefer, TablesTyped
  <2> QED BY <2>1, <2>2, <2>3, <2>4, AllWait DEF Typed
<1>5. ASSUME NEW r \in Roles, SeedRole(r) PROVE Typed'
  <2>1. TablesTyped'
    BY <1>5 DEF SeedRole
  <2>2. RowsRefer' /\ RowsStay /\ pc' = pc
    BY <1>5 DEF SeedRole, Known, Existing, Exists, RowsStay
  <2>3. job' \in [Requests -> Job]
    BY <1>5, SeedMarks DEF SeedRole
  <2>4. ASSUME NEW q \in Requests PROVE Waits(q)
    <3>1. StaysCustom(q)
      BY <1>5, SeedMarks DEF SeedRole, StaysCustom, RequestsTyped, Job
    <3> QED BY <1>5, <2>2, <3>1, SeedMarks DEF Waits
  <2> HIDE DEF Typed, RowsRefer, TablesTyped
  <2> QED BY <2>1, <2>2, <2>3, <2>4, AllWait DEF Typed
<1> QED BY <1>1, <1>2, <1>3, <1>4, <1>5 DEF Seed

(* A request ends. *)
LEMMA EndsTyped ==
    ASSUME Typed, RowsStay, NEW p \in Requests, Finish(p),
           \A r \in Roles : role[r] = "custom" => role'[r] = "custom"
    PROVE  RequestsTyped'
<1>1. NoJob \in Job
  BY TheRoles DEF NoJob, Asking, Job
<1>2. /\ pc' = [pc EXCEPT ![p] = "idle"] /\ job' = [job EXCEPT ![p] = NoJob]
      /\ job \in [Requests -> Job] /\ pc \in [Requests -> Steps]
  BY DEF Finish, Goto, Typed, RequestsTyped
<1>3. RequestTyped(p)'
  BY <1>2 DEF RequestTyped
<1>4. ASSUME NEW q \in Requests \ {p} PROVE Waits(q)
  BY <1>2 DEF Waits, SameRequest, StaysCustom, Job
<1> QED BY <1>1, <1>2, <1>3, <1>4, OneGoesOn DEF Steps

(* A request goes on, and nothing else happens. *)
LEMMA GoesOnTyped ==
    ASSUME Typed, NEW p \in Requests, NEW step \in Steps \ {"idle"}, pc[p] # "idle",
           Goto(p, step), UNCHANGED <<tables, job>>, Checked(step, job[p])
    PROVE  RequestsTyped'
<1>1. RowsStay
  BY DEF RowsStay, tables, Known, Existing, Exists
<1>2. /\ pc' = [pc EXCEPT ![p] = step] /\ job' = job
      /\ job \in [Requests -> Job] /\ pc \in [Requests -> Steps]
  BY DEF Goto, Typed, RequestsTyped
<1>3. Refers(job[p])
  BY DEF Typed, RequestsTyped
<1>4. RequestTyped(p)'
  <2>1. Refers(job[p])'
    BY <1>2, <1>3 DEF Refers, Existing, Exists, Known, tables
  <2>2. Checked(step, job[p])'
    BY <1>2 DEF Checked, Replaces, tables
  <2> QED BY <1>2, <2>1, <2>2 DEF RequestTyped
<1>5. ASSUME NEW q \in Requests \ {p} PROVE Waits(q)
  BY <1>2 DEF Waits, SameRequest, StaysCustom, tables
<1> QED BY <1>1, <1>2, <1>4, <1>5, OneGoesOn

(* A request that is refused changes nothing but itself. *)
LEMMA RefuseTyped ==
    ASSUME Typed, NEW p \in Requests, Refuse(p), UNCHANGED <<signingIn, seed, begun>>
    PROVE  Typed'
<1>1. RowsStay
  BY DEF RowsStay, tables, Refuse, Known, Existing, Exists
<1>2. RequestsTyped'
  BY <1>1, EndsTyped DEF Refuse, tables
<1>3. TablesTyped' /\ RowsRefer'
  BY DEF Refuse, tables, history, Typed, TablesTyped, RowsRefer, Existing, Exists, Known
<1> QED BY <1>2, <1>3 DEF Typed

(* A request that arrives is typed. *)
LEMMA ArriveTyped ==
    ASSUME Typed, NEW p \in Requests, NEW u \in Users, Request(p, u)
    PROVE  Typed'
<1>1. PICK j \in Job : /\ pc[p] = "idle"
                       /\ pc' = [pc EXCEPT ![p] = "authorize"]
                       /\ job' = [job EXCEPT ![p] = j]
                       /\ Refers(j)
                       /\ begun' \in 0 .. MaxRequests
                       /\ UNCHANGED <<tables, signingIn, seed, history>>
  BY Arrives
<1>2. TablesTyped' /\ RowsRefer' /\ RowsStay
  BY <1>1 DEF tables, history, Typed, TablesTyped, RowsRefer, Existing, Exists, Known, RowsStay
<1>3. RequestTyped(p)'
  <2>1. pc'[p] = "authorize" /\ job'[p] = j
    BY <1>1 DEF Typed, RequestsTyped
  <2>2. Refers(j)'
    BY <1>1 DEF Refers, Existing, Exists, Known, tables
  <2>3. Checked("authorize", j)'
    BY DEF Checked
  <2> QED BY <2>1, <2>2, <2>3 DEF RequestTyped
<1>4. ASSUME NEW q \in Requests \ {p} PROVE Waits(q)
  BY <1>1 DEF Waits, SameRequest, StaysCustom, tables, Typed, RequestsTyped
<1>5. RequestsTyped'
  BY <1>1, <1>2, <1>3, <1>4, OneGoesOn DEF Typed, RequestsTyped, Steps
<1> QED BY <1>2, <1>5 DEF Typed

(* The steps before a write only find out. *)
LEMMA ReadsTyped ==
    ASSUME Typed, NEW p \in Requests, requirePermission(p) \/ read(p)
    PROVE  Typed'
<1>1. UNCHANGED <<signingIn, seed, begun>> /\ pc[p] # "idle"
  BY DEF requirePermission, read, At
<1>2. CASE Refuse(p)
  BY <1>1, <1>2, RefuseTyped
<1>3. ASSUME NEW step \in Steps \ {"idle"}, Goto(p, step), UNCHANGED <<tables, job, history>>,
             Checked(step, job[p])
      PROVE  Typed'
  <2>1. RequestsTyped'
    BY <1>1, <1>3, GoesOnTyped
  <2>2. TablesTyped' /\ RowsRefer'
    BY <1>1, <1>3 DEF tables, history, Typed, TablesTyped, RowsRefer, Existing, Exists, Known
  <2> QED BY <2>1, <2>2 DEF Typed
<1>4. Refers(job[p])
  BY <1>1 DEF Typed, RequestsTyped
<1>5. CASE requirePermission(p) /\ ~Refuse(p)
  <2>1. PICK step : step = IF job[p].op = "createRole" THEN "write" ELSE "read"
    OBVIOUS
  <2>2. Goto(p, step) /\ UNCHANGED <<tables, job, history>>
    BY <1>5, <2>1 DEF requirePermission
  <2>3. step \in Steps \ {"idle"} /\ Checked(step, job[p])
    BY <2>1 DEF Steps, Checked
  <2> QED BY <1>3, <2>2, <2>3
<1>6. CASE read(p) /\ ~Refuse(p)
  <2>1. PICK step : step = IF Replaces(job[p]) THEN "clear" ELSE "write"
    OBVIOUS
  <2>2. Goto(p, step) /\ UNCHANGED <<tables, job, history>> /\ Found(job[p])
    BY <1>6, <2>1 DEF read
  <2>3. step \in Steps \ {"idle"} /\ Checked(step, job[p])
    BY <1>4, <2>1, <2>2 DEF Steps, Checked, Found, Refers, Replaces, Typed, RowsRefer
  <2> QED BY <1>3, <2>2, <2>3
<1> QED BY <1>2, <1>5, <1>6

(* Writes of one statement, or of one transaction. *)
LEMMA WritesOnceTyped ==
    ASSUME Typed, NEW p \in Requests, createRole(p) \/ setUserActive(p)
    PROVE  Typed'
<1>1. UNCHANGED <<signingIn, seed, begun>> /\ pc[p] # "idle"
  BY DEF createRole, setUserActive, At
<1>2. CASE Refuse(p)
  BY <1>1, <1>2, RefuseTyped
<1>3. Refers(job[p]) /\ job[p] \in Job
  BY <1>1 DEF Typed, RequestsTyped
<1>4. CASE createRole(p) /\ ~Refuse(p)
  <2>1. PICK r \in Roles : r = job[p].role
    BY <1>3 DEF Job
  <2>2. /\ ~Exists(r)
        /\ Finish(p)
        /\ role' = [role EXCEPT ![r] = "custom"]
        /\ grants' = [grants EXCEPT ![r] = job[p].asked]
        /\ granted' = [granted EXCEPT ![r] = job[p].asked]
        /\ written' = [written EXCEPT ![r] = "whole"]
        /\ UNCHANGED <<user, session, held, assigned, overtaken, crossed>>
        /\ job[p].asked \subseteq Permissions
    BY <1>3, <1>4, <2>1 DEF createRole, Refers
  <2>3. TablesTyped'
    BY <1>1, <2>2 DEF Typed, TablesTyped
  <2>4. RowsStay /\ RowsRefer'
    BY <1>1, <2>2 DEF Typed, TablesTyped, RowsStay, RowsRefer, Existing, Exists, Known
  <2>5. RequestsTyped'
    BY <2>2, <2>4, EndsTyped DEF Typed, TablesTyped
  <2> QED BY <2>3, <2>4, <2>5 DEF Typed
<1>5. CASE setUserActive(p) /\ ~Refuse(p)
  <2>1. PICK t : t = job[p].target
    OBVIOUS
  <2>2. t \in Known
    BY <1>3, <1>5, <2>1 DEF Refers, setUserActive
  <2>3. \/ user' = [user EXCEPT ![t] = "disabled"]
        \/ user' = [user EXCEPT ![t] = "active"]
    BY <1>5, <2>1 DEF setUserActive
  <2>4. /\ session' \subseteq session /\ overtaken' \subseteq overtaken \cup {t}
        /\ crossed' \in BOOLEAN
    BY <1>5, <2>1 DEF setUserActive, AllRevoked, Typed, TablesTyped
  <2>5. Finish(p) /\ UNCHANGED <<role, grants, held, assigned, granted, written>>
    BY <1>5 DEF setUserActive
  <2>6. TablesTyped'
    BY <1>1, <2>2, <2>3, <2>4, <2>5 DEF Typed, TablesTyped, Known
  <2>7. RowsStay /\ RowsRefer'
    BY <1>1, <2>2, <2>3, <2>5 DEF Typed, TablesTyped, RowsStay, RowsRefer, Existing, Exists, Known
  <2>8. RequestsTyped'
    BY <2>5, <2>7, EndsTyped
  <2> QED BY <2>6, <2>7, <2>8 DEF Typed
<1> QED BY <1>2, <1>4, <1>5

-------------------------------------------------------------------------------
(* Replacing a set of rows. *)

(* What the DELETE writes into the jobs. *)
LEMMA ClearMarks ==
    ASSUME Typed, NEW p \in Requests, clear(p), NEW q \in Requests
    PROVE  /\ job'[q] \in Job /\ SameRequest(job'[q], job[q])
           /\ pc[q] = "idle" => job'[q] = job[q]
           /\ q # p /\ q \notin Beside(p) => job'[q] = job[q]
           /\ q # p /\ q \in Beside(p) => job'[q].raced
           /\ q = p => /\ job'[q].doomed = Rows(job[p])
                       /\ ~job'[q].raced => Beside(p) = {} /\ ~HalfWritten(job[p])
<1>1. PICK j : j = job[q]
  OBVIOUS
<1>2. PICK k : k = job'[q]
  OBVIOUS
<1>3. j \in Job
  BY <1>1 DEF Typed, RequestsTyped
<1>4. pc[p] = "clear"
  BY DEF clear, At
<1>5. CASE q = p
  <2>1. PICK D : D = Rows(job[p])
    OBVIOUS
  <2>2. PICK b \in BOOLEAN : b = (Beside(p) # {} \/ HalfWritten(job[p]))
    OBVIOUS
  <2>9. job'[p] = [job[p] EXCEPT !.doomed = Rows(job[p]),
                                !.raced = Beside(p) # {} \/ HalfWritten(job[p])]
    BY DEF clear
  <2>3. k = [j EXCEPT !.doomed = D, !.raced = b]
    BY <1>1, <1>2, <1>5, <2>1, <2>2, <2>9, Zenon
  <2>4. D \in SUBSET (Roles \cup Permissions)
    <3>1. Refers(job[p]) /\ job[p] \in Job /\ Replaces(job[p])
      BY <1>4 DEF Typed, RequestsTyped, Checked
    <3> QED BY <2>1, <3>1 DEF Rows, Refers, Known, Job, Typed, TablesTyped, Replaces
  <2>5. PICK d : d = [j EXCEPT !.doomed = D]
    OBVIOUS
  <2>6. d \in Job /\ SameRequest(d, j) /\ d.doomed = D
    BY <1>3, <2>4, <2>5 DEF Job, SameRequest
  <2>7. k = [d EXCEPT !.raced = b]
    BY <2>3, <2>5, Zenon
  <2>8. k \in Job /\ SameRequest(k, j) /\ k.doomed = D /\ k.raced = b
    BY <2>6, <2>7 DEF Job, SameRequest
  <2> QED BY <1>1, <1>2, <1>4, <1>5, <2>1, <2>2, <2>8
<1>6. CASE q # p /\ q \in Beside(p)
  <2>1. k = [j EXCEPT !.raced = TRUE]
    BY <1>1, <1>2, <1>6 DEF clear
  <2>2. k \in Job /\ SameRequest(k, j) /\ k.raced
    BY <1>3, <2>1 DEF Job, SameRequest
  <2>3. pc[q] = "insert"
    BY <1>6 DEF Beside
  <2> QED BY <1>1, <1>2, <1>6, <2>2, <2>3
<1>7. CASE q # p /\ q \notin Beside(p)
  <2>1. k = j
    BY <1>1, <1>2, <1>7 DEF clear
  <2>2. SameRequest(j, j)
    BY DEF SameRequest
  <2> QED BY <1>1, <1>2, <1>3, <1>7, <2>1, <2>2
<1> QED BY <1>5, <1>6, <1>7

(* The DELETE keeps the types. *)
LEMMA ClearTyped ==
    ASSUME Typed, NEW p \in Requests, clear(p)
    PROVE  Typed'
<1>1. /\ UNCHANGED <<tables, history, signingIn, seed, begun>> /\ pc[p] = "clear"
      /\ pc' = [pc EXCEPT ![p] = "insert"] 
      /\ pc \in [Requests -> Steps]
  BY DEF clear, At, Goto, Typed, RequestsTyped
<1>2. TablesTyped' /\ RowsRefer' /\ RowsStay
  BY <1>1 DEF tables, history, Typed, TablesTyped, RowsRefer, Existing, Exists, Known, RowsStay
<1>3. job' \in [Requests -> Job]
  BY <1>1, ClearMarks DEF clear
<1>4. ASSUME NEW q \in Requests \ {p} PROVE Waits(q)
  BY <1>1, ClearMarks DEF Waits, StaysCustom, tables
<1>5. RequestTyped(p)'
  <2>1. pc'[p] = "insert" /\ SameRequest(job'[p], job[p])
    BY <1>1, ClearMarks
  <2>2. Refers(job[p]) /\ Checked("clear", job[p]) /\ job[p] \in Job
    BY <1>1 DEF Typed, RequestsTyped
  <2>3. Refers(job[p])'
    BY <1>2, <2>1, <2>2 DEF Refers, SameRequest, RowsStay, Existing, Exists, Known, Job
  <2>4. Checked("insert", job[p])'
    BY <2>1, <2>2 DEF Checked, SameRequest, Replaces
  <2> QED BY <2>1, <2>3, <2>4 DEF RequestTyped
<1>6. RequestsTyped'
  BY <1>1, <1>2, <1>3, <1>4, <1>5, OneGoesOn DEF Steps
<1> QED BY <1>2, <1>6 DEF Typed

(* What the INSERT writes into the jobs. *)
LEMMA ReleaseMarks ==
    ASSUME Typed, NEW p \in Requests, pc[p] # "idle", job' = Released(p),
           NEW q \in Requests
    PROVE  /\ job'[q] \in Job
           /\ q = p => job'[q] = NoJob
           /\ q # p => /\ SameRequest(job'[q], job[q]) /\ job'[q].raced = job[q].raced
                       /\ pc[q] = "idle" => job'[q] = job[q]
                       /\ q \notin Beside(p) => job'[q] = job[q]
<1>1. PICK j : j = job[q]
  OBVIOUS
<1>2. PICK k : k = job'[q]
  OBVIOUS
<1>3. j \in Job /\ NoJob \in Job
  BY <1>1, TheRoles DEF Typed, RequestsTyped, NoJob, Asking, Job
<1>4. CASE q = p
  BY <1>3, <1>4 DEF Released
<1>5. CASE q # p /\ q \in Beside(p)
  <2>1. PICK D : D = j.doomed \ job[p].doomed
    OBVIOUS
  <2>2. k = [j EXCEPT !.doomed = D]
    BY <1>1, <1>2, <1>5, <2>1 DEF Released
  <2>3. k \in Job /\ SameRequest(k, j) /\ k.raced = j.raced
    BY <1>3, <2>1, <2>2 DEF Job, SameRequest
  <2>4. pc[q] = "insert"
    BY <1>5 DEF Beside
  <2> QED BY <1>1, <1>2, <1>5, <2>3, <2>4
<1>6. CASE q # p /\ q \notin Beside(p)
  <2>1. k = j
    BY <1>1, <1>2, <1>6 DEF Released
  <2>2. SameRequest(j, j)
    BY DEF SameRequest
  <2> QED BY <1>1, <1>2, <1>3, <1>6, <2>1, <2>2
<1> QED BY <1>4, <1>5, <1>6

(* What the INSERT does, unless it rolls back. *)
LEMMA InsertDoes ==
    ASSUME Typed, NEW p \in Requests, insert(p), ~Refuse(p)
    PROVE  /\ pc[p] = "insert" /\ ~job[p].lost
           /\ pc' = [pc EXCEPT ![p] = "idle"] /\ job' = Released(p)
           /\ UNCHANGED <<user, session, role, signingIn, seed, begun, overtaken, crossed>>
           /\ Refers(job[p]) /\ Replaces(job[p]) /\ job[p] \in Job
           /\ Key(job[p]) \in Users \cup Roles
           /\ written' = [written EXCEPT ![Key(job[p])] =
                             IF job[p].raced \/ HalfWritten(job[p]) THEN "mixed" ELSE "whole"]
           /\ \/ /\ job[p].op = "setRoles" /\ Key(job[p]) = job[p].target
                 /\ job[p].target \in Users
                 /\ held' = [held EXCEPT ![job[p].target] = Replaced(p)]
                 /\ assigned' = [assigned EXCEPT ![job[p].target] = job[p].asked]
                 /\ Replaced(p) \subseteq held[job[p].target] \cup job[p].asked
                 /\ UNCHANGED <<grants, granted>>
              \/ /\ job[p].op = "setPermissions" /\ Key(job[p]) = job[p].role
                 /\ grants' = [grants EXCEPT ![job[p].role] = Replaced(p)]
                 /\ granted' = [granted EXCEPT ![job[p].role] = job[p].asked]
                 /\ Replaced(p) \subseteq grants[job[p].role] \cup job[p].asked
                 /\ UNCHANGED <<held, assigned>>
<1>1. pc[p] = "insert" /\ UNCHANGED <<signingIn, seed, begun>>
  BY DEF insert, At
<1>2. Refers(job[p]) /\ Replaces(job[p]) /\ job[p] \in Job
  BY <1>1 DEF Typed, RequestsTyped, Checked
<1>3. Key(job[p]) \in Users \cup Roles
  BY <1>2 DEF Key, Refers, Job, Known, Replaces
<1> QED BY <1>1, <1>2, <1>3
        DEF insert, Goto, RolledBack, Key, Replaced, Rows, Refers, Known

(* The INSERT writes rows that refer to what exists. *)
LEMMA InsertTyped ==
    ASSUME Typed, NEW p \in Requests, insert(p)
    PROVE  Typed'
<1>1. CASE Refuse(p)
  BY <1>1, RefuseTyped DEF insert, At
<1>2. CASE ~Refuse(p)
  <2> DEFINE j == job[p]
  <2>1. /\ pc[p] = "insert" /\ ~j.lost
        /\ pc' = [pc EXCEPT ![p] = "idle"] /\ job' = Released(p)
        /\ UNCHANGED <<user, session, role, signingIn, seed, begun, overtaken, crossed>>
        /\ Refers(j) /\ Replaces(j) /\ j \in Job
        /\ Key(j) \in Users \cup Roles
        /\ written' = [written EXCEPT ![Key(j)] =
                             IF j.raced \/ HalfWritten(j) THEN "mixed" ELSE "whole"]
    BY <1>2, InsertDoes
  <2>2. TablesTyped' /\ RowsRefer'
    <3>1. CASE /\ j.op = "setRoles"
               /\ j.target \in Users
               /\ held' = [held EXCEPT ![j.target] = Replaced(p)]
               /\ assigned' = [assigned EXCEPT ![j.target] = j.asked]
               /\ Replaced(p) \subseteq held[j.target] \cup j.asked
               /\ UNCHANGED <<grants, granted>>
      <4>1. j.asked \subseteq Existing /\ j.target \in Known
        BY <2>1, <3>1 DEF Refers
      <4>2. TablesTyped'
        BY <2>1, <3>1, <4>1 DEF Typed, TablesTyped, Existing
      <4>3. RowsRefer'
        BY <2>1, <3>1, <4>1 DEF Typed, TablesTyped, RowsRefer, Existing, Exists, Known
      <4> QED BY <4>2, <4>3
    <3>2. CASE /\ j.op = "setPermissions"
               /\ grants' = [grants EXCEPT ![j.role] = Replaced(p)]
               /\ granted' = [granted EXCEPT ![j.role] = j.asked]
               /\ Replaced(p) \subseteq grants[j.role] \cup j.asked
               /\ UNCHANGED <<held, assigned>>
      <4>1. j.asked \subseteq Permissions /\ j.role \in Existing
        BY <2>1, <3>2 DEF Refers, Existing, Job
      <4>2. TablesTyped'
        BY <2>1, <3>2, <4>1 DEF Typed, TablesTyped, Existing
      <4>3. RowsRefer'
        BY <2>1, <3>2, <4>1 DEF Typed, TablesTyped, RowsRefer, Existing, Exists, Known
      <4> QED BY <4>2, <4>3
    <3> HIDE DEF j
    <3> QED BY <1>2, <3>1, <3>2, InsertDoes DEF j
  <2>3. RowsStay
    BY <2>1 DEF RowsStay, Known, Existing, Exists
  <2>4. job' \in [Requests -> Job]
    BY <2>1, ReleaseMarks DEF Released
  <2>5. ASSUME NEW q \in Requests \ {p} PROVE Waits(q)
    BY <2>1, ReleaseMarks DEF Waits, StaysCustom, Typed, RequestsTyped
  <2>6. RequestTyped(p)'
    BY <2>1, ReleaseMarks DEF RequestTyped, Typed, RequestsTyped
  <2>7. RequestsTyped'
    BY <2>1, <2>3, <2>4, <2>5, <2>6, OneGoesOn DEF Steps
  <2> QED BY <2>2, <2>7 DEF Typed
<1> QED BY <1>1, <1>2

-------------------------------------------------------------------------------
(* Deleting a role. *)

(* What the deletion writes into the jobs. *)
LEMMA DeleteMarks ==
    ASSUME Typed, NEW p \in Requests, deleteRole(p), ~job[p].lost, NEW q \in Requests \ {p}
    PROVE  /\ job'[q] \in Job
           /\ job'[q].op = job[q].op /\ job'[q].by = job[q].by
           /\ job'[q].target = job[q].target /\ job'[q].role = job[q].role
           /\ job'[q].asked = job[q].asked /\ job'[q].promoted = job[q].promoted
           /\ job'[q].raced = job[q].raced
           /\ job'[q].doomed = job[q].doomed \ {job[p].role}
           /\ ~job'[q].lost => ~job[q].lost /\ job[p].role \notin RefersTo(job[q])
           /\ pc[q] = "idle" => job'[q] = NoJob
<1>1. PICK j : j = job[q]
  OBVIOUS
<1>2. PICK k : k = job'[q]
  OBVIOUS
<1>3. PICK r : r = job[p].role
  OBVIOUS
<1>4. j \in Job /\ (pc[q] = "idle" => j = NoJob)
  BY <1>1 DEF Typed, RequestsTyped
<1>5. PICK b \in BOOLEAN : b = (j.lost \/ r \in RefersTo(j))
  OBVIOUS
<1>6. PICK D : D = j.doomed \ {r}
  OBVIOUS
<1>7. job'[q] = [job[q] EXCEPT !.lost = @ \/ job[p].role \in RefersTo(job[q]),
                               !.doomed = @ \ {job[p].role}]
  BY DEF deleteRole, Refuse, Finish
<1>8. k = [j EXCEPT !.lost = b, !.doomed = D]
  <2>1. k = [j EXCEPT !.lost = j.lost \/ r \in RefersTo(j), !.doomed = j.doomed \ {r}]
    BY <1>1, <1>2, <1>3, <1>7, Zenon
  <2> QED BY <1>5, <1>6, <2>1, Zenon
<1>9. PICK d : d = [j EXCEPT !.lost = b]
  OBVIOUS
<1>10. /\ d \in Job /\ d.lost = b
       /\ d.op = j.op /\ d.by = j.by /\ d.target = j.target /\ d.role = j.role
       /\ d.asked = j.asked /\ d.promoted = j.promoted /\ d.raced = j.raced /\ d.doomed = j.doomed
  BY <1>4, <1>9 DEF Job
<1>11. k = [d EXCEPT !.doomed = D]
  BY <1>8, <1>9, Zenon
<1>12. /\ k \in Job /\ k.lost = b /\ k.doomed = D
       /\ k.op = j.op /\ k.by = j.by /\ k.target = j.target /\ k.role = j.role
       /\ k.asked = j.asked /\ k.promoted = j.promoted /\ k.raced = j.raced
  BY <1>4, <1>6, <1>10, <1>11 DEF Job
<1>13. pc[q] = "idle" => k = NoJob
  <2>1. SUFFICES ASSUME pc[q] = "idle" PROVE k = NoJob
    OBVIOUS
  <2>2. j.op = "none" /\ j.lost = FALSE /\ j.doomed = {}
    BY <1>4, <2>1 DEF NoJob, Asking
  <2>3. b = FALSE /\ D = {}
    BY <1>5, <1>6, <2>2 DEF RefersTo
  <2>4. d = j
    BY <1>4, <1>9, <2>2, <2>3 DEF Job
  <2>5. k = j
    BY <1>4, <1>11, <2>2, <2>3, <2>4 DEF Job
  <2> QED BY <1>4, <2>1, <2>5
<1> QED BY <1>1, <1>2, <1>3, <1>5, <1>6, <1>12, <1>13

(* What deleting a role does, unless it is gone already. *)
LEMMA DeleteDoes ==
    ASSUME Typed, NEW p \in Requests, deleteRole(p), ~job[p].lost
    PROVE  LET r == job[p].role
           IN  /\ r \in Roles /\ r # DefaultRole /\ Exists(r)
               /\ role[r] = "custom" \/ job[p].promoted
               /\ pc[p] # "idle" /\ pc' = [pc EXCEPT ![p] = "idle"]
               /\ job' \in [Requests -> Job] /\ job'[p] = NoJob
               /\ role' = [role EXCEPT ![r] = "absent"]
               /\ grants' = [grants EXCEPT ![r] = {}]
               /\ granted' = [granted EXCEPT ![r] = {}]
               /\ held' = [u \in Users |-> held[u] \ {r}]
               /\ assigned' = [u \in Users |-> assigned[u] \ {r}]
               /\ seed' = IF seed.role = r /\ seed.step # "upsert" THEN SeedEnded ELSE seed
               /\ UNCHANGED <<user, session, signingIn, begun, written, overtaken, crossed>>
<1>1. pc[p] = "write" /\ job[p].op = "deleteRole"
  BY DEF deleteRole
<1>2. Refers(job[p]) /\ Checked("write", job[p]) /\ job[p] \in Job
  BY <1>1 DEF Typed, RequestsTyped
<1>3. job[p].role \in Roles /\ job[p].role # DefaultRole /\ Exists(job[p].role)
      /\ (role[job[p].role] = "custom" \/ job[p].promoted)
  BY <1>1, <1>2 DEF Refers, Checked, Job
<1>4. NoJob \in Job
  BY TheRoles DEF NoJob, Asking, Job
<1>5. job'[p] = NoJob
  BY DEF deleteRole
<1>6. job' \in [Requests -> Job]
  <2>1. ASSUME NEW q \in Requests PROVE job'[q] \in Job
    BY <1>4, <1>5, DeleteMarks
  <2> QED BY <2>1 DEF deleteRole
<1> QED BY <1>1, <1>3, <1>5, <1>6 DEF deleteRole, Goto

(* Deleting a role leaves nothing that refers to it but lost requests. *)
LEMMA DeleteTyped ==
    ASSUME Typed, NEW p \in Requests, deleteRole(p)
    PROVE  Typed'
<1>1. CASE job[p].lost
  BY <1>1, RefuseTyped DEF deleteRole
<1>2. CASE ~job[p].lost
  <2>1. PICK r : r = job[p].role
    OBVIOUS
  <2>2. /\ r \in Roles /\ r # DefaultRole /\ Exists(r)
        /\ pc[p] # "idle" /\ pc' = [pc EXCEPT ![p] = "idle"]
        /\ job' \in [Requests -> Job] /\ job'[p] = NoJob
        /\ role' = [role EXCEPT ![r] = "absent"]
        /\ grants' = [grants EXCEPT ![r] = {}]
        /\ granted' = [granted EXCEPT ![r] = {}]
        /\ held' = [u \in Users |-> held[u] \ {r}]
        /\ assigned' = [u \in Users |-> assigned[u] \ {r}]
        /\ seed' = IF seed.role = r /\ seed.step # "upsert" THEN SeedEnded ELSE seed
        /\ UNCHANGED <<user, session, signingIn, begun, written, overtaken, crossed>>
    BY <1>2, <2>1, DeleteDoes
  <2>3. TablesTyped'
    BY <2>2 DEF Typed, TablesTyped, SeedEnded, NoSeed
  <2>4. RowsRefer'
    <3>1. \A x \in Roles : Exists(x)' <=> Exists(x) /\ x # r
      BY <2>2 DEF Exists, Typed, TablesTyped
    <3>2. /\ \A x \in Roles \ Existing' : grants'[x] = {} /\ \A u \in Users : x \notin held'[u]
          /\ \A u \in Users \ Known' : held'[u] = {} /\ signingIn'[u] = "no"
      BY <2>2, <3>1 DEF Typed, RowsRefer, TablesTyped, Existing, Known
    <3>3. role'[DefaultRole] = "system"
      BY <2>2, TheRoles DEF Typed, RowsRefer, TablesTyped
    <3>4. seed'.role # "none" /\ seed'.step # "upsert" => seed'.role \in Existing'
      BY <2>2, <3>1 DEF Typed, RowsRefer, TablesTyped, Existing, SeedEnded, NoSeed
    <3> QED BY <3>2, <3>3, <3>4 DEF RowsRefer
  <2>5. ASSUME NEW q \in Requests \ {p} PROVE RequestTyped(q)'
    <3>1. RequestTyped(q) /\ job[q] \in Job /\ pc'[q] = pc[q]
      BY <2>2 DEF Typed, RequestsTyped, RequestTyped
    <3>2. /\ job'[q] \in Job
          /\ job'[q].op = job[q].op /\ job'[q].by = job[q].by
          /\ job'[q].target = job[q].target /\ job'[q].role = job[q].role
          /\ job'[q].asked = job[q].asked /\ job'[q].promoted = job[q].promoted
          /\ ~job'[q].lost => ~job[q].lost /\ r \notin RefersTo(job[q])
          /\ pc[q] = "idle" => job'[q] = NoJob
      BY <1>2, <2>1, DeleteMarks
    <3>3. pc[q] # "idle" => Refers(job[q])'
      BY <2>2, <3>1, <3>2
         DEF Refers, RequestTyped, RefersTo, Existing, Exists, Known, Job, Typed, TablesTyped
    <3>4. pc[q] # "idle" => Checked(pc[q], job[q])'
      <4>1. role'[job[q].role] = role[job[q].role] \/ job[q].role = r
        BY <2>2, <3>1 DEF Job, Typed, TablesTyped
      <4>2. job[q].role = r /\ job[q].op = "deleteRole" => job'[q].lost
        BY <3>2 DEF RefersTo
      <4> QED BY <3>1, <3>2, <4>1, <4>2 DEF Checked, RequestTyped, Replaces
    <3> QED BY <3>1, <3>2, <3>3, <3>4 DEF RequestTyped
  <2>6. RequestTyped(p)'
    BY <2>2 DEF RequestTyped, Typed, RequestsTyped
  <2>7. RequestsTyped'
    <3>1. \A q \in Requests : RequestTyped(q)'
      BY <2>5, <2>6
    <3> QED BY <2>2, <3>1 DEF Typed, RequestsTyped, RequestTyped, Steps
  <2> QED BY <2>3, <2>4, <2>7 DEF Typed
<1> QED BY <1>1, <1>2

(* Every step keeps the types. *)
LEMMA NextTyped == Typed /\ [Next]_vars => Typed'
<1> SUFFICES ASSUME Typed, [Next]_vars PROVE Typed'
  OBVIOUS
<1>1. ASSUME NEW p \in Requests, Handle(p) PROVE Typed'
  BY <1>1, ReadsTyped, ClearTyped, InsertTyped, WritesOnceTyped, DeleteTyped DEF Handle
<1>2. CASE UNCHANGED vars
  <2>1. RowsStay
    BY <1>2 DEF vars, tables, RowsStay, Known, Existing, Exists
  <2>2. RequestsTyped'
    BY <1>2, <2>1, RequestsLeftAlone DEF vars, tables
  <2>3. TablesTyped' /\ RowsRefer'
    BY <1>2 DEF vars, tables, history, Typed, TablesTyped, RowsRefer, Known, Existing, Exists
  <2> QED BY <2>2, <2>3 DEF Typed
<1> QED BY <1>1, <1>2, ArriveTyped, SignTyped, SeedTyped DEF Next

(* Rows are well typed, a request refers to rows that exist unless it is   *)
(* lost, and it writes only what it has found it may.                      *)
THEOREM AccessIsTyped == Spec => []Typed
<1>1. Init => Typed
  BY InitTyped
<1>2. Typed /\ [Next]_vars => Typed'
  BY NextTyped
<1> QED BY <1>1, <1>2, PTL DEF Spec

(* deleteRole: a role of the system is never deleted, unless the seed made *)
(* it one after the deletion had read it.                                  *)
THEOREM SystemRolesAlwaysStay == Spec => SystemRolesStayUnlessSeeded
<1>1. ASSUME Typed, [Next]_vars
      PROVE  [\A r \in Roles : role[r] = "system" /\ role'[r] = "absent"
                 => \E p \in Requests : job[p].role = r /\ job[p].promoted]_vars
  <2>1. SUFFICES ASSUME NEW r \in Roles, role[r] = "system", role'[r] = "absent"
                 PROVE  \E p \in Requests : job[p].role = r /\ job[p].promoted
    OBVIOUS
  <2>2. \E p \in Requests : deleteRole(p)
    <3>1. role' # role /\ role \in [Roles -> {"absent", "custom", "system"}]
      BY <1>1, <2>1 DEF Typed, TablesTyped
    <3>2. ASSUME NEW p \in Requests, Handle(p) PROVE deleteRole(p)
      <4>1. CASE createRole(p)
        BY <2>1, <3>1, <4>1 DEF createRole, Refuse, tables
      <4>2. CASE insert(p)
        BY <3>1, <4>2 DEF insert, Refuse, tables
      <4>3. CASE requirePermission(p) \/ read(p) \/ clear(p) \/ setUserActive(p)
        BY <3>1, <4>3 DEF requirePermission, read, clear, setUserActive, Refuse, tables
      <4> QED BY <3>2, <4>1, <4>2, <4>3 DEF Handle
    <3>3. ASSUME NEW u \in Users PROVE ~Sign(u) /\ \A p \in Requests : ~Request(p, u)
      BY <3>1 DEF Sign, Login, issueAuthenticatedSession, register, assignDefaultRole,
                  RegistrationCut, Request, Arrive, tables
    <3>4. ~Seed
      <4>1. ~StartSeed /\ ~SeedDies
        BY <3>1 DEF StartSeed, SeedDies, tables
      <4>2. ASSUME NEW x \in Roles PROVE ~SeedRole(x) /\ ~SeedClears(x) /\ ~SeedFills(x)
        BY <2>1, <3>1 DEF SeedRole, SeedClears, SeedFills
      <4> QED BY <4>1, <4>2 DEF Seed
    <3> QED BY <1>1, <3>1, <3>2, <3>3, <3>4 DEF Next, vars, tables
  <2>3. PICK p \in Requests : deleteRole(p)
    BY <2>2
  <2>4. ~job[p].lost
    BY <2>1, <2>3 DEF deleteRole, Refuse, tables
  <2>5. /\ role' = [role EXCEPT ![job[p].role] = "absent"] /\ job[p].role \in Roles
        /\ role[job[p].role] = "custom" \/ job[p].promoted
    BY <1>1, <2>3, <2>4, DeleteDoes
  <2> QED BY <1>1, <2>1, <2>5 DEF Typed, TablesTyped
<1> QED BY <1>1, AccessIsTyped, PTL DEF Spec, SystemRolesStayUnlessSeeded

-------------------------------------------------------------------------------
(* Account status. *)

StatusSame == UNCHANGED <<user, session, signingIn, overtaken, crossed>>

(* Handlers, but for setUserActive, leave account status, sessions and     *)
(* sign-ins alone, and so does the seed.                                   *)
LEMMA StatusUntouched ==
    /\ \A p \in Requests : Handle(p) => StatusSame \/ setUserActive(p)
    /\ \A p \in Requests, u \in Users : Request(p, u) => StatusSame
    /\ Seed => StatusSame
    /\ UNCHANGED vars => StatusSame
<1> USE DEF tables, history, StatusSame
<1>1. ASSUME NEW p \in Requests, Handle(p), ~setUserActive(p) PROVE StatusSame
  <2>1. CASE requirePermission(p) \/ read(p) \/ clear(p)
    BY <2>1 DEF requirePermission, read, clear, At, Refuse
  <2>2. CASE insert(p)
    BY <2>2 DEF insert, At, Refuse
  <2>3. CASE createRole(p) \/ deleteRole(p)
    BY <2>3 DEF createRole, deleteRole, At, Refuse
  <2> QED BY <1>1, <2>1, <2>2, <2>3 DEF Handle
<1>2. ASSUME NEW p \in Requests, NEW u \in Users, Request(p, u) PROVE StatusSame
  BY <1>2 DEF Request, Arrive
<1>3. ASSUME Seed PROVE StatusSame
  BY <1>3 DEF Seed, Seeds, StartSeed, SeedDies, SeedRole, SeedClears, SeedFills
<1>4. UNCHANGED vars => StatusSame
  BY DEF vars
<1> QED BY <1>1, <1>2, <1>3, <1>4

(* What setUserActive does. *)
LEMMA SetsStatus ==
    ASSUME Typed, NEW p \in Requests, setUserActive(p)
    PROVE  \E t \in Known :
              /\ signingIn' = signingIn
              /\ \/ /\ user' = [user EXCEPT ![t] = "disabled"]
                    /\ session' = session \ {t}
                    /\ overtaken' = IF signingIn[t] = "no" THEN overtaken \ {t}
                                    ELSE overtaken \cup {t}
                    /\ crossed' = (crossed \/ user[job[p].by] = "disabled")
                    /\ job[p].by \in Known /\ job[p].by # t
                 \/ /\ user' = [user EXCEPT ![t] = "active"]
                    /\ UNCHANGED <<session, overtaken, crossed>>
<1>1. Refers(job[p]) /\ Checked("write", job[p]) /\ pc[p] = "write"
  BY DEF Typed, RequestsTyped, setUserActive, At
<1>2. PICK t : t = job[p].target
  OBVIOUS
<1>3. t \in Known
  BY <1>1, <1>2 DEF Refers, setUserActive
<1> QED BY <1>1, <1>2, <1>3 DEF Refers, Checked, setUserActive, At, AllRevoked

(* setUserActive refuses the caller's own account: somebody is active at   *)
(* any time, unless a user who had just been disabled disabled another.    *)
THEOREM SomebodyIsAlwaysActive == Spec => []SomebodyIsActiveUnlessCrossed
<1>1. Init => SomebodyIsActiveUnlessCrossed
  BY FirstIsAUser DEF Init, SomebodyIsActiveUnlessCrossed
<1>2. ASSUME Typed, SomebodyIsActiveUnlessCrossed, [Next]_vars
      PROVE  SomebodyIsActiveUnlessCrossed'
  <2> USE DEF SomebodyIsActiveUnlessCrossed
  <2>1. CASE StatusSame
    BY <1>2, <2>1 DEF StatusSame
  <2>2. ASSUME NEW p \in Requests, setUserActive(p) PROVE SomebodyIsActiveUnlessCrossed'
    <3>1. PICK t \in Known :
              \/ /\ user' = [user EXCEPT ![t] = "disabled"]
                 /\ crossed' = (crossed \/ user[job[p].by] = "disabled")
                 /\ job[p].by \in Known /\ job[p].by # t
              \/ /\ user' = [user EXCEPT ![t] = "active"]
                 /\ UNCHANGED crossed
      BY <1>2, <2>2, SetsStatus
    <3>2. CASE user' = [user EXCEPT ![t] = "active"]
      BY <1>2, <3>2 DEF Typed, TablesTyped, Known
    <3>3. CASE /\ user' = [user EXCEPT ![t] = "disabled"]
               /\ crossed' = (crossed \/ user[job[p].by] = "disabled")
               /\ job[p].by \in Known /\ job[p].by # t
      <4>1. CASE crossed \/ user[job[p].by] = "disabled"
        BY <3>3, <4>1
      <4>2. CASE ~(crossed \/ user[job[p].by] = "disabled")
        <5>1. user'[job[p].by] = "active" /\ job[p].by \in Users
          BY <1>2, <3>3, <4>2 DEF Typed, TablesTyped, Known
        <5> QED BY <5>1
      <4> QED BY <4>1, <4>2
    <3> QED BY <3>1, <3>2, <3>3
  <2>3. ASSUME NEW u \in Users, Sign(u) PROVE SomebodyIsActiveUnlessCrossed'
    BY <1>2, <2>3 DEF Sign, Login, issueAuthenticatedSession, register, assignDefaultRole,
                      RegistrationCut, tables, history, Typed, TablesTyped
  <2> QED BY <1>2, <2>1, <2>2, <2>3, StatusUntouched DEF Next
<1> QED BY <1>1, <1>2, AccessIsTyped, PTL DEF Spec

(* A sign-in that had read a user before the user was disabled is noted.   *)
SignInsNoted ==
    /\ \A u \in Users : user[u] = "disabled" /\ signingIn[u] # "no" => u \in overtaken
    /\ \A u \in session \ overtaken : user[u] # "disabled"

(* A disabled user has no session that enabling would bring back, unless a *)
(* sign-in had read the user before.                                       *)
THEOREM DisablingEndsSessions == Spec => []DisablingEndsSessionsUnlessOvertaken
<1>1. Init => SignInsNoted
  BY DEF Init, SignInsNoted
<1>2. ASSUME Typed, SignInsNoted, [Next]_vars PROVE SignInsNoted'
  <2> USE DEF SignInsNoted, Typed, TablesTyped
  <2>1. CASE StatusSame
    BY <1>2, <2>1 DEF StatusSame
  <2>2. ASSUME NEW p \in Requests, setUserActive(p) PROVE SignInsNoted'
    <3>1. PICK t \in Known :
              /\ signingIn' = signingIn
              /\ \/ /\ user' = [user EXCEPT ![t] = "disabled"]
                    /\ session' = session \ {t}
                    /\ overtaken' = IF signingIn[t] = "no" THEN overtaken \ {t}
                                    ELSE overtaken \cup {t}
                 \/ /\ user' = [user EXCEPT ![t] = "active"]
                    /\ UNCHANGED <<session, overtaken>>
      BY <1>2, <2>2, SetsStatus
    <3> QED BY <1>2, <3>1 DEF Known
  <2>3. ASSUME NEW u \in Users, Sign(u) PROVE SignInsNoted'
    BY <1>2, <2>3 DEF Sign, Login, issueAuthenticatedSession, register, assignDefaultRole,
                      RegistrationCut, tables, history, RowsRefer
  <2> HIDE DEF SignInsNoted, Typed
  <2> QED BY <1>2, <2>1, <2>2, <2>3, StatusUntouched DEF Next
<1>3. Typed /\ SignInsNoted => DisablingEndsSessionsUnlessOvertaken
  <2> SUFFICES ASSUME Typed PROVE TypeOK
    BY DEF DisablingEndsSessionsUnlessOvertaken, SignInsNoted
  <2>1. \A p \in Requests : pc[p] = "idle" <=> job[p].by = None
    BY NoneIsNoUser DEF Typed, RequestsTyped, NoJob, Asking, Refers, Known
  <2> QED BY <2>1 DEF TypeOK, Typed, TablesTyped, RowsRefer, RequestsTyped, Job, Existing
<1> QED BY <1>1, <1>2, <1>3, AccessIsTyped, PTL DEF Spec

-------------------------------------------------------------------------------
(* Sets of rows. *)

(* A replacement that nobody raced deletes every row there is.             *)
Alone(p) ==
    LET j == job[p]
    IN  pc[p] = "insert" /\ ~j.raced =>
           /\ Beside(p) = {}
           /\ ~HalfWritten(j)
           /\ ~j.lost => Rows(j) \subseteq j.doomed

(* What a registration has yet to complete, unless others wrote too.       *)
RegistrationHalf(u) ==
    signingIn[u] = "registering" =>
       /\ written[u] # "whole"
       /\ written[u] = "half" => held[u] = {} /\ assigned[u] = {DefaultRole}

(* What the seed has yet to complete. *)
SeedHalf(r) ==
    seed.role = r /\ seed.step = "fill" =>
       /\ written[r] # "whole"
       /\ written[r] = "half" => grants[r] = {} /\ granted[r] = SystemGrants[r]

Halves ==
    /\ \A u \in Users : RegistrationHalf(u)
    /\ \A r \in Roles : SeedHalf(r)

WholeInv ==
    /\ ReplacementsAreWholeUnlessRaced
    /\ \A p \in Requests : Alone(p)
    /\ Halves

(* Who is between the two statements was so before, with the same rows. *)
InsertsWait ==
    \A x \in Requests : pc'[x] = "insert" =>
       /\ pc[x] = "insert"
       /\ job'[x].op = job[x].op /\ job'[x].target = job[x].target /\ job'[x].role = job[x].role
       /\ ~job'[x].raced => ~job[x].raced
       /\ ~job'[x].lost => ~job[x].lost

(* Nobody races a replacement by a step that leaves its rows deleted. *)
LEMMA AloneStays ==
    ASSUME Typed, \A p \in Requests : Alone(p), InsertsWait,
           \A x \in Requests : pc'[x] = "insert" /\ ~job'[x].raced /\ ~HalfWritten(job[x]) =>
              /\ ~HalfWritten(job[x])'
              /\ ~job'[x].lost /\ Rows(job[x]) \subseteq job[x].doomed
                    => Rows(job[x])' \subseteq job'[x].doomed
    PROVE  \A p \in Requests : Alone(p)'
<1>1. SUFFICES ASSUME NEW p \in Requests, pc'[p] = "insert", ~job'[p].raced
               PROVE  /\ Beside(p)' = {}
                      /\ ~HalfWritten(job[p])'
                      /\ ~job'[p].lost => Rows(job[p])' \subseteq job'[p].doomed
  BY DEF Alone
<1>2. /\ Beside(p) = {} /\ ~HalfWritten(job[p])
      /\ ~job[p].lost => Rows(job[p]) \subseteq job[p].doomed
  BY <1>1 DEF Alone, InsertsWait
<1>3. ASSUME NEW x \in Beside(p)' PROVE FALSE
  <2>1. /\ x \in Requests \ {p} /\ pc'[x] = "insert" /\ job'[x].op = job'[p].op
        /\ Key(job[x])' = Key(job[p])'
    BY DEF Beside
  <2>2. x \in Beside(p)
    BY <1>1, <2>1 DEF Beside, Key, InsertsWait
  <2> QED BY <1>2, <2>2
<1> QED BY <1>1, <1>2, <1>3 DEF InsertsWait

(* Steps that write no set of rows and begin no half of one. *)
LEMMA QuietWhole ==
    ASSUME Typed, WholeInv, UNCHANGED <<held, grants, assigned, granted, written>>, InsertsWait,
           \A x \in Requests : pc'[x] = "insert" => job'[x].doomed = job[x].doomed,
           \A u \in Users : signingIn'[u] = "registering" => signingIn[u] = "registering",
           seed' = seed \/ seed'.step # "fill"
    PROVE  WholeInv'
<1>1. ReplacementsAreWholeUnlessRaced'
  BY DEF WholeInv, ReplacementsAreWholeUnlessRaced
<1>2. Halves'
  BY DEF WholeInv, Halves, RegistrationHalf, SeedHalf
<1>3. ASSUME NEW x \in Requests, pc'[x] = "insert", ~HalfWritten(job[x])
      PROVE  /\ ~HalfWritten(job[x])'
             /\ Rows(job[x])' = Rows(job[x]) /\ job'[x].doomed = job[x].doomed
  <2>1. Refers(job[x]) /\ job[x].role \in Roles
    BY <1>3 DEF InsertsWait, Typed, RequestsTyped, Job
  <2>2. /\ job'[x].op = job[x].op /\ job'[x].target = job[x].target /\ job'[x].role = job[x].role
    BY <1>3 DEF InsertsWait
  <2> QED BY <1>3, <2>1, <2>2 DEF HalfWritten, Rows, Refers, Known
<1>4. \A p \in Requests : Alone(p)'
  BY <1>3, AloneStays DEF WholeInv
<1> QED BY <1>1, <1>2, <1>4 DEF WholeInv

(* Requests that arrive, read, are refused or write something else. *)
LEMMA QuietHandlers ==
    ASSUME Typed, WholeInv, NEW p \in Requests,
           \/ requirePermission(p) \/ read(p) \/ setUserActive(p)
           \/ Refuse(p) /\ UNCHANGED <<signingIn, seed>>
           \/ \E u \in Users : Request(p, u)
    PROVE  WholeInv'
<1> USE DEF tables, history
<1>1. ASSUME NEW step \in Steps \ {"insert"}, pc' = [pc EXCEPT ![p] = step],
             \A x \in Requests \ {p} : job'[x] = job[x],
             UNCHANGED <<held, grants, assigned, granted, written, signingIn, seed>>
      PROVE  WholeInv'
  <2>1. InsertsWait
    BY <1>1 DEF InsertsWait, Typed, RequestsTyped
  <2>2. \A x \in Requests : pc'[x] = "insert" => job'[x].doomed = job[x].doomed
    BY <1>1 DEF Typed, RequestsTyped
  <2> QED BY <1>1, <2>1, <2>2, QuietWhole
<1>2. CASE Refuse(p) /\ UNCHANGED <<signingIn, seed>>
  BY <1>1, <1>2 DEF Refuse, Finish, Goto, Steps, Typed, RequestsTyped
<1>3. CASE requirePermission(p) /\ ~Refuse(p)
  BY <1>1, <1>3 DEF requirePermission, At, Goto, Steps
<1>4. CASE read(p) /\ ~Refuse(p)
  BY <1>1, <1>4 DEF read, At, Goto, Steps
<1>5. CASE setUserActive(p)
  BY <1>1, <1>5 DEF setUserActive, At, Finish, Goto, Steps, Typed, RequestsTyped
<1>6. ASSUME NEW u \in Users, Request(p, u) PROVE WholeInv'
  BY <1>1, <1>6, Arrives DEF Steps, Typed, RequestsTyped
<1> QED BY <1>2, <1>3, <1>4, <1>5, <1>6 DEF requirePermission, read, At

(* The seed between roles, and sign-ins. *)
LEMMA QuietOthers ==
    ASSUME Typed, WholeInv,
           \/ StartSeed \/ SeedDies \/ \E r \in Roles : SeedRole(r)
           \/ \E u \in Users : Login(u) \/ issueAuthenticatedSession(u) \/ RegistrationCut(u)
           \/ UNCHANGED vars
    PROVE  WholeInv'
<1> USE DEF tables, history, Seeds, NoSeed, SeedEnded
<1>1. CASE UNCHANGED <<pc, job>>
  <2>1. InsertsWait /\ \A x \in Requests : pc'[x] = "insert" => job'[x].doomed = job[x].doomed
    BY <1>1 DEF InsertsWait
  <2>2. CASE StartSeed \/ SeedDies
    BY <2>1, <2>2, QuietWhole DEF StartSeed, SeedDies
  <2>3. ASSUME NEW u \in Users, Login(u) \/ issueAuthenticatedSession(u) \/ RegistrationCut(u)
        PROVE  WholeInv'
    <3>1. \A v \in Users : signingIn'[v] = "registering" => signingIn[v] = "registering"
      BY <2>3 DEF Login, issueAuthenticatedSession, RegistrationCut, Typed, TablesTyped
    <3> QED BY <2>1, <2>3, <3>1, QuietWhole DEF Login, issueAuthenticatedSession, RegistrationCut
  <2>4. CASE UNCHANGED vars
    BY <2>1, <2>4, QuietWhole DEF vars
  <2>5. ASSUME NEW r \in Roles, SeedRole(r) PROVE WholeInv'
    BY <2>1, <2>5, QuietWhole DEF SeedRole
  <2> QED BY <2>2, <2>3, <2>4, <2>5
<1>2. ASSUME NEW r \in Roles, SeedRole(r) PROVE WholeInv'
  <2>1. InsertsWait
    BY <1>2, SeedMarks DEF InsertsWait, SeedRole, SameRequest
  <2>2. \A x \in Requests : pc'[x] = "insert" => job'[x].doomed = job[x].doomed
    BY <1>2, SeedMarks
  <2> QED BY <1>2, <2>1, <2>2, QuietWhole DEF SeedRole
<1> QED BY <1>1, <1>2
        DEF StartSeed, SeedDies, Login, issueAuthenticatedSession, RegistrationCut, vars

(* The DELETE of a replacement: whoever is at the same rows is raced. *)
LEMMA ClearWhole ==
    ASSUME Typed, WholeInv, NEW p \in Requests, clear(p)
    PROVE  WholeInv'
<1>1. /\ UNCHANGED <<tables, history, signingIn, seed, begun>> /\ pc[p] = "clear"
      /\ pc' = [pc EXCEPT ![p] = "insert"] /\ pc \in [Requests -> Steps]
  BY DEF clear, At, Goto, Typed, RequestsTyped
<1>2. ReplacementsAreWholeUnlessRaced' /\ Halves'
  BY <1>1 DEF tables, history, WholeInv, ReplacementsAreWholeUnlessRaced, Halves, RegistrationHalf,
              SeedHalf
<1>3. \A x \in Requests : SameRequest(job'[x], job[x])
  BY ClearMarks
<1>4. ASSUME NEW q \in Requests, pc'[q] = "insert", ~job'[q].raced
      PROVE  /\ Beside(q)' = {}
             /\ ~HalfWritten(job[q])'
             /\ ~job'[q].lost => Rows(job[q])' \subseteq job'[q].doomed
  <2>1. CASE q = p
    <3>1. Beside(p) = {} /\ ~HalfWritten(job[p]) /\ job'[p].doomed = Rows(job[p])
      BY <1>4, <2>1, ClearMarks
    <3>2. Beside(p)' \subseteq Beside(p)
      BY <1>1, <1>3 DEF Beside, Key, SameRequest
    <3>3. ~HalfWritten(job[p])' /\ Rows(job[p])' = Rows(job[p])
      BY <1>1, <1>3, <3>1 DEF HalfWritten, Rows, SameRequest, tables
    <3> QED BY <2>1, <3>1, <3>2, <3>3
  <2>2. CASE q # p
    <3>1. q \notin Beside(p) /\ job'[q] = job[q] /\ pc[q] = "insert"
      BY <1>1, <1>4, <2>2, ClearMarks
    <3>2. /\ Beside(q) = {} /\ ~HalfWritten(job[q])
          /\ ~job[q].lost => Rows(job[q]) \subseteq job[q].doomed
      BY <1>4, <3>1 DEF WholeInv, Alone
    <3>3. Beside(q)' = {}
      BY <1>1, <1>3, <2>2, <3>1, <3>2 DEF Beside, Key, SameRequest
    <3>4. ~HalfWritten(job[q])' /\ Rows(job[q])' = Rows(job[q])
      BY <1>1, <3>1, <3>2 DEF HalfWritten, Rows, tables
    <3> QED BY <3>1, <3>2, <3>3, <3>4
  <2> QED BY <2>1, <2>2
<1>5. \A q \in Requests : Alone(q)'
  BY <1>4 DEF Alone
<1> QED BY <1>2, <1>5 DEF WholeInv

(* The INSERT of a replacement: alone, it leaves what was asked for. *)
LEMMA InsertWhole ==
    ASSUME Typed, WholeInv, NEW p \in Requests, insert(p), ~Refuse(p)
    PROVE  WholeInv'
<1> DEFINE j == job[p]
<1>1. /\ pc[p] = "insert" /\ ~j.lost
      /\ pc' = [pc EXCEPT ![p] = "idle"] /\ job' = Released(p)
      /\ UNCHANGED <<user, session, role, signingIn, seed, begun, overtaken, crossed>>
      /\ Refers(j) /\ Replaces(j) /\ j \in Job
      /\ Key(j) \in Users \cup Roles
      /\ written' = [written EXCEPT ![Key(j)] =
                        IF j.raced \/ HalfWritten(j) THEN "mixed" ELSE "whole"]
  BY InsertDoes
<1>2. \/ /\ j.op = "setRoles" /\ Key(j) = j.target
         /\ j.target \in Users
         /\ held' = [held EXCEPT ![j.target] = Replaced(p)]
         /\ assigned' = [assigned EXCEPT ![j.target] = j.asked]
         /\ Replaced(p) \subseteq held[j.target] \cup j.asked
         /\ UNCHANGED <<grants, granted>>
      \/ /\ j.op = "setPermissions" /\ Key(j) = j.role
         /\ grants' = [grants EXCEPT ![j.role] = Replaced(p)]
         /\ granted' = [granted EXCEPT ![j.role] = j.asked]
         /\ Replaced(p) \subseteq grants[j.role] \cup j.asked
         /\ UNCHANGED <<held, assigned>>
  BY InsertDoes
<1>3. ~j.raced => Replaced(p) = j.asked /\ ~HalfWritten(j)
  BY <1>1 DEF WholeInv, Alone, Replaced
<1>4. j.role \in Roles /\ j.target \in Users \cup {None}
  BY <1>1 DEF Job
<1> HIDE DEF j
<1>5. ReplacementsAreWholeUnlessRaced'
  BY <1>1, <1>2, <1>3, <1>4, UsersAreNoRoles
     DEF WholeInv, ReplacementsAreWholeUnlessRaced, Typed, TablesTyped
<1>6. Halves'
  <2>1. ASSUME NEW u \in Users PROVE RegistrationHalf(u)'
    BY <1>1, <1>2, <1>3, <1>4, UsersAreNoRoles
       DEF WholeInv, Halves, RegistrationHalf, HalfWritten, Typed, TablesTyped
  <2>2. ASSUME NEW r \in Roles PROVE SeedHalf(r)'
    BY <1>1, <1>2, <1>3, <1>4, UsersAreNoRoles
       DEF WholeInv, Halves, SeedHalf, HalfWritten, Typed, TablesTyped
  <2> QED BY <2>1, <2>2 DEF Halves
<1>7. ASSUME NEW x \in Requests \ {p}
      PROVE  /\ pc'[x] = pc[x]
             /\ SameRequest(job'[x], job[x]) /\ job'[x].raced = job[x].raced
             /\ x \notin Beside(p) => job'[x] = job[x]
  BY <1>1, ReleaseMarks DEF Typed, RequestsTyped
<1>8. InsertsWait
  BY <1>1, <1>7 DEF InsertsWait, SameRequest, Typed, RequestsTyped
<1>9. ASSUME NEW x \in Requests, pc'[x] = "insert", ~job'[x].raced, ~HalfWritten(job[x])
      PROVE  /\ ~HalfWritten(job[x])'
             /\ ~job'[x].lost /\ Rows(job[x]) \subseteq job[x].doomed
                   => Rows(job[x])' \subseteq job'[x].doomed
  <2>1. x # p /\ pc[x] = "insert" /\ ~job[x].raced
    BY <1>1, <1>7, <1>9 DEF Typed, RequestsTyped
  <2>2. p \notin Beside(x)
    BY <2>1 DEF WholeInv, Alone
  <2>3. ~(job[x].op = j.op /\ Key(job[x]) = Key(j))
    BY <1>1, <2>1, <2>2 DEF Beside, j
  <2>4. x \notin Beside(p)
    BY <2>3 DEF Beside, j
  <2>5. job'[x] = job[x] /\ job[x] \in Job /\ Replaces(job[x]) /\ Refers(job[x])
    BY <1>7, <2>1, <2>4 DEF Typed, RequestsTyped, Checked
  <2>6. Rows(job[x])' = Rows(job[x])
    BY <1>2, <1>4, <2>3, <2>5 DEF Rows, Key, Replaces, Refers, Known, Job, Typed, TablesTyped
  <2>7. ~HalfWritten(job[x])'
    BY <1>1, <1>9, <2>5 DEF HalfWritten
  <2> QED BY <2>5, <2>6, <2>7
<1>10. \A q \in Requests : Alone(q)'
  BY <1>8, <1>9, AloneStays DEF WholeInv
<1> QED BY <1>5, <1>6, <1>10 DEF WholeInv

(* A role that is created has nobody else's rows. *)
LEMMA CreateWhole ==
    ASSUME Typed, WholeInv, NEW p \in Requests, createRole(p), ~Refuse(p)
    PROVE  WholeInv'
<1>1. PICK r : r = job[p].role
  OBVIOUS
<1>2. /\ r \in Roles /\ ~Exists(r) /\ pc[p] = "write"
      /\ Finish(p)
      /\ grants' = [grants EXCEPT ![r] = job[p].asked]
      /\ granted' = [granted EXCEPT ![r] = job[p].asked]
      /\ written' = [written EXCEPT ![r] = "whole"]
      /\ UNCHANGED <<user, session, held, assigned, overtaken, crossed, signingIn, seed>>
  BY <1>1 DEF createRole, At, Typed, RequestsTyped, Job
<1>3. ReplacementsAreWholeUnlessRaced'
  BY <1>2, UsersAreNoRoles DEF WholeInv, ReplacementsAreWholeUnlessRaced, Typed, TablesTyped
<1>4. Halves'
  <2>1. ASSUME NEW u \in Users PROVE RegistrationHalf(u)'
    BY <1>2, UsersAreNoRoles DEF WholeInv, Halves, RegistrationHalf, Typed, TablesTyped
  <2>2. ASSUME NEW x \in Roles PROVE SeedHalf(x)'
    <3>1. seed.role = r => seed.step # "fill"
      BY <1>2, TheRoles DEF Typed, RowsRefer, Existing
    <3> QED BY <1>2, <3>1, UsersAreNoRoles DEF WholeInv, Halves, SeedHalf, Typed, TablesTyped
  <2> QED BY <2>1, <2>2 DEF Halves
<1>5. \A x \in Requests \ {p} : pc'[x] = pc[x] /\ job'[x] = job[x]
  BY <1>2 DEF Finish, Goto, Typed, RequestsTyped
<1>6. InsertsWait
  BY <1>2, <1>5 DEF InsertsWait, Finish, Goto, Typed, RequestsTyped
<1>7. ASSUME NEW x \in Requests, pc'[x] = "insert", ~HalfWritten(job[x])
      PROVE  /\ ~HalfWritten(job[x])'
             /\ ~job'[x].lost => Rows(job[x])' = Rows(job[x]) /\ job'[x].doomed = job[x].doomed
  <2>1. x # p /\ pc[x] = "insert"
    BY <1>2, <1>7, <1>5 DEF Finish, Goto, Typed, RequestsTyped
  <2>2. job'[x] = job[x] /\ Refers(job[x]) /\ Replaces(job[x])
    BY <1>5, <2>1 DEF Typed, RequestsTyped, Checked
  <2> QED BY <1>2, <1>7, <2>2 DEF HalfWritten, Rows, Refers, Replaces, Typed, TablesTyped
<1>8. \A q \in Requests : Alone(q)'
  BY <1>6, <1>7, AloneStays DEF WholeInv
<1> QED BY <1>3, <1>4, <1>8 DEF WholeInv

(* Deleting a role takes the same rows from everybody. *)
LEMMA DeleteWhole ==
    ASSUME Typed, WholeInv, NEW p \in Requests, deleteRole(p), ~job[p].lost
    PROVE  WholeInv'
<1>1. PICK r : r = job[p].role
  OBVIOUS
<1>2. /\ r \in Roles /\ r # DefaultRole /\ Exists(r)
      /\ pc[p] # "idle" /\ pc' = [pc EXCEPT ![p] = "idle"]
      /\ grants' = [grants EXCEPT ![r] = {}]
      /\ granted' = [granted EXCEPT ![r] = {}]
      /\ held' = [u \in Users |-> held[u] \ {r}]
      /\ assigned' = [u \in Users |-> assigned[u] \ {r}]
      /\ seed' = IF seed.role = r /\ seed.step # "upsert" THEN SeedEnded ELSE seed
      /\ UNCHANGED <<user, session, signingIn, begun, written, overtaken, crossed>>
  BY <1>1, DeleteDoes
<1>3. ReplacementsAreWholeUnlessRaced'
  BY <1>2 DEF WholeInv, ReplacementsAreWholeUnlessRaced, Typed, TablesTyped
<1>4. Halves'
  <2>1. ASSUME NEW u \in Users PROVE RegistrationHalf(u)'
    BY <1>2, TheRoles DEF WholeInv, Halves, RegistrationHalf, Typed, TablesTyped
  <2>2. ASSUME NEW x \in Roles PROVE SeedHalf(x)'
    BY <1>2 DEF WholeInv, Halves, SeedHalf, Typed, TablesTyped, SeedEnded, NoSeed
  <2> QED BY <2>1, <2>2 DEF Halves
<1>5. ASSUME NEW x \in Requests \ {p}
      PROVE  /\ pc'[x] = pc[x] /\ job'[x].op = job[x].op
             /\ job'[x].target = job[x].target /\ job'[x].role = job[x].role
             /\ job'[x].raced = job[x].raced
             /\ job'[x].doomed = job[x].doomed \ {r}
             /\ ~job'[x].lost => ~job[x].lost /\ r \notin RefersTo(job[x])
  BY <1>1, <1>2, DeleteMarks DEF Typed, RequestsTyped
<1>6. InsertsWait
  BY <1>2, <1>5 DEF InsertsWait, Typed, RequestsTyped
<1>7. ASSUME NEW x \in Requests, pc'[x] = "insert", ~HalfWritten(job[x])
      PROVE  /\ ~HalfWritten(job[x])'
             /\ ~job'[x].lost /\ Rows(job[x]) \subseteq job[x].doomed
                   => Rows(job[x])' \subseteq job'[x].doomed
  <2>1. x # p /\ pc[x] = "insert"
    BY <1>2, <1>5, <1>7 DEF Typed, RequestsTyped
  <2>2. Refers(job[x]) /\ Replaces(job[x]) /\ job[x] \in Job
    BY <2>1 DEF Typed, RequestsTyped, Checked
  <2>3. ~HalfWritten(job[x])'
    BY <1>2, <1>5, <1>7, <2>1, <2>2 DEF HalfWritten, SeedEnded, NoSeed
  <2>4. CASE job[x].op = "setRoles"
    <3>1. Rows(job[x])' = Rows(job[x]) \ {r}
      BY <1>2, <1>5, <2>1, <2>2, <2>4 DEF Rows, Refers, Known
    <3> QED BY <1>5, <2>1, <2>3, <3>1
  <2>5. CASE job[x].op = "setPermissions" /\ ~job'[x].lost
    <3>1. job[x].role # r /\ job[x].role \in Roles
      BY <1>5, <2>1, <2>2, <2>5 DEF RefersTo, Job
    <3>2. Rows(job[x])' = Rows(job[x]) /\ Rows(job[x]) \subseteq Permissions
      BY <1>2, <1>5, <2>1, <2>5, <3>1 DEF Rows, Typed, TablesTyped
    <3>3. r \notin Permissions
      BY <1>2, TheRoles DEF Permissions
    <3> QED BY <1>5, <2>1, <2>3, <3>2, <3>3
  <2> QED BY <2>2, <2>3, <2>4, <2>5 DEF Replaces
<1>8. \A q \in Requests : Alone(q)'
  BY <1>6, <1>7, AloneStays DEF WholeInv
<1> QED BY <1>3, <1>4, <1>8 DEF WholeInv

(* A registration begins with no roles, and ends with the default one. *)
LEMMA RegisterWhole ==
    ASSUME Typed, WholeInv, NEW u \in Users, register(u)
    PROVE  WholeInv'
<1>1. /\ u \notin Known /\ held[u] = {}
      /\ signingIn' = [signingIn EXCEPT ![u] = "registering"]
      /\ assigned' = [assigned EXCEPT ![u] = {DefaultRole}]
      /\ written' = [written EXCEPT ![u] = "half"]
      /\ UNCHANGED <<session, role, grants, held, seed, pc, job, begun, granted>>
  BY DEF register, Known, Typed, RowsRefer
<1>2. ReplacementsAreWholeUnlessRaced'
  BY <1>1, UsersAreNoRoles DEF WholeInv, ReplacementsAreWholeUnlessRaced, Typed, TablesTyped
<1>3. Halves'
  BY <1>1, UsersAreNoRoles, TheRoles
     DEF WholeInv, Halves, RegistrationHalf, SeedHalf, Typed, TablesTyped
<1>4. InsertsWait
  BY <1>1 DEF InsertsWait
<1>5. ASSUME NEW x \in Requests, pc'[x] = "insert", ~HalfWritten(job[x])
      PROVE  ~HalfWritten(job[x])' /\ Rows(job[x])' = Rows(job[x])
  <2>1. Refers(job[x]) /\ Replaces(job[x])
    BY <1>1, <1>5 DEF Typed, RequestsTyped, Checked
  <2> QED BY <1>1, <1>5, <2>1 DEF HalfWritten, Rows, Refers, Replaces, Known, Typed, TablesTyped
<1>6. \A q \in Requests : Alone(q)'
  BY <1>1, <1>4, <1>5, AloneStays DEF WholeInv
<1> QED BY <1>2, <1>3, <1>6 DEF WholeInv

(* The default role is all that a registration has yet to assign. *)
LEMMA AssignWhole ==
    ASSUME Typed, WholeInv, NEW u \in Users, assignDefaultRole(u)
    PROVE  WholeInv'
<1>1. /\ signingIn[u] = "registering"
      /\ signingIn' = [signingIn EXCEPT ![u] = "no"]
      /\ held' = [held EXCEPT ![u] = @ \cup {DefaultRole}]
      /\ written' = [written EXCEPT ![u] = written'[u]]
      /\ UNCHANGED <<user, role, grants, seed, pc, job, begun, assigned, granted>>
  <2>1. {DefaultRole} \cap Existing = {DefaultRole}
    BY TheRoles DEF Existing, Exists, Typed, RowsRefer
  <2>2. held' = [held EXCEPT ![u] = @ \cup {DefaultRole}]
    BY <2>1 DEF assignDefaultRole
  <2>3. written' = [written EXCEPT ![u] = written'[u]]
    BY DEF assignDefaultRole, Completed, Typed, TablesTyped
  <2> QED BY <2>2, <2>3 DEF assignDefaultRole
<1>2. written'[u] = "whole" => written[u] = "half"
  BY <1>1 DEF assignDefaultRole, Completed, WholeInv, Halves, RegistrationHalf, Typed, TablesTyped
<1>3. ReplacementsAreWholeUnlessRaced'
  BY <1>1, <1>2, UsersAreNoRoles
     DEF WholeInv, ReplacementsAreWholeUnlessRaced, Halves, RegistrationHalf, Typed, TablesTyped
<1>4. Halves'
  <2>1. ASSUME NEW v \in Users PROVE RegistrationHalf(v)'
    BY <1>1 DEF WholeInv, Halves, RegistrationHalf, Typed, TablesTyped
  <2>2. ASSUME NEW r \in Roles PROVE SeedHalf(r)'
    BY <1>1, UsersAreNoRoles DEF WholeInv, Halves, SeedHalf, Typed, TablesTyped
  <2> QED BY <2>1, <2>2 DEF Halves
<1>5. InsertsWait
  BY <1>1 DEF InsertsWait
<1>6. ASSUME NEW x \in Requests, pc'[x] = "insert", ~HalfWritten(job[x])
      PROVE  ~HalfWritten(job[x])' /\ Rows(job[x])' = Rows(job[x])
  <2>1. Refers(job[x]) /\ Replaces(job[x])
    BY <1>1, <1>6 DEF Typed, RequestsTyped, Checked
  <2> QED BY <1>1, <1>6, <2>1 DEF HalfWritten, Rows, Refers, Replaces, Known, Typed, TablesTyped
<1>7. \A q \in Requests : Alone(q)'
  BY <1>1, <1>5, <1>6, AloneStays DEF WholeInv
<1> QED BY <1>3, <1>4, <1>7 DEF WholeInv

(* The seed empties a role, which races whoever replaces it, and fills it. *)
LEMMA SeedClearsWhole ==
    ASSUME Typed, WholeInv, NEW r \in Roles, SeedClears(r)
    PROVE  WholeInv'
<1>1. /\ seed.role = r /\ seed' = [NoSeed EXCEPT !.role = r, !.step = "fill"]
      /\ grants' = [grants EXCEPT ![r] = {}]
      /\ granted' = [granted EXCEPT ![r] = SystemGrants[r]]
      /\ written' = [written EXCEPT ![r] = "half"]
      /\ UNCHANGED <<user, session, signingIn, pc, begun, role, held, assigned>>
  BY DEF SeedClears, Seeds
<1>2. ReplacementsAreWholeUnlessRaced'
  BY <1>1, UsersAreNoRoles DEF WholeInv, ReplacementsAreWholeUnlessRaced, Typed, TablesTyped
<1>3. Halves'
  <2>1. ASSUME NEW u \in Users PROVE RegistrationHalf(u)'
    BY <1>1, UsersAreNoRoles DEF WholeInv, Halves, RegistrationHalf, Typed, TablesTyped
  <2>2. ASSUME NEW x \in Roles PROVE SeedHalf(x)'
    BY <1>1 DEF SeedHalf, NoSeed, Typed, TablesTyped
  <2> QED BY <2>1, <2>2 DEF Halves
<1>4. InsertsWait
  BY <1>1, SeedMarks DEF InsertsWait, SameRequest
<1>5. ASSUME NEW x \in Requests, pc'[x] = "insert", ~job'[x].raced, ~HalfWritten(job[x])
      PROVE  /\ ~HalfWritten(job[x])'
             /\ Rows(job[x])' = Rows(job[x]) /\ job'[x] = job[x]
  <2>1. job'[x] = job[x] /\ ~(job[x].op = "setPermissions" /\ job[x].role = r)
    BY <1>5, SeedMarks
  <2>2. Refers(job[x]) /\ Replaces(job[x])
    BY <1>1, <1>5 DEF Typed, RequestsTyped, Checked
  <2> QED BY <1>1, <1>5, <2>1, <2>2
          DEF HalfWritten, Rows, Replaces, NoSeed, Typed, TablesTyped
<1>6. \A q \in Requests : Alone(q)'
  BY <1>4, <1>5, AloneStays DEF WholeInv
<1> QED BY <1>2, <1>3, <1>6 DEF WholeInv

(* What the seed fills in is all that a role it has emptied has. *)
LEMMA SeedFillsWhole ==
    ASSUME Typed, WholeInv, NEW r \in Roles, SeedFills(r)
    PROVE  WholeInv'
<1>1. /\ seed.role = r /\ seed.step = "fill" /\ seed'.step # "fill"
      /\ grants' = [grants EXCEPT ![r] = @ \cup SystemGrants[r]]
      /\ written' = [written EXCEPT ![r] = written'[r]]
      /\ UNCHANGED <<user, session, signingIn, pc, begun, role, held, job, assigned, granted>>
  BY DEF SeedFills, Seeds, Completed, SeedEnded, NoSeed, Typed, TablesTyped
<1>2. written'[r] = "whole" => written[r] = "half"
  BY <1>1 DEF SeedFills, Completed, WholeInv, Halves, SeedHalf, Typed, TablesTyped
<1>3. ReplacementsAreWholeUnlessRaced'
  BY <1>1, <1>2, UsersAreNoRoles, TheRoles
     DEF WholeInv, ReplacementsAreWholeUnlessRaced, Halves, SeedHalf, Typed, TablesTyped
<1>4. Halves'
  <2>1. ASSUME NEW u \in Users PROVE RegistrationHalf(u)'
    BY <1>1, UsersAreNoRoles DEF WholeInv, Halves, RegistrationHalf, Typed, TablesTyped
  <2>2. ASSUME NEW x \in Roles PROVE SeedHalf(x)'
    BY <1>1 DEF SeedHalf
  <2> QED BY <2>1, <2>2 DEF Halves
<1>5. InsertsWait
  BY <1>1 DEF InsertsWait
<1>6. ASSUME NEW x \in Requests, pc'[x] = "insert", ~HalfWritten(job[x])
      PROVE  ~HalfWritten(job[x])' /\ Rows(job[x])' = Rows(job[x])
  <2>1. Refers(job[x]) /\ Replaces(job[x])
    BY <1>1, <1>6 DEF Typed, RequestsTyped, Checked
  <2> QED BY <1>1, <1>6, <2>1 DEF HalfWritten, Rows, Refers, Replaces, Typed, TablesTyped
<1>7. \A q \in Requests : Alone(q)'
  BY <1>1, <1>5, <1>6, AloneStays DEF WholeInv
<1> QED BY <1>3, <1>4, <1>7 DEF WholeInv

(* Replacing the roles of a user, or the permissions of a role, leaves     *)
(* exactly the set asked for, unless two writers of the same rows          *)
(* overlapped or one was cut short.                                        *)
THEOREM ReplacementsAreWhole == Spec => []ReplacementsAreWholeUnlessRaced
<1>1. Init => WholeInv
  BY TheRoles DEF Init, WholeInv, ReplacementsAreWholeUnlessRaced, Alone, Halves, RegistrationHalf,
                  SeedHalf, NoSeed
<1>2. ASSUME Typed, WholeInv, [Next]_vars PROVE WholeInv'
  <2>1. ASSUME NEW p \in Requests, Handle(p) PROVE WholeInv'
    <3>1. CASE deleteRole(p)
      <4>1. job[p].lost => Refuse(p) /\ UNCHANGED <<signingIn, seed>>
        BY <3>1 DEF deleteRole
      <4> QED BY <1>2, <3>1, <4>1, QuietHandlers, DeleteWhole
    <3>2. CASE (insert(p) \/ createRole(p)) /\ Refuse(p)
      BY <1>2, <3>2, QuietHandlers DEF insert, createRole, At
    <3> QED BY <1>2, <2>1, <3>1, <3>2, QuietHandlers, ClearWhole, InsertWhole, CreateWhole
            DEF Handle
  <2>2. ASSUME NEW p \in Requests, NEW u \in Users, Request(p, u) PROVE WholeInv'
    BY <1>2, <2>2, QuietHandlers
  <2>3. ASSUME NEW u \in Users, Sign(u) PROVE WholeInv'
    BY <1>2, <2>3, QuietOthers, RegisterWhole, AssignWhole DEF Sign
  <2>4. CASE Seed \/ UNCHANGED vars
    BY <1>2, <2>4, QuietOthers, SeedClearsWhole, SeedFillsWhole DEF Seed
  <2> QED BY <1>2, <2>1, <2>2, <2>3, <2>4 DEF Next
<1>3. WholeInv => ReplacementsAreWholeUnlessRaced
  BY DEF WholeInv
<1> QED BY <1>1, <1>2, <1>3, AccessIsTyped, PTL DEF Spec
===============================================================================
