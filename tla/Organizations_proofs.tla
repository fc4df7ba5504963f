------------------------- MODULE Organizations_proofs -------------------------
(***************************************************************************)
(* Who owns an organization, whom an invitation admits and who is in its   *)
(* teams, for any number of users, invitations, teams and requests at a    *)
(* time.                                                                   *)
(***************************************************************************)
EXTENDS Organizations, FiniteSetTheorems, TLAPS

GivenRoles == (Roles \ {"OWNER"}) \cup {"none"}
Job == [op : Ops \cup {"none"}, user : Users \cup {None}, target : Users \cup {None},
        role : GivenRoles, invite : Invites \cup {None}, team : Teams \cup {None}]

(* The local variables that an operation has. *)
WellFormed(j) ==
    /\ j.op # "none" => j.user \in Users
    /\ j.op \in TargetedOps \cup {"leave", "addToTeam", "removeFromTeam"} => j.target \in Users
    /\ j.op = "transfer" => j.target # j.user
    /\ j.op = "leave" => j.target = j.user
    /\ j.op \in TeamOps => j.team \in Teams
    /\ j.op = "accept" => j.invite \in Invites

JobsWellFormed == \A r \in Requests : WellFormed(job[r])

Typed == TypeOK /\ JobsWellFormed

-------------------------------------------------------------------------------
(* How a step changes the requests. *)
OthersGoOn(r) ==
    \A q \in Requests \ {r} : pc'[q] = pc[q] /\ job'[q] = job[q]

LEMMA AnsweredRequest ==
    ASSUME TypeOK, NEW r \in Requests, Finish(r)
    PROVE  pc'[r] = "idle" /\ job'[r] = NoJob /\ OthersGoOn(r)
BY DEF Finish, OthersGoOn, TypeOK

LEMMA BegunRequest ==
    ASSUME TypeOK, NEW r \in Requests, NEW step, NEW j, Begin(r, step, j)
    PROVE  /\ pc[r] = "idle" /\ pc'[r] = step /\ job'[r] = j /\ OthersGoOn(r)
           /\ begun' \in 0 .. MaxOps /\ UNCHANGED <<tables, admitted, raced>>
BY MaxOpsIsNatural DEF Begin, OthersGoOn, TypeOK

LEMMA CheckedRequest ==
    ASSUME TypeOK, NEW r \in Requests, NEW ok, NEW step, Check(r, ok, step)
    PROVE  /\ \/ ok /\ pc'[r] = step /\ job'[r] = job[r]
              \/ pc'[r] = "idle" /\ job'[r] = NoJob
           /\ OthersGoOn(r) /\ UNCHANGED <<tables, begun, admitted, raced>>
BY AnsweredRequest DEF Check, OthersGoOn, TypeOK

(* The requests that arrive. *)
LEMMA ArrivingJobs ==
    ASSUME NEW r \in Requests, NEW u \in Users, Arrive(r, u)
    PROVE  \E j \in Job : Ask(r, j) /\ WellFormed(j) /\ j.op \in Ops \ {"accept"}
<1> DEFINE by(op) == [NoJob EXCEPT !.op = op, !.user = u]
           Fine(j) == j \in Job /\ WellFormed(j) /\ j.op \in Ops \ {"accept"}
<1> USE DEF Ops, TargetedOps, TeamOps, GrantableRoles, Roles, GivenRoles
<1>1. Fine(by("delete")) BY DEF NoJob, Job, WellFormed
<1>2. Fine([by("leave") EXCEPT !.target = u]) BY DEF NoJob, Job, WellFormed
<1>3. ASSUME NEW g \in GrantableRoles PROVE Fine([by("invite") EXCEPT !.role = g])
  BY <1>3 DEF NoJob, Job, WellFormed
<1>4. Fine(by("createTeam")) BY DEF NoJob, Job, WellFormed
<1>5. ASSUME NEW v \in Users, NEW g \in GrantableRoles
      PROVE  Fine([by("changeRole") EXCEPT !.target = v, !.role = g])
  BY DEF NoJob, Job, WellFormed
<1>6. ASSUME NEW v \in Users PROVE Fine([by("remove") EXCEPT !.target = v])
  BY DEF NoJob, Job, WellFormed
<1>7. ASSUME NEW v \in Users, v # u PROVE Fine([by("transfer") EXCEPT !.target = v])
  BY <1>7 DEF NoJob, Job, WellFormed
<1>8. ASSUME NEW v \in Users, NEW t \in Teams, NEW op \in {"addToTeam", "removeFromTeam"}
      PROVE  Fine([by(op) EXCEPT !.target = v, !.team = t])
  BY DEF NoJob, Job, WellFormed
<1>9. ASSUME NEW t \in Teams PROVE Fine([by("deleteTeam") EXCEPT !.team = t])
  BY DEF NoJob, Job, WellFormed
<1> SUFFICES \E j : Ask(r, j) /\ Fine(j) OBVIOUS
<1> HIDE DEF Fine, Ops, TargetedOps, TeamOps, GrantableRoles, Roles, GivenRoles
<1>10. CASE Ask(r, by("delete")) BY <1>1, <1>10
<1>11. CASE Ask(r, [by("leave") EXCEPT !.target = u]) BY <1>2, <1>11
<1>12. CASE \E g \in GrantableRoles : Ask(r, [by("invite") EXCEPT !.role = g])
  BY <1>3, <1>12
<1>13. CASE Ask(r, by("createTeam")) BY <1>4, <1>13
<1>14. CASE \E v \in Users, g \in GrantableRoles :
               Ask(r, [by("changeRole") EXCEPT !.target = v, !.role = g])
  BY <1>5, <1>14
<1>15. CASE \E v \in Users : Ask(r, [by("remove") EXCEPT !.target = v]) BY <1>6, <1>15
<1>16. CASE \E v \in Users : v # u /\ Ask(r, [by("transfer") EXCEPT !.target = v])
  BY <1>7, <1>16
<1>17. CASE \E v \in Users, t \in Teams, op \in {"addToTeam", "removeFromTeam"} :
               Ask(r, [by(op) EXCEPT !.target = v, !.team = t])
  BY <1>8, <1>17
<1>18. CASE \E t \in Teams : Ask(r, [by("deleteTeam") EXCEPT !.team = t]) BY <1>9, <1>18
<1> QED BY <1>10, <1>11, <1>12, <1>13, <1>14, <1>15, <1>16, <1>17, <1>18 DEF Arrive

-------------------------------------------------------------------------------
(* Types.  Requests that begin, read, or end; then the tables. *)
LEMMA InitTyped == Init => Typed
<1> SUFFICES ASSUME Init PROVE Typed OBVIOUS
<1>1. NoJob \in Job BY DEF NoJob, Job, GivenRoles
<1>2. TypeOK
  <2>1. role \in [Users -> Roles \cup {"none"}] BY DEF Init
  <2>2. invite \in [Invites -> [state : {"none", "open", "accepted", "expired"},
                                role : (Roles \ {"OWNER"}) \cup {"none"}]] BY DEF Init
  <2>3. job \in [Requests -> Job] BY <1>1 DEF Init
  <2> QED BY <2>1, <2>2, <2>3, MaxOpsIsNatural DEF Init, TypeOK, Job, GivenRoles
<1>3. WellFormed(NoJob) BY DEF WellFormed, NoJob, TargetedOps, TeamOps
<1> QED BY <1>2, <1>3 DEF Init, Typed, JobsWellFormed

RequestsTyped ==
    /\ pc \in [Requests -> {"idle", "membership", "team", "target", "write"}]
    /\ job \in [Requests -> Job]
    /\ \A r \in Requests : pc[r] = "idle" <=> job[r] = NoJob
    /\ JobsWellFormed

TablesTyped ==
    /\ org \in [owner : Users \cup {None}, deleted : BOOLEAN]
    /\ role \in [Users -> Roles \cup {"none"}]
    /\ invite \in [Invites -> [state : {"none", "open", "accepted", "expired"}, role : GivenRoles]]
    /\ team \in [Teams -> {"none", "live", "deleted"}]
    /\ inTeam \subseteq Teams \X Users
    /\ admitted \in [Invites \cup {None} -> SUBSET Users]

LEMMA TypedParts ==
    Typed <=> /\ RequestsTyped /\ TablesTyped
              /\ begun \in 0 .. MaxOps /\ raced \subseteq {"ownership", "invitation"}
BY DEF Typed, TypeOK, RequestsTyped, TablesTyped, Job, GivenRoles

LEMMA PartsTyped ==
    ASSUME RequestsTyped', TablesTyped', begun' \in 0 .. MaxOps,
           raced' \subseteq {"ownership", "invitation"}
    PROVE  Typed'
BY DEF Typed, TypeOK, RequestsTyped, TablesTyped, Job, GivenRoles

(* A request that goes to a step with well-formed variables. *)
LEMMA RequestTyped ==
    ASSUME RequestsTyped, NEW r \in Requests,
           NEW step \in {"idle", "membership", "team", "target", "write"},
           NEW j \in Job, WellFormed(j), step = "idle" <=> j = NoJob,
           pc' = [pc EXCEPT ![r] = step], job' = [job EXCEPT ![r] = j]
    PROVE  RequestsTyped'
BY DEF RequestsTyped, JobsWellFormed

LEMMA FinishTyped ==
    ASSUME RequestsTyped, NEW r \in Requests, Finish(r)
    PROVE  RequestsTyped'
<1>1. NoJob \in Job BY DEF NoJob, Job, GivenRoles
<1>2. WellFormed(NoJob) BY DEF WellFormed, NoJob, TargetedOps, TeamOps
<1> QED BY <1>1, <1>2, RequestTyped DEF Finish

LEMMA BeginTyped ==
    ASSUME Typed, NEW r \in Requests, NEW step \in {"membership", "write"},
           NEW j \in Job, WellFormed(j), j.op \in Ops, Begin(r, step, j)
    PROVE  Typed'
<1>1. j # NoJob BY DEF NoJob, Ops, TargetedOps, TeamOps
<1>2. RequestsTyped' BY <1>1, RequestTyped, TypedParts DEF Begin
<1>3. begun' \in 0 .. MaxOps /\ UNCHANGED <<tables, admitted, raced>>
  BY BegunRequest DEF Typed
<1>4. TablesTyped' BY <1>3, TypedParts DEF TablesTyped, tables
<1>5. raced' \subseteq {"ownership", "invitation"} BY <1>3, TypedParts
<1> QED BY <1>2, <1>3, <1>4, <1>5, PartsTyped

LEMMA CheckTyped ==
    ASSUME Typed, NEW r \in Requests, NEW step \in {"team", "target", "write"}, NEW ok,
           pc[r] # "idle", Check(r, ok, step)
    PROVE  Typed'
<1>1. RequestsTyped'
  <2>1. CASE pc' = [pc EXCEPT ![r] = step] /\ UNCHANGED job
    <3>1. job[r] \in Job /\ WellFormed(job[r]) /\ job[r] # NoJob
      BY TypedParts DEF RequestsTyped, JobsWellFormed
    <3>2. job' = [job EXCEPT ![r] = job[r]] BY <2>1, TypedParts DEF RequestsTyped
    <3> QED BY <2>1, <3>1, <3>2, RequestTyped, TypedParts
  <2>2. CASE Finish(r) BY <2>2, FinishTyped, TypedParts
  <2> QED BY <2>1, <2>2 DEF Check
<1>2. UNCHANGED <<tables, begun, admitted, raced>> BY DEF Check
<1>3. TablesTyped' BY <1>2, TypedParts DEF TablesTyped, tables
<1> QED BY <1>1, <1>2, <1>3, TypedParts, PartsTyped

LEMMA WriteTyped ==
    ASSUME Typed, NEW r \in Requests, NEW op, Write(r, op), TablesTyped'
    PROVE  Typed'
<1>1. RequestsTyped' BY FinishTyped, TypedParts DEF Write
<1>2. RacesOf(r) \subseteq {"ownership", "invitation"} BY DEF RacesOf
<1>3. raced' \subseteq {"ownership", "invitation"} BY <1>2, TypedParts DEF Write
<1>4. begun' = begun BY DEF Write
<1> QED BY <1>1, <1>3, <1>4, TypedParts, PartsTyped

LEMMA JobsTyped ==
    ASSUME Typed, NEW r \in Requests
    PROVE  job[r] \in Job /\ WellFormed(job[r])
BY TypedParts DEF RequestsTyped, JobsWellFormed

LEMMA TypeStep == Typed /\ [Next]_vars => Typed'
<1> SUFFICES ASSUME Typed, [Next]_vars PROVE Typed' OBVIOUS
<1>0. TablesTyped BY TypedParts
<1>1. ASSUME NEW u \in Users, createOrganization(u) PROVE Typed'
  <2>1. TablesTyped' BY <1>0, <1>1 DEF createOrganization, TablesTyped, Roles
  <2>2. RequestsTyped' BY <1>1, TypedParts DEF createOrganization, RequestsTyped, JobsWellFormed
  <2> QED BY <1>1, <2>1, <2>2, TypedParts, PartsTyped DEF createOrganization
<1>2. ASSUME NEW r \in Requests, NEW u \in Users, Arrive(r, u) PROVE Typed'
  <2>1. PICK j \in Job : Ask(r, j) /\ WellFormed(j) /\ j.op \in Ops \ {"accept"}
    BY <1>2, ArrivingJobs
  <2> QED BY <2>1, BeginTyped DEF Ask
<1>3. ASSUME NEW r \in Requests, NEW u \in Users, NEW i \in Invites, FollowInvite(r, u, i)
      PROVE  Typed'
  <2> DEFINE j == [NoJob EXCEPT !.op = "accept", !.user = u, !.invite = i,
                                !.role = invite[i].role]
  <2>1. invite[i].role \in GivenRoles BY <1>0 DEF TablesTyped
  <2>2. j \in Job BY <2>1 DEF NoJob, Job, Ops
  <2>3. j.op = "accept" /\ j.user \in Users /\ j.invite \in Invites BY DEF NoJob
  <2>4. Begin(r, "write", j) BY <1>3 DEF FollowInvite
  <2> HIDE DEF j
  <2>5. WellFormed(j) BY <2>3 DEF WellFormed, TargetedOps, TeamOps
  <2>6. j.op \in Ops BY <2>3 DEF Ops
  <2> QED BY <2>2, <2>4, <2>5, <2>6, BeginTyped
<1>4. ASSUME NEW r \in Requests, requireMembership(r) PROVE Typed'
  BY <1>4, CheckTyped DEF requireMembership
<1>5. ASSUME NEW r \in Requests, requireTeam(r) PROVE Typed'
  BY <1>5, CheckTyped DEF requireTeam
<1>6. ASSUME NEW r \in Requests, ReadTarget(r) PROVE Typed'
  BY <1>6, CheckTyped DEF ReadTarget
<1>7. ASSUME NEW r \in Requests, deleteOrganization(r) PROVE Typed'
  <2>1. TablesTyped' BY <1>0, <1>7 DEF deleteOrganization, TablesTyped
  <2> QED BY <1>7, <2>1, WriteTyped DEF deleteOrganization
<1>8. ASSUME NEW r \in Requests, changeMemberRole(r) PROVE Typed'
  <2>1. job[r].role \in GivenRoles BY JobsTyped DEF Job
  <2>2. TablesTyped' BY <1>0, <1>8, <2>1 DEF changeMemberRole, TablesTyped, GivenRoles
  <2> QED BY <1>8, <2>2, WriteTyped DEF changeMemberRole
<1>9. ASSUME NEW r \in Requests, removeMember(r) PROVE Typed'
  <2>1. TablesTyped' BY <1>0, <1>9 DEF removeMember, TablesTyped
  <2> QED BY <1>9, <2>1, WriteTyped DEF removeMember
<1>10. ASSUME NEW r \in Requests, transferOwnership(r) PROVE Typed'
  <2>1. Write(r, "transfer") /\ UNCHANGED <<invite, team, inTeam, admitted>>
    BY <1>10 DEF transferOwnership
  <2>2. job[r].target \in Users
    BY <2>1, JobsTyped DEF Write, WellFormed, TargetedOps
  <2>3. org' \in [owner : Users \cup {None}, deleted : BOOLEAN]
    BY <1>0, <1>10, <2>2 DEF transferOwnership, TablesTyped
  <2>4. role' \in [Users -> Roles \cup {"none"}]
    BY <1>0, <1>10 DEF transferOwnership, TablesTyped, Roles
  <2>5. TablesTyped' BY <1>0, <2>1, <2>3, <2>4 DEF TablesTyped
  <2> QED BY <2>1, <2>5, WriteTyped
<1>11. ASSUME NEW r \in Requests, NEW i \in Invites, inviteMember(r, i) PROVE Typed'
  <2>1. job[r].role \in GivenRoles BY JobsTyped DEF Job
  <2>2. TablesTyped' BY <1>0, <1>11, <2>1 DEF inviteMember, TablesTyped
  <2> QED BY <1>11, <2>2, WriteTyped DEF inviteMember
<1>12. ASSUME NEW r \in Requests, acceptInvite(r) PROVE Typed'
  <2>1. job[r].role \in GivenRoles BY JobsTyped DEF Job
  <2>2. job[r].user \in Users /\ job[r].invite \in Invites
    BY <1>12, JobsTyped DEF acceptInvite, Write, WellFormed
  <2>3. TablesTyped'
    BY <1>0, <1>12, <2>1, <2>2 DEF acceptInvite, TablesTyped, GivenRoles
  <2> QED BY <1>12, <2>3, WriteTyped DEF acceptInvite
<1>13. ASSUME NEW r \in Requests, NEW t \in Teams, createTeam(r, t) PROVE Typed'
  <2>1. TablesTyped' BY <1>0, <1>13 DEF createTeam, TablesTyped
  <2> QED BY <1>13, <2>1, WriteTyped DEF createTeam
<1>14. ASSUME NEW r \in Requests, deleteTeam(r) PROVE Typed'
  <2>1. TablesTyped' BY <1>0, <1>14 DEF deleteTeam, TablesTyped
  <2> QED BY <1>14, <2>1, WriteTyped DEF deleteTeam
<1>15. ASSUME NEW r \in Requests, addTeamMember(r) PROVE Typed'
  <2>1. job[r].team \in Teams /\ job[r].target \in Users
    BY <1>15, JobsTyped DEF addTeamMember, Write, WellFormed, TeamOps
  <2>2. TablesTyped' BY <1>0, <1>15, <2>1 DEF addTeamMember, TablesTyped
  <2> QED BY <1>15, <2>2, WriteTyped DEF addTeamMember
<1>16. ASSUME NEW r \in Requests, removeTeamMember(r) PROVE Typed'
  <2>1. TablesTyped' BY <1>0, <1>16 DEF removeTeamMember, TablesTyped
  <2> QED BY <1>16, <2>1, WriteTyped DEF removeTeamMember
<1>17. ASSUME NEW i \in Invites, ExpireInvite(i) PROVE Typed'
  <2>1. TablesTyped' BY <1>0, <1>17 DEF ExpireInvite, TablesTyped
  <2>2. RequestsTyped' BY <1>17, TypedParts DEF ExpireInvite, RequestsTyped, JobsWellFormed
  <2> QED BY <1>17, <2>1, <2>2, TypedParts, PartsTyped DEF ExpireInvite
<1>18. ASSUME NEW r \in Requests, Crash(r) PROVE Typed'
  <2>1. UNCHANGED <<tables, begun, admitted, raced>> BY <1>18 DEF Crash
  <2>2. TablesTyped' BY <1>0, <2>1 DEF TablesTyped, tables
  <2>3. RequestsTyped' BY <1>18, FinishTyped, TypedParts DEF Crash
  <2> QED BY <2>1, <2>2, <2>3, TypedParts, PartsTyped
<1>19. CASE UNCHANGED vars
  <2>1. TablesTyped' BY <1>0, <1>19 DEF TablesTyped, vars, tables
  <2>2. RequestsTyped' BY <1>19, TypedParts DEF vars, RequestsTyped, JobsWellFormed
  <2> QED BY <1>19, <2>1, <2>2, TypedParts, PartsTyped DEF vars
<1> QED
  BY <1>1, <1>2, <1>3, <1>4, <1>5, <1>6, <1>7, <1>8, <1>9, <1>10, <1>11, <1>12, <1>13,
     <1>14, <1>15, <1>16, <1>17, <1>18, <1>19 DEF Next, Handle

(* Rows are well typed and requests well formed. *)
THEOREM TypesKept == Spec => []Typed
<1> QED BY InitTyped, TypeStep, PTL DEF Spec

-------------------------------------------------------------------------------
(* The steps that the operations take. *)
OnPath(r) ==
    /\ pc[r] = "team" => job[r].op \in TeamOps
    /\ pc[r] = "target" => job[r].op \in TargetedOps \cup TeamOps

PathsKept == \A r \in Requests : OnPath(r)

LEMMA PathStep == Typed /\ PathsKept /\ [Next]_vars => PathsKept'
<1> SUFFICES ASSUME Typed, PathsKept, [Next]_vars PROVE PathsKept' OBVIOUS
<1>1. ASSUME NEW r \in Requests, OthersGoOn(r), pc'[r] \notin {"team", "target"}
      PROVE  PathsKept'
  BY <1>1 DEF PathsKept, OnPath, OthersGoOn
<1>2. ASSUME NEW r \in Requests, NEW u \in Users, Arrive(r, u) PROVE PathsKept'
  <2>1. PICK j \in Job : Ask(r, j) BY <1>2, ArrivingJobs
  <2> QED BY <1>1, <2>1, BegunRequest DEF Ask, Typed
<1>3. ASSUME NEW r \in Requests, NEW u \in Users, NEW i \in Invites, FollowInvite(r, u, i)
      PROVE  PathsKept'
  BY <1>1, <1>3, BegunRequest DEF FollowInvite, Typed
<1>4. ASSUME NEW r \in Requests, requireMembership(r) PROVE PathsKept'
  <2>1. OthersGoOn(r) BY <1>4, CheckedRequest DEF requireMembership, Typed
  <2>2. CASE pc'[r] = "idle" BY <1>1, <2>1, <2>2
  <2>3. CASE /\ job'[r] = job[r]
             /\ pc'[r] = CASE job[r].op \in TeamOps -> "team"
                           [] job[r].op \in TargetedOps -> "target"
                           [] OTHER -> "write"
    <3>1. OnPath(r)' BY <2>3 DEF OnPath, TeamOps, TargetedOps
    <3> QED BY <2>1, <3>1 DEF PathsKept, OnPath, OthersGoOn
  <2> QED BY <1>4, <2>2, <2>3, CheckedRequest DEF requireMembership, Typed
<1>5. ASSUME NEW r \in Requests, requireTeam(r) PROVE PathsKept'
  <2>1. OthersGoOn(r) BY <1>5, CheckedRequest DEF requireTeam, Typed
  <2>2. CASE pc'[r] = "idle" BY <1>1, <2>1, <2>2
  <2>3. CASE job'[r] = job[r] /\ pc'[r] \in {"write", "target"}
    <3>1. OnPath(r)' BY <1>5, <2>3 DEF PathsKept, OnPath, requireTeam
    <3> QED BY <2>1, <3>1 DEF PathsKept, OnPath, OthersGoOn
  <2> QED BY <1>5, <2>2, <2>3, CheckedRequest DEF requireTeam, Typed
<1>6. ASSUME NEW r \in Requests, ReadTarget(r) PROVE PathsKept'
  BY <1>1, <1>6, CheckedRequest DEF ReadTarget, Typed
<1>7. ASSUME NEW r \in Requests, Finish(r) PROVE PathsKept'
  BY <1>1, <1>7, AnsweredRequest DEF Typed
<1>8. CASE UNCHANGED <<pc, job>> BY <1>8 DEF PathsKept, OnPath
<1>9. ASSUME NEW r \in Requests, Handle(r) PROVE PathsKept'
  <2>1. CASE \E op : Write(r, op) BY <1>7, <2>1 DEF Write
  <2> QED BY <1>4, <1>5, <1>6, <1>9, <2>1
          DEF Handle, deleteOrganization, changeMemberRole, removeMember, transferOwnership,
              acceptInvite, inviteMember, createTeam, deleteTeam, addTeamMember,
              removeTeamMember
<1>10. CASE Next
  <2>1. CASE \E u \in Users : createOrganization(u) BY <1>8, <2>1 DEF createOrganization
  <2>2. CASE \E i \in Invites : ExpireInvite(i) BY <1>8, <2>2 DEF ExpireInvite
  <2>3. CASE \E r \in Requests : Crash(r) BY <1>7, <2>3 DEF Crash
  <2> QED BY <1>2, <1>3, <1>9, <1>10, <2>1, <2>2, <2>3 DEF Next
<1>11. CASE UNCHANGED vars BY <1>8, <1>11 DEF vars
<1> QED BY <1>10, <1>11

LEMMA PathsAlwaysKept == Spec => []PathsKept
<1>1. Init => PathsKept BY DEF Init, PathsKept, OnPath
<1> QED BY <1>1, PathStep, TypesKept, PTL DEF Spec

-------------------------------------------------------------------------------
(* The ownership. *)

(* What a request has read of it and relies on until it writes. *)
OwnerRelies(r) ==
    /\ pc[r] = "write" /\ job[r].op \in {"changeRole", "remove", "leave"} =>
          job[r].target \notin Owners
    /\ pc[r] \in {"target", "write"} /\ job[r].op = "transfer" => job[r].user \in Owners

OwnershipKept == "ownership" \notin raced => OneOwner /\ \A r \in Requests : OwnerRelies(r)

(* Before there is an organization nobody is in it. *)
Founded ==
    org.owner = None => /\ Owners = {} /\ admitted[None] = {}
                        /\ \A r \in Requests : job[r].op \notin MembershipOps

OwnersInv == Founded /\ OwnershipKept

(* The operations that a write of r races with are not under way. *)
LEMMA Undisturbed ==
    ASSUME Typed, NEW r \in Requests, NEW op \in MembershipOps, Write(r, op),
           "ownership" \notin raced',
           NEW q \in Requests \ {r}, job[q].op \in MembershipOps
    PROVE  op # "transfer" /\ job[q].op # "transfer"
<1>1. job[q] # NoJob BY DEF NoJob, MembershipOps
<1>2. pc[q] # "idle" BY <1>1 DEF Typed, TypeOK
<1>3. "ownership" \notin RacesOf(r) /\ job[r].op = op BY DEF Write
<1> DEFINE others == {job[x] : x \in {x \in Requests \ {r} : pc[x] # "idle"}}
<1>4. job[q] \in others BY <1>2
<1>5. ~ ("transfer" \in {op, job[q].op} /\ {op, job[q].op} \subseteq MembershipOps)
  BY <1>3, <1>4 DEF RacesOf
<1> QED BY <1>5

(* A step that leaves the owners as they are, and of the requests changes  *)
(* at most r.                                                              *)
LEMMA OwnersSame ==
    ASSUME OwnersInv, NEW r \in Requests, OthersGoOn(r),
           Owners' = Owners, UNCHANGED org, raced \subseteq raced',
           admitted'[None] = admitted[None],
           org.owner # None \/ job'[r].op \notin MembershipOps,
           "ownership" \notin raced => OwnerRelies(r)'
    PROVE  OwnersInv'
<1>1. Founded' BY DEF OwnersInv, Founded, OthersGoOn
<1>2. ASSUME "ownership" \notin raced' PROVE OneOwner' /\ \A q \in Requests : OwnerRelies(q)'
  <2>1. "ownership" \notin raced BY <1>2
  <2>2. OneOwner' BY <2>1 DEF OwnersInv, OwnershipKept, OneOwner
  <2>3. \A q \in Requests \ {r} : OwnerRelies(q)'
    BY <2>1 DEF OwnersInv, OwnershipKept, OwnerRelies, OthersGoOn
  <2> QED BY <2>1, <2>2, <2>3
<1> QED BY <1>1, <1>2 DEF OwnersInv, OwnershipKept

LEMMA SameRoles == ASSUME role' = role PROVE Owners' = Owners
BY DEF Owners

(* Writing ends a request, which then relies on nothing. *)
LEMMA WriteEnds ==
    ASSUME Typed, NEW r \in Requests, NEW op, Write(r, op)
    PROVE  /\ OthersGoOn(r) /\ raced \subseteq raced' /\ pc'[r] = "idle"
           /\ job[r].op = op /\ pc[r] = "write"
           /\ job'[r].op \notin MembershipOps \cup {"accept", "addToTeam"}
           /\ OwnerRelies(r)'
<1>1. pc'[r] = "idle" /\ job'[r] = NoJob /\ OthersGoOn(r)
  BY AnsweredRequest DEF Write, Typed
<1>2. NoJob.op \notin MembershipOps \cup {"accept", "addToTeam"} BY DEF NoJob, MembershipOps
<1> QED BY <1>1, <1>2 DEF Write, OwnerRelies

(* A write that leaves the owners alone. *)
LEMMA OwnersAfterWrite ==
    ASSUME Typed, OwnersInv, NEW r \in Requests, NEW op, Write(r, op),
           Owners' = Owners, UNCHANGED org, admitted'[None] = admitted[None]
    PROVE  OwnersInv'
BY OwnersSame, WriteEnds

(* One that gives a member who is not an owner another role, or none. *)
LEMMA OwnersAfterDemotion ==
    ASSUME Typed, OwnersInv, NEW r \in Requests, NEW op \in {"changeRole", "remove", "leave"},
           Write(r, op), UNCHANGED <<org, admitted>>,
           NEW g, g # "OWNER", role' = [role EXCEPT ![job[r].target] = g]
    PROVE  OwnersInv'
<1>1. org.owner # None BY WriteEnds DEF OwnersInv, Founded, MembershipOps
<1>2. CASE "ownership" \in raced
  <2>1. "ownership" \in raced' BY <1>2, WriteEnds
  <2> QED BY <1>1, <2>1 DEF OwnersInv, OwnershipKept, Founded
<1>3. CASE "ownership" \notin raced
  <2>1. job[r].target \notin Owners
    BY <1>3, WriteEnds DEF OwnersInv, OwnershipKept, OwnerRelies
  <2>2. Owners' = Owners BY <2>1 DEF Owners, Typed, TypeOK
  <2> QED BY <2>2, OwnersAfterWrite
<1> QED BY <1>2, <1>3

LEMMA OwnersAfterTransfer ==
    ASSUME Typed, OwnersInv, NEW r \in Requests, transferOwnership(r)
    PROVE  OwnersInv'
<1> DEFINE u == job[r].user
           v == job[r].target
<1>1. Write(r, "transfer") /\ admitted' = admitted BY DEF transferOwnership
<1>2. u \in Users /\ v \in Users /\ v # u
  BY <1>1, JobsTyped DEF Write, WellFormed, TargetedOps
<1>3. CASE "none" \in {role[u], role[v]}
  <2>1. UNCHANGED <<org, role>> BY <1>3 DEF transferOwnership
  <2> QED BY <1>1, <2>1, SameRoles, OwnersAfterWrite
<1>4. CASE "none" \notin {role[u], role[v]}
  <2>1. org' = [org EXCEPT !.owner = v] /\ role' = [role EXCEPT ![v] = "OWNER", ![u] = "ADMIN"]
    BY <1>4 DEF transferOwnership
  <2>2. org'.owner = v /\ v # None
    BY <1>2, <2>1, NoneIsNoRow DEF Typed, TypeOK
  <2>3. Founded' BY <2>2 DEF Founded
  <2>4. ASSUME "ownership" \notin raced'
        PROVE  OneOwner' /\ \A q \in Requests : OwnerRelies(q)'
    <3>1. "ownership" \notin raced BY <1>1, <2>4, WriteEnds
    <3>2. OneOwner /\ u \in Owners
      BY <1>1, <3>1 DEF OwnersInv, OwnershipKept, OwnerRelies, Write
    <3>3. Owners = {u} BY <3>2, WriteEnds, <1>1 DEF OneOwner, OwnersInv, Founded, MembershipOps
    <3>4. role' \in [Users -> Roles \cup {"none"}]
      BY <2>1 DEF Typed, TypeOK, Roles
    <3>5. \A x \in Users : role'[x] = "OWNER" <=> x = v
      BY <1>2, <2>1, <3>3 DEF Owners, Typed, TypeOK
    <3>6. Owners' = {v} BY <1>2, <3>5 DEF Owners
    <3>7. ASSUME NEW q \in Requests \ {r} PROVE job'[q].op \notin MembershipOps
      <4>1. job[q].op \notin MembershipOps
        BY <1>1, <2>4, Undisturbed DEF MembershipOps
      <4> QED BY <1>1, <4>1, WriteEnds DEF OthersGoOn
    <3>8. \A q \in Requests : OwnerRelies(q)'
      BY <1>1, <3>7, WriteEnds DEF OwnerRelies, MembershipOps
    <3> QED BY <2>2, <3>6, <3>8 DEF OneOwner
  <2> QED BY <2>3, <2>4 DEF OwnersInv, OwnershipKept
<1> QED BY <1>3, <1>4

LEMMA OwnersStep == Typed /\ PathsKept /\ OwnersInv /\ [Next]_vars => OwnersInv'
<1> SUFFICES ASSUME Typed, PathsKept, OwnersInv, [Next]_vars PROVE OwnersInv' OBVIOUS
<1>1. ASSUME NEW u \in Users, createOrganization(u) PROVE OwnersInv'
  <2>1. org.owner = None /\ org'.owner = u /\ u # None
    BY <1>1, NoneIsNoRow DEF createOrganization, Typed, TypeOK
  <2>2. Owners = {} /\ \A r \in Requests : job'[r].op \notin MembershipOps
    BY <1>1, <2>1 DEF OwnersInv, Founded, createOrganization
  <2>3. Owners' = {u} BY <1>1, <2>2 DEF createOrganization, Owners, Typed, TypeOK
  <2>4. \A r \in Requests : OwnerRelies(r)' BY <2>2 DEF OwnerRelies, MembershipOps
  <2> QED BY <2>1, <2>3, <2>4 DEF OwnersInv, Founded, OwnershipKept, OneOwner
<1>2. ASSUME NEW r \in Requests, NEW u \in Users, Arrive(r, u) PROVE OwnersInv'
  <2>1. PICK j \in Job : Ask(r, j) BY <1>2, ArrivingJobs
  <2>2. /\ pc'[r] = "membership" /\ job'[r] = j /\ OthersGoOn(r)
        /\ UNCHANGED <<tables, admitted, raced>> /\ org.owner # None
    BY <2>1, BegunRequest DEF Ask, Typed
  <2>3. OwnerRelies(r)' BY <2>2 DEF OwnerRelies
  <2> QED BY <2>2, <2>3, SameRoles, OwnersSame DEF tables
<1>3. ASSUME NEW r \in Requests, NEW u \in Users, NEW i \in Invites, FollowInvite(r, u, i)
      PROVE  OwnersInv'
  <2>1. PICK j : Begin(r, "write", j) /\ j.op = "accept"
    <3> DEFINE j == [NoJob EXCEPT !.op = "accept", !.user = u, !.invite = i,
                                  !.role = invite[i].role]
    <3>1. j.op = "accept" BY DEF NoJob
    <3>2. Begin(r, "write", j) BY <1>3 DEF FollowInvite
    <3> QED BY <3>1, <3>2
  <2>2. job'[r].op = "accept" /\ OthersGoOn(r) /\ UNCHANGED <<tables, admitted, raced>>
    BY <2>1, BegunRequest DEF Typed
  <2>3. OwnerRelies(r)' /\ job'[r].op \notin MembershipOps
    BY <2>2 DEF OwnerRelies, MembershipOps
  <2> QED BY <2>2, <2>3, SameRoles, OwnersSame DEF tables
<1>4. ASSUME NEW r \in Requests, NEW ok, NEW step, Check(r, ok, step),
             pc'[r] = step /\ job'[r] = job[r] /\ ok /\ "ownership" \notin raced => OwnerRelies(r)'
      PROVE  OwnersInv'
  <2>1. OthersGoOn(r) /\ UNCHANGED <<tables, admitted, raced>>
    BY <1>4, CheckedRequest DEF Typed
  <2>2. CASE pc'[r] = "idle" /\ job'[r] = NoJob
    <3>1. OwnerRelies(r)' /\ job'[r].op \notin MembershipOps
      BY <2>2 DEF OwnerRelies, NoJob, MembershipOps
    <3> QED BY <2>1, <3>1, SameRoles, OwnersSame DEF tables
  <2>3. CASE ok /\ pc'[r] = step /\ job'[r] = job[r]
    <3>1. org.owner # None \/ job'[r].op \notin MembershipOps
      BY <2>3 DEF OwnersInv, Founded
    <3> QED BY <1>4, <2>1, <2>3, <3>1, SameRoles, OwnersSame DEF tables
  <2> QED BY <1>4, <2>2, <2>3, CheckedRequest DEF Typed
<1>5. ASSUME NEW r \in Requests, requireMembership(r) PROVE OwnersInv'
  <2> DEFINE j == job[r]
             ok == /\ role[j.user] # "none" /\ orgRoleAtLeast(role[j.user], minimum(j.op))
                   /\ j.op = "leave" => role[j.user] # "OWNER"
             step == CASE j.op \in TeamOps -> "team"
                       [] j.op \in TargetedOps -> "target"
                       [] OTHER -> "write"
  <2>1. Check(r, ok, step) BY <1>5 DEF requireMembership
  <2>2. ASSUME pc'[r] = step, job'[r] = j, ok PROVE OwnerRelies(r)'
    <3>1. role' = role BY <2>1 DEF Check, tables
    <3>2. CASE j.op \in {"changeRole", "remove"}
      BY <2>2, <3>2 DEF OwnerRelies, TargetedOps, TeamOps
    <3>3. CASE j.op = "leave"
      <4>1. j.target = j.user /\ role[j.user] # "OWNER" BY <2>2, <3>3, JobsTyped DEF WellFormed
      <4> QED BY <2>2, <3>1, <3>3, <4>1 DEF OwnerRelies, Owners
    <3>4. CASE j.op = "transfer"
      <4>1. j.user \in Users BY <3>4, JobsTyped DEF WellFormed
      <4>2. role[j.user] \in Roles BY <2>2, <4>1 DEF Typed, TypeOK
      <4>3. role[j.user] = "OWNER"
        BY <2>2, <3>4, <4>2 DEF orgRoleAtLeast, ORG_ROLE_RANK, minimum, Roles
      <4> QED BY <2>2, <3>1, <3>4, <4>1, <4>3 DEF OwnerRelies, Owners
    <3>5. CASE j.op \notin {"changeRole", "remove", "leave", "transfer"}
      BY <2>2, <3>5 DEF OwnerRelies
    <3> QED BY <3>2, <3>3, <3>4, <3>5
  <2> HIDE DEF ok, step, j
  <2>3. job[r] = j BY DEF j
  <2> QED BY <1>4, <2>1, <2>2, <2>3
<1>6. ASSUME NEW r \in Requests, requireTeam(r) PROVE OwnersInv'
  <2>1. PICK ok, step : Check(r, ok, step) BY <1>6 DEF requireTeam
  <2>2. job[r].op \in TeamOps BY <1>6 DEF requireTeam, PathsKept, OnPath
  <2>3. job'[r] = job[r] => OwnerRelies(r)' BY <2>2 DEF OwnerRelies, TeamOps
  <2> QED BY <1>4, <2>1, <2>3
<1>7. ASSUME NEW r \in Requests, ReadTarget(r) PROVE OwnersInv'
  <2>1. Check(r, TargetOK(job[r]), "write") /\ pc[r] = "target" BY <1>7 DEF ReadTarget
  <2>2. job[r].op \in TargetedOps \cup TeamOps BY <2>1 DEF PathsKept, OnPath
  <2>3. ASSUME job'[r] = job[r], TargetOK(job[r]), "ownership" \notin raced
        PROVE  OwnerRelies(r)'
    <3>1. role' = role BY <2>1 DEF Check, tables
    <3>2. CASE job[r].op \in {"changeRole", "remove"}
      BY <2>3, <3>1, <3>2 DEF TargetOK, OwnerRelies, Owners
    <3>3. CASE job[r].op = "transfer"
      BY <2>1, <2>3, <3>1, <3>3 DEF OwnersInv, OwnershipKept, OwnerRelies, Owners
    <3>4. CASE job[r].op \in TeamOps BY <2>3, <3>4 DEF OwnerRelies, TeamOps
    <3> QED BY <2>2, <3>2, <3>3, <3>4 DEF TargetedOps
  <2> QED BY <1>4, <2>1, <2>3
<1>8. ASSUME NEW r \in Requests, deleteOrganization(r) PROVE OwnersInv'
  <2>1. Write(r, "delete") /\ role' = role /\ admitted' = admitted /\ org'.owner = org.owner
    BY <1>8 DEF deleteOrganization, Typed, TypeOK
  <2>2. Owners' = Owners BY <2>1, SameRoles
  <2> QED BY <2>1, <2>2, WriteEnds
          DEF OwnersInv, Founded, OwnershipKept, OneOwner, OwnerRelies, OthersGoOn
<1>9. ASSUME NEW r \in Requests, changeMemberRole(r) PROVE OwnersInv'
  <2> DEFINE g == IF role[job[r].target] = "none" THEN "none" ELSE job[r].role
  <2>1. job[r].role # "OWNER" BY JobsTyped DEF Job, GivenRoles, Roles
  <2>2. g # "OWNER" BY <2>1
  <2>3. role' = [role EXCEPT ![job[r].target] = g] BY <1>9 DEF changeMemberRole
  <2> HIDE DEF g
  <2> QED BY <1>9, <2>2, <2>3, OwnersAfterDemotion DEF changeMemberRole
<1>10. ASSUME NEW r \in Requests, removeMember(r) PROVE OwnersInv'
  BY <1>10, OwnersAfterDemotion DEF removeMember
<1>11. ASSUME NEW r \in Requests, acceptInvite(r) PROVE OwnersInv'
  <2>1. Write(r, "accept") /\ org' = org BY <1>11 DEF acceptInvite
  <2>2. job[r].invite \in Invites /\ job[r].role # "OWNER"
    BY <2>1, JobsTyped DEF Write, WellFormed, Job, GivenRoles, Roles
  <2>3. Owners' = Owners BY <1>11, <2>2 DEF acceptInvite, Owners, Typed, TypeOK
  <2>4. admitted'[None] = admitted[None]
    BY <1>11, <2>2, NoneIsNoRow DEF acceptInvite, Typed, TypeOK
  <2> QED BY <2>1, <2>3, <2>4, OwnersAfterWrite
<1>12. ASSUME NEW r \in Requests, NEW op, Write(r, op), UNCHANGED <<org, role, admitted>>
       PROVE  OwnersInv'
  BY <1>12, SameRoles, OwnersAfterWrite
<1>13. ASSUME NEW r \in Requests, Handle(r) PROVE OwnersInv'
  BY <1>5, <1>6, <1>7, <1>8, <1>9, <1>10, <1>11, <1>12, <1>13, OwnersAfterTransfer
     DEF Handle, inviteMember, createTeam, deleteTeam, addTeamMember, removeTeamMember
<1>14. ASSUME NEW r \in Requests, Crash(r) PROVE OwnersInv'
  <2>1. OthersGoOn(r) /\ pc'[r] = "idle" /\ job'[r] = NoJob /\ UNCHANGED <<tables, admitted, raced>>
    BY <1>14, AnsweredRequest DEF Crash, Typed
  <2>2. OwnerRelies(r)' /\ job'[r].op \notin MembershipOps
    BY <2>1 DEF OwnerRelies, NoJob, MembershipOps
  <2> QED BY <2>1, <2>2, SameRoles, OwnersSame DEF tables
<1>15. CASE UNCHANGED <<org, role, pc, job, admitted, raced>>
  BY <1>15 DEF OwnersInv, Founded, OwnershipKept, OneOwner, OwnerRelies, Owners
<1>16. ASSUME NEW i \in Invites, ExpireInvite(i) PROVE OwnersInv'
  BY <1>15, <1>16 DEF ExpireInvite
<1>17. CASE UNCHANGED vars BY <1>15, <1>17 DEF vars, tables
<1> QED BY <1>1, <1>2, <1>3, <1>13, <1>14, <1>16, <1>17 DEF Next

LEMMA OwnersAlwaysKept == Spec => []OwnersInv
<1>1. Init => OwnersInv
  BY DEF Init, OwnersInv, Founded, OwnershipKept, OneOwner, OwnerRelies, Owners, MembershipOps,
         NoJob
<1> QED BY <1>1, OwnersStep, TypesKept, PathsAlwaysKept, PTL DEF Spec

(* The user in owner_id is the one OWNER among the members, unless a       *)
(* transfer overlapped another change of memberships.                      *)
THEOREM OwnershipHolds == Spec => []OneOwnerUnlessTransferRaced
<1>1. OwnersInv => OneOwnerUnlessTransferRaced
  BY DEF OwnersInv, OwnershipKept, OneOwnerUnlessTransferRaced
<1> QED BY <1>1, OwnersAlwaysKept, PTL

-------------------------------------------------------------------------------
(* The invitations.  Who has found one open is still the first to follow   *)
(* it, unless another follows it at the same time.                         *)
AdmitsOne(i) == admitted[i] = {} \/ \E u \in Users : admitted[i] = {u}

InvitesInv ==
    /\ \A i \in Invites : admitted[i] # {} => invite[i].state = "accepted"
    /\ "invitation" \notin raced =>
          /\ \A i \in Invites : AdmitsOne(i)
          /\ \A r \in Requests : job[r].op = "accept" => admitted[job[r].invite] = {}

LEMMA InvitesSame ==
    ASSUME Typed, InvitesInv, raced \subseteq raced',
           \A i \in Invites : admitted'[i] = admitted[i],
           \A i \in Invites : invite[i].state = "accepted" => invite'[i].state = "accepted",
           \A r \in Requests : job'[r].op = "accept" => job'[r] = job[r]
    PROVE  InvitesInv'
<1>1. \A r \in Requests : job[r].op = "accept" => job[r].invite \in Invites
  BY JobsTyped DEF WellFormed
<1> QED BY <1>1 DEF InvitesInv, AdmitsOne

LEMMA InvitesAfterAccept ==
    ASSUME Typed, InvitesInv, NEW r \in Requests, acceptInvite(r)
    PROVE  InvitesInv'
<1>1. Write(r, "accept") BY DEF acceptInvite
<1>2. /\ OthersGoOn(r) /\ raced \subseteq raced' /\ job'[r].op # "accept"
      /\ job[r].op = "accept" /\ pc[r] = "write"
  BY <1>1, WriteEnds
<1>3. PICK i \in Invites, u \in Users : i = job[r].invite /\ u = job[r].user
  <2>1. job[r].invite \in Invites /\ job[r].user \in Users BY <1>2, JobsTyped DEF WellFormed
  <2> QED BY <2>1
<1>4. CASE UNCHANGED <<invite, admitted>> BY <1>2, <1>4, InvitesSame DEF OthersGoOn
<1>5. CASE /\ invite' = [invite EXCEPT ![i].state = "accepted"]
           /\ admitted' = [admitted EXCEPT ![i] = @ \cup {u}]
  <2>1. admitted'[i] = admitted[i] \cup {u} /\ invite'[i].state = "accepted"
    BY <1>5 DEF Typed, TypeOK
  <2>2. \A x \in Invites \ {i} : admitted'[x] = admitted[x] /\ invite'[x] = invite[x]
    BY <1>5 DEF Typed, TypeOK
  <2>3. \A x \in Invites : admitted'[x] # {} => invite'[x].state = "accepted"
    BY <2>1, <2>2 DEF InvitesInv
  <2>4. ASSUME "invitation" \notin raced'
        PROVE  /\ \A x \in Invites : AdmitsOne(x)'
               /\ \A q \in Requests : job'[q].op = "accept" => admitted'[job'[q].invite] = {}
    <3>1. "invitation" \notin raced BY <1>2, <2>4
    <3>2. admitted[i] = {} BY <1>2, <1>3, <3>1 DEF InvitesInv
    <3>3. \A x \in Invites : AdmitsOne(x)'
      BY <2>1, <2>2, <3>1, <3>2 DEF InvitesInv, AdmitsOne
    <3>4. ASSUME NEW q \in Requests, job'[q].op = "accept"
          PROVE  admitted'[job'[q].invite] = {}
      <4>1. q # r /\ job'[q] = job[q] BY <1>2, <3>4 DEF OthersGoOn
      <4>2. job[q].invite \in Invites /\ admitted[job[q].invite] = {}
        BY <3>1, <3>4, <4>1, JobsTyped DEF WellFormed, InvitesInv
      <4>3. pc[q] # "idle"
        <5>1. job[q] # NoJob BY <3>4, <4>1 DEF NoJob
        <5> QED BY <5>1 DEF Typed, TypeOK
      <4>4. job[q].invite # i
        <5> DEFINE others == {job[x] : x \in {x \in Requests \ {r} : pc[x] # "idle"}}
        <5>1. job[q] \in others BY <4>1, <4>3
        <5>2. "invitation" \notin RacesOf(r) BY <1>1, <2>4 DEF Write
        <5>3. {job[r].op, job[q].op} = {"accept"} BY <1>2, <3>4, <4>1
        <5>4. job[r].invite # job[q].invite BY <5>1, <5>2, <5>3 DEF RacesOf
        <5> QED BY <1>3, <5>4
      <4> QED BY <2>2, <4>1, <4>2, <4>4
    <3> QED BY <3>3, <3>4
  <2> QED BY <2>3, <2>4 DEF InvitesInv
<1> QED BY <1>3, <1>4, <1>5 DEF acceptInvite

LEMMA InvitesStep == Typed /\ InvitesInv /\ [Next]_vars => InvitesInv'
<1> SUFFICES ASSUME Typed, InvitesInv, [Next]_vars PROVE InvitesInv' OBVIOUS
<1>1. ASSUME NEW u \in Users, createOrganization(u) PROVE InvitesInv'
  <2>1. \A i \in Invites : admitted'[i] = admitted[i]
    BY <1>1, NoneIsNoRow DEF createOrganization, Typed, TypeOK
  <2> QED BY <1>1, <2>1, InvitesSame DEF createOrganization
<1>2. ASSUME NEW r \in Requests, NEW u \in Users, Arrive(r, u) PROVE InvitesInv'
  <2>1. PICK j \in Job : Ask(r, j) /\ j.op # "accept" BY <1>2, ArrivingJobs
  <2>2. job'[r] = j /\ OthersGoOn(r) /\ UNCHANGED <<tables, admitted, raced>>
    BY <2>1, BegunRequest DEF Ask, Typed
  <2> QED BY <2>1, <2>2, InvitesSame DEF tables, OthersGoOn
<1>3. ASSUME NEW r \in Requests, NEW u \in Users, NEW i \in Invites, FollowInvite(r, u, i)
      PROVE  InvitesInv'
  <2> DEFINE j == [NoJob EXCEPT !.op = "accept", !.user = u, !.invite = i,
                                !.role = invite[i].role]
  <2>1. j.invite = i BY DEF NoJob
  <2>2. Begin(r, "write", j) /\ invite[i].state = "open" BY <1>3 DEF FollowInvite
  <2> HIDE DEF j
  <2>3. job'[r] = j /\ OthersGoOn(r) /\ UNCHANGED <<tables, admitted, raced>>
    BY <2>2, BegunRequest DEF Typed
  <2>4. admitted[i] = {} BY <2>2 DEF InvitesInv
  <2> QED BY <2>1, <2>3, <2>4 DEF InvitesInv, AdmitsOne, OthersGoOn, tables
<1>4. ASSUME NEW r \in Requests, NEW ok, NEW step, Check(r, ok, step) PROVE InvitesInv'
  <2>1. \A q \in Requests : job'[q].op = "accept" => job'[q] = job[q]
    BY <1>4, CheckedRequest DEF OthersGoOn, NoJob, Typed
  <2> QED BY <1>4, <2>1, InvitesSame DEF Check, tables
<1>5. ASSUME NEW r \in Requests, NEW op, Write(r, op), admitted' = admitted,
             \A i \in Invites : invite[i].state = "accepted" => invite'[i].state = "accepted"
      PROVE  InvitesInv'
  BY <1>5, WriteEnds, InvitesSame DEF OthersGoOn
<1>6. ASSUME NEW r \in Requests, NEW i \in Invites, inviteMember(r, i) PROVE InvitesInv'
  <2>1. \A x \in Invites : invite[x].state = "accepted" => invite'[x].state = "accepted"
    BY <1>6 DEF inviteMember, Typed, TypeOK
  <2> QED BY <1>5, <1>6, <2>1 DEF inviteMember
<1>7. ASSUME NEW r \in Requests, Handle(r) PROVE InvitesInv'
  BY <1>4, <1>5, <1>6, <1>7, InvitesAfterAccept
     DEF Handle, requireMembership, requireTeam, ReadTarget, deleteOrganization,
         changeMemberRole, removeMember, transferOwnership, createTeam, deleteTeam,
         addTeamMember, removeTeamMember
<1>8. ASSUME NEW r \in Requests, Crash(r) PROVE InvitesInv'
  <2>1. OthersGoOn(r) /\ job'[r].op # "accept"
    BY <1>8, AnsweredRequest DEF Crash, Typed, NoJob
  <2> QED BY <1>8, <2>1, InvitesSame DEF Crash, tables, OthersGoOn
<1>9. ASSUME NEW i \in Invites, ExpireInvite(i) PROVE InvitesInv'
  <2>1. \A x \in Invites : invite[x].state = "accepted" => invite'[x].state = "accepted"
    BY <1>9 DEF ExpireInvite, Typed, TypeOK
  <2> QED BY <1>9, <2>1, InvitesSame DEF ExpireInvite
<1>10. CASE UNCHANGED vars BY <1>10, InvitesSame DEF vars, tables
<1> QED BY <1>1, <1>2, <1>3, <1>7, <1>8, <1>9, <1>10 DEF Next

(* An invitation admits one user, unless two requests follow it at once.   *)
THEOREM InvitationsAdmitOne == Spec => []InviteAdmitsOne
<1>1. Init => InvitesInv BY DEF Init, InvitesInv, AdmitsOne, NoJob
<1>2. ASSUME Typed, InvitesInv PROVE InviteAdmitsOne
  <2>1. ASSUME NEW i \in Invites, AdmitsOne(i) PROVE Cardinality(admitted[i]) <= 1
    <3>1. CASE admitted[i] = {} BY <3>1, FS_EmptySet
    <3>2. ASSUME NEW u \in Users, admitted[i] = {u} PROVE Cardinality(admitted[i]) <= 1
      <4>1. Cardinality({u}) = 1 BY FS_Singleton
      <4> QED BY <3>2, <4>1
    <3> QED BY <2>1, <3>1, <3>2 DEF AdmitsOne
  <2> QED BY <1>2, <2>1 DEF InvitesInv, InviteAdmitsOne
<1> QED BY <1>1, <1>2, InvitesStep, TypesKept, PTL DEF Spec

-------------------------------------------------------------------------------
(* The teams. *)
Joined(u) == \E i \in Invites \cup {None} : u \in admitted[i]

TeamRelies(r) ==
    pc[r] = "write" /\ job[r].op = "addToTeam" => Joined(job[r].target)

TeamsInv ==
    /\ \A m \in inTeam : team[m[1]] = "live" /\ Joined(m[2])
    /\ \A u \in Users : role[u] # "none" => Joined(u)
    /\ \A r \in Requests : TeamRelies(r)

(* Nobody leaves the history. *)
Remembered == \A u \in Users : Joined(u) => Joined(u)'

LEMMA AllRemembered ==
    ASSUME \A i \in Invites \cup {None} : admitted[i] \subseteq admitted'[i]
    PROVE  Remembered
BY DEF Remembered, Joined

(* A step that adds nobody to a team, makes nobody a member who was none,  *)
(* and of the requests changes at most r.                                  *)
LEMMA TeamsSame ==
    ASSUME Typed, TeamsInv, Remembered, NEW r \in Requests, OthersGoOn(r), TeamRelies(r)',
           inTeam' \subseteq inTeam, \A m \in inTeam' : team'[m[1]] = team[m[1]],
           \A u \in Users : role'[u] # "none" => role[u] # "none"
    PROVE  TeamsInv'
<1>1. \A m \in inTeam' : team'[m[1]] = "live" /\ Joined(m[2])'
  BY DEF TeamsInv, Remembered, Typed, TypeOK
<1>2. \A u \in Users : role'[u] # "none" => Joined(u)' BY DEF TeamsInv, Remembered
<1>3. ASSUME NEW q \in Requests \ {r} PROVE TeamRelies(q)'
  <2>1. job[q].op = "addToTeam" => job[q].target \in Users BY JobsTyped DEF WellFormed
  <2> QED BY <2>1 DEF OthersGoOn, TeamsInv, TeamRelies, Remembered
<1> QED BY <1>1, <1>2, <1>3 DEF TeamsInv

LEMMA TeamsAfterWrite ==
    ASSUME Typed, TeamsInv, Remembered, NEW r \in Requests, NEW op, Write(r, op),
           inTeam' \subseteq inTeam, \A m \in inTeam' : team'[m[1]] = team[m[1]],
           \A u \in Users : role'[u] # "none" => role[u] # "none"
    PROVE  TeamsInv'
<1>1. OthersGoOn(r) /\ TeamRelies(r)' BY WriteEnds DEF TeamRelies
<1> QED BY <1>1, TeamsSame

LEMMA TeamsStep == Typed /\ PathsKept /\ OwnersInv /\ TeamsInv /\ [Next]_vars => TeamsInv'
<1> SUFFICES ASSUME Typed, PathsKept, OwnersInv, TeamsInv, [Next]_vars PROVE TeamsInv' OBVIOUS
<1>0. admitted' = admitted => Remembered BY DEF Remembered, Joined
<1>1. ASSUME NEW u \in Users, createOrganization(u) PROVE TeamsInv'
  <2>1. admitted[None] = {} /\ admitted' = [admitted EXCEPT ![None] = {u}]
        /\ role' = [role EXCEPT ![u] = "OWNER"]
    BY <1>1 DEF createOrganization, OwnersInv, Founded
  <2>2. \A i \in Invites \cup {None} : admitted[i] \subseteq admitted'[i]
    BY <2>1 DEF Typed, TypeOK
  <2>3. Remembered BY <2>2, AllRemembered
  <2>4. u \in admitted'[None] BY <2>1 DEF Typed, TypeOK
  <2>5. Joined(u)' BY <2>4 DEF Joined
  <2>6. \A v \in Users : role'[v] # "none" => Joined(v)'
    BY <2>1, <2>3, <2>5 DEF TeamsInv, Remembered, Typed, TypeOK
  <2>7. \A m \in inTeam' : team'[m[1]] = "live" /\ Joined(m[2])'
    BY <1>1, <2>3 DEF createOrganization, TeamsInv, Remembered, Typed, TypeOK
  <2>8. ASSUME NEW r \in Requests PROVE TeamRelies(r)'
    <3>1. job[r].op = "addToTeam" => job[r].target \in Users BY JobsTyped DEF WellFormed
    <3> QED BY <1>1, <2>3, <3>1 DEF createOrganization, TeamsInv, TeamRelies, Remembered
  <2> QED BY <2>6, <2>7, <2>8 DEF TeamsInv
<1>2. ASSUME NEW r \in Requests, OthersGoOn(r), UNCHANGED <<tables, admitted>>, TeamRelies(r)'
      PROVE  TeamsInv'
  BY <1>0, <1>2, TeamsSame DEF tables
<1>3. ASSUME NEW r \in Requests, NEW u \in Users, Arrive(r, u) PROVE TeamsInv'
  <2>1. PICK j \in Job : Ask(r, j) BY <1>3, ArrivingJobs
  <2>2. pc'[r] = "membership" /\ OthersGoOn(r) /\ UNCHANGED <<tables, admitted>>
    BY <2>1, BegunRequest DEF Ask, Typed
  <2> QED BY <1>2, <2>2 DEF TeamRelies
<1>4. ASSUME NEW r \in Requests, NEW u \in Users, NEW i \in Invites, FollowInvite(r, u, i)
      PROVE  TeamsInv'
  <2> DEFINE j == [NoJob EXCEPT !.op = "accept", !.user = u, !.invite = i,
                                !.role = invite[i].role]
  <2>1. j.op = "accept" BY DEF NoJob
  <2>2. Begin(r, "write", j) BY <1>4 DEF FollowInvite
  <2> HIDE DEF j
  <2>3. job'[r] = j /\ OthersGoOn(r) /\ UNCHANGED <<tables, admitted>>
    BY <2>2, BegunRequest DEF Typed
  <2> QED BY <1>2, <2>1, <2>3 DEF TeamRelies
<1>5. ASSUME NEW r \in Requests, NEW ok, NEW step, Check(r, ok, step),
             job'[r] = job[r] /\ pc'[r] = step /\ ok => TeamRelies(r)'
      PROVE  TeamsInv'
  <2>1. OthersGoOn(r) /\ UNCHANGED <<tables, admitted>> BY <1>5, CheckedRequest DEF Typed
  <2>2. pc'[r] = "idle" => TeamRelies(r)' BY DEF TeamRelies
  <2>3. TeamRelies(r)' BY <1>5, <2>2, CheckedRequest DEF Typed
  <2> QED BY <1>2, <2>1, <2>3
<1>6. ASSUME NEW r \in Requests, requireMembership(r) PROVE TeamsInv'
  <2> DEFINE ok == /\ role[job[r].user] # "none"
                   /\ orgRoleAtLeast(role[job[r].user], minimum(job[r].op))
                   /\ job[r].op = "leave" => role[job[r].user] # "OWNER"
             step == CASE job[r].op \in TeamOps -> "team"
                       [] job[r].op \in TargetedOps -> "target"
                       [] OTHER -> "write"
  <2>1. Check(r, ok, step) BY <1>6 DEF requireMembership
  <2>2. job[r].op = "addToTeam" => step = "team" BY DEF TeamOps, TargetedOps
  <2> HIDE DEF ok, step
  <2>3. job'[r] = job[r] /\ pc'[r] = step => TeamRelies(r)' BY <2>2 DEF TeamRelies
  <2> QED BY <1>5, <2>1, <2>3
<1>7. ASSUME NEW r \in Requests, requireTeam(r) PROVE TeamsInv'
  <2> DEFINE ok == team[job[r].team] = "live"
             step == IF job[r].op = "deleteTeam" THEN "write" ELSE "target"
  <2>1. Check(r, ok, step) BY <1>7 DEF requireTeam
  <2>2. job[r].op = "addToTeam" => step = "target" OBVIOUS
  <2> HIDE DEF ok, step
  <2>3. job'[r] = job[r] /\ pc'[r] = step => TeamRelies(r)' BY <2>2 DEF TeamRelies
  <2> QED BY <1>5, <2>1, <2>3
<1>8. ASSUME NEW r \in Requests, ReadTarget(r) PROVE TeamsInv'
  <2>1. Check(r, TargetOK(job[r]), "write") BY <1>8 DEF ReadTarget
  <2>2. ASSUME job'[r] = job[r], TargetOK(job[r]) PROVE TeamRelies(r)'
    <3>1. CASE job[r].op = "addToTeam"
      <4>1. job[r].target \in Users BY <3>1, JobsTyped DEF WellFormed
      <4>2. role[job[r].target] # "none" BY <2>2, <3>1 DEF TargetOK
      <4>3. Joined(job[r].target) BY <4>1, <4>2 DEF TeamsInv
      <4>4. admitted' = admitted BY <2>1 DEF Check
      <4> QED BY <2>2, <4>3, <4>4 DEF TeamRelies, Joined
    <3>2. CASE job[r].op # "addToTeam" BY <2>2, <3>2 DEF TeamRelies
    <3> QED BY <3>1, <3>2
  <2> QED BY <1>5, <2>1, <2>2
<1>9. ASSUME NEW r \in Requests, NEW op, Write(r, op), UNCHANGED <<team, inTeam, admitted>>,
             \A u \in Users : role'[u] # "none" => role[u] # "none"
      PROVE  TeamsInv'
  BY <1>0, <1>9, TeamsAfterWrite
<1>10. ASSUME NEW r \in Requests, changeMemberRole(r) PROVE TeamsInv'
  <2>1. \A u \in Users : role'[u] # "none" => role[u] # "none"
    BY <1>10 DEF changeMemberRole, Typed, TypeOK
  <2> QED BY <1>9, <1>10, <2>1 DEF changeMemberRole
<1>11. ASSUME NEW r \in Requests, removeMember(r) PROVE TeamsInv'
  <2>1. \A u \in Users : role'[u] # "none" => role[u] # "none"
    BY <1>11 DEF removeMember, Typed, TypeOK
  <2> QED BY <1>9, <1>11, <2>1 DEF removeMember
<1>12. ASSUME NEW r \in Requests, transferOwnership(r) PROVE TeamsInv'
  <2>1. \A u \in Users : role'[u] # "none" => role[u] # "none"
    BY <1>12 DEF transferOwnership, Typed, TypeOK
  <2> QED BY <1>9, <1>12, <2>1 DEF transferOwnership
<1>13. ASSUME NEW r \in Requests, acceptInvite(r) PROVE TeamsInv'
  <2>1. Write(r, "accept") /\ UNCHANGED <<team, inTeam>> BY <1>13 DEF acceptInvite
  <2>2. PICK i \in Invites, u \in Users : i = job[r].invite /\ u = job[r].user
    <3>1. job[r].invite \in Invites /\ job[r].user \in Users
      BY <2>1, JobsTyped DEF Write, WellFormed
    <3> QED BY <3>1
  <2>3. CASE UNCHANGED <<role, admitted>> BY <1>9, <2>1, <2>3
  <2>4. CASE /\ role' = [role EXCEPT ![u] = job[r].role]
             /\ admitted' = [admitted EXCEPT ![i] = @ \cup {u}]
    <3>1. \A x \in Invites \cup {None} : admitted[x] \subseteq admitted'[x]
      BY <2>4 DEF Typed, TypeOK
    <3>2. Remembered BY <3>1, AllRemembered
    <3>3. u \in admitted'[i] BY <2>4 DEF Typed, TypeOK
    <3>4. Joined(u)' BY <3>3 DEF Joined
    <3>5. \A v \in Users : role'[v] # "none" => Joined(v)'
      BY <2>4, <3>2, <3>4 DEF TeamsInv, Remembered, Typed, TypeOK
    <3>6. \A m \in inTeam' : team'[m[1]] = "live" /\ Joined(m[2])'
      BY <2>1, <3>2 DEF TeamsInv, Remembered, Typed, TypeOK
    <3>7. ASSUME NEW q \in Requests PROVE TeamRelies(q)'
      <4>1. CASE q = r BY <2>1, <4>1, WriteEnds DEF TeamRelies
      <4>2. CASE q # r
        <5>1. job[q].op = "addToTeam" => job[q].target \in Users BY JobsTyped DEF WellFormed
        <5>2. pc'[q] = pc[q] /\ job'[q] = job[q] BY <2>1, <4>2, WriteEnds DEF OthersGoOn
        <5> QED BY <3>2, <5>1, <5>2 DEF TeamsInv, TeamRelies, Remembered
      <4> QED BY <4>1, <4>2
    <3> QED BY <3>5, <3>6, <3>7 DEF TeamsInv
  <2> QED BY <1>13, <2>2, <2>3, <2>4 DEF acceptInvite
<1>14. ASSUME NEW r \in Requests, NEW t \in Teams, createTeam(r, t) PROVE TeamsInv'
  <2>1. \A m \in inTeam : team'[m[1]] = team[m[1]]
    BY <1>14 DEF createTeam, TeamsInv, Typed, TypeOK
  <2> QED BY <1>0, <1>14, <2>1, TeamsAfterWrite DEF createTeam
<1>15. ASSUME NEW r \in Requests, deleteTeam(r) PROVE TeamsInv'
  <2>1. \A m \in inTeam' : team'[m[1]] = team[m[1]]
    BY <1>15 DEF deleteTeam, Typed, TypeOK
  <2>2. inTeam' \subseteq inTeam BY <1>15 DEF deleteTeam
  <2> QED BY <1>0, <1>15, <2>1, <2>2, TeamsAfterWrite DEF deleteTeam
<1>16. ASSUME NEW r \in Requests, addTeamMember(r) PROVE TeamsInv'
  <2>1. Write(r, "addToTeam") /\ UNCHANGED <<team, role, admitted>> BY <1>16 DEF addTeamMember
  <2>2. PICK t, u : t = job[r].team /\ u = job[r].target OBVIOUS
  <2>3. Joined(u) BY <2>1, <2>2 DEF Write, TeamsInv, TeamRelies
  <2>4. \A m \in inTeam' : team'[m[1]] = "live" /\ Joined(m[2])'
    BY <1>16, <2>1, <2>2, <2>3 DEF addTeamMember, TeamsInv, Joined
  <2>5. \A v \in Users : role'[v] # "none" => Joined(v)' BY <2>1 DEF TeamsInv, Joined
  <2>6. ASSUME NEW q \in Requests PROVE TeamRelies(q)'
    BY <2>1, WriteEnds DEF TeamsInv, TeamRelies, OthersGoOn, Joined
  <2> QED BY <2>4, <2>5, <2>6 DEF TeamsInv
<1>17. ASSUME NEW r \in Requests, removeTeamMember(r) PROVE TeamsInv'
  BY <1>0, <1>17, TeamsAfterWrite DEF removeTeamMember
<1>18. ASSUME NEW r \in Requests, Handle(r) PROVE TeamsInv'
  BY <1>6, <1>7, <1>8, <1>9, <1>10, <1>11, <1>12, <1>13, <1>14, <1>15, <1>16, <1>17, <1>18
     DEF Handle, deleteOrganization, inviteMember
<1>19. ASSUME NEW r \in Requests, Crash(r) PROVE TeamsInv'
  <2>1. OthersGoOn(r) /\ pc'[r] = "idle" BY <1>19, AnsweredRequest DEF Crash, Typed
  <2> QED BY <1>2, <1>19, <2>1 DEF Crash, TeamRelies
<1>20. CASE UNCHANGED <<inTeam, team, role, admitted, pc, job>>
  BY <1>20 DEF TeamsInv, TeamRelies, Joined
<1>21. ASSUME NEW i \in Invites, ExpireInvite(i) PROVE TeamsInv'
  BY <1>20, <1>21 DEF ExpireInvite
<1>22. CASE UNCHANGED vars BY <1>20, <1>22 DEF vars, tables
<1> QED BY <1>1, <1>3, <1>4, <1>18, <1>19, <1>21, <1>22 DEF Next

(* Whoever is in a team was admitted to the organization by somebody.      *)
THEOREM TeamsHoldTheAdmitted == Spec => []TeamsHoldPastMembers
<1>1. Init => TeamsInv BY DEF Init, TeamsInv, TeamRelies
<1>2. Typed /\ TeamsInv => TeamsHoldPastMembers
  BY DEF Typed, TeamsInv, TeamsHoldPastMembers, Joined
<1> QED BY <1>1, <1>2, TeamsStep, TypesKept, PathsAlwaysKept, OwnersAlwaysKept, PTL DEF Spec
===============================================================================
