----------------------------- MODULE Organizations -----------------------------
(***************************************************************************)
(* One organization and its teams: organizations.service.ts and            *)
(* teams.service.ts.  Every statement there is keyed by the organization,  *)
(* so others are untouched.  A handler is a process: it reads the          *)
(* organization, the caller's membership, the team and the target one      *)
(* after the other, locking none of them, and then writes; the write is    *)
(* one statement or one transaction.                                       *)
(***************************************************************************)
EXTENDS Naturals, FiniteSets

CONSTANTS Users, Invites, Teams, Requests, None,
          MaxOps     \* bound on the requests of a behaviour

ASSUME NoneIsNoRow == None \notin Users \cup Invites \cup Teams
ASSUME MaxOpsIsNatural == MaxOps \in Nat

VARIABLES
    org,       \* organizations: owner_id and deleted_at
    role,      \* organization_members: the role of each member
    invite,    \* organization_invites
    team,      \* teams; the identifier of a deleted one is not used again
    inTeam,    \* team_members
    pc, job,   \* the requests in flight: next statement and local variables
    begun,     \* requests so far
    admitted,  \* history: who joined with each invitation, and who with none
    raced      \* history: the races of requests that have happened

tables == <<org, role, invite, team, inTeam>>
vars == <<tables, pc, job, begun, admitted, raced>>

Roles == {"OWNER", "ADMIN", "MEMBER"}
ORG_ROLE_RANK == [OWNER |-> 3, ADMIN |-> 2, MEMBER |-> 1]
orgRoleAtLeast(r, m) == ORG_ROLE_RANK[r] >= ORG_ROLE_RANK[m]

(* orgRoleSchema: OWNER is set via transfer only. *)
GrantableRoles == {"ADMIN", "MEMBER"}

TargetedOps == {"changeRole", "remove", "transfer"}
TeamOps == {"deleteTeam", "addToTeam", "removeFromTeam"}
Ops == TargetedOps \cup TeamOps \cup {"delete", "leave", "invite", "accept", "createTeam"}

(* The role requireMembership asks for. *)
minimum(op) == CASE op \in {"delete", "transfer"} -> "OWNER"
                 [] op = "leave" -> "MEMBER"
                 [] OTHER -> "ADMIN"

NoJob == [op |-> "none", user |-> None, target |-> None, role |-> "none",
          invite |-> None, team |-> None]

TypeOK ==
    /\ org \in [owner : Users \cup {None}, deleted : BOOLEAN]
    /\ role \in [Users -> Roles \cup {"none"}]
    /\ invite \in [Invites -> [state : {"none", "open", "accepted", "expired"},
                               role : (Roles \ {"OWNER"}) \cup {"none"}]]
    /\ team \in [Teams -> {"none", "live", "deleted"}]
    /\ inTeam \subseteq Teams \X Users
    /\ pc \in [Requests -> {"idle", "membership", "team", "target", "write"}]
    /\ job \in [Requests -> [op : Ops \cup {"none"}, user : Users \cup {None},
                             target : Users \cup {None}, role : (Roles \ {"OWNER"}) \cup {"none"},
                             invite : Invites \cup {None}, team : Teams \cup {None}]]
    /\ \A r \in Requests : pc[r] = "idle" <=> job[r] = NoJob
    /\ begun \in 0 .. MaxOps
    /\ admitted \in [Invites \cup {None} -> SUBSET Users]
    /\ raced \subseteq {"ownership", "invitation"}

Init ==
    /\ org = [owner |-> None, deleted |-> FALSE]
    /\ role = [u \in Users |-> "none"]
    /\ invite = [i \in Invites |-> [state |-> "none", role |-> "none"]]
    /\ team = [t \in Teams |-> "none"]
    /\ inTeam = {}
    /\ pc = [r \in Requests |-> "idle"]
    /\ job = [r \in Requests |-> NoJob]
    /\ begun = 0
    /\ admitted = [i \in Invites \cup {None} |-> {}]
    /\ raced = {}

(* The organization and its owner's membership are one nested write. *)
createOrganization(u) ==
    /\ org.owner = None
    /\ org' = [org EXCEPT !.owner = u]
    /\ role' = [role EXCEPT ![u] = "OWNER"]
    /\ admitted' = [admitted EXCEPT ![None] = {u}]
    /\ UNCHANGED <<invite, team, inTeam, pc, job, begun, raced>>

-------------------------------------------------------------------------------
(* The reads of a request. *)

Begin(r, step, j) ==
    /\ pc[r] = "idle"
    /\ begun < MaxOps
    /\ begun' = begun + 1
    /\ pc' = [pc EXCEPT ![r] = step]
    /\ job' = [job EXCEPT ![r] = j]
    /\ UNCHANGED <<tables, admitted, raced>>

(* requireMembership reads the organization first. *)
Ask(r, j) ==
    /\ org.owner # None /\ ~org.deleted
    /\ Begin(r, "membership", j)

(* Bounds: there is a row left for each invitation or team being created. *)
InvitesLeft ==
    Cardinality({r \in Requests : job[r].op = "invite"})
        < Cardinality({i \in Invites : invite[i].state = "none"})
TeamsLeft ==
    Cardinality({r \in Requests : job[r].op = "createTeam"})
        < Cardinality({t \in Teams : team[t] = "none"})

Arrive(r, u) ==
    LET by(op) == [NoJob EXCEPT !.op = op, !.user = u]
    IN  \/ Ask(r, by("delete"))
        \/ Ask(r, [by("leave") EXCEPT !.target = u])
        \/ InvitesLeft /\ \E g \in GrantableRoles : Ask(r, [by("invite") EXCEPT !.role = g])
        \/ TeamsLeft /\ Ask(r, by("createTeam"))
        \/ \E v \in Users :
              \/ \E g \in GrantableRoles :
                    Ask(r, [by("changeRole") EXCEPT !.target = v, !.role = g])
              \/ Ask(r, [by("remove") EXCEPT !.target = v])
              \/ v # u /\ Ask(r, [by("transfer") EXCEPT !.target = v])
              \/ \E t \in Teams, op \in {"addToTeam", "removeFromTeam"} :
                    Ask(r, [by(op) EXCEPT !.target = v, !.team = t])
        \/ \E t \in Teams : Ask(r, [by("deleteTeam") EXCEPT !.team = t])

(* acceptInvite reads the invitation and nothing about the organization.   *)
(* The link is a bearer token: any signed-in user may follow it.           *)
FollowInvite(r, u, i) ==
    /\ invite[i].state = "open"
    /\ Begin(r, "write", [NoJob EXCEPT !.op = "accept", !.user = u, !.invite = i,
                                       !.role = invite[i].role])

Finish(r) ==
    /\ pc' = [pc EXCEPT ![r] = "idle"]
    /\ job' = [job EXCEPT ![r] = NoJob]

(* The check of what was read: the next statement, or an error. *)
Check(r, ok, step) ==
    /\ \/ ok /\ pc' = [pc EXCEPT ![r] = step] /\ UNCHANGED job
       \/ ~ok /\ Finish(r)
    /\ UNCHANGED <<tables, begun, admitted, raced>>

(* The caller's membership.  An owner is told to transfer before leaving. *)
requireMembership(r) ==
    LET j == job[r]
        mine == role[j.user]
    IN  /\ pc[r] = "membership"
        /\ Check(r, /\ mine # "none"
                    /\ orgRoleAtLeast(mine, minimum(j.op))
                    /\ j.op = "leave" => mine # "OWNER",
                 CASE j.op \in TeamOps -> "team"
                   [] j.op \in TargetedOps -> "target"
                   [] OTHER -> "write")

requireTeam(r) ==
    /\ pc[r] = "team"
    /\ Check(r, team[job[r].team] = "live",
             IF job[r].op = "deleteTeam" THEN "write" ELSE "target")

(* Mutants: an owner can be the target of a removal or a role change; a    *)
(* team can be joined by anybody.                                          *)
TargetOKOwnerToo(j) ==
    IF j.op = "removeFromTeam" THEN <<j.team, j.target>> \in inTeam
                               ELSE role[j.target] # "none"
TargetOKAnybody(j) ==
    CASE j.op \in {"changeRole", "remove"} -> role[j.target] \notin {"none", "OWNER"}
      [] j.op = "transfer" -> role[j.target] # "none"
      [] j.op = "addToTeam" -> TRUE
      [] j.op = "removeFromTeam" -> <<j.team, j.target>> \in inTeam

(* The target's row: a member, and not the owner where the operation must  *)
(* not touch the owner; or a member of the team.                           *)
TargetOK(j) ==
    CASE j.op \in {"changeRole", "remove"} -> role[j.target] \notin {"none", "OWNER"}
      [] j.op \in {"transfer", "addToTeam"} -> role[j.target] # "none"
      [] j.op = "removeFromTeam" -> <<j.team, j.target>> \in inTeam

ReadTarget(r) ==
    /\ pc[r] = "target"
    /\ Check(r, TargetOK(job[r]), "write")

-------------------------------------------------------------------------------
(* Writes.  An update or a delete of a row that is gone, an insert of one  *)
(* that exists, or one whose parent row is gone, fails and rolls back.     *)

(* History: request r writes while another that it can disturb is under    *)
(* way: one transfers the ownership and the other changes memberships, or  *)
(* both accept the same invitation.                                        *)
MembershipOps == {"changeRole", "remove", "leave", "transfer"}

RacesOf(r) ==
    LET j == job[r]
        others == {job[q] : q \in {q \in Requests \ {r} : pc[q] # "idle"}}
    IN  {"ownership" : k \in {k \in others : /\ "transfer" \in {j.op, k.op}
                                             /\ {j.op, k.op} \subseteq MembershipOps}}
        \cup
        {"invitation" : k \in {k \in others : /\ {j.op, k.op} = {"accept"}
                                              /\ j.invite = k.invite}}

Write(r, op) ==
    /\ pc[r] = "write"
    /\ job[r].op = op
    /\ raced' = raced \cup RacesOf(r)
    /\ Finish(r)
    /\ UNCHANGED begun

deleteOrganization(r) ==
    /\ Write(r, "delete")
    /\ org' = [org EXCEPT !.deleted = TRUE]
    /\ UNCHANGED <<role, invite, team, inTeam, admitted>>

changeMemberRole(r) ==
    /\ Write(r, "changeRole")
    /\ role' = [role EXCEPT ![job[r].target] = IF @ = "none" THEN @ ELSE job[r].role]
    /\ UNCHANGED <<org, invite, team, inTeam, admitted>>

(* removeMember and leaveOrganization; the rows of team_members stay. *)
removeMember(r) ==
    /\ Write(r, "remove") \/ Write(r, "leave")
    /\ role' = [role EXCEPT ![job[r].target] = "none"]
    /\ UNCHANGED <<org, invite, team, inTeam, admitted>>

(* owner_id, the new owner's role and the old owner's role. *)
transferOwnership(r) ==
    LET u == job[r].user
        v == job[r].target
    IN  /\ Write(r, "transfer")
        /\ IF "none" \in {role[u], role[v]}
           THEN UNCHANGED <<org, role>>
           ELSE /\ org' = [org EXCEPT !.owner = v]
                /\ role' = [role EXCEPT ![v] = "OWNER", ![u] = "ADMIN"]
        /\ UNCHANGED <<invite, team, inTeam, admitted>>

inviteMember(r, i) ==
    /\ Write(r, "invite")
    /\ invite[i].state = "none"
    /\ invite' = [invite EXCEPT ![i] = [state |-> "open", role |-> job[r].role]]
    /\ UNCHANGED <<org, role, team, inTeam, admitted>>

(* Mutant: the invitation stays open. *)
acceptInviteUnmarked(r) ==
    LET i == job[r].invite
        u == job[r].user
    IN  /\ Write(r, "accept")
        /\ role[u] = "none"
        /\ role' = [role EXCEPT ![u] = job[r].role]
        /\ admitted' = [admitted EXCEPT ![i] = @ \cup {u}]
        /\ UNCHANGED <<org, invite, team, inTeam>>

(* A member already: the unique index refuses the row, and the invitation  *)
(* stays as it is.  The mark does not ask whether it was accepted          *)
(* meanwhile, nor the insert whether the organization was deleted.         *)
acceptInvite(r) ==
    LET i == job[r].invite
        u == job[r].user
    IN  /\ Write(r, "accept")
        /\ \/ /\ role[u] # "none"
              /\ UNCHANGED <<role, invite, admitted>>
           \/ /\ role[u] = "none"
              /\ role' = [role EXCEPT ![u] = job[r].role]
              /\ invite' = [invite EXCEPT ![i].state = "accepted"]
              /\ admitted' = [admitted EXCEPT ![i] = @ \cup {u}]
        /\ UNCHANGED <<org, team, inTeam>>

(* The name may be that of a live team, which the unique index refuses. *)
createTeam(r, t) ==
    /\ Write(r, "createTeam")
    /\ team[t] = "none"
    /\ \/ team' = [team EXCEPT ![t] = "live"]
       \/ (\E x \in Teams : team[x] = "live") /\ UNCHANGED team
    /\ UNCHANGED <<org, role, invite, inTeam, admitted>>

(* The rows of team_members go with the team's. *)
deleteTeam(r) ==
    LET t == job[r].team
    IN  /\ Write(r, "deleteTeam")
        /\ team' = [team EXCEPT ![t] = "deleted"]
        /\ inTeam' = {m \in inTeam : m[1] # t}
        /\ UNCHANGED <<org, role, invite, admitted>>

addTeamMember(r) ==
    LET t == job[r].team
    IN  /\ Write(r, "addToTeam")
        /\ inTeam' = IF team[t] = "live" THEN inTeam \cup {<<t, job[r].target>>} ELSE inTeam
        /\ UNCHANGED <<org, role, invite, team, admitted>>

removeTeamMember(r) ==
    /\ Write(r, "removeFromTeam")
    /\ inTeam' = inTeam \ {<<job[r].team, job[r].target>>}
    /\ UNCHANGED <<org, role, invite, team, admitted>>

(* expires_at passes. *)
ExpireInvite(i) ==
    /\ invite[i].state = "open"
    /\ invite' = [invite EXCEPT ![i].state = "expired"]
    /\ UNCHANGED <<org, role, team, inTeam, pc, job, begun, admitted, raced>>

(* The process dies before the write. *)
Crash(r) ==
    /\ pc[r] # "idle"
    /\ Finish(r)
    /\ UNCHANGED <<tables, begun, admitted, raced>>

-------------------------------------------------------------------------------
Handle(r) ==
    \/ requireMembership(r) \/ requireTeam(r) \/ ReadTarget(r)
    \/ deleteOrganization(r) \/ changeMemberRole(r) \/ removeMember(r)
    \/ transferOwnership(r) \/ acceptInvite(r)
    \/ \E i \in Invites : inviteMember(r, i)
    \/ \E t \in Teams : createTeam(r, t)
    \/ deleteTeam(r) \/ addTeamMember(r) \/ removeTeamMember(r)

Next ==
    \/ \E u \in Users : createOrganization(u)
    \/ \E r \in Requests, u \in Users : Arrive(r, u)
    \/ \E r \in Requests, u \in Users, i \in Invites : FollowInvite(r, u, i)
    \/ \E r \in Requests : Handle(r) \/ Crash(r)
    \/ \E i \in Invites : ExpireInvite(i)

Spec == Init /\ [][Next]_vars

-------------------------------------------------------------------------------
(* Properties. *)

Owners == {u \in Users : role[u] = "OWNER"}

(* schema.prisma: "The owner is also stored as a member with the OWNER     *)
(* role", and organizations.service.ts refuses to remove or demote the     *)
(* owner or to let it leave.  So the user in owner_id is the one member    *)
(* with the role OWNER.                                                    *)
OneOwner == org.owner # None => Owners = {org.owner}

(* OneOwner is kept by every sequence of calls, and by every interleaving  *)
(* but those of a transfer with another change of memberships.             *)
OneOwnerUnlessTransferRaced == "ownership" \in raced \/ OneOwner

(* One invitation admits one user, unless two requests follow the link at  *)
(* the same time.                                                          *)
InviteAdmitsOne ==
    "invitation" \in raced \/ \A i \in Invites : Cardinality(admitted[i]) <= 1

(* Nobody is in a team who was never admitted to the organization, and no  *)
(* deleted team has members; rows are well typed.  (Leaving the            *)
(* organization does not leave its teams.)                                 *)
TeamsHoldPastMembers ==
    /\ TypeOK
    /\ \A m \in inTeam :
          /\ team[m[1]] = "live"
          /\ \E i \in Invites \cup {None} : m[2] \in admitted[i]
===============================================================================
