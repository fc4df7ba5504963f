------------------------------- MODULE Accounts -------------------------------
(***************************************************************************)
(* Accounts and the addresses and provider accounts that identify them:    *)
(* register, account.service.ts, emailVerification.service.ts,             *)
(* passwordReset.service.ts and oauth.service.ts.  A request is a process: *)
(* it reads (and hashes a password, or asks a provider), locking nothing,  *)
(* and then writes; each write is one statement, or one transaction that   *)
(* locks a single user.  What evicts sessions does so in SessionRotation.  *)
(***************************************************************************)
EXTENDS Providers, Naturals, FiniteSets

CONSTANTS Users, Addresses, Requests,
          Profiles,     \* accounts at providers
          provider,     \* the provider of a profile
          account,      \* what the provider knows of it
          MaxLinks,     \* bound on the links sent
          MaxOps        \* bound on the requests of a behaviour

ASSUME NoneIsNoRow == None \notin Users \cup Addresses \cup Profiles
ASSUME ProfilesAreAccounts ==
    provider \in [Profiles -> Providers] /\ account \in [Profiles -> AccountsOver(Addresses)]
ASSUME BoundsAreNatural == {MaxLinks, MaxOps} \subseteq Nat

VARIABLES
    user,       \* users; whether the password is one that somebody knows
    linked,     \* oauth_accounts: the row of a profile
    link,       \* verification_tokens and password_resets
    pc, job,    \* the requests in flight: next statement and local variables
    begun,      \* requests so far
    proven,     \* history: addresses whose holder followed a link, or confirmed
                \* them at the provider, for a user
    applied,    \* history: how often a link had its effect
    overlapped  \* history: the races that have happened

tables == <<user, linked, link>>
history == <<proven, applied>>
vars == <<tables, pc, job, begun, history, overlapped>>

Links == 1 .. MaxLinks
Kinds == {"verify", "change", "reset"}
Steps == {"idle", "register", "mail", "taken", "issue", "consume", "delete",
          "autolink", "signup", "upsert", "count", "unlink"}

NoUser == [state |-> "none", email |-> None, verified |-> FALSE, password |-> "random"]
NoLink == [kind |-> "verify", state |-> "none", user |-> None, sentTo |-> None,
           newEmail |-> None, expired |-> FALSE]
NoRow == [user |-> None, id |-> 0]
NoJob == [op |-> "none", user |-> None, kind |-> "verify", address |-> None, link |-> 0,
          profile |-> None, verified |-> FALSE, id |-> 0]

Exists(u) == user[u].state # "none"
Active(u) == user[u].state = "active"
Taken(e) == \E u \in Users : Exists(u) /\ user[u].email = e
Holders(e) == {u \in Users : Active(u) /\ user[u].email = e}
LinkedTo(u) == {p \in Profiles : linked[p].user = u}

TypeOK ==
    /\ user \in [Users -> [state : {"none", "active", "deleted"}, email : Addresses \cup {None},
                           verified : BOOLEAN, password : {"known", "random"}]]
    /\ \A u \in Users : Exists(u) <=> user[u].email # None
    /\ linked \in [Profiles -> [user : Users \cup {None}, id : 0 .. MaxOps]]
    /\ link \in [Links -> [kind : Kinds, state : {"none", "open", "consumed"},
                           user : Users \cup {None}, sentTo : Addresses \cup {None},
                           newEmail : Addresses \cup {None}, expired : BOOLEAN]]
    /\ \A l \in Links : link[l].newEmail # None <=> link[l].kind = "change"
    /\ pc \in [Requests -> Steps]
    /\ \A r \in Requests : pc[r] = "idle" <=> job[r] = NoJob
    /\ begun \in 0 .. MaxOps
    /\ proven \in [Users -> SUBSET Addresses]
    /\ applied \in [Links -> Nat]

Init ==
    /\ user = [u \in Users |-> NoUser]
    /\ linked = [p \in Profiles |-> NoRow]
    /\ link = [l \in Links |-> NoLink]
    /\ pc = [r \in Requests |-> "idle"]
    /\ job = [r \in Requests |-> NoJob]
    /\ begun = 0
    /\ proven = [u \in Users |-> {}]
    /\ applied = [l \in Links |-> 0]
    /\ overlapped = {}

-------------------------------------------------------------------------------
(* Two requests follow one link, or unlink accounts of one user.           *)
RacesWith(j) ==
    LET Beside(q) == job[q].op = j.op /\ job[q].user = j.user /\ job[q].link = j.link
    IN  {j.op} \cap {op \in {"follow", "unlink"} : \E q \in Requests : Beside(q)}

Begin(r, step, j) ==
    /\ pc[r] = "idle"
    /\ begun < MaxOps
    /\ begun' = begun + 1
    /\ pc' = [pc EXCEPT ![r] = step]
    /\ job' = [job EXCEPT ![r] = j]
    /\ overlapped' = overlapped \cup RacesWith(j)
    /\ UNCHANGED <<tables, history>>

At(r, step) == pc[r] = step /\ UNCHANGED <<begun, overlapped>>
Goto(r, step) == pc' = [pc EXCEPT ![r] = step] /\ UNCHANGED job
Finish(r) == pc' = [pc EXCEPT ![r] = "idle"] /\ job' = [job EXCEPT ![r] = NoJob]

(* The handler throws, or its statement fails. *)
Fail(r) == Finish(r) /\ UNCHANGED <<tables, history>>

-------------------------------------------------------------------------------
(* Registration.  The first read finds the address free; the user is       *)
(* created later, and the default role, the session and the link after.    *)
BeginRegister(r, e) ==
    /\ ~Taken(e)
    /\ Begin(r, "register", [NoJob EXCEPT !.op = "register", !.address = e])

register(r, u) ==
    LET e == job[r].address
    IN  /\ At(r, "register")
        /\ ~Exists(u)
        /\ \/ Taken(e) /\ Fail(r)
           \/ /\ ~Taken(e)
              /\ user' = [user EXCEPT ![u] = [state |-> "active", email |-> e,
                                              verified |-> FALSE, password |-> "known"]]
              /\ pc' = [pc EXCEPT ![r] = "mail"]
              /\ job' = [job EXCEPT ![r].user = u]
              /\ UNCHANGED <<linked, link, history>>

-------------------------------------------------------------------------------
(* Links.  The row is written before the mail is sent. *)
LinksLeft ==
    Cardinality({r \in Requests : pc[r] \in {"register", "mail", "taken", "issue"}})
        < Cardinality({l \in Links : link[l].state = "none"})

Issue(l, kind, u, sentTo, newEmail) ==
    /\ link[l].state = "none"
    /\ link' = [link EXCEPT ![l] = [NoLink EXCEPT !.kind = kind, !.state = "open", !.user = u,
                                                  !.sentTo = sentTo, !.newEmail = newEmail]]

(* register's link is best effort: the request ends well without it. *)
issueEmailVerification(r, l) ==
    /\ At(r, "mail")
    /\ Issue(l, "verify", job[r].user, job[r].address, None)
    /\ Finish(r)
    /\ UNCHANGED <<user, linked, history>>

resendVerification(r, u) ==
    /\ LinksLeft
    /\ Active(u) /\ ~user[u].verified
    /\ Begin(r, "issue", [NoJob EXCEPT !.op = "resend", !.user = u, !.address = user[u].email])

requestEmailChange(r, u, e) ==
    /\ LinksLeft
    /\ Active(u) /\ user[u].password = "known"
    /\ user[u].email # e
    /\ Begin(r, "taken", [NoJob EXCEPT !.op = "change", !.user = u, !.kind = "change",
                                       !.address = e])

findTaken(r) ==
    /\ At(r, "taken")
    /\ IF Taken(job[r].address) THEN Finish(r) ELSE Goto(r, "issue")
    /\ UNCHANGED <<tables, history>>

forgotPassword(r, u) ==
    /\ LinksLeft
    /\ Active(u)
    /\ Begin(r, "issue", [NoJob EXCEPT !.op = "forgot", !.user = u, !.kind = "reset",
                                       !.address = user[u].email])

(* Mutant: the link goes to the address that the user has. *)
AddressedToOld(j) ==
    [sentTo |-> user[j.user].email, newEmail |-> IF j.kind = "change" THEN j.address ELSE None]

Addressed(j) ==
    [sentTo |-> j.address, newEmail |-> IF j.kind = "change" THEN j.address ELSE None]

issueLink(r, l) ==
    LET j == job[r]
    IN  /\ At(r, "issue")
        /\ Issue(l, j.kind, j.user, Addressed(j).sentTo, Addressed(j).newEmail)
        /\ Finish(r)
        /\ UNCHANGED <<user, linked, history>>

BeginFollow(r, l) ==
    /\ link[l].state = "open" /\ ~link[l].expired
    /\ Begin(r, "consume", [NoJob EXCEPT !.op = "follow", !.link = l, !.user = link[l].user])

(* Mutant: a change that is refused spends its link. *)
SpentAnyway(l, done) == [link EXCEPT ![l].state = "consumed"]

Spent(l, done) == IF done THEN [link EXCEPT ![l].state = "consumed"] ELSE link

Effect(u, l) ==
    CASE link[l].kind = "verify" -> [user[u] EXCEPT !.verified = TRUE]
      [] link[l].kind = "change" -> [user[u] EXCEPT !.email = link[l].newEmail, !.verified = TRUE]
      [] link[l].kind = "reset" -> [user[u] EXCEPT !.password = "known"]

(* The link is marked by its id, used meanwhile or not, in one transaction *)
(* with its effect.  The unique address refuses a change.                  *)
consumeLink(r) ==
    LET l == job[r].link
        u == job[r].user
        done == \A v \in Users \ {u} : ~Exists(v) \/ user[v].email # link[l].newEmail
    IN  /\ At(r, "consume")
        /\ link' = Spent(l, done)
        /\ IF done
           THEN /\ user' = [user EXCEPT ![u] = Effect(u, l)]
                /\ proven' = [proven EXCEPT ![u] = @ \cup {link[l].sentTo}]
                /\ applied' = [applied EXCEPT ![l] = @ + 1]
           ELSE UNCHANGED <<user, proven, applied>>
        /\ Finish(r)
        /\ UNCHANGED linked

ExpireLink(l) ==
    /\ link[l].state = "open" /\ ~link[l].expired
    /\ link' = [link EXCEPT ![l].expired = TRUE]
    /\ UNCHANGED <<user, linked, pc, job, begun, history, overlapped>>

-------------------------------------------------------------------------------
(* A deleted account keeps its row, and its address. *)
BeginDelete(r, u) ==
    /\ Active(u) /\ user[u].password = "known"
    /\ Begin(r, "delete", [NoJob EXCEPT !.op = "delete", !.user = u])

deleteAccount(r) ==
    /\ At(r, "delete")
    /\ user' = [user EXCEPT ![job[r].user].state = "deleted"]
    /\ Finish(r)
    /\ UNCHANGED <<linked, link, history>>

-------------------------------------------------------------------------------
(* Providers.  resolveLoginUser: a profile that is not linked belongs to   *)
(* the holder of its verified address, or to a new user.                   *)
BeginOAuthLogin(r, p, profile) ==
    LET holders == IF profile.verified THEN Holders(profile.email) ELSE {}
    IN  /\ linked[p] = NoRow
        /\ profile.email # None
        /\ \/ \E u \in holders :
                 Begin(r, "autolink", [NoJob EXCEPT !.op = "login", !.profile = p, !.user = u])
           \/ /\ holders = {}
              /\ Begin(r, "signup", [NoJob EXCEPT !.op = "login", !.profile = p,
                                                  !.address = profile.email,
                                                  !.verified = profile.verified])

(* A row's id: between two rows of a profile a request to unlink it began. *)
LinkedRow(u) == [user |-> u, id |-> begun]

createOAuthAccount(r) ==
    LET p == job[r].profile
    IN  /\ At(r, "autolink")
        /\ \/ linked[p] # NoRow /\ Fail(r)
           \/ /\ linked[p] = NoRow
              /\ linked' = [linked EXCEPT ![p] = LinkedRow(job[r].user)]
              /\ Finish(r)
              /\ UNCHANGED <<user, link, history>>

(* The user and its provider account are one nested write. *)
createUserFromProfile(r, u) ==
    LET p == job[r].profile
        e == job[r].address
        refused == Taken(e) \/ linked[p] # NoRow
    IN  /\ At(r, "signup")
        /\ ~Exists(u)
        /\ \/ refused /\ Fail(r)
           \/ /\ ~refused
              /\ user' = [user EXCEPT ![u] = [state |-> "active", email |-> e,
                              verified |-> job[r].verified, password |-> "random"]]
              /\ linked' = [linked EXCEPT ![p] = LinkedRow(u)]
              /\ proven' = [proven EXCEPT ![u] = @ \cup
                              {a \in {e} : account[p].confirmed /\ account[p].address = a}]
              /\ Finish(r)
              /\ UNCHANGED <<link, applied>>

(* linkAccount: the signed state names the user, who may be deleted since. *)
BeginLinkAccount(r, u, p) ==
    /\ Exists(u)
    /\ linked[p].user \in {None, u}
    /\ Begin(r, "upsert", [NoJob EXCEPT !.op = "link", !.user = u, !.profile = p])

(* Mutant: the update writes the user as well. *)
UpsertedMoves(u, p) == [linked EXCEPT ![p].user = u]

(* The update of a row that is there leaves its user. *)
Upserted(u, p) == IF linked[p] = NoRow THEN [linked EXCEPT ![p] = LinkedRow(u)] ELSE linked

linkAccount(r) ==
    /\ At(r, "upsert")
    /\ linked' = Upserted(job[r].user, job[r].profile)
    /\ Finish(r)
    /\ UNCHANGED <<user, link, history>>

BeginUnlink(r, u, p) ==
    /\ Active(u)
    /\ linked[p].user = u
    /\ Begin(r, "count", [NoJob EXCEPT !.op = "unlink", !.user = u, !.profile = p,
                                       !.id = linked[p].id])

(* Mutant: the account itself counts as another one. *)
OthersAndItself(u, p) == LinkedTo(u)

Others(u, p) == {q \in LinkedTo(u) : provider[q] # provider[p]}

(* The address is read beside the count; it never becomes unverified.      *)
countOthers(r) ==
    LET u == job[r].user
    IN  /\ At(r, "count")
        /\ \/ /\ Others(u, job[r].profile) = {} /\ ~user[u].verified
              /\ Finish(r)
           \/ /\ Others(u, job[r].profile) # {} \/ user[u].verified
              /\ Goto(r, "unlink")
        /\ UNCHANGED <<tables, history>>

(* By the row's id: it fails if the row is gone. *)
unlinkAccount(r) ==
    LET p == job[r].profile
    IN  /\ At(r, "unlink")
        /\ linked' = IF linked[p].id = job[r].id THEN [linked EXCEPT ![p] = NoRow] ELSE linked
        /\ Finish(r)
        /\ UNCHANGED <<user, link, history>>

-------------------------------------------------------------------------------
(* The process dies between two statements, or sending a mail fails. *)
Crash(r) ==
    /\ pc[r] # "idle"
    /\ Finish(r)
    /\ UNCHANGED <<tables, begun, history, overlapped>>

Arrive(r) ==
    \/ \E e \in Addresses : LinksLeft /\ BeginRegister(r, e)
    \/ \E u \in Users :
          \/ resendVerification(r, u) \/ forgotPassword(r, u) \/ BeginDelete(r, u)
          \/ \E e \in Addresses : requestEmailChange(r, u, e)
          \/ \E p \in Profiles : BeginLinkAccount(r, u, p) \/ BeginUnlink(r, u, p)
    \/ \E l \in Links : BeginFollow(r, l)
    \/ \E p \in Profiles : \E profile \in ProfilesOf(provider[p], account[p]) :
          BeginOAuthLogin(r, p, profile)

Continue(r) ==
    \/ \E u \in Users : register(r, u) \/ createUserFromProfile(r, u)
    \/ \E l \in Links : issueEmailVerification(r, l) \/ issueLink(r, l)
    \/ findTaken(r) \/ consumeLink(r) \/ deleteAccount(r)
    \/ createOAuthAccount(r) \/ linkAccount(r) \/ countOthers(r) \/ unlinkAccount(r)

Next ==
    \/ \E r \in Requests : Arrive(r) \/ Continue(r) \/ Crash(r)
    \/ \E l \in Links : ExpireLink(l)

Spec == Init /\ [][Next]_vars

-------------------------------------------------------------------------------
(* Properties. *)

(* An address that counts as verified is one that its holder confirmed at  *)
(* a provider, or who followed a link sent to it: whatever links were sent *)
(* before a change of address, in whatever order they are followed, and    *)
(* however the provider puts it.  And an account at a provider is linked   *)
(* to the user of its address only if the address was confirmed there.     *)
VerifiedEmailProven ==
    /\ \A u \in Users : user[u].verified => user[u].email \in proven[u]
    /\ \A r \in Requests : pc[r] = "autolink" => account[job[r].profile].confirmed

(* A link is marked if and only if it had its effect, and schema.prisma's  *)
(* "Single-use" holds unless two requests followed the link at once.  Rows *)
(* are well typed.                                                         *)
LinkSpentForItsEffect ==
    /\ TypeOK
    /\ \A l \in Links :
          /\ link[l].state = "consumed" <=> applied[l] > 0
          /\ applied[l] > 1 => "follow" \in overlapped

(* oauth.service.ts: unlinking is refused "if it would leave the user with *)
(* no way back in".  A user whose password nobody knows has a provider or  *)
(* a verified address, unless two of its providers were unlinked at once.  *)
WayBackIn ==
    "unlink" \in overlapped \/ \A u \in Users :
        Active(u) /\ user[u].password = "random" => LinkedTo(u) # {} \/ user[u].verified

(* "That account is already linked to another user": a provider account    *)
(* moves to another user only after it was unlinked, also when two users   *)
(* who both found it free link it at once.                                 *)
ProviderAccountKeepsUser ==
    [][\A p \in Profiles :
         linked[p] # NoRow /\ linked'[p] # NoRow => linked'[p].user = linked[p].user]_vars
===============================================================================
