---------------------------- MODULE Accounts_proofs ----------------------------
(***************************************************************************)
(* Accounts, for any number of users, requests and links, any accounts,    *)
(* and every provider: an address that counts as verified is one that its  *)
(* holder proved, links are spent for their effect, provider accounts keep *)
(* their user, and nobody loses the last way back in.                      *)
(***************************************************************************)
EXTENDS Accounts, TLAPS

-------------------------------------------------------------------------------
(***************************************************************************)
(* What exchangeCode promises the accounts, for every provider, account    *)
(* and answer: Accounts takes it for granted whose address a profile has.  *)
(***************************************************************************)

(* The row that resolveEmail of github.provider.ts prefers is one of the   *)
(* account's, with the flag that GitHub has for it, in whatever order they *)
(* come and whether or not one is primary.                                 *)
LEMMA GithubPrefersOwn ==
    ASSUME NEW addresses,
           NEW acct \in AccountsOver(addresses),
           NEW list \in Lists(acct), list # <<>>
    PROVE  \E primary \in BOOLEAN :
              \/ Preferred(list) = Row(acct.address, primary, acct.confirmed)
              \/ acct.spare # None /\ Preferred(list) = Row(acct.spare, FALSE, FALSE)
<1> DEFINE rows == OwnRows(acct) \cup SpareRows(acct)
<1>1. \/ \E one \in rows : list = <<one>>
      \/ \E one, two \in rows : list = <<one, two>>
    BY DEF Lists
<1>2. 1 \in DOMAIN list /\ \A i \in DOMAIN list : list[i] \in rows
    <2> HIDE DEF rows
    <2> QED BY <1>1
<1>3. Preferred(list) \in rows
    <2> HIDE DEF rows
    <2> QED BY <1>2 DEF Preferred
<1> QED
    BY <1>3 DEF OwnRows, SpareRows

(* What is written into a profile is what is read from it. *)
LEMMA ProfileFields ==
    ASSUME NEW email, NEW verified \in BOOLEAN
    PROVE  Profile(email, verified).email = email /\ Profile(email, verified).verified = verified
BY DEF Profile

(* A profile whose address counts as verified has the address that the     *)
(* holder of the account confirmed, whichever provider wrote the answer,   *)
(* and in whichever form.                                                  *)
THEOREM VerifiedMeansConfirmed ==
    ASSUME NEW addresses, None \notin addresses,
           NEW name \in Providers,
           NEW acct \in AccountsOver(addresses),
           NEW profile \in ProfilesOf(name, acct),
           profile.verified
    PROVE  acct.confirmed /\ profile.email = acct.address
<1>1. PICK a \in Told(name, acct) : profile = exchangeCode(name, a)
    BY DEF ProfilesOf
<1>2. acct.confirmed \in BOOLEAN /\ acct.address \in addresses
    BY DEF AccountsOver
<1>3. /\ name = "google" => profile = googleProfile(a)
      /\ name = "github" => profile = githubProfile(a)
      /\ name = "microsoft" => profile = microsoftProfile(a)
      /\ name = "discord" => profile = discordProfile(a)
      /\ name = "facebook" => profile = facebookProfile(a)
      /\ name = "linkedin" => profile = linkedinProfile(a)
      /\ name = "twitter" => profile = twitterProfile(a)
      /\ name = "apple" => profile = appleProfile(a)
    BY <1>1 DEF exchangeCode
<1>4. \/ a.email = None /\ a.flag = "absent" /\ a.list = <<>>
      \/ /\ name \in {"google", "discord"}
         /\ a.email = acct.address /\ a.flag \in AsBoolean(acct.confirmed)
      \/ /\ name \in {"linkedin", "apple"}
         /\ a.email = acct.address /\ a.flag \in AsText(acct.confirmed)
      \/ /\ name \in {"microsoft", "facebook"}
         /\ acct.confirmed /\ a.email = acct.address
      \/ name = "github" /\ a.list \in Lists(acct)
    BY <1>1 DEF Told
<1>5. CASE name = "github"
    <2>1. a.list # <<>>
        BY <1>3, <1>5 DEF githubProfile, Profile
    <2>2. a.list \in Lists(acct)
        BY <1>4, <1>5, <2>1
    <2>3. profile = Profile(Preferred(a.list).email, Preferred(a.list).verified)
        BY <1>3, <1>5, <2>1 DEF githubProfile
    <2>4. Preferred(a.list).verified /\ profile.email = Preferred(a.list).email
        BY <2>3 DEF Profile
    <2>5. PICK primary \in BOOLEAN :
               \/ Preferred(a.list) = Row(acct.address, primary, acct.confirmed)
               \/ Preferred(a.list) = Row(acct.spare, FALSE, FALSE)
        BY <2>1, <2>2, GithubPrefersOwn
    <2> QED
        BY <2>4, <2>5 DEF Row
<1>6. ASSUME a.flag = "true", a.flag \in AsBoolean(acct.confirmed)
      PROVE  acct.confirmed
    BY <1>2, <1>6 DEF AsBoolean
<1>7. ASSUME a.flag \in {"true", "'true'"}, a.flag \in AsText(acct.confirmed)
      PROVE  acct.confirmed
    BY <1>2, <1>7 DEF AsText
<1>8. CASE name = "google"
    <2>1. profile.email = a.email /\ profile.verified = (a.flag = "true")
        BY <1>3, <1>8, ProfileFields DEF googleProfile
    <2> QED
        BY <1>4, <1>6, <1>8, <2>1
<1>9. CASE name = "discord"
    <2>1. profile.email = a.email /\ profile.verified = (a.email # None /\ a.flag = "true")
        BY <1>3, <1>9, ProfileFields DEF discordProfile
    <2> QED
        BY <1>4, <1>6, <1>9, <2>1
<1>10. CASE name \in {"linkedin", "apple"}
    <2>1. profile = Profile(a.email, a.flag \in {"true", "'true'"})
        BY <1>3, <1>10 DEF linkedinProfile, appleProfile
    <2>2. (a.flag \in {"true", "'true'"}) \in BOOLEAN
        OBVIOUS
    <2>3. profile.email = a.email /\ profile.verified = (a.flag \in {"true", "'true'"})
        BY <2>1, <2>2, ProfileFields
    <2> QED
        BY <1>4, <1>7, <1>10, <2>3
<1>11. CASE name \in {"microsoft", "facebook"}
    <2>1. profile.email = a.email /\ profile.verified = (a.email # None)
        BY <1>3, <1>11, ProfileFields DEF microsoftProfile, facebookProfile
    <2> QED
        BY <1>4, <1>11, <2>1
<1>12. CASE name = "twitter"
    BY <1>3, <1>12 DEF twitterProfile, Profile
<1> QED
    BY <1>5, <1>8, <1>9, <1>10, <1>11, <1>12 DEF Providers

(* Every provider's client returns a profile with an address or none, and  *)
(* with a flag that is a boolean, whatever the provider wrote.             *)
LEMMA ProfilesAreTyped ==
    ASSUME NEW addresses,
           NEW name \in Providers,
           NEW acct \in AccountsOver(addresses),
           NEW profile \in ProfilesOf(name, acct)
    PROVE  profile \in [email : addresses \cup {None}, verified : BOOLEAN]
<1> DEFINE T == [email : addresses \cup {None}, verified : BOOLEAN]
<1>1. PICK a \in Told(name, acct) : profile = exchangeCode(name, a)
    BY DEF ProfilesOf
<1>2. /\ a.email \in addresses \cup {None}
      /\ name = "github" => a.list = <<>> \/ a.list \in Lists(acct)
    BY <1>1 DEF Told, AccountsOver
<1>3. \A e \in addresses \cup {None}, v \in BOOLEAN : Profile(e, v) \in T
    BY DEF Profile
<1>4. CASE name = "github"
    <2>1. profile = githubProfile(a)
        BY <1>1, <1>4 DEF exchangeCode
    <2>2. CASE a.list = <<>>
        BY <1>2, <1>3, <2>1, <2>2 DEF githubProfile
    <2>3. CASE a.list # <<>>
        <3>1. PICK primary \in BOOLEAN :
                   \/ Preferred(a.list) = Row(acct.address, primary, acct.confirmed)
                   \/ acct.spare # None /\ Preferred(a.list) = Row(acct.spare, FALSE, FALSE)
            BY <1>2, <1>4, <2>3, GithubPrefersOwn
        <3>2. /\ acct.address \in addresses /\ acct.confirmed \in BOOLEAN
              /\ acct.spare \in addresses \cup {None}
            BY DEF AccountsOver
        <3>3. /\ Preferred(a.list).email \in addresses \cup {None}
              /\ Preferred(a.list).verified \in BOOLEAN
            <4>1. CASE Preferred(a.list) = Row(acct.address, primary, acct.confirmed)
                BY <3>2, <4>1 DEF Row
            <4>2. CASE Preferred(a.list) = Row(acct.spare, FALSE, FALSE)
                BY <3>2, <4>2 DEF Row
            <4> QED
                BY <3>1, <4>1, <4>2
        <3> QED
            BY <1>3, <2>1, <2>3, <3>3 DEF githubProfile
    <2> QED
        BY <2>2, <2>3
<1>5. CASE name # "github"
    <2>1. \/ profile \in {Profile(a.email, a.flag = "true"), Profile(a.email, a.email # None),
                          Profile(a.email, a.email # None /\ a.flag = "true")}
          \/ profile \in {Profile(a.email, a.flag \in {"true", "'true'"}), Profile(None, FALSE)}
        <3>1. /\ name = "google" => profile = googleProfile(a)
              /\ name = "microsoft" => profile = microsoftProfile(a)
              /\ name = "discord" => profile = discordProfile(a)
              /\ name = "facebook" => profile = facebookProfile(a)
              /\ name = "linkedin" => profile = linkedinProfile(a)
              /\ name = "twitter" => profile = twitterProfile(a)
              /\ name = "apple" => profile = appleProfile(a)
            BY <1>1 DEF exchangeCode
        <3> QED
            BY <1>5, <3>1 DEF Providers, googleProfile, microsoftProfile, discordProfile,
                facebookProfile, linkedinProfile, twitterProfile, appleProfile
    <2>2. /\ (a.flag = "true") \in BOOLEAN /\ (a.email # None) \in BOOLEAN
          /\ (a.email # None /\ a.flag = "true") \in BOOLEAN
          /\ (a.flag \in {"true", "'true'"}) \in BOOLEAN /\ FALSE \in BOOLEAN
        OBVIOUS
    <2> QED
        BY <1>2, <1>3, <2>1, <2>2
<1> QED
    BY <1>4, <1>5

-------------------------------------------------------------------------------

Link == [kind : Kinds, state : {"none", "open", "consumed"},
         user : Users \cup {None}, sentTo : Addresses \cup {None},
         newEmail : Addresses \cup {None}, expired : BOOLEAN]
User == [state : {"none", "active", "deleted"}, email : Addresses \cup {None},
         verified : BOOLEAN, password : {"known", "random"}]
Ops == {"none", "register", "resend", "change", "forgot", "follow", "delete", "login", "link",
        "unlink"}
Job == [op : Ops, user : Users \cup {None}, kind : Kinds,
        address : Addresses \cup {None}, link : Links \cup {0},
        profile : Profiles \cup {None}, verified : BOOLEAN, id : Nat]

TypedRows ==
    /\ user \in [Users -> User]
    /\ \A u \in Users : Exists(u) => user[u].email \in Addresses
    /\ link \in [Links -> Link]
    /\ linked \in [Profiles -> [user : Users \cup {None}, id : Nat]]
    /\ proven \in [Users -> SUBSET Addresses]
    /\ begun \in Nat

TypedRequests == pc \in [Requests -> Steps] /\ job \in [Requests -> Job]

(* The address e was the user's when a job or a link noted it, and it      *)
(* either still is, or was replaced by one that was proven.                *)
Meets(u, e) == u \in Users /\ Exists(u) /\ (user[u].verified \/ user[u].email = e)

AddressesProven == \A u \in Users : user[u].verified => user[u].email \in proven[u]

LinkHonest(l) ==
    link[l].state # "none" =>
        /\ link[l].user \in Users /\ Exists(link[l].user) /\ link[l].sentTo \in Addresses
        /\ link[l].kind = "change" => link[l].newEmail = link[l].sentTo
        /\ link[l].kind = "verify" => Meets(link[l].user, link[l].sentTo)

(* What a request whose next statement is step may rely on in its          *)
(* variables j, whatever other requests have written since it read them.   *)
Honest(step, j) ==
    /\ step \in {"mail", "taken", "issue", "delete", "upsert", "count", "unlink", "autolink"}
          => j.user \in Users /\ Exists(j.user)
    /\ step \in {"register", "mail", "taken", "issue", "signup"} => j.address \in Addresses
    /\ step \in {"autolink", "signup", "upsert", "count", "unlink"} => j.profile \in Profiles
    /\ step = "mail" \/ (step = "issue" /\ j.kind = "verify") => Meets(j.user, j.address)
    /\ step = "taken" => j.kind = "change"
    /\ step = "consume" => /\ j.link \in Links /\ link[j.link].state # "none"
                           /\ j.user = link[j.link].user
    /\ step = "signup" /\ j.verified =>
          account[j.profile].confirmed /\ account[j.profile].address = j.address
    /\ step = "autolink" => account[j.profile].confirmed

AccountsInv ==
    /\ TypedRows /\ TypedRequests
    /\ AddressesProven
    /\ \A l \in Links : LinkHonest(l)
    /\ \A r \in Requests : Honest(pc[r], job[r])

(* What a step of any request leaves true of users and of links, on which  *)
(* the other requests rely.                                                *)
UsersKept ==
    \A u \in Users : Exists(u) =>
        /\ Exists(u)'
        /\ user[u].verified => user'[u].verified
        /\ user'[u].email = user[u].email \/ user'[u].verified

LinksKept ==
    \A l \in Links : link[l].state # "none" =>
        link'[l].state # "none" /\ link'[l].user = link[l].user

-------------------------------------------------------------------------------
(* The invariant holds of the empty tables. *)
LEMMA InitHonest == Init => AccountsInv
<1> SUFFICES ASSUME Init PROVE AccountsInv
    OBVIOUS
<1>1. TypedRows
    <2>1. NoUser \in User /\ NoLink \in Link /\ NoRow \in [user : Users \cup {None}, id : Nat]
        BY DEF User, Link, NoUser, NoLink, NoRow, Kinds
    <2> QED
        BY <2>1 DEF Init, TypedRows, Exists, NoUser
<1>2. TypedRequests
    <2>1. NoJob \in Job
        BY DEF Job, NoJob, Ops, Kinds
    <2> QED
        BY <2>1 DEF Init, TypedRequests, Steps
<1>3. AddressesProven /\ \A l \in Links : LinkHonest(l)
    BY DEF Init, AddressesProven, LinkHonest, NoUser, NoLink
<1>4. \A r \in Requests : Honest(pc[r], job[r])
    BY DEF Init, Honest
<1> QED
    BY <1>1, <1>2, <1>3, <1>4 DEF AccountsInv

(* An address that was noted stays good. *)
LEMMA MeetsStays ==
    ASSUME UsersKept, NEW u, NEW e, Meets(u, e)
    PROVE  Meets(u, e)'
BY DEF UsersKept, Meets

(* What a request relies on survives the steps of the others. *)
LEMMA HonestStays ==
    ASSUME UsersKept, LinksKept, NEW step, NEW j, Honest(step, j)
    PROVE  Honest(step, j)'
<1>1. Meets(j.user, j.address) => Meets(j.user, j.address)'
    BY MeetsStays
<1>2. j.user \in Users /\ Exists(j.user) => Exists(j.user)'
    BY DEF UsersKept
<1>3. j.link \in Links /\ link[j.link].state # "none"
        => link'[j.link].state # "none" /\ link'[j.link].user = link[j.link].user
    BY DEF LinksKept
<1> QED
    BY <1>1, <1>2, <1>3 DEF Honest

(* A link that keeps its row, or only its mark changes, stays honest. *)
LEMMA LinkStays ==
    ASSUME UsersKept, NEW l \in Links, LinkHonest(l), link[l].state # "none",
           link'[l].kind = link[l].kind, link'[l].user = link[l].user,
           link'[l].sentTo = link[l].sentTo, link'[l].newEmail = link[l].newEmail
    PROVE  LinkHonest(l)'
<1>1. Meets(link[l].user, link[l].sentTo) => Meets(link[l].user, link[l].sentTo)'
    BY MeetsStays
<1>2. Exists(link[l].user)'
    BY DEF UsersKept, LinkHonest
<1> QED
    BY <1>1, <1>2 DEF LinkHonest, Meets

(* If the tables stay as they are, so does what is relied on. *)
LEMMA NothingWritten ==
    ASSUME AccountsInv, UNCHANGED <<tables, proven>>
    PROVE  UsersKept /\ LinksKept /\ AddressesProven' /\ (\A l \in Links : LinkHonest(l)')
BY DEF AccountsInv, UsersKept, LinksKept, AddressesProven, LinkHonest, Meets, Exists, tables

(* A request that begins relies only on what it has just read. *)
LEMMA BeginHonest ==
    ASSUME AccountsInv, NEW r \in Requests, NEW step \in Steps, NEW j \in Job,
           Begin(r, step, j), Honest(step, j)
    PROVE  AccountsInv'
<1>1. UNCHANGED <<tables, proven>> /\ begun' = begun + 1
    BY DEF Begin, history
<1>2. UsersKept /\ LinksKept /\ AddressesProven' /\ \A l \in Links : LinkHonest(l)'
    BY <1>1, NothingWritten
<1>3. TypedRows' /\ TypedRequests'
    BY <1>1 DEF Begin, AccountsInv, TypedRows, TypedRequests, Exists, tables
<1>4. ASSUME NEW q \in Requests PROVE Honest(pc[q], job[q])'
    <2>1. CASE q = r
        <3>1. Honest(step, j)'
            BY <1>2, HonestStays
        <3>2. pc'[q] = step /\ job'[q] = j
            BY <2>1 DEF Begin, AccountsInv, TypedRequests
        <3> QED
            BY <3>1, <3>2 DEF Honest
    <2>2. CASE q # r
        <3>1. Honest(pc[q], job[q])
            BY DEF AccountsInv
        <3>2. pc'[q] = pc[q] /\ job'[q] = job[q]
            BY <2>2 DEF Begin, AccountsInv, TypedRequests
        <3> QED
            BY <1>2, <3>1, <3>2, HonestStays DEF Honest
    <2> QED
        BY <2>1, <2>2
<1> QED
    BY <1>2, <1>3, <1>4 DEF AccountsInv

(* A request that goes on, or ends, relies on what its statement left.     *)
LEMMA StepHonest ==
    ASSUME AccountsInv, NEW r \in Requests, NEW step \in Steps, NEW j \in Job,
           pc' = [pc EXCEPT ![r] = step], job' = [job EXCEPT ![r] = j], Honest(step, j)',
           TypedRows', UsersKept, LinksKept, AddressesProven', \A l \in Links : LinkHonest(l)'
    PROVE  AccountsInv'
<1>1. TypedRequests'
    BY DEF AccountsInv, TypedRequests
<1>2. ASSUME NEW q \in Requests PROVE Honest(pc[q], job[q])'
    <2>1. CASE q = r
        <3>1. pc'[q] = step /\ job'[q] = j
            BY <2>1 DEF AccountsInv, TypedRequests
        <3> QED
            BY <3>1 DEF Honest
    <2>2. CASE q # r
        <3>1. Honest(pc[q], job[q])
            BY DEF AccountsInv
        <3>2. pc'[q] = pc[q] /\ job'[q] = job[q]
            BY <2>2 DEF AccountsInv, TypedRequests
        <3> QED
            BY <3>1, <3>2, HonestStays DEF Honest
    <2> QED
        BY <2>1, <2>2
<1> QED
    BY <1>1, <1>2 DEF AccountsInv

(* So a request that ends has to care for the tables only. *)
LEMMA FinishHonest ==
    ASSUME AccountsInv, NEW r \in Requests, Finish(r),
           TypedRows', UsersKept, LinksKept, AddressesProven', \A l \in Links : LinkHonest(l)'
    PROVE  AccountsInv'
<1>1. NoJob \in Job /\ "idle" \in Steps
    BY DEF Job, NoJob, Ops, Kinds, Steps
<1>2. Honest("idle", NoJob)'
    BY DEF Honest
<1> QED
    BY <1>1, <1>2, StepHonest DEF Finish

(* A handler that writes nothing keeps the invariant: it throws, or dies.  *)
LEMMA QuietHonest ==
    ASSUME AccountsInv, NEW r \in Requests, Finish(r), UNCHANGED <<tables, begun, proven>>
    PROVE  AccountsInv'
<1>1. UsersKept /\ LinksKept /\ AddressesProven' /\ \A l \in Links : LinkHonest(l)'
    BY NothingWritten
<1>2. TypedRows'
    BY DEF AccountsInv, TypedRows, Exists, tables
<1> QED
    BY <1>1, <1>2, FinishHonest

(* A statement on users leaves the links honest, if it keeps the users. *)
LEMMA LinksUntouched ==
    ASSUME AccountsInv, UsersKept, UNCHANGED link
    PROVE  LinksKept /\ \A l \in Links : LinkHonest(l)'
<1>1. LinksKept
    BY DEF LinksKept
<1>2. ASSUME NEW l \in Links PROVE LinkHonest(l)'
    <2>1. CASE link[l].state = "none"
        BY <2>1 DEF LinkHonest
    <2>2. CASE link[l].state # "none"
        <3>1. LinkHonest(l)
            BY DEF AccountsInv
        <3> QED
            BY <2>2, <3>1, LinkStays
    <2> QED
        BY <2>1, <2>2
<1> QED
    BY <1>1, <1>2

(* A statement on links alone keeps the users. *)
LEMMA UsersUntouched ==
    ASSUME AccountsInv, UNCHANGED <<user, proven>>
    PROVE  UsersKept /\ AddressesProven'
BY DEF AccountsInv, UsersKept, AddressesProven, Exists

-------------------------------------------------------------------------------
(* What its operation puts into a request that begins.                     *)
Fresh(step, j) ==
    /\ j.op # "none" /\ step \notin {"idle", "unlink"}
    /\ step = "consume" => j.op = "follow" /\ link[j.link].state = "open"
    /\ step = "count" => /\ j.op = "unlink" /\ j.link = 0
                         /\ linked[j.profile].user = j.user /\ linked[j.profile].id = j.id

ArrivesWell(r) ==
    \E step \in Steps, j \in Job : Begin(r, step, j) /\ Honest(step, j) /\ Fresh(step, j)

(* One such beginning is enough. *)
LEMMA BeginWell ==
    ASSUME NEW r \in Requests, NEW step \in Steps, NEW j \in Job,
           Begin(r, step, j), Honest(step, j), Fresh(step, j)
    PROVE  ArrivesWell(r)
BY DEF ArrivesWell

(* A request that arrives relies only on what it has read. *)
LEMMA Arrives ==
    ASSUME AccountsInv, NEW r \in Requests, Arrive(r)
    PROVE  ArrivesWell(r)
<1> USE DEF Job, NoJob, Ops, Kinds, Steps, Honest, Fresh
<1>1. ASSUME NEW e \in Addresses, BeginRegister(r, e) PROVE ArrivesWell(r)
    <2> DEFINE j == [NoJob EXCEPT !.op = "register", !.address = e]
    <2>1. j \in Job /\ j.address = e
        OBVIOUS
    <2> QED
        BY <1>1, <2>1, BeginWell DEF BeginRegister
<1>2. ASSUME NEW u \in Users, resendVerification(r, u) PROVE ArrivesWell(r)
    <2> DEFINE j == [NoJob EXCEPT !.op = "resend", !.user = u, !.address = user[u].email]
    <2>1. Exists(u) /\ user[u].email \in Addresses
        BY <1>2 DEF resendVerification, AccountsInv, TypedRows, Active, Exists
    <2>2. j \in Job /\ j.user = u /\ j.address = user[u].email
        BY <2>1
    <2> QED
        BY <1>2, <2>1, <2>2, BeginWell DEF resendVerification, Meets
<1>3. ASSUME NEW u \in Users, NEW e \in Addresses, requestEmailChange(r, u, e)
      PROVE  ArrivesWell(r)
    <2> DEFINE j == [NoJob EXCEPT !.op = "change", !.user = u, !.kind = "change", !.address = e]
    <2>1. Exists(u)
        BY <1>3 DEF requestEmailChange, Active, Exists
    <2>2. j \in Job /\ j.user = u /\ j.address = e /\ j.kind = "change"
        OBVIOUS
    <2> QED
        BY <1>3, <2>1, <2>2, BeginWell DEF requestEmailChange
<1>4. ASSUME NEW u \in Users, forgotPassword(r, u) PROVE ArrivesWell(r)
    <2> DEFINE j == [NoJob EXCEPT !.op = "forgot", !.user = u, !.kind = "reset",
                                  !.address = user[u].email]
    <2>1. Exists(u) /\ user[u].email \in Addresses
        BY <1>4 DEF forgotPassword, AccountsInv, TypedRows, Active, Exists
    <2>2. j \in Job /\ j.user = u /\ j.address = user[u].email /\ j.kind = "reset"
        BY <2>1
    <2> QED
        BY <1>4, <2>1, <2>2, BeginWell DEF forgotPassword
<1>5. ASSUME NEW l \in Links, BeginFollow(r, l) PROVE ArrivesWell(r)
    <2> DEFINE j == [NoJob EXCEPT !.op = "follow", !.link = l, !.user = link[l].user]
    <2>1. link[l].state # "none" /\ link[l].user \in Users
        BY <1>5 DEF BeginFollow, AccountsInv, LinkHonest
    <2>2. j \in Job /\ j.link = l /\ j.user = link[l].user
        BY <2>1
    <2> QED
        BY <1>5, <2>1, <2>2, BeginWell DEF BeginFollow
<1>6. ASSUME NEW u \in Users, BeginDelete(r, u) PROVE ArrivesWell(r)
    <2> DEFINE j == [NoJob EXCEPT !.op = "delete", !.user = u]
    <2>1. Exists(u)
        BY <1>6 DEF BeginDelete, Active, Exists
    <2>2. j \in Job /\ j.user = u
        OBVIOUS
    <2> QED
        BY <1>6, <2>1, <2>2, BeginWell DEF BeginDelete
<1>7. ASSUME NEW u \in Users, NEW p \in Profiles, BeginLinkAccount(r, u, p)
      PROVE  ArrivesWell(r)
    <2> DEFINE j == [NoJob EXCEPT !.op = "link", !.user = u, !.profile = p]
    <2>1. j \in Job /\ j.user = u /\ j.profile = p
        OBVIOUS
    <2> QED
        BY <1>7, <2>1, BeginWell DEF BeginLinkAccount
<1>8. ASSUME NEW u \in Users, NEW p \in Profiles, BeginUnlink(r, u, p)
      PROVE  ArrivesWell(r)
    <2> DEFINE j == [NoJob EXCEPT !.op = "unlink", !.user = u, !.profile = p,
                                  !.id = linked[p].id]
    <2>1. Exists(u) /\ linked[p].id \in Nat
        BY <1>8 DEF BeginUnlink, Active, Exists, AccountsInv, TypedRows
    <2>2. j \in Job /\ j.user = u /\ j.profile = p
        BY <2>1
    <2> QED
        BY <1>8, <2>1, <2>2, BeginWell DEF BeginUnlink
<1>9. ASSUME NEW p \in Profiles, NEW profile \in ProfilesOf(provider[p], account[p]),
             BeginOAuthLogin(r, p, profile)
      PROVE  ArrivesWell(r)
    <2> DEFINE auto(u) == [NoJob EXCEPT !.op = "login", !.profile = p, !.user = u]
               new == [NoJob EXCEPT !.op = "login", !.profile = p, !.address = profile.email,
                                    !.verified = profile.verified]
    <2>1. provider[p] \in Providers /\ account[p] \in AccountsOver(Addresses)
        BY ProfilesAreAccounts
    <2>2. profile \in [email : Addresses \cup {None}, verified : BOOLEAN]
        BY <2>1, ProfilesAreTyped
    <2>3. profile.verified => account[p].confirmed /\ profile.email = account[p].address
        BY <2>1, NoneIsNoRow, VerifiedMeansConfirmed
    <2>4. profile.email \in Addresses /\ profile.verified \in BOOLEAN
        BY <1>9, <2>2 DEF BeginOAuthLogin
    <2>5. ASSUME NEW u \in IF profile.verified THEN Holders(profile.email) ELSE {},
                 Begin(r, "autolink", auto(u))
          PROVE  ArrivesWell(r)
        <3>1. u \in Users /\ Exists(u) /\ profile.verified
            BY <2>5 DEF Holders, Active, Exists
        <3>2. auto(u) \in Job /\ auto(u).user = u /\ auto(u).profile = p
            BY <3>1
        <3>3. Honest("autolink", auto(u)) /\ Fresh("autolink", auto(u)) /\ "autolink" \in Steps
            BY <2>3, <3>1, <3>2
        <3> HIDE DEF auto, Honest, Fresh, Steps, Job
        <3> QED
            BY <2>5, <3>2, <3>3, BeginWell
    <2>6. ASSUME Begin(r, "signup", new)
          PROVE  ArrivesWell(r)
        <3>1. /\ new \in Job /\ new.profile = p /\ new.address = profile.email
              /\ new.verified = profile.verified
            BY <2>4
        <3>2. Honest("signup", new) /\ Fresh("signup", new) /\ "signup" \in Steps
            BY <2>3, <2>4, <3>1
        <3> HIDE DEF new, Honest, Fresh, Steps, Job
        <3> QED
            BY <2>6, <3>1, <3>2, BeginWell
    <2> QED
        BY <1>9, <2>5, <2>6 DEF BeginOAuthLogin
<1> QED
    BY <1>1, <1>2, <1>3, <1>4, <1>5, <1>6, <1>7, <1>8, <1>9 DEF Arrive

(* So a request that arrives keeps the invariant. *)
LEMMA ArriveHonest ==
    ASSUME AccountsInv, NEW r \in Requests, Arrive(r)
    PROVE  AccountsInv'
BY Arrives, BeginHonest DEF ArrivesWell

-------------------------------------------------------------------------------
(* A new user has an address, and no other has one less. *)
LEMMA RegisterHonest ==
    ASSUME AccountsInv, NEW r \in Requests, NEW u \in Users, register(r, u)
    PROVE  AccountsInv'
<1>1. /\ pc[r] = "register" /\ begun' = begun
      /\ ~Exists(u) /\ job[r] \in Job /\ job[r].address \in Addresses
    BY DEF register, At, AccountsInv, TypedRequests, Honest
<1>e. PICK e \in Addresses : e = job[r].address
    BY <1>1
<1>j. PICK j \in Job : j = [job[r] EXCEPT !.user = u] /\ j.user = u /\ j.address = e
    <2> DEFINE i == [job[r] EXCEPT !.user = u]
    <2>1. i \in Job /\ i.user = u /\ i.address = e
        BY <1>1, <1>e DEF Job
    <2> QED
        BY <2>1
<1> DEFINE row == [state |-> "active", email |-> e, verified |-> FALSE, password |-> "known"]
<1>2. CASE Fail(r)
    BY <1>1, <1>2, QuietHonest DEF Fail, history
<1>3. CASE ~Fail(r)
    <2>1. /\ user' = [user EXCEPT ![u] = row] /\ UNCHANGED <<linked, link, proven>>
          /\ pc' = [pc EXCEPT ![r] = "mail"] /\ job' = [job EXCEPT ![r].user = u]
        BY <1>3, <1>e DEF register, history
    <2>2. user \in [Users -> User] /\ row \in User
        BY <1>1 DEF AccountsInv, TypedRows, User
    <2>3. \A v \in Users : user'[v] = IF v = u THEN row ELSE user[v]
        BY <2>1, <2>2
    <2>4. UsersKept /\ AddressesProven'
        BY <1>1, <2>1, <2>3 DEF UsersKept, AddressesProven, Exists, AccountsInv
    <2>5. LinksKept /\ \A l \in Links : LinkHonest(l)'
        BY <2>1, <2>4, LinksUntouched
    <2>6. TypedRows'
        <3>1. user' \in [Users -> User]
            BY <2>1, <2>2
        <3> QED
            BY <1>1, <2>1, <2>3, <3>1 DEF AccountsInv, TypedRows, Exists
    <2>7. job' = [job EXCEPT ![r] = j]
        BY <1>j, <2>1
    <2>8. Meets(u, e)' /\ Exists(u)'
        BY <2>3 DEF Meets, Exists
    <2>9. Honest("mail", j)' /\ "mail" \in Steps
        BY <1>j, <2>8 DEF Honest, Steps
    <2> QED
        BY <2>1, <2>4, <2>5, <2>6, <2>7, <2>9, StepHonest
<1> QED
    BY <1>2, <1>3

(* A link that is written is honest. *)
LEMMA IssueHonest ==
    ASSUME AccountsInv, NEW r \in Requests, NEW l \in Links,
           NEW kind \in Kinds, NEW u \in Users, NEW sentTo \in Addresses,
           NEW newEmail \in Addresses \cup {None},
           Exists(u), kind = "change" => newEmail = sentTo, kind = "verify" => Meets(u, sentTo),
           Issue(l, kind, u, sentTo, newEmail),
           Finish(r), UNCHANGED <<user, linked, begun, proven>>
    PROVE  AccountsInv'
<1> DEFINE row == [NoLink EXCEPT !.kind = kind, !.state = "open", !.user = u,
                                 !.sentTo = sentTo, !.newEmail = newEmail]
<1>1. /\ row \in Link /\ row.kind = kind /\ row.user = u /\ row.sentTo = sentTo
      /\ row.newEmail = newEmail /\ row.state = "open"
    BY DEF Link, NoLink
<1>2. link[l].state = "none" /\ link' = [link EXCEPT ![l] = row]
    BY DEF Issue
<1> HIDE DEF row
<1>3. link \in [Links -> Link]
    BY DEF AccountsInv, TypedRows
<1>4. UsersKept /\ AddressesProven'
    BY UsersUntouched
<1>5. LinksKept
    BY <1>2, <1>3 DEF LinksKept
<1>6. ASSUME NEW k \in Links PROVE LinkHonest(k)'
    <2>1. CASE k = l
        <3>1. link'[k] = row
            BY <1>2, <1>3, <2>1
        <3>2. Exists(u)' /\ (kind = "verify" => Meets(u, sentTo)')
            BY <1>4, MeetsStays DEF UsersKept
        <3> QED
            BY <1>1, <3>1, <3>2 DEF LinkHonest, Meets
    <2>2. CASE k # l
        <3>1. link'[k] = link[k] /\ LinkHonest(k)
            BY <1>2, <1>3, <2>2 DEF AccountsInv
        <3>2. CASE link[k].state = "none"
            BY <3>1, <3>2 DEF LinkHonest
        <3>3. CASE link[k].state # "none"
            BY <1>4, <3>1, <3>3, LinkStays
        <3> QED
            BY <3>2, <3>3
    <2> QED
        BY <2>1, <2>2
<1>7. TypedRows'
    <2>1. link' \in [Links -> Link]
        BY <1>1, <1>2, <1>3
    <2> QED
        BY <2>1 DEF AccountsInv, TypedRows, Exists
<1> QED
    BY <1>4, <1>5, <1>6, <1>7, FinishHonest

(* Both statements that write a link address it as their request noted.    *)
LEMMA LinksIssuedHonest ==
    ASSUME AccountsInv, NEW r \in Requests, NEW l \in Links,
           issueEmailVerification(r, l) \/ issueLink(r, l)
    PROVE  AccountsInv'
<1>1. job[r] \in Job /\ Honest(pc[r], job[r])
    BY DEF AccountsInv, TypedRequests
<1>2. CASE issueEmailVerification(r, l)
    <2>1. pc[r] = "mail"
        BY <1>2 DEF issueEmailVerification, At
    <2>2. /\ job[r].user \in Users /\ job[r].address \in Addresses /\ Exists(job[r].user)
          /\ Meets(job[r].user, job[r].address)
        BY <1>1, <2>1 DEF Honest
    <2>3. "verify" \in Kinds /\ None \in Addresses \cup {None}
        BY DEF Kinds
    <2> QED
        BY <1>2, <2>2, <2>3, IssueHonest DEF issueEmailVerification, At, history
<1>3. CASE issueLink(r, l)
    <2> DEFINE j == job[r]
               newEmail == Addressed(j).newEmail
    <2>1. pc[r] = "issue"
        BY <1>3 DEF issueLink, At
    <2>2. /\ j.user \in Users /\ j.address \in Addresses /\ Exists(j.user) /\ j.kind \in Kinds
          /\ j.kind = "verify" => Meets(j.user, j.address)
        BY <1>1, <2>1 DEF Honest, Job
    <2>3. /\ Addressed(j).sentTo = j.address
          /\ newEmail = IF j.kind = "change" THEN j.address ELSE None
        BY DEF Addressed
    <2>4. newEmail \in Addresses \cup {None} /\ (j.kind = "change" => newEmail = j.address)
        BY <2>2, <2>3
    <2>5. /\ Issue(l, j.kind, j.user, j.address, newEmail)
          /\ Finish(r) /\ UNCHANGED <<user, linked, begun, proven>>
        BY <1>3, <2>3 DEF issueLink, At, history
    <2> HIDE DEF j, newEmail
    <2> QED
        BY <2>2, <2>4, <2>5, IssueHonest
<1> QED
    BY <1>2, <1>3

(* A request that goes on without writing keeps what it relies on. *)
LEMMA GotoHonest ==
    ASSUME AccountsInv, NEW r \in Requests, NEW step \in Steps, Goto(r, step),
           UNCHANGED <<tables, begun, proven>>, Honest(step, job[r])
    PROVE  AccountsInv'
<1>1. PICK j \in Job : j = job[r]
    BY DEF AccountsInv, TypedRequests
<1>2. UsersKept /\ LinksKept /\ AddressesProven' /\ \A l \in Links : LinkHonest(l)'
    BY NothingWritten
<1>3. Honest(step, j)'
    BY <1>1, <1>2, HonestStays
<1>4. pc' = [pc EXCEPT ![r] = step] /\ job' = [job EXCEPT ![r] = j]
    BY <1>1 DEF Goto, AccountsInv, TypedRequests
<1>5. TypedRows'
    BY DEF AccountsInv, TypedRows, Exists, tables
<1> QED
    BY <1>2, <1>3, <1>4, <1>5, StepHonest

(* Neither a taken address nor the count of the other provider accounts    *)
(* ends in a write.                                                        *)
LEMMA ReadsHonest ==
    ASSUME AccountsInv, NEW r \in Requests, findTaken(r) \/ countOthers(r)
    PROVE  AccountsInv'
<1>1. Honest(pc[r], job[r]) /\ UNCHANGED <<tables, begun, proven>>
    BY DEF AccountsInv, findTaken, countOthers, At, history
<1>2. CASE Finish(r)
    BY <1>1, <1>2, QuietHonest
<1>3. CASE pc[r] = "taken" /\ Goto(r, "issue")
    <2>1. Honest("issue", job[r]) /\ "issue" \in Steps
        BY <1>1, <1>3 DEF Honest, Steps
    <2> QED
        BY <1>1, <1>3, <2>1, GotoHonest
<1>4. CASE pc[r] = "count" /\ Goto(r, "unlink")
    <2>1. Honest("unlink", job[r]) /\ "unlink" \in Steps
        BY <1>1, <1>4 DEF Honest, Steps
    <2> QED
        BY <1>1, <1>4, <2>1, GotoHonest
<1> QED
    BY <1>2, <1>3, <1>4 DEF findTaken, countOthers, At

(* A statement on the rows of provider accounts disturbs neither users nor *)
(* links.                                                                  *)
LEMMA LinkedHonest ==
    ASSUME AccountsInv, NEW r \in Requests,
           createOAuthAccount(r) \/ linkAccount(r) \/ unlinkAccount(r)
    PROVE  AccountsInv'
<1>1. /\ Finish(r) /\ UNCHANGED <<user, link, begun, proven>>
      /\ pc[r] \in {"autolink", "upsert", "unlink"}
    BY DEF createOAuthAccount, linkAccount, unlinkAccount, At, Fail, tables, history
<1>2. UsersKept /\ AddressesProven'
    BY <1>1, UsersUntouched
<1>3. LinksKept /\ \A l \in Links : LinkHonest(l)'
    BY <1>1, <1>2, LinksUntouched
<1>4. TypedRows'
    <2> DEFINE T == [user : Users \cup {None}, id : Nat]
    <2>1. linked \in [Profiles -> T] /\ begun \in Nat
        BY DEF AccountsInv, TypedRows
    <2>2. pc[r] \in {"autolink", "upsert"} => job[r].user \in Users
        BY DEF AccountsInv, Honest
    <2>3. pc[r] \in {"autolink", "upsert"} => LinkedRow(job[r].user) \in T
        BY <2>1, <2>2 DEF LinkedRow
    <2>4. NoRow \in T
        BY DEF NoRow
    <2>5. linked' \in [Profiles -> T]
        <3>1. CASE createOAuthAccount(r)
            BY <2>1, <2>3, <3>1 DEF createOAuthAccount, At, Fail, tables
        <3>2. CASE linkAccount(r)
            BY <2>1, <2>3, <3>2 DEF linkAccount, At, Upserted
        <3>3. CASE unlinkAccount(r)
            BY <2>1, <2>4, <3>3 DEF unlinkAccount, At
        <3> QED
            BY <3>1, <3>2, <3>3
    <2> QED
        BY <1>1, <2>5 DEF AccountsInv, TypedRows, Exists
<1> QED
    BY <1>1, <1>2, <1>3, <1>4, FinishHonest

(* A deleted account keeps its row. *)
LEMMA DeleteHonest ==
    ASSUME AccountsInv, NEW r \in Requests, deleteAccount(r)
    PROVE  AccountsInv'
<1>1. /\ Finish(r) /\ UNCHANGED <<link, linked, begun, proven>>
      /\ pc[r] = "delete" /\ user' = [user EXCEPT ![job[r].user].state = "deleted"]
    BY DEF deleteAccount, At, history
<1>2. PICK u \in Users : u = job[r].user /\ Exists(u)
    BY <1>1 DEF AccountsInv, Honest
<1>3. user \in [Users -> User]
    BY DEF AccountsInv, TypedRows
<1>4. user' \in [Users -> User]
    BY <1>1, <1>2, <1>3 DEF User
<1>5. ASSUME NEW v \in Users
      PROVE  /\ user'[v].email = user[v].email /\ user'[v].verified = user[v].verified
             /\ Exists(v)' = Exists(v)
    BY <1>1, <1>2, <1>3 DEF User, Exists
<1>6. UsersKept /\ AddressesProven'
    BY <1>1, <1>5 DEF UsersKept, AddressesProven, AccountsInv
<1>7. LinksKept /\ \A l \in Links : LinkHonest(l)'
    BY <1>1, <1>6, LinksUntouched
<1>8. TypedRows'
    BY <1>1, <1>4, <1>5 DEF AccountsInv, TypedRows
<1> QED
    BY <1>1, <1>6, <1>7, <1>8, FinishHonest

(* A user who comes with a profile has the address that the holder of the  *)
(* provider account confirmed, if it counts as verified at all.            *)
LEMMA SignupHonest ==
    ASSUME AccountsInv, NEW r \in Requests, NEW u \in Users, createUserFromProfile(r, u)
    PROVE  AccountsInv'
<1>1. /\ pc[r] = "signup" /\ begun' = begun /\ ~Exists(u) /\ job[r] \in Job
      /\ Honest(pc[r], job[r])
    BY DEF createUserFromProfile, At, AccountsInv, TypedRequests
<1>2. CASE Fail(r)
    BY <1>1, <1>2, QuietHonest DEF Fail, history
<1>3. CASE ~Fail(r)
    <2>1. PICK e \in Addresses : e = job[r].address
        BY <1>1 DEF Honest
    <2>2. PICK verified \in BOOLEAN : verified = job[r].verified
        BY <1>1 DEF Job
    <2>3. PICK p \in Profiles : p = job[r].profile
        BY <1>1 DEF Honest
    <2> DEFINE row == [state |-> "active", email |-> e, verified |-> verified,
                       password |-> "random"]
               confirmed == {a \in {e} : account[p].confirmed /\ account[p].address = a}
    <2>4. /\ user' = [user EXCEPT ![u] = row]
          /\ linked' = [linked EXCEPT ![p] = LinkedRow(u)]
          /\ proven' = [proven EXCEPT ![u] = @ \cup confirmed]
          /\ Finish(r) /\ UNCHANGED link
        BY <1>3, <2>1, <2>2, <2>3 DEF createUserFromProfile
    <2>5. verified => e \in confirmed
        BY <1>1, <2>1, <2>2, <2>3 DEF Honest
    <2>6. /\ user \in [Users -> User] /\ proven \in [Users -> SUBSET Addresses]
          /\ linked \in [Profiles -> [user : Users \cup {None}, id : Nat]] /\ begun \in Nat
        BY DEF AccountsInv, TypedRows
    <2>7. row \in User
        BY DEF User
    <2>8. \A v \in Users : /\ user'[v] = IF v = u THEN row ELSE user[v]
                           /\ v # u => proven'[v] = proven[v]
                           /\ v = u => proven'[v] = proven[v] \cup confirmed
        BY <2>4, <2>6
    <2>9. row.email = e /\ row.verified = verified /\ row.state = "active"
        OBVIOUS
    <2> HIDE DEF row, confirmed
    <2>10. UsersKept /\ AddressesProven'
        BY <1>1, <2>5, <2>8, <2>9 DEF UsersKept, AddressesProven, Exists, AccountsInv
    <2>11. LinksKept /\ \A l \in Links : LinkHonest(l)'
        BY <2>4, <2>10, LinksUntouched
    <2>12. TypedRows'
        <3>1. user' \in [Users -> User]
            BY <2>4, <2>6, <2>7
        <3>2. linked' \in [Profiles -> [user : Users \cup {None}, id : Nat]]
            BY <2>4, <2>6 DEF LinkedRow
        <3>3. confirmed \subseteq Addresses
            BY DEF confirmed
        <3>4. proven' \in [Users -> SUBSET Addresses]
            BY <2>4, <2>6, <3>3
        <3>5. \A v \in Users : Exists(v)' => user'[v].email \in Addresses
            BY <2>8, <2>9 DEF AccountsInv, TypedRows, Exists
        <3> QED
            BY <1>1, <2>4, <3>1, <3>2, <3>4, <3>5 DEF AccountsInv, TypedRows
    <2> QED
        BY <2>4, <2>10, <2>11, <2>12, FinishHonest
<1> QED
    BY <1>2, <1>3

(* What following a link does to its user: an address that becomes         *)
(* verified is the one that the link was sent to, or was verified before.  *)
LEMMA EffectHonest ==
    ASSUME AccountsInv, NEW l \in Links, NEW u \in Users, link[l].state # "none",
           u = link[l].user
    PROVE  LET row == Effect(u, l)
           IN  /\ row \in User /\ row.state = user[u].state /\ row.email \in Addresses
               /\ user[u].verified => row.verified
               /\ row.email = user[u].email \/ row.verified
               /\ row.verified => row.email \in proven[u] \cup {link[l].sentTo}
<1>1. user[u] \in User /\ link[l] \in Link /\ LinkHonest(l)
    BY DEF AccountsInv, TypedRows
<1>2. Exists(u) /\ user[u].email \in Addresses /\ link[l].sentTo \in Addresses
    BY <1>1 DEF LinkHonest, AccountsInv, TypedRows
<1>3. user[u].verified => user[u].email \in proven[u]
    BY DEF AccountsInv, AddressesProven
<1>4. CASE link[l].kind = "verify"
    <2>1. Effect(u, l) = [user[u] EXCEPT !.verified = TRUE]
        BY <1>4 DEF Effect
    <2>2. user[u].verified \/ user[u].email = link[l].sentTo
        BY <1>1, <1>4 DEF LinkHonest, Meets
    <2> QED
        BY <1>1, <1>2, <1>3, <2>1, <2>2 DEF User
<1>5. CASE link[l].kind = "change"
    <2>1. Effect(u, l) = [user[u] EXCEPT !.email = link[l].newEmail, !.verified = TRUE]
        BY <1>5 DEF Effect
    <2>2. link[l].newEmail = link[l].sentTo
        BY <1>1, <1>5 DEF LinkHonest
    <2> QED
        BY <1>1, <1>2, <2>1, <2>2 DEF User
<1>6. CASE link[l].kind = "reset"
    <2>1. Effect(u, l) = [user[u] EXCEPT !.password = "known"]
        BY <1>6 DEF Effect
    <2> QED
        BY <1>1, <1>2, <1>3, <2>1 DEF User
<1> QED
    BY <1>1, <1>4, <1>5, <1>6 DEF Link, Kinds

(* Following a link keeps the invariant, whatever happened to its user     *)
(* since it was read, and however often the link was followed before.      *)
LEMMA ConsumeHonest ==
    ASSUME AccountsInv, NEW r \in Requests, consumeLink(r)
    PROVE  AccountsInv'
<1>1. /\ Finish(r) /\ UNCHANGED <<linked, begun>> /\ pc[r] = "consume"
      /\ Honest(pc[r], job[r])
    BY DEF consumeLink, At, AccountsInv
<1>2. PICK l \in Links : l = job[r].link /\ link[l].state # "none" /\ job[r].user = link[l].user
    BY <1>1 DEF Honest
<1>3. PICK u \in Users : u = job[r].user /\ u = link[l].user /\ Exists(u)
    BY <1>2 DEF AccountsInv, LinkHonest
<1>4. PICK row \in User : /\ row = Effect(u, l) /\ row.state = user[u].state
                          /\ row.email \in Addresses
                          /\ user[u].verified => row.verified
                          /\ row.email = user[u].email \/ row.verified
                          /\ row.verified => row.email \in proven[u] \cup {link[l].sentTo}
    BY <1>2, <1>3, EffectHonest
<1>5. /\ link' = link \/ link' = [link EXCEPT ![l].state = "consumed"]
      /\ \/ UNCHANGED <<user, proven>>
         \/ /\ user' = [user EXCEPT ![u] = row]
            /\ proven' = [proven EXCEPT ![u] = @ \cup {link[l].sentTo}]
    BY <1>2, <1>3, <1>4 DEF consumeLink, Spent
<1>6. /\ user \in [Users -> User] /\ proven \in [Users -> SUBSET Addresses]
      /\ link \in [Links -> Link]
      /\ link[l].sentTo \in Addresses
    BY <1>2 DEF AccountsInv, TypedRows, LinkHonest
<1>7. /\ user' \in [Users -> User] /\ proven' \in [Users -> SUBSET Addresses]
      /\ \A v \in Users :
            \/ user'[v] = user[v] /\ proven'[v] = proven[v]
            \/ v = u /\ user'[v] = row /\ proven'[v] = proven[v] \cup {link[l].sentTo}
    BY <1>5, <1>6
<1>8. UsersKept /\ AddressesProven'
    <2>1. UsersKept
        BY <1>3, <1>4, <1>7 DEF UsersKept, Exists
    <2>2. AddressesProven'
        BY <1>4, <1>7 DEF AddressesProven, AccountsInv
    <2> QED
        BY <2>1, <2>2
<1>9. ASSUME NEW k \in Links
      PROVE  /\ link'[k].kind = link[k].kind /\ link'[k].user = link[k].user
             /\ link'[k].sentTo = link[k].sentTo /\ link'[k].newEmail = link[k].newEmail
             /\ link'[k].state = link[k].state \/ (k = l /\ link'[k].state = "consumed")
    BY <1>5, <1>6 DEF Link
<1>10. LinksKept
    BY <1>2, <1>9 DEF LinksKept
<1>11. ASSUME NEW k \in Links PROVE LinkHonest(k)'
    <2>1. CASE link[k].state = "none"
        BY <1>2, <1>9, <2>1 DEF LinkHonest
    <2>2. CASE link[k].state # "none"
        <3>1. LinkHonest(k)
            BY DEF AccountsInv
        <3> QED
            BY <1>8, <1>9, <2>2, <3>1, LinkStays
    <2> QED
        BY <2>1, <2>2
<1>12. TypedRows'
    <2>1. link' \in [Links -> Link]
        BY <1>5, <1>6 DEF Link
    <2>2. \A v \in Users : Exists(v)' => user'[v].email \in Addresses
        BY <1>4, <1>7 DEF AccountsInv, TypedRows, Exists
    <2> QED
        BY <1>1, <1>7, <2>1, <2>2 DEF AccountsInv, TypedRows
<1> QED
    BY <1>1, <1>8, <1>10, <1>11, <1>12, FinishHonest

(* Time only makes a link unusable. *)
LEMMA ExpireHonest ==
    ASSUME AccountsInv, NEW l \in Links, ExpireLink(l)
    PROVE  AccountsInv'
<1>1. /\ UNCHANGED <<user, linked, pc, job, begun, proven>> /\ link[l].state = "open"
      /\ link' = [link EXCEPT ![l].expired = TRUE]
    BY DEF ExpireLink, history
<1>2. link \in [Links -> Link]
    BY DEF AccountsInv, TypedRows
<1>3. ASSUME NEW k \in Links
      PROVE  /\ link'[k].kind = link[k].kind /\ link'[k].user = link[k].user
             /\ link'[k].sentTo = link[k].sentTo /\ link'[k].newEmail = link[k].newEmail
             /\ link'[k].state = link[k].state
    BY <1>1, <1>2 DEF Link
<1>4. UsersKept /\ AddressesProven' /\ LinksKept
    BY <1>1, <1>3, UsersUntouched DEF LinksKept
<1>5. ASSUME NEW k \in Links PROVE LinkHonest(k)'
    <2>1. LinkHonest(k)
        BY DEF AccountsInv
    <2>2. CASE link[k].state = "none"
        BY <1>3, <2>2 DEF LinkHonest
    <2>3. CASE link[k].state # "none"
        BY <1>3, <1>4, <2>1, <2>3, LinkStays
    <2> QED
        BY <2>2, <2>3
<1>6. ASSUME NEW q \in Requests PROVE Honest(pc[q], job[q])'
    <2>1. Honest(pc[q], job[q])
        BY DEF AccountsInv
    <2>2. pc'[q] = pc[q] /\ job'[q] = job[q]
        BY <1>1
    <2> QED
        BY <1>4, <2>1, <2>2, HonestStays DEF Honest
<1>7. TypedRows' /\ TypedRequests'
    <2>1. link' \in [Links -> Link]
        BY <1>1, <1>2 DEF Link
    <2> QED
        BY <1>1, <2>1 DEF AccountsInv, TypedRows, TypedRequests, Exists
<1> QED
    BY <1>4, <1>5, <1>6, <1>7 DEF AccountsInv

(* Every step keeps the invariant. *)
LEMMA NextHonest ==
    ASSUME AccountsInv, [Next]_vars
    PROVE  AccountsInv'
<1>1. ASSUME NEW r \in Requests, Arrive(r) PROVE AccountsInv'
    BY <1>1, ArriveHonest
<1>2. ASSUME NEW r \in Requests, Continue(r) PROVE AccountsInv'
    BY <1>2, RegisterHonest, SignupHonest, LinksIssuedHonest, ReadsHonest, ConsumeHonest,
        DeleteHonest, LinkedHonest DEF Continue
<1>3. ASSUME NEW r \in Requests, Crash(r) PROVE AccountsInv'
    BY <1>3, QuietHonest DEF Crash, history
<1>4. ASSUME NEW l \in Links, ExpireLink(l) PROVE AccountsInv'
    BY <1>4, ExpireHonest
<1>5. ASSUME UNCHANGED vars PROVE AccountsInv'
    BY <1>5 DEF vars, tables, history, AccountsInv, TypedRows, TypedRequests, AddressesProven,
        LinkHonest, Honest, Meets, Exists
<1> QED
    BY <1>1, <1>2, <1>3, <1>4, <1>5 DEF Next

(* The inductive invariant holds of the specification. *)
THEOREM AccountsHonest == Spec => []AccountsInv
<1>1. AccountsInv /\ [Next]_vars => AccountsInv'
    BY NextHonest
<1> QED
    BY InitHonest, <1>1, PTL DEF Spec

(* An address that counts as verified is one that its holder proved, for   *)
(* any number of users, links and requests in flight, and accounts at any  *)
(* providers; and no account at a provider is linked by an address that    *)
(* was not confirmed there.                                                *)
THEOREM EmailsAlwaysProven == Spec => []VerifiedEmailProven
<1>1. AccountsInv => VerifiedEmailProven
    BY DEF AccountsInv, AddressesProven, Honest, VerifiedEmailProven
<1> QED
    BY AccountsHonest, <1>1, PTL

(* A provider account changes hands only through unlinking: a statement    *)
(* that finds its row leaves the user in it.                               *)
THEOREM ProviderAccountsStay == Spec => ProviderAccountKeepsUser
<1> DEFINE Keeps == \A p \in Profiles :
               linked[p] # NoRow /\ linked'[p] # NoRow => linked'[p].user = linked[p].user
<1>1. ASSUME AccountsInv, Next PROVE Keeps
    <2>1. DOMAIN linked = Profiles
        BY <1>1 DEF AccountsInv, TypedRows
    <2>2. ASSUME NEW r \in Requests, Continue(r) PROVE Keeps
        <3>1. CASE linked' = linked
            BY <3>1
        <3>2. CASE createOAuthAccount(r) \/ \E u \in Users : createUserFromProfile(r, u)
            <4>1. PICK p, row : linked' = linked
                        \/ (linked[p] = NoRow /\ linked' = [linked EXCEPT ![p] = row])
                BY <3>2 DEF createOAuthAccount, createUserFromProfile, Fail, tables
            <4> QED
                BY <2>1, <4>1
        <3>3. CASE linkAccount(r)
            BY <2>1, <3>3 DEF linkAccount, Upserted
        <3>4. CASE unlinkAccount(r)
            BY <2>1, <3>4 DEF unlinkAccount
        <3> QED
            BY <2>2, <3>1, <3>2, <3>3, <3>4 DEF Continue, register, issueEmailVerification,
                issueLink, findTaken, consumeLink, deleteAccount, countOthers, Fail, tables
    <2>3. ASSUME linked' = linked PROVE Keeps
        BY <2>3
    <2>4. ASSUME NEW r \in Requests, Arrive(r) PROVE linked' = linked
        BY <2>4 DEF Arrive, BeginRegister, resendVerification, forgotPassword, BeginDelete,
            requestEmailChange, BeginLinkAccount, BeginUnlink, BeginFollow, BeginOAuthLogin,
            Begin, tables
    <2> QED
        BY <1>1, <2>2, <2>3, <2>4 DEF Next, Crash, ExpireLink, tables
<1>2. ASSUME UNCHANGED vars PROVE Keeps
    BY <1>2 DEF vars, tables
<1>3. AccountsInv /\ [Next]_vars => [Keeps]_vars
    BY <1>1, <1>2
<1> QED
    BY AccountsHonest, <1>3, PTL DEF Spec, ProviderAccountKeepsUser

-------------------------------------------------------------------------------
(***************************************************************************)
(* Links that are spent for their effect, and a way back in.               *)
(***************************************************************************)

Unlinking == {"count", "unlink"}

(* The rows, as far as the addresses did not need it. *)
RowsWellFormed ==
    /\ \A u \in Users : ~Exists(u) => user[u].email = None
    /\ \A l \in Links : link[l].newEmail # None <=> link[l].kind = "change"
    /\ applied \in [Links -> Nat]
    /\ begun <= MaxOps
    /\ \A p \in Profiles : /\ linked[p].id <= begun
                           /\ linked[p].user = None => linked[p] = NoRow
                           /\ linked[p].user # None => linked[p].id > 0

(* What a request carries from its operation. *)
Carries(step, j) ==
    /\ step = "idle" => j = NoJob
    /\ step # "idle" => j.op # "none" /\ begun > 0
    /\ step = "consume" => j.op = "follow"
    /\ step \in Unlinking => /\ j.op = "unlink" /\ j.link = 0 /\ 0 < j.id /\ j.id < begun
                             /\ linked[j.profile].id = j.id => linked[j.profile].user = j.user

(* Who follows a link that another follows, or unlinks beside another one, *)
(* is noted.                                                               *)
RacesNoted ==
    \A q, r \in Requests : q # r =>
        /\ pc[q] = "consume" /\ pc[r] = "consume" /\ job[q].link = job[r].link
              => "follow" \in overlapped
        /\ pc[q] \in Unlinking /\ pc[r] \in Unlinking /\ job[q].user = job[r].user
              => "unlink" \in overlapped

LinksSpent ==
    /\ \A l \in Links : link[l].state = "consumed" <=> applied[l] > 0
    /\ "follow" \notin overlapped =>
          /\ \A l \in Links : applied[l] <= 1
          /\ \A r \in Requests : pc[r] = "consume" => link[job[r].link].state = "open"

(* What a request found before it unlinks. *)
Spare(r) == Others(job[r].user, job[r].profile) # {} \/ user[job[r].user].verified

(* A user whose password nobody knows is left with a provider, also by a   *)
(* request that found another one, or the address verified.                *)
WayBackStays ==
    "unlink" \notin overlapped =>
        /\ \A u \in Users :
              Active(u) /\ user[u].password = "random" => LinkedTo(u) # {} \/ user[u].verified
        /\ \A r \in Requests : pc[r] = "unlink" => Spare(r)

UsageInv ==
    /\ RowsWellFormed
    /\ \A r \in Requests : Carries(pc[r], job[r])
    /\ RacesNoted
    /\ LinksSpent
    /\ WayBackStays

(* It holds of the empty tables. *)
LEMMA InitUsed == Init => UsageInv
<1> SUFFICES ASSUME Init PROVE UsageInv
    OBVIOUS
<1>1. RowsWellFormed
    BY BoundsAreNatural DEF Init, RowsWellFormed, Exists, NoUser, NoLink, NoRow
<1>2. \A r \in Requests : Carries(pc[r], job[r])
    BY DEF Init, Carries, Unlinking
<1>3. RacesNoted /\ LinksSpent
    BY DEF Init, RacesNoted, LinksSpent, Unlinking, NoLink
<1>4. WayBackStays
    BY DEF Init, WayBackStays, Active, NoUser
<1> QED
    BY <1>1, <1>2, <1>3, <1>4 DEF UsageInv

(* Who goes on leaves the others alone, and carries what it carried; or    *)
(* ends.                                                                   *)
LEMMA GoesOn ==
    ASSUME AccountsInv, NEW r \in Requests, Continue(r) \/ Crash(r)
    PROVE  /\ \A q \in Requests \ {r} : pc'[q] = pc[q] /\ job'[q] = job[q]
           /\ UNCHANGED <<begun, overlapped>>
           /\ \/ pc'[r] = "idle" /\ job'[r] = NoJob
              \/ /\ pc[r] # "idle" /\ pc'[r] \notin {"idle", "consume", "count"}
                 /\ job'[r].op = job[r].op
                 /\ pc'[r] = "unlink" => countOthers(r) /\ job'[r] = job[r]
<1>t. pc \in [Requests -> Steps] /\ job \in [Requests -> Job]
    BY DEF AccountsInv, TypedRequests
<1>1. UNCHANGED <<begun, overlapped>>
    BY DEF Continue, Crash, At, register, createUserFromProfile, issueEmailVerification, issueLink,
        findTaken, consumeLink, deleteAccount, createOAuthAccount, linkAccount, countOthers,
        unlinkAccount
<1>2. CASE Finish(r)
    BY <1>t, <1>1, <1>2 DEF Finish
<1>3. ASSUME NEW u \in Users, register(r, u), ~ Finish(r)
      PROVE  /\ pc' = [pc EXCEPT ![r] = "mail"] /\ job' = [job EXCEPT ![r].user = u]
             /\ pc[r] = "register"
    BY <1>3 DEF register, Fail, At
<1>4. CASE \E u \in Users : register(r, u) /\ ~ Finish(r)
    <2>1. PICK u \in Users : /\ pc' = [pc EXCEPT ![r] = "mail"]
                             /\ job' = [job EXCEPT ![r].user = u] /\ pc[r] = "register"
        BY <1>3, <1>4
    <2>2. job'[r].op = job[r].op /\ \A q \in Requests \ {r} : job'[q] = job[q]
        BY <1>t, <2>1 DEF Job
    <2> QED
        BY <1>t, <1>1, <2>1, <2>2
<1>5. CASE \/ pc[r] = "taken" /\ Goto(r, "issue")
           \/ pc[r] = "count" /\ Goto(r, "unlink") /\ countOthers(r)
    BY <1>t, <1>1, <1>5 DEF Goto
<1> QED
    BY <1>1, <1>2, <1>4, <1>5 DEF Continue, Crash, Fail, At, createUserFromProfile,
        issueEmailVerification, issueLink, findTaken, consumeLink, deleteAccount,
        createOAuthAccount, linkAccount, countOthers, unlinkAccount

(* What a step does to the row of a provider account. *)
RowGoesOn(p) ==
    \/ linked'[p] = linked[p]
    \/ /\ linked[p] = NoRow /\ linked'[p].id = begun /\ linked'[p].user \in Users
       /\ \E r \in Requests : pc[r] # "idle"
    \/ /\ linked'[p] = NoRow
       /\ \E r \in Requests : /\ unlinkAccount(r) /\ job[r].profile = p
                              /\ linked[p].id = job[r].id

(* It writes a row only where there is none, and removes one by its id.    *)
LEMMA RowsGoOn ==
    ASSUME AccountsInv, [Next]_vars, NEW p \in Profiles
    PROVE  RowGoesOn(p)
<1> USE DEF RowGoesOn
<1>t. DOMAIN linked = Profiles
    BY DEF AccountsInv, TypedRows
<1>0. CASE linked' = linked
    BY <1>0
<1>1. ASSUME NEW r \in Requests, NEW q, NEW u \in Users, pc[r] # "idle",
             \/ linked' = linked
             \/ linked[q] = NoRow /\ linked' = [linked EXCEPT ![q] = LinkedRow(u)]
      PROVE  RowGoesOn(p)
    BY <1>t, <1>1 DEF LinkedRow
<1>2. ASSUME NEW r \in Requests, Continue(r) PROVE RowGoesOn(p)
    <2>1. Honest(pc[r], job[r])
        BY DEF AccountsInv
    <2>2. CASE createOAuthAccount(r) \/ linkAccount(r)
        <3>1. job[r].user \in Users /\ pc[r] # "idle"
            BY <2>1, <2>2 DEF createOAuthAccount, linkAccount, At, Honest
        <3>2. linked' = linked \/ (linked[job[r].profile] = NoRow
                  /\ linked' = [linked EXCEPT ![job[r].profile] = LinkedRow(job[r].user)])
            BY <2>2 DEF createOAuthAccount, linkAccount, Fail, tables, Upserted
        <3> QED
            BY <1>1, <3>1, <3>2
    <2>3. ASSUME NEW u \in Users, createUserFromProfile(r, u) PROVE RowGoesOn(p)
        <3>1. pc[r] # "idle"
            BY <2>3 DEF createUserFromProfile, At
        <3>2. linked' = linked \/ (linked[job[r].profile] = NoRow
                  /\ linked' = [linked EXCEPT ![job[r].profile] = LinkedRow(u)])
            BY <2>3 DEF createUserFromProfile, Fail, tables
        <3> QED
            BY <1>1, <3>1, <3>2
    <2>4. CASE unlinkAccount(r)
        <3>1. linked' = IF linked[job[r].profile].id = job[r].id
                        THEN [linked EXCEPT ![job[r].profile] = NoRow] ELSE linked
            BY <2>4 DEF unlinkAccount
        <3> QED
            BY <1>t, <2>4, <3>1
    <2> QED
        BY <1>0, <1>2, <2>2, <2>3, <2>4 DEF Continue, register, issueEmailVerification, issueLink,
            findTaken, consumeLink, deleteAccount, countOthers, Fail, tables
<1>3. ASSUME NEW r \in Requests, Arrive(r) PROVE linked' = linked
    BY <1>3, Arrives DEF ArrivesWell, Begin, tables
<1> QED
    BY <1>0, <1>2, <1>3 DEF Next, Crash, ExpireLink, tables, vars

(* What a step does to a user: an account whose password nobody knows      *)
(* comes with a provider account.                                          *)
UserGoesOn(u) ==
    \/ user'[u] = user[u]
    \/ ~Exists(u) /\ Exists(u)' /\ user'[u].email \in Addresses /\ user'[u].password = "known"
    \/ /\ ~Exists(u) /\ Exists(u)' /\ user'[u].email \in Addresses
       /\ \E p \in Profiles : linked'[p].user = u
    \/ /\ Exists(u) /\ Exists(u)'
       /\ user[u].verified => user'[u].verified
       /\ Active(u)' => Active(u)
       /\ user'[u].password = "random" => user[u].password = "random"

(* So it is for every step. *)
LEMMA UsersGoOn ==
    ASSUME AccountsInv, [Next]_vars, NEW u \in Users
    PROVE  UserGoesOn(u)
<1> USE DEF UserGoesOn
<1>t. user \in [Users -> User] /\ linked \in [Profiles -> [user : Users \cup {None}, id : Nat]]
    BY DEF AccountsInv, TypedRows
<1>0. CASE user' = user
    BY <1>0
<1>1. ASSUME NEW r \in Requests, NEW v \in Users, register(r, v) PROVE UserGoesOn(u)
    <2>1. job[r].address \in Addresses
        BY <1>1 DEF AccountsInv, Honest, register, At
    <2>2. CASE user' = user
        BY <1>0, <2>2
    <2>3. CASE user' # user
        <3>1. PICK row : /\ user' = [user EXCEPT ![v] = row] /\ ~Exists(v)
                         /\ row = [state |-> "active", email |-> job[r].address,
                                   verified |-> FALSE, password |-> "known"]
            BY <1>1, <2>3 DEF register, Fail, tables
        <3> QED
            BY <1>t, <2>1, <3>1 DEF Exists
    <2> QED
        BY <2>2, <2>3
<1>2. ASSUME NEW r \in Requests, NEW v \in Users, createUserFromProfile(r, v) PROVE UserGoesOn(u)
    <2>1. job[r].address \in Addresses /\ job[r].profile \in Profiles
        BY <1>2 DEF AccountsInv, Honest, createUserFromProfile, At
    <2>2. CASE user' = user
        BY <1>0, <2>2
    <2>3. CASE user' # user
        <3>1. PICK row : /\ user' = [user EXCEPT ![v] = row] /\ ~Exists(v)
                         /\ row = [state |-> "active", email |-> job[r].address,
                                   verified |-> job[r].verified, password |-> "random"]
                         /\ linked' = [linked EXCEPT ![job[r].profile] = LinkedRow(v)]
            BY <1>2, <2>3 DEF createUserFromProfile, Fail, tables
        <3>2. linked'[job[r].profile].user = v
            BY <1>t, <2>1, <3>1 DEF LinkedRow
        <3> QED
            BY <1>t, <2>1, <3>1, <3>2 DEF Exists
    <2> QED
        BY <2>2, <2>3
<1>3. ASSUME NEW r \in Requests, deleteAccount(r) PROVE UserGoesOn(u)
    <2>1. /\ job[r].user \in Users /\ Exists(job[r].user)
          /\ user' = [user EXCEPT ![job[r].user].state = "deleted"]
        BY <1>3 DEF AccountsInv, Honest, deleteAccount, At
    <2> QED
        BY <1>t, <2>1 DEF Exists, Active, User
<1>4. ASSUME NEW r \in Requests, consumeLink(r) PROVE UserGoesOn(u)
    <2>1. PICK l \in Links : l = job[r].link /\ link[l].state # "none" /\ job[r].user = link[l].user
        BY <1>4 DEF AccountsInv, Honest, consumeLink, At
    <2>2. PICK v \in Users : v = job[r].user /\ v = link[l].user /\ Exists(v)
        BY <2>1 DEF AccountsInv, LinkHonest
    <2>3. PICK row \in User : row = Effect(v, l) /\ row.state = user[v].state
                              /\ (user[v].verified => row.verified)
        BY <2>1, <2>2, EffectHonest
    <2>4. row.password = "random" => user[v].password = "random"
        <3>1. link[l].kind \in Kinds /\ user[v] \in User
            BY DEF AccountsInv, TypedRows, Link
        <3>2. CASE link[l].kind = "verify"
            BY <2>3, <3>1, <3>2 DEF Effect, User
        <3>3. CASE link[l].kind = "change"
            <4>1. row = [user[v] EXCEPT !.email = link[l].newEmail, !.verified = TRUE]
                BY <2>3, <3>3 DEF Effect
            <4> QED
                BY <3>1, <4>1 DEF User
        <3>4. CASE link[l].kind = "reset"
            BY <2>3, <3>1, <3>4 DEF Effect, User
        <3> QED
            BY <3>1, <3>2, <3>3, <3>4 DEF Kinds
    <2>5. user' = user \/ user' = [user EXCEPT ![v] = row]
        BY <1>4, <2>1, <2>2, <2>3 DEF consumeLink
    <2> QED
        BY <1>t, <2>2, <2>3, <2>4, <2>5 DEF Exists, Active
<1>5. ASSUME NEW r \in Requests, Continue(r) PROVE UserGoesOn(u)
    BY <1>0, <1>1, <1>2, <1>3, <1>4, <1>5 DEF Continue, issueEmailVerification, issueLink,
        findTaken, createOAuthAccount, linkAccount, countOthers, unlinkAccount, Fail, tables
<1>6. ASSUME NEW r \in Requests, Arrive(r) PROVE user' = user
    BY <1>6, Arrives DEF ArrivesWell, Begin, tables
<1> QED
    BY <1>0, <1>5, <1>6 DEF Next, Crash, ExpireLink, tables, vars

(* What a step does to a link. *)
LinkGoesOn(l) ==
    \/ /\ link'[l].state = link[l].state /\ applied'[l] = applied[l]
       /\ link'[l].kind = link[l].kind /\ link'[l].newEmail = link[l].newEmail
    \/ /\ link[l].state = "none" /\ link'[l].state = "open" /\ applied'[l] = applied[l]
       /\ link'[l].newEmail # None <=> link'[l].kind = "change"
    \/ /\ link'[l].state = "consumed" /\ applied'[l] = applied[l] + 1
       /\ link'[l].kind = link[l].kind /\ link'[l].newEmail = link[l].newEmail
       /\ \E r \in Requests : consumeLink(r) /\ job[r].link = l

(* A link is marked exactly when it has its effect. *)
LEMMA LinksGoOn ==
    ASSUME AccountsInv, applied \in [Links -> Nat], [Next]_vars
    PROVE  (\A l \in Links : LinkGoesOn(l)) /\ applied' \in [Links -> Nat]
<1> USE DEF LinkGoesOn
<1>t. link \in [Links -> Link]
    BY DEF AccountsInv, TypedRows
<1>0. CASE UNCHANGED <<link, applied>>
    BY <1>0
<1>1. ASSUME NEW k \in Links, NEW kind, NEW u, NEW sentTo, NEW newEmail,
             Issue(k, kind, u, sentTo, newEmail), applied' = applied,
             newEmail # None <=> kind = "change"
      PROVE  (\A l \in Links : LinkGoesOn(l)) /\ applied' \in [Links -> Nat]
    <2>1. PICK row : row = [NoLink EXCEPT !.kind = kind, !.state = "open", !.user = u,
                                          !.sentTo = sentTo, !.newEmail = newEmail]
        OBVIOUS
    <2>2. row.kind = kind /\ row.state = "open" /\ row.newEmail = newEmail
        BY <2>1 DEF NoLink
    <2>3. link' = [link EXCEPT ![k] = row] /\ link[k].state = "none"
        BY <1>1, <2>1 DEF Issue
    <2> QED
        BY <1>t, <1>1, <2>2, <2>3
<1>2. ASSUME NEW r \in Requests, NEW k \in Links, issueEmailVerification(r, k)
      PROVE  (\A l \in Links : LinkGoesOn(l)) /\ applied' \in [Links -> Nat]
    <2>1. "verify" # "change"
        OBVIOUS
    <2> QED
        BY <1>1, <1>2, <2>1 DEF issueEmailVerification, history
<1>3. ASSUME NEW r \in Requests, NEW k \in Links, issueLink(r, k)
      PROVE  (\A l \in Links : LinkGoesOn(l)) /\ applied' \in [Links -> Nat]
    <2>1. job[r].address \in Addresses
        BY <1>3 DEF AccountsInv, Honest, issueLink, At
    <2>2. PICK newEmail : newEmail = Addressed(job[r]).newEmail
        OBVIOUS
    <2>3. newEmail # None <=> job[r].kind = "change"
        BY <2>1, <2>2, NoneIsNoRow DEF Addressed
    <2>4. /\ Issue(k, job[r].kind, job[r].user, Addressed(job[r]).sentTo, newEmail)
          /\ applied' = applied
        BY <1>3, <2>2 DEF issueLink, history
    <2> QED
        BY <1>1, <2>3, <2>4
<1>4. ASSUME NEW r \in Requests, consumeLink(r)
      PROVE  (\A l \in Links : LinkGoesOn(l)) /\ applied' \in [Links -> Nat]
    <2>1. PICK k \in Links : k = job[r].link
        BY <1>4 DEF AccountsInv, Honest, consumeLink, At
    <2>2. PICK done : done = \A v \in Users \ {job[r].user} :
                                 ~Exists(v) \/ user[v].email # link[k].newEmail
        OBVIOUS
    <2>3. CASE done
        <3>1. /\ link' = [link EXCEPT ![k].state = "consumed"]
              /\ applied' = [applied EXCEPT ![k] = @ + 1]
            BY <1>4, <2>1, <2>2, <2>3 DEF consumeLink, Spent
        <3> QED
            BY <1>t, <1>4, <2>1, <3>1 DEF Link
    <2>4. CASE ~done
        <3>1. UNCHANGED <<link, applied>>
            BY <1>4, <2>1, <2>2, <2>4 DEF consumeLink, Spent
        <3> QED
            BY <1>0, <3>1
    <2> QED
        BY <2>3, <2>4
<1>5. ASSUME NEW k \in Links, ExpireLink(k)
      PROVE  (\A l \in Links : LinkGoesOn(l)) /\ applied' \in [Links -> Nat]
    BY <1>t, <1>5 DEF ExpireLink, history, Link
<1>6. ASSUME NEW r \in Requests, Continue(r)
      PROVE  (\A l \in Links : LinkGoesOn(l)) /\ applied' \in [Links -> Nat]
    BY <1>0, <1>2, <1>3, <1>4, <1>6 DEF Continue, register, createUserFromProfile, findTaken,
        deleteAccount, createOAuthAccount, linkAccount, countOthers, unlinkAccount, Fail, tables,
        history
<1>7. ASSUME NEW r \in Requests, Arrive(r) PROVE UNCHANGED <<link, applied>>
    BY <1>7, Arrives DEF ArrivesWell, Begin, tables, history
<1> QED
    BY <1>0, <1>5, <1>6, <1>7 DEF Next, Crash, tables, history, vars

(* What a request does next, or has begun to do. *)
LEMMA RequestsGoOn ==
    ASSUME AccountsInv, [Next]_vars
    PROVE  /\ begun <= begun' /\ overlapped \subseteq overlapped'
           /\ \A q \in Requests :
                 \/ pc'[q] = pc[q] /\ job'[q] = job[q]
                 \/ pc'[q] = "idle" /\ job'[q] = NoJob
                 \/ \E step \in Steps, j \in Job : /\ Begin(q, step, j)
                                                   /\ Honest(step, j) /\ Fresh(step, j)
                 \/ /\ pc[q] # "idle" /\ pc'[q] \notin {"idle", "consume", "count"}
                    /\ job'[q].op = job[q].op
                    /\ pc'[q] = "unlink" => countOthers(q) /\ job'[q] = job[q]
<1>t. /\ pc \in [Requests -> Steps] /\ job \in [Requests -> Job] /\ begun \in Nat
    BY DEF AccountsInv, TypedRequests, TypedRows
<1>1. CASE UNCHANGED <<pc, job, begun, overlapped>>
    BY <1>t, <1>1
<1>2. ASSUME NEW r \in Requests, Continue(r) \/ Crash(r)
      PROVE  /\ UNCHANGED <<begun, overlapped>>
             /\ \A q \in Requests :
                   \/ pc'[q] = pc[q] /\ job'[q] = job[q]
                   \/ pc'[q] = "idle" /\ job'[q] = NoJob
                   \/ /\ pc[q] # "idle" /\ pc'[q] \notin {"idle", "consume", "count"}
                      /\ job'[q].op = job[q].op
                      /\ pc'[q] = "unlink" => countOthers(q) /\ job'[q] = job[q]
    BY <1>2, GoesOn
<1>3. ASSUME NEW r \in Requests, Arrive(r)
      PROVE  /\ begun' = begun + 1 /\ overlapped \subseteq overlapped'
             /\ \A q \in Requests \ {r} : pc'[q] = pc[q] /\ job'[q] = job[q]
             /\ \E step \in Steps, j \in Job :
                   Begin(r, step, j) /\ Honest(step, j) /\ Fresh(step, j)
    BY <1>t, <1>3, Arrives DEF ArrivesWell, Begin
<1> QED
    BY <1>t, <1>1, <1>2, <1>3 DEF Next, ExpireLink, vars

(* Rows stay as the code writes them. *)
LEMMA RowsWellFormedStep ==
    ASSUME AccountsInv, UsageInv, [Next]_vars
    PROVE  RowsWellFormed'
<1>1. applied \in [Links -> Nat] /\ begun \in Nat /\ begun <= MaxOps /\ MaxOps \in Nat
    BY BoundsAreNatural DEF UsageInv, RowsWellFormed, AccountsInv, TypedRows
<1>2. ASSUME NEW u \in Users, ~Exists(u)' PROVE user'[u].email = None
    BY <1>2, UsersGoOn DEF UserGoesOn, Exists, UsageInv, RowsWellFormed
<1>3. ASSUME NEW l \in Links PROVE link'[l].newEmail # None <=> link'[l].kind = "change"
    BY <1>1, LinksGoOn DEF LinkGoesOn, UsageInv, RowsWellFormed
<1>4. begun' <= MaxOps
    <2>1. ASSUME NEW r \in Requests, Arrive(r) PROVE begun' <= MaxOps
        BY <1>1, <2>1, Arrives DEF ArrivesWell, Begin
    <2>2. ASSUME NEW r \in Requests, Continue(r) \/ Crash(r) PROVE begun' <= MaxOps
        BY <1>1, <2>2, GoesOn
    <2> QED
        BY <1>1, <2>1, <2>2 DEF Next, ExpireLink, vars
<1>5. ASSUME NEW p \in Profiles
      PROVE  /\ linked'[p].id <= begun'
             /\ linked'[p].user = None => linked'[p] = NoRow
             /\ linked'[p].user # None => linked'[p].id > 0
    <2>1. begun <= begun' /\ begun' \in Nat /\ AccountsInv'
        BY NextHonest, RequestsGoOn DEF AccountsInv, TypedRows
    <2>2. linked[p].id \in Nat
        BY DEF AccountsInv, TypedRows
    <2>3. CASE linked'[p] = linked[p]
        BY <1>1, <2>1, <2>2, <2>3 DEF UsageInv, RowsWellFormed
    <2>4. CASE /\ linked[p] = NoRow /\ linked'[p].id = begun /\ linked'[p].user \in Users
               /\ \E r \in Requests : pc[r] # "idle"
        BY <1>1, <2>1, <2>4, NoneIsNoRow DEF UsageInv, Carries
    <2>5. CASE linked'[p] = NoRow
        BY <2>1, <2>5 DEF NoRow
    <2> QED
        BY <2>3, <2>4, <2>5, RowsGoOn DEF RowGoesOn
<1> QED
    BY <1>1, <1>2, <1>3, <1>4, <1>5, LinksGoOn DEF RowsWellFormed

(* A request goes on carrying what its operation gave it; the row that it  *)
(* read of a provider account never has another user under the same id.    *)
LEMMA CarriesStep ==
    ASSUME AccountsInv, UsageInv, [Next]_vars, NEW q \in Requests
    PROVE  Carries(pc[q], job[q])'
<1>0. /\ Carries(pc[q], job[q]) /\ Honest(pc[q], job[q]) /\ job[q] \in Job
      /\ begun \in Nat /\ begun' \in Nat /\ begun <= begun'
    BY NextHonest, RequestsGoOn DEF UsageInv, AccountsInv, TypedRows, TypedRequests
<1>r. ASSUME NEW p \in Profiles, NEW id \in Nat, NEW u \in Users, 0 < id, id < begun,
             linked[p].id = id => linked[p].user = u, linked'[p].id = id
      PROVE  linked'[p].user = u
    BY <1>0, <1>r, RowsGoOn DEF RowGoesOn, NoRow
<1>1. CASE pc'[q] = pc[q] /\ job'[q] = job[q]
    <2>1. pc[q] \in Unlinking => job[q].profile \in Profiles /\ job[q].user \in Users
        BY <1>0 DEF Unlinking, Honest
    <2>2. ASSUME pc[q] \in Unlinking, linked'[job[q].profile].id = job[q].id
          PROVE  linked'[job[q].profile].user = job[q].user
        BY <1>0, <1>r, <2>1, <2>2 DEF Carries, Job
    <2>3. job[q].id \in Nat
        BY <1>0 DEF Job
    <2> QED
        BY <1>0, <1>1, <2>2, <2>3 DEF Carries
<1>2. CASE pc'[q] = "idle" /\ job'[q] = NoJob
    BY <1>2 DEF Carries, Unlinking
<1>3. ASSUME NEW step \in Steps, NEW j \in Job, Begin(q, step, j), Honest(step, j), Fresh(step, j)
      PROVE  Carries(pc[q], job[q])'
    <2>1. pc'[q] = step /\ job'[q] = j /\ begun' = begun + 1 /\ UNCHANGED linked
        BY <1>3 DEF Begin, AccountsInv, TypedRequests, tables
    <2>2. step \in Unlinking => step = "count" /\ j.profile \in Profiles /\ j.user \in Users
        BY <1>3 DEF Unlinking, Fresh, Honest
    <2>3. step = "count" => 0 < j.id /\ j.id <= begun /\ j.id \in Nat
        BY <1>3, <2>2, NoneIsNoRow DEF Fresh, UsageInv, RowsWellFormed, Job, Unlinking
    <2> QED
        BY <1>0, <1>3, <2>1, <2>2, <2>3 DEF Carries, Fresh
<1>4. CASE /\ pc[q] # "idle" /\ pc'[q] \notin {"idle", "consume", "count"}
           /\ job'[q].op = job[q].op
           /\ pc'[q] = "unlink" => countOthers(q) /\ job'[q] = job[q]
    <2>1. CASE pc'[q] # "unlink"
        BY <1>0, <1>4, <2>1 DEF Carries, Unlinking
    <2>2. CASE pc'[q] = "unlink"
        <3>1. pc[q] = "count" /\ job'[q] = job[q] /\ UNCHANGED <<linked, begun>>
            BY <1>4, <2>2 DEF countOthers, At, tables
        <3> QED
            BY <1>0, <2>2, <3>1 DEF Carries, Unlinking
    <2> QED
        BY <2>1, <2>2
<1> QED
    BY <1>1, <1>2, <1>3, <1>4, RequestsGoOn

(* Who begins to follow a link, or to unlink, beside another is noted. *)
LEMMA RacesNotedStep ==
    ASSUME AccountsInv, UsageInv, [Next]_vars
    PROVE  RacesNoted'
<1>t. pc \in [Requests -> Steps] /\ job \in [Requests -> Job]
    BY DEF AccountsInv, TypedRequests
<1>o. overlapped \subseteq overlapped' /\ RacesNoted
    BY RequestsGoOn DEF UsageInv
<1>1. CASE \A q \in Requests :
              /\ pc'[q] = "consume" => pc[q] = "consume" /\ job'[q] = job[q]
              /\ pc'[q] \in Unlinking => pc[q] \in Unlinking /\ job'[q] = job[q]
    BY <1>o, <1>1 DEF RacesNoted
<1>2. ASSUME NEW r \in Requests, Continue(r) \/ Crash(r), NEW q \in Requests
      PROVE  /\ pc'[q] = "consume" => pc[q] = "consume" /\ job'[q] = job[q]
             /\ pc'[q] \in Unlinking => pc[q] \in Unlinking /\ job'[q] = job[q]
    BY <1>2, GoesOn DEF Unlinking, countOthers, At
<1>3. ASSUME NEW r \in Requests, Arrive(r) PROVE RacesNoted'
    <2>1. PICK step \in Steps, j \in Job : Begin(r, step, j) /\ Honest(step, j) /\ Fresh(step, j)
        BY <1>3, Arrives DEF ArrivesWell
    <2>2. /\ pc'[r] = step /\ job'[r] = j /\ overlapped' = overlapped \cup RacesWith(j)
          /\ \A q \in Requests \ {r} : pc'[q] = pc[q] /\ job'[q] = job[q]
        BY <1>t, <2>1 DEF Begin
    <2>3. ASSUME NEW q \in Requests \ {r}
          PROVE  /\ pc[q] = "consume" /\ step = "consume" /\ job[q].link = j.link
                       => "follow" \in RacesWith(j)
                 /\ pc[q] \in Unlinking /\ step \in Unlinking /\ job[q].user = j.user
                       => "unlink" \in RacesWith(j)
        <3>1. Carries(pc[q], job[q]) /\ Honest(pc[q], job[q])
            BY DEF UsageInv, AccountsInv
        <3>2. CASE pc[q] = "consume" /\ step = "consume" /\ job[q].link = j.link
            BY <2>1, <3>1, <3>2 DEF Carries, Honest, Fresh, RacesWith, Unlinking
        <3>3. CASE pc[q] \in Unlinking /\ step \in Unlinking /\ job[q].user = j.user
            BY <2>1, <3>1, <3>3 DEF Carries, Fresh, RacesWith, Unlinking
        <3> QED
            BY <3>2, <3>3
    <2> QED
        BY <1>o, <2>2, <2>3 DEF RacesNoted
<1>4. CASE UNCHANGED <<pc, job>>
    BY <1>1, <1>4
<1> QED
    BY <1>1, <1>2, <1>3, <1>4 DEF Next, ExpireLink, vars

(* A link is spent when it has its effect, and once if nobody follows it   *)
(* beside another.                                                         *)
LEMMA LinksSpentStep ==
    ASSUME AccountsInv, UsageInv, [Next]_vars
    PROVE  LinksSpent'
<1>1. applied \in [Links -> Nat] /\ LinksSpent /\ overlapped \subseteq overlapped'
    BY RequestsGoOn DEF UsageInv, RowsWellFormed
<1>2. \A l \in Links : LinkGoesOn(l)
    BY <1>1, LinksGoOn
<1>3. ASSUME NEW l \in Links PROVE link'[l].state = "consumed" <=> applied'[l] > 0
    BY <1>1, <1>2 DEF LinkGoesOn, LinksSpent
<1>4. ASSUME "follow" \notin overlapped', NEW l \in Links PROVE applied'[l] <= 1
    <2>1. applied[l] \in Nat /\ applied[l] <= 1
        BY <1>1, <1>4 DEF LinksSpent
    <2>2. ASSUME NEW r \in Requests, consumeLink(r), job[r].link = l PROVE applied[l] = 0
        <3>1. link[l].state = "open"
            BY <1>1, <1>4, <2>2 DEF LinksSpent, consumeLink, At
        <3> QED
            BY <1>1, <2>1, <3>1 DEF LinksSpent
    <2> QED
        BY <1>2, <2>1, <2>2 DEF LinkGoesOn
<1>5. ASSUME "follow" \notin overlapped', NEW q \in Requests, pc'[q] = "consume"
      PROVE  link'[job'[q].link].state = "open"
    <2>1. CASE pc'[q] = pc[q] /\ job'[q] = job[q]
        <3>1. job[q].link \in Links /\ link[job[q].link].state = "open"
            BY <1>1, <1>5, <2>1 DEF LinksSpent, AccountsInv, Honest
        <3>2. ASSUME NEW r \in Requests, consumeLink(r), job[r].link = job[q].link PROVE FALSE
            <4>1. pc[r] = "consume" /\ pc'[r] = "idle"
                BY <3>2 DEF consumeLink, At, Finish, AccountsInv, TypedRequests
            <4> QED
                BY <1>1, <1>5, <2>1, <3>2, <4>1 DEF UsageInv, RacesNoted
        <3> QED
            BY <1>2, <2>1, <3>1, <3>2 DEF LinkGoesOn
    <2>2. ASSUME NEW step \in Steps, NEW j \in Job, Begin(q, step, j), Fresh(step, j)
          PROVE  link'[job'[q].link].state = "open"
        BY <1>5, <2>2 DEF Begin, Fresh, AccountsInv, TypedRequests, tables
    <2> QED
        BY <1>5, <2>1, <2>2, RequestsGoOn
<1> QED
    BY <1>3, <1>4, <1>5 DEF LinksSpent

(* Of two statements that unlink, one request's is the step. *)
LEMMA OneUnlinks ==
    ASSUME AccountsInv, NEW q \in Requests, NEW r \in Requests,
           unlinkAccount(q), unlinkAccount(r)
    PROVE  q = r
BY DEF unlinkAccount, At, Finish, AccountsInv, TypedRequests

(* A user keeps its provider accounts, but for the one that is unlinked.   *)
LEMMA KeepsProvider ==
    ASSUME AccountsInv, UsageInv, [Next]_vars, NEW u \in Users,
           NEW p \in Profiles, linked[p].user = u, linked'[p].user # u
    PROVE  \E r \in Requests : unlinkAccount(r) /\ job[r].profile = p /\ job[r].user = u
<1>1. linked[p] # NoRow
    BY NoneIsNoRow DEF NoRow
<1>2. PICK r \in Requests : unlinkAccount(r) /\ job[r].profile = p /\ linked[p].id = job[r].id
    BY <1>1, RowsGoOn DEF RowGoesOn
<1>3. Carries(pc[r], job[r]) /\ pc[r] = "unlink"
    BY <1>2 DEF UsageInv, unlinkAccount, At
<1> QED
    BY <1>2, <1>3 DEF Carries, Unlinking

(* Whoever has another provider account than the one in question keeps it  *)
(* or a provider account that is left, unless a user unlinks two at once.  *)
LEMMA WayBackStaysStep ==
    ASSUME AccountsInv, UsageInv, [Next]_vars
    PROVE  WayBackStays'
<1> SUFFICES ASSUME "unlink" \notin overlapped'
             PROVE  /\ \A u \in Users : Active(u)' /\ user'[u].password = "random"
                          => LinkedTo(u)' # {} \/ user'[u].verified
                    /\ \A r \in Requests : pc'[r] = "unlink" => Spare(r)'
    BY DEF WayBackStays
<1>0. "unlink" \notin overlapped /\ RacesNoted /\ WayBackStays
    BY RequestsGoOn DEF UsageInv
<1>v. ASSUME NEW u \in Users, Exists(u), user[u].verified PROVE user'[u].verified
    BY <1>v, UsersGoOn DEF UserGoesOn
<1>l. ASSUME NEW u \in Users, LinkedTo(u) # {} \/ user[u].verified, Exists(u)
      PROVE  LinkedTo(u)' # {} \/ user'[u].verified
    <2>1. CASE user[u].verified
        BY <1>l, <1>v, <2>1
    <2>2. CASE ~user[u].verified
        <3>1. PICK p \in Profiles : linked[p].user = u
            BY <1>l, <2>2 DEF LinkedTo
        <3>2. CASE linked'[p].user = u
            BY <3>2 DEF LinkedTo
        <3>3. CASE linked'[p].user # u
            <4>1. PICK r \in Requests :
                       unlinkAccount(r) /\ job[r].profile = p /\ job[r].user = u
                BY <3>1, <3>3, KeepsProvider
            <4>2. pc[r] = "unlink"
                BY <4>1 DEF unlinkAccount, At
            <4>3. PICK q \in Profiles : linked[q].user = u /\ provider[q] # provider[p]
                BY <1>0, <2>2, <4>1, <4>2 DEF WayBackStays, Spare, Others, LinkedTo
            <4>4. linked'[q].user = u
                BY <4>1, <4>3, KeepsProvider, OneUnlinks
            <4> QED
                BY <4>4 DEF LinkedTo
        <3> QED
            BY <3>2, <3>3
    <2> QED
        BY <2>1, <2>2
<1>1. ASSUME NEW u \in Users, Active(u)', user'[u].password = "random"
      PROVE  LinkedTo(u)' # {} \/ user'[u].verified
    <2>1. CASE ~Exists(u) /\ \E p \in Profiles : linked'[p].user = u
        BY <2>1 DEF LinkedTo
    <2>2. CASE Active(u) /\ user[u].password = "random"
        BY <1>0, <1>l, <2>2 DEF WayBackStays, Active, Exists
    <2> QED
        BY <1>1, <2>1, <2>2, UsersGoOn DEF UserGoesOn, Active
<1>2. ASSUME NEW r \in Requests, pc'[r] = "unlink"
      PROVE  Spare(r)'
    <2>1. CASE pc'[r] = pc[r] /\ job'[r] = job[r]
        <3>1. PICK u \in Users : u = job[r].user /\ Exists(u)
            BY <1>2, <2>1 DEF AccountsInv, Honest
        <3>2. CASE user[u].verified
            BY <1>v, <2>1, <3>1, <3>2 DEF Spare
        <3>3. CASE ~user[u].verified
            <4>1. PICK q \in Profiles : linked[q].user = u /\ provider[q] # provider[job[r].profile]
                BY <1>0, <1>2, <2>1, <3>1, <3>3 DEF WayBackStays, Spare, Others, LinkedTo
            <4>2. ASSUME NEW a \in Requests, unlinkAccount(a), job[a].user = u PROVE FALSE
                <5>1. pc[a] = "unlink" /\ pc'[a] = "idle"
                    BY <4>2 DEF unlinkAccount, At, Finish, AccountsInv, TypedRequests
                <5> QED
                    BY <1>0, <1>2, <2>1, <3>1, <4>2, <5>1 DEF RacesNoted, Unlinking
            <4>3. linked'[q].user = u
                BY <4>1, <4>2, KeepsProvider
            <4> QED
                BY <2>1, <3>1, <4>1, <4>3 DEF Spare, Others, LinkedTo
        <3> QED
            BY <3>2, <3>3
    <2>2. CASE countOthers(r) /\ job'[r] = job[r]
        <3>1. /\ pc[r] = "count" /\ UNCHANGED <<user, linked>>
              /\ Spare(r)
            <4>1. pc[r] = "count" /\ UNCHANGED <<user, linked>>
                BY <2>2 DEF countOthers, At, tables
            <4>2. ~ Finish(r)
                BY <1>2 DEF Finish, AccountsInv, TypedRequests
            <4> QED
                BY <2>2, <4>1, <4>2 DEF countOthers, Spare
        <3> QED
            BY <2>2, <3>1 DEF Spare, Others, LinkedTo
    <2> QED
        BY <1>2, <2>1, <2>2, RequestsGoOn DEF Begin, Fresh, AccountsInv, TypedRequests
<1> QED
    BY <1>1, <1>2

(* All of it holds in every state. *)
LEMMA AccountsUsed == Spec => [](AccountsInv /\ UsageInv)
<1>1. Init => AccountsInv /\ UsageInv
    BY InitHonest, InitUsed
<1>2. AccountsInv /\ UsageInv /\ [Next]_vars => (AccountsInv /\ UsageInv)'
    BY NextHonest, RowsWellFormedStep, CarriesStep, RacesNotedStep, LinksSpentStep,
        WayBackStaysStep DEF UsageInv
<1> QED
    BY <1>1, <1>2, PTL DEF Spec

(* A link is marked if and only if it had its effect, and has it once      *)
(* unless two requests followed it at once.                                *)
THEOREM LinksAreSpent == Spec => []LinkSpentForItsEffect
<1>1. AccountsInv /\ UsageInv => LinkSpentForItsEffect
    <2> SUFFICES ASSUME AccountsInv, UsageInv PROVE LinkSpentForItsEffect
        OBVIOUS
    <2>1. linked \in [Profiles -> [user : Users \cup {None}, id : 0 .. MaxOps]]
        <3>1. \A p \in Profiles : linked[p].id \in 0 .. MaxOps
            BY BoundsAreNatural DEF AccountsInv, TypedRows, UsageInv, RowsWellFormed
        <3>2. \A p \in Profiles : linked[p] \in [user : Users \cup {None}, id : 0 .. MaxOps]
            BY <3>1 DEF AccountsInv, TypedRows
        <3> QED
            BY <3>2 DEF AccountsInv, TypedRows
    <2>2. begun \in 0 .. MaxOps
        BY BoundsAreNatural DEF AccountsInv, TypedRows, UsageInv, RowsWellFormed
    <2>3. \A u \in Users : Exists(u) <=> user[u].email # None
        BY NoneIsNoRow DEF AccountsInv, TypedRows, UsageInv, RowsWellFormed
    <2>4. ASSUME NEW r \in Requests PROVE pc[r] = "idle" <=> job[r] = NoJob
        <3>1. Carries(pc[r], job[r]) /\ NoJob.op = "none"
            BY DEF UsageInv, NoJob
        <3> QED
            BY <3>1 DEF Carries
    <2>5. TypeOK
        BY <2>1, <2>2, <2>3, <2>4
        DEF AccountsInv, TypedRows, TypedRequests, UsageInv, RowsWellFormed, TypeOK, User, Link
    <2>6. ASSUME NEW l \in Links, applied[l] > 1 PROVE "follow" \in overlapped
        BY <2>6 DEF UsageInv, LinksSpent, RowsWellFormed
    <2> QED
        BY <2>5, <2>6 DEF LinkSpentForItsEffect, UsageInv, LinksSpent
<1> QED
    BY <1>1, AccountsUsed, PTL

(* A user whose password nobody knows has a provider account or a verified *)
(* address, unless it unlinked two provider accounts at once.              *)
THEOREM WayBackInStays == Spec => []WayBackIn
<1>1. UsageInv => WayBackIn
    BY DEF UsageInv, WayBackStays, WayBackIn
<1> QED
    BY <1>1, AccountsUsed, PTL
===============================================================================
