----------------------------- MODULE Dashboard -----------------------------
(***************************************************************************)
(* The cards and tabs of the web client.  Each shows a list that a query   *)
(* keeps in a cache of the tab, which outlives the card and the session of *)
(* the user, and has controls that change the list on the server and then  *)
(* ask for it again.  What differs between cards is when a control is      *)
(* disabled, and what it does once the server has answered.  The cache,    *)
(* queries and mutations are those of TanStack Query (external), with the  *)
(* options of main.tsx.                                                    *)
(***************************************************************************)
EXTENDS FiniteSets

CONSTANTS Users, Items, Nobody,
          Clicks  \* names for the changes under way, and a bound on them

ASSUME NobodyIsNoUser == Nobody \notin Users

(* What a change does to the list; whether its controls are disabled while *)
(* it is pending, those of all items, that of each item, or never; and     *)
(* what follows its success: the list is asked for and the change is       *)
(* pending until it is there, the list is asked for, the card is closed,   *)
(* or nothing.                                                             *)
Change(effect, guarded, then) == [effect |-> effect, guarded |-> guarded, then |-> then]

SessionsCard == [revokeOne    |-> Change("remove", "all", "wait"),
                 revokeOthers |-> Change("clear", "all", "wait")]
PasskeysCard == [add    |-> Change("add", "all", "ask"),
                 remove |-> Change("remove", "all", "wait")]
ConnectedAccountsCard == [unlink |-> Change("remove", "all", "wait")]

(* A Button is not disabled by loading when it is given a disabled of its  *)
(* own: a name with scopes may be sent twice.                              *)
ApiKeysCard == [create |-> Change("add", "never", "ask"),
                revoke |-> Change("remove", "all", "wait")]

(* The list is the set of factors; each view has a mutation of its own. *)
EnrollView == Change("add", "all", "wait")
EnabledView == Change("remove", "all", "wait")
SmsFactorSection == [verify |-> Change("add", "all", "wait"),
                     remove |-> Change("remove", "all", "wait")]
TwoFactorCard == [enable    |-> EnrollView,
                  disable   |-> EnabledView,
                  verifySms |-> SmsFactorSection.verify,
                  removeSms |-> SmsFactorSection.remove]

(* The unread ones; a read one stays in the list. *)
NotificationsBell == [markRead |-> Change("remove", "never", "ask"),
                      markAll  |-> Change("clear", "all", "ask"),
                      remove   |-> Change("remove", "never", "ask")]

CreateTeamForm == Change("add", "all", "ask")
OrganizationDetail == [removeMember |-> Change("remove", "never", "ask"),
                       createTeam   |-> CreateTeamForm,
                       deleteTeam   |-> Change("remove", "never", "ask")]

(* Leaving or deleting closes the detail, and asks for no list. *)
OrganizationsPage == [create  |-> Change("add", "all", "ask"),
                      leave   |-> Change("remove", "never", "close"),
                      destroy |-> Change("remove", "never", "close")]

(* Each role has a mutation of its own to remove it. *)
RolesTab == [create |-> Change("add", "all", "ask"),
             remove |-> Change("remove", "each", "wait")]

(* The permissions of a role: a toggle sends all of them, as it shows them.*)
RoleCardUnguarded == [update |-> Change("replace", "never", "wait")]
RoleCard == [update |-> Change("replace", "all", "wait")]

(* The users who are disabled, or locked. *)
UsersTab == [toggle |-> Change("flip", "all", "wait"),
             unlock |-> Change("remove", "all", "wait")]

SecurityTabForgetful == [block   |-> Change("add", "never", "nothing"),
                         unblock |-> Change("remove", "all", "wait")]
SecurityTab == [block   |-> Change("add", "never", "wait"),
                unblock |-> Change("remove", "all", "wait")]

AdminTabs == {RolesTab, RoleCard, UsersTab, SecurityTab}
Cards == AdminTabs \cup
    {SessionsCard, PasskeysCard, ConnectedAccountsCard, ApiKeysCard, TwoFactorCard,
     NotificationsBell, OrganizationDetail, OrganizationsPage}

VARIABLES
    card,    \* the card this behaviour is about
    table,   \* its list on the server: of each user, or of all
    user,    \* who is signed in to the tab, and sees the card
    cache,   \* the list in the tab
    fetch,   \* the request for the list
    click,   \* the changes under way
    excused, \* history: there was a reason why the cache may differ from the
             \* table, since the list was last asked for
    wanted   \* history: a role as the toggles of this tab meant it, unless
             \* there ever was such a reason

reasons == <<excused, wanted>>
dashboardVars == <<card, table, user, cache, fetch, click, reasons>>

NoData == [owner |-> Nobody, items |-> {}]
NoFetch == [step |-> "idle", by |-> Nobody, items |-> {}]
NoClick == [step |-> "over", change |-> "none", by |-> Nobody, item |-> Nobody, items |-> {}]

(* What is wanted, if it is known, is the one member of a set. *)
Unknown == {}

Table(u) == IF card \in AdminTabs THEN Nobody ELSE u

ListTypeOK ==
    /\ card \in Cards
    /\ table \in [Users \cup {Nobody} -> SUBSET Items]
    /\ user \in Users \cup {Nobody}
    /\ cache \in [owner : Users, items : SUBSET Items] \cup {NoData}
    /\ fetch.step \in {"idle", "asked", "read"} /\ (fetch.step = "idle" => fetch = NoFetch)
    /\ fetch.by \in Users \cup {Nobody} /\ fetch.items \subseteq Items
    /\ \A n \in Clicks :
          \/ click[n] = NoClick
          \/ /\ click[n].step \in {"sent", "done", "refused", "waiting"}
             /\ click[n].change \in DOMAIN card
    /\ excused \in BOOLEAN /\ wanted \in SUBSET SUBSET Items
    /\ excused => wanted = Unknown

ListInit ==
    /\ card \in Cards
    /\ table \in [Users \cup {Nobody} -> SUBSET Items]
    /\ \A u \in Users \cup {Nobody} : table[u] # {} => (u = Nobody <=> card \in AdminTabs)
    /\ user = Nobody
    /\ cache = NoData
    /\ fetch = NoFetch
    /\ click = [n \in Clicks |-> NoClick]
    /\ excused = FALSE
    /\ wanted = IF card = RoleCard THEN {table[Nobody]} ELSE Unknown

Excuse == excused' = TRUE /\ wanted' = Unknown

-------------------------------------------------------------------------------
(* Asks for the list: a request under way is replaced if there is a list   *)
(* to show meanwhile, and otherwise shared, as a card does that appears.   *)
Ask(u) ==
    /\ fetch' = [step |-> "asked", by |-> u, items |-> {}]
    /\ excused' = FALSE /\ UNCHANGED wanted

Share == UNCHANGED fetch /\ Excuse

invalidate ==
    \/ user = Nobody /\ UNCHANGED <<fetch, reasons>> \* the next card asks
    \/ user # Nobody /\ (fetch = NoFetch \/ cache # NoData) /\ Ask(user)
    \/ user # Nobody /\ fetch # NoFetch /\ cache = NoData /\ Share

SignIn(u) ==
    /\ user = Nobody /\ user' = u
    /\ IF fetch = NoFetch THEN Ask(u) ELSE Share
    /\ UNCHANGED <<card, table, cache, click>>

(* logout leaves the cache alone. *)
SignOut ==
    /\ user # Nobody /\ user' = Nobody
    /\ wanted' = Unknown \* the next one may see, and send, an older list
    /\ UNCHANGED <<card, table, cache, fetch, click, excused>>

(* A list nobody shows is dropped after five minutes. *)
Forget ==
    /\ user = Nobody /\ fetch = NoFetch
    /\ cache' = NoData
    /\ UNCHANGED <<card, table, user, fetch, click, reasons>>

Read ==
    /\ fetch.step = "asked"
    /\ fetch' = [step |-> "read", by |-> fetch.by, items |-> table[Table(fetch.by)]]
    /\ UNCHANGED <<card, table, user, cache, click, reasons>>

(* With the list, the changes that wait for it are over. *)
Released == [n \in Clicks |-> IF click[n].step = "waiting"
                              THEN NoClick ELSE click[n]]

Fetched ==
    /\ fetch.step = "read"
    /\ cache' = [owner |-> fetch.by, items |-> fetch.items]
    /\ fetch' = NoFetch
    /\ click' = Released
    /\ UNCHANGED <<card, table, user, reasons>>

FetchFails ==
    /\ fetch # NoFetch
    /\ fetch' = NoFetch
    /\ click' = Released
    /\ Excuse
    /\ UNCHANGED <<card, table, user, cache>>

(* The bell asks every 30 seconds. *)
Poll ==
    /\ card = NotificationsBell /\ user # Nobody /\ fetch = NoFetch
    /\ Ask(user)
    /\ UNCHANGED <<card, table, user, cache, click>>

-------------------------------------------------------------------------------
Pending(change, item) ==
    \E n \in Clicks : /\ click[n].change = change
                      /\ card[change].guarded = "each" => click[n].item = item

(* A control of the list is one of an item it shows. *)
Usable(change, item) ==
    /\ card[change].guarded # "never" => ~Pending(change, item)
    /\ card[change].effect = "add" \/ cache # NoData
    /\ card[change].effect = "remove" => item \in cache.items
    /\ card[change].effect = "clear" => cache.items # {}

toggle(items, item) == IF item \in items THEN items \ {item} ELSE items \cup {item}

Click(n, change, item) ==
    /\ user # Nobody
    /\ click[n] = NoClick
    /\ Usable(change, item)
    /\ click' = [click EXCEPT ![n] =
                     [step |-> "sent", change |-> change, by |-> user, item |-> item,
                      items |-> IF card[change].effect \in {"replace", "flip"}
                                THEN cache.items ELSE {}]]
    /\ UNCHANGED <<card, table, user, cache, fetch, reasons>>

(* What was meant by a click on an item as it was shown. *)
Meant(c, items) == IF c.item \in c.items THEN items \ {c.item} ELSE items \cup {c.item}

Changed(c, items) ==
    LET effect == card[c.change].effect
    IN  CASE effect = "add" -> items \cup {c.item}
          [] effect = "remove" -> items \ {c.item}
          [] effect = "clear" -> {}
          [] effect = "replace" -> toggle(c.items, c.item)
          [] effect = "flip" -> Meant(c, items)

Handled(step, c) ==
    [step |-> step, change |-> c.change, by |-> Nobody, items |-> {},
     item |-> IF card[c.change].guarded = "each" THEN c.item ELSE Nobody]

(* The server makes the change, or refuses: there is no such item, or      *)
(* there is one already.                                                   *)
Handle(n) ==
    LET t == Table(click[n].by)
    IN  /\ click[n].step = "sent"
        /\ \/ /\ table' = [table EXCEPT ![t] = Changed(click[n], @)]
              /\ wanted' = {Meant(click[n], items) : items \in wanted}
              /\ click' = [click EXCEPT ![n] = Handled("done", @)]
           \/ /\ click' = [click EXCEPT ![n] = Handled("refused", @)]
              /\ UNCHANGED <<table, wanted>>
        /\ UNCHANGED <<card, user, cache, fetch, excused>>

onSuccess(n) ==
    LET then == card[click[n].change].then
    IN  /\ click[n].step = "done"
        /\ \/ then = "nothing" /\ UNCHANGED <<fetch, reasons>>
           \/ then = "close" /\ Excuse /\ UNCHANGED fetch
           \/ then \in {"ask", "wait"} /\ invalidate
        /\ click' = [click EXCEPT ![n] = IF then = "wait" /\ user # Nobody
                                         THEN Handled("waiting", @) ELSE NoClick]
        /\ UNCHANGED <<card, table, user, cache>>

onError(n) ==
    /\ \/ click[n].step = "refused" /\ UNCHANGED reasons
       \/ click[n].step \in {"sent", "done"} /\ Excuse
    /\ click' = [click EXCEPT ![n] = NoClick]
    /\ UNCHANGED <<card, table, user, cache, fetch>>

(* Another device, another administrator or the server changes the list.   *)
(* What changes before a sign-in could as well change right after it.      *)
OthersChange(item) ==
    /\ user # Nobody
    /\ table' = [table EXCEPT ![Table(user)] = toggle(@, item)]
    /\ Excuse
    /\ UNCHANGED <<card, user, cache, fetch, click>>

ListNext ==
    \/ \E u \in Users : SignIn(u)
    \/ SignOut \/ Forget
    \/ Read \/ Fetched \/ FetchFails \/ Poll
    \/ \E n \in Clicks : \/ \E change \in DOMAIN card, item \in Items : Click(n, change, item)
                         \/ Handle(n) \/ onSuccess(n) \/ onError(n)
    \/ \E item \in Items : OthersChange(item)

ListSpec == ListInit /\ [][ListNext]_dashboardVars

-------------------------------------------------------------------------------
AtRest == fetch = NoFetch /\ \A n \in Clicks : click[n] = NoClick

(* When nothing is under way, a card shows the list of the user who is     *)
(* signed in, as it is on the server: whoever was signed in before, and in *)
(* whatever order the answers came.  The exceptions: somebody else changed *)
(* the list since, the answer to a change or to the request was lost, or a *)
(* request made before the change, or before the sign-in, was shared.      *)
(* Leaving or deleting an organization is another.  (And the state is well *)
(* typed.)                                                                 *)
ShowsTheListAtRest ==
    /\ ListTypeOK
    /\ AtRest /\ user # Nobody /\ cache # NoData /\ ~excused
          => /\ cache.items = table[Table(user)]
             /\ card \notin AdminTabs => cache.owner = user

(* A toggle sends the permissions as they were shown.  It takes back no    *)
(* toggle that was made before in the same session, unless an answer was   *)
(* lost or somebody else changed the role meanwhile.                       *)
TogglesAccumulateUnlessDisturbed ==
    wanted \subseteq {table[Nobody]}
=============================================================================
