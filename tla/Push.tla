-------------------------------- MODULE Push --------------------------------
(***************************************************************************)
(* Web push in one browser: PushNotificationsCard.tsx, another card of the *)
(* tab in Dashboard, with push.service.ts behind it.  The browser has one  *)
(* subscription, whoever is signed in, and the server has a row for each   *)
(* subscription, of one user.  A behaviour is about this card or about one *)
(* of the lists.                                                           *)
(***************************************************************************)
EXTENDS Dashboard

CONSTANTS Endpoints,  \* names for subscriptions; each is made once
          Switches    \* names for the changes under way, and a bound on them

ASSUME NobodyIsNoEndpoint == Nobody \notin Endpoints

VARIABLES
    push,     \* whether the behaviour is about this card
    sub,      \* the browser's subscription
    gone,     \* those that the push service has ended
    row,      \* push_subscriptions: the user of each
    on,       \* the card says "On"
    looked,   \* the card has asked the browser, as it does when it appears
    switch,   \* enable and disable under way
    sending,  \* sendPushToUser under way: the rows not yet served
    pardon    \* history: there was a reason why the card may be wrong, since
              \* it was last known to be right

pushVars == <<push, sub, gone, row, on, looked, switch, sending, pardon>>
listVars == <<card, table, cache, fetch, click, reasons>>
tabVars == <<dashboardVars, pushVars>>

NoSwitch == [op |-> "none", step |-> "over", by |-> Nobody, sub |-> Nobody,
             mounted |-> FALSE, alone |-> FALSE] \* began with no other under way

Free(e) == sub # e /\ e \notin gone /\ row[e] = Nobody /\ \A n \in Switches : switch[n].sub # e
Stored(u) == sub # Nobody /\ row[sub] = u

PushTypeOK ==
    /\ push \in BOOLEAN /\ on \in BOOLEAN /\ looked \in BOOLEAN /\ pardon \in BOOLEAN
    /\ sub \in Endpoints \cup {Nobody} /\ gone \subseteq Endpoints /\ sending \subseteq Endpoints
    /\ row \in [Endpoints -> Users \cup {Nobody}]
    /\ \A n \in Switches :
          \/ switch[n] = NoSwitch
          \/ /\ switch[n].op \in {"enable", "disable"}
             /\ switch[n].step \in {"prompt", "sent", "done"}
    /\ \A n, m \in Switches : switch[n].mounted /\ switch[m].mounted => n = m

TabInit ==
    /\ ListInit /\ push \in BOOLEAN
    /\ push => card = SessionsCard /\ table = [t \in Users \cup {Nobody} |-> {}]
    /\ sub = Nobody /\ gone = {} /\ row = [e \in Endpoints |-> Nobody]
    /\ on = FALSE /\ looked = FALSE
    /\ switch = [n \in Switches |-> NoSwitch]
    /\ sending = {}
    /\ pardon = FALSE

-------------------------------------------------------------------------------
Unused(n) == switch[n] = NoSwitch
Busy == \E n \in Switches : switch[n].mounted
Quiet == \A n \in Switches : Unused(n)

(* The card is new, and asks the browser alone: the subscription may be of *)
(* the user before, or not be stored at all.  What that user began goes on.*)
Open(u) ==
    /\ user = Nobody /\ user' = u
    /\ pardon' = ~(Quiet /\ (sub = Nobody \/ (sub \notin gone /\ Stored(u))))
    /\ UNCHANGED <<push, sub, gone, row, on, looked, switch, sending>>

Close ==
    /\ user # Nobody /\ user' = Nobody
    /\ switch' = [n \in Switches |-> [switch[n] EXCEPT !.mounted = FALSE]]
    /\ on' = FALSE /\ looked' = FALSE
    /\ pardon' = TRUE \* nobody sees it
    /\ UNCHANGED <<push, sub, gone, row, sending>>

(* The browser answers at once; before its first subscription, never. *)
Look ==
    /\ user # Nobody /\ ~looked
    /\ looked' = TRUE
    /\ on' = (sub # Nobody)
    /\ UNCHANGED <<user, push, sub, gone, row, switch, sending, pardon>>

enable(n) ==
    /\ user # Nobody /\ ~on /\ ~Busy /\ Unused(n)
    /\ switch' = [switch EXCEPT ![n] = [op |-> "enable", step |-> "prompt", by |-> Nobody,
                                         sub |-> Nobody, mounted |-> TRUE, alone |-> Quiet]]
    /\ UNCHANGED <<user, push, sub, gone, row, on, looked, sending, pardon>>

(* Permission is given: the browser's subscription, or a new one, is sent  *)
(* in the name of whoever is signed in by now; nobody's is refused.        *)
subscribe(n) ==
    /\ switch[n].step = "prompt"
    /\ IF sub # Nobody THEN UNCHANGED sub ELSE \E e \in Endpoints : Free(e) /\ sub' = e
    /\ switch' = [switch EXCEPT ![n] = [op |-> "enable", step |-> "sent", by |-> user, sub |-> sub',
                                         mounted |-> @.mounted, alone |-> @.alone]]
    /\ UNCHANGED <<user, push, gone, row, on, looked, sending, pardon>>

disable(n) ==
    /\ user # Nobody /\ on /\ ~Busy /\ Unused(n)
    /\ IF sub = Nobody
       THEN /\ on' = FALSE
            /\ UNCHANGED switch
       ELSE /\ switch' = [switch EXCEPT ![n] = [op |-> "disable", step |-> "sent", by |-> user,
                                                sub |-> sub, mounted |-> TRUE, alone |-> Quiet]]
            /\ UNCHANGED on
    /\ UNCHANGED <<user, push, sub, gone, row, looked, sending, pardon>>

-------------------------------------------------------------------------------
(* Mutant: a subscription that has a row keeps its user. *)
saveSubscriptionKeeps(u, e) == [row EXCEPT ![e] = IF @ = Nobody THEN u ELSE @]

saveSubscription(u, e) == [row EXCEPT ![e] = u]
deleteSubscription(u, e) == [row EXCEPT ![e] = IF @ = u THEN Nobody ELSE @]

ServeSwitch(n) ==
    LET s == switch[n]
    IN  /\ s.step = "sent" /\ s.by # Nobody
        /\ row' = IF s.op = "enable" THEN saveSubscription(s.by, s.sub)
                  ELSE deleteSubscription(s.by, s.sub)
        /\ switch' = [switch EXCEPT ![n].step = "done"]
        /\ UNCHANGED <<user, push, sub, gone, on, looked, sending, pardon>>

(* setSubscribed does nothing once the card is gone.  The card is right    *)
(* when its change is done, no other one was under way, and the browser    *)
(* has the subscription that was changed.                                  *)
Finish(n) ==
    LET s == switch[n]
    IN  /\ s.step = "done"
        /\ IF s.op = "disable"
           THEN /\ sub' = IF sub = s.sub THEN Nobody ELSE sub
                /\ gone' = gone \cup {s.sub}
           ELSE UNCHANGED <<sub, gone>>
        /\ on' = IF s.mounted THEN s.op = "enable" ELSE on
        /\ pardon' = ~(/\ s.mounted /\ s.alone
                       /\ sub' \in IF s.op = "enable" THEN {s.sub} \ gone ELSE {Nobody})
        /\ switch' = [switch EXCEPT ![n] = NoSwitch]
        /\ UNCHANGED <<user, push, row, looked, sending>>

(* Permission is denied, a call fails or its answer is lost, the browser   *)
(* does not unsubscribe.                                                   *)
GiveUp(n) ==
    /\ ~Unused(n)
    /\ switch' = [switch EXCEPT ![n] = NoSwitch]
    /\ pardon' = (pardon \/ switch[n].step # "prompt")
    /\ UNCHANGED <<user, push, sub, gone, row, on, looked, sending>>

(* The push service ends a subscription; the browser may not know. *)
Expire ==
    /\ sub # Nobody /\ sub \notin gone
    /\ gone' = gone \cup {sub}
    /\ sub' \in {sub, Nobody}
    /\ pardon' = TRUE
    /\ UNCHANGED <<user, push, row, on, looked, switch, sending>>

-------------------------------------------------------------------------------
(* Something happens to a user: the rows are read, then each is sent to.   *)
(* (The notification itself is one of the bell's list.)                    *)
notify(u) ==
    /\ sending = {}
    /\ sending' = {e \in Endpoints : row[e] = u}
    /\ UNCHANGED <<user, push, sub, gone, row, on, looked, switch, pardon>>

(* One that the service reports as gone is pruned, if that does not fail.  *)
sendPush(e) ==
    /\ e \in sending
    /\ sending' = sending \ {e}
    /\ \/ UNCHANGED row
       \/ e \in gone /\ row' = [row EXCEPT ![e] = Nobody]
    /\ UNCHANGED <<user, push, sub, gone, on, looked, switch, pardon>>

PushNext ==
    \/ \E u \in Users : Open(u) \/ notify(u)
    \/ Close \/ Look \/ Expire
    \/ \E n \in Switches : enable(n) \/ subscribe(n) \/ disable(n)
                           \/ ServeSwitch(n) \/ Finish(n) \/ GiveUp(n)
    \/ \E e \in Endpoints : sendPush(e)

TabNext ==
    \/ ~push /\ ListNext /\ UNCHANGED pushVars
    \/ push /\ PushNext /\ UNCHANGED listVars

TabSpec == TabInit /\ [][TabNext]_tabVars

-------------------------------------------------------------------------------
(* When nothing is under way the card says "On" if and only if what        *)
(* happens to the user who is signed in arrives in this browser: whoever   *)
(* used the browser before, and however often it was turned on and off.    *)
(* The exceptions: a call failed, the user signed out with a change under  *)
(* way, the push service ended the subscription, or the subscription that  *)
(* the browser had when the card appeared was stored for somebody else, or *)
(* not at all: the card asks the browser and not the server.  (And the     *)
(* state is well typed.)                                                   *)
ShowsWhatArrives ==
    /\ PushTypeOK
    /\ push /\ user # Nobody /\ looked /\ Quiet /\ ~pardon
          => (on <=> Stored(user))
===============================================================================
