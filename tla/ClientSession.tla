---------------------------- MODULE ClientSession ----------------------------
(***************************************************************************)
(* The clients, in the tabs of one browser: the SDK (packages/core) under  *)
(* its React provider (packages/react), and the web client (apiClient.ts   *)
(* under AuthContext.tsx).  The tabs share the refresh cookie; each holds  *)
(* its access token and its refreshPromise in memory.  A request is a      *)
(* process: sent, served, answered; its answer may be late or lost, and    *)
(* JavaScript runs to completion once it arrives.                          *)
(* The server serves a request in one step: SessionRotation shows that the *)
(* rotations of a session take turns.                                      *)
(***************************************************************************)
EXTENDS Naturals, FiniteSets

CONSTANTS Tabs, Calls, Sessions, None,
          MaxCalls    \* bound on the operations of a behaviour of each client

ASSUME Apart == Tabs \cap Calls = {} /\ None \notin Tabs \cup Calls \cup Sessions
ASSUME MaxCallsAreNatural == MaxCalls \in [{"sdk", "web"} -> Nat]
ASSUME NoneIsNoPair == None \notin [session : Sessions, generation : Nat]
ASSUME FinitelyMany == IsFiniteSet(Calls)

VARIABLES
    client,     \* which of the two clients the tabs run
    current,    \* generation of a session's refresh token, 0: no session
    active,     \* sessions that are not revoked
    expired,    \* pairs whose access token has expired
    cookie,     \* authkit_refresh_token, shared by the tabs
    token,      \* HttpClient.accessToken of each tab
    status,     \* AuthProvider's status in each tab
    request,    \* what each call is doing, and tryRefresh of each tab
    begun,      \* operations so far
    signedOut,  \* history: tabs that logged out since the last sign-in
    burned,     \* history: whether reuse revoked an active session
    races,      \* history: which operations were in flight together
    mishaps,    \* history: answers lost that matter
    counted,    \* history: how often the server counted a sign-in's password as wrong
    renewed     \* history: how many refreshes succeeded while a sign-in waited for them

server == <<current, active, expired>>
browser == <<cookie, token, status>>
passwords == <<counted, renewed>>
history == <<signedOut, burned, races, mishaps, passwords>>
vars == <<client, server, browser, request, begun, history>>

(* An access token and a refresh token are issued together.  A pair stands *)
(* for both.  A sign-in of the web client may refresh before and after.    *)
Pairs == [session : Sessions, generation : 1 .. 2 * MaxCalls[client] + 1]
Processes == Calls \cup Tabs
Ops == {"login", "logout", "me", "refresh", "tryRefresh"}
Refreshes == {"refresh", "tryRefresh"}

Idle == [op |-> "none", step |-> "idle", tab |-> None, cookie |-> None, token |-> None,
         retried |-> FALSE, answer |-> "none", pair |-> None]

InFlight == {p \in Processes : request[p] # Idle}

TypeOK ==
    /\ client \in {"sdk", "web"}
    /\ \A s \in Sessions :  \* one refresh an operation, or two
          current[s] \in 0 .. (IF client = "sdk" THEN begun ELSE 2 * begun) + 1
    /\ active \subseteq Sessions
    /\ expired \subseteq Pairs
    /\ cookie \in Pairs \cup {None}
    /\ token \in [Tabs -> Pairs \cup {None}]
    /\ status \in [Tabs -> {"loading", "authenticated", "unauthenticated"}]
    /\ \A p \in Processes :
          /\ request[p].op \in Ops \cup {"none"}
          /\ request[p].step \in {"idle", "sent", "answered", "waiting"}
          /\ request[p].step = "idle" <=> request[p] = Idle
          /\ {request[p].cookie, request[p].token, request[p].pair} \subseteq Pairs \cup {None}
          /\ request[p].step = "answered" <=> request[p].answer # "none"
    /\ \A t \in Tabs : request[t].op \in {"none", "tryRefresh"}
    /\ begun \in 0 .. MaxCalls[client]
    /\ signedOut \subseteq Tabs

(* The tabs have just been opened, with or without a cookie from before. *)
Init ==
    /\ client \in {"sdk", "web"}
    /\ \/ cookie = None /\ active = {}
       \/ \E s \in Sessions : cookie = [session |-> s, generation |-> 1] /\ active = {s}
    /\ current = [s \in Sessions |-> IF s \in active THEN 1 ELSE 0]
    /\ expired = {}
    /\ token = [t \in Tabs |-> None]
    /\ status = [t \in Tabs |-> "loading"]
    /\ request = [p \in Processes |-> Idle]
    /\ begun = 0
    /\ signedOut = {} /\ burned = FALSE /\ races = {} /\ mishaps = {}
    /\ counted = [c \in Calls |-> 0] /\ renewed = counted

-------------------------------------------------------------------------------
(* A request.  The bearer token matters to me only, with which alone the   *)
(* SDK sends it; refresh and logout read the cookie.                       *)
Fetch(t, op, retried, bearer, jar) ==
    [Idle EXCEPT !.op = op, !.step = "sent", !.tab = t, !.retried = retried,
                 !.token = IF op = "me" THEN bearer ELSE None,
                 !.cookie = IF op \in {"me", "login"} THEN None ELSE jar]

(* The operations that an operation of tab t meets in flight: those of its *)
(* own tab, and of any tab where the shared cookie is at stake.            *)
RacesInTab == {{"me"}, {"me", "logout"}, {"logout", "refresh"}, {"logout", "tryRefresh"}}
RacesForCookie == {{"login", "logout"}, {"login", "refresh"}, {"login", "tryRefresh"},
                   {"refresh"}, {"tryRefresh"}, Refreshes}

Meets(t, op, others) ==
    LET With(q) == {op, request[q].op}
    IN  {[tab |-> t, ops |-> With(q)] :
            q \in {q \in others : request[q].tab = t /\ With(q) \in RacesInTab}}
        \cup {[tab |-> None, ops |-> With(q)] :
            q \in {q \in others : With(q) \in RacesForCookie}}

(* refresh of the web client is loadProfile. *)
Called == IF client = "sdk" THEN {"login", "logout", "me", "refresh"} ELSE {"login", "logout", "me"}

Begin(c, t, op) ==
    /\ request[c] = Idle
    /\ begun < MaxCalls[client]
    /\ begun' = begun + 1
    /\ UNCHANGED <<client, server, browser, signedOut, burned, mishaps, passwords>>
    /\ request' = [request EXCEPT ![c] = Fetch(t, op, FALSE, token[t], cookie)]
    /\ races' = races \cup Meets(t, op, InFlight)

-------------------------------------------------------------------------------
(* The server. *)
Answer(p, answer, pair) ==
    request' = [request EXCEPT ![p] =
        [@ EXCEPT !.step = "answered", !.answer = answer, !.pair = pair, !.token = None,
                  !.cookie = IF request[p].op = "logout" THEN request[p].cookie ELSE None]]

Arrived(p, ops) == request[p].step = "sent" /\ request[p].op \in ops /\ UNCHANGED client

(* The password is wrong, and counts. *)
RefuseLogin(p) ==
    /\ Arrived(p, {"login"})
    /\ Answer(p, "denied", None)
    /\ counted' = [counted EXCEPT ![p] = @ + 1]
    /\ UNCHANGED <<server, browser, begun, signedOut, burned, races, mishaps, renewed>>

ServeLogin(p, s) ==
    /\ Arrived(p, {"login"})
    /\ current[s] = 0
    /\ current' = [current EXCEPT ![s] = 1]
    /\ active' = active \cup {s}
    /\ Answer(p, "ok", [session |-> s, generation |-> 1])
    /\ UNCHANGED <<expired, browser, begun, history>>

(* A refresh token that was rotated before burns its session. *)
ServeRefresh(p) ==
    LET presented == request[p].cookie
        s == presented.session
        next == [session |-> s, generation |-> current[s] + 1]
    IN  /\ Arrived(p, Refreshes)
        /\ \/ /\ presented = None
              /\ Answer(p, "denied", None)
              /\ UNCHANGED <<current, active, burned>>
           \/ /\ presented # None
              /\ s \notin active \/ presented.generation < current[s]
              /\ active' = active \ {s}
              /\ burned' = (burned \/ s \in active)
              /\ Answer(p, "denied", None)
              /\ UNCHANGED current
           \/ /\ presented # None
              /\ s \in active /\ presented.generation = current[s]
              /\ current' = [current EXCEPT ![s] = @ + 1]
              /\ Answer(p, "ok", next)
              /\ UNCHANGED <<active, burned>>
        /\ UNCHANGED <<expired, browser, begun, signedOut, races, mishaps, passwords>>

(* Mutant: a logout revokes only through the token that is current. *)
LoggedOutCurrentOnly(presented) ==
    {s \in Sessions : presented = [session |-> s, generation |-> current[s]]}

(* The session of the presented token, rotated or not. *)
LoggedOut(presented) == IF presented = None THEN {} ELSE {presented.session}

ServeLogout(p) ==
    /\ Arrived(p, {"logout"})
    /\ active' = active \ LoggedOut(request[p].cookie)
    /\ Answer(p, "ok", None)
    /\ UNCHANGED <<current, expired, browser, begun, history>>

(* requireAuth: the token is valid and its session active. *)
ServeMe(p) ==
    LET presented == request[p].token
        valid == presented # None /\ presented \notin expired /\ presented.session \in active
    IN  /\ Arrived(p, {"me"})
        /\ Answer(p, IF valid THEN "ok" ELSE "denied", None)
        /\ UNCHANGED <<server, browser, begun, history>>

(* The user revokes the session on another device. *)
RevokeElsewhere(s) ==
    /\ s \in active
    /\ active' = active \ {s}
    /\ UNCHANGED <<client, current, expired, browser, request, begun, history>>

ExpireToken(t) ==
    /\ token[t] # None /\ token[t].session \in active
    /\ expired' = expired \cup {token[t]}
    /\ expired' # expired
    /\ UNCHANGED <<client, current, active, browser, request, begun, history>>

-------------------------------------------------------------------------------
(* The continuations in the browser. *)
Answered(p, ops, answer) ==
    /\ request[p].step = "answered"
    /\ request[p].op \in ops
    /\ request[p].answer = answer
    /\ UNCHANGED client

(* The network fails before the request is served, or before its answer is *)
(* read: the promise rejects, and the cookie stays as it is.               *)
Lost(p, ops) ==
    /\ request[p].step \in {"sent", "answered"}
    /\ request[p].op \in ops
    /\ UNCHANGED client

LostRefresh(p) ==
    IF request[p].op \in Refreshes /\ request[p].answer = "ok" THEN {"lost refresh"} ELSE {}

Settle(p) == request' = [request EXCEPT ![p] = Idle]

(* The operations whose 401 is taken for an expired token.  The web client *)
(* excepts /auth/refresh alone.                                            *)
Retried == IF client = "sdk" THEN {"me"} ELSE {"login", "me"}

(* The sign-ins of these calls are over. *)
ForgetPasswords(calls) ==
    /\ counted' = [c \in Calls |-> IF c \in calls THEN 0 ELSE counted[c]]
    /\ renewed' = [c \in Calls |-> IF c \in calls THEN 0 ELSE renewed[c]]

(* login of the providers: store the token, then loadProfile. *)
LoginOk(c) ==
    LET t == request[c].tab
    IN  /\ Answered(c, {"login"}, "ok")
        /\ cookie' = request[c].pair
        /\ token' = [token EXCEPT ![t] = request[c].pair]
        /\ request' = [request EXCEPT ![c] = Fetch(t, "me", FALSE, token'[t], cookie')]
        /\ races' = races \cup Meets(t, "me", InFlight \ {c})
        /\ signedOut' = {}
        /\ ForgetPasswords({c})
        /\ UNCHANGED <<server, status, begun, burned, mishaps>>

(* login() and refresh() throw and change nothing. *)
Throw(c) ==
    /\ \/ Answered(c, {"refresh"}, "denied")
       \/ Answered(c, {"login"}, "denied") /\ ("login" \in Retried => request[c].retried)
       \/ Lost(c, {"login", "refresh"})
    /\ mishaps' = mishaps \cup LostRefresh(c)
    /\ ForgetPasswords({c})
    /\ Settle(c)
    /\ UNCHANGED <<server, browser, begun, signedOut, burned, races>>

(* AuthKit.refresh, called by the application. *)
RefreshOk(c) ==
    /\ Answered(c, {"refresh"}, "ok")
    /\ cookie' = request[c].pair
    /\ token' = [token EXCEPT ![request[c].tab] = request[c].pair]
    /\ Settle(c)
    /\ UNCHANGED <<server, status, begun, history>>

ForgetToken(t) == [token EXCEPT ![t] = None]

(* AuthKit.logout forgets the token, and the provider changes the status. *)
LogoutOk(c) ==
    LET t == request[c].tab
        session == IF cookie = None THEN None ELSE cookie.session
    IN  /\ Answered(c, {"logout"}, "ok")
        /\ token' = ForgetToken(t)
        /\ cookie' = None
        /\ status' = [status EXCEPT ![t] = "unauthenticated"]
        /\ signedOut' = IF session \in LoggedOut(request[c].cookie) \cup {None}
                        THEN signedOut \cup {t} ELSE signedOut
        /\ Settle(c)
        /\ UNCHANGED <<server, begun, burned, races, mishaps, passwords>>

(* logout throws, and the status stays: the SDK forgets the token, the web *)
(* client keeps it.                                                        *)
TokenAfterFailedLogout(t) == IF client = "sdk" THEN ForgetToken(t) ELSE token

LogoutFails(c) ==
    /\ Lost(c, {"logout"})
    /\ token' = TokenAfterFailedLogout(request[c].tab)
    /\ mishaps' = mishaps \cup {"lost logout"}
    /\ Settle(c)
    /\ UNCHANGED <<server, cookie, status, begun, signedOut, burned, races, passwords>>

(* loadProfile *)
ProfileOk(c) ==
    /\ Answered(c, {"me"}, "ok")
    /\ status' = [status EXCEPT ![request[c].tab] = "authenticated"]
    /\ Settle(c)
    /\ UNCHANGED <<server, cookie, token, begun, history>>

(* Mutant: loadProfile keeps the status when it fails. *)
FailedStatusKept(failed) == status

(* The SDK's provider forgets the user when loadProfile fails; the web     *)
(* client's only stops initializing.                                       *)
FailedStatus(failed) ==
    [t \in Tabs |-> IF /\ \E c \in failed : request[c].tab = t /\ request[c].op = "me"
                       /\ client = "sdk" \/ status[t] = "loading"
                   THEN "unauthenticated" ELSE status[t]]

(* A call is retried once, and not after a network error. *)
ProfileFails(c) ==
    /\ Lost(c, {"me"}) \/ (Answered(c, {"me"}, "denied") /\ request[c].retried)
    /\ status' = FailedStatus({c})
    /\ Settle(c)
    /\ UNCHANGED <<server, cookie, token, begun, history>>

(* Mutant: each call refreshes on its own. *)
RefreshOnceAlone(c) ==
    LET t == request[c].tab
        q == IF request[t] = Idle THEN t ELSE c
    IN  /\ request' = IF q = t
                      THEN [request EXCEPT ![c].step = "waiting", ![c].answer = "none",
                                           ![t] = Fetch(t, "tryRefresh", FALSE, token[t], cookie)]
                      ELSE [request EXCEPT ![c] = Fetch(t, "tryRefresh", FALSE, token[t], cookie)]
        /\ races' = races

(* refreshOnce: the calls of a tab share one refresh. *)
RefreshOnce(c) ==
    LET t == request[c].tab
        waits == [request EXCEPT ![c].step = "waiting", ![c].answer = "none"]
    IN  IF request[t] = Idle
        THEN /\ request' = [waits EXCEPT ![t] = Fetch(t, "tryRefresh", FALSE, token[t], cookie)]
             /\ races' = races \cup Meets(t, "tryRefresh", InFlight \ {c})
        ELSE request' = waits /\ UNCHANGED races

(* A call that was not retried yet waits for a refresh. *)
Denied(c) ==
    /\ Answered(c, Retried, "denied")
    /\ ~request[c].retried
    /\ UNCHANGED browser
    /\ RefreshOnce(c)
    /\ UNCHANGED <<server, begun, signedOut, burned, mishaps, passwords>>

Waiters(t) == {c \in Calls : request[c].step = "waiting" /\ request[c].tab = t}

(* refreshPromise settles: it is cleared and every call goes on. *)
Resumed(t) == Waiters(t)

(* Mutant: the request that is sent again is not marked as a retry. *)
ReplayUnmarked(t, op, bearer, jar) == Fetch(t, op, FALSE, bearer, jar)

(* The request goes out again, for the last time. *)
Replay(t, op, bearer, jar) == Fetch(t, op, TRUE, bearer, jar)

TryRefreshOk(t) ==
    /\ Answered(t, {"tryRefresh"}, "ok")
    /\ cookie' = request[t].pair
    /\ token' = [token EXCEPT ![t] = request[t].pair]
    /\ request' = [p \in Processes |-> IF p = t THEN Idle
                                       ELSE IF p \in Resumed(t)
                                       THEN Replay(t, request[p].op, token'[t], cookie')
                                       ELSE request[p]]
    /\ renewed' = [c \in Calls |-> IF c \in Resumed(t) /\ request[c].op = "login"
                                    THEN renewed[c] + 1 ELSE renewed[c]]
    /\ UNCHANGED <<server, status, begun, signedOut, burned, races, mishaps, counted>>

(* The web client drops the token and shows, or is about to show, the user.*)
KeptUser(t) ==
    IF /\ client = "web"
       /\ \/ status'[t] = "authenticated"
          \/ \E c \in Calls \ Waiters(t) : request[c].tab = t /\ request[c].op = "me"
    THEN {"kept user"} ELSE {}

(* Mutant: tryRefresh sends its request with auth, and awaits itself. *)
TryRefreshFailsWaiting(t) ==
    /\ Answered(t, {"tryRefresh"}, "denied") \/ Lost(t, {"tryRefresh"})
    /\ mishaps' = mishaps \cup LostRefresh(t)
    /\ request' = [request EXCEPT ![t].step = "waiting", ![t].answer = "none"]
    /\ UNCHANGED <<server, browser, begun, signedOut, burned, races, passwords>>

TryRefreshFails(t) ==
    /\ Answered(t, {"tryRefresh"}, "denied") \/ Lost(t, {"tryRefresh"})
    /\ token' = ForgetToken(t)
    /\ status' = FailedStatus(Resumed(t))
    /\ mishaps' = mishaps \cup LostRefresh(t) \cup KeptUser(t)
    /\ request' = [p \in Processes |-> IF p = t \/ p \in Resumed(t) THEN Idle ELSE request[p]]
    /\ ForgetPasswords(Resumed(t))
    /\ UNCHANGED <<server, cookie, begun, signedOut, burned, races>>

-------------------------------------------------------------------------------
Serve(p) ==
    \/ RefuseLogin(p) \/ \E s \in Sessions : ServeLogin(p, s)
    \/ ServeRefresh(p) \/ ServeLogout(p) \/ ServeMe(p)

Deliver(p) ==
    \/ /\ p \in Calls
       /\ \/ LoginOk(p) \/ Throw(p) \/ RefreshOk(p) \/ LogoutOk(p) \/ LogoutFails(p)
          \/ ProfileOk(p) \/ ProfileFails(p) \/ Denied(p)
    \/ p \in Tabs /\ (TryRefreshOk(p) \/ TryRefreshFails(p))

Next ==
    \/ \E c \in Calls, t \in Tabs, op \in Called : Begin(c, t, op)
    \/ \E p \in Processes : Serve(p) \/ Deliver(p)
    \/ \E s \in Sessions : RevokeElsewhere(s)
    \/ \E t \in Tabs : ExpireToken(t)

Spec == Init /\ [][Next]_vars

-------------------------------------------------------------------------------
(* Properties. *)
Raced(t, ops) == [tab |-> t, ops |-> ops] \in races

(* apiClient.ts, and refreshOnce of the SDK: "Concurrent 401s share one    *)
(* refresh call".  The reuse detection never ends the session of an honest *)
(* browser, unless the answer to a refresh was lost, two tabs refreshed at *)
(* once, or the application called refresh() during another refresh.       *)
NoSelfInflictedReuse ==
    burned => \/ "lost refresh" \in mishaps
              \/ \E ops \in {{"refresh"}, {"tryRefresh"}, Refreshes} : Raced(None, ops)

(* A sign-in overlapped a refresh or a logout: whichever answer comes last *)
(* decides which session the browser is left with.                         *)
LoginRaced == \E race \in races : "login" \in race.ops

(* README.md of the SDK: logout() is to "Revoke the session" and "clear    *)
(* the token".  Whatever refresh was under way, the cookie that is left,   *)
(* or that a late answer puts back, belongs to a dead session until        *)
(* someone signs in; and the token stays cleared, unless the answer to a   *)
(* refresh of the tab comes after the logout.                              *)
LogoutEndsUnlessRaced ==
    LoginRaced \/
    (/\ signedOut # {} => cookie = None \/ cookie.session \notin active
     /\ \A t \in signedOut : \/ token[t] = None
                             \/ Raced(t, {"logout", "tryRefresh"})
                             \/ Raced(t, {"logout", "refresh"}))

(* A tab that shows the user as signed in holds a token, unless two        *)
(* profiles were loaded at once, or logout failed or overlapped a profile, *)
(* or the web client kept its user when a refresh failed.                  *)
StatusHonest ==
    \A t \in Tabs :
        \/ status[t] # "authenticated"
        \/ token[t] # None
        \/ Raced(t, {"me"}) \/ Raced(t, {"me", "logout"}) \/ "lost logout" \in mishaps
        \/ "kept user" \in mishaps

(* A wrong password that was typed once counts once against the lockout,   *)
(* and once more only after a refresh that succeeded while its sign-in     *)
(* waited: the web client takes the 401 of /auth/login for an expired      *)
(* token.  It does so once, and the SDK never does.                        *)
WrongPasswordCountsOnceUnlessRefreshed ==
    \A c \in Calls :
        /\ counted[c] <= 1 + renewed[c]
        /\ renewed[c] <= IF client = "sdk" THEN 0 ELSE 1

(* No call waits for ever: what it waits for is the one refresh of its     *)
(* tab, which is on the wire and waits for nobody.  The state is well      *)
(* typed.                                                                  *)
NobodyWaitsInVain ==
    TypeOK /\ \A c \in Calls : request[c].step = "waiting" =>
        request[request[c].tab].op = "tryRefresh" /\ request[request[c].tab].step # "waiting"
===============================================================================
