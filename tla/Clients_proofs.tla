----------------------------- MODULE Clients_proofs -----------------------------
(***************************************************************************)
(* The clients: every property of their sessions, of Spec, and of their    *)
(* cards, of TabSpec, for any tabs, calls, sessions, users, items, changes *)
(* and bounds.                                                             *)
(***************************************************************************)
EXTENDS ClientSession, Push, FiniteSetTheorems, TLAPS

-------------------------------------------------------------------------------
(* The inductive invariant, part by part. *)

(* Every pair a browser or a request holds was issued by the server, which *)
(* has rotated it since or not.                                            *)
Tokens == [session : Sessions, generation : Nat]
Issued(x, now) == x \in Tokens /\ 1 <= x.generation /\ x.generation <= now[x.session]
Held(x, now) == x = None \/ Issued(x, now)

Steps == {"idle", "sent", "answered", "waiting"}
Statuses == {"loading", "authenticated", "unauthenticated"}
Jobs == [op : Ops \cup {"none"}, step : Steps, tab : Tabs \cup {None},
         cookie : Tokens \cup {None}, token : Tokens \cup {None}, retried : BOOLEAN,
         answer : {"none", "ok", "denied"}, pair : Tokens \cup {None}]

ServerTyped ==
    /\ client \in {"sdk", "web"}
    /\ current \in [Sessions -> Nat]
    /\ active \subseteq Sessions
    /\ \A s \in active : 1 <= current[s]
    /\ \A x \in expired : Issued(x, current)

BrowserTyped ==
    /\ Held(cookie, current)
    /\ token \in [Tabs -> Tokens \cup {None}]
    /\ \A t \in Tabs : Held(token[t], current)
    /\ status \in [Tabs -> Statuses]
    /\ begun \in Nat /\ begun <= MaxCalls[client]
    /\ signedOut \subseteq Tabs

(* What process p may be doing, and what it carries at each step of it. *)
Sound(p, r, now) ==
    /\ r.step = "idle" <=> r = Idle
    /\ r.op = "none" <=> r = Idle
    /\ r.tab = None <=> r = Idle
    /\ r.step = "answered" <=> r.answer # "none"
    /\ r.retried \/ r.step = "waiting" => r.op \in {"login", "me"}
    /\ ~(r.retried /\ r.step = "waiting")
    /\ Held(r.cookie, now) /\ Held(r.token, now) /\ Held(r.pair, now)
    /\ r.pair # None <=> r.op \in Refreshes \cup {"login"} /\ r.answer = "ok"
    /\ r.cookie # None => r.op = "logout" \/ (r.op \in Refreshes /\ r.step = "sent")
    /\ r.token # None => r.op = "me" /\ r.step = "sent"
    /\ p \in Calls => r.op # "tryRefresh"
    /\ p \in Tabs => r = Idle \/ (r.op = "tryRefresh" /\ r.tab = p /\ r.step # "waiting")

RequestsTyped ==
    /\ request \in [Processes -> Jobs]
    /\ \A p \in Processes : Sound(p, request[p], current)

(* refreshPromise is shared by those that wait, and by nobody else. *)
RefreshesAwaited ==
    /\ \A c \in Calls : request[c].step = "waiting" => request[request[c].tab] # Idle
    /\ \A t \in Tabs : request[t] # Idle => Waiters(t) # {}

Typed == ServerTyped /\ BrowserTyped /\ RequestsTyped /\ RefreshesAwaited

(* Operations that are in flight together have been noted as a race. *)
RefreshRaced == \E ops \in {{"refresh"}, {"tryRefresh"}, Refreshes} : Raced(None, ops)

Flying(p, ops) == request[p].op \in ops

Noted(p, q) ==
    /\ request[p].tab = request[q].tab =>
          /\ Flying(p, {"me"}) /\ Flying(q, {"me"}) => Raced(request[q].tab, {"me"})
          /\ Flying(p, {"me"}) /\ Flying(q, {"logout"}) => Raced(request[q].tab, {"me", "logout"})
          /\ Flying(p, {"logout"}) /\ Flying(q, {"refresh"}) =>
                Raced(request[q].tab, {"logout", "refresh"})
          /\ Flying(p, {"logout"}) /\ Flying(q, {"tryRefresh"}) =>
                Raced(request[q].tab, {"logout", "tryRefresh"})
    /\ Flying(p, Refreshes) /\ Flying(q, Refreshes) => RefreshRaced
    /\ Flying(p, {"login"}) /\ Flying(q, Refreshes \cup {"logout"}) =>
          LoginRaced \/ (request[p].step = "waiting" /\ request[p].tab = q)

OverlapsNoted == \A p, q \in Processes : p # q => Noted(p, q)

(* Without a lost answer or two refreshes at once, every refresh token     *)
(* that may still be presented is current, or its session is dead.         *)
Fresh(x, live, now) == x # None => x.session \notin live \/ x.generation = now[x.session]
Orderly == "lost refresh" \notin mishaps /\ ~RefreshRaced

Replaces(r) ==
    /\ request[r].op \in Refreshes /\ request[r].pair # None
    /\ cookie # None /\ request[r].pair.session = cookie.session
CookieFresh == Fresh(cookie, active, current) \/ \E r \in Processes : Replaces(r)

AllFresh ==
    /\ ~burned /\ CookieFresh
    /\ \A p \in Processes :
          /\ Fresh(request[p].pair, active, current)
          /\ request[p].op \in Refreshes => Fresh(request[p].cookie, active, current)

TokensFresh == Orderly => AllFresh

(* A session that was opened and not yet announced is nobody else's. *)
Of(x, s) == x # None /\ x.session = s
Bears(r, s) == Of(r.cookie, s) \/ Of(r.pair, s)
Announces(r) == r.op = "login" /\ r.pair # None

LoginsApart ==
    \A q \in Processes : Announces(request[q]) =>
        /\ ~Of(cookie, request[q].pair.session)
        /\ \A p \in Processes \ {q} : ~Bears(request[p], request[q].pair.session)

(* Unless a login raced, one session is afoot; and once a logout is        *)
(* answered, or there is no cookie, it is dead.                            *)
Moving(r) == r.op \in Refreshes \cup {"logout"}
Afoot(s) == Of(cookie, s) \/ \E r \in Processes : Moving(request[r]) /\ Bears(request[r], s)
OneSession == \A s, u \in Sessions : Afoot(s) /\ Afoot(u) => s = u
AllDead == \A s \in Sessions : Afoot(s) => s \notin active

LoggingOut(r) == r.op = "logout" /\ (r.cookie = None \/ r.step = "answered")

Ending == cookie = None \/ signedOut # {} \/ \E c \in Processes : LoggingOut(request[c])

LogoutKills == OneSession /\ (Ending => AllDead)

StaysOut(t) ==
    \/ Raced(t, {"logout", "tryRefresh"}) \/ Raced(t, {"logout", "refresh"})
    \/ /\ token[t] = None
       /\ \A r \in Processes :
             request[r].op \in Refreshes /\ request[r].tab = t => request[r].pair = None

LogoutsEnd == LoginRaced \/ (LogoutKills /\ \A t \in signedOut : StaysOut(t))

(* A tab without a token shows nobody, and no profile will say otherwise. *)
ShowsNobody(t) ==
    /\ status[t] # "authenticated"
    /\ \A c \in Processes : request[c].op = "me" /\ request[c].tab = t =>
          request[c].token = None /\ request[c].answer # "ok"

Excused(t) ==
    \/ Raced(t, {"me"}) \/ Raced(t, {"me", "logout"})
    \/ "lost logout" \in mishaps \/ "kept user" \in mishaps

UserShown == \A t \in Tabs : ~Excused(t) /\ token[t] = None => ShowsNobody(t)

(* What a sign-in that is here has cost the user: the refreshes before the *)
(* last time it was sent, and the refusals before its answer comes.        *)
Renewals(r) == IF r.op = "login" /\ r.retried THEN 1 ELSE 0
Refusals(r) ==
    IF r.op = "login" /\ (r.step = "waiting" \/ r.answer = "denied")
    THEN Renewals(r) + 1 ELSE Renewals(r)

PasswordsCounted ==
    /\ counted \in [Calls -> Nat] /\ renewed \in [Calls -> Nat]
    /\ \A c \in Calls : /\ counted[c] = Refusals(request[c])
                        /\ renewed[c] = Renewals(request[c])

RetriesProfiles ==
    client = "sdk" => \A c \in Calls : request[c].retried \/ request[c].step = "waiting" =>
                            request[c].op = "me"

(* How many refreshes the calls under way may still have served. *)
Spent(c) == \/ request[c].retried
            \/ request[c].step = "waiting" /\ request[request[c].tab].step # "sent"
OwnToCome == {c \in Calls : \/ request[c].op = "refresh" /\ request[c].step = "sent"
                            \/ client = "web" /\ request[c].op = "login" /\ ~Spent(c)}
ProfilesToCome == {c \in Calls : \/ request[c].op = "login"
                                 \/ request[c].op = "me" /\ ~Spent(c)}
ToCome == Cardinality(OwnToCome) + Cardinality(ProfilesToCome)
Budget == IF client = "sdk" THEN begun ELSE 2 * begun
RefreshesCounted ==
    /\ ToCome <= Budget
    /\ \A s \in Sessions : current[s] + ToCome <= Budget + 1

Inv == /\ Typed /\ OverlapsNoted /\ TokensFresh /\ LoginsApart /\ LogoutsEnd /\ UserShown
       /\ RetriesProfiles /\ PasswordsCounted /\ RefreshesCounted

-------------------------------------------------------------------------------
(* What the steps of a request do to its record. *)

(* A request that has been sent. *)
Sent(r, t, op, bearer, jar) ==
    /\ r \in Jobs /\ r # Idle
    /\ r.op = op /\ r.step = "sent" /\ r.tab = t /\ r.answer = "none" /\ r.pair = None
    /\ op = "me" => r.token = bearer
    /\ op # "me" => r.token = None
    /\ op \in {"me", "login"} => r.cookie = None
    /\ op \notin {"me", "login"} => r.cookie = jar

(* A request that is served. *)
LEMMA AnswerIs ==
    ASSUME request \in [Processes -> Jobs], NEW p \in Processes,
           NEW answer \in {"ok", "denied"}, NEW pair \in Tokens \cup {None},
           Answer(p, answer, pair)
    PROVE  /\ request' \in [Processes -> Jobs]
           /\ \A q \in Processes \ {p} : request'[q] = request[q]
           /\ request'[p].op = request[p].op
           /\ request'[p].step = "answered"
           /\ request'[p].tab = request[p].tab
           /\ request'[p].retried = request[p].retried
           /\ request'[p].answer = answer
           /\ request'[p].pair = pair
           /\ request'[p].token = None
           /\ request'[p].cookie = IF request[p].op = "logout" THEN request[p].cookie ELSE None
  <1> DEFINE ck == IF request[p].op = "logout" THEN request[p].cookie ELSE None
  <1>1. PICK r : r = [request[p] EXCEPT !.step = "answered", !.answer = answer, !.pair = pair,
                                        !.token = None, !.cookie = ck]
    OBVIOUS
  <1>2. request' = [request EXCEPT ![p] = r]
    BY <1>1, Zenon DEF Answer
  <1>3. request[p] \in Jobs /\ ck \in Tokens \cup {None}
    BY DEF Jobs
  <1>4. /\ r \in Jobs
        /\ r.op = request[p].op /\ r.step = "answered" /\ r.tab = request[p].tab
        /\ r.retried = request[p].retried /\ r.answer = answer /\ r.pair = pair
        /\ r.token = None /\ r.cookie = ck
    <2> HIDE DEF ck
    <2> QED BY <1>1, <1>3 DEF Jobs, Steps
  <1> QED
    BY <1>2, <1>4

-------------------------------------------------------------------------------
(* Requests stay what they may be. *)

(* Generations only grow. *)
Grown(now, next) ==
    /\ now \in [Sessions -> Nat] /\ next \in [Sessions -> Nat]
    /\ \A s \in Sessions : now[s] <= next[s]

(* What was issued stays issued. *)
LEMMA HeldGoesOn ==
    ASSUME NEW x, NEW now, NEW next, Grown(now, next)
    PROVE  /\ Issued(x, now) => Issued(x, next)
           /\ Held(x, now) => Held(x, next)
  <1>1. ASSUME Issued(x, now) PROVE Issued(x, next)
    <2>1. x.session \in Sessions /\ x.generation \in Nat
      BY <1>1 DEF Issued, Tokens
    <2>2. now[x.session] \in Nat /\ next[x.session] \in Nat /\ now[x.session] <= next[x.session]
      BY <2>1 DEF Grown
    <2> QED
      BY <1>1, <2>1, <2>2 DEF Issued
  <1> QED
    BY <1>1 DEF Held

(* A request that does nothing. *)
LEMMA SoundGoesOn ==
    ASSUME NEW p, NEW r, NEW now, NEW next, Grown(now, next), Sound(p, r, now)
    PROVE  Sound(p, r, next)
  BY HeldGoesOn DEF Sound

(* A process without a request. *)
LEMMA IdleIs ==
    /\ Idle \in Jobs
    /\ Idle.op = "none" /\ Idle.step = "idle" /\ Idle.tab = None /\ Idle.cookie = None
    /\ Idle.token = None /\ Idle.retried = FALSE /\ Idle.answer = "none" /\ Idle.pair = None
  BY DEF Idle, Jobs, Steps

(* A request that is over. *)
LEMMA SoundIdle ==
    ASSUME NEW p, NEW now
    PROVE  Sound(p, Idle, now)
  BY IdleIs DEF Sound, Held, Refreshes

(* A request that is sent. *)
LEMMA SoundSent ==
    ASSUME NEW p, NEW t \in Tabs, NEW op \in Ops, NEW now, NEW bearer, NEW jar,
           Held(jar, now), Held(bearer, now),
           NEW r, Sent(r, t, op, bearer, jar), r.retried => op \in {"login", "me"},
           p \in Calls => op # "tryRefresh",
           p \in Tabs => op = "tryRefresh" /\ t = p
    PROVE  Sound(p, r, now)
  <1>1. t # None /\ Held(None, now)
    BY Apart DEF Held
  <1> QED
    BY <1>1 DEF Sent, Sound, Ops, Refreshes

(* A request that is served. *)
LEMMA SoundAnswer ==
    ASSUME NEW p, NEW r \in Jobs, NEW q \in Jobs, NEW now, Sound(p, r, now),
           r.step = "sent",
           q.op = r.op, q.step = "answered", q.tab = r.tab, q.retried = r.retried,
           q.answer \in {"ok", "denied"}, q.token = None,
           q.cookie = IF r.op = "logout" THEN r.cookie ELSE None,
           Held(q.pair, now),
           q.pair # None <=> r.op \in Refreshes \cup {"login"} /\ q.answer = "ok"
    PROVE  Sound(p, q, now)
  <1>1. r # Idle /\ q # Idle
    BY IdleIs
  <1>2. Held(None, now)
    BY DEF Held
  <1> QED
    BY <1>1, <1>2 DEF Sound

(* A request that waits. *)
LEMMA SoundWait ==
    ASSUME NEW p \in Calls, NEW r \in Jobs, NEW q \in Jobs, NEW now, Sound(p, r, now),
           r.step = "answered", r.answer = "denied", r.op \in {"login", "me"}, ~r.retried,
           q.op = r.op, q.step = "waiting", q.tab = r.tab, q.retried = r.retried,
           q.answer = "none", q.token = r.token, q.cookie = r.cookie, q.pair = r.pair
    PROVE  Sound(p, q, now)
  <1>1. r # Idle /\ q # Idle
    BY IdleIs
  <1>2. p \notin Tabs
    BY Apart
  <1> QED
    BY <1>1, <1>2 DEF Sound, Refreshes
-------------------------------------------------------------------------------
(* The state stays well typed: the steps of requests. *)

(* Generations that do not change have grown. *)
LEMMA GrownSame == Typed /\ UNCHANGED current => Grown(current, current')
  BY DEF Typed, ServerTyped, Grown

(* Those that wait still wait, for what they waited for. *)
LEMMA AwaitedGoesOn ==
    ASSUME Typed,
           \A d \in Calls : request'[d].step = "waiting" <=> request[d].step = "waiting",
           \A d \in Calls : request[d].step = "waiting" => request'[d].tab = request[d].tab,
           \A t \in Tabs : request'[t] = Idle <=> request[t] = Idle
    PROVE  RefreshesAwaited'
  <1>1. RefreshesAwaited
    BY DEF Typed
  <1>2. ASSUME NEW d \in Calls, request[d].step = "waiting" PROVE request[d].tab \in Tabs
    <2>1. request[d] \in Jobs /\ Sound(d, request[d], current) /\ request[d] # Idle
      BY <1>2, IdleIs DEF Typed, RequestsTyped, Processes
    <2> QED
      BY <2>1 DEF Sound, Jobs
  <1>3. ASSUME NEW d \in Calls, request'[d].step = "waiting"
        PROVE  request'[request'[d].tab] # Idle
    BY <1>1, <1>2, <1>3 DEF RefreshesAwaited
  <1>4. ASSUME NEW t \in Tabs, request'[t] # Idle PROVE Waiters(t)' # {}
    <2>1. PICK d \in Calls : request[d].step = "waiting" /\ request[d].tab = t
      BY <1>1, <1>4 DEF RefreshesAwaited, Waiters
    <2> QED
      BY <2>1 DEF Waiters
  <1> QED
    BY <1>3, <1>4 DEF RefreshesAwaited

(* The server answers. *)
LEMMA AnswersAreTyped ==
    ASSUME Typed, NEW p \in Processes, request[p].step = "sent",
           NEW answer \in {"ok", "denied"}, NEW pair \in Tokens \cup {None},
           Answer(p, answer, pair), Grown(current, current'), Held(pair, current'),
           pair # None <=> request[p].op \in Refreshes \cup {"login"} /\ answer = "ok"
    PROVE  RequestsTyped' /\ RefreshesAwaited'
  <1>1. /\ request \in [Processes -> Jobs] /\ \A q \in Processes : Sound(q, request[q], current)
        /\ RefreshesAwaited
    BY DEF Typed, RequestsTyped
  <1>2. /\ request' \in [Processes -> Jobs]
        /\ \A q \in Processes \ {p} : request'[q] = request[q]
        /\ request'[p].op = request[p].op /\ request'[p].step = "answered"
        /\ request'[p].tab = request[p].tab /\ request'[p].retried = request[p].retried
        /\ request'[p].answer = answer /\ request'[p].pair = pair /\ request'[p].token = None
        /\ request'[p].cookie = IF request[p].op = "logout" THEN request[p].cookie ELSE None
    BY <1>1, AnswerIs
  <1>3. Sound(p, request'[p], current')
    <2>1. Sound(p, request[p], current')
      BY <1>1, SoundGoesOn
    <2>2. request[p] \in Jobs /\ request'[p] \in Jobs
      BY <1>1, <1>2
    <2> QED
      BY <1>2, <2>1, <2>2, SoundAnswer
  <1>4. ASSUME NEW q \in Processes PROVE Sound(q, request'[q], current')
    BY <1>1, <1>2, <1>3, SoundGoesOn
  <1>5. request[p] # Idle /\ request'[p] # Idle
    BY <1>2, IdleIs
  <1>6. RefreshesAwaited'
    BY <1>2, <1>5, AwaitedGoesOn DEF Processes
  <1> QED
    BY <1>2, <1>4, <1>6 DEF RequestsTyped

(* A call is over that nobody waits for. *)
LEMMA SettlesAreTyped ==
    ASSUME Typed, NEW c \in Calls, request[c].step \in {"sent", "answered"}, Settle(c),
           Grown(current, current')
    PROVE  RequestsTyped' /\ RefreshesAwaited'
  <1>1. /\ request \in [Processes -> Jobs] /\ \A q \in Processes : Sound(q, request[q], current)
        /\ RefreshesAwaited /\ c \in Processes /\ c \notin Tabs
    BY Apart DEF Typed, RequestsTyped, Processes
  <1>2. /\ request' \in [Processes -> Jobs]
        /\ \A q \in Processes \ {c} : request'[q] = request[q]
        /\ request'[c] = Idle
    BY <1>1, IdleIs DEF Settle
  <1>3. ASSUME NEW q \in Processes PROVE Sound(q, request'[q], current')
    BY <1>1, <1>2, SoundGoesOn, SoundIdle
  <1>4. RefreshesAwaited'
    BY <1>1, <1>2, IdleIs, AwaitedGoesOn DEF Processes
  <1> QED
    BY <1>2, <1>3, <1>4 DEF RequestsTyped

(* A call of a tab starts, or goes on with its profile. *)
LEMMA StartsAreTyped ==
    ASSUME Typed, NEW c \in Calls, NEW t \in Tabs, NEW op \in {"login", "logout", "me", "refresh"},
           request[c].step # "waiting",
           NEW bearer \in Tokens \cup {None}, NEW jar \in Tokens \cup {None},
           Held(bearer, current'), Held(jar, current'), Grown(current, current'),
           request' = [request EXCEPT ![c] = Fetch(t, op, FALSE, bearer, jar)]
    PROVE  RequestsTyped' /\ RefreshesAwaited'
  <1>1. /\ request \in [Processes -> Jobs] /\ \A q \in Processes : Sound(q, request[q], current)
        /\ RefreshesAwaited /\ c \in Processes /\ c \notin Tabs
    BY Apart DEF Typed, RequestsTyped, Processes
  <1>2. PICK r : r = Fetch(t, op, FALSE, bearer, jar)
    OBVIOUS
  <1>3. r \in Jobs /\ Sound(c, r, current') /\ r.step = "sent"
    <2>1. op \in Ops /\ op # "tryRefresh"
      BY DEF Ops
    <2>2. Sent(r, t, op, bearer, jar) /\ r.retried = FALSE
      BY <1>2, <2>1 DEF Sent, Fetch, Idle, Jobs, Ops, Steps
    <2>3. Sound(c, r, current')
      BY <1>1, <2>1, <2>2, SoundSent
    <2> QED
      BY <2>2, <2>3 DEF Sent
  <1>4. /\ request' \in [Processes -> Jobs]
        /\ \A q \in Processes \ {c} : request'[q] = request[q]
        /\ request'[c] = r
    BY <1>1, <1>2, <1>3
  <1>5. ASSUME NEW q \in Processes PROVE Sound(q, request'[q], current')
    BY <1>1, <1>3, <1>4, SoundGoesOn
  <1>6. RefreshesAwaited'
    BY <1>1, <1>3, <1>4, AwaitedGoesOn DEF Processes
  <1> QED
    BY <1>4, <1>5, <1>6 DEF RequestsTyped
(* What a call waits for, and in which tab. *)
LEMMA InATab ==
    ASSUME Typed, NEW p \in Processes, request[p] # Idle
    PROVE  request[p].tab \in Tabs /\ request[p].op \in Ops
  <1>1. request[p] \in Jobs /\ Sound(p, request[p], current)
    BY DEF Typed, RequestsTyped
  <1> QED
    BY <1>1 DEF Sound, Jobs

(* A call that is denied waits, for the refresh that it starts or finds. *)
LEMMA DeniedMoves ==
    ASSUME Typed, NEW c \in Calls, Denied(c)
    PROVE  /\ request' \in [Processes -> Jobs]
           /\ c \in Processes /\ c \notin Tabs /\ request[c].tab \in Tabs
           /\ request[c].op \in {"login", "me"} /\ request'[c].op = request[c].op
           /\ client = "sdk" => request[c].op = "me"
           /\ request[c].step = "answered" /\ request[c].answer = "denied" /\ ~request[c].retried
           /\ request'[c].step = "waiting" /\ request'[c].answer = "none"
           /\ request'[c].tab = request[c].tab /\ request'[c].retried = request[c].retried
           /\ request'[c].pair = request[c].pair /\ request'[c].token = request[c].token
           /\ request'[c].cookie = request[c].cookie
           /\ \A q \in Processes \ {c, request[c].tab} : request'[q] = request[q]
           /\ request[request[c].tab] # Idle =>
                 request'[request[c].tab] = request[request[c].tab] /\ UNCHANGED races
           /\ request[request[c].tab] = Idle =>
                 /\ Sent(request'[request[c].tab], request[c].tab, "tryRefresh",
                         token[request[c].tab], cookie)
                 /\ request'[request[c].tab].retried = FALSE
                 /\ races' = races \cup Meets(request[c].tab, "tryRefresh", InFlight \ {c})
  <1> DEFINE t == request[c].tab
  <1>1. /\ request \in [Processes -> Jobs] /\ c \in Processes /\ c \notin Tabs
        /\ token \in [Tabs -> Tokens \cup {None}] /\ cookie \in Tokens \cup {None}
    BY Apart DEF Typed, RequestsTyped, BrowserTyped, Processes, Held, Issued
  <1>2. /\ request[c].step = "answered" /\ request[c].op \in Retried
        /\ request[c].answer = "denied" /\ ~request[c].retried
    BY DEF Denied, Answered
  <1>3. request[c].op \in {"login", "me"} /\ (client = "sdk" => request[c].op = "me")
    BY <1>2 DEF Retried
  <1>4. t \in Tabs /\ t # c /\ t \in Processes
    <2>1. request[c] # Idle
      BY <1>2, IdleIs
    <2> QED
      BY <1>1, <2>1, InATab DEF Processes
  <1>5. PICK waits : waits = [request EXCEPT ![c].step = "waiting", ![c].answer = "none"]
    OBVIOUS
  <1>6. /\ waits \in [Processes -> Jobs]
        /\ \A q \in Processes \ {c} : waits[q] = request[q]
        /\ waits[c].op = request[c].op /\ waits[c].step = "waiting" /\ waits[c].answer = "none"
        /\ waits[c].tab = request[c].tab /\ waits[c].retried = request[c].retried
        /\ waits[c].pair = request[c].pair /\ waits[c].token = request[c].token
        /\ waits[c].cookie = request[c].cookie
    BY <1>1, <1>5 DEF Jobs, Steps
  <1>7. PICK r : r = Fetch(t, "tryRefresh", FALSE, token[t], cookie)
    OBVIOUS
  <1>8. Sent(r, t, "tryRefresh", token[t], cookie) /\ r.retried = FALSE /\ r \in Jobs
    <2>1. token[t] \in Tokens \cup {None}
      BY <1>1, <1>4
    <2> QED
      BY <1>1, <1>4, <1>7, <2>1 DEF Sent, Fetch, Idle, Jobs, Ops, Steps
  <1>9. /\ request[t] = Idle => /\ request' = [waits EXCEPT ![t] = r]
                                /\ races' = races \cup Meets(t, "tryRefresh", InFlight \ {c})
        /\ request[t] # Idle => request' = waits /\ races' = races
    BY <1>5, <1>7, Zenon DEF Denied, RefreshOnce
  <1> QED
    BY <1>1, <1>2, <1>3, <1>4, <1>6, <1>8, <1>9

(* Those that waited go on. *)
LEMMA TryRefreshOkMoves ==
    ASSUME Typed, NEW t \in Tabs, TryRefreshOk(t)
    PROVE  /\ request' \in [Processes -> Jobs]
           /\ t \in Processes /\ t \notin Calls /\ request'[t] = Idle
           /\ request[t].pair \in Tokens /\ request[t].op = "tryRefresh"
           /\ request[t].answer = "ok" /\ request[t].step = "answered"
           /\ Held(request[t].pair, current) /\ cookie' = request[t].pair
           /\ token' = [token EXCEPT ![t] = request[t].pair]
           /\ \A p \in Waiters(t) :
                 /\ Sent(request'[p], t, request[p].op, request[t].pair, request[t].pair)
                 /\ request'[p].retried = TRUE
           /\ \A p \in Processes \ (Waiters(t) \cup {t}) : request'[p] = request[p]
  <1>1. /\ request \in [Processes -> Jobs] /\ t \in Processes /\ t \notin Calls
        /\ token \in [Tabs -> Tokens \cup {None}]
        /\ request[t] \in Jobs /\ Sound(t, request[t], current)
    BY Apart DEF Typed, RequestsTyped, BrowserTyped, Processes
  <1>2. /\ request[t].step = "answered" /\ request[t].op = "tryRefresh" /\ request[t].answer = "ok"
        /\ cookie' = request[t].pair
        /\ token' = [token EXCEPT ![t] = request[t].pair]
    BY DEF TryRefreshOk, Answered
  <1>3. Held(request[t].pair, current) /\ request[t].pair \in Tokens
    BY <1>1, <1>2 DEF Sound, Refreshes, Held, Issued
  <1>4. token'[t] \in Tokens \cup {None} /\ cookie' \in Tokens \cup {None}
    BY <1>1, <1>2, <1>3
  <1>5. request' = [p \in Processes |-> IF p = t THEN Idle
                        ELSE IF p \in Waiters(t) THEN
                               Fetch(t, request[p].op, TRUE, token'[t], cookie')
                        ELSE request[p]]
    BY DEF TryRefreshOk, Resumed, Replay
  <1>6. ASSUME NEW p \in Waiters(t)
        PROVE  /\ Sent(request'[p], t, request[p].op, request[t].pair, request[t].pair)
               /\ request'[p].retried = TRUE
    <2>1. p \in Calls /\ p \in Processes /\ request[p].step = "waiting"
      BY DEF Waiters, Processes
    <2>2. request[p] # Idle /\ p # t
      BY <1>1, <2>1, IdleIs
    <2>3. request[p].op \in Ops
      BY <2>1, <2>2, InATab
    <2>4. PICK r : r = Fetch(t, request[p].op, TRUE, token'[t], cookie')
      OBVIOUS
    <2>5. PICK x \in Tokens : x = request[t].pair /\ token'[t] = x /\ cookie' = x
      BY <1>1, <1>2, <1>3
    <2>6. Sent(r, t, request[p].op, x, x) /\ r.retried = TRUE
      BY <2>3, <2>4, <2>5 DEF Sent, Fetch, Idle, Jobs, Ops, Steps
    <2>7. request'[p] = r
      BY <1>5, <2>1, <2>2, <2>4
    <2> QED
      BY <2>5, <2>6, <2>7
  <1>7. Idle \in Jobs /\ Waiters(t) \subseteq Processes
    BY IdleIs DEF Waiters, Processes
  <1>8. request'[t] = Idle /\ \A p \in Processes \ (Waiters(t) \cup {t}) : request'[p] = request[p]
    BY <1>1, <1>5
  <1>9. ASSUME NEW p \in Processes PROVE request'[p] \in Jobs
    BY <1>1, <1>6, <1>7, <1>8 DEF Sent
  <1> QED
    BY <1>1, <1>2, <1>3, <1>5, <1>6, <1>8, <1>9

(* Those that waited give up. *)
LEMMA TryRefreshFailsMoves ==
    ASSUME Typed, NEW t \in Tabs, TryRefreshFails(t)
    PROVE  /\ request' \in [Processes -> Jobs]
           /\ t \in Processes /\ t \notin Calls /\ request'[t] = Idle
           /\ request[t].op = "tryRefresh" /\ request[t].step \in {"sent", "answered"}
           /\ \A p \in Waiters(t) : request'[p] = Idle
           /\ \A p \in Processes \ (Waiters(t) \cup {t}) : request'[p] = request[p]
  <1>1. request \in [Processes -> Jobs] /\ t \in Processes /\ t \notin Calls
    BY Apart DEF Typed, RequestsTyped, Processes
  <1>2. request[t].op = "tryRefresh" /\ request[t].step \in {"sent", "answered"}
    BY DEF TryRefreshFails, Answered, Lost
  <1>3. request' = [p \in Processes |-> IF p = t \/ p \in Waiters(t) THEN Idle ELSE request[p]]
    BY DEF TryRefreshFails, Resumed
  <1>4. Idle \in Jobs /\ Waiters(t) \subseteq Processes
    BY IdleIs DEF Waiters, Processes
  <1> QED
    BY <1>1, <1>2, <1>3, <1>4

(* A refresh goes out for a call that is denied. *)
LEMMA DeniedIsTyped ==
    ASSUME Typed, NEW c \in Calls, Denied(c), UNCHANGED current
    PROVE  RequestsTyped' /\ RefreshesAwaited'
  <1> DEFINE t == request[c].tab
  <1>1. /\ request \in [Processes -> Jobs] /\ RefreshesAwaited
        /\ \A q \in Processes : Sound(q, request[q], current)
        /\ token \in [Tabs -> Tokens \cup {None}]
        /\ Held(cookie, current) /\ \A u \in Tabs : Held(token[u], current)
    BY DEF Typed, RequestsTyped, BrowserTyped
  <1>2. /\ request' \in [Processes -> Jobs]
        /\ c \in Processes /\ c \notin Tabs /\ t \in Tabs /\ t \in Processes
        /\ request[c].op \in {"login", "me"} /\ request'[c].op = request[c].op
        /\ request[c].step = "answered" /\ request[c].answer = "denied" /\ ~request[c].retried
        /\ request'[c].step = "waiting" /\ request'[c].answer = "none"
        /\ request'[c].tab = request[c].tab /\ request'[c].retried = request[c].retried
        /\ request'[c].pair = request[c].pair /\ request'[c].token = request[c].token
        /\ request'[c].cookie = request[c].cookie
        /\ \A q \in Processes \ {c, t} : request'[q] = request[q]
    BY DeniedMoves DEF Processes
  <1>3. /\ request[t] # Idle => request'[t] = request[t]
        /\ request[t] = Idle => /\ Sent(request'[t], t, "tryRefresh", token[t], cookie)
                                /\ request'[t].retried = FALSE
    BY DeniedMoves
  <1>4. Sound(c, request'[c], current)
    BY <1>1, <1>2, SoundWait
  <1>5. Sound(t, request'[t], current) /\ request'[t] # Idle
    <2>1. CASE request[t] # Idle
      BY <1>1, <1>2, <1>3, <2>1
    <2>2. CASE request[t] = Idle
      <3>1. Held(cookie, current) /\ Held(token[t], current) /\ t \notin Calls
        BY <1>1, <1>2, Apart
      <3>2. "tryRefresh" \in Ops
        BY DEF Ops
      <3>3. Sound(t, request'[t], current)
        BY <1>2, <1>3, <2>2, <3>1, <3>2, SoundSent
      <3> QED
        BY <1>3, <2>2, <3>3 DEF Sent
    <2> QED
      BY <2>1, <2>2
  <1>6. ASSUME NEW q \in Processes PROVE Sound(q, request'[q], current')
    BY <1>1, <1>2, <1>4, <1>5
  <1>7. RefreshesAwaited'
    <2>1. ASSUME NEW d \in Calls, request'[d].step = "waiting"
          PROVE  request'[request'[d].tab] # Idle
      <3>1. CASE d = c
        BY <1>2, <1>5, <3>1
      <3>2. CASE d # c
        <4>1. request'[d] = request[d] /\ d \in Processes /\ request[d] # Idle
          BY <1>2, <2>1, <3>2, Apart, IdleIs DEF Processes
        <4>2. request[d].tab \in Tabs /\ request[request[d].tab] # Idle /\ request[d].tab # c
          BY <1>1, <1>2, <2>1, <4>1, InATab DEF RefreshesAwaited
        <4> QED
          BY <1>2, <1>5, <4>1, <4>2 DEF Processes
      <3> QED
        BY <3>1, <3>2
    <2>2. ASSUME NEW u \in Tabs, request'[u] # Idle PROVE Waiters(u)' # {}
      <3>1. CASE u = t
        BY <1>2, <3>1 DEF Waiters
      <3>2. CASE u # t
        <4>1. request'[u] = request[u]
          BY <1>2, <3>2 DEF Processes
        <4>2. PICK d \in Calls : request[d].step = "waiting" /\ request[d].tab = u
          BY <1>1, <2>2, <4>1 DEF RefreshesAwaited, Waiters
        <4>3. request'[d] = request[d]
          BY <1>2, <4>2, Apart DEF Processes
        <4> QED
          BY <4>2, <4>3 DEF Waiters
      <3> QED
        BY <3>1, <3>2
    <2> QED
      BY <2>1, <2>2 DEF RefreshesAwaited
  <1> QED
    BY <1>2, <1>6, <1>7 DEF RequestsTyped

(* The refresh of a tab is over. *)
LEMMA RefreshEndIsTyped ==
    ASSUME Typed, NEW t \in Tabs, Grown(current, current'), t \in Processes, t \notin Calls,
           request' \in [Processes -> Jobs], request'[t] = Idle,
           \A p \in Waiters(t) : Sound(p, request'[p], current') /\ request'[p].step # "waiting",
           \A p \in Processes \ (Waiters(t) \cup {t}) : request'[p] = request[p]
    PROVE  RequestsTyped' /\ RefreshesAwaited'
  <1>1. /\ request \in [Processes -> Jobs] /\ RefreshesAwaited
        /\ \A q \in Processes : Sound(q, request[q], current)
    BY DEF Typed, RequestsTyped
  <1>2. ASSUME NEW q \in Processes PROVE Sound(q, request'[q], current')
    BY <1>1, SoundGoesOn, SoundIdle
  <1>3. ASSUME NEW d \in Calls, request'[d].step = "waiting"
        PROVE  /\ request'[d] = request[d] /\ request[d].tab \in Tabs /\ request[d].tab # t
               /\ request[request[d].tab] # Idle
    <2>1. d \notin Waiters(t) /\ d \in Processes /\ d # t
      BY <1>3 DEF Processes
    <2>2. request'[d] = request[d] /\ request[d] # Idle
      BY <1>3, <2>1, IdleIs
    <2> QED
      BY <1>1, <1>3, <2>1, <2>2, InATab DEF Waiters, RefreshesAwaited
  <1>4. \A u \in Tabs : u # t => request'[u] = request[u]
    BY Apart DEF Waiters, Processes
  <1>5. ASSUME NEW u \in Tabs, request'[u] # Idle PROVE Waiters(u)' # {}
    <2>1. u # t /\ request'[u] = request[u]
      BY <1>4, <1>5
    <2>2. PICK d \in Calls : request[d].step = "waiting" /\ request[d].tab = u
      BY <1>1, <1>5, <2>1 DEF RefreshesAwaited, Waiters
    <2>3. d \notin Waiters(t) /\ d \in Processes /\ d # t
      BY <2>1, <2>2 DEF Waiters, Processes
    <2> QED
      BY <2>2, <2>3 DEF Waiters
  <1>6. RefreshesAwaited'
    BY <1>3, <1>4, <1>5 DEF RefreshesAwaited
  <1> QED
    BY <1>2, <1>6 DEF RequestsTyped
-------------------------------------------------------------------------------
(* The state stays well typed: the actions. *)

(* The tabs have just been opened. *)
LEMMA InitIsTyped == Init => Typed
  <1> SUFFICES ASSUME Init PROVE Typed
    OBVIOUS
  <1>1. /\ active \subseteq Sessions /\ current = [s \in Sessions |-> IF s \in active THEN 1 ELSE 0]
        /\ client \in {"sdk", "web"} /\ expired = {} /\ begun = 0 /\ signedOut = {}
        /\ token = [t \in Tabs |-> None] /\ status = [t \in Tabs |-> "loading"]
        /\ request = [p \in Processes |-> Idle]
    BY DEF Init
  <1>2. Held(cookie, current)
    <2>1. CASE cookie = None
      BY <2>1 DEF Held
    <2>2. CASE cookie # None
      <3>1. PICK s \in Sessions : cookie = [session |-> s, generation |-> 1] /\ active = {s}
        BY <2>2 DEF Init
      <3>2. cookie \in Tokens /\ cookie.session = s /\ cookie.generation = 1
        BY <3>1 DEF Tokens
      <3>3. current[s] = 1
        BY <1>1, <3>1
      <3> QED
        BY <3>2, <3>3 DEF Held, Issued
    <2> QED
      BY <2>1, <2>2
  <1>3. ServerTyped
    BY <1>1 DEF ServerTyped
  <1>4. MaxCalls[client] \in Nat
    BY <1>1, MaxCallsAreNatural
  <1>5. BrowserTyped
    BY <1>1, <1>2, <1>4 DEF BrowserTyped, Statuses, Held
  <1>6. RequestsTyped
    BY <1>1, IdleIs, SoundIdle DEF RequestsTyped
  <1>7. RefreshesAwaited
    BY <1>1, IdleIs DEF RefreshesAwaited, Processes
  <1> QED
    BY <1>3, <1>5, <1>6, <1>7 DEF Typed

(* What the server forgets and what it keeps. *)
LEMMA ServerKept ==
    ASSUME Typed, UNCHANGED client, Grown(current, current'), active' \subseteq active,
           UNCHANGED expired
    PROVE  ServerTyped'
  <1>1. ServerTyped
    BY DEF Typed
  <1>2. \A x \in expired' : Issued(x, current')
    BY <1>1, HeldGoesOn DEF ServerTyped
  <1>3. \A s \in active' : 1 <= current'[s]
    BY <1>1 DEF ServerTyped, Grown
  <1> QED
    BY <1>1, <1>2, <1>3 DEF ServerTyped, Grown

(* What the browser keeps. *)
LEMMA BrowserKept ==
    ASSUME Typed, UNCHANGED <<client, browser, begun, signedOut>>, Grown(current, current')
    PROVE  BrowserTyped'
  <1>1. BrowserTyped
    BY DEF Typed
  <1>2. Held(cookie, current') /\ \A t \in Tabs : Held(token[t], current')
    BY <1>1, HeldGoesOn DEF BrowserTyped
  <1> QED
    BY <1>1, <1>2 DEF BrowserTyped, browser

(* What the browser puts in the place of its pair. *)
LEMMA BrowserPuts ==
    ASSUME Typed, UNCHANGED <<client, current, begun>>,
           NEW t \in Tabs, NEW x, Held(x, current),
           cookie' \in {cookie, x}, token' \in {token, [token EXCEPT ![t] = x]},
           status' \in [Tabs -> Statuses], signedOut' \subseteq Tabs
    PROVE  BrowserTyped'
  <1>1. BrowserTyped
    BY DEF Typed
  <1>2. x \in Tokens \cup {None}
    BY DEF Held, Issued
  <1>3. Held(cookie', current') /\ \A u \in Tabs : Held(token'[u], current')
    BY <1>1 DEF BrowserTyped
  <1>4. token' \in [Tabs -> Tokens \cup {None}]
    BY <1>1, <1>2 DEF BrowserTyped
  <1> QED
    BY <1>1, <1>3, <1>4 DEF BrowserTyped

(* The server serves a request. *)
LEMMA TheServerIsTyped ==
    ASSUME Typed, NEW p \in Processes, Serve(p)
    PROVE  Typed'
  <1>1. /\ ServerTyped /\ request \in [Processes -> Jobs]
        /\ current \in [Sessions -> Nat] /\ active \subseteq Sessions
        /\ Sound(p, request[p], current)
    BY DEF Typed, ServerTyped, RequestsTyped
  <1>2. CASE RefuseLogin(p)
    <2>1. Grown(current, current')
      BY <1>2, GrownSame DEF RefuseLogin, server
    <2>2. ServerTyped' /\ BrowserTyped'
      BY <1>2, <2>1, ServerKept, BrowserKept DEF RefuseLogin, Arrived, server
    <2>3. RequestsTyped' /\ RefreshesAwaited'
      BY <1>2, <2>1, AnswersAreTyped DEF RefuseLogin, Arrived, Held
    <2> QED
      BY <2>2, <2>3 DEF Typed
  <1>3. ASSUME NEW s \in Sessions, ServeLogin(p, s) PROVE Typed'
    <2> DEFINE pair == [session |-> s, generation |-> 1]
    <2>1. /\ current[s] = 0 /\ current' = [current EXCEPT ![s] = 1] /\ active' = active \cup {s}
          /\ request[p].step = "sent" /\ request[p].op = "login" /\ Answer(p, "ok", pair)
      BY <1>3 DEF ServeLogin, Arrived
    <2>2. Grown(current, current')
      BY <1>1, <2>1 DEF Grown
    <2>3. pair \in Tokens /\ pair.session = s /\ pair.generation = 1 /\ pair # None
      BY NoneIsNoPair DEF Tokens
    <2>4. Held(pair, current')
      BY <1>1, <2>1, <2>3 DEF Held, Issued
    <2>5. ServerTyped'
      <3>1. \A x \in expired' : Issued(x, current')
        BY <1>1, <1>3, <2>2, HeldGoesOn DEF ServerTyped, ServeLogin
      <3>2. \A u \in active' : 1 <= current'[u]
        BY <1>1, <2>1 DEF ServerTyped
      <3> QED
        BY <1>1, <1>3, <2>1, <2>2, <3>1, <3>2 DEF ServerTyped, ServeLogin, Arrived, Grown
    <2>6. BrowserTyped'
      BY <1>3, <2>2, BrowserKept DEF ServeLogin, Arrived, history
    <2>7. RequestsTyped' /\ RefreshesAwaited'
      <3> HIDE DEF pair
      <3> QED BY <2>1, <2>2, <2>3, <2>4, AnswersAreTyped DEF Refreshes
    <2> QED
      BY <2>5, <2>6, <2>7 DEF Typed
  <1>4. CASE ServeRefresh(p)
    <2>1. /\ request[p].step = "sent" /\ request[p].op \in Refreshes
          /\ UNCHANGED <<client, expired, browser, begun, signedOut>>
      BY <1>4 DEF ServeRefresh, Arrived
    <2>2. CASE Answer(p, "denied", None) /\ active' \subseteq active /\ UNCHANGED current
      <3>1. Grown(current, current')
        BY <2>2, GrownSame
      <3>2. ServerTyped' /\ BrowserTyped'
        BY <2>1, <2>2, <3>1, ServerKept, BrowserKept
      <3>3. RequestsTyped' /\ RefreshesAwaited'
        BY <2>1, <2>2, <3>1, AnswersAreTyped DEF Held
      <3> QED
        BY <3>2, <3>3 DEF Typed
    <2>3. ASSUME NEW s \in Sessions, current' = [current EXCEPT ![s] = @ + 1], active' = active,
                 Answer(p, "ok", [session |-> s, generation |-> current[s] + 1])
          PROVE  Typed'
      <3> DEFINE pair == [session |-> s, generation |-> current[s] + 1]
      <3>1. Grown(current, current') /\ current[s] \in Nat /\ current'[s] = current[s] + 1
        BY <1>1, <2>3 DEF Grown
      <3>2. pair \in Tokens /\ pair.session = s /\ pair.generation = current[s] + 1 /\ pair # None
        BY <3>1, NoneIsNoPair DEF Tokens
      <3>3. Held(pair, current')
        BY <3>1, <3>2 DEF Held, Issued
      <3>4. ServerTyped' /\ BrowserTyped'
        BY <2>1, <2>3, <3>1, ServerKept, BrowserKept
      <3>5. RequestsTyped' /\ RefreshesAwaited'
        <4> HIDE DEF pair
        <4>1. Answer(p, "ok", pair)
          BY <2>3 DEF pair
        <4> QED BY <2>1, <3>1, <3>2, <3>3, <4>1, AnswersAreTyped DEF Refreshes
      <3> QED
        BY <3>4, <3>5 DEF Typed
    <2>4. \/ Answer(p, "denied", None) /\ active' \subseteq active /\ UNCHANGED current
          \/ \E s \in Sessions : /\ current' = [current EXCEPT ![s] = @ + 1] /\ active' = active
                                 /\ Answer(p, "ok", [session |-> s, generation |-> current[s] + 1])
      BY <1>1, <1>4 DEF ServeRefresh
    <2> QED
      BY <2>2, <2>3, <2>4
  <1>5. CASE ServeLogout(p)
    <2>1. Grown(current, current')
      BY <1>5, GrownSame DEF ServeLogout
    <2>2. ServerTyped' /\ BrowserTyped'
      BY <1>5, <2>1, ServerKept, BrowserKept DEF ServeLogout, Arrived, history
    <2>3. RequestsTyped' /\ RefreshesAwaited'
      BY <1>5, <2>1, AnswersAreTyped DEF ServeLogout, Arrived, Held, Refreshes
    <2> QED
      BY <2>2, <2>3 DEF Typed
  <1>6. CASE ServeMe(p)
    <2>1. Grown(current, current')
      BY <1>6, GrownSame DEF ServeMe, server
    <2>2. ServerTyped' /\ BrowserTyped'
      BY <1>6, <2>1, ServerKept, BrowserKept DEF ServeMe, Arrived, server, history
    <2>3. PICK answer \in {"ok", "denied"} : Answer(p, answer, None)
      BY <1>6 DEF ServeMe
    <2>4. RequestsTyped' /\ RefreshesAwaited'
      BY <1>6, <2>1, <2>3, AnswersAreTyped DEF ServeMe, Arrived, Held, Refreshes
    <2> QED
      BY <2>2, <2>4 DEF Typed
  <1> QED
    BY <1>2, <1>3, <1>4, <1>5, <1>6 DEF Serve

(* An answer reaches a call, or a failure does. *)
LEMMA DeliveryIsTyped ==
    ASSUME Typed, NEW c \in Calls, Deliver(c)
    PROVE  Typed'
  <1> DEFINE t == request[c].tab
  <1>1. /\ BrowserTyped /\ request[c] \in Jobs /\ Sound(c, request[c], current)
        /\ c \in Processes /\ c \notin Tabs
        /\ token \in [Tabs -> Tokens \cup {None}] /\ status \in [Tabs -> Statuses]
        /\ Held(cookie, current) /\ signedOut \subseteq Tabs
        /\ Held(request[c].pair, current) /\ Held(None, current)
        /\ \A u \in Tabs : Held(token[u], current)
    BY Apart DEF Typed, BrowserTyped, RequestsTyped, Processes, Sound, Held
  <1>2. /\ LoginOk(c) \/ Throw(c) \/ RefreshOk(c) \/ LogoutOk(c) \/ LogoutFails(c)
              \/ ProfileOk(c) \/ ProfileFails(c) \/ Denied(c)
        /\ UNCHANGED <<client, current, active, expired, begun>>
    BY <1>1 DEF Deliver, LoginOk, Throw, RefreshOk, LogoutOk, LogoutFails, ProfileOk, ProfileFails,
           Denied, Answered, Lost, server, history, browser
  <1>3. Grown(current, current') /\ ServerTyped'
    BY <1>2, GrownSame, ServerKept
  <1>4. request[c].step \in {"sent", "answered"}
    BY <1>2 DEF LoginOk, Throw, RefreshOk, LogoutOk, LogoutFails, ProfileOk, ProfileFails,
           Denied, Answered, Lost
  <1>5. t \in Tabs
    BY <1>1, <1>4, InATab, IdleIs
  <1>6. /\ FailedStatus({c}) \in [Tabs -> Statuses]
        /\ {"authenticated", "unauthenticated"} \subseteq Statuses
    BY <1>1 DEF FailedStatus, Statuses
  <1>7. CASE LoginOk(c)
    <2>1. /\ cookie' = request[c].pair /\ token' = [token EXCEPT ![t] = request[c].pair]
          /\ request' = [request EXCEPT ![c] = Fetch(t, "me", FALSE, token'[t], cookie')]
          /\ signedOut' = {} /\ status' = status
      BY <1>7 DEF LoginOk
    <2>2. BrowserTyped'
      BY <1>1, <1>2, <1>5, <2>1, BrowserPuts
    <2>3. request[c].pair \in Tokens \cup {None} /\ token'[t] = request[c].pair
      BY <1>1, <1>5, <2>1 DEF Jobs
    <2>4. PICK x \in Tokens \cup {None} :
              /\ x = request[c].pair /\ Held(x, current')
              /\ request' = [request EXCEPT ![c] = Fetch(t, "me", FALSE, x, x)]
      BY <1>1, <1>2, <2>1, <2>3
    <2>5. RequestsTyped' /\ RefreshesAwaited'
      BY <1>3, <1>4, <1>5, <2>4, StartsAreTyped
    <2> QED
      BY <1>3, <2>2, <2>5 DEF Typed
  <1>8. CASE Denied(c)
    <2>1. RequestsTyped' /\ RefreshesAwaited'
      BY <1>2, <1>8, DeniedIsTyped
    <2>2. BrowserTyped'
      BY <1>2, <1>3, <1>8, BrowserKept DEF Denied
    <2> QED
      BY <1>3, <2>1, <2>2 DEF Typed
  <1>9. CASE ~LoginOk(c) /\ ~Denied(c)
    <2>1. Settle(c)
      BY <1>2, <1>9 DEF Throw, RefreshOk, LogoutOk, LogoutFails, ProfileOk, ProfileFails
    <2>2. RequestsTyped' /\ RefreshesAwaited'
      BY <1>3, <1>4, <2>1, SettlesAreTyped
    <2>3. CASE Throw(c) \/ RefreshOk(c)
      <3>1. PICK x : x = request[c].pair /\ Held(x, current)
        BY <1>1
      <3>2. /\ cookie' \in {cookie, x} /\ token' \in {token, [token EXCEPT ![t] = x]}
            /\ status' \in [Tabs -> Statuses] /\ signedOut' \subseteq Tabs
        BY <1>1, <2>3, <3>1 DEF Throw, RefreshOk, browser, history
      <3> QED
        BY <1>2, <1>3, <1>5, <2>2, <3>1, <3>2, BrowserPuts DEF Typed
    <2>4. CASE LogoutOk(c) \/ LogoutFails(c)
      <3>0. PICK x : x = None /\ Held(x, current)
        BY <1>1
      <3>1. cookie' \in {cookie, x} /\ token' \in {token, [token EXCEPT ![t] = x]}
        BY <2>4, <3>0 DEF LogoutOk, LogoutFails, ForgetToken, TokenAfterFailedLogout
      <3>2. status' \in [Tabs -> Statuses]
        BY <1>1, <1>6, <2>4 DEF LogoutOk, LogoutFails
      <3>3. signedOut' \subseteq Tabs
        BY <1>1, <1>5, <2>4 DEF LogoutOk, LogoutFails
      <3> QED
        BY <1>2, <1>3, <1>5, <2>2, <3>0, <3>1, <3>2, <3>3, BrowserPuts DEF Typed
    <2>5. CASE ProfileOk(c) \/ ProfileFails(c)
      <3>0. PICK x : x = None /\ Held(x, current)
        BY <1>1
      <3>1. /\ cookie' \in {cookie, x} /\ token' \in {token, [token EXCEPT ![t] = x]}
            /\ signedOut' \subseteq Tabs
        BY <1>1, <2>5 DEF ProfileOk, ProfileFails, history
      <3>2. status' \in [Tabs -> Statuses]
        BY <1>1, <1>6, <2>5 DEF ProfileOk, ProfileFails
      <3> QED
        BY <1>2, <1>3, <1>5, <2>2, <3>0, <3>1, <3>2, BrowserPuts DEF Typed
    <2> QED
      BY <1>2, <1>9, <2>3, <2>4, <2>5
  <1> QED
    BY <1>7, <1>8, <1>9

(* The refresh of a tab ends. *)
LEMMA TabsAreTyped ==
    ASSUME Typed, NEW t \in Tabs, TryRefreshOk(t) \/ TryRefreshFails(t)
    PROVE  Typed'
  <1>1. /\ BrowserTyped /\ \A p \in Processes : Sound(p, request[p], current)
        /\ token \in [Tabs -> Tokens \cup {None}] /\ status \in [Tabs -> Statuses]
        /\ signedOut \subseteq Tabs /\ Held(None, current) /\ t \in Processes
    BY DEF Typed, BrowserTyped, RequestsTyped, Processes, Held
  <1>2. UNCHANGED <<client, current, active, expired, begun>>
    BY DEF TryRefreshOk, TryRefreshFails, Answered, Lost, server, history
  <1>3. Grown(current, current') /\ ServerTyped'
    BY <1>2, GrownSame, ServerKept
  <1>4. CASE TryRefreshOk(t)
    <2>1. /\ request' \in [Processes -> Jobs] /\ t \notin Calls /\ request'[t] = Idle
          /\ Held(request[t].pair, current) /\ cookie' = request[t].pair
          /\ request[t].pair \in Tokens
          /\ token' = [token EXCEPT ![t] = request[t].pair]
          /\ \A p \in Waiters(t) :
                /\ Sent(request'[p], t, request[p].op, request[t].pair, request[t].pair)
                /\ request'[p].retried = TRUE
          /\ \A p \in Processes \ (Waiters(t) \cup {t}) : request'[p] = request[p]
      BY <1>4, TryRefreshOkMoves
    <2>2. BrowserTyped'
      BY <1>1, <1>2, <1>4, <2>1, BrowserPuts DEF TryRefreshOk, history
    <2>3. ASSUME NEW p \in Waiters(t)
          PROVE  Sound(p, request'[p], current') /\ request'[p].step # "waiting"
      <3>1. p \in Calls /\ p \in Processes /\ p \notin Tabs /\ request[p].step = "waiting"
        BY Apart DEF Waiters, Processes
      <3>2. request[p].op \in {"login", "me"}
        BY <1>1, <3>1 DEF Sound
      <3>3. PICK r, op, x : /\ r = request'[p] /\ op = request[p].op /\ x = request[t].pair
        OBVIOUS
      <3>4. Sent(r, t, op, x, x) /\ Held(x, current')
        BY <1>1, <1>2, <2>1, <3>3
      <3>5. op \in Ops
        BY <3>2, <3>3 DEF Ops
      <3>6. Sound(p, r, current')
        BY <3>1, <3>2, <3>3, <3>4, <3>5, SoundSent
      <3> QED
        BY <3>3, <3>4, <3>6 DEF Sent
    <2>4. RequestsTyped' /\ RefreshesAwaited'
      BY <1>1, <1>3, <2>1, <2>3, RefreshEndIsTyped
    <2> QED
      BY <1>3, <2>2, <2>4 DEF Typed
  <1>5. CASE TryRefreshFails(t)
    <2>1. /\ request' \in [Processes -> Jobs] /\ t \notin Calls /\ request'[t] = Idle
          /\ \A p \in Waiters(t) : request'[p] = Idle
          /\ \A p \in Processes \ (Waiters(t) \cup {t}) : request'[p] = request[p]
      BY <1>5, TryRefreshFailsMoves
    <2>2. /\ cookie' = cookie /\ token' = [token EXCEPT ![t] = None] /\ signedOut' = signedOut
          /\ status' = FailedStatus(Resumed(t))
      BY <1>5 DEF TryRefreshFails, ForgetToken
    <2>3. status' \in [Tabs -> Statuses]
      BY <1>1, <2>2 DEF FailedStatus, Statuses
    <2>4. BrowserTyped'
      BY <1>1, <1>2, <2>2, <2>3, BrowserPuts
    <2>5. RequestsTyped' /\ RefreshesAwaited'
      BY <1>1, <1>3, <2>1, SoundIdle, IdleIs, RefreshEndIsTyped
    <2> QED
      BY <1>3, <2>4, <2>5 DEF Typed
  <1> QED
    BY <1>4, <1>5

(* The types hold in every step. *)
LEMMA TypedStep == Typed /\ [Next]_vars => Typed'
  <1> SUFFICES ASSUME Typed, [Next]_vars PROVE Typed'
    OBVIOUS
  <1>1. /\ ServerTyped /\ BrowserTyped /\ RequestsTyped /\ RefreshesAwaited
        /\ request \in [Processes -> Jobs]
        /\ token \in [Tabs -> Tokens \cup {None}] /\ cookie \in Tokens \cup {None}
        /\ Held(cookie, current) /\ \A u \in Tabs : Held(token[u], current)
    BY DEF Typed, RequestsTyped, BrowserTyped, Held, Issued
  <1>2. ASSUME NEW c \in Calls, NEW t \in Tabs, NEW op \in Called, Begin(c, t, op) PROVE Typed'
    <2>1. /\ request[c] = Idle /\ begun < MaxCalls[client] /\ begun' = begun + 1
          /\ UNCHANGED <<client, current, active, expired, cookie, token, status, signedOut>>
          /\ request' = [request EXCEPT ![c] = Fetch(t, op, FALSE, token[t], cookie)]
      BY <1>2 DEF Begin, server, browser
    <2>2. Grown(current, current') /\ ServerTyped'
      BY <2>1, GrownSame, ServerKept
    <2>3. client \in {"sdk", "web"} /\ MaxCalls[client] \in Nat
      BY <1>1, MaxCallsAreNatural DEF ServerTyped
    <2>4. BrowserTyped'
      BY <1>1, <2>1, <2>3 DEF BrowserTyped
    <2>5. op \in {"login", "logout", "me", "refresh"}
      BY DEF Called
    <2>6. token[t] \in Tokens \cup {None} /\ Held(token[t], current') /\ Held(cookie, current')
      BY <1>1, <2>1
    <2>7. RequestsTyped' /\ RefreshesAwaited'
      <3>1. request[c].step # "waiting"
        BY <2>1, IdleIs
      <3>2. PICK bearer \in Tokens \cup {None}, jar \in Tokens \cup {None} :
                bearer = token[t] /\ jar = cookie
        BY <1>1, <2>6
      <3> QED
        BY <2>1, <2>2, <2>5, <2>6, <3>1, <3>2, StartsAreTyped
    <2> QED
      BY <2>2, <2>4, <2>7 DEF Typed
  <1>3. ASSUME NEW p \in Processes, Deliver(p) PROVE Typed'
    BY <1>3, DeliveryIsTyped, TabsAreTyped DEF Deliver, Processes
  <1>4. ASSUME NEW s \in Sessions, RevokeElsewhere(s) PROVE Typed'
    <2>1. /\ Grown(current, current') /\ ServerTyped' /\ BrowserTyped'
          /\ request' = request /\ UNCHANGED current
      BY <1>4, GrownSame, ServerKept, BrowserKept DEF RevokeElsewhere, history
    <2> QED
      BY <1>1, <2>1 DEF Typed, RequestsTyped, RefreshesAwaited, Waiters
  <1>5. ASSUME NEW t \in Tabs, ExpireToken(t) PROVE Typed'
    <2>1. /\ Grown(current, current') /\ BrowserTyped'
          /\ request' = request /\ UNCHANGED <<client, current, active>>
          /\ token[t] # None /\ expired' = expired \cup {token[t]}
      BY <1>5, GrownSame, BrowserKept DEF ExpireToken, history
    <2>2. ServerTyped'
      BY <1>1, <2>1 DEF ServerTyped, Held
    <2> QED
      BY <1>1, <2>1, <2>2 DEF Typed, RequestsTyped, RefreshesAwaited, Waiters
  <1>6. CASE UNCHANGED vars
    BY <1>1, <1>6 DEF Typed, ServerTyped, BrowserTyped, RequestsTyped, RefreshesAwaited, Waiters,
        vars, server, browser, history
  <1> QED
    BY <1>2, <1>3, <1>4, <1>5, <1>6, TheServerIsTyped DEF Next
-------------------------------------------------------------------------------
(* Overlaps are noted. *)

(* What an operation that starts meets. *)
LEMMA MeetsNotes ==
    ASSUME NEW t, NEW op, NEW others, NEW q \in others, NEW ops, ops = {op, request[q].op}
    PROVE  /\ ops \in RacesForCookie => [tab |-> None, ops |-> ops] \in Meets(t, op, others)
           /\ ops \in RacesInTab /\ request[q].tab = t =>
                 [tab |-> t, ops |-> ops] \in Meets(t, op, others)
  <1>1. Meets(t, op, others) =
            {[tab |-> t, ops |-> {op, request[u].op}] :
                u \in {u \in others : request[u].tab = t /\ {op, request[u].op} \in RacesInTab}}
            \cup {[tab |-> None, ops |-> {op, request[u].op}] :
                u \in {u \in others : {op, request[u].op} \in RacesForCookie}}
    BY DEF Meets
  <1>2. ASSUME ops \in RacesForCookie PROVE [tab |-> None, ops |-> ops] \in Meets(t, op, others)
    BY <1>1, <1>2
  <1>3. ASSUME ops \in RacesInTab, request[q].tab = t
        PROVE  [tab |-> t, ops |-> ops] \in Meets(t, op, others)
    BY <1>1, <1>3
  <1> QED
    BY <1>2, <1>3

(* The pairs of operations that race. *)
LEMMA PairsThatRace ==
    /\ {"me", "me"} \in RacesInTab /\ {"me", "me"} = {"me"}
    /\ {"me", "logout"} \in RacesInTab /\ {"logout", "me"} = {"me", "logout"}
    /\ {"logout", "refresh"} \in RacesInTab /\ {"refresh", "logout"} = {"logout", "refresh"}
    /\ {"logout", "tryRefresh"} \in RacesInTab
    /\ {"tryRefresh", "logout"} = {"logout", "tryRefresh"}
    /\ \A op \in Refreshes \cup {"logout"} : {"login", op} \in RacesForCookie
                                             /\ {"login", op} = {op, "login"}
    /\ \A one, two \in Refreshes : /\ {one, two} \in RacesForCookie
                                   /\ {one, two} \in {{"refresh"}, {"tryRefresh"}, Refreshes}
  <1>1. {"me", "me"} = {"me"} /\ {"logout", "me"} = {"me", "logout"}
        /\ {"refresh", "logout"} = {"logout", "refresh"}
        /\ {"tryRefresh", "logout"} = {"logout", "tryRefresh"}
        /\ \A op : {"login", op} = {op, "login"}
    OBVIOUS
  <1>2. ASSUME NEW one \in Refreshes, NEW two \in Refreshes
        PROVE  {one, two} \in {{"refresh"}, {"tryRefresh"}, Refreshes}
    <2>1. CASE one = two
      <3>1. {one, two} = {one}
        BY <2>1
      <3> QED
        BY <2>1, <3>1 DEF Refreshes
    <2>2. CASE one # two
      <3>1. {one, two} = Refreshes
        BY <2>2 DEF Refreshes
      <3> QED
        BY <3>1
    <2> QED
      BY <2>1, <2>2
  <1> QED
    BY <1>1, <1>2 DEF RacesInTab, RacesForCookie, Refreshes

(* Nothing starts. *)
LEMMA OverlapsKept ==
    ASSUME OverlapsNoted, races \subseteq races',
           \A p \in Processes :
              \/ request'[p] = Idle
              \/ /\ request'[p].op = request[p].op /\ request'[p].tab = request[p].tab
                 /\ request[p].step = "waiting" =>
                       request'[p].step = "waiting" \/ request'[request[p].tab] = Idle
    PROVE  OverlapsNoted'
  <1>1. /\ RefreshRaced => RefreshRaced'
        /\ LoginRaced => LoginRaced'
        /\ \A t, ops : Raced(t, ops) => [tab |-> t, ops |-> ops] \in races'
    BY DEF RefreshRaced, LoginRaced, Raced
  <1> SUFFICES ASSUME NEW p \in Processes, NEW q \in Processes, p # q PROVE Noted(p, q)'
    BY DEF OverlapsNoted
  <1>2. Noted(p, q)
    BY DEF OverlapsNoted
  <1>3. CASE request'[p] = Idle \/ request'[q] = Idle
    BY <1>3, IdleIs DEF Noted, Flying, Refreshes
  <1>4. CASE request'[p] # Idle /\ request'[q] # Idle
    <2>1. /\ request'[p].op = request[p].op /\ request'[p].tab = request[p].tab
          /\ request'[q].op = request[q].op /\ request'[q].tab = request[q].tab
          /\ request[p].step = "waiting" =>
                request'[p].step = "waiting" \/ request'[request[p].tab] = Idle
      BY <1>4
    <2> QED
      BY <1>1, <1>2, <1>4, <2>1 DEF Noted, Flying, Raced
  <1> QED
    BY <1>3, <1>4

(* One operation starts, and meets all but the call that it starts for. *)
LEMMA OverlapsStart ==
    ASSUME OverlapsNoted, NEW x \in Processes, NEW t, NEW op, NEW c \in Processes, NEW others,
           request'[x].op = op, request'[x].tab = t,
           races' = races \cup Meets(t, op, others), InFlight \ {c, x} \subseteq others,
           c # x => /\ request'[c].step = "waiting" /\ request'[c].tab = x
                    /\ request[c].op \in {"login", "me"} /\ op = "tryRefresh",
           \A p \in Processes \ {x} : /\ request'[p].op = request[p].op
                                      /\ request'[p].tab = request[p].tab
                                      /\ request[p].step = "waiting" =>
                                            request'[p].step = "waiting",
           \A p \in Processes : request[p].op # "none" => p \in InFlight
    PROVE  OverlapsNoted'
  <1>1. /\ RefreshRaced => RefreshRaced'
        /\ LoginRaced => LoginRaced'
        /\ \A u, ops : Raced(u, ops) => [tab |-> u, ops |-> ops] \in races'
    BY DEF RefreshRaced, LoginRaced, Raced
  <1> SUFFICES ASSUME NEW p \in Processes, NEW q \in Processes, p # q PROVE Noted(p, q)'
    BY DEF OverlapsNoted
  <1>2. Noted(p, q)
    BY DEF OverlapsNoted
  <1>3. CASE p # x /\ q # x
    BY <1>1, <1>2, <1>3 DEF Noted, Flying, Raced
  <1>4. ASSUME NEW y \in Processes, y # x, y # c, request[y].op # "none"
        PROVE  /\ {op, request[y].op} \in RacesForCookie =>
                      [tab |-> None, ops |-> {op, request[y].op}] \in races'
               /\ {op, request[y].op} \in RacesInTab /\ request[y].tab = t =>
                      [tab |-> t, ops |-> {op, request[y].op}] \in races'
    <2>1. y \in others
      BY <1>4
    <2> QED
      BY <2>1, MeetsNotes
  <1>5. ASSUME NEW y \in Processes, y # x, y # c, op \in Refreshes, request[y].op \in Refreshes
        PROVE  RefreshRaced'
    <2>1. request[y].op # "none"
      BY <1>5 DEF Refreshes
    <2>2. [tab |-> None, ops |-> {op, request[y].op}] \in races'
      BY <1>4, <1>5, <2>1, PairsThatRace
    <2> QED
      BY <1>5, <2>2, PairsThatRace DEF RefreshRaced, Raced
  <1>6. ASSUME NEW y \in Processes, y # x, y # c,
               \/ op = "login" /\ request[y].op \in Refreshes \cup {"logout"}
               \/ request[y].op = "login" /\ op \in Refreshes \cup {"logout"}
        PROVE  LoginRaced'
    <2>1. request[y].op # "none"
      BY <1>6 DEF Refreshes
    <2>2. {op, request[y].op} \in RacesForCookie
      BY <1>6, PairsThatRace
    <2>3. PICK race : race = [tab |-> None, ops |-> {op, request[y].op}]
      OBVIOUS
    <2>4. race \in races' /\ "login" \in race.ops
      BY <1>4, <1>6, <2>1, <2>2, <2>3
    <2> QED
      BY <2>4 DEF LoginRaced
  <1>7. CASE p = x /\ q # c
    <2>1. /\ request'[p].op = op /\ request'[p].tab = t /\ q # x
          /\ request'[q].op = request[q].op /\ request'[q].tab = request[q].tab
      BY <1>7
    <2>2. /\ Flying(p, Refreshes)' /\ Flying(q, Refreshes)' => RefreshRaced'
          /\ Flying(p, {"login"})' /\ Flying(q, Refreshes \cup {"logout"})' => LoginRaced'
      BY <1>5, <1>6, <1>7, <2>1 DEF Flying
    <2>3. ASSUME request[q].tab = t, op = "me", request[q].op = "me" PROVE Raced(t, {"me"})'
      BY <1>4, <1>7, <2>1, <2>3, PairsThatRace DEF Raced
    <2>4. ASSUME request[q].tab = t, op = "me", request[q].op = "logout"
          PROVE  Raced(t, {"me", "logout"})'
      BY <1>4, <1>7, <2>1, <2>4, PairsThatRace DEF Raced
    <2>5. ASSUME request[q].tab = t, op = "logout", request[q].op = "refresh"
          PROVE  Raced(t, {"logout", "refresh"})'
      BY <1>4, <1>7, <2>1, <2>5, PairsThatRace DEF Raced
    <2>6. ASSUME request[q].tab = t, op = "logout", request[q].op = "tryRefresh"
          PROVE  Raced(t, {"logout", "tryRefresh"})'
      BY <1>4, <1>7, <2>1, <2>6, PairsThatRace DEF Raced
    <2> QED
      BY <2>1, <2>2, <2>3, <2>4, <2>5, <2>6 DEF Noted, Flying, Raced
  <1>8. CASE q = x /\ p # c
    <2>1. /\ request'[q].op = op /\ request'[q].tab = t /\ p # x
          /\ request'[p].op = request[p].op /\ request'[p].tab = request[p].tab
      BY <1>8
    <2>2. /\ Flying(p, Refreshes)' /\ Flying(q, Refreshes)' => RefreshRaced'
          /\ Flying(p, {"login"})' /\ Flying(q, Refreshes \cup {"logout"})' => LoginRaced'
      BY <1>5, <1>6, <1>8, <2>1 DEF Flying
    <2>3. ASSUME request[p].tab = t, op = "me", request[p].op = "me" PROVE Raced(t, {"me"})'
      BY <1>4, <1>8, <2>1, <2>3, PairsThatRace DEF Raced
    <2>4. ASSUME request[p].tab = t, op = "logout", request[p].op = "me"
          PROVE  Raced(t, {"me", "logout"})'
      BY <1>4, <1>8, <2>1, <2>4, PairsThatRace DEF Raced
    <2>5. ASSUME request[p].tab = t, op = "refresh", request[p].op = "logout"
          PROVE  Raced(t, {"logout", "refresh"})'
      BY <1>4, <1>8, <2>1, <2>5, PairsThatRace DEF Raced
    <2>6. ASSUME request[p].tab = t, op = "tryRefresh", request[p].op = "logout"
          PROVE  Raced(t, {"logout", "tryRefresh"})'
      BY <1>4, <1>8, <2>1, <2>6, PairsThatRace DEF Raced
    <2> QED
      BY <2>1, <2>2, <2>3, <2>4, <2>5, <2>6 DEF Noted, Flying, Raced
  <1>9. CASE c # x /\ ((p = x /\ q = c) \/ (q = x /\ p = c))
    BY <1>9 DEF Noted, Flying, Refreshes
  <1> QED
    BY <1>3, <1>7, <1>8, <1>9

(* What serving a request leaves alone. *)
LEMMA ServeMoves ==
    ASSUME Typed, NEW p \in Processes, Serve(p)
    PROVE  /\ UNCHANGED <<client, cookie, token, status, begun, signedOut, races>>
           /\ request[p].step = "sent" /\ request'[p].step = "answered"
           /\ request'[p].op = request[p].op /\ request'[p].tab = request[p].tab
           /\ request'[p].retried = request[p].retried /\ request'[p].token = None
           /\ request'[p].answer \in {"ok", "denied"}
           /\ request'[p].cookie = IF request[p].op = "logout" THEN request[p].cookie ELSE None
           /\ \A q \in Processes \ {p} : request'[q] = request[q]
  <1>1. /\ request \in [Processes -> Jobs] /\ current \in [Sessions -> Nat]
        /\ active \subseteq Sessions
        /\ Sound(p, request[p], current)
    BY DEF Typed, RequestsTyped, ServerTyped
  <1>2. /\ UNCHANGED <<client, cookie, token, status, begun, signedOut, races>>
        /\ request[p].step = "sent"
    BY DEF Serve, RefuseLogin, ServeLogin, ServeRefresh, ServeLogout, ServeMe, Arrived, browser,
           history
  <1>3. \E answer \in {"ok", "denied"}, pair \in Tokens \cup {None} : Answer(p, answer, pair)
    <2>1. CASE RefuseLogin(p) \/ ServeLogout(p) \/ ServeMe(p)
      BY <2>1 DEF RefuseLogin, ServeLogout, ServeMe
    <2>2. ASSUME NEW s \in Sessions, ServeLogin(p, s)
          PROVE  \E answer \in {"ok", "denied"}, pair \in Tokens \cup {None} :
                    Answer(p, answer, pair)
      <3>1. [session |-> s, generation |-> 1] \in Tokens
        BY DEF Tokens
      <3> QED
        BY <2>2, <3>1 DEF ServeLogin
    <2>3. CASE ServeRefresh(p)
      <3>1. Answer(p, "denied", None) \/
            \E s \in Sessions : Answer(p, "ok", [session |-> s, generation |-> current[s] + 1])
        BY <1>1, <2>3 DEF ServeRefresh
      <3>2. \A s \in Sessions : [session |-> s, generation |-> current[s] + 1] \in Tokens
        BY <1>1 DEF Tokens
      <3> QED
        BY <3>1, <3>2
    <2> QED
      BY <2>1, <2>2, <2>3 DEF Serve
  <1>4. PICK answer \in {"ok", "denied"}, pair \in Tokens \cup {None} : Answer(p, answer, pair)
    BY <1>3
  <1> QED
    BY <1>1, <1>2, <1>4, AnswerIs

(* What a call leaves alone when it is over. *)
LEMMA SettleMoves ==
    ASSUME Typed, NEW c \in Calls, Deliver(c), ~LoginOk(c), ~Denied(c)
    PROVE  /\ Throw(c) \/ RefreshOk(c) \/ LogoutOk(c) \/ LogoutFails(c)
                \/ ProfileOk(c) \/ ProfileFails(c)
           /\ UNCHANGED <<client, current, active, expired, begun, burned, races>>
           /\ request[c].step \in {"sent", "answered"} /\ request[c].tab \in Tabs
           /\ request'[c] = Idle /\ c \in Processes /\ c \notin Tabs
           /\ \A q \in Processes \ {c} : request'[q] = request[q]
  <1>1. request \in [Processes -> Jobs] /\ c \in Processes /\ c \notin Tabs
    BY Apart DEF Typed, RequestsTyped, Processes
  <1>2. Throw(c) \/ RefreshOk(c) \/ LogoutOk(c) \/ LogoutFails(c) \/ ProfileOk(c) \/ ProfileFails(c)
    BY <1>1 DEF Deliver
  <1>3. /\ UNCHANGED <<client, current, active, expired, begun, burned, races>>
        /\ request[c].step \in {"sent", "answered"} /\ Settle(c)
    BY <1>2 DEF Throw, RefreshOk, LogoutOk, LogoutFails, ProfileOk, ProfileFails, Answered, Lost,
           server, history
  <1>4. request[c].tab \in Tabs
    BY <1>1, <1>3, InATab, IdleIs
  <1> QED
    BY <1>1, <1>2, <1>3, <1>4 DEF Settle

(* A sign-in is followed by its profile. *)
LEMMA LoginOkMoves ==
    ASSUME Typed, NEW c \in Calls, LoginOk(c)
    PROVE  /\ UNCHANGED <<client, current, active, expired, status, begun, burned, mishaps>>
           /\ c \in Processes /\ c \notin Tabs /\ request[c].tab \in Tabs
           /\ request[c].op = "login" /\ request[c].step = "answered" /\ request[c].answer = "ok"
           /\ request[c].pair # None /\ request[c].pair \in Tokens
           /\ cookie' = request[c].pair
           /\ token' = [token EXCEPT ![request[c].tab] = request[c].pair]
           /\ token'[request[c].tab] = request[c].pair /\ signedOut' = {}
           /\ Sent(request'[c], request[c].tab, "me", request[c].pair, request[c].pair)
           /\ request'[c].retried = FALSE
           /\ \A q \in Processes \ {c} : request'[q] = request[q]
           /\ races' = races \cup Meets(request[c].tab, "me", InFlight \ {c})
  <1> DEFINE t == request[c].tab
  <1>1. /\ request \in [Processes -> Jobs] /\ c \in Processes /\ c \notin Tabs
        /\ token \in [Tabs -> Tokens \cup {None}] /\ Sound(c, request[c], current)
    BY Apart DEF Typed, RequestsTyped, BrowserTyped, Processes
  <1>2. /\ UNCHANGED <<client, current, active, expired, status, begun, burned, mishaps>>
        /\ request[c].op = "login" /\ request[c].step = "answered" /\ request[c].answer = "ok"
        /\ cookie' = request[c].pair /\ token' = [token EXCEPT ![t] = request[c].pair]
        /\ signedOut' = {} /\ races' = races \cup Meets(t, "me", InFlight \ {c})
        /\ request' = [request EXCEPT ![c] = Fetch(t, "me", FALSE, token'[t], cookie')]
    BY DEF LoginOk, Answered, server
  <1>3. t \in Tabs
    BY <1>1, <1>2, InATab, IdleIs
  <1>4. request[c].pair # None /\ request[c].pair \in Tokens
    BY <1>1, <1>2 DEF Sound, Held, Issued
  <1>5. token'[t] = request[c].pair
    BY <1>1, <1>2, <1>3
  <1>6. PICK x \in Tokens : x = request[c].pair
    BY <1>4
  <1>7. PICK r : r = Fetch(t, "me", FALSE, x, x)
    OBVIOUS
  <1>8. Sent(r, t, "me", x, x) /\ r.retried = FALSE
    BY <1>3, <1>7 DEF Sent, Fetch, Idle, Jobs, Ops, Steps
  <1>9. request' = [request EXCEPT ![c] = r]
    BY <1>2, <1>5, <1>6, <1>7
  <1> QED
    BY <1>1, <1>2, <1>3, <1>4, <1>5, <1>6, <1>8, <1>9

(* An operation starts. *)
LEMMA BeginMoves ==
    ASSUME Typed, NEW c \in Calls, NEW t \in Tabs, NEW op \in Called, Begin(c, t, op)
    PROVE  /\ UNCHANGED <<client, current, active, expired, cookie, token, status, signedOut,
                          burned, mishaps>>
           /\ c \in Processes /\ c \notin Tabs /\ request[c] = Idle
           /\ op \in {"login", "logout", "me", "refresh"}
           /\ begun' = begun + 1
           /\ Sent(request'[c], t, op, token[t], cookie) /\ request'[c].retried = FALSE
           /\ \A q \in Processes \ {c} : request'[q] = request[q]
           /\ races' = races \cup Meets(t, op, InFlight)
  <1>1. /\ request \in [Processes -> Jobs] /\ c \in Processes /\ c \notin Tabs
        /\ token \in [Tabs -> Tokens \cup {None}] /\ cookie \in Tokens \cup {None}
    BY Apart DEF Typed, RequestsTyped, BrowserTyped, Processes, Held, Issued
  <1>2. /\ UNCHANGED <<client, current, active, expired, cookie, token, status, signedOut,
                       burned, mishaps>>
        /\ request[c] = Idle /\ races' = races \cup Meets(t, op, InFlight) /\ begun' = begun + 1
        /\ request' = [request EXCEPT ![c] = Fetch(t, op, FALSE, token[t], cookie)]
    BY DEF Begin, server, browser
  <1>3. op \in {"login", "logout", "me", "refresh"}
    BY DEF Called
  <1>4. token[t] \in Tokens \cup {None}
    BY <1>1
  <1>5. PICK r : r = Fetch(t, op, FALSE, token[t], cookie)
    OBVIOUS
  <1>6. Sent(r, t, op, token[t], cookie) /\ r.retried = FALSE
    BY <1>1, <1>3, <1>4, <1>5 DEF Sent, Fetch, Idle, Jobs, Ops, Steps
  <1> QED
    BY <1>1, <1>2, <1>3, <1>5, <1>6

(* A call that is denied changes nothing else. *)
LEMMA DeniedKeeps ==
    ASSUME NEW c \in Calls, Denied(c)
    PROVE  UNCHANGED <<client, current, active, expired, cookie, token, status, begun, signedOut,
                       burned, mishaps>>
  BY DEF Denied, Answered, server, browser

(* The state stays noted. *)
LEMMA OverlapsStep == Typed /\ OverlapsNoted /\ [Next]_vars => OverlapsNoted'
  <1> SUFFICES ASSUME Typed, OverlapsNoted, [Next]_vars PROVE OverlapsNoted'
    OBVIOUS
  <1>0. \A p \in Processes : request[p].op # "none" => p \in InFlight
    BY IdleIs DEF InFlight
  <1>1. ASSUME NEW c \in Calls, NEW t \in Tabs, NEW op \in Called, Begin(c, t, op)
        PROVE  OverlapsNoted'
    <2>1. /\ c \in Processes /\ request'[c].op = op /\ request'[c].tab = t
          /\ races' = races \cup Meets(t, op, InFlight)
          /\ \A q \in Processes \ {c} : request'[q] = request[q]
      BY <1>1, BeginMoves DEF Sent
    <2> QED
      BY <1>0, <2>1, OverlapsStart
  <1>2. ASSUME NEW p \in Processes, Serve(p) PROVE OverlapsNoted'
    <2>1. /\ races' = races /\ request'[p].op = request[p].op /\ request'[p].tab = request[p].tab
          /\ request[p].step # "waiting"
          /\ \A q \in Processes \ {p} : request'[q] = request[q]
      BY <1>2, ServeMoves
    <2> QED
      BY <2>1, OverlapsKept
  <1>3. ASSUME NEW c \in Calls, LoginOk(c) PROVE OverlapsNoted'
    <2>1. /\ c \in Processes /\ request'[c].op = "me" /\ request'[c].tab = request[c].tab
          /\ races' = races \cup Meets(request[c].tab, "me", InFlight \ {c})
          /\ \A q \in Processes \ {c} : request'[q] = request[q]
      BY <1>3, LoginOkMoves DEF Sent
    <2> QED
      BY <1>0, <2>1, OverlapsStart
  <1>4. ASSUME NEW c \in Calls, Denied(c) PROVE OverlapsNoted'
    <2> DEFINE t == request[c].tab
    <2>1. /\ c \in Processes /\ c \notin Tabs /\ t \in Tabs /\ t \in Processes
          /\ request[c].op \in {"login", "me"} /\ request'[c].op = request[c].op
          /\ request'[c].tab = t /\ request'[c].step = "waiting"
          /\ \A q \in Processes \ {c, t} : request'[q] = request[q]
      BY <1>4, DeniedMoves DEF Processes
    <2>2. CASE request[t] # Idle
      <3>1. request'[t] = request[t] /\ races' = races
        BY <1>4, <2>2, DeniedMoves
      <3> QED
        BY <2>1, <3>1, OverlapsKept
    <2>3. CASE request[t] = Idle
      <3>1. /\ request'[t].op = "tryRefresh" /\ request'[t].tab = t
            /\ races' = races \cup Meets(t, "tryRefresh", InFlight \ {c})
        BY <1>4, <2>3, DeniedMoves DEF Sent
      <3> QED
        BY <1>0, <2>1, <3>1, OverlapsStart
    <2> QED
      BY <2>2, <2>3
  <1>5. ASSUME NEW c \in Calls, Deliver(c), ~LoginOk(c), ~Denied(c) PROVE OverlapsNoted'
    <2>1. /\ races' = races /\ request'[c] = Idle
          /\ \A q \in Processes \ {c} : request'[q] = request[q]
      BY <1>5, SettleMoves
    <2> QED
      BY <2>1, OverlapsKept
  <1>6. ASSUME NEW t \in Tabs, TryRefreshOk(t) PROVE OverlapsNoted'
    <2>1. /\ t \in Processes /\ request'[t] = Idle
          /\ \A p \in Waiters(t) : request'[p].op = request[p].op /\ request'[p].tab = t
          /\ \A p \in Processes \ (Waiters(t) \cup {t}) : request'[p] = request[p]
      <3>1. /\ t \in Processes /\ request'[t] = Idle
            /\ \A p \in Waiters(t) :
                  Sent(request'[p], t, request[p].op, request[t].pair, request[t].pair)
            /\ \A p \in Processes \ (Waiters(t) \cup {t}) : request'[p] = request[p]
        BY <1>6, TryRefreshOkMoves
      <3>2. \A p \in Waiters(t) : request'[p].op = request[p].op /\ request'[p].tab = t
        BY <3>1 DEF Sent
      <3> QED
        BY <3>1, <3>2
    <2>2. races' = races /\ \A p \in Waiters(t) : request[p].tab = t
      BY <1>6 DEF TryRefreshOk, history, Waiters
    <2> QED
      BY <2>1, <2>2, OverlapsKept
  <1>7. ASSUME NEW t \in Tabs, TryRefreshFails(t) PROVE OverlapsNoted'
    <2>1. /\ t \in Processes /\ request'[t] = Idle
          /\ \A p \in Waiters(t) : request'[p] = Idle
          /\ \A p \in Processes \ (Waiters(t) \cup {t}) : request'[p] = request[p]
      BY <1>7, TryRefreshFailsMoves
    <2>2. races' = races
      BY <1>7 DEF TryRefreshFails
    <2> QED
      BY <2>1, <2>2, OverlapsKept
  <1>8. CASE UNCHANGED <<request, races>>
    BY <1>8, OverlapsKept
  <1> QED
    BY <1>1, <1>2, <1>3, <1>4, <1>5, <1>6, <1>7, <1>8
       DEF Next, Deliver, RevokeElsewhere, ExpireToken, Processes, history, vars
-------------------------------------------------------------------------------
(* Only the web client counts a password twice. *)

(* What was noted stays noted. *)
LEMMA HistoryGrows ==
    ASSUME Next
    PROVE  races \subseteq races' /\ mishaps \subseteq mishaps' /\ UNCHANGED client
  BY DEF Next, Serve, Deliver, Begin, RefuseLogin, ServeLogin, ServeRefresh, ServeLogout, ServeMe,
         RevokeElsewhere, ExpireToken, LoginOk, Throw, RefreshOk, LogoutOk, LogoutFails, ProfileOk,
         ProfileFails, Denied, RefreshOnce, TryRefreshOk, TryRefreshFails, Arrived, Answered, Lost,
         history

(* The SDK retries no sign-in. *)
LEMMA RetriesStep == Typed /\ RetriesProfiles /\ [Next]_vars => RetriesProfiles'
  <1> SUFFICES ASSUME Typed, RetriesProfiles, [Next]_vars, client' = "sdk" PROVE RetriesProfiles'
    BY DEF RetriesProfiles
  <1>1. client = "sdk"
    BY HistoryGrows DEF vars
  <1>2. \A c \in Calls : request[c].retried \/ request[c].step = "waiting" =>
            request[c].op = "me"
    BY <1>1 DEF RetriesProfiles
  <1>4. ASSUME NEW d \in Calls,
               \/ request'[d] = request[d] \/ request'[d] = Idle
               \/ ~request'[d].retried /\ request'[d].step # "waiting"
               \/ request'[d].op = "me"
               \/ /\ request'[d].op = request[d].op
                  /\ request'[d].retried = request[d].retried /\ request'[d].step = "answered"
        PROVE  request'[d].retried \/ request'[d].step = "waiting" => request'[d].op = "me"
    BY <1>2, <1>4, IdleIs
  <1>5. ASSUME NEW d \in Calls
        PROVE  \/ request'[d] = request[d] \/ request'[d] = Idle
               \/ ~request'[d].retried /\ request'[d].step # "waiting"
               \/ request'[d].op = "me"
               \/ /\ request'[d].op = request[d].op
                  /\ request'[d].retried = request[d].retried /\ request'[d].step = "answered"
    <2>0. d \in Processes /\ d \notin Tabs
      BY Apart DEF Processes
    <2>1. ASSUME NEW c \in Calls, NEW t \in Tabs, NEW op \in Called, Begin(c, t, op)
          PROVE  request'[d] = request[d] \/ (~request'[d].retried /\ request'[d].step # "waiting")
      BY <2>0, <2>1, BeginMoves DEF Sent
    <2>2. ASSUME NEW p \in Processes, Serve(p)
          PROVE  \/ request'[d] = request[d]
                 \/ /\ request'[d].op = request[d].op
                    /\ request'[d].retried = request[d].retried /\ request'[d].step = "answered"
      BY <2>0, <2>2, ServeMoves
    <2>3. ASSUME NEW c \in Calls, LoginOk(c)
          PROVE  request'[d] = request[d] \/ request'[d].op = "me"
      BY <2>0, <2>3, LoginOkMoves DEF Sent
    <2>4. ASSUME NEW c \in Calls, Denied(c)
          PROVE  request'[d] = request[d] \/ request'[d].op = "me"
      BY <1>1, <2>0, <2>4, DeniedMoves
    <2>5. ASSUME NEW c \in Calls, Deliver(c), ~LoginOk(c), ~Denied(c)
          PROVE  request'[d] = request[d] \/ request'[d] = Idle
      BY <2>0, <2>5, SettleMoves
    <2>6. ASSUME NEW t \in Tabs, TryRefreshOk(t)
          PROVE  request'[d] = request[d] \/ request'[d].op = "me"
      <3>1. CASE d \in Waiters(t)
        <4>1. request[d].op = "me"
          BY <1>2, <3>1 DEF Waiters
        <4> QED
          BY <2>6, <3>1, <4>1, TryRefreshOkMoves DEF Sent
      <3>2. CASE d \notin Waiters(t)
        BY <2>0, <2>6, <3>2, TryRefreshOkMoves
      <3> QED
        BY <3>1, <3>2
    <2>7. ASSUME NEW t \in Tabs, TryRefreshFails(t)
          PROVE  request'[d] = request[d] \/ request'[d] = Idle
      BY <2>0, <2>7, TryRefreshFailsMoves
    <2> QED
      BY <2>0, <2>1, <2>2, <2>3, <2>4, <2>5, <2>6, <2>7
         DEF Next, Deliver, RevokeElsewhere, ExpireToken, vars
  <1> QED
    BY <1>4, <1>5 DEF RetriesProfiles

(* What becomes of the counts of a call. *)
CountsGoOn(d) ==
    /\ counted'[d] = Refusals(request'[d])
    /\ renewed'[d] = Renewals(request'[d])

(* Serving a sign-in counts its password if it is wrong. *)
LEMMA ServingCounts ==
    ASSUME Typed, PasswordsCounted, NEW p \in Processes, Serve(p), NEW d \in Calls
    PROVE  CountsGoOn(d)
  <1>1. /\ request \in [Processes -> Jobs] /\ d \in Processes /\ request[p].step = "sent"
        /\ request'[p].op = request[p].op /\ request'[p].retried = request[p].retried
        /\ request'[p].step = "answered" /\ \A q \in Processes \ {p} : request'[q] = request[q]
        /\ Sound(p, request[p], current) /\ request[p] \in Jobs
    BY ServeMoves DEF Typed, RequestsTyped, Processes
  <1>2. /\ counted \in [Calls -> Nat] /\ counted[d] = Refusals(request[d])
        /\ renewed[d] = Renewals(request[d])
    BY DEF PasswordsCounted
  <1>3. CASE RefuseLogin(p)
    <2>1. /\ request[p].op = "login" /\ counted' = [counted EXCEPT ![p] = @ + 1]
          /\ renewed' = renewed /\ Answer(p, "denied", None)
      BY <1>3 DEF RefuseLogin, Arrived
    <2>2. p \in Calls
      BY <1>1, <2>1 DEF Sound, Processes
    <2>3. request'[p].answer = "denied"
      BY <1>1, <2>1, AnswerIs
    <2>4. request[p].answer # "denied"
      BY <1>1 DEF Sound
    <2>5. CASE d = p
      BY <1>1, <1>2, <2>1, <2>2, <2>3, <2>4, <2>5 DEF CountsGoOn, Refusals, Renewals
    <2>6. CASE d # p
      BY <1>1, <1>2, <2>1, <2>2, <2>6 DEF CountsGoOn
    <2> QED
      BY <2>5, <2>6
  <1>4. ASSUME NEW s \in Sessions, ServeLogin(p, s) PROVE CountsGoOn(d)
    <2>1. PICK pair : pair = [session |-> s, generation |-> 1]
      OBVIOUS
    <2>2. /\ Answer(p, "ok", pair) /\ counted' = counted /\ renewed' = renewed
          /\ pair \in Tokens \cup {None}
      BY <1>4, <2>1 DEF ServeLogin, history, passwords, Tokens
    <2>3. request'[p].answer = "ok" /\ request[p].answer # "denied"
      BY <1>1, <2>2, AnswerIs DEF Sound
    <2> QED
      BY <1>1, <1>2, <2>2, <2>3 DEF CountsGoOn, Refusals, Renewals
  <1>5. CASE ServeRefresh(p) \/ ServeLogout(p) \/ ServeMe(p)
    <2>1. request[p].op # "login" /\ counted' = counted /\ renewed' = renewed
      BY <1>5 DEF ServeRefresh, ServeLogout, ServeMe, Arrived, Refreshes, history, passwords
    <2> QED
      BY <1>1, <1>2, <2>1 DEF CountsGoOn, Refusals, Renewals
  <1> QED
    BY <1>3, <1>4, <1>5 DEF Serve

(* The answer to a call, and what it leaves of the counts. *)
LEMMA DeliveryCounts ==
    ASSUME Typed, PasswordsCounted, NEW c \in Calls, Deliver(c), NEW d \in Calls
    PROVE  CountsGoOn(d)
  <1>0. d \in Processes /\ d \notin Tabs
    BY Apart DEF Processes
  <1>1. counted[d] = Refusals(request[d]) /\ renewed[d] = Renewals(request[d])
    BY DEF PasswordsCounted
  <1>2. CASE LoginOk(c)
    <2>1. /\ request'[c].op = "me" /\ \A q \in Processes \ {c} : request'[q] = request[q]
      BY <1>2, LoginOkMoves DEF Sent
    <2>2. ForgetPasswords({c})
      BY <1>2 DEF LoginOk
    <2> QED
      BY <1>0, <1>1, <2>1, <2>2 DEF ForgetPasswords, CountsGoOn, Refusals, Renewals
  <1>3. CASE Denied(c)
    <2>1. /\ request'[c].op = request[c].op /\ request'[c].retried = request[c].retried
          /\ request[c].step = "answered" /\ request[c].answer = "denied"
          /\ request'[c].step = "waiting" /\ request[c].tab \in Tabs
          /\ \A q \in Processes \ {c, request[c].tab} : request'[q] = request[q]
      BY <1>3, DeniedMoves
    <2>2. counted' = counted /\ renewed' = renewed
      BY <1>3 DEF Denied, passwords
    <2> QED
      BY <1>0, <1>1, <2>1, <2>2 DEF CountsGoOn, Refusals, Renewals
  <1>4. CASE ~LoginOk(c) /\ ~Denied(c)
    <2>1. /\ request'[c] = Idle /\ \A q \in Processes \ {c} : request'[q] = request[q]
          /\ Throw(c) \/ RefreshOk(c) \/ LogoutOk(c) \/ LogoutFails(c)
                \/ ProfileOk(c) \/ ProfileFails(c)
      BY <1>4, SettleMoves
    <2>2. Idle.op # "login"
      BY IdleIs
    <2>3. CASE Throw(c)
      <3>1. ForgetPasswords({c})
        BY <2>3 DEF Throw
      <3> QED
        BY <1>0, <1>1, <2>1, <2>2, <3>1 DEF ForgetPasswords, CountsGoOn, Refusals, Renewals
    <2>4. CASE ~Throw(c)
      <3>1. counted' = counted /\ renewed' = renewed /\ request[c].op # "login"
        BY <2>1, <2>4 DEF RefreshOk, LogoutOk, LogoutFails, ProfileOk, ProfileFails, Answered, Lost,
             history, passwords
      <3> QED
        BY <1>0, <1>1, <2>1, <2>2, <3>1 DEF CountsGoOn, Refusals, Renewals
    <2> QED
      BY <2>3, <2>4
  <1> QED
    BY <1>2, <1>3, <1>4

(* The end of a refresh, and what it leaves of the counts. *)
LEMMA RefreshEndCounts ==
    ASSUME Typed, PasswordsCounted, NEW t \in Tabs, TryRefreshOk(t) \/ TryRefreshFails(t),
           NEW d \in Calls
    PROVE  CountsGoOn(d)
  <1>0. d \in Processes /\ d # t
    BY Apart DEF Processes
  <1>1. counted[d] = Refusals(request[d]) /\ renewed[d] = Renewals(request[d])
    BY DEF PasswordsCounted
  <1>2. CASE TryRefreshOk(t)
    <2>1. /\ counted' = counted
          /\ renewed' = [c \in Calls |-> IF c \in Waiters(t) /\ request[c].op = "login"
                                         THEN renewed[c] + 1 ELSE renewed[c]]
      BY <1>2 DEF TryRefreshOk, Resumed
    <2>2. CASE d \in Waiters(t)
      <3>1. /\ request'[d].retried = TRUE /\ request'[d].op = request[d].op
            /\ request'[d].step = "sent" /\ request'[d].answer = "none"
        <4>1. PICK r, op, x : r = request'[d] /\ op = request[d].op /\ x = request[t].pair
          OBVIOUS
        <4>2. Sent(r, t, op, x, x) /\ r.retried = TRUE
          BY <1>2, <2>2, <4>1, TryRefreshOkMoves
        <4> QED
          BY <4>1, <4>2 DEF Sent
      <3>2. request[d].step = "waiting" /\ request[d].retried = FALSE
        BY <1>0, <2>2 DEF Waiters, Typed, RequestsTyped, Sound, Jobs
      <3> QED
        BY <1>1, <2>1, <2>2, <3>1, <3>2 DEF CountsGoOn, Refusals, Renewals
    <2>3. CASE d \notin Waiters(t)
      <3>1. request'[d] = request[d]
        BY <1>0, <1>2, <2>3, TryRefreshOkMoves
      <3> QED
        BY <1>1, <2>1, <2>3, <3>1 DEF CountsGoOn
    <2> QED
      BY <2>2, <2>3
  <1>3. CASE TryRefreshFails(t)
    <2>1. ForgetPasswords(Waiters(t))
      BY <1>3 DEF TryRefreshFails, Resumed
    <2>2. request'[d] = IF d \in Waiters(t) THEN Idle ELSE request[d]
      BY <1>0, <1>3, TryRefreshFailsMoves
    <2>3. Idle.op # "login"
      BY IdleIs
    <2> QED
      BY <1>1, <2>1, <2>2, <2>3 DEF ForgetPasswords, CountsGoOn, Refusals, Renewals
  <1> QED
    BY <1>2, <1>3

(* The counts keep their type. *)
LEMMA CountsTyped ==
    ASSUME Typed, PasswordsCounted, [Next]_vars
    PROVE  counted' \in [Calls -> Nat] /\ renewed' \in [Calls -> Nat]
  <1>1. /\ counted \in [Calls -> Nat] /\ renewed \in [Calls -> Nat]
    BY DEF PasswordsCounted
  <1>2. \/ counted' = counted /\ renewed' = renewed
        \/ \E p \in Processes : RefuseLogin(p)
        \/ \E calls : ForgetPasswords(calls)
        \/ \E t \in Tabs : TryRefreshOk(t)
    BY DEF Next, Serve, Deliver, Begin, ServeLogin, ServeRefresh, ServeLogout, ServeMe,
         RevokeElsewhere, ExpireToken, LoginOk, Throw, RefreshOk, LogoutOk, LogoutFails, ProfileOk,
         ProfileFails, Denied, TryRefreshFails, Processes, history, passwords, vars
  <1>3. ASSUME NEW p \in Processes, RefuseLogin(p)
        PROVE  counted' \in [Calls -> Nat] /\ renewed' \in [Calls -> Nat]
    <2>1. request[p].op = "login" /\ Sound(p, request[p], current)
      BY <1>3 DEF RefuseLogin, Arrived, Typed, RequestsTyped
    <2>2. p \in Calls /\ counted[p] \in Nat
      BY <1>1, <2>1 DEF Sound, Processes
    <2> QED
      BY <1>1, <1>3, <2>2 DEF RefuseLogin
  <1>4. ASSUME NEW calls, ForgetPasswords(calls)
        PROVE  counted' \in [Calls -> Nat] /\ renewed' \in [Calls -> Nat]
    BY <1>1, <1>4 DEF ForgetPasswords
  <1>5. ASSUME NEW t \in Tabs, TryRefreshOk(t)
        PROVE  counted' \in [Calls -> Nat] /\ renewed' \in [Calls -> Nat]
    BY <1>1, <1>5 DEF TryRefreshOk
  <1> QED
    BY <1>1, <1>2, <1>3, <1>4, <1>5

(* The counts are those of the requests in every step. *)
LEMMA PasswordsStep == Typed /\ PasswordsCounted /\ [Next]_vars => PasswordsCounted'
  <1> SUFFICES ASSUME Typed, PasswordsCounted, [Next]_vars PROVE PasswordsCounted'
    OBVIOUS
  <1>1. ASSUME NEW d \in Calls PROVE CountsGoOn(d)
    <2>0. counted[d] = Refusals(request[d]) /\ renewed[d] = Renewals(request[d])
      BY DEF PasswordsCounted
    <2>1. ASSUME NEW c \in Calls, NEW t \in Tabs, NEW op \in Called, Begin(c, t, op)
          PROVE  CountsGoOn(d)
      <3>1. /\ request[c] = Idle /\ request'[c].step = "sent" /\ request'[c].retried = FALSE
            /\ request'[c].answer = "none" /\ d \in Processes
            /\ \A q \in Processes \ {c} : request'[q] = request[q]
        BY <2>1, BeginMoves DEF Sent, Processes
      <3>2. counted' = counted /\ renewed' = renewed
        BY <2>1 DEF Begin, passwords
      <3>3. Idle.op # "login"
        BY IdleIs
      <3> QED
        BY <2>0, <3>1, <3>2, <3>3 DEF CountsGoOn, Refusals, Renewals
    <2>2. ASSUME request' = request, UNCHANGED passwords PROVE CountsGoOn(d)
      BY <2>0, <2>2 DEF CountsGoOn, passwords
    <2> QED
      BY <2>1, <2>2, ServingCounts, DeliveryCounts, RefreshEndCounts
         DEF Next, Deliver, RevokeElsewhere, ExpireToken, history, vars
  <1> QED
    BY <1>1, CountsTyped DEF PasswordsCounted, CountsGoOn, Refusals, Renewals
-------------------------------------------------------------------------------
(* The user is shown while the tab holds a token. *)

(* The status of a tab whose profile did not load. *)
LEMMA FailedStatusIs ==
    ASSUME NEW failed, NEW t \in Tabs
    PROVE  /\ FailedStatus(failed)[t] \in {"unauthenticated", status[t]}
           /\ client = "sdk" /\ (\E c \in failed : request[c].tab = t /\ request[c].op = "me") =>
                 FailedStatus(failed)[t] = "unauthenticated"
  BY DEF FailedStatus

(* Nothing happens in the tab. *)
LEMMA ShowsNobodyGoesOn ==
    ASSUME NEW t \in Tabs, ShowsNobody(t), status'[t] \in {"unauthenticated", status[t]},
           \A c \in Processes : \/ request'[c] = request[c]
                                \/ request'[c].op # "me" \/ request'[c].tab # t
                                \/ request'[c].token = None /\ request'[c].answer # "ok"
    PROVE  ShowsNobody(t)'
  BY DEF ShowsNobody

(* A refresh that fails leaves a tab that shows nobody. *)
LEMMA FailedRefreshShowsNobody ==
    ASSUME Typed, OverlapsNoted, RetriesProfiles, NEW t \in Tabs, TryRefreshFails(t), ~Excused(t)'
    PROVE  ShowsNobody(t)'
  <1>1. /\ \A p \in Waiters(t) : request'[p] = Idle
        /\ \A p \in Processes \ (Waiters(t) \cup {t}) : request'[p] = request[p]
        /\ request'[t] = Idle /\ request[t].op = "tryRefresh" /\ t \notin Calls
    BY TryRefreshFailsMoves
  <1>2. /\ races' = races /\ KeptUser(t) \subseteq mishaps' /\ status' = FailedStatus(Waiters(t))
        /\ UNCHANGED client
    BY DEF TryRefreshFails, Resumed, Answered, Lost
  <1>3. ~Raced(t, {"me"})
    BY <1>2 DEF Excused, Raced
  <1>4. client \in {"sdk", "web"}
    BY DEF Typed, ServerTyped
  <1>5. CASE client = "web"
    <2>1. /\ status'[t] # "authenticated"
          /\ \A c \in Calls \ Waiters(t) : ~(request[c].tab = t /\ request[c].op = "me")
      BY <1>2, <1>5 DEF KeptUser, Excused
    <2>2. ASSUME NEW c \in Processes, request'[c].op = "me", request'[c].tab = t PROVE FALSE
      <3>1. c \notin Waiters(t) /\ c # t
        BY <1>1, <2>2, IdleIs
      <3>2. c \in Calls /\ request'[c] = request[c]
        <4>1. request'[c] = request[c]
          BY <1>1, <3>1
        <4>2. request[c].op # "tryRefresh" /\ request[c] # Idle
          BY <2>2, <4>1, IdleIs
        <4> QED
          BY <4>1, <4>2 DEF Typed, RequestsTyped, Sound, Processes
      <3> QED
        BY <2>1, <2>2, <3>1, <3>2
    <2> QED
      BY <2>1, <2>2 DEF ShowsNobody
  <1>6. CASE client = "sdk"
    <2>1. PICK w \in Calls : request[w].step = "waiting" /\ request[w].tab = t
      <3>1. request[t] # Idle
        BY <1>1, IdleIs
      <3> QED
        BY <3>1 DEF Typed, RefreshesAwaited, Waiters
    <2>2. request[w].op = "me" /\ w \in Waiters(t) /\ w \in Processes
      BY <1>6, <2>1 DEF RetriesProfiles, Waiters, Processes
    <2>3. status'[t] = "unauthenticated"
      BY <1>2, <1>6, <2>1, <2>2, FailedStatusIs
    <2>4. ASSUME NEW c \in Processes, request'[c].op = "me", request'[c].tab = t PROVE FALSE
      <3>1. c \notin Waiters(t) /\ c # t
        BY <1>1, <2>4, IdleIs
      <3>2. request'[c] = request[c] /\ c # w
        BY <1>1, <2>2, <3>1
      <3>3. Noted(c, w)
        BY <2>2, <3>2 DEF OverlapsNoted
      <3> QED
        BY <1>3, <2>1, <2>2, <2>4, <3>2, <3>3 DEF Noted, Flying
    <2> QED
      BY <2>3, <2>4 DEF ShowsNobody
  <1> QED
    BY <1>4, <1>5, <1>6

(* A status that is shown is a token that is held. *)
LEMMA UserShownStep ==
    ASSUME Typed, OverlapsNoted, RetriesProfiles, UserShown, [Next]_vars
    PROVE  UserShown'
  <1> SUFFICES ASSUME NEW t \in Tabs, ~Excused(t)', token'[t] = None PROVE ShowsNobody(t)'
    BY DEF UserShown, ShowsNobody
  <1>0. /\ races \subseteq races' /\ mishaps \subseteq mishaps'
    BY HistoryGrows DEF vars, history
  <1>1. ~Excused(t)
    BY <1>0 DEF Excused, Raced
  <1>2. token[t] = None => ShowsNobody(t)
    BY <1>1 DEF UserShown, ShowsNobody
  <1>3. ASSUME NEW c \in Calls, NEW u \in Tabs, NEW op \in Called, Begin(c, u, op)
        PROVE  ShowsNobody(t)'
    <2>1. /\ token' = token /\ status' = status /\ c \in Processes
          /\ Sent(request'[c], u, op, token[u], cookie)
          /\ \A q \in Processes \ {c} : request'[q] = request[q]
      BY <1>3, BeginMoves
    <2> QED
      BY <1>2, <2>1, ShowsNobodyGoesOn DEF Sent
  <1>4. ASSUME NEW p \in Processes, Serve(p) PROVE ShowsNobody(t)'
    <2>1. /\ token' = token /\ status' = status
          /\ request'[p].op = request[p].op /\ request'[p].tab = request[p].tab
          /\ request'[p].token = None
          /\ \A q \in Processes \ {p} : request'[q] = request[q]
      BY <1>4, ServeMoves
    <2>2. ASSUME request[p].op = "me", request[p].token = None PROVE request'[p].answer # "ok"
      <3>1. Answer(p, "denied", None)
        BY <1>4, <2>2 DEF Serve, RefuseLogin, ServeLogin, ServeRefresh, ServeLogout, ServeMe,
               Arrived, Refreshes
      <3>2. request \in [Processes -> Jobs]
        BY DEF Typed, RequestsTyped
      <3> QED
        BY <3>1, <3>2, AnswerIs
    <2>3. request[p].op = "me" /\ request[p].tab = t => request[p].token = None
      BY <1>2, <2>1 DEF ShowsNobody
    <2> QED
      BY <1>2, <2>1, <2>2, <2>3, ShowsNobodyGoesOn
  <1>5. ASSUME NEW c \in Calls, LoginOk(c) PROVE ShowsNobody(t)'
    <2>1. /\ token' = [token EXCEPT ![request[c].tab] = request[c].pair] /\ status' = status
          /\ token'[request[c].tab] # None
          /\ request'[c].tab = request[c].tab
          /\ \A q \in Processes \ {c} : request'[q] = request[q]
      <3>1. /\ token' = [token EXCEPT ![request[c].tab] = request[c].pair] /\ status' = status
            /\ token'[request[c].tab] = request[c].pair /\ request[c].pair # None
            /\ Sent(request'[c], request[c].tab, "me", request[c].pair, request[c].pair)
            /\ \A q \in Processes \ {c} : request'[q] = request[q]
        BY <1>5, LoginOkMoves
      <3>2. request'[c].tab = request[c].tab
        BY <3>1 DEF Sent
      <3> QED
        BY <3>1, <3>2
    <2>2. request'[c].tab # t
      BY <2>1
    <2>3. token[t] = None
      BY <2>1, <2>2 DEF Typed, BrowserTyped
    <2> QED
      BY <1>2, <2>1, <2>2, <2>3, ShowsNobodyGoesOn
  <1>6. ASSUME NEW c \in Calls, Denied(c) PROVE ShowsNobody(t)'
    <2>1. token' = token /\ status' = status
      BY <1>6, DeniedKeeps
    <2>2. /\ c \in Processes /\ request'[c].answer = "none"
          /\ request'[c].token = request[c].token /\ request'[c].op = request[c].op
          /\ request'[c].tab = request[c].tab
          /\ \A q \in Processes \ {c, request[c].tab} : request'[q] = request[q]
          /\ \/ request'[request[c].tab] = request[request[c].tab]
             \/ request'[request[c].tab].op = "tryRefresh"
      BY <1>6, DeniedMoves DEF Sent
    <2>3. ShowsNobody(t)
      BY <1>2, <2>1
    <2>4. request[c].op = "me" /\ request[c].tab = t => request[c].token = None
      BY <2>2, <2>3 DEF ShowsNobody
    <2> QED
      BY <2>1, <2>2, <2>3, <2>4, ShowsNobodyGoesOn
  <1>7. ASSUME NEW c \in Calls, Deliver(c), ~LoginOk(c), ~Denied(c) PROVE ShowsNobody(t)'
    <2>1. /\ Throw(c) \/ RefreshOk(c) \/ LogoutOk(c) \/ LogoutFails(c)
                \/ ProfileOk(c) \/ ProfileFails(c)
          /\ request'[c] = Idle /\ c \in Processes /\ request[c].tab \in Tabs
          /\ \A q \in Processes \ {c} : request'[q] = request[q]
      BY <1>7, SettleMoves
    <2>2. ASSUME token[t] = None, status'[t] \in {"unauthenticated", status[t]}
          PROVE  ShowsNobody(t)'
      <3>1. \A q \in Processes : request'[q] = request[q] \/ request'[q].op # "me"
        BY <2>1, IdleIs
      <3> QED
        BY <1>2, <2>2, <3>1, ShowsNobodyGoesOn
    <2>3. token \in [Tabs -> Tokens \cup {None}] /\ status \in [Tabs -> Statuses]
      BY DEF Typed, BrowserTyped
    <2>4. CASE Throw(c)
      BY <2>2, <2>4 DEF Throw, browser
    <2>5. CASE RefreshOk(c)
      <3>1. request[c].pair # None
        BY <2>1, <2>5 DEF Typed, RequestsTyped, Sound, RefreshOk, Answered, Refreshes
      <3>2. token' = [token EXCEPT ![request[c].tab] = request[c].pair] /\ status' = status
        BY <2>5 DEF RefreshOk
      <3> QED
        BY <2>1, <2>2, <2>3, <3>1, <3>2
    <2>6. CASE LogoutOk(c)
      <3>1. /\ token' = [token EXCEPT ![request[c].tab] = None]
            /\ status' = [status EXCEPT ![request[c].tab] = "unauthenticated"]
            /\ request[c].op = "logout" /\ races' = races
        BY <2>6 DEF LogoutOk, ForgetToken, Answered
      <3>2. CASE request[c].tab # t
        BY <2>2, <2>3, <3>1, <3>2
      <3>3. CASE request[c].tab = t
        <4>1. status'[t] = "unauthenticated"
          BY <2>3, <3>1, <3>3
        <4>2. ASSUME NEW q \in Processes, request'[q].op = "me", request'[q].tab = t PROVE FALSE
          <5>1. q # c /\ request'[q] = request[q]
            BY <2>1, <4>2, IdleIs
          <5>2. Noted(q, c)
            BY <2>1, <5>1 DEF OverlapsNoted
          <5> QED
            BY <1>1, <3>1, <3>3, <4>2, <5>1, <5>2 DEF Noted, Flying, Excused
        <4> QED
          BY <4>1, <4>2 DEF ShowsNobody
      <3> QED
        BY <3>2, <3>3
    <2>7. CASE LogoutFails(c)
      BY <2>7 DEF LogoutFails, Excused
    <2>8. CASE ProfileOk(c)
      <3>1. /\ status' = [status EXCEPT ![request[c].tab] = "authenticated"] /\ token' = token
            /\ request[c].op = "me" /\ request[c].answer = "ok"
        BY <2>8 DEF ProfileOk, Answered
      <3>2. request[c].tab # t
        BY <1>2, <2>1, <3>1 DEF ShowsNobody
      <3> QED
        BY <2>2, <2>3, <3>1, <3>2
    <2>9. CASE ProfileFails(c)
      <3>1. status' = FailedStatus({c}) /\ token' = token
        BY <2>9 DEF ProfileFails
      <3> QED
        BY <2>2, <3>1, FailedStatusIs
    <2> QED
      BY <2>1, <2>4, <2>5, <2>6, <2>7, <2>8, <2>9
  <1>8. ASSUME NEW u \in Tabs, TryRefreshOk(u) PROVE ShowsNobody(t)'
    <2>1. /\ token' = [token EXCEPT ![u] = request[u].pair] /\ request[u].pair # None
          /\ request'[u] = Idle /\ status' = status
          /\ \A p \in Waiters(u) : request'[p].tab = u
          /\ \A p \in Processes \ (Waiters(u) \cup {u}) : request'[p] = request[p]
      <3>1. /\ token' = [token EXCEPT ![u] = request[u].pair] /\ request[u].pair \in Tokens
            /\ request'[u] = Idle
            /\ \A p \in Waiters(u) :
                  Sent(request'[p], u, request[p].op, request[u].pair, request[u].pair)
            /\ \A p \in Processes \ (Waiters(u) \cup {u}) : request'[p] = request[p]
        BY <1>8, TryRefreshOkMoves
      <3>2. \A p \in Waiters(u) : request'[p].tab = u
        BY <3>1 DEF Sent
      <3>3. status' = status /\ request[u].pair # None
        BY <1>8, <3>1, NoneIsNoPair DEF TryRefreshOk, Tokens
      <3> QED
        BY <3>1, <3>2, <3>3
    <2>2. u # t /\ token[t] = None
      BY <2>1 DEF Typed, BrowserTyped
    <2> QED
      BY <1>2, <2>1, <2>2, IdleIs, ShowsNobodyGoesOn
  <1>9. ASSUME NEW u \in Tabs, TryRefreshFails(u) PROVE ShowsNobody(t)'
    <2>1. CASE u = t
      BY <1>9, <2>1, FailedRefreshShowsNobody
    <2>2. CASE u # t
      <3>1. token' = [token EXCEPT ![u] = None] /\ status' = FailedStatus(Resumed(u))
        BY <1>9 DEF TryRefreshFails, ForgetToken
      <3>2. token[t] = None
        BY <2>2, <3>1 DEF Typed, BrowserTyped
      <3>3. \A p \in Processes : request'[p] = request[p] \/ request'[p].op # "me"
        BY <1>9, TryRefreshFailsMoves, IdleIs
      <3> QED
        BY <1>2, <3>1, <3>2, <3>3, FailedStatusIs, ShowsNobodyGoesOn
    <2> QED
      BY <2>1, <2>2
  <1>10. CASE UNCHANGED <<token, status, request>>
    BY <1>2, <1>10, ShowsNobodyGoesOn
  <1> QED
    BY <1>3, <1>4, <1>5, <1>6, <1>7, <1>8, <1>9, <1>10
       DEF Next, Deliver, RevokeElsewhere, ExpireToken, Processes, browser, vars
-------------------------------------------------------------------------------
(* Where the sessions of the requests and of the cookie come from. *)

FlowsFrom(p, s) ==
    /\ Announces(request'[p]) => request'[p] = request[p] \/ \E u \in Sessions : ServeLogin(p, u)
    /\ Bears(request'[p], s) => Bears(request[p], s) \/ Of(cookie, s) \/ ServeLogin(p, s)
    /\ Moving(request'[p]) /\ Bears(request'[p], s) =>
          Of(cookie, s) \/ (Moving(request[p]) /\ Bears(request[p], s))
    /\ Of(cookie', s) =>
          \/ Of(cookie, s)
          \/ \E x \in Processes : /\ Bears(request[x], s) /\ ~Announces(request'[x])
                                  /\ Moving(request[x]) \/ LoginOk(x)

(* A request that is new has its session from the cookie. *)
LEMMA SentBears ==
    ASSUME NEW r, NEW t, NEW op, NEW x, NEW jar, Sent(r, t, op, x, jar), NEW s
    PROVE  /\ ~Announces(r)
           /\ Bears(r, s) => Of(jar, s) /\ op \notin {"me", "login"}
  BY DEF Sent, Announces, Bears, Of

(* A process without a request has no session. *)
LEMMA IdleBears ==
    ASSUME NEW s
    PROVE  ~Bears(Idle, s) /\ ~Announces(Idle) /\ ~Moving(Idle)
  BY IdleIs DEF Bears, Of, Announces, Moving, Refreshes

(* What a request bears when it is served. *)
LEMMA ServeBears ==
    ASSUME Typed, NEW p \in Processes, Serve(p), NEW s
    PROVE  /\ Bears(request'[p], s) => Bears(request[p], s) \/ ServeLogin(p, s)
           /\ Announces(request'[p]) => \E u \in Sessions : ServeLogin(p, u)
  <1>1. /\ request \in [Processes -> Jobs] /\ current \in [Sessions -> Nat]
        /\ Sound(p, request[p], current) /\ active \subseteq Sessions
    BY DEF Typed, RequestsTyped, ServerTyped
  <1>2. request'[p].cookie \in {None, request[p].cookie}
    BY ServeMoves
  <1>3. CASE RefuseLogin(p) \/ ServeLogout(p) \/ ServeMe(p)
    <2>1. PICK answer \in {"ok", "denied"} : Answer(p, answer, None)
      BY <1>3 DEF RefuseLogin, ServeLogout, ServeMe
    <2>2. request'[p].pair = None
      BY <1>1, <2>1, AnswerIs
    <2> QED
      BY <1>2, <2>2 DEF Bears, Of, Announces
  <1>4. ASSUME NEW u \in Sessions, ServeLogin(p, u)
        PROVE  Bears(request'[p], s) => Bears(request[p], s) \/ ServeLogin(p, s)
    <2> DEFINE pair == [session |-> u, generation |-> 1]
    <2>1. pair \in Tokens /\ pair.session = u /\ Answer(p, "ok", pair)
      BY <1>4 DEF Tokens, ServeLogin
    <2>2. request'[p].pair = pair
      <3> HIDE DEF pair
      <3> QED BY <1>1, <2>1, AnswerIs
    <2> QED
      BY <1>2, <1>4, <2>1, <2>2 DEF Bears, Of
  <1>5. CASE ServeRefresh(p)
    <2>1. request[p].op \in Refreshes /\ request'[p].op = request[p].op
      BY <1>5, ServeMoves DEF ServeRefresh, Arrived
    <2>2. request'[p].pair = None \/ Of(request[p].cookie, request'[p].pair.session)
      <3>1. CASE Answer(p, "denied", None)
        BY <1>1, <3>1, AnswerIs
      <3>2. CASE ~Answer(p, "denied", None)
        <4> DEFINE u == request[p].cookie.session
                   pair == [session |-> u, generation |-> current[u] + 1]
        <4>1. request[p].cookie # None /\ u \in Sessions /\ Answer(p, "ok", pair)
          BY <1>1, <1>5, <3>2 DEF ServeRefresh
        <4>2. pair \in Tokens /\ pair.session = u
          BY <1>1, <4>1 DEF Tokens
        <4>3. request'[p].pair = pair
          <5> HIDE DEF pair
          <5> QED BY <1>1, <4>1, <4>2, AnswerIs
        <4> QED
          BY <4>1, <4>2, <4>3 DEF Of
      <3> QED
        BY <3>1, <3>2
    <2> QED
      BY <1>2, <2>1, <2>2 DEF Bears, Of, Announces, Refreshes
  <1> QED
    BY <1>3, <1>4, <1>5 DEF Serve

(* Sessions flow from the cookie to requests, and back. *)
LEMMA Flows ==
    ASSUME Typed, [Next]_vars, NEW p \in Processes, NEW s
    PROVE  FlowsFrom(p, s)
  <1>1. ASSUME NEW c \in Calls, NEW t \in Tabs, NEW op \in Called, Begin(c, t, op)
        PROVE  FlowsFrom(p, s)
    <2>1. /\ cookie' = cookie /\ Sent(request'[c], t, op, token[t], cookie)
          /\ \A q \in Processes \ {c} : request'[q] = request[q]
      BY <1>1, BeginMoves
    <2> QED
      BY <2>1, SentBears DEF FlowsFrom
  <1>2. ASSUME NEW q \in Processes, Serve(q) PROVE FlowsFrom(p, s)
    <2>1. /\ cookie' = cookie /\ request'[q].op = request[q].op
          /\ \A x \in Processes \ {q} : request'[x] = request[x]
      BY <1>2, ServeMoves
    <2>2. CASE p # q
      BY <2>1, <2>2 DEF FlowsFrom
    <2>3. CASE p = q
      <3>1. /\ Bears(request'[p], s) => Bears(request[p], s) \/ ServeLogin(p, s)
            /\ Announces(request'[p]) => \E u \in Sessions : ServeLogin(p, u)
        BY <1>2, <2>3, ServeBears
      <3>2. ServeLogin(p, s) => ~Moving(request[p])
        BY DEF ServeLogin, Arrived, Moving, Refreshes
      <3> QED
        BY <2>1, <2>3, <3>1, <3>2 DEF FlowsFrom, Moving
    <2> QED
      BY <2>2, <2>3
  <1>3. ASSUME NEW c \in Calls, LoginOk(c) PROVE FlowsFrom(p, s)
    <2>1. /\ cookie' = request[c].pair /\ c \in Processes
          /\ Sent(request'[c], request[c].tab, "me", request[c].pair, request[c].pair)
          /\ \A q \in Processes \ {c} : request'[q] = request[q]
      BY <1>3, LoginOkMoves
    <2>2. ~Announces(request'[c]) /\ ~Bears(request'[c], s)
      BY <2>1, SentBears
    <2>3. Of(cookie', s) => Bears(request[c], s)
      BY <2>1 DEF Bears, Of
    <2> QED
      BY <1>3, <2>1, <2>2, <2>3 DEF FlowsFrom
  <1>4. ASSUME NEW c \in Calls, Denied(c) PROVE FlowsFrom(p, s)
    <2> DEFINE t == request[c].tab
    <2>1. cookie' = cookie
      BY <1>4, DeniedKeeps
    <2>2. /\ request'[c].cookie = request[c].cookie /\ request'[c].pair = request[c].pair
          /\ request'[c].op = request[c].op /\ request[c].answer = "denied" /\ c \in Processes
          /\ \A q \in Processes \ {c, t} : request'[q] = request[q]
          /\ request[t] # Idle => request'[t] = request[t]
          /\ request[t] = Idle => Sent(request'[t], t, "tryRefresh", token[t], cookie)
      BY <1>4, DeniedMoves
    <2>3. ~Announces(request[c])
      BY <2>2 DEF Typed, RequestsTyped, Sound, Announces
    <2>4. CASE p = c
      BY <2>1, <2>2, <2>3, <2>4 DEF FlowsFrom, Bears, Announces, Moving
    <2>5. CASE p # c
      BY <2>1, <2>2, <2>5, SentBears DEF FlowsFrom
    <2> QED
      BY <2>4, <2>5
  <1>5. ASSUME NEW c \in Calls, Deliver(c), ~LoginOk(c), ~Denied(c) PROVE FlowsFrom(p, s)
    <2>1. /\ Throw(c) \/ RefreshOk(c) \/ LogoutOk(c) \/ LogoutFails(c)
                \/ ProfileOk(c) \/ ProfileFails(c)
          /\ request'[c] = Idle /\ c \in Processes
          /\ \A q \in Processes \ {c} : request'[q] = request[q]
      BY <1>5, SettleMoves
    <2>2. Of(cookie', s) => Of(cookie, s) \/ (Bears(request[c], s) /\ Moving(request[c]))
      <3>1. CASE RefreshOk(c)
        BY <3>1 DEF RefreshOk, Answered, Of, Bears, Moving, Refreshes
      <3>2. CASE ~RefreshOk(c)
        <4>1. cookie' = cookie \/ cookie' = None
          BY <2>1, <3>2 DEF Throw, LogoutOk, LogoutFails, ProfileOk, ProfileFails, browser
        <4> QED
          BY <4>1 DEF Of
      <3> QED
        BY <3>1, <3>2
    <2> QED
      BY <2>1, <2>2, IdleBears DEF FlowsFrom
  <1>6. ASSUME NEW t \in Tabs, TryRefreshOk(t) PROVE FlowsFrom(p, s)
    <2>1. /\ t \in Processes /\ request'[t] = Idle /\ request[t].op = "tryRefresh"
          /\ cookie' = request[t].pair
          /\ \A q \in Waiters(t) :
                Sent(request'[q], t, request[q].op, request[t].pair, request[t].pair)
          /\ \A q \in Processes \ (Waiters(t) \cup {t}) : request'[q] = request[q]
      BY <1>6, TryRefreshOkMoves
    <2>2. Of(cookie', s) => Bears(request[t], s) /\ Moving(request[t])
      BY <2>1 DEF Of, Bears, Moving, Refreshes
    <2>3. ASSUME p \in Waiters(t) PROVE ~Bears(request'[p], s) /\ ~Announces(request'[p])
      <3>1. request[p].op \in {"me", "login"}
        BY <2>3 DEF Typed, RequestsTyped, Sound, Waiters
      <3> QED
        BY <2>1, <2>3, <3>1, SentBears
    <2>4. Of(cookie', s) => \E x \in Processes : /\ Bears(request[x], s) /\ ~Announces(request'[x])
                                                 /\ Moving(request[x]) \/ LoginOk(x)
      BY <2>1, <2>2, IdleBears
    <2> QED
      BY <2>1, <2>3, <2>4, IdleBears DEF FlowsFrom
  <1>7. ASSUME NEW t \in Tabs, TryRefreshFails(t) PROVE FlowsFrom(p, s)
    <2>1. /\ request'[t] = Idle /\ cookie' = cookie
          /\ \A q \in Waiters(t) : request'[q] = Idle
          /\ \A q \in Processes \ (Waiters(t) \cup {t}) : request'[q] = request[q]
      BY <1>7, TryRefreshFailsMoves DEF TryRefreshFails
    <2> QED
      BY <2>1, IdleBears DEF FlowsFrom
  <1>8. CASE UNCHANGED <<request, cookie>>
    BY <1>8 DEF FlowsFrom
  <1> QED
    BY <1>1, <1>2, <1>3, <1>4, <1>5, <1>6, <1>7, <1>8
       DEF Next, Deliver, RevokeElsewhere, ExpireToken, Processes, browser, vars

(* A session that is opened was nobody's. *)
LEMMA OpenedIsNew ==
    ASSUME Typed, NEW p, NEW s \in Sessions, ServeLogin(p, s)
    PROVE  /\ ~Of(cookie, s) /\ s \notin active
           /\ \A q \in Processes : ~Bears(request[q], s)
  <1>1. current[s] = 0
    BY DEF ServeLogin
  <1>2. \A x : Held(x, current) => ~Of(x, s)
    BY <1>1 DEF Held, Issued, Of, Tokens
  <1>3. Held(cookie, current) /\ (\A u \in active : 1 <= current[u])
    BY DEF Typed, BrowserTyped, ServerTyped
  <1>4. \A q \in Processes : Held(request[q].cookie, current) /\ Held(request[q].pair, current)
    BY DEF Typed, RequestsTyped, Sound
  <1> QED
    BY <1>1, <1>2, <1>3, <1>4 DEF Bears

(* Which request announces which session. *)
LEMMA OpenedIsAnnounced ==
    ASSUME Typed, NEW p \in Processes, NEW s \in Sessions, ServeLogin(p, s)
    PROVE  /\ request'[p].pair = [session |-> s, generation |-> 1]
           /\ request'[p].pair.session = s /\ request'[p].cookie = None
           /\ request[p].op = "login" /\ \A q \in Processes \ {p} : request'[q] = request[q]
  <1> DEFINE pair == [session |-> s, generation |-> 1]
  <1>1. request \in [Processes -> Jobs]
    BY DEF Typed, RequestsTyped
  <1>2. pair \in Tokens /\ pair.session = s /\ Answer(p, "ok", pair) /\ request[p].op = "login"
    BY DEF Tokens, ServeLogin, Arrived
  <1> HIDE DEF pair
  <1>3. request'[p].pair = pair /\ request'[p].cookie = None
        /\ \A q \in Processes \ {p} : request'[q] = request[q]
    BY <1>1, <1>2, AnswerIs
  <1> QED
    BY <1>2, <1>3 DEF pair

(* Sessions that are announced stay nobody else's. *)
LEMMA LoginsApartStep == Typed /\ LoginsApart /\ [Next]_vars => LoginsApart'
  <1> SUFFICES ASSUME Typed, LoginsApart, [Next]_vars, NEW q \in Processes, NEW s,
                      Announces(request'[q]), s = request'[q].pair.session
               PROVE  ~Of(cookie', s) /\ \A p \in Processes \ {q} : ~Bears(request'[p], s)
    BY DEF LoginsApart
  <1>1. CASE request'[q] = request[q]
    <2>1. ~Of(cookie, s) /\ \A p \in Processes \ {q} : ~Bears(request[p], s)
      BY <1>1 DEF LoginsApart
    <2>2. ~Of(cookie', s)
      BY <1>1, <2>1, Flows DEF FlowsFrom
    <2>3. ASSUME NEW p \in Processes \ {q}, Bears(request'[p], s) PROVE FALSE
      <3>1. ServeLogin(p, s)
        BY <2>1, <2>3, Flows DEF FlowsFrom
      <3>2. Bears(request[q], s)
        BY <1>1 DEF Bears, Of, Announces
      <3>3. s \in Sessions
        BY <1>1 DEF Typed, RequestsTyped, Sound, Held, Issued, Tokens, Announces
      <3> QED
        BY <3>1, <3>2, <3>3, OpenedIsNew
    <2> QED
      BY <2>2, <2>3
  <1>2. ASSUME NEW u \in Sessions, ServeLogin(q, u)
        PROVE  ~Of(cookie', s) /\ \A p \in Processes \ {q} : ~Bears(request'[p], s)
    <2>1. s = u /\ \A p \in Processes \ {q} : request'[p] = request[p]
      BY <1>2, OpenedIsAnnounced
    <2>2. cookie' = cookie
      BY <1>2 DEF ServeLogin, browser
    <2> QED
      BY <1>2, <2>1, <2>2, OpenedIsNew
  <1>3. request'[q] = request[q] \/ \E u \in Sessions : ServeLogin(q, u)
    BY Flows DEF FlowsFrom
  <1> QED
    BY <1>1, <1>2, <1>3

-------------------------------------------------------------------------------
(* Every refresh token that may still be presented is current. *)

(* What is current stays so while the server rotates nothing. *)
LEMMA FreshGoesOn ==
    ASSUME NEW x, NEW live, NEW less, NEW now, less \subseteq live, Fresh(x, live, now)
    PROVE  Fresh(x, less, now)
  BY DEF Fresh

(* The server rotates nothing and the browser keeps the order. *)
LEMMA FreshKept ==
    ASSUME AllFresh, current' = current, active' \subseteq active, ~burned',
           \A p \in Processes :
              /\ request'[p].pair \in {None, request[p].pair}
              /\ request'[p].op \in Refreshes =>
                    \/ request'[p].cookie = None
                    \/ request[p].op \in Refreshes /\ request'[p].cookie = request[p].cookie
                    \/ request'[p].cookie = cookie /\ Fresh(cookie, active, current),
           \/ cookie' = None \/ (\E x \in Processes : cookie' = request[x].pair)
           \/ /\ cookie' = cookie
              /\ \A r \in Processes : Replaces(r) => request'[r] = request[r]
    PROVE  AllFresh'
  <1>1. \A x : Fresh(x, active, current) => Fresh(x, active', current')
    BY FreshGoesOn
  <1>2. ASSUME NEW p \in Processes
        PROVE  /\ Fresh(request'[p].pair, active', current')
               /\ request'[p].op \in Refreshes => Fresh(request'[p].cookie, active', current')
    <2>1. Fresh(None, active, current)
      BY DEF Fresh
    <2> QED
      BY <1>1, <2>1 DEF AllFresh
  <1>3. CookieFresh'
    <2>1. CASE cookie' = None
      BY <2>1 DEF CookieFresh, Fresh
    <2>2. CASE \E x \in Processes : cookie' = request[x].pair
      BY <1>1, <2>2 DEF AllFresh, CookieFresh
    <2>3. CASE cookie' = cookie /\ \A r \in Processes : Replaces(r) => request'[r] = request[r]
      <3>1. CASE Fresh(cookie, active, current)
        BY <1>1, <2>3, <3>1 DEF CookieFresh
      <3>2. CASE ~Fresh(cookie, active, current)
        <4>1. PICK r \in Processes : Replaces(r)
          BY <3>2 DEF AllFresh, CookieFresh
        <4> QED
          BY <2>3, <4>1 DEF CookieFresh, Replaces
      <3> QED
        BY <3>1, <3>2
    <2> QED
      BY <2>1, <2>2, <2>3
  <1> QED
    BY <1>2, <1>3 DEF AllFresh

(* Two refreshes under way have been noted. *)
LEMMA RefreshesNoted ==
    ASSUME OverlapsNoted, ~RefreshRaced, NEW p \in Processes, NEW q \in Processes,
           request[p].op \in Refreshes, request[q].op \in Refreshes
    PROVE  p = q
  BY DEF OverlapsNoted, Noted, Flying

(* When a refresh starts, the cookie is current. *)
LEMMA StartsFresh ==
    ASSUME AllFresh, OverlapsNoted', ~RefreshRaced', NEW x \in Processes,
           request'[x].op \in Refreshes, request'[x].pair = None,
           \A r \in Processes : request[r].op \in Refreshes => request'[r] = request[r]
    PROVE  Fresh(cookie, active, current)
  <1> SUFFICES ASSUME NEW r \in Processes, Replaces(r) PROVE FALSE
    BY DEF AllFresh, CookieFresh
  <1>1. request'[r] = request[r] /\ request[r].op \in Refreshes /\ request[r].pair # None
    BY DEF Replaces
  <1>2. r # x
    BY <1>1
  <1>3. Noted(r, x)'
    BY <1>2 DEF OverlapsNoted
  <1> QED
    BY <1>1, <1>3 DEF Noted, Flying

(* The server serves. *)
LEMMA ServeKeepsFresh ==
    ASSUME Typed, OverlapsNoted, LoginsApart, ~RefreshRaced, AllFresh, NEW p \in Processes, Serve(p)
    PROVE  AllFresh'
  <1>1. /\ cookie' = cookie /\ request[p].step = "sent" /\ request'[p].op = request[p].op
        /\ request'[p].cookie = IF request[p].op = "logout" THEN request[p].cookie ELSE None
        /\ \A q \in Processes \ {p} : request'[q] = request[q]
    BY ServeMoves
  <1>2. /\ request \in [Processes -> Jobs] /\ current \in [Sessions -> Nat]
        /\ Sound(p, request[p], current) /\ active \subseteq Sessions
    BY DEF Typed, RequestsTyped, ServerTyped
  <1>3. request[p].pair = None
    BY <1>1, <1>2 DEF Sound
  <1>4. ~Replaces(p)
    BY <1>3 DEF Replaces
  <1>5. ASSUME current' = current, active' \subseteq active, ~burned', request'[p].pair = None
        PROVE  AllFresh'
    BY <1>1, <1>3, <1>4, <1>5, FreshKept DEF Refreshes
  <1>6. CASE RefuseLogin(p) \/ ServeLogout(p) \/ ServeMe(p)
    <2>1. PICK answer \in {"ok", "denied"} : Answer(p, answer, None)
      BY <1>6 DEF RefuseLogin, ServeLogout, ServeMe
    <2>2. request'[p].pair = None
      BY <1>2, <2>1, AnswerIs
    <2>3. current' = current /\ active' \subseteq active /\ burned' = burned
      BY <1>6 DEF RefuseLogin, ServeLogout, ServeMe, server, history
    <2>4. ~burned'
      BY <2>3 DEF AllFresh
    <2> QED
      BY <1>5, <2>2, <2>3, <2>4
  <1>7. ASSUME NEW s \in Sessions, ServeLogin(p, s) PROVE AllFresh'
    <2>1. /\ current' = [current EXCEPT ![s] = 1] /\ active' = active \cup {s} /\ burned' = burned
          /\ request[p].op = "login"
      BY <1>7 DEF ServeLogin, history, Arrived
    <2>2. /\ request'[p].pair.session = s /\ request'[p].pair.generation = 1
          /\ request'[p].pair \in Tokens
      <3>1. request'[p].pair = [session |-> s, generation |-> 1]
        BY <1>7, OpenedIsAnnounced
      <3> QED
        BY <3>1 DEF Tokens
    <2>3. \A x : Fresh(x, active, current) /\ Held(x, current) /\ ~Of(x, s) =>
                    Fresh(x, active', current')
      BY <1>2, <2>1 DEF Fresh, Of, Held, Issued, Tokens
    <2>4. Fresh(request'[p].pair, active', current')
      BY <1>2, <2>1, <2>2 DEF Fresh
    <2>5. ~Of(cookie, s) /\ \A q \in Processes : ~Bears(request[q], s)
      BY <1>7, OpenedIsNew
    <2>6. /\ Held(cookie, current)
          /\ \A q \in Processes : Held(request[q].cookie, current) /\ Held(request[q].pair, current)
      BY DEF Typed, BrowserTyped, RequestsTyped, Sound
    <2>7. ASSUME NEW q \in Processes
          PROVE  /\ Fresh(request'[q].pair, active', current')
                 /\ request'[q].op \in Refreshes => Fresh(request'[q].cookie, active', current')
      <3>1. CASE q = p
        BY <1>1, <2>1, <2>4, <3>1 DEF Refreshes
      <3>2. CASE q # p
        <4>1. ~Of(request[q].cookie, s) /\ ~Of(request[q].pair, s)
          BY <2>5 DEF Bears
        <4> QED
          BY <1>1, <2>3, <2>6, <3>2, <4>1 DEF AllFresh
      <3> QED
        BY <3>1, <3>2
    <2>8. CookieFresh'
      <3>1. CASE Fresh(cookie, active, current)
        BY <1>1, <2>3, <2>5, <2>6, <3>1 DEF CookieFresh
      <3>2. CASE ~Fresh(cookie, active, current)
        <4>1. PICK r \in Processes : Replaces(r)
          BY <3>2 DEF AllFresh, CookieFresh
        <4>2. request'[r] = request[r]
          BY <1>1, <1>4, <4>1
        <4> QED
          BY <1>1, <4>1, <4>2 DEF CookieFresh, Replaces
      <3> QED
        BY <3>1, <3>2
    <2> QED
      BY <2>1, <2>7, <2>8 DEF AllFresh
  <1>8. CASE ServeRefresh(p)
    <2> DEFINE presented == request[p].cookie
               s == presented.session
               next == [session |-> s, generation |-> current[s] + 1]
    <2>1. request[p].op \in Refreshes /\ Fresh(presented, active, current)
      BY <1>8 DEF ServeRefresh, Arrived, AllFresh
    <2>2. presented # None => s \in Sessions /\ current[s] \in Nat /\ presented.generation \in Nat
      BY <1>2 DEF Sound, Held, Issued, Tokens
    <2>3. CASE Answer(p, "denied", None)
      <3>1. request'[p].pair = None
        BY <1>2, <2>3, AnswerIs
      <3>2. current' = current /\ active' \subseteq active /\ ~burned'
        <4>1. presented # None /\ s \in active => ~(presented.generation < current[s])
          BY <2>1, <2>2 DEF Fresh
        <4>2. \/ UNCHANGED <<current, active, burned>>
              \/ /\ presented # None /\ (s \notin active \/ presented.generation < current[s])
                  /\ active' = active \ {s} /\ burned' = (burned \/ s \in active)
                  /\ current' = current
              \/ Answer(p, "ok", next) /\ presented # None
          BY <1>8 DEF ServeRefresh
        <4>3. ~(Answer(p, "ok", next) /\ presented # None)
          <5>1. PICK x : x = next
            OBVIOUS
          <5>2. presented # None => x \in Tokens
            BY <2>2, <5>1 DEF Tokens
          <5>3. Answer(p, "ok", x) /\ presented # None => request'[p].answer = "ok"
            BY <1>2, <5>2, AnswerIs
          <5>4. request'[p].answer = "denied"
            BY <1>2, <2>3, AnswerIs
          <5> QED
            BY <5>1, <5>3, <5>4
        <4>4. ~burned
          BY DEF AllFresh
        <4>5. CASE UNCHANGED <<current, active, burned>>
          BY <4>4, <4>5
        <4>6. CASE /\ presented # None /\ (s \notin active \/ presented.generation < current[s])
                   /\ active' = active \ {s} /\ burned' = (burned \/ s \in active)
                   /\ current' = current
          <5>1. s \notin active
            BY <4>1, <4>6
          <5>2. ~burned'
            BY <4>4, <4>6, <5>1
          <5> QED
            BY <4>6, <5>2
        <4> QED
          BY <4>2, <4>3, <4>5, <4>6
      <3> QED
        BY <1>5, <3>1, <3>2
    <2>4. CASE ~Answer(p, "denied", None)
      <3>1. /\ presented # None /\ current' = [current EXCEPT ![s] = @ + 1]
            /\ UNCHANGED <<active, burned>> /\ Answer(p, "ok", next)
        BY <1>8, <2>4 DEF ServeRefresh
      <3>2. next \in Tokens /\ next.session = s /\ next.generation = current[s] + 1
        BY <2>2, <3>1 DEF Tokens
      <3>3. request'[p].pair = next
        <4> HIDE DEF next
        <4> QED BY <1>2, <3>1, <3>2, AnswerIs
      <3>4. \A x : Fresh(x, active, current) /\ Held(x, current) /\ ~Of(x, s) =>
                      Fresh(x, active', current')
        BY <1>2, <2>2, <3>1 DEF Fresh, Of, Held, Issued, Tokens
      <3>5. Fresh(next, active', current')
        BY <1>2, <2>2, <3>1, <3>2 DEF Fresh
      <3>6. Bears(request[p], s)
        BY <3>1 DEF Bears, Of
      <3>7. ASSUME NEW q \in Processes
            PROVE  /\ Fresh(request'[q].pair, active', current')
                   /\ request'[q].op \in Refreshes => Fresh(request'[q].cookie, active', current')
        <4>1. CASE q = p
          <5>1. request'[p].cookie = None
            BY <1>1, <2>1 DEF Refreshes
          <5> QED
            BY <3>3, <3>5, <4>1, <5>1 DEF Fresh
        <4>2. CASE q # p
          <5>1. request'[q] = request[q] /\ request[q].op \notin Refreshes
            BY <1>1, <2>1, <4>2, RefreshesNoted
          <5>2. request[q].pair # None => Announces(request[q])
            BY <5>1 DEF Typed, RequestsTyped, Sound, Announces
          <5>3. ~Of(request[q].pair, s)
            BY <3>6, <4>2, <5>2 DEF LoginsApart, Of
          <5>4. Held(request[q].pair, current) /\ Fresh(request[q].pair, active, current)
            BY DEF Typed, RequestsTyped, Sound, AllFresh
          <5> QED
            BY <3>4, <5>1, <5>3, <5>4
        <4> QED
          BY <4>1, <4>2
      <3>8. CookieFresh'
        <4>1. CASE Of(cookie, s)
          <5>1. request'[p].pair # None
            BY <3>2, <3>3, NoneIsNoPair DEF Tokens
          <5>2. Replaces(p)'
            BY <1>1, <2>1, <3>2, <3>3, <4>1, <5>1 DEF Replaces, Of
          <5> QED
            BY <5>2 DEF CookieFresh
        <4>2. CASE ~Of(cookie, s) /\ Fresh(cookie, active, current)
          <5>1. Held(cookie, current)
            BY DEF Typed, BrowserTyped
          <5> QED
            BY <1>1, <3>4, <4>2, <5>1 DEF CookieFresh
        <4>3. CASE ~Fresh(cookie, active, current)
          <5>1. PICK r \in Processes : Replaces(r)
            BY <4>3 DEF AllFresh, CookieFresh
          <5>2. r = p
            BY <2>1, <5>1, RefreshesNoted DEF Replaces
          <5> QED
            BY <1>4, <5>1, <5>2
        <4> QED
          BY <4>1, <4>2, <4>3
      <3> QED
        BY <3>1, <3>7, <3>8 DEF AllFresh
    <2> QED
      BY <2>3, <2>4
  <1> QED
    BY <1>6, <1>7, <1>8 DEF Serve

(* What was current stays current, and a refresh is never told of reuse. *)
LEMMA TokensFreshStep ==
    ASSUME Typed, OverlapsNoted, OverlapsNoted', LoginsApart, TokensFresh, [Next]_vars
    PROVE  TokensFresh'
  <1> SUFFICES ASSUME Orderly' PROVE AllFresh'
    BY DEF TokensFresh
  <1>0. races \subseteq races' /\ mishaps \subseteq mishaps'
    BY HistoryGrows DEF vars, history
  <1>1. Orderly /\ ~RefreshRaced /\ ~RefreshRaced'
    BY <1>0 DEF Orderly, RefreshRaced, Raced
  <1>2. AllFresh /\ ~burned
    BY <1>1 DEF TokensFresh, AllFresh
  <1>3. \A p \in Processes : Sound(p, request[p], current)
    BY DEF Typed, RequestsTyped
  <1>4. \A r \in Processes : Replaces(r) => request[r].op \in Refreshes /\ request[r].answer = "ok"
    BY <1>3 DEF Replaces, Sound
  <1>5. ASSUME NEW c \in Calls, NEW t \in Tabs, NEW op \in Called, Begin(c, t, op)
        PROVE  AllFresh'
    <2>1. /\ UNCHANGED <<current, active, burned, cookie>> /\ c \in Processes /\ request[c] = Idle
          /\ Sent(request'[c], t, op, token[t], cookie)
          /\ \A q \in Processes \ {c} : request'[q] = request[q]
      BY <1>5, BeginMoves
    <2>2. request'[c].op = op /\ request'[c].pair = None
          /\ (op \in Refreshes => request'[c].cookie = cookie)
      BY <2>1 DEF Sent, Refreshes
    <2>3. \A r \in Processes : request[r].op \in Refreshes => request'[r] = request[r]
      BY <2>1, IdleIs DEF Refreshes
    <2>4. op \in Refreshes => Fresh(cookie, active, current)
      BY <1>1, <1>2, <2>1, <2>2, <2>3, StartsFresh
    <2> QED
      BY <1>2, <1>4, <2>1, <2>2, <2>3, <2>4, FreshKept
  <1>6. ASSUME NEW p \in Processes, Serve(p) PROVE AllFresh'
    BY <1>1, <1>2, <1>6, ServeKeepsFresh
  <1>7. ASSUME NEW c \in Calls, LoginOk(c) PROVE AllFresh'
    <2>1. /\ UNCHANGED <<current, active, burned>> /\ c \in Processes
          /\ cookie' = request[c].pair
          /\ Sent(request'[c], request[c].tab, "me", request[c].pair, request[c].pair)
          /\ \A q \in Processes \ {c} : request'[q] = request[q]
      BY <1>7, LoginOkMoves
    <2>2. request'[c].op = "me" /\ request'[c].pair = None
      BY <2>1 DEF Sent
    <2> QED
      BY <1>2, <2>1, <2>2, FreshKept DEF Refreshes
  <1>8. ASSUME NEW c \in Calls, Denied(c) PROVE AllFresh'
    <2> DEFINE t == request[c].tab
    <2>1. UNCHANGED <<current, active, burned, cookie>>
      BY <1>8, DeniedKeeps
    <2>2. /\ c \in Processes /\ t \in Processes
          /\ request[c].op \in {"login", "me"} /\ request'[c].op = request[c].op
          /\ request'[c].pair = request[c].pair
          /\ \A q \in Processes \ {c, t} : request'[q] = request[q]
          /\ request[t] # Idle => request'[t] = request[t]
          /\ request[t] = Idle => Sent(request'[t], t, "tryRefresh", token[t], cookie)
      BY <1>8, DeniedMoves DEF Processes
    <2>3. request[t] = Idle => /\ request'[t].op = "tryRefresh" /\ request'[t].pair = None
                               /\ request'[t].cookie = cookie
      BY <2>2 DEF Sent
    <2>4. \A r \in Processes : request[r].op \in Refreshes => request'[r] = request[r]
      BY <2>2, IdleIs DEF Refreshes
    <2>5. request[t] = Idle => Fresh(cookie, active, current)
      BY <1>1, <1>2, <2>2, <2>3, <2>4, StartsFresh DEF Refreshes
    <2> HIDE DEF t
    <2>6. ASSUME NEW p \in Processes
          PROVE  /\ request'[p].pair \in {None, request[p].pair}
                 /\ request'[p].op \in Refreshes =>
                       \/ request'[p].cookie = None
                       \/ request[p].op \in Refreshes /\ request'[p].cookie = request[p].cookie
                       \/ request'[p].cookie = cookie /\ Fresh(cookie, active, current)
      BY <2>2, <2>3, <2>5 DEF Refreshes
    <2> QED
      BY <1>2, <1>4, <2>1, <2>4, <2>6, FreshKept
  <1>9. ASSUME NEW c \in Calls, Deliver(c), ~LoginOk(c), ~Denied(c) PROVE AllFresh'
    <2>1. /\ Throw(c) \/ RefreshOk(c) \/ LogoutOk(c) \/ LogoutFails(c)
                \/ ProfileOk(c) \/ ProfileFails(c)
          /\ UNCHANGED <<current, active, burned>>
          /\ request'[c] = Idle /\ c \in Processes
          /\ \A q \in Processes \ {c} : request'[q] = request[q]
      BY <1>9, SettleMoves
    <2>2. CASE RefreshOk(c)
      BY <1>2, <2>1, <2>2, IdleIs, FreshKept DEF RefreshOk, Refreshes
    <2>3. CASE LogoutOk(c)
      BY <1>2, <2>1, <2>3, IdleIs, FreshKept DEF LogoutOk, Refreshes
    <2>4. CASE Throw(c)
      <3>1. cookie' = cookie /\ mishaps' = mishaps \cup LostRefresh(c)
        BY <2>4 DEF Throw, browser
      <3>2. ~Replaces(c)
        BY <1>4, <2>1, <3>1 DEF LostRefresh, Orderly
      <3> QED
        BY <1>2, <2>1, <3>1, <3>2, IdleIs, FreshKept DEF Refreshes
    <2>5. CASE LogoutFails(c) \/ ProfileOk(c) \/ ProfileFails(c)
      <3>1. cookie' = cookie /\ request[c].op \notin Refreshes
        BY <2>5 DEF LogoutFails, ProfileOk, ProfileFails, Lost, Answered, Refreshes
      <3>2. ~Replaces(c)
        BY <3>1 DEF Replaces
      <3> QED
        BY <1>2, <2>1, <3>1, <3>2, IdleIs, FreshKept DEF Refreshes
    <2> QED
      BY <2>1, <2>2, <2>3, <2>4, <2>5
  <1>10. ASSUME NEW t \in Tabs, TryRefreshOk(t) PROVE AllFresh'
    <2>1. /\ t \in Processes /\ request'[t] = Idle /\ cookie' = request[t].pair
          /\ \A p \in Waiters(t) :
                Sent(request'[p], t, request[p].op, request[t].pair, request[t].pair)
          /\ \A p \in Processes \ (Waiters(t) \cup {t}) : request'[p] = request[p]
      BY <1>10, TryRefreshOkMoves
    <2>2. \A p \in Waiters(t) : request'[p].op \notin Refreshes /\ request'[p].pair = None
      BY <1>3, <2>1 DEF Sent, Sound, Waiters, Refreshes, Processes
    <2>3. UNCHANGED <<current, active, burned>>
      BY <1>10 DEF TryRefreshOk, server, history
    <2> QED
      BY <1>2, <2>1, <2>2, <2>3, IdleIs, FreshKept DEF Refreshes
  <1>11. ASSUME NEW t \in Tabs, TryRefreshFails(t) PROVE AllFresh'
    <2>1. /\ t \in Processes /\ request'[t] = Idle
          /\ \A p \in Waiters(t) : request'[p] = Idle
          /\ \A p \in Processes \ (Waiters(t) \cup {t}) : request'[p] = request[p]
      BY <1>11, TryRefreshFailsMoves
    <2>2. UNCHANGED <<current, active, burned, cookie>> /\ LostRefresh(t) \subseteq mishaps'
      BY <1>11 DEF TryRefreshFails, server
    <2>3. ~Replaces(t)
      BY <1>4, <2>1, <2>2 DEF LostRefresh, Orderly
    <2>4. \A p \in Waiters(t) : p \in Processes => ~Replaces(p)
      BY <1>3 DEF Replaces, Sound, Waiters, Refreshes
    <2> QED
      BY <1>2, <2>1, <2>2, <2>3, <2>4, IdleIs, FreshKept DEF Refreshes
  <1>12. CASE active' \subseteq active /\ UNCHANGED <<current, burned, cookie, request>>
    BY <1>2, <1>12, FreshKept
  <1> QED
    BY <1>5, <1>6, <1>7, <1>8, <1>9, <1>10, <1>11, <1>12
       DEF Next, Deliver, RevokeElsewhere, ExpireToken, Processes, browser, history, server, vars
-------------------------------------------------------------------------------
(* A logout ends the session that is afoot. *)

(* Sessions come afoot by a sign-in. *)
LEMMA AfootFlows ==
    ASSUME Typed, [Next]_vars, \A c \in Calls : ~LoginOk(c), NEW s, Afoot(s)'
    PROVE  Afoot(s)
  <1>1. \A p \in Processes : FlowsFrom(p, s)
    BY Flows
  <1>2. \A x \in Processes : ~LoginOk(x)
    <2>1. ASSUME NEW x \in Tabs, LoginOk(x) PROVE FALSE
      <3>1. request[x].op = "login"
        BY <2>1 DEF LoginOk, Answered
      <3>2. request[x] # Idle
        BY <3>1, IdleIs
      <3> QED
        BY <3>1, <3>2 DEF Typed, RequestsTyped, Sound, Processes
    <2> QED
      BY <2>1 DEF Processes
  <1>3. CASE Of(cookie', s)
    <2>1. ASSUME NEW p \in Processes PROVE Afoot(s)
      BY <1>1, <1>2, <1>3 DEF FlowsFrom, Afoot
    <2>2. CASE Processes = {}
      <3>1. cookie' = cookie
        BY <2>2 DEF Next, RevokeElsewhere, ExpireToken, Begin, browser, vars, Processes
      <3> QED
        BY <1>3, <3>1 DEF Afoot
    <2> QED
      BY <2>1, <2>2
  <1>4. ASSUME NEW p \in Processes, Moving(request'[p]), Bears(request'[p], s) PROVE Afoot(s)
    BY <1>1, <1>4 DEF FlowsFrom, Afoot
  <1> QED
    BY <1>3, <1>4 DEF Afoot

(* Which sessions become active. *)
LEMMA ActivatedIsNew ==
    ASSUME Typed, [Next]_vars, NEW s \in active', s \notin active
    PROVE  \E p \in Processes : s \in Sessions /\ ServeLogin(p, s)
  <1>1. ASSUME NEW p \in Processes, Serve(p) PROVE s \in Sessions /\ ServeLogin(p, s)
    <2>1. CASE RefuseLogin(p) \/ ServeRefresh(p) \/ ServeLogout(p) \/ ServeMe(p)
      BY <2>1 DEF RefuseLogin, ServeRefresh, ServeLogout, ServeMe, server
    <2>2. ASSUME NEW u \in Sessions, ServeLogin(p, u) PROVE s = u
      BY <2>2 DEF ServeLogin
    <2> QED
      BY <1>1, <2>1, <2>2 DEF Serve
  <1>2. ASSUME NEW p \in Processes, Deliver(p) PROVE FALSE
    BY <1>2 DEF Deliver, LoginOk, Throw, RefreshOk, LogoutOk, LogoutFails, ProfileOk, ProfileFails,
                Denied, TryRefreshOk, TryRefreshFails, server
  <1> QED
    BY <1>1, <1>2 DEF Next, Begin, RevokeElsewhere, ExpireToken, server, vars

(* What is dead stays dead. *)
LEMMA DeadGoesOn ==
    ASSUME Typed, [Next]_vars, \A c \in Calls : ~LoginOk(c), AllDead
    PROVE  AllDead'
  <1> SUFFICES ASSUME NEW s \in Sessions, Afoot(s)', s \in active' PROVE FALSE
    BY DEF AllDead
  <1>1. Afoot(s) /\ s \notin active
    BY AfootFlows DEF AllDead
  <1>2. PICK p \in Processes : ServeLogin(p, s)
    BY <1>1, ActivatedIsNew
  <1> QED
    BY <1>1, <1>2, OpenedIsNew DEF Afoot

(* After a sign-in that raced nothing, its session is the one afoot. *)
LEMMA LoginIsAlone ==
    ASSUME Typed, OverlapsNoted, ~LoginRaced, NEW c \in Calls, LoginOk(c)
    PROVE  /\ LogoutKills' /\ signedOut' = {}
  <1>1. /\ c \in Processes /\ request[c].op = "login" /\ request[c].step = "answered"
        /\ request[c].pair # None /\ cookie' = request[c].pair /\ signedOut' = {}
        /\ Sent(request'[c], request[c].tab, "me", request[c].pair, request[c].pair)
        /\ \A q \in Processes \ {c} : request'[q] = request[q]
    BY LoginOkMoves
  <1>2. request'[c].op = "me"
    BY <1>1 DEF Sent
  <1>3. ASSUME NEW q \in Processes PROVE ~Moving(request'[q])
    <2>1. CASE q = c
      BY <1>2, <2>1 DEF Moving, Refreshes
    <2>2. CASE q # c
      <3>1. Noted(c, q)
        BY <1>1, <2>2 DEF OverlapsNoted
      <3> QED
        BY <1>1, <2>2, <3>1 DEF Noted, Flying, Moving
    <2> QED
      BY <2>1, <2>2
  <1>4. \A s : Afoot(s)' => s = request[c].pair.session
    BY <1>1, <1>3 DEF Afoot, Of
  <1>5. OneSession'
    BY <1>4 DEF OneSession
  <1>6. \A q \in Processes : ~LoggingOut(request'[q])
    BY <1>3 DEF Moving, LoggingOut
  <1> QED
    BY <1>1, <1>5, <1>6 DEF LogoutKills, Ending

(* A logout is under way before the tabs know of it. *)
LEMMA EndsByServing ==
    ASSUME Typed, [Next]_vars, \A c \in Calls : ~LoginOk(c), ~Ending, Ending'
    PROVE  \E p \in Processes : ServeLogout(p)
  <1>0. \A r \in Processes : ~LoggingOut(request[r])
    BY DEF Ending
  <1>1. ASSUME NEW c \in Calls, NEW t \in Tabs, NEW op \in Called, Begin(c, t, op)
        PROVE  FALSE
    <2>1. /\ UNCHANGED <<cookie, signedOut>>
          /\ Sent(request'[c], t, op, token[t], cookie)
          /\ \A q \in Processes \ {c} : request'[q] = request[q]
      BY <1>1, BeginMoves
    <2>2. ~LoggingOut(request'[c])
      BY <2>1 DEF Sent, LoggingOut, Ending
    <2> QED
      BY <1>0, <2>1, <2>2 DEF Ending
  <1>2. ASSUME NEW p \in Processes, Serve(p) PROVE ServeLogout(p)
    <2>1. /\ UNCHANGED <<cookie, signedOut>> /\ request'[p].op = request[p].op
          /\ \A q \in Processes \ {p} : request'[q] = request[q]
      BY <1>2, ServeMoves
    <2>2. request[p].op = "logout"
      BY <1>0, <2>1 DEF Ending, LoggingOut
    <2> QED
      BY <1>2, <2>2 DEF Serve, RefuseLogin, ServeLogin, ServeRefresh, ServeMe, Arrived, Refreshes
  <1>3. ASSUME NEW c \in Calls, Denied(c) PROVE FALSE
    <2> DEFINE t == request[c].tab
    <2>1. UNCHANGED <<cookie, signedOut>>
      BY <1>3, DeniedKeeps
    <2>2. /\ request[c].op \in {"login", "me"} /\ request'[c].op = request[c].op
          /\ \A q \in Processes \ {c, t} : request'[q] = request[q]
          /\ request[t] # Idle => request'[t] = request[t]
          /\ request[t] = Idle => Sent(request'[t], t, "tryRefresh", token[t], cookie)
      BY <1>3, DeniedMoves
    <2>3. request[t] = Idle => request'[t].op = "tryRefresh"
      BY <2>2 DEF Sent
    <2> HIDE DEF t
    <2> QED
      BY <1>0, <2>1, <2>2, <2>3 DEF Ending, LoggingOut
  <1>4. ASSUME NEW c \in Calls, Deliver(c), ~Denied(c) PROVE FALSE
    <2>1. /\ Throw(c) \/ RefreshOk(c) \/ LogoutOk(c) \/ LogoutFails(c)
                \/ ProfileOk(c) \/ ProfileFails(c)
          /\ request'[c] = Idle /\ c \in Processes
          /\ \A q \in Processes \ {c} : request'[q] = request[q]
      BY <1>4, SettleMoves
    <2>2. ~LogoutOk(c)
      BY <1>0, <2>1 DEF LogoutOk, Answered, LoggingOut
    <2>3. signedOut' = signedOut
      BY <2>1, <2>2 DEF Throw, RefreshOk, LogoutFails, ProfileOk, ProfileFails, history
    <2>4. cookie' # None
      <3>1. CASE RefreshOk(c)
        BY <2>1, <3>1 DEF Typed, RequestsTyped, Sound, RefreshOk, Answered, Refreshes
      <3>2. CASE ~RefreshOk(c)
        BY <2>1, <2>2, <3>2 DEF Throw, LogoutFails, ProfileOk, ProfileFails, browser, Ending
      <3> QED
        BY <3>1, <3>2
    <2> QED
      BY <1>0, <2>1, <2>3, <2>4, IdleIs DEF Ending, LoggingOut
  <1>5. ASSUME NEW t \in Tabs, TryRefreshOk(t) PROVE FALSE
    <2>1. /\ request'[t] = Idle /\ cookie' = request[t].pair /\ request[t].pair \in Tokens
          /\ \A p \in Waiters(t) :
                Sent(request'[p], t, request[p].op, request[t].pair, request[t].pair)
          /\ \A p \in Processes \ (Waiters(t) \cup {t}) : request'[p] = request[p]
      BY <1>5, TryRefreshOkMoves
    <2>2. \A p \in Waiters(t) : request'[p].op # "logout"
      BY <2>1 DEF Typed, RequestsTyped, Sent, Sound, Waiters, Processes
    <2>3. cookie' # None
      BY <2>1, NoneIsNoPair DEF Tokens
    <2>4. signedOut' = signedOut
      BY <1>5 DEF TryRefreshOk, history
    <2> QED
      BY <1>0, <2>1, <2>2, <2>3, <2>4, IdleIs DEF Ending, LoggingOut
  <1>6. ASSUME NEW t \in Tabs, TryRefreshFails(t) PROVE FALSE
    <2>1. /\ request'[t] = Idle
          /\ \A p \in Waiters(t) : request'[p] = Idle
          /\ \A p \in Processes \ (Waiters(t) \cup {t}) : request'[p] = request[p]
      BY <1>6, TryRefreshFailsMoves
    <2>2. UNCHANGED <<cookie, signedOut>>
      BY <1>6 DEF TryRefreshFails
    <2> QED
      BY <1>0, <2>1, <2>2, IdleIs DEF Ending, LoggingOut
  <1>7. CASE UNCHANGED <<cookie, signedOut, request>>
    BY <1>7 DEF Ending
  <1> QED
    BY <1>1, <1>2, <1>3, <1>4, <1>5, <1>6, <1>7
       DEF Next, Deliver, RevokeElsewhere, ExpireToken, Processes, browser, history, vars

(* The server ends the session afoot when it serves a logout. *)
LEMMA ServedLogoutKills ==
    ASSUME Typed, [Next]_vars, OneSession, ~Ending, NEW p \in Processes, ServeLogout(p),
           \A c \in Calls : ~LoginOk(c)
    PROVE  AllDead'
  <1> SUFFICES ASSUME NEW s \in Sessions, Afoot(s)', s \in active' PROVE FALSE
    BY DEF AllDead
  <1>1. /\ request[p].op = "logout" /\ request[p].cookie # None
        /\ active' = active \ {request[p].cookie.session}
    BY DEF ServeLogout, Arrived, LoggedOut, Ending, LoggingOut
  <1>2. request[p].cookie.session \in Sessions
    BY <1>1 DEF Typed, RequestsTyped, Sound, Held, Issued, Tokens
  <1>3. Afoot(request[p].cookie.session)
    BY <1>1 DEF Afoot, Moving, Bears, Of
  <1>4. Afoot(s)
    BY AfootFlows
  <1> QED
    BY <1>1, <1>2, <1>3, <1>4 DEF OneSession

(* One session stays afoot, and dies by a logout. *)
LEMMA LogoutKillsStep ==
    ASSUME Typed, OverlapsNoted, LogoutKills, ~LoginRaced, [Next]_vars
    PROVE  LogoutKills'
  <1>1. ASSUME NEW c \in Calls, LoginOk(c) PROVE LogoutKills'
    BY <1>1, LoginIsAlone
  <1>2. CASE \A c \in Calls : ~LoginOk(c)
    <2>1. OneSession'
      BY <1>2, AfootFlows DEF LogoutKills, OneSession
    <2>2. CASE Ending
      BY <1>2, <2>1, <2>2, DeadGoesOn DEF LogoutKills
    <2>3. ASSUME ~Ending, Ending' PROVE AllDead'
      <3>1. PICK p \in Processes : ServeLogout(p)
        BY <1>2, <2>3, EndsByServing
      <3> QED
        BY <1>2, <2>3, <3>1, ServedLogoutKills DEF LogoutKills
    <2> QED
      BY <2>1, <2>2, <2>3 DEF LogoutKills
  <1> QED
    BY <1>1, <1>2

(* A refresh of the tab brings no token. *)
LEMMA StaysOutGoesOn ==
    ASSUME NEW t \in Tabs, StaysOut(t), races \subseteq races', token'[t] \in {None, token[t]},
           \A r \in Processes : \/ request'[r] = request[r]
                                \/ request'[r].op \notin Refreshes \/ request'[r].tab # t
                                \/ request'[r].pair = None
    PROVE  StaysOut(t)'
  BY DEF StaysOut, Raced

(* A tab that logged out stays without a token. *)
LEMMA StaysOutStep ==
    ASSUME Typed, OverlapsNoted, LogoutKills, ~LoginRaced, [Next]_vars,
           \A t \in signedOut : StaysOut(t), NEW t \in signedOut'
    PROVE  StaysOut(t)'
  <1>0. /\ t \in Tabs /\ races \subseteq races' /\ token \in [Tabs -> Tokens \cup {None}]
    BY TypedStep, HistoryGrows DEF Typed, BrowserTyped, vars, history
  <1>1. ASSUME NEW c \in Calls, LoginOk(c) PROVE FALSE
    BY <1>1, LoginIsAlone
  <1>2. ASSUME NEW c \in Calls, LogoutOk(c), request[c].tab = t PROVE StaysOut(t)'
    <2>1. /\ token' = [token EXCEPT ![t] = None] /\ races' = races /\ request[c].op = "logout"
          /\ request' = [request EXCEPT ![c] = Idle]
      BY <1>2 DEF LogoutOk, ForgetToken, Answered, Settle
    <2>2. /\ request \in [Processes -> Jobs] /\ c \in Processes
      BY DEF Typed, RequestsTyped, Processes
    <2>3. ASSUME NEW r \in Processes, request'[r].op \in Refreshes, request'[r].tab = t
          PROVE  Raced(t, {"logout", "tryRefresh"}) \/ Raced(t, {"logout", "refresh"})
      <3>1. r # c /\ request'[r] = request[r]
        BY <2>1, <2>2, <2>3, IdleIs DEF Refreshes
      <3>2. Noted(c, r)
        BY <2>2, <3>1 DEF OverlapsNoted
      <3> QED
        BY <1>2, <2>1, <2>3, <3>1, <3>2 DEF Noted, Flying, Refreshes
    <2>4. token'[t] = None
      BY <1>0, <2>1
    <2> QED
      BY <2>1, <2>3, <2>4 DEF StaysOut, Raced
  <1>3. ASSUME \A c \in Calls : ~(LogoutOk(c) /\ request[c].tab = t) PROVE t \in signedOut
    <2>1. ASSUME NEW c \in Calls, LogoutOk(c) PROVE t \in signedOut
      <3>1. request[c].tab # t
        BY <1>3, <2>1
      <3> QED
        BY <2>1, <3>1 DEF LogoutOk
    <2>2. ASSUME \A c \in Calls : ~LogoutOk(c) PROVE t \in signedOut
      BY <1>1, <2>2 DEF Next, Serve, Deliver, Begin, RefuseLogin, ServeLogin, ServeRefresh,
         ServeLogout, ServeMe, RevokeElsewhere, ExpireToken, Throw, RefreshOk, LogoutFails,
         ProfileOk, ProfileFails, Denied, TryRefreshOk, TryRefreshFails, history, vars
    <2> QED
      BY <2>1, <2>2
  <1>4. CASE \E c \in Calls : LogoutOk(c) /\ request[c].tab = t
    BY <1>2, <1>4
  <1>5. CASE t \in signedOut /\ \A c \in Calls : ~(LogoutOk(c) /\ request[c].tab = t)
    <2>0. StaysOut(t) /\ AllDead
      BY <1>5 DEF LogoutKills, Ending
    <2>1. ASSUME NEW c \in Calls, NEW u \in Tabs, NEW op \in Called, Begin(c, u, op)
          PROVE  StaysOut(t)'
      <3>1. /\ token' = token /\ Sent(request'[c], u, op, token[u], cookie)
            /\ \A q \in Processes \ {c} : request'[q] = request[q]
        BY <2>1, BeginMoves
      <3> QED
        BY <1>0, <2>0, <3>1, StaysOutGoesOn DEF Sent
    <2>2. ASSUME NEW p \in Processes, Serve(p) PROVE StaysOut(t)'
      <3>1. /\ token' = token /\ request'[p].op = request[p].op
            /\ \A q \in Processes \ {p} : request'[q] = request[q]
        BY <2>2, ServeMoves
      <3>2. ASSUME request[p].op \in Refreshes PROVE request'[p].pair = None
        <4>1. ServeRefresh(p)
          BY <2>2, <3>2 DEF Serve, RefuseLogin, ServeLogin, ServeLogout, ServeMe, Arrived, Refreshes
        <4>2. ASSUME request[p].cookie # None
              PROVE  request[p].cookie.session \notin active
          <5>1. request[p].cookie.session \in Sessions
            BY <4>2 DEF Typed, RequestsTyped, Sound, Held, Issued, Tokens
          <5>2. Afoot(request[p].cookie.session)
            BY <3>2, <4>2 DEF Afoot, Moving, Bears, Of
          <5> QED
            BY <2>0, <5>1, <5>2 DEF AllDead
        <4>3. Answer(p, "denied", None)
          BY <4>1, <4>2 DEF ServeRefresh
        <4>4. request \in [Processes -> Jobs]
          BY DEF Typed, RequestsTyped
        <4> QED
          BY <4>3, <4>4, AnswerIs
      <3> QED
        BY <1>0, <2>0, <3>1, <3>2, StaysOutGoesOn
    <2>3. ASSUME NEW c \in Calls, Denied(c) PROVE StaysOut(t)'
      <3> DEFINE u == request[c].tab
      <3>1. token' = token
        BY <2>3, DeniedKeeps
      <3>2. /\ request[c].op \in {"login", "me"} /\ request'[c].op = request[c].op
            /\ \A q \in Processes \ {c, u} : request'[q] = request[q]
            /\ request[u] # Idle => request'[u] = request[u]
            /\ request[u] = Idle => Sent(request'[u], u, "tryRefresh", token[u], cookie)
        BY <2>3, DeniedMoves
      <3>3. request[u] = Idle => request'[u].pair = None
        BY <3>2 DEF Sent
      <3> HIDE DEF u
      <3>4. request'[c].op \notin Refreshes
        BY <3>2 DEF Refreshes
      <3> QED
        BY <1>0, <2>0, <3>1, <3>2, <3>3, <3>4, StaysOutGoesOn
    <2>4. ASSUME NEW c \in Calls, Deliver(c), ~Denied(c) PROVE StaysOut(t)'
      <3>1. /\ Throw(c) \/ RefreshOk(c) \/ LogoutOk(c) \/ LogoutFails(c)
                  \/ ProfileOk(c) \/ ProfileFails(c)
            /\ request'[c] = Idle /\ c \in Processes
            /\ \A q \in Processes \ {c} : request'[q] = request[q]
        BY <1>1, <2>4, SettleMoves
      <3>2. \A r \in Processes : request'[r] = request[r] \/ request'[r].op \notin Refreshes
        BY <3>1, IdleIs DEF Refreshes
      <3>3. CASE RefreshOk(c)
        <4>1. /\ token' = [token EXCEPT ![request[c].tab] = request[c].pair] /\ races' = races
              /\ request[c].op \in Refreshes /\ request[c].pair # None
          BY <3>1, <3>3
             DEF Typed, RequestsTyped, Sound, RefreshOk, Answered, Refreshes, history
        <4>2. CASE request[c].tab = t
          BY <2>0, <3>1, <4>1, <4>2 DEF StaysOut, Raced
        <4>3. CASE request[c].tab # t
          BY <1>0, <2>0, <3>2, <4>1, <4>3, StaysOutGoesOn
        <4> QED
          BY <4>2, <4>3
      <3>4. CASE ~RefreshOk(c)
        <4>1. token'[t] \in {None, token[t]}
          BY <1>0, <3>1, <3>4 DEF Throw, LogoutOk, LogoutFails, ProfileOk, ProfileFails, browser,
                 ForgetToken, TokenAfterFailedLogout
        <4> QED
          BY <1>0, <2>0, <3>2, <4>1, StaysOutGoesOn
      <3> QED
        BY <3>3, <3>4
    <2>5. ASSUME NEW u \in Tabs, TryRefreshOk(u) PROVE StaysOut(t)'
      <3>1. /\ u \in Processes /\ request'[u] = Idle /\ request[u].pair \in Tokens
            /\ request[u].op = "tryRefresh" /\ token' = [token EXCEPT ![u] = request[u].pair]
            /\ \A p \in Waiters(u) :
                  Sent(request'[p], u, request[p].op, request[u].pair, request[u].pair)
            /\ \A p \in Processes \ (Waiters(u) \cup {u}) : request'[p] = request[p]
        BY <2>5, TryRefreshOkMoves
      <3>2. \A p \in Waiters(u) : request'[p].pair = None
        BY <3>1 DEF Sent
      <3>3. races' = races /\ request[u].pair # None /\ request[u].tab = u
        <4>1. races' = races
          BY <2>5 DEF TryRefreshOk, history
        <4>2. request[u].tab = u
          BY <3>1, IdleIs DEF Typed, RequestsTyped, Sound
        <4> QED
          BY <3>1, <4>1, <4>2, NoneIsNoPair DEF Tokens
      <3>4. CASE u = t
        BY <2>0, <3>1, <3>3, <3>4 DEF StaysOut, Raced, Refreshes
      <3>5. CASE u # t
        BY <1>0, <2>0, <3>1, <3>2, <3>5, IdleIs, StaysOutGoesOn DEF Refreshes
      <3> QED
        BY <3>4, <3>5
    <2>6. ASSUME NEW u \in Tabs, TryRefreshFails(u) PROVE StaysOut(t)'
      <3>1. /\ request'[u] = Idle
            /\ \A p \in Waiters(u) : request'[p] = Idle
            /\ \A p \in Processes \ (Waiters(u) \cup {u}) : request'[p] = request[p]
        BY <2>6, TryRefreshFailsMoves
      <3>2. token'[t] \in {None, token[t]}
        BY <1>0, <2>6 DEF TryRefreshFails, ForgetToken
      <3> QED
        BY <1>0, <2>0, <3>1, <3>2, IdleIs, StaysOutGoesOn DEF Refreshes
    <2>7. CASE UNCHANGED <<token, request>>
      BY <1>0, <2>0, <2>7, StaysOutGoesOn
    <2> QED
      BY <2>1, <2>2, <2>3, <2>4, <2>5, <2>6, <2>7
         DEF Next, Deliver, RevokeElsewhere, ExpireToken, Processes, browser, history, vars
  <1> QED
    BY <1>3, <1>4, <1>5

(* A logout ends what it should. *)
LEMMA LogoutsEndStep == Typed /\ OverlapsNoted /\ LogoutsEnd /\ [Next]_vars => LogoutsEnd'
  <1> SUFFICES ASSUME Typed, OverlapsNoted, LogoutsEnd, [Next]_vars, ~LoginRaced'
               PROVE  LogoutKills' /\ \A t \in signedOut' : StaysOut(t)'
    BY DEF LogoutsEnd
  <1>1. ~LoginRaced
    BY HistoryGrows DEF LoginRaced, vars, history
  <1> QED
    BY <1>1, LogoutKillsStep, StaysOutStep DEF LogoutsEnd
-------------------------------------------------------------------------------
(* The refreshes that operations still have served are counted. *)

(* A part of a set counts less. *)
LEMMA Fewer ==
    ASSUME NEW A, NEW B, IsFiniteSet(B), A \subseteq B
    PROVE  /\ Cardinality(A) \in Nat /\ Cardinality(B) \in Nat
           /\ Cardinality(A) <= Cardinality(B)
           /\ \A x \in B \ A : Cardinality(A) + 1 <= Cardinality(B)
  <1>1. /\ IsFiniteSet(A) /\ Cardinality(A) \in Nat /\ Cardinality(B) \in Nat
        /\ Cardinality(A) <= Cardinality(B) /\ (Cardinality(B) = Cardinality(A) => A = B)
    BY FS_Subset, FS_CardinalityType
  <1> QED
    BY <1>1

(* One more counts one more. *)
LEMMA OneMore ==
    ASSUME NEW A, NEW B, NEW x, IsFiniteSet(B), A \subseteq B \cup {x}
    PROVE  Cardinality(A) \in Nat /\ Cardinality(B) \in Nat /\ Cardinality(A) <= Cardinality(B) + 1
  <1>1. /\ IsFiniteSet(B \cup {x}) /\ Cardinality(B) \in Nat
        /\ Cardinality(B \cup {x}) \in {Cardinality(B), Cardinality(B) + 1}
    BY FS_AddElement, FS_CardinalityType
  <1>2. Cardinality(A) \in Nat /\ Cardinality(A) <= Cardinality(B \cup {x})
    BY <1>1, Fewer
  <1> QED
    BY <1>1, <1>2

(* What is counted is finite. *)
LEMMA CountedAreFinite ==
    /\ IsFiniteSet(OwnToCome) /\ IsFiniteSet(ProfilesToCome)
    /\ Cardinality(OwnToCome) \in Nat /\ Cardinality(ProfilesToCome) \in Nat /\ ToCome \in Nat
  <1>1. OwnToCome \subseteq Calls /\ ProfilesToCome \subseteq Calls
    BY DEF OwnToCome, ProfilesToCome
  <1>2. IsFiniteSet(OwnToCome) /\ IsFiniteSet(ProfilesToCome)
    BY <1>1, FinitelyMany, FS_Subset
  <1>3. Cardinality(OwnToCome) \in Nat /\ Cardinality(ProfilesToCome) \in Nat
    BY <1>2, FS_CardinalityType
  <1> QED
    BY <1>2, <1>3 DEF ToCome

(* What a call has still to come. *)
StillToCome(d) ==
    /\ d \in OwnToCome' => d \in OwnToCome
    /\ d \in ProfilesToCome' => d \in ProfilesToCome

(* A call that does nothing. *)
LEMMA CallGoesOn ==
    ASSUME NEW d \in Calls, request'[d] = request[d], client' = client,
           request[d].step = "waiting" => \/ request'[request[d].tab] = request[request[d].tab]
                                          \/ request[request[d].tab].step = "sent"
    PROVE  StillToCome(d)
  BY DEF StillToCome, OwnToCome, ProfilesToCome, Spent

(* The refreshes to come are those that were to come. *)
LEMMA NoneToComeIsNew ==
    ASSUME Typed, [Next]_vars, NEW d \in Calls,
           \A c \in Calls, t \in Tabs, op \in Called : ~Begin(c, t, op)
    PROVE  StillToCome(d)
  <1>0. /\ d \in Processes /\ d \notin Tabs /\ Sound(d, request[d], current)
        /\ request[d].step = "waiting" => request[d].tab \in Tabs
    BY Apart, InATab, IdleIs DEF Typed, RequestsTyped, Processes
  <1>1. ASSUME NEW p \in Processes, Serve(p) PROVE StillToCome(d)
    <2>1. /\ client' = client /\ request[p].step = "sent" /\ request'[p].step = "answered"
          /\ request'[p].op = request[p].op /\ request'[p].retried = request[p].retried
          /\ \A q \in Processes \ {p} : request'[q] = request[q]
      BY <1>1, ServeMoves
    <2>2. CASE p = d
      BY <2>1, <2>2 DEF StillToCome, OwnToCome, ProfilesToCome, Spent
    <2>3. CASE p # d
      BY <1>0, <2>1, <2>3, CallGoesOn DEF Processes
    <2> QED
      BY <2>2, <2>3
  <1>2. ASSUME NEW c \in Calls, LoginOk(c) PROVE StillToCome(d)
    <2>1. /\ client' = client /\ c \notin Tabs /\ request[c].op = "login"
          /\ Sent(request'[c], request[c].tab, "me", request[c].pair, request[c].pair)
          /\ \A q \in Processes \ {c} : request'[q] = request[q]
      BY <1>2, LoginOkMoves
    <2>2. CASE c = d
      <3>1. request'[d].op = "me" /\ d \in ProfilesToCome
        BY <2>1, <2>2 DEF Sent, ProfilesToCome
      <3> QED
        BY <3>1 DEF StillToCome, OwnToCome
    <2>3. CASE c # d
      BY <1>0, <2>1, <2>3, CallGoesOn DEF Processes
    <2> QED
      BY <2>2, <2>3
  <1>3. ASSUME NEW c \in Calls, Denied(c) PROVE StillToCome(d)
    <2> DEFINE t == request[c].tab
    <2>1. client' = client
      BY <1>3, DeniedKeeps
    <2>2. /\ c \notin Tabs /\ t \in Tabs /\ request[c].step = "answered" /\ ~request[c].retried
          /\ request[c].op \in {"login", "me"} /\ request'[c].op = request[c].op
          /\ \A q \in Processes \ {c, t} : request'[q] = request[q]
          /\ request[t] # Idle => request'[t] = request[t]
      BY <1>3, DeniedMoves
    <2> HIDE DEF t
    <2>3. CASE c = d
      BY <2>1, <2>2, <2>3 DEF StillToCome, OwnToCome, ProfilesToCome, Spent
    <2>4. CASE c # d
      <3>1. request[d].step = "waiting" => request[request[d].tab] # Idle
        BY DEF Typed, RefreshesAwaited
      <3> QED
        BY <1>0, <2>1, <2>2, <2>4, <3>1, CallGoesOn DEF Processes
    <2> QED
      BY <2>3, <2>4
  <1>4. ASSUME NEW c \in Calls, Deliver(c), ~LoginOk(c), ~Denied(c) PROVE StillToCome(d)
    <2>1. /\ client' = client /\ request'[c] = Idle /\ c \notin Tabs
          /\ \A q \in Processes \ {c} : request'[q] = request[q]
      BY <1>4, SettleMoves
    <2>2. CASE c = d
      BY <2>1, <2>2, IdleIs DEF StillToCome, OwnToCome, ProfilesToCome
    <2>3. CASE c # d
      BY <1>0, <2>1, <2>3, CallGoesOn DEF Processes
    <2> QED
      BY <2>2, <2>3
  <1>5. ASSUME NEW t \in Tabs, TryRefreshOk(t) PROVE StillToCome(d)
    <2>1. /\ \A p \in Waiters(t) :
                /\ Sent(request'[p], t, request[p].op, request[t].pair, request[t].pair)
                /\ request'[p].retried = TRUE
          /\ \A p \in Processes \ (Waiters(t) \cup {t}) : request'[p] = request[p]
      BY <1>5, TryRefreshOkMoves
    <2>2. client' = client
      BY <1>5 DEF TryRefreshOk, Answered
    <2>3. CASE d \in Waiters(t)
      <3>1. /\ request'[d].op = request[d].op /\ request'[d].retried
            /\ request[d].op \in {"login", "me"}
        BY <1>0, <2>1, <2>3 DEF Sent, Sound, Waiters
      <3> QED
        BY <3>1 DEF StillToCome, OwnToCome, ProfilesToCome, Spent
    <2>4. CASE d \notin Waiters(t)
      <3>1. request'[d] = request[d]
        BY <1>0, <2>1, <2>4
      <3>2. request[d].step = "waiting" => request[d].tab # t /\ request[d].tab \notin Waiters(t)
        BY <1>0, <2>4, Apart DEF Waiters
      <3> QED
        BY <1>0, <2>1, <2>2, <3>1, <3>2, CallGoesOn DEF Processes
    <2> QED
      BY <2>3, <2>4
  <1>6. ASSUME NEW t \in Tabs, TryRefreshFails(t) PROVE StillToCome(d)
    <2>1. /\ \A p \in Waiters(t) : request'[p] = Idle
          /\ \A p \in Processes \ (Waiters(t) \cup {t}) : request'[p] = request[p]
      BY <1>6, TryRefreshFailsMoves
    <2>2. client' = client
      BY <1>6 DEF TryRefreshFails, Answered, Lost
    <2>3. CASE d \in Waiters(t)
      BY <2>1, <2>3, IdleIs DEF StillToCome, OwnToCome, ProfilesToCome
    <2>4. CASE d \notin Waiters(t)
      <3>1. request'[d] = request[d]
        BY <1>0, <2>1, <2>4
      <3>2. request[d].step = "waiting" => request[d].tab # t /\ request[d].tab \notin Waiters(t)
        BY <1>0, <2>4, Apart DEF Waiters
      <3> QED
        BY <1>0, <2>1, <2>2, <3>1, <3>2, CallGoesOn DEF Processes
    <2> QED
      BY <2>3, <2>4
  <1>7. CASE UNCHANGED <<client, request>>
    BY <1>7, CallGoesOn
  <1> QED
    BY <1>1, <1>2, <1>3, <1>4, <1>5, <1>6, <1>7
       DEF Next, Deliver, RevokeElsewhere, ExpireToken, Processes, vars

(* A refresh that is served is one that was to come. *)
LEMMA ServedWasToCome ==
    ASSUME Typed, RetriesProfiles, [Next]_vars, NEW p \in Processes, ServeRefresh(p)
    PROVE  \/ \E d \in Calls : d \in OwnToCome /\ d \notin OwnToCome'
           \/ \E d \in Calls : d \in ProfilesToCome /\ d \notin ProfilesToCome'
  <1>1. /\ request[p].op \in Refreshes /\ request[p].step = "sent"
        /\ request'[p].step = "answered" /\ request'[p].op = request[p].op
        /\ \A q \in Processes \ {p} : request'[q] = request[q]
    BY ServeMoves DEF ServeRefresh, Arrived, Serve
  <1>2. CASE p \in Calls
    <2>1. request[p].op = "refresh"
      BY <1>1, <1>2 DEF Typed, RequestsTyped, Sound, Refreshes
    <2> QED
      BY <1>1, <1>2, <2>1 DEF OwnToCome
  <1>3. CASE p \in Tabs
    <2>1. request[p] # Idle
      BY <1>1, IdleIs
    <2>2. PICK w \in Calls : request[w].step = "waiting" /\ request[w].tab = p
      BY <1>3, <2>1 DEF Typed, RefreshesAwaited, Waiters
    <2>3. /\ request[w].op \in {"login", "me"} /\ ~request[w].retried /\ request'[w] = request[w]
          /\ client = "sdk" => request[w].op = "me"
      <3>1. request[w].op \in {"login", "me"} /\ ~request[w].retried
        BY <2>2 DEF Typed, RequestsTyped, Sound, Processes
      <3>2. request'[w] = request[w]
        BY <1>1, <2>2 DEF Processes
      <3>3. client = "sdk" => request[w].op = "me"
        BY <2>2 DEF RetriesProfiles
      <3> QED
        BY <3>1, <3>2, <3>3
    <2>4. client \in {"sdk", "web"} /\ client' = client
      BY DEF Typed, ServerTyped, ServeRefresh, Arrived
    <2>5. ~Spent(w) /\ Spent(w)'
      BY <1>1, <2>2, <2>3 DEF Spent
    <2> QED
      BY <2>2, <2>3, <2>4, <2>5 DEF OwnToCome, ProfilesToCome
  <1> QED
    BY <1>2, <1>3 DEF Processes

(* What is had and what is to come, within a budget. *)
LEMMA SumsGrow ==
    ASSUME NEW a \in Nat, NEW m \in Nat, NEW n \in Nat, NEW x \in Nat, NEW y \in Nat
    PROVE  /\ a + m <= x + 1 /\ n <= m + (y - x) => a + n <= y + 1
           /\ m <= x /\ n <= m => 1 + n <= x + 1
           /\ a + m <= x + 1 /\ n <= m => a + n <= x + 1
           /\ a + m <= x + 1 /\ n + 1 <= m => (a + 1) + n <= x + 1
  OBVIOUS

(* An operation brings what it may refresh. *)
LEMMA BeginsAreCounted ==
    ASSUME Typed, RefreshesCounted, NEW c \in Calls, NEW t \in Tabs, NEW op \in Called,
           Begin(c, t, op)
    PROVE  RefreshesCounted'
  <1>1. /\ UNCHANGED <<client, current>> /\ c \in Processes /\ c \notin Tabs
        /\ begun' = begun + 1 /\ Sent(request'[c], t, op, token[t], cookie)
        /\ request'[c].retried = FALSE
        /\ \A q \in Processes \ {c} : request'[q] = request[q]
    BY BeginMoves
  <1>2. /\ client \in {"sdk", "web"} /\ begun \in Nat /\ current \in [Sessions -> Nat]
        /\ \A d \in Calls : request[d].step = "waiting" => request[d].tab \in Tabs
    BY InATab, IdleIs DEF Typed, ServerTyped, BrowserTyped, RequestsTyped, Processes
  <1>3. ASSUME NEW d \in Calls \ {c} PROVE StillToCome(d)
    BY <1>1, <1>2, CallGoesOn DEF Processes
  <1>4. OwnToCome' \subseteq OwnToCome \cup {c} /\ ProfilesToCome' \subseteq ProfilesToCome \cup {c}
    <2>1. OwnToCome' \subseteq Calls /\ ProfilesToCome' \subseteq Calls
      BY DEF OwnToCome, ProfilesToCome
    <2> QED
      BY <1>3, <2>1 DEF StillToCome
  <1>5. request'[c].op = op /\ request'[c].step = "sent"
    BY <1>1 DEF Sent
  <1>6. /\ Cardinality(OwnToCome') \in Nat /\ Cardinality(OwnToCome) \in Nat
        /\ Cardinality(OwnToCome') <= Cardinality(OwnToCome) + 1
        /\ c \notin OwnToCome' => Cardinality(OwnToCome') <= Cardinality(OwnToCome)
    <2>1. c \notin OwnToCome' => OwnToCome' \subseteq OwnToCome
      BY <1>4
    <2> QED
      BY <1>4, <2>1, CountedAreFinite, OneMore, Fewer
  <1>7. /\ Cardinality(ProfilesToCome') \in Nat /\ Cardinality(ProfilesToCome) \in Nat
        /\ Cardinality(ProfilesToCome') <= Cardinality(ProfilesToCome) + 1
        /\ c \notin ProfilesToCome' => Cardinality(ProfilesToCome') <= Cardinality(ProfilesToCome)
    <2>1. c \notin ProfilesToCome' => ProfilesToCome' \subseteq ProfilesToCome
      BY <1>4
    <2> QED
      BY <1>4, <2>1, CountedAreFinite, OneMore, Fewer
  <1>8. client = "sdk" => c \notin OwnToCome' \/ c \notin ProfilesToCome'
    BY <1>1, <1>5 DEF OwnToCome, ProfilesToCome
  <1>9. ToCome' <= ToCome + (Budget' - Budget) /\ Budget' >= Budget
    BY <1>1, <1>2, <1>6, <1>7, <1>8 DEF ToCome, Budget
  <1>10. ToCome \in Nat /\ ToCome' \in Nat /\ Budget \in Nat /\ Budget' \in Nat
    BY <1>1, <1>2, <1>6, <1>7, CountedAreFinite DEF ToCome, Budget
  <1>11. ASSUME NEW s \in Sessions PROVE current'[s] + ToCome' <= Budget' + 1
    <2>1. current[s] \in Nat /\ current'[s] = current[s]
      BY <1>1, <1>2
    <2>2. current[s] + ToCome <= Budget + 1
      BY <1>10, <2>1 DEF RefreshesCounted
    <2>3. PICK m \in Nat, n \in Nat, x \in Nat, y \in Nat :
            m = ToCome /\ n = ToCome' /\ x = Budget /\ y = Budget'
      BY <1>10
    <2>4. n <= m + (y - x) /\ current[s] + m <= x + 1
      BY <1>9, <2>2, <2>3
    <2>5. current[s] + n <= y + 1
      BY <2>1, <2>4, SumsGrow
    <2> QED
      BY <2>1, <2>3, <2>5
  <1>12. ToCome' <= Budget'
    <2>1. ToCome <= Budget
      BY <1>10 DEF RefreshesCounted
    <2>2. PICK m \in Nat, n \in Nat, x \in Nat, y \in Nat :
            m = ToCome /\ n = ToCome' /\ x = Budget /\ y = Budget'
      BY <1>10
    <2>3. n <= m + (y - x) /\ m <= x
      BY <1>9, <2>1, <2>2
    <2>4. n <= y
      BY <2>3
    <2> QED
      BY <2>2, <2>4
  <1> QED
    BY <1>11, <1>12 DEF RefreshesCounted

(* Which generations the server counts. *)
LEMMA GenerationsGrow ==
    ASSUME Typed, [Next]_vars, NEW s \in Sessions
    PROVE  \/ current'[s] = current[s]
           \/ current'[s] = 1 /\ \E p \in Processes : ServeLogin(p, s)
           \/ current'[s] = current[s] + 1 /\ \E p \in Processes : ServeRefresh(p)
  <1>0. current \in [Sessions -> Nat]
    BY DEF Typed, ServerTyped
  <1>1. ASSUME NEW p \in Processes, Serve(p)
        PROVE  \/ current'[s] = current[s]
               \/ current'[s] = 1 /\ ServeLogin(p, s)
               \/ current'[s] = current[s] + 1 /\ ServeRefresh(p)
    <2>1. CASE RefuseLogin(p) \/ ServeLogout(p) \/ ServeMe(p)
      BY <2>1 DEF RefuseLogin, ServeLogout, ServeMe, server
    <2>2. ASSUME NEW u \in Sessions, ServeLogin(p, u)
          PROVE  current'[s] = current[s] \/ (current'[s] = 1 /\ u = s)
      BY <1>0, <2>2 DEF ServeLogin
    <2>3. CASE ServeRefresh(p)
      BY <1>0, <2>3 DEF ServeRefresh
    <2> QED
      BY <1>1, <2>1, <2>2, <2>3 DEF Serve
  <1>2. ASSUME NEW p \in Processes, Deliver(p) PROVE current' = current
    BY <1>2 DEF Deliver, LoginOk, Throw, RefreshOk, LogoutOk, LogoutFails, ProfileOk, ProfileFails,
                Denied, TryRefreshOk, TryRefreshFails, server
  <1> QED
    BY <1>1, <1>2 DEF Next, Begin, RevokeElsewhere, ExpireToken, server, vars

(* The generations stay within what the operations may have served. *)
LEMMA RefreshesCountedStep ==
    ASSUME Typed, RetriesProfiles, RefreshesCounted, [Next]_vars
    PROVE  RefreshesCounted'
  <1>1. ASSUME NEW c \in Calls, NEW t \in Tabs, NEW op \in Called, Begin(c, t, op)
        PROVE  RefreshesCounted'
    BY <1>1, BeginsAreCounted
  <1>2. CASE \A c \in Calls, t \in Tabs, op \in Called : ~Begin(c, t, op)
    <2>1. OwnToCome' \subseteq OwnToCome /\ ProfilesToCome' \subseteq ProfilesToCome
      <3>1. OwnToCome' \subseteq Calls /\ ProfilesToCome' \subseteq Calls
        BY DEF OwnToCome, ProfilesToCome
      <3> QED
        BY <1>2, <3>1, NoneToComeIsNew DEF StillToCome
    <2>2. /\ Cardinality(OwnToCome') \in Nat /\ Cardinality(OwnToCome) \in Nat
          /\ Cardinality(OwnToCome') <= Cardinality(OwnToCome)
          /\ (\E d \in OwnToCome : d \notin OwnToCome') =>
                Cardinality(OwnToCome') + 1 <= Cardinality(OwnToCome)
      BY <2>1, CountedAreFinite, Fewer
    <2>3. /\ Cardinality(ProfilesToCome') \in Nat /\ Cardinality(ProfilesToCome) \in Nat
          /\ Cardinality(ProfilesToCome') <= Cardinality(ProfilesToCome)
          /\ (\E d \in ProfilesToCome : d \notin ProfilesToCome') =>
                Cardinality(ProfilesToCome') + 1 <= Cardinality(ProfilesToCome)
      BY <2>1, CountedAreFinite, Fewer
    <2>4. ToCome \in Nat /\ ToCome' \in Nat /\ ToCome' <= ToCome
      BY <2>2, <2>3 DEF ToCome
    <2>5. ASSUME NEW p \in Processes, ServeRefresh(p) PROVE ToCome' + 1 <= ToCome
      BY <2>2, <2>3, <2>5, ServedWasToCome DEF ToCome
    <2>6. Budget \in Nat /\ Budget' = Budget
      <3>1. client' = client /\ begun' = begun
        BY <1>2 DEF Next, Serve, Deliver, RefuseLogin, ServeLogin, ServeRefresh, ServeLogout,
           ServeMe, RevokeElsewhere, ExpireToken, LoginOk, Throw, RefreshOk, LogoutOk,
           LogoutFails, ProfileOk, ProfileFails, Denied, TryRefreshOk, TryRefreshFails, Arrived,
           Answered, Lost, vars
      <3>2. begun \in Nat
        BY DEF Typed, BrowserTyped
      <3> QED
        BY <3>1, <3>2 DEF Budget
    <2>7. ASSUME NEW s \in Sessions PROVE current'[s] + ToCome' <= Budget' + 1
      <3>0. current[s] \in Nat
        BY DEF Typed, ServerTyped
      <3>1. current[s] \in Nat /\ current[s] + ToCome <= Budget + 1 /\ ToCome <= Budget
        BY <3>0 DEF RefreshesCounted
      <3>2. CASE current'[s] = current[s]
        BY <2>4, <2>6, <3>1, <3>2, SumsGrow
      <3>3. CASE current'[s] = 1
        BY <2>4, <2>6, <3>1, <3>3, SumsGrow
      <3>4. CASE current'[s] = current[s] + 1 /\ \E p \in Processes : ServeRefresh(p)
        <4>1. ToCome' + 1 <= ToCome
          BY <2>5, <3>4
        <4> QED
          BY <2>4, <2>6, <3>1, <3>4, <4>1, SumsGrow
      <3> QED
        BY <3>2, <3>3, <3>4, GenerationsGrow
    <2>8. ToCome' <= Budget'
      BY <2>4, <2>6 DEF RefreshesCounted
    <2> QED
      BY <2>7, <2>8 DEF RefreshesCounted
  <1> QED
    BY <1>1, <1>2

-------------------------------------------------------------------------------
(* The theorems. *)

(* The tabs have just been opened. *)
LEMMA InitIsInv == Init => Inv
  <1> SUFFICES ASSUME Init PROVE Inv
    OBVIOUS
  <1>1. /\ Typed /\ \A p \in Processes : request[p] = Idle
    BY InitIsTyped DEF Init
  <1>2. /\ signedOut = {} /\ burned = FALSE /\ races = {} /\ mishaps = {} /\ begun = 0
        /\ status = [t \in Tabs |-> "loading"]
        /\ current = [s \in Sessions |-> IF s \in active THEN 1 ELSE 0]
        /\ \/ cookie = None /\ active = {}
           \/ \E s \in Sessions : cookie = [session |-> s, generation |-> 1] /\ active = {s}
    BY DEF Init
  <1>3. OverlapsNoted
    BY <1>1, IdleIs DEF OverlapsNoted, Noted, Flying, Refreshes
  <1>4. TokensFresh
    <2>1. Fresh(cookie, active, current)
      BY <1>2 DEF Fresh
    <2>2. \A p \in Processes : /\ Fresh(request[p].pair, active, current)
                               /\ request[p].op \notin Refreshes
      BY <1>1, IdleIs DEF Fresh, Refreshes
    <2> QED
      BY <1>2, <2>1, <2>2 DEF TokensFresh, AllFresh, CookieFresh
  <1>5. LoginsApart
    BY <1>1, IdleBears DEF LoginsApart
  <1>6. LogoutsEnd
    <2>1. \A s : Afoot(s) => Of(cookie, s)
      BY <1>1, IdleBears DEF Afoot
    <2>2. OneSession
      BY <2>1 DEF OneSession, Of
    <2>3. \A c \in Processes : ~LoggingOut(request[c])
      BY <1>1, IdleIs DEF LoggingOut
    <2>4. Ending => AllDead
      BY <1>2, <2>1, <2>3 DEF Ending, AllDead, Of
    <2> QED
      BY <1>2, <2>2, <2>4 DEF LogoutsEnd, LogoutKills
  <1>7. UserShown
    BY <1>1, <1>2, IdleIs DEF UserShown, ShowsNobody, Processes
  <1>8. RetriesProfiles
    BY <1>1, <1>2, IdleIs DEF RetriesProfiles, Processes
  <1>9. RefreshesCounted
    <2>1. OwnToCome = {} /\ ProfilesToCome = {}
      BY <1>1, IdleIs DEF OwnToCome, ProfilesToCome, Processes
    <2>2. ToCome = 0
      BY <2>1, FS_EmptySet DEF ToCome
    <2>3. Budget = 0
      BY <1>2 DEF Budget
    <2>4. \A s \in Sessions : current[s] \in {0, 1}
      BY <1>2
    <2> QED
      BY <2>2, <2>3, <2>4 DEF RefreshesCounted
  <1>10. PasswordsCounted
    <2>1. counted = [c \in Calls |-> 0] /\ renewed = [c \in Calls |-> 0]
      BY DEF Init
    <2> QED
      BY <1>1, <2>1, IdleIs DEF PasswordsCounted, Refusals, Renewals, Processes
  <1> QED
    BY <1>1, <1>3, <1>4, <1>5, <1>6, <1>7, <1>8, <1>9, <1>10 DEF Inv

(* Every step keeps the invariant. *)
LEMMA InvStep == Inv /\ [Next]_vars => Inv'
  BY TypedStep, OverlapsStep, TokensFreshStep, LoginsApartStep, LogoutsEndStep, UserShownStep,
     RetriesStep, PasswordsStep, RefreshesCountedStep DEF Inv

(* The invariant holds in every state of every behaviour. *)
THEOREM ClientsHold == Spec => []Inv
  BY InitIsInv, InvStep, PTL DEF Spec

(* The pairs that are issued are those of the bound. *)
LEMMA IssuedIsAPair ==
    ASSUME Typed, RefreshesCounted, NEW x, Issued(x, current)
    PROVE  x \in Pairs
  <1> DEFINE most == 2 * MaxCalls[client] + 1
  <1>1. /\ x \in [session : Sessions, generation : Nat]
        /\ 1 <= x.generation /\ x.generation <= current[x.session]
    BY DEF Issued, Tokens
  <1>2. /\ x.session \in Sessions /\ current[x.session] \in Nat
        /\ begun \in Nat /\ begun <= MaxCalls[client] /\ client \in {"sdk", "web"}
        /\ MaxCalls[client] \in Nat /\ x.generation \in Nat
    BY <1>1, MaxCallsAreNatural DEF Typed, ServerTyped, BrowserTyped
  <1>3. current[x.session] + ToCome <= Budget + 1 /\ ToCome \in Nat
    BY <1>2, CountedAreFinite DEF RefreshesCounted
  <1>4. Budget \in Nat /\ Budget <= 2 * begun
    BY <1>2 DEF Budget
  <1>5. current[x.session] <= most /\ most \in Nat
    BY <1>2, <1>3, <1>4
  <1>6. x.generation \in 1 .. most
    BY <1>1, <1>2, <1>5
  <1> HIDE DEF most
  <1>7. x \in [session : Sessions, generation : 1 .. most]
    BY <1>1, <1>2, <1>6
  <1> QED
    BY <1>7 DEF Pairs, most

(* NobodyWaitsInVain: the state is well typed, with the generations within *)
(* what the operations account for, and whoever waits, waits for the one   *)
(* refresh of its tab, which waits for nobody.                             *)
THEOREM NobodyWaits == Spec => []NobodyWaitsInVain
  <1>1. ASSUME Typed, RefreshesCounted PROVE NobodyWaitsInVain
    <2>1. \A x : Held(x, current) => x \in Pairs \cup {None}
      BY <1>1, IssuedIsAPair DEF Held
    <2>2. /\ client \in {"sdk", "web"} /\ active \subseteq Sessions
          /\ current \in [Sessions -> Nat] /\ expired \subseteq Pairs
          /\ begun \in Nat /\ begun <= MaxCalls[client] /\ signedOut \subseteq Tabs
          /\ status \in [Tabs -> Statuses] /\ token \in [Tabs -> Tokens \cup {None}]
      BY <1>1, IssuedIsAPair DEF Typed, ServerTyped, BrowserTyped
    <2>3. cookie \in Pairs \cup {None} /\ \A t \in Tabs : token[t] \in Pairs \cup {None}
      BY <1>1, <2>1 DEF Typed, BrowserTyped
    <2>4. token \in [Tabs -> Pairs \cup {None}]
      BY <2>2, <2>3
    <2>5. \A s \in Sessions :
             current[s] \in 0 .. (IF client = "sdk" THEN begun ELSE 2 * begun) + 1
      <3> TAKE s \in Sessions
      <3>1. current[s] \in Nat /\ current[s] + ToCome <= Budget + 1 /\ ToCome \in Nat
        BY <1>1, <2>2, CountedAreFinite DEF RefreshesCounted
      <3>2. Budget \in Nat /\ current[s] <= Budget + 1
        BY <2>2, <3>1 DEF Budget
      <3> QED
        BY <3>1, <3>2 DEF Budget
    <2>6. \A p \in Processes :
             /\ request[p].op \in Ops \cup {"none"}
             /\ request[p].step \in {"idle", "sent", "answered", "waiting"}
             /\ request[p].step = "idle" <=> request[p] = Idle
             /\ {request[p].cookie, request[p].token, request[p].pair} \subseteq Pairs \cup {None}
             /\ request[p].step = "answered" <=> request[p].answer # "none"
      <3> TAKE p \in Processes
      <3>1. request[p] \in Jobs /\ Sound(p, request[p], current)
        BY <1>1 DEF Typed, RequestsTyped
      <3>2. {request[p].cookie, request[p].token, request[p].pair} \subseteq Pairs \cup {None}
        BY <2>1, <3>1 DEF Sound
      <3>3. request[p].op \in Ops \cup {"none"} /\ request[p].step \in Steps
        BY <3>1 DEF Jobs
      <3> QED
        BY <3>1, <3>2, <3>3 DEF Sound, Steps
    <2>7. ASSUME NEW t \in Tabs
          PROVE  /\ request[t].op \in {"none", "tryRefresh"} /\ request[t].step # "waiting"
                 /\ request[t] # Idle => request[t].op = "tryRefresh"
      BY <1>1, IdleIs DEF Typed, RequestsTyped, Sound, Processes
    <2>8. ASSUME NEW c \in Calls, request[c].step = "waiting"
          PROVE  /\ request[request[c].tab].op = "tryRefresh"
                 /\ request[request[c].tab].step # "waiting"
      <3>1. request[c].tab \in Tabs /\ request[request[c].tab] # Idle
        BY <1>1, <2>8, InATab, IdleIs DEF Typed, RefreshesAwaited, Processes
      <3> QED
        BY <2>7, <3>1
    <2>9. begun \in 0 .. MaxCalls[client]
      BY <2>2, MaxCallsAreNatural
    <2>10. TypeOK
      <3>1. status \in [Tabs -> {"loading", "authenticated", "unauthenticated"}]
        BY <2>2 DEF Statuses
      <3>2. /\ client \in {"sdk", "web"} /\ active \subseteq Sessions /\ expired \subseteq Pairs
            /\ signedOut \subseteq Tabs
        BY <2>2
      <3>3. \A t \in Tabs : request[t].op \in {"none", "tryRefresh"}
        BY <2>7
      <3> QED
        BY <2>3, <2>4, <2>5, <2>6, <2>9, <3>1, <3>2, <3>3, Zenon DEF TypeOK
    <2> QED
      BY <2>8, <2>10 DEF NobodyWaitsInVain
  <1>2. Inv => NobodyWaitsInVain
    BY <1>1 DEF Inv
  <1> QED
    BY <1>2, ClientsHold, PTL

(* NoSelfInflictedReuse: the reuse detection ends a session only after a   *)
(* lost answer or two refreshes at once.                                   *)
THEOREM NoReuseOfItsOwn == Spec => []NoSelfInflictedReuse
  <1>1. Inv => NoSelfInflictedReuse
    BY DEF Inv, TokensFresh, Orderly, AllFresh, RefreshRaced, NoSelfInflictedReuse
  <1> QED
    BY <1>1, ClientsHold, PTL

(* LogoutEndsUnlessRaced: after a logout the browser is left with a dead   *)
(* session and the tab without a token, whatever refresh was under way.    *)
THEOREM LogoutsHold == Spec => []LogoutEndsUnlessRaced
  <1>1. ASSUME Typed, LogoutsEnd PROVE LogoutEndsUnlessRaced
    <2>1. CASE LoginRaced
      BY <2>1 DEF LogoutEndsUnlessRaced
    <2>2. CASE LogoutKills /\ \A t \in signedOut : StaysOut(t)
      <3>1. ASSUME signedOut # {}, cookie # None PROVE cookie.session \notin active
        <4>1. cookie.session \in Sessions
          BY <1>1, <3>1 DEF Typed, BrowserTyped, Held, Issued, Tokens
        <4>2. Afoot(cookie.session)
          BY <3>1 DEF Afoot, Of
        <4> QED
          BY <2>2, <3>1, <4>1, <4>2 DEF LogoutKills, Ending, AllDead
      <3>2. \A t \in signedOut : \/ token[t] = None
                                 \/ Raced(t, {"logout", "tryRefresh"})
                                 \/ Raced(t, {"logout", "refresh"})
        BY <2>2 DEF StaysOut
      <3> QED
        BY <3>1, <3>2 DEF LogoutEndsUnlessRaced
    <2> QED
      BY <1>1, <2>1, <2>2 DEF LogoutsEnd
  <1>2. Inv => LogoutEndsUnlessRaced
    BY <1>1 DEF Inv
  <1> QED
    BY <1>2, ClientsHold, PTL

(* StatusHonest: a tab that shows a user holds a token, apart from the     *)
(* overlaps and the failures that the property names.                      *)
THEOREM UserIsSignedIn == Spec => []StatusHonest
  <1>1. Inv => StatusHonest
    BY DEF Inv, UserShown, Excused, ShowsNobody, StatusHonest
  <1> QED
    BY <1>1, ClientsHold, PTL

(* WrongPasswordCountsOnceUnlessRefreshed: what the server counted is what *)
(* the request accounts for, and a sign-in is sent again once at most.     *)
THEOREM PasswordsCountOnce == Spec => []WrongPasswordCountsOnceUnlessRefreshed
  <1>1. Inv => WrongPasswordCountsOnceUnlessRefreshed
    <2> SUFFICES ASSUME Inv, NEW c \in Calls
                 PROVE  /\ counted[c] <= 1 + renewed[c]
                        /\ renewed[c] <= IF client = "sdk" THEN 0 ELSE 1
      BY DEF WrongPasswordCountsOnceUnlessRefreshed
    <2>1. counted[c] = Refusals(request[c]) /\ renewed[c] = Renewals(request[c])
      BY DEF Inv, PasswordsCounted
    <2>2. client = "sdk" /\ request[c].retried => request[c].op = "me"
      BY DEF Inv, RetriesProfiles
    <2> QED
      BY <2>1, <2>2 DEF Refusals, Renewals
  <1> QED
    BY <1>1, ClientsHold, PTL

-------------------------------------------------------------------------------
(* The cards that show a list.                                             *)

CardList == SUBSET Items
ListTyped ==
    /\ card \in Cards
    /\ table \in [Users \cup {Nobody} -> CardList]
    /\ user \in Users \cup {Nobody}
    /\ cache \in [owner : Users, items : CardList] \cup {NoData}
    /\ fetch \in [step : {"asked", "read"}, by : Users, items : CardList] \cup {NoFetch}
    /\ excused \in BOOLEAN /\ wanted \in SUBSET CardList
    /\ excused => wanted = Unknown

ClickTyped(c) ==
    \/ c = NoClick
    \/ /\ c.step \in {"sent", "done", "refused", "waiting"} /\ c.change \in DOMAIN card
       /\ c.step = "sent" => c.by \in Users /\ c.item \in Items /\ c.items \in CardList

ClicksTyped == DOMAIN click = Clicks /\ \A n \in Clicks : ClickTyped(click[n])

(* A change was made on the server, and the list was not asked for since.  *)
Outdated == \E n \in Clicks : click[n].step = "done"

(* A list on the way is the user's, and so is the list in the cache when   *)
(* none is on the way.                                                     *)
ListFresh ==
    user # Nobody /\ ~excused =>
        /\ fetch # NoFetch => fetch.by = user
        /\ fetch.step = "read" /\ ~Outdated => fetch.items = table[Table(user)]
        /\ fetch = NoFetch /\ cache # NoData /\ ~Outdated =>
              cache.items = table[Table(user)] /\ (card \notin AdminTabs => cache.owner = user)

(* As long as it is known what is wanted of a role, there is one toggle at *)
(* a time, and it sends what the server has.                               *)
RoleFresh ==
    wanted # Unknown =>
        /\ card = RoleCard /\ wanted = {table[Nobody]}
        /\ user = Nobody =>
              cache = NoData /\ fetch = NoFetch /\ \A n \in Clicks : click[n] = NoClick
        /\ \A n, m \in Clicks : click[n] # NoClick /\ click[m] # NoClick => n = m
        /\ \A n \in Clicks : click[n].step = "sent" => click[n].items = table[Nobody]
        /\ fetch.step = "read" /\ ~Outdated => fetch.items = table[Nobody]
        /\ ~Outdated /\ cache # NoData /\ (\A n \in Clicks : click[n].step # "waiting") =>
              cache.items = table[Nobody]

(* The invariant of the lists.                                             *)
ListKept == ListTyped /\ ClicksTyped /\ ListFresh /\ RoleFresh

(* No control of a card forgets what follows its success.                  *)
LEMMA ControlsKnown ==
    \A c \in Cards : \A x \in DOMAIN c :
        /\ c[x].then \in {"wait", "ask", "close"}
        /\ c[x].effect \in {"add", "remove", "clear", "replace", "flip"}
BY DEF Cards, AdminTabs, RolesTab, RoleCard, UsersTab, SecurityTab, SessionsCard, PasskeysCard,
   ConnectedAccountsCard, ApiKeysCard, TwoFactorCard, NotificationsBell, OrganizationDetail,
   OrganizationsPage, Change, EnrollView, EnabledView, SmsFactorSection, CreateTeamForm

(* The card of a role has one control, which is disabled while it is       *)
(* pending and until the list is there.                                    *)
LEMMA RoleHasToggle ==
    /\ RoleCard \in AdminTabs /\ RoleCard \in Cards
    /\ DOMAIN RoleCard = {"update"}
    /\ RoleCard["update"].effect = "replace" /\ RoleCard["update"].guarded = "all"
    /\ RoleCard["update"].then = "wait"
BY DEF RoleCard, AdminTabs, Cards, Change

(* A list belongs to a user, or to all.                                    *)
LEMMA TableTyped ==
    ASSUME ListTyped, NEW u \in Users \cup {Nobody}
    PROVE  Table(u) \in Users \cup {Nobody} /\ table[Table(u)] \in CardList
BY DEF Table, ListTyped

(* What is known of a list holds at first.                                 *)
LEMMA ListsInit == ListInit => ListKept
<1> SUFFICES ASSUME ListInit PROVE ListKept
    OBVIOUS
<1>1. /\ card \in Cards /\ table \in [Users \cup {Nobody} -> CardList]
      /\ user = Nobody /\ cache = NoData /\ fetch = NoFetch
      /\ click = [n \in Clicks |-> NoClick] /\ excused = FALSE
      /\ wanted = IF card = RoleCard THEN {table[Nobody]} ELSE Unknown
    BY DEF ListInit, CardList
<1>2. ListTyped
    BY <1>1 DEF ListTyped, Unknown
<1>3. ClicksTyped
    BY <1>1 DEF ClicksTyped, ClickTyped
<1>4. ListFresh
    BY <1>1 DEF ListFresh
<1>5. NoClick.step = "over" /\ NoFetch.step = "idle"
    BY DEF NoClick, NoFetch
<1>6. RoleFresh
    BY <1>1, <1>5 DEF RoleFresh, Unknown
<1> QED
    BY <1>2, <1>3, <1>4, <1>6 DEF ListKept

-------------------------------------------------------------------------------
(* What stands for nothing is told apart.                                  *)
LEMMA NothingShown ==
    /\ NoFetch.step = "idle" /\ NoFetch.by = Nobody
    /\ NoClick.step = "over" /\ NoClick.change = "none"
    /\ \A c \in [owner : Users, items : CardList] : c # NoData
    /\ \A u \in Users : u # Nobody
BY NobodyIsNoUser DEF NoFetch, NoClick, NoData

(* With an excuse, nothing is claimed.                                     *)
LEMMA ExcuseKeeps ==
    ASSUME Excuse
    PROVE  /\ ListFresh' /\ RoleFresh' /\ excused' \in BOOLEAN
           /\ wanted' \in SUBSET CardList /\ wanted' = Unknown
BY DEF Excuse, ListFresh, RoleFresh, Unknown

(* The changes stay typed when none begins and none moves on but one.      *)
LEMMA ClicksStay ==
    ASSUME ClicksTyped, NEW n \in Clicks, NEW c, ClickTyped(c), card' = card,
           click' = [click EXCEPT ![n] = c]
    PROVE  /\ ClicksTyped' /\ click'[n] = c
           /\ \A m \in Clicks : m # n => click'[m] = click[m]
<1>1. /\ click'[n] = c /\ DOMAIN click' = Clicks
      /\ \A m \in Clicks : m # n => click'[m] = click[m]
    BY DEF ClicksTyped
<1>2. \A m \in Clicks : ClickTyped(click'[m])
    BY <1>1 DEF ClicksTyped
<1> QED
    BY <1>1, <1>2 DEF ClicksTyped, ClickTyped, CardList

(* A request for the list begins, in the name of who sees the card.        *)
LEMMA AskKeeps ==
    ASSUME ListKept, NEW u \in Users, user' = u, Ask(u), UNCHANGED <<card, table, cache, wanted>>,
           ClicksTyped', wanted # Unknown =>
               /\ \A n \in Clicks : click'[n] # NoClick => click[n] # NoClick
               /\ \A n \in Clicks : click'[n].step = "sent" => click[n] = click'[n]
               /\ (\A n \in Clicks : click'[n].step # "waiting") /\ cache # NoData =>
                      /\ ~Outdated /\ \A n \in Clicks : click[n].step # "waiting"
    PROVE  ListKept'
<1>1. ListTyped /\ RoleFresh
    BY DEF ListKept
<1>2. fetch' = [step |-> "asked", by |-> u, items |-> {}] /\ excused' = FALSE
    BY DEF Ask
<1>3. fetch'.by = u /\ fetch'.step = "asked" /\ fetch' # NoFetch
    BY <1>2, NothingShown
<1>4. ListTyped'
    BY <1>1, <1>2 DEF ListTyped, CardList, Unknown
<1>5. ListFresh'
    BY <1>3 DEF ListFresh
<1>6. RoleFresh'
    BY <1>1, <1>3, NothingShown DEF RoleFresh, Unknown
<1> QED
    BY <1>4, <1>5, <1>6 DEF ListKept

(* Somebody signs in, and the card asks for the list.                      *)
LEMMA SignInKeeps ==
    ASSUME ListKept, NEW u \in Users, SignIn(u)
    PROVE  ListKept'
<1>1. user = Nobody /\ user' = u /\ UNCHANGED <<card, table, cache, click>>
    BY DEF SignIn
<1>2. ListTyped /\ ClicksTyped /\ RoleFresh
    BY DEF ListKept
<1>3. ClicksTyped'
    BY <1>1, <1>2 DEF ClicksTyped, ClickTyped, CardList
<1>4. CASE Ask(u)
    <2>1. wanted # Unknown => cache = NoData
        BY <1>1, <1>2 DEF RoleFresh
    <2> QED
        BY <1>1, <1>3, <1>4, <2>1, AskKeeps DEF Ask
<1>5. CASE Share
    <2>1. ListTyped'
        BY <1>1, <1>2, <1>5, ExcuseKeeps DEF Share, ListTyped, CardList
    <2> QED
        BY <1>3, <1>5, <2>1, ExcuseKeeps DEF Share, ListKept
<1> QED
    BY <1>4, <1>5 DEF SignIn

(* The user signs out, and what the tab holds stays.                       *)
LEMMA SignOutKeeps ==
    ASSUME ListKept, SignOut
    PROVE  ListKept'
<1>1. user' = Nobody /\ wanted' = Unknown /\ UNCHANGED <<card, table, cache, fetch, click, excused>>
    BY DEF SignOut
<1>2. ListTyped' /\ ClicksTyped'
    BY <1>1 DEF ListKept, ListTyped, ClicksTyped, ClickTyped, CardList, Unknown
<1>3. ListFresh' /\ RoleFresh'
    BY <1>1 DEF ListFresh, RoleFresh, Unknown
<1> QED
    BY <1>2, <1>3 DEF ListKept

(* A list that nobody shows is dropped.                                    *)
LEMMA ForgetKeeps ==
    ASSUME ListKept, Forget
    PROVE  ListKept'
<1>1. /\ user = Nobody /\ cache' = NoData
      /\ UNCHANGED <<card, table, user, fetch, click, excused, wanted>>
    BY DEF Forget, reasons
<1>2. ListTyped' /\ ClicksTyped'
    BY <1>1 DEF ListKept, ListTyped, ClicksTyped, ClickTyped, CardList, Unknown
<1>3. ListFresh'
    BY <1>1 DEF ListFresh
<1>4. RoleFresh'
    BY <1>1 DEF ListKept, RoleFresh, Unknown, Outdated
<1> QED
    BY <1>2, <1>3, <1>4 DEF ListKept

(* The list is read as it is.                                              *)
LEMMA ReadKeeps ==
    ASSUME ListKept, Read
    PROVE  ListKept'
<1>1. /\ fetch.step = "asked"
      /\ fetch' = [step |-> "read", by |-> fetch.by, items |-> table[Table(fetch.by)]]
      /\ UNCHANGED <<card, table, user, cache, click, excused, wanted>>
    BY DEF Read, reasons
<1>2. ListTyped /\ ListFresh /\ RoleFresh /\ ClicksTyped
    BY DEF ListKept
<1>3. fetch # NoFetch /\ fetch.by \in Users /\ table[Table(fetch.by)] \in CardList
    <2>1. fetch # NoFetch
        BY <1>1, NothingShown
    <2>2. fetch.by \in Users
        BY <1>2, <2>1 DEF ListTyped
    <2> QED
        BY <1>2, <2>1, <2>2, TableTyped
<1>4. /\ fetch'.step = "read" /\ fetch'.by = fetch.by /\ fetch' # NoFetch
      /\ fetch'.items = table[Table(fetch.by)]
    BY <1>1, NothingShown
<1>5. ListTyped'
    BY <1>1, <1>2, <1>3 DEF ListTyped, CardList, Unknown
<1>6. ClicksTyped'
    BY <1>1, <1>2 DEF ClicksTyped, ClickTyped, CardList
<1>7. ListFresh'
    BY <1>1, <1>2, <1>3, <1>4 DEF ListFresh, Table, Outdated
<1>8. RoleFresh'
    <2> SUFFICES ASSUME wanted # Unknown PROVE RoleFresh'
        BY <1>1 DEF RoleFresh, Unknown
    <2>1. fetch'.items = table[Nobody]
        BY <1>2, <1>4, RoleHasToggle DEF RoleFresh, Table
    <2>2. user # Nobody
        BY <1>2, <1>3 DEF RoleFresh
    <2> QED
        BY <1>1, <1>2, <2>1, <2>2 DEF RoleFresh, Unknown, Outdated
<1> QED
    BY <1>5, <1>6, <1>7, <1>8 DEF ListKept

(* A change that waited for the list is over when it is there.             *)
LEMMA ReleasedTyped ==
    ASSUME ClicksTyped, click' = Released, card' = card
    PROVE  /\ ClicksTyped' /\ Outdated' = Outdated
           /\ \A n \in Clicks : /\ click'[n].step # "waiting"
                                /\ click'[n] \in {click[n], NoClick}
<1>1. /\ DOMAIN click' = Clicks
      /\ \A n \in Clicks : click'[n] = IF click[n].step = "waiting" THEN NoClick ELSE click[n]
    BY DEF Released
<1>2. \A n \in Clicks : /\ click'[n].step # "waiting"
                        /\ click'[n] \in {click[n], NoClick}
                        /\ click'[n].step = "done" <=> click[n].step = "done"
    BY <1>1, NothingShown
<1>3. \A n \in Clicks : ClickTyped(click'[n])
    BY <1>2 DEF ClicksTyped, ClickTyped
<1>4. ClicksTyped'
    BY <1>1, <1>3 DEF ClicksTyped, ClickTyped, CardList
<1>5. Outdated' = Outdated
    BY <1>2 DEF Outdated
<1> QED
    BY <1>2, <1>4, <1>5

(* The list arrives, and the changes that waited for it are over.          *)
LEMMA FetchedKeeps ==
    ASSUME ListKept, Fetched
    PROVE  ListKept'
<1>1. /\ fetch.step = "read" /\ fetch' = NoFetch /\ click' = Released
      /\ cache' = [owner |-> fetch.by, items |-> fetch.items]
      /\ UNCHANGED <<card, table, user, excused, wanted>>
    BY DEF Fetched, reasons
<1>2. ListTyped /\ ListFresh /\ RoleFresh /\ ClicksTyped
    BY DEF ListKept
<1>3. fetch # NoFetch /\ fetch.by \in Users /\ fetch.items \in CardList
    <2>1. fetch # NoFetch
        BY <1>1, NothingShown
    <2> QED
        BY <1>2, <2>1 DEF ListTyped
<1>4. cache'.owner = fetch.by /\ cache'.items = fetch.items /\ NoFetch.step = "idle"
    BY <1>1, NothingShown
<1>5. ListTyped'
    BY <1>1, <1>2, <1>3 DEF ListTyped, CardList, Unknown
<1>6. /\ ClicksTyped' /\ Outdated' = Outdated
      /\ \A n \in Clicks : /\ click'[n].step # "waiting"
                           /\ click'[n] \in {click[n], NoClick}
    BY <1>1, <1>2, ReleasedTyped
<1>7. ListFresh'
    <2> SUFFICES ASSUME user # Nobody, ~excused, ~Outdated
                 PROVE  /\ cache'.items = table[Table(user)]
                        /\ cache'.owner = user
        BY <1>1, <1>4, <1>6 DEF ListFresh, Table
    <2> QED
        BY <1>1, <1>2, <1>3, <1>4 DEF ListFresh
<1>8. RoleFresh'
    <2> SUFFICES ASSUME wanted # Unknown PROVE RoleFresh'
        BY <1>1 DEF RoleFresh, Unknown
    <2>1. user # Nobody
        BY <1>2, <1>3 DEF RoleFresh
    <2>2. \A n \in Clicks : /\ click'[n] # NoClick => click[n] # NoClick
                            /\ click'[n].step = "sent" => click'[n] = click[n]
        BY <1>6, NothingShown
    <2>3. ~Outdated => cache'.items = table[Nobody]
        BY <1>1, <1>2, <1>4 DEF RoleFresh
    <2> QED
        BY <1>1, <1>2, <1>4, <1>6, <2>1, <2>2, <2>3 DEF RoleFresh, Unknown
<1> QED
    BY <1>5, <1>6, <1>7, <1>8 DEF ListKept

(* The list does not arrive.                                               *)
LEMMA FetchFailsKeeps ==
    ASSUME ListKept, FetchFails
    PROVE  ListKept'
<1>1. fetch' = NoFetch /\ click' = Released /\ Excuse /\ UNCHANGED <<card, table, user, cache>>
    BY DEF FetchFails
<1>2. ListTyped'
    BY <1>1, ExcuseKeeps DEF ListKept, ListTyped, CardList
<1> QED
    BY <1>1, <1>2, ReleasedTyped, ExcuseKeeps DEF ListKept

(* The bell asks on its own; a role does not.                              *)
LEMMA PollKeeps ==
    ASSUME ListKept, Poll
    PROVE  ListKept'
<1>1. /\ card = NotificationsBell /\ user # Nobody /\ Ask(user)
      /\ UNCHANGED <<card, table, user, cache, click>>
    BY DEF Poll
<1>2. ListTyped /\ RoleFresh /\ ClicksTyped
    BY DEF ListKept
<1>3. wanted = Unknown
    <2>1. RoleCard # NotificationsBell
        <3>1. DOMAIN NotificationsBell = {"markRead", "markAll", "remove"}
            BY DEF NotificationsBell
        <3> QED
            BY <3>1, RoleHasToggle
    <2> QED
        BY <1>1, <1>2, <2>1 DEF RoleFresh
<1>4. ClicksTyped'
    BY <1>1, <1>2 DEF ClicksTyped, ClickTyped, CardList
<1>5. PICK u \in Users : u = user
    BY <1>1, <1>2 DEF ListTyped
<1> QED
    BY <1>1, <1>3, <1>4, <1>5, AskKeeps DEF Ask

(* A click on an item of the list, as it is shown.                         *)
LEMMA ClickKeeps ==
    ASSUME ListKept, NEW n \in Clicks, NEW change \in DOMAIN card, NEW item \in Items,
           Click(n, change, item)
    PROVE  ListKept'
<1>1. PICK c : c = [step |-> "sent", change |-> change, by |-> user, item |-> item,
                    items |-> IF card[change].effect \in {"replace", "flip"}
                              THEN cache.items ELSE {}]
    OBVIOUS
<1>2. /\ user # Nobody /\ click[n] = NoClick /\ Usable(change, item)
      /\ click' = [click EXCEPT ![n] = c]
      /\ UNCHANGED <<card, table, user, cache, fetch, excused, wanted>>
    BY <1>1 DEF Click, reasons
<1>3. ListTyped /\ ListFresh /\ RoleFresh /\ ClicksTyped
    BY DEF ListKept
<1>4. /\ c.step = "sent" /\ c.change = change /\ c.by = user /\ c.item = item /\ c # NoClick
      /\ c.items = IF card[change].effect \in {"replace", "flip"} THEN cache.items ELSE {}
    BY <1>1, NothingShown
<1>5. cache.items \in CardList
    BY <1>3 DEF ListTyped, NoData, CardList
<1>6. ClickTyped(c)
    BY <1>2, <1>3, <1>4, <1>5 DEF ClickTyped, ListTyped, CardList
<1>7. ClicksTyped' /\ click'[n] = c /\ \A m \in Clicks : m # n => click'[m] = click[m]
    BY <1>2, <1>3, <1>6, ClicksStay
<1>8. ListTyped'
    BY <1>2, <1>3 DEF ListTyped, CardList, Unknown
<1>9. Outdated' = Outdated
    BY <1>2, <1>4, <1>7, NothingShown DEF Outdated
<1>10. ListFresh'
    BY <1>2, <1>3, <1>9 DEF ListFresh, Table
<1>11. RoleFresh'
    <2> SUFFICES ASSUME wanted # Unknown PROVE RoleFresh'
        BY <1>2 DEF RoleFresh, Unknown
    <2>1. card = RoleCard /\ change = "update"
        BY <1>3, RoleHasToggle DEF RoleFresh
    <2>2. ~Pending("update", item) /\ cache # NoData
        BY <1>2, <2>1, RoleHasToggle DEF Usable
    <2>3. \A m \in Clicks : click[m] = NoClick
        BY <1>3, <2>1, <2>2, RoleHasToggle DEF Pending, ClicksTyped, ClickTyped
    <2>4. c.items = table[Nobody]
        BY <1>3, <1>4, <2>1, <2>2, <2>3, RoleHasToggle, NothingShown DEF RoleFresh, Outdated
    <2> QED
        BY <1>2, <1>3, <1>4, <1>7, <1>9, <2>3, <2>4, NothingShown DEF RoleFresh, Unknown
<1> QED
    BY <1>7, <1>8, <1>10, <1>11 DEF ListKept

(* The server makes the change, or refuses it.                             *)
LEMMA HandleKeeps ==
    ASSUME ListKept, NEW n \in Clicks, Handle(n)
    PROVE  ListKept'
<1>1. /\ click[n].step = "sent" /\ UNCHANGED <<card, user, cache, fetch, excused>>
    BY DEF Handle
<1>2. ListTyped /\ ListFresh /\ RoleFresh /\ ClicksTyped
    BY DEF ListKept
<1>3. PICK d : d = click[n]
    OBVIOUS
<1>4. /\ d # NoClick /\ d.change \in DOMAIN card
      /\ d.by \in Users /\ d.item \in Items /\ d.items \in CardList
    BY <1>1, <1>2, <1>3, NothingShown DEF ClicksTyped, ClickTyped
<1>5. Table(d.by) \in Users \cup {Nobody} /\ table[Table(d.by)] \in CardList
    BY <1>2, <1>4, TableTyped
<1>6. CASE /\ table' = [table EXCEPT ![Table(d.by)] = Changed(d, @)]
           /\ wanted' = {Meant(d, items) : items \in wanted}
           /\ click' = [click EXCEPT ![n] = Handled("done", d)]
    <2>1. PICK c : c = Handled("done", d)
        OBVIOUS
    <2>2. c.step = "done" /\ c.change = d.change /\ c # NoClick
        BY <2>1, NothingShown DEF Handled
    <2>3. ClickTyped(c)
        BY <1>4, <2>2 DEF ClickTyped
    <2>4. ClicksTyped' /\ click'[n] = c /\ \A m \in Clicks : m # n => click'[m] = click[m]
        BY <1>1, <1>2, <1>6, <2>1, <2>3, ClicksStay
    <2>5. \A items \in CardList : Meant(d, items) \in CardList /\ Changed(d, items) \in CardList
        <3>1. ASSUME NEW items \in CardList PROVE Meant(d, items) \in CardList
            BY <1>4, <3>1 DEF Meant, CardList
        <3>2. ASSUME NEW items \in CardList PROVE toggle(d.items, d.item) \in CardList
            BY <1>4 DEF toggle, CardList
        <3>3. card[d.change].effect \in {"add", "remove", "clear", "replace", "flip"}
            BY <1>2, <1>4, ControlsKnown DEF ListTyped
        <3>4. ASSUME NEW items \in CardList PROVE Changed(d, items) \in CardList
            <4>1. items \cup {d.item} \in CardList /\ items \ {d.item} \in CardList
                BY <1>4 DEF CardList
            <4> QED
                BY <3>1, <3>2, <3>3, <4>1 DEF Changed, CardList
        <3> QED
            BY <3>1, <3>4
    <2>6. ListTyped'
        <3>1. table' \in [Users \cup {Nobody} -> CardList]
            BY <1>2, <1>5, <1>6, <2>5 DEF ListTyped
        <3>2. wanted' \in SUBSET CardList
            BY <1>2, <1>6, <2>5 DEF ListTyped
        <3>3. excused' => wanted' = Unknown
            BY <1>1, <1>2, <1>6 DEF ListTyped, Unknown
        <3> QED
            BY <1>1, <1>2, <3>1, <3>2, <3>3 DEF ListTyped, CardList
    <2>7. Outdated'
        BY <2>2, <2>4 DEF Outdated
    <2>8. ListFresh'
        BY <1>1, <1>2, <2>7 DEF ListFresh
    <2>9. RoleFresh'
        <3> SUFFICES ASSUME wanted # Unknown PROVE RoleFresh'
            BY <1>6 DEF RoleFresh, Unknown
        <3>1. /\ card = RoleCard /\ wanted = {table[Nobody]} /\ user # Nobody
              /\ d.items = table[Nobody] /\ \A m \in Clicks : m # n => click[m] = NoClick
            BY <1>1, <1>2, <1>3, <1>4 DEF RoleFresh
        <3>2. Table(d.by) = Nobody /\ d.change = "update"
            BY <1>4, <3>1, RoleHasToggle DEF Table
        <3>3. Changed(d, table[Nobody]) = toggle(table[Nobody], d.item)
            BY <3>1, <3>2, RoleHasToggle DEF Changed
        <3>4. Meant(d, table[Nobody]) = toggle(table[Nobody], d.item)
            BY <3>1 DEF Meant, toggle
        <3>5. table'[Nobody] = toggle(table[Nobody], d.item)
            BY <1>2, <1>6, <3>2, <3>3 DEF ListTyped
        <3>6. wanted' = {table'[Nobody]}
            BY <1>6, <3>1, <3>4, <3>5
        <3> QED
            BY <1>1, <2>2, <2>4, <2>7, <3>1, <3>6, NothingShown DEF RoleFresh
    <2> QED
        BY <2>4, <2>6, <2>8, <2>9 DEF ListKept
<1>7. CASE click' = [click EXCEPT ![n] = Handled("refused", d)] /\ UNCHANGED <<table, wanted>>
    <2>1. PICK c : c = Handled("refused", d)
        OBVIOUS
    <2>2. c.step = "refused" /\ c.change = d.change /\ c # NoClick
        BY <2>1, NothingShown DEF Handled
    <2>3. ClickTyped(c)
        BY <1>4, <2>2 DEF ClickTyped
    <2>4. ClicksTyped' /\ click'[n] = c /\ \A m \in Clicks : m # n => click'[m] = click[m]
        BY <1>1, <1>2, <1>7, <2>1, <2>3, ClicksStay
    <2>5. ListTyped'
        BY <1>1, <1>2, <1>7 DEF ListTyped, CardList, Unknown
    <2>6. Outdated' = Outdated
        BY <1>1, <2>2, <2>4 DEF Outdated
    <2>7. ListFresh'
        BY <1>1, <1>2, <1>7, <2>6 DEF ListFresh, Table
    <2>8. RoleFresh'
        <3> SUFFICES ASSUME wanted # Unknown PROVE RoleFresh'
            BY <1>7 DEF RoleFresh, Unknown
        <3>1. user # Nobody /\ \A m \in Clicks : click'[m] # NoClick => click[m] # NoClick
            BY <1>1, <1>2, <1>3, <1>4, <2>4 DEF RoleFresh
        <3>2. \A m \in Clicks : click'[m].step \in {"sent", "waiting"} => click'[m] = click[m]
            BY <2>2, <2>4
        <3>3. (\A m \in Clicks : click'[m].step # "waiting") =>
                  \A m \in Clicks : click[m].step # "waiting"
            BY <1>1, <2>4
        <3> QED
            BY <1>1, <1>2, <1>7, <2>6, <3>1, <3>2, <3>3 DEF RoleFresh, Unknown
    <2> QED
        BY <2>4, <2>5, <2>7, <2>8 DEF ListKept
<1> QED
    BY <1>3, <1>6, <1>7 DEF Handle

(* The card learns of the success, and asks for the list.                  *)
LEMMA onSuccessKeeps ==
    ASSUME ListKept, NEW n \in Clicks, onSuccess(n)
    PROVE  ListKept'
<1>1. PICK d : d = click[n]
    OBVIOUS
<1>2. PICK c : c = IF card[d.change].then = "wait" /\ user # Nobody
                   THEN Handled("waiting", d) ELSE NoClick
    OBVIOUS
<1>3. /\ d.step = "done" /\ click' = [click EXCEPT ![n] = c]
      /\ UNCHANGED <<card, table, user, cache>>
    BY <1>1, <1>2 DEF onSuccess
<1>4. ListTyped /\ ListFresh /\ RoleFresh /\ ClicksTyped
    BY DEF ListKept
<1>5. d # NoClick /\ d.change \in DOMAIN card
    BY <1>1, <1>3, <1>4, NothingShown DEF ClicksTyped, ClickTyped
<1>6. c = NoClick \/ (c.step = "waiting" /\ c.change = d.change)
    BY <1>2 DEF Handled
<1>7. ClicksTyped' /\ click'[n] = c /\ \A m \in Clicks : m # n => click'[m] = click[m]
    BY <1>3, <1>4, <1>5, <1>6, ClicksStay DEF ClickTyped
<1>8. ASSUME Excuse, UNCHANGED fetch PROVE ListKept'
    <2>1. ListTyped'
        BY <1>3, <1>4, <1>8, ExcuseKeeps DEF ListTyped, CardList
    <2> QED
        BY <1>7, <1>8, <2>1, ExcuseKeeps DEF ListKept
<1>9. ASSUME user # Nobody, Ask(user) PROVE ListKept'
    <2>1. PICK u \in Users : u = user
        BY <1>4, <1>9 DEF ListTyped
    <2>2. ASSUME wanted # Unknown
          PROVE  /\ \A m \in Clicks : click'[m] # NoClick => click[m] # NoClick
                 /\ \A m \in Clicks : click'[m].step = "sent" => click[m] = click'[m]
                 /\ \E m \in Clicks : click'[m].step = "waiting"
        <3>1. card = RoleCard /\ d.change = "update"
            BY <1>4, <1>5, <2>2, RoleHasToggle DEF RoleFresh
        <3>2. c.step = "waiting"
            BY <1>2, <1>9, <3>1, RoleHasToggle DEF Handled
        <3> QED
            BY <1>1, <1>5, <1>7, <3>2
    <2> QED
        BY <1>3, <1>7, <1>9, <2>1, <2>2, AskKeeps DEF Ask
<1>10. ASSUME user = Nobody, UNCHANGED <<fetch, reasons>> PROVE ListKept'
    <2>1. wanted = Unknown
        BY <1>1, <1>4, <1>5, <1>10 DEF RoleFresh
    <2>2. UNCHANGED <<fetch, excused, wanted>>
        BY <1>10 DEF reasons
    <2>3. ListTyped'
        BY <1>3, <1>4, <2>2 DEF ListTyped, CardList, Unknown
    <2>4. ListFresh' /\ RoleFresh'
        BY <1>3, <1>10, <2>1, <2>2 DEF ListFresh, RoleFresh, Unknown
    <2> QED
        BY <1>7, <2>3, <2>4 DEF ListKept
<1>11. card[d.change].then # "nothing"
    BY <1>4, <1>5, ControlsKnown DEF ListTyped
<1>12. (Excuse /\ UNCHANGED fetch) \/ invalidate
    BY <1>1, <1>11 DEF onSuccess
<1>13. \/ Excuse /\ UNCHANGED fetch
       \/ user # Nobody /\ Ask(user)
       \/ user = Nobody /\ UNCHANGED <<fetch, reasons>>
    BY <1>12 DEF invalidate, Share
<1> QED
    BY <1>8, <1>9, <1>10, <1>13

(* The change was refused, or its answer was lost.                         *)
LEMMA onErrorKeeps ==
    ASSUME ListKept, NEW n \in Clicks, onError(n)
    PROVE  ListKept'
<1>1. /\ click' = [click EXCEPT ![n] = NoClick]
      /\ UNCHANGED <<card, table, user, cache, fetch>>
    BY DEF onError
<1>2. ListTyped /\ ListFresh /\ RoleFresh /\ ClicksTyped
    BY DEF ListKept
<1>3. /\ ClicksTyped' /\ click'[n] = NoClick
      /\ \A m \in Clicks : m # n => click'[m] = click[m]
    BY <1>1, <1>2, ClicksStay DEF ClickTyped
<1>4. CASE click[n].step = "refused" /\ UNCHANGED reasons
    <2>1. UNCHANGED <<excused, wanted>>
        BY <1>4 DEF reasons
    <2>2. ListTyped'
        BY <1>1, <1>2, <2>1 DEF ListTyped, CardList, Unknown
    <2>3. Outdated' = Outdated
        BY <1>3, <1>4, NothingShown DEF Outdated
    <2>4. ListFresh'
        BY <1>1, <1>2, <2>1, <2>3 DEF ListFresh, Table
    <2>5. \A m \in Clicks : /\ click'[m] # NoClick => click'[m] = click[m]
                            /\ click'[m].step = "waiting" <=> click[m].step = "waiting"
                            /\ click'[m].step = "sent" => click'[m] = click[m]
        BY <1>3, <1>4, NothingShown
    <2>6. RoleFresh'
        BY <1>1, <1>2, <1>3, <2>1, <2>3, <2>5 DEF RoleFresh, Unknown
    <2> QED
        BY <1>3, <2>2, <2>4, <2>6 DEF ListKept
<1>5. CASE Excuse
    <2>1. ListTyped'
        BY <1>1, <1>2, <1>5, ExcuseKeeps DEF ListTyped, CardList
    <2> QED
        BY <1>3, <1>5, <2>1, ExcuseKeeps DEF ListKept
<1> QED
    BY <1>4, <1>5 DEF onError

(* Somebody else changes the list.                                         *)
LEMMA OthersChangeKeeps ==
    ASSUME ListKept, NEW item \in Items, OthersChange(item)
    PROVE  ListKept'
<1>1. /\ table' = [table EXCEPT ![Table(user)] = toggle(@, item)] /\ Excuse
      /\ UNCHANGED <<card, user, cache, fetch, click>>
    BY DEF OthersChange
<1>2. ListTyped /\ ClicksTyped
    BY DEF ListKept
<1>3. table[Table(user)] \in CardList /\ Table(user) \in Users \cup {Nobody}
    BY <1>2, TableTyped DEF ListTyped
<1>4. toggle(table[Table(user)], item) \in CardList
    BY <1>3 DEF toggle, CardList
<1>5. table' \in [Users \cup {Nobody} -> CardList]
    BY <1>1, <1>2, <1>4 DEF ListTyped
<1>6. ListTyped'
    BY <1>1, <1>2, <1>5, ExcuseKeeps DEF ListTyped, CardList
<1>7. ClicksTyped'
    BY <1>1, <1>2 DEF ClicksTyped, ClickTyped, CardList
<1> QED
    BY <1>1, <1>6, <1>7, ExcuseKeeps DEF ListKept

(* Every step of a card keeps what is known of its list.                   *)
LEMMA ListsInductive == ListKept /\ [ListNext]_dashboardVars => ListKept'
<1> SUFFICES ASSUME ListKept, [ListNext]_dashboardVars PROVE ListKept'
    OBVIOUS
<1>1. CASE ListNext
    BY <1>1, SignInKeeps, SignOutKeeps, ForgetKeeps, ReadKeeps, FetchedKeeps, FetchFailsKeeps,
       PollKeeps, ClickKeeps, HandleKeeps, onSuccessKeeps, onErrorKeeps, OthersChangeKeeps
       DEF ListNext
<1>2. CASE UNCHANGED dashboardVars
    BY <1>2 DEF dashboardVars, reasons, ListKept, ListTyped, ClicksTyped, ClickTyped, ListFresh,
       RoleFresh, Outdated, CardList, Unknown, Table
<1> QED
    BY <1>1, <1>2

(* What is known of the list gives what the card shows.                    *)
LEMMA ListShown ==
    ASSUME ListKept
    PROVE  ShowsTheListAtRest /\ TogglesAccumulateUnlessDisturbed
<1>1. ListTyped /\ ClicksTyped /\ ListFresh /\ RoleFresh
    BY DEF ListKept
<1>2. ListTypeOK
    <2>1. /\ fetch.step \in {"idle", "asked", "read"} /\ (fetch.step = "idle" => fetch = NoFetch)
          /\ fetch.by \in Users \cup {Nobody} /\ fetch.items \subseteq Items
        BY <1>1 DEF ListTyped, NoFetch, CardList
    <2>2. \A n \in Clicks :
              \/ click[n] = NoClick
              \/ /\ click[n].step \in {"sent", "done", "refused", "waiting"}
                 /\ click[n].change \in DOMAIN card
        BY <1>1 DEF ClicksTyped, ClickTyped
    <2> QED
        BY <1>1, <2>1, <2>2 DEF ListTypeOK, ListTyped, CardList
<1>3. AtRest => ~Outdated
    BY NothingShown DEF AtRest, Outdated
<1>4. ShowsTheListAtRest
    BY <1>1, <1>2, <1>3 DEF ShowsTheListAtRest, ListFresh, AtRest
<1>5. TogglesAccumulateUnlessDisturbed
    BY <1>1 DEF RoleFresh, TogglesAccumulateUnlessDisturbed, Unknown
<1> QED
    BY <1>4, <1>5

-------------------------------------------------------------------------------
(* The push card.                                                          *)

SwitchRecord == [op : {"enable", "disable"}, step : {"prompt", "sent", "done"},
                 by : Users \cup {Nobody}, sub : Endpoints \cup {Nobody},
                 mounted : BOOLEAN, alone : BOOLEAN]

PushTyped ==
    /\ user \in Users \cup {Nobody}
    /\ push \in BOOLEAN /\ on \in BOOLEAN /\ looked \in BOOLEAN /\ pardon \in BOOLEAN
    /\ sub \in Endpoints \cup {Nobody} /\ gone \subseteq Endpoints /\ sending \subseteq Endpoints
    /\ row \in [Endpoints -> Users \cup {Nobody}]
    /\ switch \in [Switches -> SwitchRecord \cup {NoSwitch}]
    /\ \A n \in Switches :
          /\ switch[n].step \in {"sent", "done"} => switch[n].sub \in Endpoints
          /\ switch[n].step = "prompt" => switch[n].op = "enable"

(* The card is there while somebody is signed in, and has one change at a  *)
(* time: it is of that user.  One that began alone stays alone.            *)
CardAttended ==
    /\ user = Nobody => ~looked /\ ~on /\ ~Busy
    /\ \A n, m \in Switches : switch[n].mounted /\ switch[m].mounted => n = m
    /\ \A n, m \in Switches : switch[n].mounted /\ switch[n].alone /\ n # m => Unused(m)
    /\ \A n \in Switches : switch[n].mounted /\ switch[n].step \in {"sent", "done"}
                                => switch[n].by = user

(* What has been turned on alone is stored, unless the service ended it.   *)
EnabledStored ==
    \A n \in Switches :
        /\ switch[n].mounted /\ switch[n].alone
        /\ switch[n].op = "enable" /\ switch[n].step = "done"
        => switch[n].sub \in gone \/ row[switch[n].sub] = user

(* While nothing has been sent, and without a pardon, what is stored for   *)
(* the user is what the card says, or will say when it has looked.         *)
Settled == \A n \in Switches : Unused(n) \/ switch[n].step = "prompt"
CardRight ==
    ~pardon /\ user # Nobody /\ Settled =>
        /\ looked => (on <=> Stored(user))
        /\ ~looked => sub = Nobody \/ Stored(user)
        /\ Stored(user) => sub \notin gone

PushKept == CardAttended /\ EnabledStored /\ CardRight
(* A behaviour is about the push card, which has no list, or about a list. *)
NoList ==
    /\ cache = NoData /\ fetch = NoFetch /\ wanted = Unknown
    /\ \A n \in Clicks : click[n] = NoClick
TabKept == ListKept /\ PushTyped /\ (IF push THEN PushKept /\ NoList ELSE Quiet)

(* What stands for no change of the push card is told apart.               *)
LEMMA NothingSwitched ==
    /\ NoSwitch.op = "none" /\ NoSwitch.step = "over" /\ NoSwitch.mounted = FALSE
    /\ NoSwitch.alone = FALSE /\ NoSwitch.sub = Nobody
    /\ \A c \in SwitchRecord : c # NoSwitch
    /\ [NoSwitch EXCEPT !.mounted = FALSE] = NoSwitch
    /\ Nobody \notin Endpoints /\ Nobody \notin Users
<1> DEFINE AnySwitch == [op : {"none"}, step : {"over"}, by : Users \cup {Nobody},
                         sub : Endpoints \cup {Nobody}, mounted : BOOLEAN, alone : BOOLEAN]
<1>1. /\ NoSwitch.op = "none" /\ NoSwitch.step = "over" /\ NoSwitch.mounted = FALSE
      /\ NoSwitch.alone = FALSE /\ NoSwitch.sub = Nobody
    BY DEF NoSwitch
<1>2. \A c \in SwitchRecord : c # NoSwitch
    BY DEF NoSwitch, SwitchRecord
<1>3. \A c \in AnySwitch : c.mounted = FALSE => [c EXCEPT !.mounted = FALSE] = c
    OBVIOUS
<1>4. NoSwitch \in AnySwitch
    BY DEF NoSwitch
<1> QED
    BY <1>1, <1>2, <1>3, <1>4, NobodyIsNoUser, NobodyIsNoEndpoint

(* One change begins or moves on, and the others stay.                     *)
LEMMA SwitchMoves ==
    ASSUME PushTyped, NEW n \in Switches, NEW c \in SwitchRecord \cup {NoSwitch},
           switch' = [switch EXCEPT ![n] = c],
           c.step \in {"sent", "done"} => c.sub \in Endpoints,
           c.step = "prompt" => c.op = "enable",
           UNCHANGED <<user, push>>, on' \in BOOLEAN, looked' \in BOOLEAN, pardon' \in BOOLEAN,
           sub' \in Endpoints \cup {Nobody}, gone' \subseteq Endpoints, UNCHANGED sending,
           row' \in [Endpoints -> Users \cup {Nobody}]
    PROVE  /\ PushTyped' /\ switch'[n] = c
           /\ \A m \in Switches : m # n => switch'[m] = switch[m]
<1>1. switch'[n] = c /\ \A m \in Switches : m # n => switch'[m] = switch[m]
    BY DEF PushTyped
<1>2. switch' \in [Switches -> SwitchRecord \cup {NoSwitch}]
    BY DEF PushTyped
<1>3. \A m \in Switches :
          /\ switch'[m].step \in {"sent", "done"} => switch'[m].sub \in Endpoints
          /\ switch'[m].step = "prompt" => switch'[m].op = "enable"
    BY <1>1 DEF PushTyped
<1> QED
    BY <1>1, <1>2, <1>3 DEF PushTyped, SwitchRecord, NoSwitch

(* The push card appears, for the next user.                               *)
LEMMA OpenKeeps ==
    ASSUME PushTyped, PushKept, NEW u \in Users, Open(u)
    PROVE  PushTyped' /\ PushKept'
<1>1. /\ user = Nobody /\ user' = u /\ u # Nobody
      /\ UNCHANGED <<push, sub, gone, row, on, looked, switch, sending>>
      /\ pardon' = ~(Quiet /\ (sub = Nobody \/ (sub \notin gone /\ Stored(u))))
    BY NothingSwitched DEF Open
<1>2. PushTyped'
    BY <1>1 DEF PushTyped, SwitchRecord, NoSwitch
<1>3. ~looked /\ ~on /\ ~Busy
    BY <1>1 DEF PushKept, CardAttended
<1>4. CardAttended'
    BY <1>1, <1>3 DEF PushKept, CardAttended, Busy, Unused, NoSwitch
<1>5. EnabledStored'
    BY <1>1, <1>3 DEF EnabledStored, Busy
<1>6. CardRight'
    BY <1>1, <1>3, NothingSwitched DEF CardRight, Stored
<1> QED
    BY <1>2, <1>4, <1>5, <1>6 DEF PushKept

(* The push card goes, and what it began goes on without it.               *)
LEMMA CloseKeeps ==
    ASSUME PushTyped, PushKept, Close
    PROVE  PushTyped' /\ PushKept'
<1>1. /\ user' = Nobody /\ on' = FALSE /\ looked' = FALSE /\ pardon' = TRUE
      /\ UNCHANGED <<push, sub, gone, row, sending>>
      /\ switch' = [n \in Switches |-> [switch[n] EXCEPT !.mounted = FALSE]]
    BY DEF Close
<1>2. ASSUME NEW n \in Switches
      PROVE  /\ switch'[n] \in SwitchRecord \cup {NoSwitch}
             /\ switch'[n].mounted = FALSE /\ switch'[n].step = switch[n].step
             /\ switch'[n].sub = switch[n].sub /\ switch'[n].op = switch[n].op
    <2>1. CASE switch[n] = NoSwitch
        BY <1>1, <2>1, NothingSwitched
    <2>2. CASE switch[n] \in SwitchRecord
        BY <1>1, <2>2 DEF SwitchRecord
    <2> QED
        BY <2>1, <2>2 DEF PushTyped
<1>3. switch' \in [Switches -> SwitchRecord \cup {NoSwitch}]
    BY <1>1, <1>2
<1>4. PushTyped'
    BY <1>1, <1>2, <1>3 DEF PushTyped, SwitchRecord, NoSwitch
<1>5. CardAttended'
    BY <1>1, <1>2 DEF CardAttended, Busy
<1>6. EnabledStored' /\ CardRight'
    BY <1>1, <1>2 DEF EnabledStored, CardRight
<1> QED
    BY <1>4, <1>5, <1>6 DEF PushKept

(* The push card asks the browser.                                         *)
LEMMA LookKeeps ==
    ASSUME PushTyped, PushKept, Look
    PROVE  PushTyped' /\ PushKept'
<1>1. /\ user # Nobody /\ ~looked /\ looked' = TRUE /\ on' = (sub # Nobody)
      /\ UNCHANGED <<user, push, sub, gone, row, switch, sending, pardon>>
    BY DEF Look
<1>2. PushTyped'
    BY <1>1 DEF PushTyped, SwitchRecord, NoSwitch
<1>3. CardAttended'
    BY <1>1 DEF PushKept, CardAttended, Busy, Unused, NoSwitch
<1>4. EnabledStored'
    BY <1>1 DEF PushKept, EnabledStored
<1>5. Stored(user)' <=> Stored(user)
    BY <1>1 DEF Stored
<1>6. CardRight'
    <2> SUFFICES ASSUME ~pardon, Settled PROVE CardRight'
        BY <1>1 DEF CardRight, Settled, Unused, NoSwitch
    <2>1. (sub = Nobody \/ Stored(user)) /\ (Stored(user) => sub \notin gone)
        BY <1>1 DEF PushKept, CardRight
    <2>2. on' <=> Stored(user)'
        BY <1>1, <1>5, <2>1 DEF Stored
    <2> QED
        BY <1>1, <1>5, <2>1, <2>2 DEF CardRight
<1> QED
    BY <1>2, <1>3, <1>4, <1>6 DEF PushKept

(* A change begins only when the card is quiet.                            *)
LEMMA enableKeeps ==
    ASSUME PushTyped, PushKept, NEW n \in Switches, enable(n)
    PROVE  PushTyped' /\ PushKept'
<1>1. PICK c : c = [op |-> "enable", step |-> "prompt", by |-> Nobody, sub |-> Nobody,
                    mounted |-> TRUE, alone |-> Quiet]
    OBVIOUS
<1>2. /\ user # Nobody /\ ~on /\ ~Busy /\ Unused(n) /\ switch' = [switch EXCEPT ![n] = c]
      /\ UNCHANGED <<user, push, sub, gone, row, on, looked, sending, pardon>>
    BY <1>1 DEF enable
<1>3. /\ c.op = "enable" /\ c.step = "prompt" /\ c.mounted = TRUE /\ c.alone = Quiet
      /\ c \in SwitchRecord
    BY <1>1 DEF SwitchRecord, Quiet
<1>4. PushTyped' /\ switch'[n] = c /\ \A m \in Switches : m # n => switch'[m] = switch[m]
    BY <1>2, <1>3, SwitchMoves DEF PushTyped
<1>5. CardAttended'
    <2>1. \A m \in Switches : switch'[m].mounted => m = n
        BY <1>2, <1>4 DEF Busy
    <2>2. c.alone => \A m \in Switches : m # n => switch'[m] = NoSwitch
        BY <1>3, <1>4 DEF Quiet, Unused
    <2>3. user' # Nobody
        BY <1>2
    <2> QED
        BY <1>3, <1>4, <2>1, <2>2, <2>3 DEF CardAttended, Unused, NoSwitch
<1>6. EnabledStored'
    BY <1>2, <1>3, <1>4 DEF PushKept, EnabledStored
<1>7. CardRight'
    <2>1. Settled' => Settled
        BY <1>2, <1>4 DEF Settled, Unused, NoSwitch
    <2> QED
        BY <1>2, <2>1 DEF PushKept, CardRight, Stored
<1> QED
    BY <1>4, <1>5, <1>6, <1>7 DEF PushKept

(* The subscription is sent, in the name of who is signed in.              *)
LEMMA subscribeKeeps ==
    ASSUME PushTyped, PushKept, NEW n \in Switches, subscribe(n)
    PROVE  PushTyped' /\ PushKept'
<1>1. PICK e : e = sub'
    OBVIOUS
<1>2. PICK c : c = [op |-> "enable", step |-> "sent", by |-> user, sub |-> e,
                    mounted |-> switch[n].mounted, alone |-> switch[n].alone]
    OBVIOUS
<1>3. /\ switch[n].step = "prompt" /\ switch' = [switch EXCEPT ![n] = c]
      /\ UNCHANGED <<user, push, gone, row, on, looked, sending, pardon>>
    BY <1>1, <1>2 DEF subscribe
<1>4. e \in Endpoints
    BY <1>1 DEF subscribe, PushTyped
<1>5. switch[n] \in SwitchRecord /\ switch[n] # NoSwitch /\ switch[n].op = "enable"
    BY <1>3, NothingSwitched DEF PushTyped
<1>6. c \in SwitchRecord
    BY <1>2, <1>4, <1>5 DEF SwitchRecord, PushTyped
<1>7. /\ c.op = "enable" /\ c.step = "sent" /\ c.by = user /\ c.sub = e
      /\ c.mounted = switch[n].mounted /\ c.alone = switch[n].alone
    BY <1>2
<1>8. PushTyped' /\ switch'[n] = c /\ \A m \in Switches : m # n => switch'[m] = switch[m]
    BY <1>1, <1>3, <1>4, <1>6, <1>7, SwitchMoves DEF PushTyped
<1>9. CardAttended'
    <2>1. \A m \in Switches : /\ switch'[m].mounted <=> switch[m].mounted
                              /\ switch'[m].alone <=> switch[m].alone
                              /\ switch[m] = NoSwitch => switch'[m] = NoSwitch
        BY <1>5, <1>7, <1>8
    <2>2. \A m \in Switches : switch'[m].mounted /\ switch'[m].step \in {"sent", "done"}
                                => switch'[m].by = user
        BY <1>7, <1>8 DEF PushKept, CardAttended
    <2> QED
        BY <1>3, <2>1, <2>2 DEF PushKept, CardAttended, Busy, Unused, NoSwitch
<1>10. EnabledStored'
    BY <1>3, <1>7, <1>8 DEF PushKept, EnabledStored
<1>11. ~Settled'
    BY <1>6, <1>7, <1>8, NothingSwitched DEF Settled, Unused, NoSwitch
<1>12. CardRight'
    BY <1>11 DEF CardRight
<1> QED
    BY <1>8, <1>9, <1>10, <1>12 DEF PushKept

(* Turning off, with or without a subscription of the browser.             *)
LEMMA disableKeeps ==
    ASSUME PushTyped, PushKept, NEW n \in Switches, disable(n)
    PROVE  PushTyped' /\ PushKept'
<1>1. PICK c : c = [op |-> "disable", step |-> "sent", by |-> user, sub |-> sub,
                    mounted |-> TRUE, alone |-> Quiet]
    OBVIOUS
<1>2. /\ user # Nobody /\ on /\ ~Busy /\ Unused(n)
      /\ UNCHANGED <<user, push, sub, gone, row, looked, sending, pardon>>
    BY DEF disable
<1>3. CASE sub = Nobody /\ on' = FALSE /\ UNCHANGED switch
    <2>1. PushTyped'
        BY <1>2, <1>3 DEF PushTyped, SwitchRecord, NoSwitch
    <2>2. CardAttended'
        BY <1>2, <1>3 DEF PushKept, CardAttended, Busy, Unused, NoSwitch
    <2>3. EnabledStored'
        BY <1>2, <1>3 DEF PushKept, EnabledStored
    <2>4. ~Stored(user)'
        BY <1>2, <1>3 DEF Stored
    <2>5. CardRight'
        BY <1>2, <1>3, <2>4 DEF CardRight
    <2> QED
        BY <2>1, <2>2, <2>3, <2>5 DEF PushKept
<1>4. CASE sub # Nobody /\ UNCHANGED on /\ switch' = [switch EXCEPT ![n] = c]
    <2>1. /\ c.op = "disable" /\ c.step = "sent" /\ c.mounted = TRUE /\ c.alone = Quiet
          /\ c.sub = sub /\ c.by = user /\ c \in SwitchRecord /\ sub \in Endpoints
        BY <1>1, <1>4 DEF SwitchRecord, Quiet, PushTyped
    <2>2. PushTyped' /\ switch'[n] = c /\ \A m \in Switches : m # n => switch'[m] = switch[m]
        BY <1>2, <1>4, <2>1, SwitchMoves DEF PushTyped
    <2>3. CardAttended'
        <3>1. \A m \in Switches : switch'[m].mounted => m = n
            BY <1>2, <2>2 DEF Busy
        <3>2. c.alone => \A m \in Switches : m # n => switch'[m] = NoSwitch
            BY <2>1, <2>2 DEF Quiet, Unused
        <3> QED
            BY <1>2, <2>1, <2>2, <3>1, <3>2 DEF CardAttended, Unused, NoSwitch
    <2>4. EnabledStored'
        BY <1>2, <2>1, <2>2 DEF PushKept, EnabledStored
    <2>5. ~Settled'
        BY <2>1, <2>2, NothingSwitched DEF Settled, Unused, NoSwitch
    <2>6. CardRight'
        BY <2>5 DEF CardRight
    <2> QED
        BY <2>2, <2>3, <2>4, <2>6 DEF PushKept
<1> QED
    BY <1>1, <1>3, <1>4 DEF disable

(* The server stores the subscription for who sent it, or forgets it.      *)
LEMMA ServeSwitchKeeps ==
    ASSUME PushTyped, PushKept, NEW n \in Switches, ServeSwitch(n)
    PROVE  PushTyped' /\ PushKept'
<1>1. PICK s : s = switch[n]
    OBVIOUS
<1>2. PICK c : c = [s EXCEPT !.step = "done"]
    OBVIOUS
<1>3. /\ s.step = "sent" /\ s.by # Nobody /\ switch' = [switch EXCEPT ![n] = c]
      /\ row' = IF s.op = "enable" THEN saveSubscription(s.by, s.sub)
                ELSE deleteSubscription(s.by, s.sub)
      /\ UNCHANGED <<user, push, sub, gone, on, looked, sending, pardon>>
    BY <1>1, <1>2 DEF ServeSwitch
<1>4. s \in SwitchRecord /\ s.sub \in Endpoints /\ s.by \in Users
    BY <1>1, <1>3, NothingSwitched DEF PushTyped, SwitchRecord
<1>5. /\ c \in SwitchRecord /\ c.step = "done" /\ c.op = s.op /\ c.by = s.by /\ c.sub = s.sub
      /\ c.mounted = s.mounted /\ c.alone = s.alone
    BY <1>2, <1>4 DEF SwitchRecord
<1>6. row' \in [Endpoints -> Users \cup {Nobody}]
    BY <1>3, <1>4 DEF PushTyped, saveSubscription, deleteSubscription
<1>7. PushTyped' /\ switch'[n] = c /\ \A m \in Switches : m # n => switch'[m] = switch[m]
    BY <1>3, <1>4, <1>5, <1>6, SwitchMoves DEF PushTyped
<1>8. CardAttended'
    <2>1. \A m \in Switches : /\ switch'[m].mounted <=> switch[m].mounted
                              /\ switch'[m].alone <=> switch[m].alone
                              /\ switch[m] = NoSwitch => switch'[m] = NoSwitch
        BY <1>1, <1>4, <1>5, <1>7, NothingSwitched
    <2>2. \A m \in Switches : switch'[m].mounted /\ switch'[m].step \in {"sent", "done"}
                                => switch'[m].by = user
        BY <1>1, <1>3, <1>5, <1>7 DEF PushKept, CardAttended
    <2> QED
        BY <1>3, <2>1, <2>2 DEF PushKept, CardAttended, Busy, Unused, NoSwitch
<1>9. EnabledStored'
    <2> SUFFICES ASSUME NEW m \in Switches, switch'[m].mounted, switch'[m].alone,
                        switch'[m].op = "enable", switch'[m].step = "done"
                 PROVE  switch'[m].sub \in gone \/ row'[switch'[m].sub] = user
        BY <1>3 DEF EnabledStored
    <2>1. m = n
        BY <1>1, <1>4, <1>7, NothingSwitched DEF PushKept, CardAttended, Unused
    <2>2. s.by = user
        BY <1>1, <1>3, <1>5, <1>7, <2>1 DEF PushKept, CardAttended
    <2> QED
        BY <1>3, <1>4, <1>5, <1>7, <2>1, <2>2 DEF PushTyped, saveSubscription
<1>10. ~Settled'
    BY <1>5, <1>7, NothingSwitched DEF Settled, Unused, NoSwitch
<1>11. CardRight'
    BY <1>10 DEF CardRight
<1> QED
    BY <1>7, <1>8, <1>9, <1>11 DEF PushKept

(* The card learns of it, if it is still there.                            *)
LEMMA FinishKeeps ==
    ASSUME PushTyped, PushKept, NEW n \in Switches, Finish(n)
    PROVE  PushTyped' /\ PushKept'
<1>1. PICK s : s = switch[n]
    OBVIOUS
<1>2. /\ s.step = "done" /\ switch' = [switch EXCEPT ![n] = NoSwitch]
      /\ on' = IF s.mounted THEN s.op = "enable" ELSE on
      /\ pardon' = ~(/\ s.mounted /\ s.alone
                     /\ sub' \in IF s.op = "enable" THEN {s.sub} \ gone ELSE {Nobody})
      /\ UNCHANGED <<user, push, row, looked, sending>>
    BY <1>1 DEF Finish
<1>3. IF s.op = "disable"
      THEN sub' = (IF sub = s.sub THEN Nobody ELSE sub) /\ gone' = gone \cup {s.sub}
      ELSE UNCHANGED <<sub, gone>>
    BY <1>1 DEF Finish
<1>4. s \in SwitchRecord /\ s.sub \in Endpoints
    BY <1>1, <1>2, NothingSwitched DEF PushTyped
<1>5. /\ on' \in BOOLEAN /\ pardon' \in BOOLEAN
      /\ sub' \in Endpoints \cup {Nobody} /\ gone' \subseteq Endpoints
    BY <1>2, <1>3, <1>4 DEF PushTyped
<1>6. /\ PushTyped' /\ switch'[n] = NoSwitch
      /\ \A m \in Switches : m # n => switch'[m] = switch[m]
    BY <1>2, <1>5, NothingSwitched, SwitchMoves DEF PushTyped
<1>7. user = Nobody => ~s.mounted
    BY <1>1 DEF PushKept, CardAttended, Busy
<1>8. CardAttended'
    BY <1>2, <1>6, <1>7, NothingSwitched DEF PushKept, CardAttended, Busy, Unused
<1>9. EnabledStored'
    <2> SUFFICES ASSUME NEW m \in Switches, switch'[m].mounted, switch'[m].alone,
                        switch'[m].op = "enable", switch'[m].step = "done"
                 PROVE  switch'[m].sub \in gone' \/ row[switch'[m].sub] = user
        BY <1>2 DEF EnabledStored
    <2>1. m # n /\ switch'[m] = switch[m]
        BY <1>6, NothingSwitched
    <2>2. gone \subseteq gone'
        BY <1>3
    <2> QED
        BY <2>1, <2>2 DEF PushKept, EnabledStored
<1>10. CardRight'
    <2> SUFFICES ASSUME ~pardon' PROVE CardRight'
        BY DEF CardRight
    <2>1. s.mounted /\ s.alone /\ sub' \in IF s.op = "enable" THEN {s.sub} \ gone ELSE {Nobody}
        BY <1>2
    <2>2. CASE s.op = "enable"
        <3>1. sub' = s.sub /\ s.sub \notin gone /\ UNCHANGED gone /\ on' = TRUE
            BY <1>2, <1>3, <2>1, <2>2
        <3>2. row[s.sub] = user
            BY <1>1, <1>2, <2>1, <2>2, <3>1 DEF PushKept, EnabledStored
        <3>3. Stored(user)' /\ sub' \notin gone'
            BY <1>2, <1>4, <3>1, <3>2, NothingSwitched DEF Stored
        <3> QED
            BY <3>1, <3>3 DEF CardRight
    <2>3. CASE s.op # "enable"
        <3>1. sub' = Nobody /\ on' = FALSE
            BY <1>2, <2>1, <2>3
        <3>2. ~Stored(user)'
            BY <3>1 DEF Stored
        <3> QED
            BY <3>1, <3>2 DEF CardRight
    <2> QED
        BY <2>2, <2>3
<1> QED
    BY <1>6, <1>8, <1>9, <1>10 DEF PushKept

(* A change ends early: what was sent may have been stored.                *)
LEMMA GiveUpKeeps ==
    ASSUME PushTyped, PushKept, NEW n \in Switches, GiveUp(n)
    PROVE  PushTyped' /\ PushKept'
<1>1. /\ switch' = [switch EXCEPT ![n] = NoSwitch]
      /\ pardon' = (pardon \/ switch[n].step # "prompt")
      /\ UNCHANGED <<user, push, sub, gone, row, on, looked, sending>>
    BY DEF GiveUp
<1>2. pardon' \in BOOLEAN
    BY <1>1
<1>3. /\ PushTyped' /\ switch'[n] = NoSwitch
      /\ \A m \in Switches : m # n => switch'[m] = switch[m]
    BY <1>1, <1>2, NothingSwitched, SwitchMoves DEF PushTyped
<1>4. CardAttended'
    BY <1>1, <1>3, NothingSwitched DEF PushKept, CardAttended, Busy, Unused
<1>5. EnabledStored'
    BY <1>1, <1>3, NothingSwitched DEF PushKept, EnabledStored
<1>6. CardRight'
    <2>1. ~pardon' => ~pardon /\ switch[n].step = "prompt"
        BY <1>1
    <2>2. Settled' /\ ~pardon' => Settled
        BY <1>3, <2>1 DEF Settled, Unused
    <2> QED
        BY <1>1, <2>1, <2>2 DEF PushKept, CardRight, Stored
<1> QED
    BY <1>3, <1>4, <1>5, <1>6 DEF PushKept

(* The push service ends a subscription.                                   *)
LEMMA ExpireKeeps ==
    ASSUME PushTyped, PushKept, Expire
    PROVE  PushTyped' /\ PushKept'
<1>1. /\ sub # Nobody /\ gone' = gone \cup {sub} /\ sub' \in {sub, Nobody} /\ pardon' = TRUE
      /\ UNCHANGED <<user, push, row, on, looked, switch, sending>>
    BY DEF Expire
<1>2. PushTyped'
    BY <1>1 DEF PushTyped, SwitchRecord, NoSwitch
<1>3. CardAttended'
    BY <1>1 DEF PushKept, CardAttended, Busy, Unused, NoSwitch
<1>4. EnabledStored'
    BY <1>1 DEF PushKept, EnabledStored
<1>5. CardRight'
    BY <1>1 DEF CardRight
<1> QED
    BY <1>2, <1>3, <1>4, <1>5 DEF PushKept

(* A notification goes to the subscriptions that are stored.               *)
LEMMA notifyKeeps ==
    ASSUME PushTyped, PushKept, NEW u \in Users, notify(u)
    PROVE  PushTyped' /\ PushKept'
<1>1. /\ sending' = {e \in Endpoints : row[e] = u}
      /\ UNCHANGED <<user, push, sub, gone, row, on, looked, switch, pardon>>
    BY DEF notify
<1>2. PushTyped'
    BY <1>1 DEF PushTyped, SwitchRecord, NoSwitch
<1>3. CardAttended' /\ EnabledStored' /\ CardRight'
    BY <1>1 DEF PushKept, CardAttended, EnabledStored, CardRight, Busy, Unused, NoSwitch, Settled,
       Stored
<1> QED
    BY <1>2, <1>3 DEF PushKept

(* Only what the push service ended is pruned.                             *)
LEMMA sendPushKeeps ==
    ASSUME PushTyped, PushKept, NEW e \in Endpoints, sendPush(e)
    PROVE  PushTyped' /\ PushKept'
<1>1. /\ sending' = sending \ {e}
      /\ UNCHANGED row \/ (e \in gone /\ row' = [row EXCEPT ![e] = Nobody])
      /\ UNCHANGED <<user, push, sub, gone, on, looked, switch, pardon>>
    BY DEF sendPush
<1>2. /\ row' \in [Endpoints -> Users \cup {Nobody}]
      /\ \A f \in Endpoints : row'[f] = row[f] \/ (f \in gone /\ row'[f] = Nobody)
    BY <1>1 DEF PushTyped
<1>3. PushTyped'
    BY <1>1, <1>2 DEF PushTyped, SwitchRecord, NoSwitch
<1>4. CardAttended'
    BY <1>1 DEF PushKept, CardAttended, Busy, Unused, NoSwitch
<1>5. EnabledStored'
    BY <1>1, <1>2 DEF PushKept, PushTyped, EnabledStored
<1>6. CardRight'
    <2> SUFFICES ASSUME ~pardon, user # Nobody, Settled PROVE CardRight'
        BY <1>1 DEF CardRight, Settled, Unused, NoSwitch
    <2>1. Stored(user) => sub \notin gone /\ sub \in Endpoints
        BY DEF PushKept, CardRight, PushTyped, Stored
    <2>2. Stored(user)' <=> Stored(user)
        BY <1>1, <1>2, <2>1 DEF Stored, PushTyped
    <2> QED
        BY <1>1, <2>2 DEF PushKept, CardRight
<1> QED
    BY <1>3, <1>4, <1>5, <1>6 DEF PushKept

-------------------------------------------------------------------------------
(* The tab.                                                                *)

(* What is known of the tab holds at first.                                *)
LEMMA TabInitKept == TabInit => TabKept
<1> SUFFICES ASSUME TabInit PROVE TabKept
    OBVIOUS
<1>1. /\ ListInit /\ push \in BOOLEAN /\ (push => card = SessionsCard)
      /\ sub = Nobody /\ gone = {} /\ row = [e \in Endpoints |-> Nobody]
      /\ on = FALSE /\ looked = FALSE /\ switch = [n \in Switches |-> NoSwitch]
      /\ sending = {} /\ pardon = FALSE
    BY DEF TabInit
<1>2. ListKept
    BY <1>1, ListsInit
<1>3. /\ user = Nobody /\ cache = NoData /\ fetch = NoFetch /\ click = [n \in Clicks |-> NoClick]
      /\ wanted = IF card = RoleCard THEN {table[Nobody]} ELSE Unknown
    BY <1>1 DEF ListInit
<1>4. PushTyped
    BY <1>1, <1>3, NothingSwitched DEF PushTyped
<1>5. \A n \in Switches : switch[n] = NoSwitch
    BY <1>1
<1>6. PushKept
    BY <1>1, <1>3, <1>5, NothingSwitched
       DEF PushKept, CardAttended, EnabledStored, CardRight, Busy, Unused
<1>7. SessionsCard # RoleCard
    <2>1. DOMAIN SessionsCard = {"revokeOne", "revokeOthers"}
        BY DEF SessionsCard
    <2> QED
        BY <2>1, RoleHasToggle
<1>8. push => NoList
    BY <1>1, <1>3, <1>7 DEF NoList
<1> QED
    BY <1>2, <1>4, <1>5, <1>6, <1>8 DEF TabKept, Quiet, Unused

(* A step of the push card leaves the lists alone.                         *)
LEMMA NoListStays ==
    ASSUME ListKept, NoList, UNCHANGED listVars, user' \in Users \cup {Nobody}
    PROVE  ListKept' /\ NoList'
<1>1. UNCHANGED <<card, table, cache, fetch, click, excused, wanted>>
    BY DEF listVars, reasons
<1>2. /\ cache = NoData /\ fetch = NoFetch /\ wanted = Unknown
      /\ \A n \in Clicks : click[n] = NoClick
    BY DEF NoList
<1>3. ListTyped'
    BY <1>1 DEF ListKept, ListTyped, CardList, Unknown
<1>4. ClicksTyped'
    BY <1>1 DEF ListKept, ClicksTyped, ClickTyped, CardList
<1>5. NoList'
    BY <1>1, <1>2 DEF NoList, NoData, NoFetch, NoClick, Unknown
<1>6. ListFresh' /\ RoleFresh'
    BY <1>1, <1>2, NothingShown DEF ListFresh, RoleFresh, Unknown
<1> QED
    BY <1>3, <1>4, <1>5, <1>6 DEF ListKept

(* A step of a list leaves the push card alone.                            *)
LEMMA PushTypedStays ==
    ASSUME PushTyped, UNCHANGED pushVars, user' \in Users \cup {Nobody}
    PROVE  PushTyped'
BY DEF PushTyped, pushVars, SwitchRecord, NoSwitch

(* Every step of the push card keeps what is known of it.                  *)
LEMMA PushInductive ==
    ASSUME PushTyped, PushKept, PushNext
    PROVE  PushTyped' /\ PushKept' /\ UNCHANGED push
<1>1. PushTyped' /\ PushKept'
    BY OpenKeeps, CloseKeeps, LookKeeps, enableKeeps, subscribeKeeps, disableKeeps,
       ServeSwitchKeeps, FinishKeeps, GiveUpKeeps, ExpireKeeps, notifyKeeps, sendPushKeeps
       DEF PushNext
<1>2. UNCHANGED push
    BY DEF PushNext, Open, Close, Look, enable, subscribe, disable, ServeSwitch, Finish, GiveUp,
       Expire, notify, sendPush
<1> QED
    BY <1>1, <1>2

(* Every step of the tab keeps what is known of it.                        *)
LEMMA TabInductive == TabKept /\ [TabNext]_tabVars => TabKept'
<1> SUFFICES ASSUME TabKept, [TabNext]_tabVars PROVE TabKept'
    OBVIOUS
<1>1. ListKept /\ PushTyped /\ (IF push THEN PushKept /\ NoList ELSE Quiet)
    BY DEF TabKept
<1>2. CASE ~push /\ ListNext /\ UNCHANGED pushVars
    <2>1. ListKept'
        BY <1>1, <1>2, ListsInductive
    <2>2. user' \in Users \cup {Nobody}
        BY <2>1 DEF ListKept, ListTyped
    <2>3. PushTyped' /\ ~push' /\ Quiet'
        BY <1>1, <1>2, <2>2, PushTypedStays DEF pushVars, Quiet, Unused, NoSwitch
    <2> QED
        BY <2>1, <2>3 DEF TabKept
<1>3. CASE push /\ PushNext /\ UNCHANGED listVars
    <2>1. PushTyped' /\ PushKept' /\ UNCHANGED push
        BY <1>1, <1>3, PushInductive
    <2>2. user' \in Users \cup {Nobody}
        BY <2>1 DEF PushTyped
    <2>3. ListKept' /\ NoList'
        BY <1>1, <1>3, <2>2, NoListStays
    <2> QED
        BY <1>3, <2>1, <2>3 DEF TabKept
<1>4. CASE UNCHANGED tabVars
    <2>1. UNCHANGED dashboardVars /\ UNCHANGED pushVars /\ UNCHANGED user /\ UNCHANGED listVars
        BY <1>4 DEF tabVars, dashboardVars, listVars
    <2>2. user' \in Users \cup {Nobody}
        BY <1>1, <2>1 DEF PushTyped
    <2>3. ListKept' /\ PushTyped' /\ UNCHANGED push
        BY <1>1, <2>1, <2>2, ListsInductive, PushTypedStays DEF pushVars
    <2>4. (PushKept => PushKept') /\ (Quiet => Quiet')
        BY <2>1 DEF pushVars, PushKept, CardAttended, EnabledStored, CardRight, Busy, Unused,
           NoSwitch, Settled, Stored, Quiet
    <2>5. NoList => NoList'
        BY <1>1, <2>1, <2>2, NoListStays
    <2> QED
        BY <1>1, <2>3, <2>4, <2>5 DEF TabKept
<1> QED
    BY <1>2, <1>3, <1>4 DEF TabNext

(* What is known of the tab holds in every behaviour.                      *)
LEMMA TabKeptAlways == TabSpec => []TabKept
BY TabInitKept, TabInductive, PTL DEF TabSpec

(* A card that is at rest shows the list as it is on the server, and the   *)
(* list of the user who is signed in, unless there was a reason not to.    *)
THEOREM CardsShowTheList == TabSpec => []ShowsTheListAtRest
<1>1. TabKept => ShowsTheListAtRest
    BY ListShown DEF TabKept
<1> QED
    BY <1>1, TabKeptAlways, PTL

(* The toggles of one session on a role's permissions add up.              *)
THEOREM TogglesAccumulate == TabSpec => []TogglesAccumulateUnlessDisturbed
<1>1. TabKept => TogglesAccumulateUnlessDisturbed
    BY ListShown DEF TabKept
<1> QED
    BY <1>1, TabKeptAlways, PTL

(* The push card says "On" if and only if what happens to the user who is  *)
(* signed in arrives in the browser, unless there was a reason not to.     *)
THEOREM PushCardIsRight == TabSpec => []ShowsWhatArrives
<1>1. TabKept => ShowsWhatArrives
    <2> SUFFICES ASSUME TabKept PROVE ShowsWhatArrives
        OBVIOUS
    <2>1. PushTyped /\ (push => PushKept) /\ (~push => Quiet)
        BY DEF TabKept
    <2>2. Quiet => Settled
        BY DEF Quiet, Settled
    <2>3. push /\ user # Nobody /\ looked /\ Quiet /\ ~pardon => (on <=> Stored(user))
        BY <2>1, <2>2 DEF PushKept, CardRight
    <2>4. \A n \in Switches :
              \/ switch[n] = NoSwitch
              \/ /\ switch[n].op \in {"enable", "disable"}
                 /\ switch[n].step \in {"prompt", "sent", "done"}
        BY <2>1 DEF PushTyped, SwitchRecord
    <2>5. \A n, m \in Switches : switch[n].mounted /\ switch[m].mounted => n = m
        BY <2>1, NothingSwitched DEF PushKept, CardAttended, Quiet, Unused
    <2>6. PushTypeOK
        BY <2>1, <2>4, <2>5 DEF PushTyped, PushTypeOK
    <2> QED
        BY <2>3, <2>6 DEF ShowsWhatArrives
<1> QED
    BY <1>1, TabKeptAlways, PTL
=================================================================================
