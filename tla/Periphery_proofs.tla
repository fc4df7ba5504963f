---------------------------- MODULE Periphery_proofs ----------------------------
(***************************************************************************)
(* Three components that share no state, side by side: how stale an answer *)
(* about an address can be (IpBlocking), how many copies of a mail go out  *)
(* (Mail), and what a second half of a ceremony is good for (Ceremonies);  *)
(* for any numbers of everything.                                          *)
(***************************************************************************)
EXTENDS IpBlocking, Mail, Ceremonies, FiniteSetTheorems, TLAPS

-------------------------------------------------------------------------------
(* Blocked addresses.                                                      *)

(* The copy ips may be wrong about an address, but then that address       *)
(* became blocked or free at time t - d or since.                          *)
RightUntil(ips, t, d) == \A i \in Ips : (i \in ips) # Blocked(i) => t <= LastChange(i) + d

(* It is wrong about i only if the block of i has run out. *)
RightButForTime(ips, i) == (i \in ips) # Blocked(i) => row[i] # None /\ ~Blocked(i)

(* The changes settled at a server show in a copy of it. *)
ShowsSettled(ips, s) == \A i \in Ips : <<s, i>> \in settled => RightButForTime(ips, i)

LoadRight(l) ==
    /\ load[l] # NoLoad => load[l].began <= now /\ now <= load[l].began + MaxLoad
    /\ load[l].step = "fill" =>
          RightUntil(load[l].ips, load[l].began, 0) /\ ShowsSettled(load[l].ips, load[l].server)

CacheRight(s) ==
    cache[s] # None =>
        RightUntil(cache[s].ips, cache[s].loadedAt, MaxLoad) /\ ShowsSettled(cache[s].ips, s)

CopiesRight ==
    /\ TypeOK
    /\ \A l \in Lookups : LoadRight(l)
    /\ \A s \in Servers : CacheRight(s)

-------------------------------------------------------------------------------
(* Types. *)

(* The constants are numbers. *)
LEMMA Numbers == Ttl \in Nat /\ Ttl > 0 /\ MaxLoad \in Nat /\ MaxTime \in Nat /\ MaxChanges \in Nat
BY BoundsAreNatural, TtlIsPositive

Load == [server : Servers, ip : Ips, step : {"query", "fill"}, began : Times, ips : SUBSET Ips]
Change == [server : Servers, ip : Ips, step : {"create", "delete", "invalidate"},
           id : 0 .. MaxChanges]

(* A load under way, and a change under way, have their types. *)
LEMMA LoadTyped ==
    ASSUME TypeOK, NEW l \in Lookups, load[l] # NoLoad
    PROVE  load[l] \in Load
BY DEF TypeOK, Load

(* The same for a change. *)
LEMMA ChangeTyped ==
    ASSUME TypeOK, NEW a \in Admins, admin[a] # NoAdmin
    PROVE  admin[a] \in Change
BY DEF TypeOK, Change

(* The types hold at first ... *)
LEMMA InitTyped == Init => TypeOK
<1> SUFFICES ASSUME Init PROVE TypeOK OBVIOUS
<1> USE Numbers DEF Init
<1>1. row \in [Ips -> [id : 0 .. MaxChanges, ends : Ends] \cup {None}]
  OBVIOUS
<1> QED BY <1>1 DEF TypeOK, Times

(* ... and after every step. *)
LEMMA TypeStep == TypeOK /\ [Next]_vars => TypeOK'
<1> SUFFICES ASSUME TypeOK, [Next]_vars PROVE TypeOK' OBVIOUS
<1> USE Numbers
<1>1. ASSUME NEW s \in Servers, NEW i \in Ips, AnswerFromCache(s, i) PROVE TypeOK'
  <2> verdict' \in [server : Servers, ip : Ips, blocked : BOOLEAN]
      BY <1>1 DEF AnswerFromCache, Answer
  <2> QED BY <1>1 DEF AnswerFromCache, TypeOK, history
<1>2. ASSUME NEW s \in Servers, NEW i \in Ips, NEW l \in Lookups, BeginLoad(l, s, i) PROVE TypeOK'
  <2>1. [NoLoad EXCEPT !.server = s, !.ip = i, !.step = "query", !.began = now] \in Load
    BY DEF NoLoad, Load, TypeOK
  <2>2. load' \in [Lookups -> Load \cup {NoLoad}] BY <1>2, <2>1 DEF BeginLoad, TypeOK, Load
  <2> QED BY <1>2, <2>2 DEF BeginLoad, TypeOK, Load, history
<1>3. ASSUME NEW s \in Servers, NEW i \in Ips, NEW a \in Admins, BeginChange(a, s, i) PROVE TypeOK'
  <2>1. changes' \in 0 .. MaxChanges BY <1>3 DEF BeginChange, TypeOK
  <2>2. row[i] # None => row[i].id \in 0 .. MaxChanges BY DEF TypeOK
  <2>3. admin' \in [Admins -> Change \cup {NoAdmin}] BY <1>3, <2>2 DEF BeginChange, TypeOK, Change
  <2> QED BY <1>3, <2>1, <2>3 DEF BeginChange, TypeOK, Change, history
<1>4. ASSUME NEW l \in Lookups, Query(l) PROVE TypeOK'
  <2>1. load[l] # NoLoad BY <1>4 DEF Query, NoLoad
  <2>2. load[l] \in Load BY <2>1, LoadTyped
  <2>3. [load[l] EXCEPT !.step = "fill", !.ips = {i \in Ips : ActiveAt(i, load[l].began)}] \in Load
    BY <2>2 DEF Load
  <2>4. load' \in [Lookups -> Load \cup {NoLoad}] BY <1>4, <2>3 DEF Query, TypeOK, Load
  <2> QED BY <1>4, <2>4 DEF Query, TypeOK, Load, history
<1>5. ASSUME NEW l \in Lookups, Fill(l) PROVE TypeOK'
  <2>1. load[l] # NoLoad BY <1>5 DEF Fill, NoLoad
  <2>2. load[l] \in Load BY <2>1, LoadTyped
  <2>3. verdict' \in [server : Servers, ip : Ips, blocked : BOOLEAN]
    BY <1>5, <2>2 DEF Fill, Answer, Load
  <2>4. Filled(l) \in [ips : SUBSET Ips, loadedAt : Times] BY <2>2 DEF Filled, Load, TypeOK
  <2>5. Filled(l).loadedAt <= now BY DEF Filled, TypeOK, Times
  <2>6. cache' \in [Servers -> [ips : SUBSET Ips, loadedAt : Times] \cup {None}]
    BY <1>5, <2>4 DEF Fill, TypeOK
  <2>7. \A s \in Servers : cache'[s] # None => cache'[s].loadedAt <= now
    BY <1>5, <2>5 DEF Fill, TypeOK
  <2>8. load' \in [Lookups -> Load \cup {NoLoad}] BY <1>5 DEF Fill, TypeOK, Load
  <2> QED BY <1>5, <2>3, <2>6, <2>7, <2>8 DEF Fill, TypeOK, Load, history
<1>6. ASSUME NEW l \in Lookups, QueryFails(l) PROVE TypeOK'
  BY <1>6 DEF QueryFails, TypeOK, history
<1>7. ASSUME NEW a \in Admins, admin[a] # NoAdmin, Commit(a),
             row' \in [Ips -> [id : 0 .. MaxChanges, ends : Ends] \cup {None}]
      PROVE  TypeOK'
  <2>1. admin[a] \in Change BY <1>7, ChangeTyped
  <2>2. [admin[a] EXCEPT !.step = "invalidate"] \in Change BY <2>1 DEF Change
  <2>3. admin' \in [Admins -> Change \cup {NoAdmin}] BY <1>7, <2>2 DEF Commit, TypeOK, Change
  <2> QED BY <1>7, <2>3 DEF Commit, TypeOK, Change
<1>8. ASSUME NEW a \in Admins, NEW until \in Ends, Create(a, until) PROVE TypeOK'
  <2>1. admin[a] # NoAdmin BY <1>8 DEF Create, NoAdmin
  <2>2. [id |-> changes, ends |-> until] \in [id : 0 .. MaxChanges, ends : Ends] BY DEF TypeOK
  <2>3. row' \in [Ips -> [id : 0 .. MaxChanges, ends : Ends] \cup {None}]
    BY <1>8, <2>2 DEF Create, TypeOK
  <2> QED BY <1>7, <1>8, <2>1, <2>3 DEF Create
<1>9. ASSUME NEW a \in Admins, Delete(a) PROVE TypeOK'
  <2>1. admin[a] # NoAdmin BY <1>9 DEF Delete, NoAdmin
  <2>2. row' \in [Ips -> [id : 0 .. MaxChanges, ends : Ends] \cup {None}]
    BY <1>9 DEF Delete, TypeOK
  <2> QED BY <1>7, <1>9, <2>1, <2>2 DEF Delete
<1>10. ASSUME NEW a \in Admins, ChangeFails(a) PROVE TypeOK'
  BY <1>10 DEF ChangeFails, TypeOK, history
<1>11. ASSUME NEW a \in Admins, Invalidate(a) PROVE TypeOK'
  <2>1. admin[a] # NoAdmin BY <1>11 DEF Invalidate, NoAdmin
  <2>2. admin[a].server \in Servers /\ admin[a].ip \in Ips BY <2>1, ChangeTyped DEF Change
  <2>3. settled' \subseteq Servers \X Ips BY <1>11, <2>2 DEF Invalidate, TypeOK
  <2>4. cache' \in [Servers -> [ips : SUBSET Ips, loadedAt : Times] \cup {None}]
    BY <1>11 DEF Invalidate, Invalidated, TypeOK
  <2>5. \A s \in Servers : cache'[s] # None => cache'[s].loadedAt <= now
    BY <1>11 DEF Invalidate, Invalidated, TypeOK
  <2> QED BY <1>11, <2>3, <2>4, <2>5 DEF Invalidate, TypeOK
<1>12. ASSUME NEW s \in Servers, Restart(s) PROVE TypeOK'
  <2>4. cache' \in [Servers -> [ips : SUBSET Ips, loadedAt : Times] \cup {None}]
    BY <1>12 DEF Restart, TypeOK
  <2>5. \A x \in Servers : cache'[x] # None => cache'[x].loadedAt <= now
    BY <1>12 DEF Restart, TypeOK
  <2>6. load' \in [Lookups -> Load \cup {NoLoad}] BY <1>12 DEF Restart, TypeOK, Load
  <2>7. admin' \in [Admins -> Change \cup {NoAdmin}] BY <1>12 DEF Restart, TypeOK, Change
  <2> QED BY <1>12, <2>4, <2>5, <2>6, <2>7 DEF Restart, TypeOK, Load, Change, history
<1>13. ASSUME Tick PROVE TypeOK'
  <2>1. now' \in Times /\ now' >= now BY <1>13 DEF Tick, TypeOK, Times
  <2>2. \A s \in Servers : cache[s] # None => cache[s].loadedAt <= now'
    BY <2>1 DEF TypeOK, Times
  <2> QED BY <1>13, <2>1, <2>2 DEF Tick, TypeOK, history
<1>14. CASE UNCHANGED vars BY <1>14 DEF vars, history, TypeOK
<1> QED
  BY <1>1, <1>2, <1>3, <1>4, <1>5, <1>6, <1>8, <1>9, <1>10, <1>11, <1>12, <1>13, <1>14 DEF Next

-------------------------------------------------------------------------------
(* What a step does to what copies say.  If the rows and the time stay as  *)
(* they are, a copy is as right as before.                                 *)
LEMMA SameTable ==
    ASSUME UNCHANGED <<now, row, changed>>, NEW i \in Ips
    PROVE  Blocked(i)' = Blocked(i) /\ LastChange(i)' = LastChange(i)
BY DEF Blocked, ActiveAt, LastChange

(* When a block ends by itself, that is its last change. *)
LEMMA TickChanges ==
    ASSUME TypeOK, Tick, NEW i \in Ips
    PROVE  \/ Blocked(i)' = Blocked(i) /\ LastChange(i)' = LastChange(i)
           \/ LastChange(i)' = now' /\ row[i] # None /\ ~Blocked(i)'
<1>0. now \in Nat BY Numbers DEF TypeOK, Times
<1>1. now' = now + 1 /\ row' = row /\ changed' = changed BY DEF Tick, history
<1>2. CASE row[i] = None BY <1>1, <1>2 DEF Blocked, ActiveAt, LastChange
<1>3. CASE row[i] # None
  <2>0. row[i].ends \in Ends
    <3>1. row \in [Ips -> [id : 0 .. MaxChanges, ends : Ends] \cup {None}] BY DEF TypeOK
    <3>2. row[i] \in [id : 0 .. MaxChanges, ends : Ends] BY <1>3, <3>1
    <3> QED BY <3>2
  <2>1. row[i].ends \in Nat
    <3>1. \A n \in Ends : n \in 1 .. MaxTime + 1 BY EndsAreTimes
    <3> QED BY <2>0, <3>1, Numbers
  <2>2. CASE row[i].ends <= now BY <1>0, <1>1, <1>3, <2>1, <2>2 DEF Blocked, ActiveAt, LastChange
  <2>3. CASE row[i].ends = now + 1 BY <1>0, <1>1, <1>3, <2>1, <2>3 DEF Blocked, ActiveAt, LastChange
  <2>4. CASE row[i].ends > now + 1 BY <1>0, <1>1, <1>3, <2>1, <2>4 DEF Blocked, ActiveAt, LastChange
  <2> QED BY <1>0, <2>1, <2>2, <2>3, <2>4
<1> QED BY <1>2, <1>3

(* The last change of an address was at some time. *)
LEMMA LastChangeIsATime ==
    ASSUME TypeOK, NEW i \in Ips
    PROVE  LastChange(i) \in Nat
<1>1. changed[i] \in Nat BY Numbers DEF TypeOK, Times
<1>2. ASSUME row[i] # None PROVE row[i].ends \in Nat
  <2>1. row \in [Ips -> [id : 0 .. MaxChanges, ends : Ends] \cup {None}] BY DEF TypeOK
  <2>2. row[i].ends \in Ends BY <1>2, <2>1
  <2>3. \A n \in Ends : n \in 1 .. MaxTime + 1 BY EndsAreTimes
  <2> QED BY <2>2, <2>3, Numbers
<1> QED BY <1>1, <1>2 DEF LastChange

(* A commit changes one address, now. *)
LEMMA CommitChanges ==
    ASSUME TypeOK, NEW a \in Admins, NEW ip \in Ips, admin[a].ip = ip,
           Delete(a) \/ \E until \in Ends : Create(a, until)
    PROVE  /\ \A i \in Ips \ {ip} :
                Blocked(i)' = Blocked(i) /\ LastChange(i)' = LastChange(i) /\ row'[i] = row[i]
           /\ LastChange(ip)' = now /\ now' = now
           /\ \A s \in Servers : <<s, ip>> \notin settled'
<1>1. Commit(a) BY DEF Create, Delete
<1>2. now' = now /\ changed' = [changed EXCEPT ![ip] = now] BY <1>1 DEF Commit
<1>3. \A s \in Servers : <<s, ip>> \notin settled' BY <1>1 DEF Commit
<1>4. changed \in [Ips -> Times] /\ now \in Nat BY Numbers DEF TypeOK, Times
<1>5. \A i \in Ips \ {ip} : row'[i] = row[i] BY DEF Create, Delete, TypeOK
<1>6. row'[ip] # None => ~(row'[ip].ends <= now)
  <2>1. ASSUME NEW until \in Ends, Create(a, until) PROVE ~(row'[ip].ends <= now)
    <3>1. until \in Nat BY EndsAreTimes, Numbers
    <3>2. row'[ip] = [id |-> changes, ends |-> until] BY <2>1 DEF Create, TypeOK
    <3>3. until > now BY <2>1 DEF Create
    <3> QED BY <3>1, <3>2, <3>3, <1>4
  <2>2. CASE Delete(a) BY <2>2 DEF Delete, TypeOK
  <2> QED BY <2>1, <2>2
<1>7. changed'[ip] = now BY <1>2, <1>4
<1>8. LastChange(ip)' = now BY <1>2, <1>6, <1>7 DEF LastChange
<1>9. \A i \in Ips \ {ip} : changed'[i] = changed[i] BY <1>2, <1>4
<1> QED BY <1>2, <1>3, <1>5, <1>8, <1>9 DEF Blocked, ActiveAt, LastChange

(* Hence whatever happens to the table, a copy that was right stays right. *)
LEMMA CopyStaysRight ==
    ASSUME TypeOK, NEW ips, NEW t \in Nat, NEW d \in Nat, NEW s \in Servers, t <= now,
           RightUntil(ips, t, d), ShowsSettled(ips, s),
           \/ UNCHANGED <<now, row, changed>> /\ settled' \subseteq settled
           \/ Tick
           \/ \E a \in Admins : Delete(a) \/ \E until \in Ends : Create(a, until)
    PROVE  RightUntil(ips, t, d)' /\ ShowsSettled(ips, s)'
<1>0. now \in Nat BY Numbers DEF TypeOK, Times
<1>1. CASE UNCHANGED <<now, row, changed>> /\ settled' \subseteq settled
  <2>1. RightUntil(ips, t, d)' BY <1>1, SameTable DEF RightUntil
  <2>2. ShowsSettled(ips, s)' BY <1>1, SameTable DEF ShowsSettled, RightButForTime
  <2> QED BY <2>1, <2>2
<1>2. CASE Tick
  <2>1. now' = now + 1 /\ row' = row /\ settled' = settled BY <1>2 DEF Tick, history
  <2>2. RightUntil(ips, t, d)'
    <3>1. ASSUME NEW i \in Ips, (i \in ips) # Blocked(i)' PROVE t <= LastChange(i)' + d
      <4>1. CASE Blocked(i)' = Blocked(i) /\ LastChange(i)' = LastChange(i)
        BY <3>1, <4>1 DEF RightUntil
      <4>2. CASE LastChange(i)' = now' BY <1>0, <2>1, <4>2
      <4> QED BY <1>2, <4>1, <4>2, TickChanges
    <3> QED BY <3>1 DEF RightUntil
  <2>3. ShowsSettled(ips, s)' BY <1>2, <2>1, TickChanges DEF ShowsSettled, RightButForTime
  <2> QED BY <2>2, <2>3
<1>3. ASSUME NEW a \in Admins, Delete(a) \/ \E until \in Ends : Create(a, until)
      PROVE  RightUntil(ips, t, d)' /\ ShowsSettled(ips, s)'
  <2>0. admin[a].step \in {"create", "delete"} BY <1>3 DEF Delete, Create
  <2>1. admin[a] # NoAdmin BY <2>0 DEF NoAdmin
  <2>2. PICK ip \in Ips : admin[a].ip = ip
    <3>1. admin[a].ip \in Ips BY <2>1, ChangeTyped DEF Change
    <3> QED BY <3>1
  <2>3. /\ \A i \in Ips \ {ip} :
             Blocked(i)' = Blocked(i) /\ LastChange(i)' = LastChange(i) /\ row'[i] = row[i]
        /\ LastChange(ip)' = now /\ now' = now
        /\ \A x \in Servers : <<x, ip>> \notin settled'
    BY <1>3, <2>2, CommitChanges
  <2>4. settled' \subseteq settled BY <1>3 DEF Delete, Create, Commit
  <2>5. RightUntil(ips, t, d)'
    <3>1. ASSUME NEW i \in Ips, (i \in ips) # Blocked(i)' PROVE t <= LastChange(i)' + d
      <4>1. CASE i = ip BY <1>0, <2>3, <4>1
      <4>2. CASE i # ip BY <2>3, <3>1, <4>2 DEF RightUntil
      <4> QED BY <4>1, <4>2
    <3> QED BY <3>1 DEF RightUntil
  <2>6. ShowsSettled(ips, s)' BY <2>3, <2>4 DEF ShowsSettled, RightButForTime
  <2> QED BY <2>5, <2>6
<1> QED BY <1>1, <1>2, <1>3

-------------------------------------------------------------------------------
(* The invariant. *)
LEMMA InitCopiesRight == Init => CopiesRight
<1> SUFFICES ASSUME Init PROVE CopiesRight OBVIOUS
<1>1. TypeOK BY InitTyped
<1>2. \A l \in Lookups : load[l] = NoLoad BY DEF Init
<1>3. \A s \in Servers : cache[s] = None BY DEF Init
<1>4. NoLoad.step # "fill" BY DEF NoLoad
<1> QED BY <1>1, <1>2, <1>3, <1>4 DEF CopiesRight, LoadRight, CacheRight

(* What becomes of the table, as far as copies notice. *)
Noticed ==
    \/ UNCHANGED <<now, row, changed>> /\ settled' \subseteq settled
    \/ Tick
    \/ \E a \in Admins : Delete(a) \/ \E until \in Ends : Create(a, until)

(* A load or a copy that a step leaves alone, or drops, stays right. *)
LEMMA LoadStaysRight ==
    ASSUME TypeOK, NEW l \in Lookups, LoadRight(l), Noticed, load'[l] \in {load[l], NoLoad}
    PROVE  LoadRight(l)'
<1>1. CASE load'[l] = NoLoad
  <2>1. NoLoad.step # "fill" BY DEF NoLoad
  <2> QED BY <1>1, <2>1 DEF LoadRight
<1>2. CASE load'[l] = load[l] /\ load[l] # NoLoad
  <2>1. PICK x \in Load : x = load[l] BY <1>2, LoadTyped
  <2>2. x.began \in Nat /\ now \in Nat /\ x.server \in Servers
    BY Numbers DEF Load, TypeOK, Times
  <2>3. x.began <= now /\ now <= x.began + MaxLoad BY <1>2, <2>1 DEF LoadRight
  <2>4. x.began <= now' /\ now' <= x.began + MaxLoad
    <3>1. CASE now' = now BY <2>3, <3>1
    <3>2. CASE Tick
      <4>1. now' = now + 1 /\ now < x.began + MaxLoad BY <1>2, <2>1, <3>2 DEF Tick
      <4> QED BY <2>2, <2>3, <4>1, Numbers
    <3> QED BY <3>1, <3>2 DEF Noticed, Delete, Create, Commit
  <2>5. ASSUME x.step = "fill"
        PROVE  RightUntil(x.ips, x.began, 0)' /\ ShowsSettled(x.ips, x.server)'
    <3>1. RightUntil(x.ips, x.began, 0) /\ ShowsSettled(x.ips, x.server)
      BY <2>1, <2>5 DEF LoadRight
    <3> QED BY <2>2, <2>3, <3>1, CopyStaysRight DEF Noticed
  <2> QED BY <1>2, <2>1, <2>4, <2>5 DEF LoadRight
<1> QED BY <1>1, <1>2

(* A copy that nobody writes stays right, as time is noticed. *)
LEMMA CacheStaysRight ==
    ASSUME TypeOK, NEW s \in Servers, CacheRight(s), Noticed, cache'[s] \in {cache[s], None}
    PROVE  CacheRight(s)'
<1> SUFFICES ASSUME cache'[s] # None PROVE CacheRight(s)' BY DEF CacheRight
<1>1. cache'[s] = cache[s] /\ cache[s] # None OBVIOUS
<1>2. PICK x \in [ips : SUBSET Ips, loadedAt : Times] : x = cache[s] BY <1>1 DEF TypeOK
<1>3. x.loadedAt \in Nat /\ x.loadedAt <= now BY <1>1, <1>2, Numbers DEF TypeOK, Times
<1>4. RightUntil(x.ips, x.loadedAt, MaxLoad) /\ ShowsSettled(x.ips, s)
  BY <1>1, <1>2 DEF CacheRight
<1>5. RightUntil(x.ips, x.loadedAt, MaxLoad)' /\ ShowsSettled(x.ips, s)'
  BY <1>3, <1>4, Numbers, CopyStaysRight DEF Noticed
<1> QED BY <1>1, <1>2, <1>5 DEF CacheRight

(* So do all copies, in caches and in loads. *)
LEMMA CopiesStayRight ==
    ASSUME CopiesRight, TypeOK', Noticed,
           \A l \in Lookups : load'[l] \in {load[l], NoLoad},
           \A s \in Servers : cache'[s] \in {cache[s], None}
    PROVE  CopiesRight'
<1>1. \A l \in Lookups : LoadRight(l)' BY LoadStaysRight DEF CopiesRight
<1>2. \A s \in Servers : CacheRight(s)' BY CacheStaysRight DEF CopiesRight
<1> QED BY <1>1, <1>2 DEF CopiesRight

(* A load reads the blocks as they are. *)
LEMMA BeginLoadRight ==
    ASSUME CopiesRight, TypeOK',
           NEW l \in Lookups, NEW s \in Servers, NEW i \in Ips, BeginLoad(l, s, i)
    PROVE  CopiesRight'
<1>1. Noticed BY DEF BeginLoad, Noticed, history
<1>2. \A x \in Servers : CacheRight(x)'
  BY <1>1, CacheStaysRight DEF BeginLoad, CopiesRight
<1>3. load'[l].step = "query" /\ load'[l].began = now
  BY DEF BeginLoad, CopiesRight, TypeOK, NoLoad
<1>4. LoadRight(l)' BY <1>3, Numbers DEF BeginLoad, LoadRight, CopiesRight, TypeOK, Times
<1>5. \A x \in Lookups \ {l} : LoadRight(x)'
  BY <1>1, LoadStaysRight DEF BeginLoad, CopiesRight, TypeOK
<1> QED BY <1>2, <1>4, <1>5 DEF CopiesRight

(* What is asked for is compared with the time the load began: an answer   *)
(* is wrong now only about a block that has run out since.                 *)
LEMMA QueryRight ==
    ASSUME CopiesRight, TypeOK', NEW l \in Lookups, Query(l)
    PROVE  CopiesRight'
<1>1. Noticed BY DEF Query, Noticed, history
<1>2. \A x \in Servers : CacheRight(x)' BY <1>1, CacheStaysRight DEF Query, CopiesRight
<1>3. \A x \in Lookups \ {l} : LoadRight(x)'
  BY <1>1, LoadStaysRight DEF Query, CopiesRight, TypeOK
<1>4. load[l] # NoLoad BY DEF Query, NoLoad
<1>5. PICK x \in Load : x = load[l] BY <1>4, LoadTyped DEF CopiesRight
<1>6. x.began \in Nat /\ now \in Nat BY Numbers DEF Load, CopiesRight, TypeOK, Times
<1>7. x.began <= now /\ now <= x.began + MaxLoad BY <1>4, <1>5 DEF CopiesRight, LoadRight
<1>8. PICK ips \in SUBSET Ips : ips = {i \in Ips : ActiveAt(i, x.began)} OBVIOUS
<1>9. load'[l] = [x EXCEPT !.step = "fill", !.ips = ips]
  BY <1>5, <1>8 DEF Query, CopiesRight, TypeOK
<1>10. load'[l].began = x.began /\ load'[l].server = x.server /\ load'[l].ips = ips
  BY <1>9 DEF Load
<1>11. ASSUME NEW i \in Ips, (i \in ips) # Blocked(i)
       PROVE  x.began <= LastChange(i) /\ LastChange(i) \in Nat /\ row[i] # None /\ ~Blocked(i)
  <2>1. row[i] # None BY <1>8, <1>11 DEF Blocked, ActiveAt
  <2>2. row[i].ends \in Ends
    <3>1. row \in [Ips -> [id : 0 .. MaxChanges, ends : Ends] \cup {None}]
      BY DEF CopiesRight, TypeOK
    <3>2. row[i] \in [id : 0 .. MaxChanges, ends : Ends] BY <2>1, <3>1
    <3> QED BY <3>2
  <2>3. row[i].ends \in Nat
    <3>1. \A n \in Ends : n \in 1 .. MaxTime + 1 BY EndsAreTimes
    <3> QED BY <2>2, <3>1, Numbers
  <2>4. x.began < row[i].ends /\ row[i].ends <= now
    BY <1>6, <1>7, <1>8, <1>11, <2>1, <2>3 DEF Blocked, ActiveAt
  <2> QED BY <1>6, <2>1, <2>3, <2>4 DEF LastChange, Blocked, ActiveAt
<1>12. RightUntil(ips, x.began, 0) /\ ShowsSettled(ips, x.server)
  <2>1. RightUntil(ips, x.began, 0)
    <3>1. ASSUME NEW i \in Ips, (i \in ips) # Blocked(i) PROVE x.began <= LastChange(i) + 0
      <4>1. x.began <= LastChange(i) /\ LastChange(i) \in Nat BY <1>11, <3>1
      <4> QED BY <1>6, <4>1
    <3> QED BY <3>1 DEF RightUntil
  <2>2. ShowsSettled(ips, x.server) BY <1>11 DEF ShowsSettled, RightButForTime
  <2> QED BY <2>1, <2>2
<1>13. RightUntil(ips, x.began, 0)' /\ ShowsSettled(ips, x.server)'
  BY <1>12, SameTable DEF Query, history, RightUntil, ShowsSettled, RightButForTime
<1>14. now' = now BY DEF Query
<1>15. LoadRight(l)' BY <1>6, <1>7, <1>10, <1>13, <1>14 DEF LoadRight
<1> QED BY <1>2, <1>3, <1>15 DEF CopiesRight

(* A load that took no longer than MaxLoad is as good as a copy. *)
LEMMA FilledCopy ==
    ASSUME CopiesRight, NEW l \in Lookups, Fill(l), NEW x \in Load, x = load[l]
    PROVE  RightUntil(x.ips, now, MaxLoad)' /\ ShowsSettled(x.ips, x.server)'
<1>1. load[l] # NoLoad BY DEF Fill, NoLoad
<1>2. x.began \in Nat /\ now \in Nat /\ now' = now
  BY Numbers DEF Fill, Load, CopiesRight, TypeOK, Times
<1>3. x.began <= now /\ now <= x.began + MaxLoad BY <1>1 DEF CopiesRight, LoadRight
<1>4. RightUntil(x.ips, x.began, 0)' /\ ShowsSettled(x.ips, x.server)'
  <2>1. RightUntil(x.ips, x.began, 0) /\ ShowsSettled(x.ips, x.server)
    BY DEF Fill, CopiesRight, LoadRight
  <2> QED BY <2>1, SameTable DEF Fill, history, RightUntil, ShowsSettled, RightButForTime
<1>5. ASSUME NEW i \in Ips, (i \in x.ips) # Blocked(i)' PROVE now' <= LastChange(i)' + MaxLoad
  <2>1. x.began <= LastChange(i)' + 0 BY <1>4, <1>5 DEF RightUntil
  <2>2. LastChange(i)' \in Nat
    BY SameTable, LastChangeIsATime DEF Fill, history, CopiesRight
  <2> QED BY <1>2, <1>3, <2>1, <2>2, Numbers
<1> QED BY <1>4, <1>5 DEF RightUntil

(* The cache takes what a load has read. *)
LEMMA FillRight ==
    ASSUME CopiesRight, TypeOK', NEW l \in Lookups, Fill(l)
    PROVE  CopiesRight'
<1>1. Noticed BY DEF Fill, Noticed, history
<1>2. \A x \in Lookups : LoadRight(x)'
  BY <1>1, LoadStaysRight DEF Fill, CopiesRight, TypeOK
<1>3. load[l] # NoLoad BY DEF Fill, NoLoad
<1>4. PICK x \in Load : x = load[l] BY <1>3, LoadTyped DEF CopiesRight
<1>5. x.server \in Servers BY DEF Load
<1>6. RightUntil(x.ips, now, MaxLoad)' /\ ShowsSettled(x.ips, x.server)' BY <1>4, FilledCopy
<1>7. cache' = [cache EXCEPT ![x.server] = [ips |-> x.ips, loadedAt |-> now]]
  BY <1>4 DEF Fill, Filled
<1>8. CacheRight(x.server)'
  <2>1. cache'[x.server] = [ips |-> x.ips, loadedAt |-> now]
    BY <1>5, <1>7 DEF CopiesRight, TypeOK
  <2>2. now' = now BY DEF Fill
  <2> QED BY <1>6, <2>1, <2>2 DEF CacheRight
<1>9. \A s \in Servers \ {x.server} : CacheRight(s)'
  BY <1>1, <1>7, CacheStaysRight DEF CopiesRight, TypeOK
<1> QED BY <1>2, <1>8, <1>9 DEF CopiesRight

(* After an invalidation there is no copy, and without a load under way    *)
(* none that is older is still to come.                                    *)
LEMMA InvalidateRight ==
    ASSUME CopiesRight, TypeOK', NEW a \in Admins, Invalidate(a)
    PROVE  CopiesRight'
<1>1. admin[a] # NoAdmin BY DEF Invalidate, NoAdmin
<1>2. PICK s \in Servers, i \in Ips : s = admin[a].server /\ i = admin[a].ip
  <2>1. admin[a] \in Change BY <1>1, ChangeTyped DEF CopiesRight
  <2>2. admin[a].server \in Servers /\ admin[a].ip \in Ips BY <2>1 DEF Change
  <2> QED BY <2>2
<1>3. /\ UNCHANGED <<now, row, changed, load>>
      /\ cache' = [cache EXCEPT ![s] = None]
      /\ settled' = IF Loading(s) THEN settled ELSE settled \cup {<<s, i>>}
  BY <1>2 DEF Invalidate, Invalidated
<1>4. ASSUME NEW x \in Servers, NEW ips, x # s, ShowsSettled(ips, x)
      PROVE  ShowsSettled(ips, x)'
  BY <1>3, <1>4, SameTable DEF ShowsSettled, RightButForTime
<1>5. ASSUME NEW ips, NEW t, NEW d, RightUntil(ips, t, d)
      PROVE  RightUntil(ips, t, d)'
  BY <1>3, <1>5, SameTable DEF RightUntil
<1>6. ASSUME NEW x \in Servers PROVE CacheRight(x)'
  <2>1. CASE x = s BY <1>3, <2>1 DEF CacheRight, CopiesRight, TypeOK
  <2>2. CASE x # s
    <3>1. cache'[x] = cache[x] BY <1>3, <2>2 DEF CopiesRight, TypeOK
    <3>2. PICK c : c = cache[x] OBVIOUS
    <3>3. CASE c # None
      <4>1. RightUntil(c.ips, c.loadedAt, MaxLoad) /\ ShowsSettled(c.ips, x)
        BY <3>2, <3>3 DEF CopiesRight, CacheRight
      <4>2. RightUntil(c.ips, c.loadedAt, MaxLoad)' /\ ShowsSettled(c.ips, x)'
        BY <1>4, <1>5, <2>2, <4>1
      <4> QED BY <3>1, <3>2, <4>2 DEF CacheRight
    <3>4. CASE c = None BY <3>1, <3>2, <3>4 DEF CacheRight
    <3> QED BY <3>3, <3>4
  <2> QED BY <2>1, <2>2
<1>7. ASSUME NEW l \in Lookups PROVE LoadRight(l)'
  <2>1. PICK x : x = load[l] /\ x = load'[l] BY <1>3
  <2>2. x # NoLoad => x.began <= now' /\ now' <= x.began + MaxLoad
    BY <1>3, <2>1 DEF CopiesRight, LoadRight
  <2>3. ASSUME x.step = "fill"
        PROVE  RightUntil(x.ips, x.began, 0)' /\ ShowsSettled(x.ips, x.server)'
    <3>1. RightUntil(x.ips, x.began, 0) /\ ShowsSettled(x.ips, x.server)
      BY <2>1, <2>3 DEF CopiesRight, LoadRight
    <3>2. RightUntil(x.ips, x.began, 0)' BY <1>5, <3>1
    <3>3. x.server \in Servers
      <4>1. x # NoLoad BY <2>3 DEF NoLoad
      <4> QED BY <2>1, <4>1, LoadTyped DEF Load, CopiesRight
    <3>4. CASE x.server # s BY <1>4, <3>1, <3>2, <3>3, <3>4
    <3>5. CASE x.server = s
      <4>1. Loading(s) BY <2>1, <3>5 DEF Loading
      <4>2. settled' = settled BY <1>3, <4>1
      <4>3. ShowsSettled(x.ips, x.server)'
        BY <1>3, <3>1, <4>2, SameTable DEF ShowsSettled, RightButForTime
      <4> QED BY <3>2, <4>3
    <3> QED BY <3>4, <3>5
  <2> QED BY <2>1, <2>2, <2>3 DEF LoadRight
<1> QED BY <1>6, <1>7 DEF CopiesRight

(* Every step leaves every copy right. *)
LEMMA NextRight == CopiesRight /\ [Next]_vars => CopiesRight'
<1> SUFFICES ASSUME CopiesRight, [Next]_vars PROVE CopiesRight' OBVIOUS
<1>0. TypeOK' BY TypeStep DEF CopiesRight
<1>1. ASSUME NEW s \in Servers, NEW i \in Ips, AnswerFromCache(s, i) PROVE CopiesRight'
  BY <1>0, <1>1, CopiesStayRight DEF AnswerFromCache, Noticed, history
<1>2. ASSUME NEW s \in Servers, NEW i \in Ips, NEW a \in Admins, BeginChange(a, s, i)
      PROVE  CopiesRight'
  BY <1>0, <1>2, CopiesStayRight DEF BeginChange, Noticed, history
<1>3. ASSUME NEW l \in Lookups, QueryFails(l) PROVE CopiesRight'
  <2>1. \A x \in Lookups : load'[x] \in {load[x], NoLoad}
    BY <1>3 DEF QueryFails, CopiesRight, TypeOK
  <2> QED BY <1>0, <1>3, <2>1, CopiesStayRight DEF QueryFails, Noticed, history
<1>4. ASSUME NEW a \in Admins, Delete(a) \/ \E until \in Ends : Create(a, until)
      PROVE  CopiesRight'
  <2>1. load' = load /\ cache' = cache BY <1>4 DEF Delete, Create, Commit
  <2> QED BY <1>0, <1>4, <2>1, CopiesStayRight DEF Noticed
<1>5. ASSUME NEW a \in Admins, ChangeFails(a) PROVE CopiesRight'
  BY <1>0, <1>5, CopiesStayRight DEF ChangeFails, Noticed, history
<1>6. ASSUME NEW s \in Servers, Restart(s) PROVE CopiesRight'
  <2>1. \A x \in Lookups : load'[x] \in {load[x], NoLoad} BY <1>6 DEF Restart
  <2>2. \A x \in Servers : cache'[x] \in {cache[x], None}
    BY <1>6 DEF Restart, CopiesRight, TypeOK
  <2> QED BY <1>0, <1>6, <2>1, <2>2, CopiesStayRight DEF Restart, Noticed, history
<1>7. CASE Tick
  <2>1. load' = load /\ cache' = cache BY <1>7 DEF Tick
  <2> QED BY <1>0, <1>7, <2>1, CopiesStayRight DEF Noticed
<1>8. CASE UNCHANGED vars BY <1>0, <1>8, CopiesStayRight DEF vars, history, Noticed
<1> QED
  BY <1>0, <1>1, <1>2, <1>3, <1>4, <1>5, <1>6, <1>7, <1>8,
     BeginLoadRight, QueryRight, FillRight, InvalidateRight DEF Next

-------------------------------------------------------------------------------
(* The answer of the last step, which is not older than its copy. *)
AnswerRight ==
    /\ Wrong => now - LastChange(verdict.ip) < Ttl + MaxLoad
    /\ ImmediateUnlessLoading

(* An answer from a right copy is right. *)
LEMMA AnswerOfCopy ==
    ASSUME CopiesRight', NEW s \in Servers, NEW i \in Ips, NEW ips, NEW t \in Nat,
           LastChange(i)' \in Nat,
           RightUntil(ips, t, MaxLoad)', ShowsSettled(ips, s)', now' - t < Ttl,
           verdict' = [server |-> s, ip |-> i, blocked |-> i \in ips]
    PROVE  AnswerRight'
<1>1. verdict'.server = s /\ verdict'.ip = i /\ verdict'.blocked = (i \in ips) OBVIOUS
<1>2. now' \in Nat BY Numbers DEF CopiesRight, TypeOK, Times
<1>3. ASSUME Wrong' PROVE now' - LastChange(i)' < Ttl + MaxLoad
  <2>1. (i \in ips) # Blocked(i)' BY <1>1, <1>3 DEF Wrong
  <2>2. t <= LastChange(i)' + MaxLoad BY <2>1 DEF RightUntil
  <2>3. PICK n \in Nat : n = now' BY <1>2
  <2>4. PICK c \in Nat : c = LastChange(i)' OBVIOUS
  <2>5. n - t < Ttl /\ t <= c + MaxLoad BY <2>2, <2>3, <2>4
  <2>6. n - c < Ttl + MaxLoad BY <2>5, Numbers
  <2> QED BY <2>3, <2>4, <2>6
<1>4. ImmediateUnlessLoading'
  BY <1>1 DEF ImmediateUnlessLoading, Wrong, ShowsSettled, RightButForTime
<1>5. LastChange(verdict.ip)' = LastChange(i)' BY <1>1 DEF LastChange
<1> QED BY <1>3, <1>4, <1>5 DEF AnswerRight

(* So every answer is. *)
LEMMA AnswerStep == CopiesRight /\ CopiesRight' /\ AnswerRight /\ [Next]_vars => AnswerRight'
<1> SUFFICES ASSUME CopiesRight, CopiesRight', AnswerRight, [Next]_vars PROVE AnswerRight'
  OBVIOUS
<1>1. ASSUME NEW s \in Servers, NEW i \in Ips, AnswerFromCache(s, i) PROVE AnswerRight'
  <2>1. UNCHANGED <<now, row, changed, settled, cache>> BY <1>1 DEF AnswerFromCache, history
  <2>2. cache[s] # None /\ now - cache[s].loadedAt < Ttl BY <1>1 DEF AnswerFromCache, Trusted
  <2>3. PICK c \in [ips : SUBSET Ips, loadedAt : Times] : c = cache[s]
    BY <2>2 DEF CopiesRight, TypeOK
  <2>4. RightUntil(c.ips, c.loadedAt, MaxLoad)' /\ ShowsSettled(c.ips, s)'
    BY <2>1, <2>2, <2>3 DEF CopiesRight, CacheRight
  <2>5. verdict' = [server |-> s, ip |-> i, blocked |-> i \in c.ips]
    BY <1>1, <2>3 DEF AnswerFromCache, Answer
  <2>6. c.loadedAt \in Nat /\ now' - c.loadedAt < Ttl BY <2>1, <2>2, <2>3, Numbers DEF Times
  <2>7. LastChange(i)' \in Nat BY <2>1, SameTable, LastChangeIsATime DEF CopiesRight
  <2> QED BY <2>4, <2>5, <2>6, <2>7, AnswerOfCopy
<1>2. ASSUME NEW l \in Lookups, Fill(l) PROVE AnswerRight'
  <2>1. load[l] # NoLoad BY <1>2 DEF Fill, NoLoad
  <2>2. PICK x \in Load : x = load[l] BY <2>1, LoadTyped DEF CopiesRight
  <2>3. x.server \in Servers /\ x.ip \in Ips BY DEF Load
  <2>4. PICK t \in Nat : t = now BY Numbers DEF CopiesRight, TypeOK, Times
  <2>5. now' = t BY <1>2, <2>4 DEF Fill
  <2>6. RightUntil(x.ips, t, MaxLoad)' /\ ShowsSettled(x.ips, x.server)'
    BY <1>2, <2>2, <2>4, <2>5, FilledCopy DEF RightUntil
  <2>7. verdict' = [server |-> x.server, ip |-> x.ip, blocked |-> x.ip \in x.ips]
    BY <1>2, <2>2 DEF Fill, Answer
  <2>8. LastChange(x.ip)' \in Nat
    BY <1>2, <2>3, SameTable, LastChangeIsATime DEF Fill, history, CopiesRight
  <2>9. now' - t < Ttl BY <2>5, Numbers
  <2> QED BY <2>3, <2>6, <2>7, <2>8, <2>9, AnswerOfCopy
<1>3. CASE verdict' = None BY <1>3 DEF AnswerRight, Wrong, ImmediateUnlessLoading
<1>4. CASE UNCHANGED vars
  <2>1. UNCHANGED <<now, row, changed, settled, verdict>> BY <1>4 DEF vars, history
  <2> QED BY <2>1 DEF AnswerRight, Wrong, ImmediateUnlessLoading, Blocked, ActiveAt, LastChange
<1>5. ASSUME Next, ~ \E s \in Servers, i \in Ips : AnswerFromCache(s, i),
             ~ \E l \in Lookups : Fill(l)
      PROVE  verdict' = None
  BY <1>5 DEF Next, BeginLoad, BeginChange, Query, QueryFails, Create, Delete, Commit,
              ChangeFails, Invalidate, Restart, Tick
<1> QED BY <1>1, <1>2, <1>3, <1>4, <1>5

(* Every copy and every load is right but for what has changed since the   *)
(* load began, and shows every change that settled at its server.          *)
THEOREM CopiesAlwaysRight == Spec => []CopiesRight
<1>1. Init => CopiesRight BY InitCopiesRight
<1>2. CopiesRight /\ [Next]_vars => CopiesRight' BY NextRight
<1> QED BY <1>1, <1>2, PTL DEF Spec

(* It holds throughout every behaviour. *)
LEMMA AnswersAlwaysRight == Spec => []AnswerRight
<1>1. Init => AnswerRight BY DEF Init, AnswerRight, Wrong, ImmediateUnlessLoading
<1> QED BY <1>1, AnswerStep, CopiesAlwaysRight, PTL DEF Spec

(* No answer is older than the life of a copy and the time of a load. *)
THEOREM StaleForBoundedTime == Spec => []StalenessBounded
<1>1. CopiesRight /\ AnswerRight => StalenessBounded
  BY DEF CopiesRight, AnswerRight, StalenessBounded
<1> QED BY <1>1, CopiesAlwaysRight, AnswersAlwaysRight, PTL

(* A change that settled at a server is in its next answers. *)
THEOREM ImmediateWhenSettled == Spec => []ImmediateUnlessLoading
<1>1. AnswerRight => ImmediateUnlessLoading BY DEF AnswerRight
<1> QED BY <1>1, AnswersAlwaysRight, PTL

-------------------------------------------------------------------------------
(* How many copies of a mail go out.                                       *)

Call == [step : {"none", "add", "inline", "answered", "refused"}, at : Processes \cup {Nothing}]
Entry == [state : {"none", "waiting", "active", "delayed", "done", "failed"},
          mail : Mails \cup {Nothing}, by : Processes \cup {Nothing},
          tries : 0 .. Attempts, stalled : BOOLEAN]
Hand == [job : Jobs \cup {Nothing}, step : {"idle", "send", "done", "failed"}]

(* An entry is a mail that waits, that is some process's, or that is over. *)
EntrySound(e) ==
    /\ e = NoEntry <=> e.mail = Nothing
    /\ e = NoEntry <=> e.state = "none"
    /\ e.by # Nothing <=> e.state = "active"
    /\ e.state \in {"waiting", "active", "delayed"} => e.tries < Attempts

WorkersTyped ==
    /\ worker \in [Processes -> Hand]
    /\ \A s \in Processes : \/ worker[s] = Idle
                            \/ /\ process[s] # "down" /\ worker[s].step # "idle"
                               /\ worker[s].job \in Jobs /\ queue[worker[s].job] # NoEntry

CallsTyped ==
    /\ call \in [Mails -> Call]
    /\ \A m \in Mails : call[m].step = "none" => call[m] = NoCall

QueueTyped ==
    /\ queue \in [Jobs -> Entry]
    /\ \A j \in Jobs : EntrySound(queue[j])
    /\ redis = "none" => \A j \in Jobs : queue[j] = NoEntry

MailTyped ==
    /\ redis \in {"none", "up", "down"}
    /\ process \in [Processes -> {"up", "closing", "down"}]
    /\ faults \in 0 .. MaxFaults
    /\ sent \in [Mails -> Nat] /\ troubled \in [Mails -> Nat]
    /\ CallsTyped /\ QueueTyped /\ WorkersTyped

(* The entries of a mail that somebody is yet to take, or to take again,   *)
(* and the processes that are sending it.                                  *)
InHand(j) == worker[queue[j].by].job = j
ToSend(m) == {j \in Jobs : /\ queue[j].mail = m
                           /\ \/ queue[j].state \in {"waiting", "delayed"}
                              \/ /\ queue[j].state = "active"
                                 /\ InHand(j) => worker[queue[j].by].step = "failed"}
Sending(m) == {s \in Processes : worker[s].step = "send" /\ queue[worker[s].job].mail = m}
Calling(m) == IF call[m].step \in {"none", "add", "inline"} THEN 1 ELSE 0
ToCome(m) == Calling(m) + Cardinality(ToSend(m)) + Cardinality(Sending(m))

(* The copies that went out and those that may still go are one, and one   *)
(* more for each failure after which a copy may be sent again.             *)
CopiesCounted == \A m \in Mails : sent[m] + ToCome(m) <= 1 + troubled[m]

-------------------------------------------------------------------------------
(* Nobody has asked for a mail. *)
LEMMA InitMailTyped == MailInit => MailTyped
BY AttemptsArePositive, FaultsAreCounted
   DEF MailInit, MailTyped, CallsTyped, QueueTyped, WorkersTyped, Call, Entry, Hand, EntrySound,
       NoCall, NoEntry, Idle

(* What a failure changes. *)
LEMMA FaultTyped ==
    ASSUME MailTyped, Sound \/ (Fault /\ UNCHANGED troubled) \/ \E m \in Mails : Trouble(m)
    PROVE  faults' \in 0 .. MaxFaults /\ troubled' \in [Mails -> Nat]
BY FaultsAreCounted DEF MailTyped, Sound, Fault, Trouble

(* An entry that changes stays what it may be. *)
LEMMA QueueStaysTyped ==
    ASSUME MailTyped, NEW j \in Jobs, NEW e \in Entry, EntrySound(e), e # NoEntry,
           redis # "none", redis' # "none", queue' = [queue EXCEPT ![j] = e]
    PROVE  QueueTyped' /\ \A i \in Jobs : queue[i] # NoEntry => queue'[i] # NoEntry
BY DEF MailTyped, QueueTyped

(* The requests' side. *)
LEMMA DispatchesTyped ==
    ASSUME MailTyped, NEW m \in Mails,
           \/ \E s \in Processes : dispatchEmail(m, s)
           \/ sendInline(m) \/ addFails(m)
    PROVE  MailTyped'
<1>1. CallsTyped'
  <2> USE DEF MailTyped, CallsTyped, Call, NoCall
  <2>1. ASSUME NEW s \in Processes, dispatchEmail(m, s) PROVE CallsTyped'
    BY <2>1 DEF dispatchEmail
  <2>2. ASSUME NEW step \in {"inline", "answered", "refused"},
               call' = [call EXCEPT ![m].step = step], call[m].step # "none"
        PROVE  CallsTyped'
    BY <2>2
  <2> QED BY <2>1, <2>2 DEF sendInline, addFails
<1>2. QueueTyped' /\ WorkersTyped' /\ redis' = redis /\ process' = process
  BY DEF MailTyped, QueueTyped, WorkersTyped, dispatchEmail, sendInline, addFails
<1>3. faults' \in 0 .. MaxFaults /\ troubled' \in [Mails -> Nat]
  BY FaultTyped DEF dispatchEmail, sendInline, addFails, Accepts, Fails, Fault, Sound
<1>4. sent' \in [Mails -> Nat]
  BY DEF MailTyped, dispatchEmail, sendInline, addFails, Accepts, Fails, Take
<1> QED BY <1>1, <1>2, <1>3, <1>4 DEF MailTyped

(* A new entry. *)
LEMMA AddsTyped ==
    ASSUME MailTyped, NEW m \in Mails, NEW j \in Jobs, add(m, j) \/ addAgain(m, j)
    PROVE  MailTyped'
<1> DEFINE e == [NoEntry EXCEPT !.state = "waiting", !.mail = m]
<1>1. e \in Entry /\ EntrySound(e) /\ e # NoEntry
  <2>1. NoEntry \in Entry
    BY AttemptsArePositive DEF NoEntry, Entry
  <2>2. Attempts \in Nat /\ 0 < Attempts /\ m # Nothing
    BY AttemptsArePositive, NothingIsNone
  <2>3. e \in Entry
    BY <2>1, <2>2 DEF Entry
  <2>4. e.state = "waiting" /\ e.mail = m /\ e.by = Nothing /\ e.tries = 0
    BY DEF NoEntry
  <2> HIDE DEF e
  <2>5. NoEntry.state = "none" /\ NoEntry.mail = Nothing
    BY DEF NoEntry
  <2> QED BY <2>2, <2>3, <2>4, <2>5 DEF EntrySound
<1>2. queue' = [queue EXCEPT ![j] = e] /\ redis # "none" /\ redis' # "none"
  BY DEF add, addAgain, Enqueued
<1>3. QueueTyped' /\ \A i \in Jobs : queue[i] # NoEntry => queue'[i] # NoEntry
  <2> HIDE DEF e
  <2> QED BY <1>1, <1>2, QueueStaysTyped
<1>4. worker' = worker /\ process' = process /\ sent' = sent /\ redis' \in {"up", "down"}
  BY DEF add, addAgain
<1>5. CallsTyped'
  BY DEF MailTyped, CallsTyped, Call, NoCall, add, addAgain, AfterAdd
<1>6. faults' \in 0 .. MaxFaults /\ troubled' \in [Mails -> Nat]
  BY FaultTyped DEF add, addAgain
<1>7. WorkersTyped'
  BY <1>3, <1>4 DEF MailTyped, WorkersTyped
<1> QED BY <1>3, <1>4, <1>5, <1>6, <1>7 DEF MailTyped

(* The workers' side. *)
LEMMA WorksTyped ==
    ASSUME MailTyped, NEW s \in Processes, Works(s)
    PROVE  MailTyped'
<1> USE DEF MailTyped
<1>1. ASSUME NEW j \in Jobs, takeJob(s, j) PROVE MailTyped'
  <2> DEFINE e == [queue[j] EXCEPT !.state = "active", !.by = s]
  <2>1. e \in Entry /\ EntrySound(e) /\ e # NoEntry
    BY <1>1, NothingIsNone DEF Entry, NoEntry, EntrySound, takeJob, QueueTyped
  <2>2. queue' = [queue EXCEPT ![j] = e] /\ redis # "none" /\ redis' # "none"
    BY <1>1 DEF takeJob, QueueTyped, Entry
  <2>3. QueueTyped' /\ \A i \in Jobs : queue[i] # NoEntry => queue'[i] # NoEntry
    <3> HIDE DEF e, MailTyped
    <3> QED BY <2>1, <2>2, QueueStaysTyped
  <2>4. WorkersTyped'
    <3>1. worker' = [worker EXCEPT ![s] = [job |-> j, step |-> "send"]] /\ process' = process
      BY <1>1 DEF takeJob
    <3>2. queue'[j] # NoEntry /\ process[s] # "down"
      BY <1>1, <2>1, <2>2 DEF QueueTyped, takeJob
    <3> QED BY <2>3, <3>1, <3>2 DEF WorkersTyped, Hand, Idle
  <2>5. CallsTyped'
    BY <1>1 DEF takeJob, CallsTyped
  <2> QED BY <1>1, <2>3, <2>4, <2>5 DEF takeJob, Sound
<1>2. ASSUME sendEmailNow(s) PROVE MailTyped'
  <2>1. QueueTyped' /\ CallsTyped' /\ queue' = queue /\ process' = process
    BY <1>2 DEF sendEmailNow, QueueTyped, CallsTyped
  <2>5. WorkersTyped'
    <3>1. PICK step \in {"done", "failed"} : worker' = [worker EXCEPT ![s].step = step]
      BY <1>2 DEF sendEmailNow, Reported
    <3>2. worker[s].step = "send" /\ worker[s] # Idle
      BY <1>2 DEF sendEmailNow, Idle
    <3> QED BY <2>1, <3>1, <3>2 DEF WorkersTyped, Hand, Idle
  <2>2. worker[s].job \in Jobs /\ queue[worker[s].job].mail \in Mails
    BY <1>2 DEF sendEmailNow, WorkersTyped, QueueTyped, Entry, EntrySound, Idle
  <2>3. faults' \in 0 .. MaxFaults /\ troubled' \in [Mails -> Nat]
    BY <1>2, <2>2, FaultTyped DEF sendEmailNow, Accepts, Fails
  <2>4. sent' \in [Mails -> Nat]
    BY <1>2, <2>2 DEF sendEmailNow, Accepts, Fails, Take
  <2> QED BY <1>2, <2>1, <2>3, <2>4, <2>5 DEF sendEmailNow
<1>3. ASSUME report(s) PROVE MailTyped'
  <2> DEFINE j == worker[s].job
             tries == queue[j].tries + 1
  <2>1. j \in Jobs /\ queue[j] # NoEntry /\ worker[s] # Idle
    BY <1>3 DEF report, WorkersTyped, Idle
  <2>2. CASE UNCHANGED queue
    <3>1. QueueTyped' /\ WorkersTyped' /\ CallsTyped'
      BY <1>3, <2>2 DEF report, QueueTyped, WorkersTyped, CallsTyped, Hand, Idle
    <3> QED BY <1>3, <3>1 DEF report, Sound
  <2>3. CASE /\ queue[j].by = s
             /\ \/ queue' = [queue EXCEPT ![j].state = "done", ![j].by = Nothing]
                \/ queue' = [queue EXCEPT ![j].state = AfterFailure(tries), ![j].tries = tries,
                                          ![j].by = Nothing]
    <3>1. PICK e \in Entry : EntrySound(e) /\ e # NoEntry /\ queue' = [queue EXCEPT ![j] = e]
      <4>1. queue[j] \in Entry /\ EntrySound(queue[j]) /\ queue[j].state = "active"
        BY <2>1, <2>3, NothingIsNone DEF QueueTyped, EntrySound
      <4>2. tries \in 0 .. Attempts /\ (tries = Attempts \/ tries < Attempts)
        BY <4>1, AttemptsArePositive DEF Entry, EntrySound
      <4>3. [queue[j] EXCEPT !.state = "done", !.by = Nothing] \in Entry
        BY <4>1 DEF Entry
      <4>4. [queue[j] EXCEPT !.state = AfterFailure(tries), !.tries = tries, !.by = Nothing]
               \in Entry
        BY <4>1, <4>2 DEF Entry, AfterFailure
      <4>5. /\ EntrySound([queue[j] EXCEPT !.state = "done", !.by = Nothing])
            /\ [queue[j] EXCEPT !.state = "done", !.by = Nothing] # NoEntry
        BY <4>1, NothingIsNone DEF Entry, EntrySound, NoEntry
      <4>6. /\ EntrySound([queue[j] EXCEPT !.state = AfterFailure(tries), !.tries = tries,
                                           !.by = Nothing])
            /\ [queue[j] EXCEPT !.state = AfterFailure(tries), !.tries = tries, !.by = Nothing]
                  # NoEntry
        BY <4>1, <4>2, NothingIsNone DEF Entry, EntrySound, NoEntry, AfterFailure
      <4>7. \/ queue' = [queue EXCEPT ![j] = [queue[j] EXCEPT !.state = "done", !.by = Nothing]]
            \/ queue' = [queue EXCEPT ![j] = [queue[j] EXCEPT !.state = AfterFailure(tries),
                                                 !.tries = tries, !.by = Nothing]]
        BY <2>1, <2>3 DEF QueueTyped
      <4> QED BY <4>3, <4>4, <4>5, <4>6, <4>7
    <3>2. redis # "none" /\ redis' # "none"
      BY <1>3 DEF report
    <3>3. QueueTyped' /\ \A i \in Jobs : queue[i] # NoEntry => queue'[i] # NoEntry
      <4> HIDE DEF MailTyped
      <4> QED BY <2>1, <3>1, <3>2, QueueStaysTyped
    <3>4. WorkersTyped' /\ CallsTyped'
      BY <1>3, <3>3 DEF report, WorkersTyped, CallsTyped, Hand, Idle
    <3> QED BY <1>3, <3>3, <3>4 DEF report, Sound
  <2> QED BY <1>3, <2>2, <2>3 DEF report
<1>4. ASSUME closeEmailJobs(s) PROVE MailTyped'
  BY <1>4 DEF closeEmailJobs, CallsTyped, QueueTyped, WorkersTyped, Sound
<1> QED BY <1>1, <1>2, <1>3, <1>4 DEF Works

(* The queue's side. *)
LEMMA QueueWorksTyped ==
    ASSUME MailTyped, NEW j \in Jobs, Queue(j) \/ stallSlow(j)
    PROVE  MailTyped'
<1>1. /\ redis = "up" /\ redis' = redis /\ process' = process /\ call' = call
      /\ worker' = worker /\ sent' = sent
  BY DEF Queue, backoffEnds, stallOrphan, stallSlow
<1>2. queue[j] \in Entry /\ EntrySound(queue[j]) /\ queue[j].state \in {"delayed", "active"}
  BY DEF MailTyped, QueueTyped, Queue, backoffEnds, stallOrphan, stallSlow
<1>3. PICK e \in Entry : EntrySound(e) /\ e # NoEntry /\ queue' = [queue EXCEPT ![j] = e]
  <2>1. CASE queue' = [queue EXCEPT ![j].state = "waiting"] /\ queue[j].state = "delayed"
    <3>1. queue' = [queue EXCEPT ![j] = [queue[j] EXCEPT !.state = "waiting"]]
      BY <2>1 DEF MailTyped, QueueTyped
    <3>2. [queue[j] EXCEPT !.state = "waiting"] \in Entry
      BY <1>2 DEF Entry
    <3>3. /\ EntrySound([queue[j] EXCEPT !.state = "waiting"])
          /\ [queue[j] EXCEPT !.state = "waiting"] # NoEntry
      BY <1>2, <2>1 DEF Entry, EntrySound, NoEntry
    <3> QED BY <3>1, <3>2, <3>3
  <2>2. CASE queue' = Stalled(j) /\ queue[j].state = "active"
    <3> DEFINE f == [queue[j] EXCEPT !.state = "failed", !.by = Nothing]
               w == [queue[j] EXCEPT !.state = "waiting", !.by = Nothing, !.stalled = TRUE]
    <3>1. queue' = [queue EXCEPT ![j] = f] \/ queue' = [queue EXCEPT ![j] = w]
      BY <2>2 DEF MailTyped, QueueTyped, Stalled
    <3>2. f \in Entry /\ w \in Entry
      BY <1>2 DEF Entry
    <3>3. EntrySound(f) /\ EntrySound(w) /\ f # NoEntry /\ w # NoEntry
      BY <1>2, <2>2 DEF Entry, EntrySound, NoEntry
    <3> QED BY <3>1, <3>2, <3>3
  <2> QED BY <2>1, <2>2 DEF Queue, backoffEnds, stallOrphan, stallSlow
<1>4. QueueTyped' /\ \A i \in Jobs : queue[i] # NoEntry => queue'[i] # NoEntry
  BY <1>1, <1>3, QueueStaysTyped
<1>5. queue[j].mail \in Mails
  BY <1>2 DEF Entry, EntrySound, NoEntry
<1>6. faults' \in 0 .. MaxFaults /\ troubled' \in [Mails -> Nat]
  BY <1>5, FaultTyped DEF Queue, backoffEnds, stallOrphan, stallSlow
<1>7. WorkersTyped' /\ CallsTyped'
  BY <1>1, <1>4 DEF MailTyped, WorkersTyped, CallsTyped
<1> QED BY <1>1, <1>4, <1>6, <1>7 DEF MailTyped

(* What fails, is shut down or comes back. *)
LEMMA FailuresTyped ==
    ASSUME MailTyped,
           \/ RedisFails \/ RedisRecovers
           \/ \E s \in Processes : shutdown(s) \/ Die(s) \/ Start(s)
    PROVE  MailTyped'
<1> USE DEF MailTyped
<1>1. CASE RedisFails \/ RedisRecovers
  <2>1. redis # "none" /\ redis' \in {"up", "down"}
    BY <1>1 DEF RedisFails, RedisRecovers
  <2>2. /\ UNCHANGED <<process, call, queue, worker, sent, troubled>>
        /\ faults' \in 0 .. MaxFaults
    BY <1>1, FaultsAreCounted DEF RedisFails, RedisRecovers, Sound, Fault
  <2> QED BY <2>1, <2>2 DEF CallsTyped, QueueTyped, WorkersTyped
<1>2. ASSUME NEW s \in Processes, shutdown(s) \/ Start(s) PROVE MailTyped'
  <2>1. /\ UNCHANGED <<redis, call, queue, worker, sent, troubled>>
        /\ faults' \in 0 .. MaxFaults
    BY <1>2, FaultsAreCounted DEF shutdown, Start, Sound, Fault
  <2>2. \E up \in {"up", "closing"} : process' = [process EXCEPT ![s] = up]
    BY <1>2 DEF shutdown, Start
  <2> QED BY <2>1, <2>2 DEF CallsTyped, QueueTyped, WorkersTyped
<1>3. ASSUME NEW s \in Processes, Die(s) PROVE MailTyped'
  <2>1. UNCHANGED <<redis, queue, sent>> /\ process' \in [Processes -> {"up", "closing", "down"}]
    BY <1>3 DEF Die
  <2>2. QueueTyped'
    BY <2>1 DEF QueueTyped
  <2>3. WorkersTyped'
    BY <1>3, <2>1 DEF Die, WorkersTyped, Hand, Idle
  <2>4. CallsTyped'
    BY <1>3 DEF Die, CallsTyped, Call, NoCall
  <2>5. worker[s].step = "done" => queue[worker[s].job].mail \in Mails
    BY DEF WorkersTyped, QueueTyped, Entry, EntrySound, Idle
  <2>6. faults' \in 0 .. MaxFaults /\ troubled' \in [Mails -> Nat]
    <3> HIDE DEF MailTyped
    <3> QED BY <1>3, <2>5, FaultTyped DEF Die
  <2> QED BY <2>1, <2>2, <2>3, <2>4, <2>6
<1> QED BY <1>1, <1>2, <1>3

(* The state stays well typed. *)
LEMMA MailStaysTyped == MailTyped /\ [MailNext]_mailVars => MailTyped'
<1> SUFFICES ASSUME MailTyped, [MailNext]_mailVars PROVE MailTyped'
  OBVIOUS
<1>1. CASE UNCHANGED mailVars
  BY <1>1 DEF mailVars, MailTyped, CallsTyped, QueueTyped, WorkersTyped
<1>2. ASSUME NEW m \in Mails, Dispatches(m) PROVE MailTyped'
  BY <1>2, DispatchesTyped, AddsTyped DEF Dispatches
<1> QED BY <1>1, <1>2, DispatchesTyped, AddsTyped, WorksTyped, QueueWorksTyped, FailuresTyped
        DEF MailNext

-------------------------------------------------------------------------------
(* What is counted is finite. *)
LEMMA ToComeIsFinite ==
    ASSUME NEW m
    PROVE  /\ IsFiniteSet(ToSend(m)) /\ Cardinality(ToSend(m)) \in Nat
           /\ IsFiniteSet(Sending(m)) /\ Cardinality(Sending(m)) \in Nat
           /\ Calling(m) \in {0, 1}
           /\ Cardinality(ToSend(m))' \in Nat /\ Cardinality(Sending(m))' \in Nat
           /\ Calling(m)' \in {0, 1}
<1>1. ToSend(m) \subseteq Jobs /\ Sending(m) \subseteq Processes /\ Calling(m) \in {0, 1}
  BY DEF ToSend, Sending, Calling
<1>2. ToSend(m)' \subseteq Jobs /\ Sending(m)' \subseteq Processes /\ Calling(m)' \in {0, 1}
  BY DEF ToSend, Sending, Calling
<1> QED BY <1>1, <1>2, QueueIsFinite, FS_Subset, FS_CardinalityType

(* A part of a set counts no more, and less without one of its members. *)
LEMMA CountedLess ==
    ASSUME NEW S, IsFiniteSet(S), NEW x, NEW T
    PROVE  /\ T \subseteq S => IsFiniteSet(T) /\ Cardinality(T) <= Cardinality(S)
           /\ T \subseteq S \ {x} /\ x \in S => Cardinality(T) + 1 <= Cardinality(S)
           /\ T \subseteq S \cup {x} => Cardinality(T) <= Cardinality(S) + 1
<1>1. T \subseteq S => IsFiniteSet(T) /\ Cardinality(T) <= Cardinality(S)
  BY FS_Subset
<1>2. ASSUME T \subseteq S \ {x}, x \in S PROVE Cardinality(T) + 1 <= Cardinality(S)
  <2>1. IsFiniteSet(S \ {x}) /\ Cardinality(S \ {x}) = Cardinality(S) - 1
    BY <1>2, FS_RemoveElement
  <2> QED BY <1>2, <2>1, FS_Subset, FS_CardinalityType
<1>3. ASSUME T \subseteq S \cup {x} PROVE Cardinality(T) <= Cardinality(S) + 1
  <2>1. IsFiniteSet(S \cup {x}) /\ Cardinality(S \cup {x}) <= Cardinality(S) + 1
    <3>1. Cardinality(S) \in Nat
      BY FS_CardinalityType
    <3>2. /\ IsFiniteSet(S \cup {x})
          /\ Cardinality(S \cup {x}) = IF x \in S THEN Cardinality(S) ELSE Cardinality(S) + 1
      BY FS_AddElement
    <3> QED BY <3>1, <3>2
  <2> QED BY <1>3, <2>1, FS_Subset, FS_CardinalityType
<1> QED BY <1>1, <1>2, <1>3

(* What has to be shown of a mail: as many copies are still to come as     *)
(* before, less those that went out and plus what failed.                  *)
Balanced(m) == sent'[m] + ToCome(m)' + troubled[m] <= sent[m] + ToCome(m) + troubled'[m]

(* What is balanced for every mail stays within the count. *)
LEMMA CopiesBalance ==
    ASSUME MailTyped, MailTyped', CopiesCounted, \A m \in Mails : Balanced(m)
    PROVE  CopiesCounted'
<1> SUFFICES ASSUME NEW m \in Mails PROVE sent'[m] + ToCome(m)' <= 1 + troubled'[m]
  BY DEF CopiesCounted
<1>1. sent[m] \in Nat /\ sent'[m] \in Nat /\ troubled[m] \in Nat /\ troubled'[m] \in Nat
  BY DEF MailTyped
<1>2. ToCome(m) \in Nat /\ ToCome(m)' \in Nat
  BY ToComeIsFinite DEF ToCome
<1>3. Balanced(m) /\ sent[m] + ToCome(m) <= 1 + troubled[m]
  BY DEF CopiesCounted
<1> QED BY <1>1, <1>2, <1>3 DEF Balanced

(* Nothing goes out, and no more is to come. *)
LEMMA NothingToCome ==
    ASSUME MailTyped, MailTyped', NEW m \in Mails, sent'[m] = sent[m], troubled'[m] >= troubled[m],
           Calling(m)' <= Calling(m), ToSend(m)' \subseteq ToSend(m),
           Sending(m)' \subseteq Sending(m)
    PROVE  Balanced(m)
<1>1. /\ Cardinality(ToSend(m))' <= Cardinality(ToSend(m))
      /\ Cardinality(Sending(m))' <= Cardinality(Sending(m))
  BY ToComeIsFinite, CountedLess
<1> QED BY <1>1, ToComeIsFinite DEF Balanced, ToCome, MailTyped

(* The requests' side. *)
LEMMA DispatchesBalance ==
    ASSUME MailTyped, MailTyped', NEW n \in Mails,
           \/ \E s \in Processes : dispatchEmail(n, s)
           \/ sendInline(n) \/ addFails(n)
    PROVE  \A m \in Mails : Balanced(m)
<1> SUFFICES ASSUME NEW m \in Mails PROVE Balanced(m)
  OBVIOUS
<1>1. ToSend(m)' = ToSend(m) /\ Sending(m)' = Sending(m)
  BY DEF ToSend, Sending, InHand, dispatchEmail, sendInline, addFails
<1>2. CASE (\E s \in Processes : dispatchEmail(n, s)) \/ addFails(n)
  <2>1. sent' = sent /\ troubled' = troubled /\ Calling(m)' <= Calling(m)
    BY <1>2 DEF MailTyped, CallsTyped, Call, Calling, NoCall, dispatchEmail, addFails, Sound
  <2> QED BY <1>1, <2>1, NothingToCome DEF MailTyped
<1>3. CASE sendInline(n)
  <2>1. CASE m = n
    <3>1. Calling(m) = 1 /\ Calling(m)' = 0
      BY <1>3, <2>1 DEF sendInline, Calling, MailTyped, CallsTyped, Call
    <3>2. \/ sent'[m] = sent[m] + 1 /\ troubled'[m] = troubled[m]
          \/ sent'[m] = sent[m] + 1 /\ troubled'[m] = troubled[m] + 1
          \/ sent'[m] = sent[m] /\ troubled'[m] = troubled[m]
      BY <1>3, <2>1 DEF sendInline, MailTyped, Accepts, Fails, Take, Trouble, Sound
    <3> QED BY <1>1, <3>1, <3>2, ToComeIsFinite DEF Balanced, ToCome, MailTyped
  <2>2. CASE m # n
    <3>1. sent'[m] = sent[m] /\ troubled'[m] = troubled[m] /\ Calling(m)' = Calling(m)
      BY <1>3, <2>2 DEF sendInline, MailTyped, CallsTyped, Calling,
                        Accepts, Fails, Take, Trouble, Sound
    <3> QED BY <1>1, <3>1, ToComeIsFinite DEF Balanced, ToCome, MailTyped
  <2> QED BY <2>1, <2>2
<1> QED BY <1>2, <1>3

(* A new entry is one that nobody has in hand. *)
LEMMA AddsBalance ==
    ASSUME MailTyped, MailTyped', NEW n \in Mails, NEW j \in Jobs, add(n, j) \/ addAgain(n, j)
    PROVE  \A m \in Mails : Balanced(m)
<1> SUFFICES ASSUME NEW m \in Mails PROVE Balanced(m)
  OBVIOUS
<1>1. /\ worker' = worker /\ sent' = sent /\ queue[j] = NoEntry
      /\ \A i \in Jobs \ {j} : queue'[i] = queue[i]
      /\ queue'[j].mail = n
  BY DEF add, addAgain, Enqueued, NoEntry, MailTyped, QueueTyped
<1>2. Sending(m)' = Sending(m)
  <2>1. \A s \in Processes : worker[s].step = "send" =>
           queue'[worker[s].job] = queue[worker[s].job]
    BY <1>1 DEF MailTyped, WorkersTyped, Idle
  <2> QED BY <1>1, <2>1 DEF Sending
<1>3. ToSend(m)' \subseteq ToSend(m) \cup IF m = n THEN {j} ELSE {}
  BY <1>1 DEF ToSend, InHand
<1>4. CASE m = n
  <2>1. Cardinality(ToSend(m))' <= Cardinality(ToSend(m)) + 1
    BY <1>3, <1>4, ToComeIsFinite, CountedLess
  <2>2. \/ Calling(m) = 1 /\ Calling(m)' = 0 /\ troubled'[m] = troubled[m]
        \/ Calling(m)' = Calling(m) /\ troubled'[m] = troubled[m] + 1
    BY <1>4 DEF add, addAgain, AfterAdd, Calling, Trouble, Sound, MailTyped, CallsTyped, Call
  <2> QED BY <1>1, <1>2, <2>1, <2>2, ToComeIsFinite DEF Balanced, ToCome, MailTyped
<1>5. CASE m # n
  <2>1. Calling(m)' = Calling(m) /\ troubled'[m] = troubled[m]
    BY <1>5 DEF add, addAgain, Calling, Trouble, Sound, MailTyped, CallsTyped
  <2> QED BY <1>1, <1>2, <1>3, <1>5, <2>1, NothingToCome, ToComeIsFinite DEF MailTyped
<1> QED BY <1>4, <1>5

(* A worker sends the mail that it took. *)
LEMMA SendsBalance ==
    ASSUME MailTyped, MailTyped', NEW s \in Processes, sendEmailNow(s)
    PROVE  \A m \in Mails : Balanced(m)
<1> DEFINE j == worker[s].job
           n == queue[j].mail
<1> SUFFICES ASSUME NEW m \in Mails PROVE Balanced(m)
  OBVIOUS
<1>1. /\ call' = call /\ queue' = queue /\ worker[s].step = "send" /\ worker'[s].job = j
      /\ \A p \in Processes \ {s} : worker'[p] = worker[p]
      /\ worker'[s].step \in {"done", "failed"}
      /\ j \in Jobs
  BY DEF sendEmailNow, Reported, MailTyped, WorkersTyped, Hand, Idle
<1>2. Calling(m)' = Calling(m) /\ Sending(m)' = Sending(m) \ {s}
  BY <1>1 DEF Calling, Sending
<1>3. ToSend(m)' \subseteq ToSend(m) \cup
         IF m = n /\ worker'[s].step = "failed" THEN {j} ELSE {}
  <2>1. \A i \in Jobs : queue[i].state = "active" => queue[i].by \in Processes
    BY DEF MailTyped, QueueTyped, Entry, EntrySound
  <2> QED BY <1>1, <2>1 DEF ToSend, InHand
<1>4. CASE m = n
  <2>1. Cardinality(Sending(m))' + 1 <= Cardinality(Sending(m))
    <3>1. s \in Sending(m)
      BY <1>1, <1>4 DEF Sending
    <3> QED BY <1>2, <3>1, ToComeIsFinite, CountedLess
  <2>2. \/ /\ sent'[m] = sent[m] + 1 /\ troubled'[m] = troubled[m]
           /\ Cardinality(ToSend(m))' <= Cardinality(ToSend(m))
        \/ /\ sent'[m] = sent[m] + 1 /\ troubled'[m] = troubled[m] + 1
           /\ Cardinality(ToSend(m))' <= Cardinality(ToSend(m)) + 1
        \/ /\ sent'[m] = sent[m] /\ troubled'[m] = troubled[m]
           /\ Cardinality(ToSend(m))' <= Cardinality(ToSend(m)) + 1
    <3>1. \/ worker'[s].step = "done" /\ sent'[m] = sent[m] + 1 /\ troubled'[m] = troubled[m]
          \/ sent'[m] = sent[m] + 1 /\ troubled'[m] = troubled[m] + 1
          \/ sent'[m] = sent[m] /\ troubled'[m] = troubled[m]
      <4>1. CASE Accepts(n) /\ worker' = [worker EXCEPT ![s].step = "done"]
        BY <1>1, <1>4, <4>1 DEF MailTyped, WorkersTyped, Hand, Accepts, Take, Sound
      <4>2. CASE Fails(n)
        BY <1>4, <4>2 DEF MailTyped, Fails, Take, Trouble
      <4> QED BY <4>1, <4>2 DEF sendEmailNow, Reported
    <3>2. Cardinality(ToSend(m))' <= Cardinality(ToSend(m)) + 1
      BY <1>3, ToComeIsFinite, CountedLess
    <3>3. worker'[s].step = "done" => Cardinality(ToSend(m))' <= Cardinality(ToSend(m))
      BY <1>3, ToComeIsFinite, CountedLess
    <3> QED BY <3>1, <3>2, <3>3
  <2> QED BY <1>2, <2>1, <2>2, ToComeIsFinite DEF Balanced, ToCome, MailTyped
<1>5. CASE m # n
  <2>1. sent'[m] = sent[m] /\ troubled'[m] = troubled[m]
    BY <1>5 DEF sendEmailNow, MailTyped, Accepts, Fails, Take, Trouble, Sound
  <2> QED BY <1>2, <1>3, <1>5, <2>1, NothingToCome, ToComeIsFinite DEF MailTyped
<1> QED BY <1>4, <1>5

(* A worker takes a mail that was to be taken. *)
LEMMA TakesBalance ==
    ASSUME MailTyped, MailTyped', NEW s \in Processes, NEW j \in Jobs, takeJob(s, j)
    PROVE  \A m \in Mails : Balanced(m)
<1> SUFFICES ASSUME NEW m \in Mails PROVE Balanced(m)
  OBVIOUS
<1>1. /\ UNCHANGED <<call, sent, troubled>>
      /\ worker[s] = Idle /\ worker'[s] = [job |-> j, step |-> "send"]
      /\ \A p \in Processes \ {s} : worker'[p] = worker[p]
      /\ queue[j].state = "waiting" /\ queue'[j].state = "active" /\ queue'[j].by = s
      /\ queue'[j].mail = queue[j].mail
      /\ \A i \in Jobs \ {j} : queue'[i] = queue[i]
  BY DEF takeJob, Sound, MailTyped, WorkersTyped, QueueTyped, Entry
<1>2. Calling(m)' = Calling(m)
  BY <1>1 DEF Calling
<1>3. ToSend(m)' \subseteq ToSend(m) \ {j}
  <2>1. \A i \in Jobs : queue[i].state = "active" => queue[i].by \in Processes
    BY DEF MailTyped, QueueTyped, Entry, EntrySound
  <2>2. j \notin ToSend(m)'
    BY <1>1 DEF ToSend, InHand
  <2>3. ASSUME NEW i \in Jobs \ {j}, i \in ToSend(m)' PROVE i \in ToSend(m)
    <3>1. queue'[i] = queue[i] /\ queue[i].mail = m
      BY <1>1, <2>3 DEF ToSend
    <3>2. CASE queue[i].state \in {"waiting", "delayed"}
      BY <3>1, <3>2 DEF ToSend
    <3>3. CASE queue[i].state = "active" /\ queue[i].by # s
      BY <1>1, <2>1, <2>3, <3>1, <3>3 DEF ToSend, InHand
    <3>4. CASE queue[i].state = "active" /\ queue[i].by = s
      BY <1>1, <3>1, <3>4, NothingIsNone DEF ToSend, InHand, Idle
    <3> QED BY <2>3, <3>1, <3>2, <3>3, <3>4 DEF ToSend
  <2> QED BY <2>2, <2>3 DEF ToSend
<1>4. Sending(m)' \subseteq Sending(m) \cup IF m = queue[j].mail THEN {s} ELSE {}
  <2>1. \A p \in Processes : worker[p].step = "send" => worker[p].job \in Jobs
    BY DEF MailTyped, WorkersTyped, Idle
  <2> QED BY <1>1, <2>1 DEF Sending
<1>5. CASE m = queue[j].mail
  <2>1. j \in ToSend(m)
    BY <1>1, <1>5 DEF ToSend
  <2>2. /\ Cardinality(ToSend(m))' + 1 <= Cardinality(ToSend(m))
        /\ Cardinality(Sending(m))' <= Cardinality(Sending(m)) + 1
    BY <1>3, <1>4, <1>5, <2>1, ToComeIsFinite, CountedLess
  <2> QED BY <1>1, <1>2, <2>2, ToComeIsFinite DEF Balanced, ToCome, MailTyped
<1>6. CASE m # queue[j].mail
  BY <1>1, <1>2, <1>3, <1>4, <1>6, NothingToCome, ToComeIsFinite DEF MailTyped
<1> QED BY <1>5, <1>6

(* A worker reports: its job is over, or is to be taken again as before. *)
LEMMA ReportsBalance ==
    ASSUME MailTyped, MailTyped', NEW s \in Processes, report(s) \/ closeEmailJobs(s)
    PROVE  \A m \in Mails : Balanced(m)
<1> SUFFICES ASSUME NEW m \in Mails PROVE Balanced(m)
  OBVIOUS
<1>1. sent' = sent /\ troubled' = troubled /\ Calling(m)' = Calling(m)
  BY DEF report, closeEmailJobs, Sound, Calling
<1>2. ToSend(m)' \subseteq ToSend(m) /\ Sending(m)' \subseteq Sending(m)
  <2>1. CASE closeEmailJobs(s)
    BY <2>1 DEF closeEmailJobs, ToSend, Sending, InHand
  <2>2. CASE report(s)
    <3> DEFINE j == worker[s].job
    <3>1. /\ j \in Jobs /\ worker'[s] = Idle
          /\ \A p \in Processes \ {s} : worker'[p] = worker[p]
          /\ worker[s].step \in {"done", "failed"}
      BY <2>2 DEF report, MailTyped, WorkersTyped, Idle
    <3>2. \A i \in Jobs : /\ queue'[i].mail = queue[i].mail
                          /\ i # j => queue'[i] = queue[i]
      BY <2>2, <3>1 DEF report, MailTyped, QueueTyped, Entry
    <3>3. \A i \in Jobs : queue[i].state = "active" => queue[i].by \in Processes
      BY DEF MailTyped, QueueTyped, Entry, EntrySound
    <3>4. \A i \in Jobs \ {j} : i \in ToSend(m)' => i \in ToSend(m)
      <4> SUFFICES ASSUME NEW i \in Jobs \ {j}, i \in ToSend(m)' PROVE i \in ToSend(m)
        OBVIOUS
      <4>1. queue'[i] = queue[i] /\ queue[i].mail = m
        BY <3>2 DEF ToSend
      <4>2. CASE queue[i].by = s
        BY <3>1, <4>1, <4>2 DEF ToSend, InHand
      <4>3. CASE queue[i].by # s
        BY <3>1, <3>3, <4>1, <4>3 DEF ToSend, InHand
      <4> QED BY <4>2, <4>3
    <3>5. j \in ToSend(m)' => j \in ToSend(m)
      <4>1. CASE queue[j].by = s /\ worker[s].step = "done"
        <5>1. queue'[j].state = "done"
          BY <2>2, <3>1, <4>1 DEF report, MailTyped, QueueTyped, Entry
        <5> QED BY <5>1 DEF ToSend
      <4>2. CASE queue[j].by = s /\ worker[s].step = "failed"
        <5>1. queue[j].state = "active" /\ queue[j].by = s /\ worker[s].step = "failed"
          BY <4>2, <3>1, NothingIsNone DEF MailTyped, QueueTyped, EntrySound
        <5> QED BY <3>2, <3>1, <4>2, <5>1 DEF ToSend, InHand
      <4>3. CASE queue[j].by # s
        <5>1. queue' = queue
          BY <2>2, <4>3 DEF report
        <5>2. queue[j].state = "active" => worker'[queue[j].by] = worker[queue[j].by]
          BY <3>1, <3>3, <4>3
        <5> QED BY <5>1, <5>2 DEF ToSend, InHand
      <4> QED BY <3>1, <4>1, <4>2, <4>3
    <3>6. Sending(m)' \subseteq Sending(m)
      <4>1. \A p \in Processes : worker[p].step = "send" => worker[p].job \in Jobs
        BY DEF MailTyped, WorkersTyped, Idle
      <4> QED BY <3>1, <3>2, <4>1 DEF Sending, Idle
    <3> QED BY <3>4, <3>5, <3>6 DEF ToSend
  <2> QED BY <2>1, <2>2
<1> QED BY <1>1, <1>2, NothingToCome, ToComeIsFinite DEF MailTyped

(* A job is due, or is given to another worker; the one that is slow may   *)
(* send it all the same.                                                   *)
LEMMA QueueBalances ==
    ASSUME MailTyped, MailTyped', NEW j \in Jobs, Queue(j) \/ stallSlow(j)
    PROVE  \A m \in Mails : Balanced(m)
<1> SUFFICES ASSUME NEW m \in Mails PROVE Balanced(m)
  OBVIOUS
<1>1. /\ UNCHANGED <<call, sent, worker>>
      /\ \A i \in Jobs \ {j} : queue'[i] = queue[i]
      /\ queue'[j].mail = queue[j].mail
  BY DEF Queue, backoffEnds, stallOrphan, stallSlow, Stalled, MailTyped, QueueTyped, Entry
<1>2. Calling(m)' = Calling(m)
  BY <1>1 DEF Calling
<1>3. Sending(m)' = Sending(m)
  <2>1. \A p \in Processes : worker[p].step = "send" => worker[p].job \in Jobs
    BY DEF MailTyped, WorkersTyped, Idle
  <2> QED BY <1>1, <2>1 DEF Sending
<1>4. CASE Queue(j)
  <2>1. ToSend(m)' \subseteq ToSend(m)
    BY <1>1, <1>4 DEF ToSend, InHand, Queue, backoffEnds, stallOrphan
  <2> QED BY <1>1, <1>2, <1>3, <1>4, <2>1, NothingToCome, ToComeIsFinite
          DEF MailTyped, Queue, backoffEnds, stallOrphan, Sound
<1>5. CASE stallSlow(j)
  <2>1. ToSend(m)' \subseteq ToSend(m) \cup IF m = queue[j].mail THEN {j} ELSE {}
    BY <1>1 DEF ToSend, InHand
  <2>2. troubled'[m] = troubled[m] + IF m = queue[j].mail THEN 1 ELSE 0
    BY <1>5 DEF stallSlow, Trouble, MailTyped
  <2>3. Cardinality(ToSend(m))' <= Cardinality(ToSend(m)) + IF m = queue[j].mail THEN 1 ELSE 0
    <3>1. CASE m = queue[j].mail
      BY <2>1, <3>1, ToComeIsFinite, CountedLess
    <3>2. CASE m # queue[j].mail
      BY <2>1, <3>2, ToComeIsFinite, CountedLess
    <3> QED BY <3>1, <3>2
  <2> QED BY <1>1, <1>2, <1>3, <2>2, <2>3, ToComeIsFinite DEF Balanced, ToCome, MailTyped
<1> QED BY <1>4, <1>5

(* The job of a process that dies is to be taken again. *)
LEMMA DeathBalances ==
    ASSUME MailTyped, MailTyped', NEW s \in Processes, Die(s)
    PROVE  \A m \in Mails : Balanced(m)
<1> DEFINE j == worker[s].job
<1> SUFFICES ASSUME NEW m \in Mails PROVE Balanced(m)
  OBVIOUS
<1>1. /\ sent' = sent /\ queue' = queue /\ worker'[s] = Idle
      /\ \A p \in Processes \ {s} : worker'[p] = worker[p]
  BY DEF Die, MailTyped, WorkersTyped
<1>2. Calling(m)' <= Calling(m)
  BY DEF Die, Calling, MailTyped, CallsTyped, Call
<1>3. Sending(m)' = Sending(m) \ {s}
  BY <1>1 DEF Sending, Idle
<1>4. \A i \in ToSend(m)' : i \in ToSend(m) \/ (i = j /\ m = queue[j].mail /\ worker[s] # Idle
                                                 /\ worker[s].step # "failed")
  <2>1. \A i \in Jobs : queue[i].state = "active" => queue[i].by \in Processes
    BY DEF MailTyped, QueueTyped, Entry, EntrySound
  <2> SUFFICES ASSUME NEW i \in ToSend(m)', i \notin ToSend(m)
               PROVE  i = j /\ m = queue[j].mail /\ worker[s] # Idle
                            /\ worker[s].step # "failed"
    OBVIOUS
  <2>2. i \in Jobs /\ queue[i].mail = m /\ queue[i].by = s /\ queue[i].state = "active"
    BY <1>1, <2>1 DEF ToSend, InHand
  <2>3. i = j /\ worker[s].step # "failed"
    BY <2>2 DEF ToSend, InHand
  <2> QED BY <2>2, <2>3, NothingIsNone DEF Idle
<1>5. CASE /\ troubled'[m] >= troubled[m]
           /\ worker[s] = Idle \/ m # queue[j].mail \/ worker[s].step = "failed"
  BY <1>1, <1>2, <1>3, <1>4, <1>5, NothingToCome
<1>6. CASE worker[s] # Idle /\ m = queue[j].mail /\ worker[s].step # "failed"
  <2>1. Cardinality(ToSend(m))' <= Cardinality(ToSend(m)) + 1
    BY <1>4, ToComeIsFinite, CountedLess
  <2>2. worker[s].step \in {"send", "done"}
    BY <1>6 DEF MailTyped, WorkersTyped, Hand
  <2>3. CASE worker[s].step = "send"
    <3>1. s \in Sending(m) /\ troubled'[m] = troubled[m]
      BY <1>6, <2>3 DEF Sending, Die
    <3>2. Cardinality(Sending(m))' + 1 <= Cardinality(Sending(m))
      BY <1>3, <3>1, ToComeIsFinite, CountedLess
    <3> QED BY <1>1, <1>2, <2>1, <3>1, <3>2, ToComeIsFinite DEF Balanced, ToCome, MailTyped
  <2>4. CASE worker[s].step = "done"
    <3>1. troubled'[m] = troubled[m] + 1
      BY <1>6, <2>4 DEF Die, Trouble, MailTyped
    <3>2. Cardinality(Sending(m))' <= Cardinality(Sending(m))
      BY <1>3, ToComeIsFinite, CountedLess
    <3> QED BY <1>1, <1>2, <2>1, <3>1, <3>2, ToComeIsFinite DEF Balanced, ToCome, MailTyped
  <2> QED BY <2>2, <2>3, <2>4
<1>7. troubled'[m] >= troubled[m]
  BY DEF Die, Trouble, MailTyped
<1> QED BY <1>5, <1>6, <1>7

(* What else fails, is shut down or comes back sends nothing. *)
LEMMA FailuresBalance ==
    ASSUME MailTyped, MailTyped',
           \/ RedisFails \/ RedisRecovers \/ UNCHANGED mailVars
           \/ \E s \in Processes : shutdown(s) \/ Start(s)
    PROVE  \A m \in Mails : Balanced(m)
<1> SUFFICES ASSUME NEW m \in Mails PROVE Balanced(m)
  OBVIOUS
<1>1. UNCHANGED <<call, queue, worker, sent, troubled>>
  BY DEF RedisFails, RedisRecovers, shutdown, Start, Sound, mailVars
<1>2. Calling(m)' = Calling(m) /\ ToSend(m)' = ToSend(m) /\ Sending(m)' = Sending(m)
  BY <1>1 DEF Calling, ToSend, InHand, Sending
<1> QED BY <1>1, <1>2, NothingToCome, ToComeIsFinite DEF MailTyped

-------------------------------------------------------------------------------
(* CopiesExplained: a mail goes out twice only if something failed after a *)
(* copy had gone, or might have.                                           *)
THEOREM CopiesAlwaysExplained == MailSpec => []CopiesExplained
<1>1. MailInit => MailTyped /\ CopiesCounted
  <2> SUFFICES ASSUME MailInit PROVE CopiesCounted
    BY InitMailTyped
  <2>1. ASSUME NEW m \in Mails
        PROVE  ToSend(m) = {} /\ Sending(m) = {} /\ Calling(m) = 1 /\ sent[m] = 0 /\ troubled[m] = 0
    BY <2>1, NothingIsNone DEF MailInit, ToSend, Sending, Calling, NoEntry, Idle, NoCall
  <2> QED BY <2>1, FS_EmptySet DEF CopiesCounted, ToCome
<1>2. ASSUME MailTyped, CopiesCounted, [MailNext]_mailVars PROVE MailTyped' /\ CopiesCounted'
  <2>1. MailTyped'
    BY <1>2, MailStaysTyped
  <2>2. ASSUME NEW m \in Mails, Dispatches(m) PROVE \A n \in Mails : Balanced(n)
    BY <1>2, <2>1, <2>2, DispatchesBalance, AddsBalance DEF Dispatches
  <2>3. ASSUME NEW s \in Processes, Works(s) PROVE \A n \in Mails : Balanced(n)
    BY <1>2, <2>1, <2>3, SendsBalance, TakesBalance, ReportsBalance DEF Works
  <2>4. \A n \in Mails : Balanced(n)
    BY <1>2, <2>1, <2>2, <2>3, DispatchesBalance, AddsBalance, QueueBalances, DeathBalances,
       FailuresBalance DEF MailNext
  <2> QED BY <1>2, <2>1, <2>4, CopiesBalance
<1>3. MailTyped /\ CopiesCounted => CopiesExplained
  <2> SUFFICES ASSUME MailTyped, CopiesCounted PROVE CopiesExplained
    OBVIOUS
  <2>1. MailTypeOK
    BY NothingIsNone DEF MailTyped, MailTypeOK, CallsTyped, QueueTyped, WorkersTyped, Call, Entry,
                         Hand, EntrySound
  <2>2. ASSUME NEW m \in Mails PROVE sent[m] <= 1 + troubled[m]
    BY ToComeIsFinite DEF MailTyped, CopiesCounted, ToCome
  <2> QED BY <2>1, <2>2 DEF CopiesExplained
<1> QED BY <1>1, <1>2, <1>3, PTL DEF MailSpec

-------------------------------------------------------------------------------
(* Ceremonies in the tabs of a browser.                                    *)

SignedToken == [purpose : Purposes \cup {"none"}, user : Users \cup {Nobody}, post : BOOLEAN]
Tab == [user : Users \cup {Nobody}, ceremony : 0 .. MaxTokens, signature : Signatures]
Passkey == [state : {"none", "active", "deleted"}, owner : Users \cup {Nobody},
            token : 0 .. MaxTokens, counter : Counts]
Request == [op : {"none", "register", "authenticate", "callback", "remove"},
            tab : Tabs \cup {Nobody}, user : Users \cup {Nobody},
            cookie : 0 .. MaxTokens, state : 0 .. MaxTokens,
            signature : [token : 0 .. MaxTokens, key : Keys \cup {Nobody}, count : Counts],
            counter : Counts]

(* An authenticator made the signature s, and counted it if it counts.     *)
Made(s) ==
    /\ s \in [token : Tokens, key : Keys, count : Counts]
    /\ Signed(s.token) /\ token[s.token].purpose \in WebAuthn
    /\ s.count <= device[s.key]
    /\ s.key \in counted <=> s.count > 0

TokensTyped ==
    /\ token \in [Tokens -> SignedToken]
    /\ \A n \in Tokens : token[n].purpose \in {"register", "link"} => token[n].user # Nobody
    /\ \A n \in Tokens : accepted[n] > 0 => Signed(n)
    /\ accepted \in [Tokens -> Nat]
    /\ begun \in 0 .. MaxRequests

CookiesTyped ==
    /\ cookie \in [{"webauthn", "oauth"} -> 0 .. MaxTokens]
    /\ \A c \in DOMAIN cookie : cookie[c] # 0 =>
          Signed(cookie[c]) /\ (token[cookie[c]].purpose \in WebAuthn <=> c = "webauthn")

(* A ceremony goes on in one tab, and is signed there once.                *)
TabsTyped ==
    /\ tab \in [Tabs -> Tab]
    /\ \A t \in Tabs :
          /\ tab[t].ceremony # 0 => Signed(tab[t].ceremony)
          /\ tab[t].signature # NoSignature =>
                Made(tab[t].signature) /\ tab[t].signature.token = tab[t].ceremony
    /\ \A t, u \in Tabs : t # u /\ tab[t].ceremony = tab[u].ceremony => tab[t].ceremony = 0

KeysTyped ==
    /\ passkey \in [Keys -> Passkey] /\ device \in [Keys -> Nat]
    /\ \A k \in Keys :
          /\ passkey[k].counter <= device[k]
          /\ k \notin counted => device[k] = 0
          /\ passkey[k].token # 0 =>
                Signed(passkey[k].token) /\ passkey[k].owner = token[passkey[k].token].user

(* An authenticator has counted no more signatures than there were         *)
(* ceremonies that do not wait for one any more.                           *)
Waiting(n) == \E t \in Tabs : tab[t].ceremony = n /\ tab[t].signature = NoSignature
Past == {n \in Tokens : Signed(n) /\ ~Waiting(n)}
SignaturesBounded == \A k \in Keys : device[k] <= Cardinality(Past)

(* What a request brings along, and what it has found by each step.        *)
Brings(j) ==
    /\ j.op \in {"register", "authenticate"} => Made(j.signature)
    /\ j.op \in {"register", "authenticate", "callback"} => j.tab \in Tabs
    /\ j.op = "register" => j.user # Nobody
    /\ IF j.op = "callback" THEN j.state \in Tokens /\ Signed(j.state) ELSE j.state = 0
    /\ j.op = "remove" => j.signature.key \in Keys
    /\ j.cookie # 0 => Signed(j.cookie)

Found(step, j) ==
    /\ step = "idle" <=> j = NoJob
    /\ step = "idle" <=> j.op = "none"
    /\ step \in {"update", "issue"} => j.op = "authenticate"
    /\ step = "delete" => j.op = "remove"
    /\ step = "answer" => j.op \in {"register", "authenticate", "callback"}
    /\ step \in {"update", "issue", "delete"} => passkey[j.signature.key].state # "none"

RequestsTyped ==
    /\ pc \in [Requests -> {"idle", "arrived", "update", "issue", "delete", "answer"}]
    /\ job \in [Requests -> Request]
    /\ \A r \in Requests : Brings(job[r]) /\ Found(pc[r], job[r])

HistoryTyped ==
    /\ \A s \in opened \cup reopened : Made(s) /\ passkey[s.key].state # "none"
    /\ overlapped \subseteq Tokens \cup Keys

CeremoniesTyped ==
    /\ TokensTyped /\ CookiesTyped /\ TabsTyped /\ KeysTyped /\ SignaturesBounded
    /\ RequestsTyped /\ HistoryTyped

(* Two requests about one token or one key have been noted. *)
MeetingsNoted ==
    \A q, r \in Requests : q # r => About(job[q]) \cap About(job[r]) \subseteq overlapped

(* While the requests about a key come one after the other, its counter    *)
(* has passed every signature that opened a session, and is what a request *)
(* has read.                                                               *)
CounterPassed ==
    /\ \A s \in opened : s.key \in counted \ overlapped => s.count <= passkey[s.key].counter
    /\ \A r \in Requests :
          LET s == job[r].signature
          IN  /\ pc[r] = "update" /\ s.key \notin overlapped =>
                    job[r].counter = passkey[s.key].counter
              /\ pc[r] = "issue" /\ s.key \in counted \ overlapped =>
                    s \notin opened /\ s.count = passkey[s.key].counter

(* A state that was accepted is not in the cookie any more, or the answer  *)
(* that clears it is under way; and no other callback has it.              *)
Clearing(n) == \E r \in Requests : /\ pc[r] = "answer" /\ job[r].op = "callback"
                                   /\ job[r].state = n
StateSpent(n) ==
    /\ accepted[n] <= 1
    /\ accepted[n] = 1 => cookie["oauth"] # n \/ Clearing(n)
    /\ \A r \in Requests :
          pc[r] = "arrived" /\ job[r].state = n /\ job[r].cookie = n => accepted[n] = 0
StatesSpent ==
    \A n \in Tokens : Signed(n) /\ ~token[n].post /\ n \notin overlapped => StateSpent(n)

-------------------------------------------------------------------------------
CeremoniesKept ==
    /\ CeremoniesTyped /\ MeetingsNoted /\ CounterPassed /\ StatesSpent
    /\ SignatureOpensOneSessionUnlessOverlapped

(* There are as many tokens as ceremonies.                                 *)
LEMMA TokensAreCounted ==
    /\ MaxTokens \in Nat /\ MaxRequests \in Nat
    /\ IsFiniteSet(Tokens) /\ Cardinality(Tokens) = MaxTokens
    /\ Tokens \subseteq 0 .. MaxTokens /\ Counts \subseteq Nat
<1>1. MaxTokens \in Nat /\ MaxRequests \in Nat
    BY CountsAreNatural
<1>2. IsFiniteSet(1 .. MaxTokens)
      /\ Cardinality(1 .. MaxTokens) = IF 1 > MaxTokens THEN 0 ELSE MaxTokens - 1 + 1
    BY <1>1, FS_Interval
<1> QED
    BY <1>1, <1>2 DEF Tokens, Counts

(* What stands for nothing has the type of something.                      *)
LEMMA NothingTyped ==
    /\ NoToken \in SignedToken
    /\ NoSignature \in Signatures
    /\ NoSignature \in [token : 0 .. MaxTokens, key : Keys \cup {Nobody}, count : Counts]
    /\ NoPasskey \in Passkey
    /\ NoJob \in Request
    /\ Nobody \notin Keys /\ Nobody \notin Users
<1>1. 0 \in 0 .. MaxTokens /\ 0 \in Counts
    BY TokensAreCounted DEF Counts
<1>2. NoSignature \in [token : 0 .. MaxTokens, key : Keys \cup {Nobody}, count : Counts]
    BY <1>1 DEF NoSignature
<1>3. NoJob \in Request
    BY <1>1, <1>2 DEF NoJob, Job, Request
<1> QED
    BY <1>1, <1>2, <1>3, NobodyIsNone DEF NoToken, SignedToken, Signatures, NoPasskey, Passkey

(* No request is about what stands for nothing.                            *)
LEMMA IdleIsAboutNothing == About(NoJob) = {}
BY NothingTyped DEF About, NoJob, Job, NoSignature, Tokens

(* At first no ceremony has begun.                                         *)
LEMMA CeremoniesInit == CeremonyInit => CeremoniesKept
<1> SUFFICES ASSUME CeremonyInit
             PROVE  CeremoniesKept
    OBVIOUS
<1> USE DEF CeremonyInit
<1>1. 0 \in 0 .. MaxTokens /\ 0 \in Counts /\ 0 \in 0 .. MaxRequests
    BY TokensAreCounted DEF Counts
<1>2. \A n \in Tokens : ~Signed(n)
    BY DEF Signed, NoToken
<1>3. TokensTyped
    BY <1>1, <1>2, NothingTyped DEF TokensTyped, NoToken
<1>4. CookiesTyped
    BY <1>1 DEF CookiesTyped
<1>5. TabsTyped
    <2>1. ASSUME NEW t \in Tabs
          PROVE  tab[t] \in Tab /\ tab[t].ceremony = 0 /\ tab[t].signature = NoSignature
        <3>1. tab[t] \in [user : Users \cup {Nobody}, ceremony : {0}, signature : {NoSignature}]
            OBVIOUS
        <3> QED
            BY <3>1, <1>1, NothingTyped DEF Tab
    <2> QED
        BY <2>1 DEF TabsTyped
<1>6. KeysTyped
    <2>1. PICK old \in SUBSET counted, u \in Users :
              passkey = [k \in Keys |-> IF k \in old
                                        THEN [state |-> "active", owner |-> u, token |-> 0,
                                              counter |-> 0]
                                        ELSE NoPasskey]
        OBVIOUS
    <2>2. [state |-> "active", owner |-> u, token |-> 0, counter |-> 0] \in Passkey
        BY <1>1 DEF Passkey
    <2>3. NoPasskey.token = 0 /\ NoPasskey.counter = 0
        BY DEF NoPasskey
    <2>4. \A k \in Keys : passkey[k] \in Passkey /\ passkey[k].token = 0 /\ passkey[k].counter = 0
        BY <2>1, <2>2, <2>3, NothingTyped
    <2>5. passkey \in [Keys -> Passkey]
        BY <2>1, <2>4
    <2> QED
        BY <2>4, <2>5 DEF KeysTyped
<1>7. SignaturesBounded
    <2>1. Past = {}
        BY <1>2 DEF Past
    <2> QED
        BY <2>1, FS_EmptySet DEF SignaturesBounded
<1>8. RequestsTyped
    <2>1. Brings(NoJob) /\ Found("idle", NoJob)
        BY DEF Brings, Found, NoJob, Job
    <2> QED
        BY <2>1, NothingTyped DEF RequestsTyped
<1>9. HistoryTyped
    BY DEF HistoryTyped
<1>10. MeetingsNoted
    BY IdleIsAboutNothing DEF MeetingsNoted
<1>11. CounterPassed
    BY DEF CounterPassed
<1>12. StatesSpent
    BY <1>2 DEF StatesSpent
<1>13. SignatureOpensOneSessionUnlessOverlapped
    BY DEF SignatureOpensOneSessionUnlessOverlapped
<1> QED
    BY <1>3, <1>4, <1>5, <1>6, <1>7, <1>8, <1>9, <1>10, <1>11, <1>12, <1>13
    DEF CeremoniesTyped, CeremoniesKept

-------------------------------------------------------------------------------
(* A signed token stays as it is, an authenticator counts forwards, and a  *)
(* key that was registered does not become free again.                     *)
Grows ==
    /\ \A n \in Tokens : Signed(n) => token'[n] = token[n]
    /\ \A k \in Keys : device[k] <= device'[k]
    /\ \A k \in Keys : passkey[k].state # "none" => passkey'[k].state # "none"

(* So what was signed stays signed, by a token as by an authenticator.     *)
LEMMA SignedStays ==
    ASSUME Grows, NEW n \in Tokens, Signed(n)
    PROVE  Signed(n)' /\ token'[n] = token[n]
BY DEF Grows, Signed

(* What an authenticator made, it made. *)
LEMMA MadeStays ==
    ASSUME Grows, device \in [Keys -> Nat], device' \in [Keys -> Nat], NEW s, Made(s)
    PROVE  Made(s)'
<1>1. s \in [token : Tokens, key : Keys, count : Counts] /\ s.count \in Nat
      /\ s.token \in Tokens /\ s.key \in Keys
    BY TokensAreCounted DEF Made
<1>2. Signed(s.token)' /\ token'[s.token] = token[s.token]
    BY <1>1, SignedStays DEF Made
<1>3. s.count <= device'[s.key]
    BY <1>1 DEF Made, Grows
<1> QED
    BY <1>1, <1>2, <1>3 DEF Made

(* What a request brings along stays good, and so does what it has found.  *)
LEMMA RequestStays ==
    ASSUME Grows, device \in [Keys -> Nat], device' \in [Keys -> Nat],
           NEW step, NEW j \in Request, Brings(j), Found(step, j)
    PROVE  Brings(j)' /\ Found(step, j)'
<1>1. j.op \in {"register", "authenticate"} => Made(j.signature)'
    BY MadeStays DEF Brings
<1>2. j.op \in {"register", "authenticate", "remove"} => j.signature.key \in Keys
    BY DEF Brings, Made
<1>3. j.op = "callback" => Signed(j.state)'
    BY SignedStays DEF Brings
<1>4. j.cookie # 0 => Signed(j.cookie)'
    <2>1. j.cookie # 0 => j.cookie \in Tokens
        BY TokensAreCounted DEF Request, Tokens
    <2> QED
        BY <2>1, SignedStays DEF Brings
<1>5. step \in {"update", "issue", "delete"} => passkey'[j.signature.key].state # "none"
    BY <1>2 DEF Found, Grows
<1> QED
    BY <1>1, <1>3, <1>4, <1>5 DEF Brings, Found

(* A request moves on, and the others stay where they are. *)
LEMMA RequestsMove ==
    ASSUME RequestsTyped, Grows, device \in [Keys -> Nat], device' \in [Keys -> Nat],
           NEW r \in Requests,
           NEW step \in {"idle", "arrived", "update", "issue", "delete", "answer"},
           NEW j \in Request,
           pc' = [pc EXCEPT ![r] = step], job' = [job EXCEPT ![r] = j],
           Brings(j)', Found(step, j)'
    PROVE  RequestsTyped'
<1>1. pc' \in [Requests -> {"idle", "arrived", "update", "issue", "delete", "answer"}]
      /\ job' \in [Requests -> Request]
    BY DEF RequestsTyped
<1>2. ASSUME NEW q \in Requests
      PROVE  Brings(job[q])' /\ Found(pc[q], job[q])'
    <2>1. CASE q = r
        <3>1. job'[q] = j /\ pc'[q] = step
            BY <2>1 DEF RequestsTyped
        <3> QED
            BY <3>1 DEF Brings, Found, Made, Signed
    <2>2. CASE q # r
        <3>1. PICK i, at : /\ i \in Request /\ i = job[q] /\ i = job'[q]
                           /\ at = pc[q] /\ at = pc'[q]
            BY <2>2 DEF RequestsTyped
        <3>2. Brings(i) /\ Found(at, i)
            BY <3>1 DEF RequestsTyped
        <3>3. Brings(i)' /\ Found(at, i)'
            BY <3>1, <3>2, RequestStays
        <3> QED
            BY <3>1, <3>3 DEF Brings, Found, Made, Signed
    <2> QED
        BY <2>1, <2>2
<1> QED
    BY <1>1, <1>2 DEF RequestsTyped

(* A step that no request takes leaves them good.                          *)
LEMMA RequestsStay ==
    ASSUME RequestsTyped, Grows, device \in [Keys -> Nat], device' \in [Keys -> Nat],
           UNCHANGED <<pc, job>>
    PROVE  RequestsTyped'
<1>1. ASSUME NEW q \in Requests
      PROVE  Brings(job[q])' /\ Found(pc[q], job[q])'
    <2>1. job[q] \in Request /\ Brings(job[q]) /\ Found(pc[q], job[q])
        BY DEF RequestsTyped
    <2> QED
        BY <2>1, RequestStays
<1> QED
    BY <1>1 DEF RequestsTyped

(* An answered or refused request is nobody's any more.                    *)
LEMMA RequestsEnd ==
    ASSUME RequestsTyped, Grows, device \in [Keys -> Nat], device' \in [Keys -> Nat],
           NEW r \in Requests, Finish(r)
    PROVE  RequestsTyped'
<1>1. Brings(NoJob)' /\ Found("idle", NoJob)'
    BY DEF Brings, Found, NoJob, Job
<1> QED
    BY <1>1, RequestsMove, NothingTyped DEF Finish, Goto

(* The history stays typed as long as nothing is written to it.            *)
LEMMA HistoryStays ==
    ASSUME HistoryTyped, Grows, device \in [Keys -> Nat], device' \in [Keys -> Nat],
           UNCHANGED <<opened, reopened>>, overlapped' \subseteq Tokens \cup Keys
    PROVE  HistoryTyped'
<1>1. ASSUME NEW s \in opened \cup reopened
      PROVE  Made(s)' /\ passkey'[s.key].state # "none"
    <2>1. Made(s) /\ passkey[s.key].state # "none"
        BY DEF HistoryTyped
    <2>2. s.key \in Keys
        BY <2>1 DEF Made
    <2> QED
        BY <2>1, <2>2, MadeStays DEF Grows
<1> QED
    BY <1>1 DEF HistoryTyped

(* Meetings stay noted when no request turns to something else.            *)
LEMMA MeetingsStay ==
    ASSUME MeetingsNoted, \A q \in Requests : About(job'[q]) \subseteq About(job[q]),
           overlapped \subseteq overlapped'
    PROVE  MeetingsNoted'
<1>1. ASSUME NEW q \in Requests, NEW r \in Requests, q # r
      PROVE  About(job'[q]) \cap About(job'[r]) \subseteq overlapped'
    <2>1. About(job[q]) \cap About(job[r]) \subseteq overlapped
        BY <1>1 DEF MeetingsNoted
    <2>2. About(job'[q]) \subseteq About(job[q]) /\ About(job'[r]) \subseteq About(job[r])
        OBVIOUS
    <2> QED
        BY <2>1, <2>2
<1>2. \A j : About(j)' = About(j)
    BY DEF About, Tokens
<1> QED
    BY <1>1, <1>2 DEF MeetingsNoted

(* The counters stay passed when no session is opened, and no counter is   *)
(* written but a new key's.                                                *)
LEMMA CountersStay ==
    ASSUME CounterPassed, UNCHANGED opened, overlapped \subseteq overlapped',
           HistoryTyped, RequestsTyped,
           \A k \in Keys : passkey[k].state # "none" => passkey'[k].counter = passkey[k].counter,
           \A q \in Requests : pc'[q] \in {"update", "issue"} =>
                                   pc'[q] = pc[q] /\ job'[q] = job[q]
    PROVE  CounterPassed'
<1>1. ASSUME NEW s \in opened, s.key \in counted \ overlapped'
      PROVE  s.count <= passkey'[s.key].counter
    <2>1. s.key \in Keys /\ passkey[s.key].state # "none"
        BY DEF HistoryTyped, Made
    <2>2. s.count <= passkey[s.key].counter
        BY <1>1 DEF CounterPassed
    <2> QED
        BY <2>1, <2>2
<1>2. ASSUME NEW q \in Requests, pc'[q] \in {"update", "issue"}
      PROVE  /\ pc'[q] = "update" /\ job'[q].signature.key \notin overlapped' =>
                    job'[q].counter = passkey'[job'[q].signature.key].counter
             /\ pc'[q] = "issue" /\ job'[q].signature.key \in counted \ overlapped' =>
                    /\ job'[q].signature \notin opened
                    /\ job'[q].signature.count = passkey'[job'[q].signature.key].counter
    <2>1. pc'[q] = pc[q] /\ job'[q] = job[q]
        BY <1>2
    <2>2. Brings(job[q]) /\ Found(pc[q], job[q])
        BY DEF RequestsTyped
    <2>3. job[q].signature.key \in Keys /\ passkey[job[q].signature.key].state # "none"
        BY <1>2, <2>1, <2>2 DEF Brings, Found, Made
    <2>4. /\ pc[q] = "update" /\ job[q].signature.key \notin overlapped =>
                    job[q].counter = passkey[job[q].signature.key].counter
          /\ pc[q] = "issue" /\ job[q].signature.key \in counted \ overlapped =>
                    /\ job[q].signature \notin opened
                    /\ job[q].signature.count = passkey[job[q].signature.key].counter
        BY DEF CounterPassed
    <2> QED
        BY <2>1, <2>3, <2>4
<1> QED
    BY <1>1, <1>2 DEF CounterPassed

(* States stay spent when no callback is accepted, the cookie takes no     *)
(* state that was signed before, and the answer to a callback clears the   *)
(* cookie or is noted.                                                     *)
LEMMA StatesStay ==
    ASSUME StatesSpent, TokensTyped, Grows, UNCHANGED accepted, overlapped \subseteq overlapped',
           \A n \in Tokens : token'[n] # token[n] \/ cookie'["oauth"] # n \/ cookie["oauth"] = n,
           \A q \in Requests : \/ pc'[q] = pc[q] /\ job'[q] = job[q]
                               \/ /\ pc'[q] # "arrived"
                                  /\ pc[q] = "answer" /\ job[q].op = "callback" =>
                                        \/ job[q].state \in overlapped'
                                        \/ cookie'["oauth"] # job[q].state
    PROVE  StatesSpent'
<1> SUFFICES ASSUME NEW n \in Tokens, Signed(n)', ~token'[n].post, n \notin overlapped'
             PROVE  StateSpent(n)'
    BY DEF StatesSpent
<1>1. CASE ~Signed(n)
    <2>1. accepted[n] = 0
        BY <1>1 DEF TokensTyped
    <2> QED
        BY <2>1 DEF StateSpent
<1>2. CASE Signed(n)
    <2>1. token'[n] = token[n]
        BY <1>2, SignedStays
    <2>2. StateSpent(n)
        BY <1>2, <2>1 DEF StatesSpent
    <2>3. Clearing(n) => Clearing(n)' \/ cookie'["oauth"] # n
        <3> SUFFICES ASSUME NEW q \in Requests, pc[q] = "answer", job[q].op = "callback",
                            job[q].state = n, cookie'["oauth"] = n
                     PROVE  Clearing(n)'
            BY DEF Clearing
        <3>1. pc'[q] = pc[q] /\ job'[q] = job[q]
            OBVIOUS
        <3> QED
            BY <3>1 DEF Clearing
    <2>4. accepted'[n] = 1 => cookie'["oauth"] # n \/ Clearing(n)'
        BY <2>1, <2>2, <2>3 DEF StateSpent
    <2>5. ASSUME NEW q \in Requests, pc'[q] = "arrived", job'[q].state = n, job'[q].cookie = n
          PROVE  accepted'[n] = 0
        <3>1. pc'[q] = pc[q] /\ job'[q] = job[q]
            BY <2>5
        <3> QED
            BY <2>2, <2>5, <3>1 DEF StateSpent
    <2> QED
        BY <2>2, <2>4, <2>5 DEF StateSpent
<1> QED
    BY <1>1, <1>2

-------------------------------------------------------------------------------
(* A step of the browser alone leaves the requests and the history as they *)
(* are.                                                                    *)
LEMMA BrowserStep ==
    ASSUME CeremoniesKept, Grows, device' \in [Keys -> Nat],
           UNCHANGED <<passkey, pc, job, begun, past>>,
           \A n \in Tokens : token'[n] # token[n] \/ cookie'["oauth"] # n \/ cookie["oauth"] = n,
           TokensTyped', CookiesTyped', TabsTyped', KeysTyped', SignaturesBounded'
    PROVE  CeremoniesKept'
<1>1. device \in [Keys -> Nat] /\ RequestsTyped /\ HistoryTyped /\ TokensTyped
      /\ MeetingsNoted /\ CounterPassed /\ StatesSpent
      /\ SignatureOpensOneSessionUnlessOverlapped
    BY DEF CeremoniesKept, CeremoniesTyped, KeysTyped
<1>2. UNCHANGED <<opened, reopened, accepted, overlapped>>
    BY DEF past
<1>3. RequestsTyped'
    BY <1>1, RequestsStay
<1>4. HistoryTyped'
    BY <1>1, <1>2, HistoryStays DEF HistoryTyped
<1>5. MeetingsNoted'
    BY <1>1, <1>2, MeetingsStay
<1>6. CounterPassed'
    BY <1>1, <1>2, CountersStay
<1>7. StatesSpent'
    BY <1>1, <1>2, StatesStay
<1>8. SignatureOpensOneSessionUnlessOverlapped'
    BY <1>1, <1>2 DEF SignatureOpensOneSessionUnlessOverlapped
<1> QED
    BY <1>3, <1>4, <1>5, <1>6, <1>7, <1>8 DEF CeremoniesKept, CeremoniesTyped

(* The set of tokens that wait for no signature any more only grows, and   *)
(* the counters of the authenticators with it.                             *)
LEMMA PastIsCounted ==
    /\ IsFiniteSet(Past) /\ Cardinality(Past) \in Nat /\ Cardinality(Past) <= MaxTokens
<1>1. Past \subseteq Tokens
    BY DEF Past
<1> QED
    BY <1>1, TokensAreCounted, FS_Subset, FS_CardinalityType

(* No authenticator signs, and no ceremony waits for more. *)
LEMMA BoundStays ==
    ASSUME SignaturesBounded, device \in [Keys -> Nat], UNCHANGED device, Past \subseteq Past'
    PROVE  SignaturesBounded'
<1>1. IsFiniteSet(Past') /\ Cardinality(Past') \in Nat
    <2>1. Past' \subseteq Tokens
        BY DEF Past, Tokens
    <2> QED
        BY <2>1, TokensAreCounted, FS_Subset, FS_CardinalityType
<1>2. Cardinality(Past) \in Nat /\ Cardinality(Past) <= Cardinality(Past')
    BY <1>1, PastIsCounted, FS_Subset
<1> QED
    BY <1>1, <1>2 DEF SignaturesBounded

(* A ceremony begins in a tab.                                             *)
LEMMA BeginKeeps ==
    ASSUME CeremoniesKept, NEW t \in Tabs, NEW n \in Tokens, NEW purpose \in Purposes,
           NEW user \in Users \cup {Nobody}, purpose \in {"register", "link"} => user # Nobody,
           NEW post \in BOOLEAN, Begin(t, n, purpose, user, post)
    PROVE  CeremoniesKept'
<1> DEFINE c == IF purpose \in WebAuthn THEN "webauthn" ELSE "oauth"
           signed == [purpose |-> purpose, user |-> user, post |-> post]
<1>1. /\ ~Signed(n)
      /\ token' = [token EXCEPT ![n] = signed]
      /\ cookie' = [cookie EXCEPT ![c] = n]
      /\ tab' = [tab EXCEPT ![t].ceremony = n, ![t].signature = NoSignature]
      /\ UNCHANGED <<passkey, device, pc, job, begun, past>>
    BY DEF Begin
<1>2. TokensTyped /\ CookiesTyped /\ TabsTyped /\ KeysTyped /\ SignaturesBounded
    BY DEF CeremoniesKept, CeremoniesTyped
<1>3. signed \in SignedToken /\ signed.purpose = purpose /\ signed.user = user
      /\ purpose # "none"
    BY DEF SignedToken, Purposes
<1>4. /\ token'[n] = signed /\ Signed(n)'
      /\ \A m \in Tokens : m # n => token'[m] = token[m] /\ (Signed(m)' <=> Signed(m))
    BY <1>1, <1>2, <1>3 DEF TokensTyped, Signed
<1>5. Grows
    BY <1>1, <1>2, <1>4 DEF Grows, KeysTyped
<1>6. UNCHANGED accepted
    BY <1>1 DEF past
<1>7. TokensTyped'
    <2>1. token' \in [Tokens -> SignedToken]
        BY <1>1, <1>2, <1>3 DEF TokensTyped
    <2>2. \A m \in Tokens : token'[m].purpose \in {"register", "link"} => token'[m].user # Nobody
        BY <1>2, <1>3, <1>4 DEF TokensTyped
    <2>3. \A m \in Tokens : accepted'[m] > 0 => Signed(m)'
        BY <1>2, <1>4, <1>6 DEF TokensTyped
    <2> QED
        BY <1>1, <1>2, <1>6, <2>1, <2>2, <2>3 DEF TokensTyped, Tokens
<1>8. CookiesTyped'
    <2>1. n \in 0 .. MaxTokens /\ c \in {"webauthn", "oauth"}
        BY TokensAreCounted
    <2>2. cookie' \in [{"webauthn", "oauth"} -> 0 .. MaxTokens]
        BY <1>1, <1>2, <2>1 DEF CookiesTyped
    <2>3. ASSUME NEW d \in {"webauthn", "oauth"}, cookie'[d] # 0
          PROVE  Signed(cookie[d])' /\ (token'[cookie'[d]].purpose \in WebAuthn <=> d = "webauthn")
        <3>1. CASE d = c
            <4>1. cookie'[d] = n
                BY <1>1, <1>2, <3>1 DEF CookiesTyped
            <4> QED
                BY <1>3, <1>4, <3>1, <4>1 DEF Signed
        <3>2. CASE d # c
            <4>1. cookie'[d] = cookie[d] /\ cookie[d] \in Tokens
                BY <1>1, <1>2, <2>3, <3>2, TokensAreCounted DEF CookiesTyped, Tokens
            <4>2. Signed(cookie[d]) /\ (token[cookie[d]].purpose \in WebAuthn <=> d = "webauthn")
                BY <1>2, <2>3, <4>1 DEF CookiesTyped
            <4>3. token'[cookie[d]] = token[cookie[d]]
                BY <1>5, <4>1, <4>2 DEF Grows
            <4> QED
                BY <4>1, <4>2, <4>3 DEF Signed
        <3> QED
            BY <3>1, <3>2
    <2> QED
        BY <2>2, <2>3 DEF CookiesTyped
<1>9. tab' \in [Tabs -> Tab]
      /\ tab'[t].ceremony = n /\ tab'[t].signature = NoSignature
      /\ \A u \in Tabs : u # t => tab'[u] = tab[u]
    <2>1. n \in 0 .. MaxTokens /\ NoSignature \in Signatures
        BY TokensAreCounted, NothingTyped
    <2>2. tab[t] \in Tab
        BY <1>2 DEF TabsTyped
    <2> DEFINE turned == [user |-> tab[t].user, ceremony |-> n, signature |-> NoSignature]
    <2>3. tab' = [tab EXCEPT ![t] = turned]
        <3>1. DOMAIN tab = Tabs /\ DOMAIN tab' = Tabs
            BY <1>1, <1>2 DEF TabsTyped
        <3>2. tab'[t] = [[tab[t] EXCEPT !.ceremony = n] EXCEPT !.signature = NoSignature]
            BY <1>1, <3>1
        <3>3. tab'[t] = turned
            BY <2>2, <3>2 DEF Tab
        <3> QED
            BY <1>1, <1>2, <3>1, <3>3 DEF TabsTyped
    <2>4. turned \in Tab
        BY <2>1, <2>2 DEF Tab
    <2> QED
        BY <1>2, <2>3, <2>4 DEF TabsTyped
<1>10. TabsTyped'
    <2>1. ASSUME NEW u \in Tabs
          PROVE  /\ tab'[u].ceremony # 0 => Signed(tab[u].ceremony)'
                 /\ tab'[u].signature # NoSignature =>
                        Made(tab[u].signature)' /\ tab'[u].signature.token = tab'[u].ceremony
        <3>1. CASE u = t
            BY <1>4, <1>9, <3>1 DEF Signed
        <3>2. CASE u # t
            <4>1. PICK v \in Tab : v = tab[u] /\ v = tab'[u]
                BY <1>2, <1>9, <3>2 DEF TabsTyped
            <4>2. v.ceremony # 0 => v.ceremony \in Tokens /\ Signed(v.ceremony)
                <5>1. v.ceremony \in 0 .. MaxTokens
                    BY DEF Tab
                <5>2. v.ceremony # 0 => v.ceremony \in Tokens
                    BY <5>1, TokensAreCounted DEF Tokens
                <5>3. v.ceremony # 0 => Signed(v.ceremony)
                    BY <1>2, <4>1 DEF TabsTyped
                <5> QED
                    BY <5>2, <5>3
            <4>3. v.ceremony # 0 => Signed(v.ceremony)'
                BY <1>5, <4>2, SignedStays
            <4>4. v.signature # NoSignature =>
                      Made(v.signature) /\ v.signature.token = v.ceremony
                BY <1>2, <4>1 DEF TabsTyped
            <4>5. v.signature # NoSignature => Made(v.signature)'
                BY <1>1, <1>2, <1>5, <4>4, MadeStays DEF KeysTyped
            <4> QED
                BY <4>1, <4>3, <4>4, <4>5 DEF Made, Signed
        <3> QED
            BY <3>1, <3>2
    <2>2. ASSUME NEW u \in Tabs, NEW v \in Tabs, u # v, tab'[u].ceremony = tab'[v].ceremony
          PROVE  tab'[u].ceremony = 0
        <3>1. \A w \in Tabs : w # t => tab'[w].ceremony # n
            <4>1. \A w \in Tabs : tab[w].ceremony # 0 => Signed(tab[w].ceremony)
                BY <1>2 DEF TabsTyped
            <4> QED
                BY <1>1, <1>9, <4>1, TokensAreCounted DEF Tokens
        <3>2. u # t /\ v # t
            BY <1>9, <2>2, <3>1
        <3> QED
            BY <1>2, <1>9, <2>2, <3>2 DEF TabsTyped
    <2> QED
        BY <1>9, <2>1, <2>2 DEF TabsTyped
<1>11. KeysTyped'
    <2>1. ASSUME NEW k \in Keys, passkey[k].token # 0
          PROVE  Signed(passkey[k].token)' /\ passkey[k].owner = token'[passkey[k].token].user
        <3>1. PICK m : m = passkey[k].token
            OBVIOUS
        <3>2. m \in Tokens /\ Signed(m) /\ passkey[k].owner = token[m].user
            BY <1>2, <2>1, <3>1, TokensAreCounted DEF KeysTyped, Passkey, Tokens
        <3>3. Signed(m)' /\ token'[m] = token[m]
            BY <1>5, <3>2, SignedStays
        <3> QED
            BY <1>1, <3>1, <3>2, <3>3 DEF Signed
    <2> QED
        BY <1>1, <1>2, <2>1 DEF KeysTyped, Signed
<1>12. SignaturesBounded'
    <2>1. ASSUME NEW m \in Past
          PROVE  m \in Past'
        <3>1. m \in Tokens /\ Signed(m) /\ m # n /\ ~Waiting(m)
            BY <1>1 DEF Past
        <3>2. Signed(m)'
            BY <1>4, <3>1
        <3>3. ~Waiting(m)'
            BY <1>9, <3>1 DEF Waiting
        <3> QED
            BY <3>1, <3>2, <3>3 DEF Past, Tokens
    <2> QED
        BY <1>1, <1>2, <2>1, BoundStays DEF KeysTyped
<1>13. \A m \in Tokens : token'[m] # token[m] \/ cookie'["oauth"] # m \/ cookie["oauth"] = m
    <2>1. token'[n] # token[n]
        BY <1>1, <1>3, <1>4 DEF Signed
    <2>2. cookie'["oauth"] \in {n, cookie["oauth"]}
        BY <1>1, <1>2 DEF CookiesTyped
    <2> QED
        BY <2>1, <2>2
<1> QED
    BY <1>1, <1>2, <1>5, <1>7, <1>8, <1>10, <1>11, <1>12, <1>13, BrowserStep DEF KeysTyped

(* The four ways to begin a ceremony. *)
LEMMA StartsKeep ==
    ASSUME CeremoniesKept, NEW t \in Tabs, NEW n \in Tokens, Starts(t, n)
    PROVE  CeremoniesKept'
<1>1. tab[t].user \in Users \cup {Nobody}
    BY DEF CeremoniesKept, CeremoniesTyped, TabsTyped, Tab
<1>2. {"register", "authenticate", "login", "link"} = Purposes
    BY DEF Purposes
<1>3. CASE registrationOptions(t, n)
    BY <1>1, <1>2, <1>3, BeginKeeps DEF registrationOptions
<1>4. CASE authenticationOptions(t, n)
    BY <1>2, <1>4, BeginKeeps DEF authenticationOptions
<1>5. CASE getLoginUrl(t, n)
    BY <1>2, <1>5, BeginKeeps DEF getLoginUrl
<1>6. CASE getLinkUrl(t, n)
    BY <1>1, <1>2, <1>6, BeginKeeps DEF getLinkUrl
<1> QED
    BY <1>3, <1>4, <1>5, <1>6 DEF Starts

(* A step in which the tabs keep their ceremonies and what was signed for  *)
(* them: only who is signed in changes.                                    *)
LEMMA TabsStay ==
    ASSUME TabsTyped, UNCHANGED <<token, device>>, tab' \in [Tabs -> Tab],
           \A t \in Tabs : /\ tab'[t].ceremony = tab[t].ceremony
                           /\ tab'[t].signature = tab[t].signature
    PROVE  TabsTyped' /\ Past' = Past
<1>1. TabsTyped'
    <2>1. ASSUME NEW t \in Tabs
          PROVE  /\ tab'[t].ceremony # 0 => Signed(tab[t].ceremony)'
                 /\ tab'[t].signature # NoSignature =>
                        Made(tab[t].signature)' /\ tab'[t].signature.token = tab'[t].ceremony
        BY DEF TabsTyped, Made, Signed
    <2>2. \A t, u \in Tabs : t # u /\ tab'[t].ceremony = tab'[u].ceremony => tab'[t].ceremony = 0
        BY DEF TabsTyped
    <2> QED
        BY <2>1, <2>2 DEF TabsTyped
<1>2. Past' = Past
    BY DEF Past, Waiting, Signed, Tokens
<1> QED
    BY <1>1, <1>2

(* Somebody signs in to a tab, or its user signs out.                      *)
LEMMA UserTyped ==
    ASSUME TabsTyped, NEW t \in Tabs, NEW u \in Users \cup {Nobody},
           tab' = [tab EXCEPT ![t].user = u]
    PROVE  /\ tab' \in [Tabs -> Tab]
           /\ \A v \in Tabs : /\ tab'[v].ceremony = tab[v].ceremony
                              /\ tab'[v].signature = tab[v].signature
<1>1. tab \in [Tabs -> Tab] /\ tab[t] \in Tab
    BY DEF TabsTyped
<1>2. [tab[t] EXCEPT !.user = u] \in Tab
      /\ [tab[t] EXCEPT !.user = u].ceremony = tab[t].ceremony
      /\ [tab[t] EXCEPT !.user = u].signature = tab[t].signature
    BY <1>1 DEF Tab
<1>3. tab' = [tab EXCEPT ![t] = [tab[t] EXCEPT !.user = u]]
    BY <1>1
<1> QED
    BY <1>1, <1>2, <1>3

(* Tokens and cookies stay good while no token is signed and no cookie set.*)
LEMMA CookiesStay ==
    ASSUME CookiesTyped, UNCHANGED token,
           cookie' \in [{"webauthn", "oauth"} -> 0 .. MaxTokens],
           \A c \in {"webauthn", "oauth"} : cookie'[c] \in {0, cookie[c]}
    PROVE  CookiesTyped'
<1>1. ASSUME NEW c \in {"webauthn", "oauth"}, cookie'[c] # 0
      PROVE  Signed(cookie[c])' /\ (token'[cookie'[c]].purpose \in WebAuthn <=> c = "webauthn")
    BY <1>1 DEF CookiesTyped, Signed
<1> QED
    BY <1>1 DEF CookiesTyped

(* Who is signed in to a tab changes nothing of its ceremony. *)
LEMMA SwitchUserKeeps ==
    ASSUME CeremoniesKept, NEW t \in Tabs, SwitchUser(t)
    PROVE  CeremoniesKept'
<1>1. PICK u \in Users \cup {Nobody} : tab' = [tab EXCEPT ![t].user = u]
    BY DEF SwitchUser
<1>2. UNCHANGED <<token, passkey, cookie, device, pc, job, begun, past>>
    BY DEF SwitchUser, server
<1>3. TokensTyped /\ CookiesTyped /\ TabsTyped /\ KeysTyped /\ SignaturesBounded
    BY DEF CeremoniesKept, CeremoniesTyped
<1>4. Grows
    BY <1>2, <1>3 DEF Grows, KeysTyped
<1>5. TokensTyped'
    BY <1>2, <1>3 DEF TokensTyped, Signed, Tokens, past
<1>6. CookiesTyped'
    BY <1>2, <1>3, CookiesStay DEF CookiesTyped
<1>7. TabsTyped' /\ Past' = Past
    BY <1>1, <1>2, <1>3, UserTyped, TabsStay
<1>8. KeysTyped'
    BY <1>2, <1>3 DEF KeysTyped, Signed
<1>9. SignaturesBounded'
    BY <1>2, <1>3, <1>7 DEF SignaturesBounded
<1> QED
    BY <1>2, <1>3, <1>4, <1>5, <1>6, <1>7, <1>8, <1>9, BrowserStep DEF KeysTyped

(* An authenticator signs for a ceremony that waited for it.               *)
LEMMA SignKeeps ==
    ASSUME CeremoniesKept, NEW t \in Tabs, NEW k \in Keys, Sign(t, k)
    PROVE  CeremoniesKept'
<1>1. TokensTyped /\ CookiesTyped /\ TabsTyped /\ KeysTyped /\ SignaturesBounded
    BY DEF CeremoniesKept, CeremoniesTyped
<1>2. PICK n \in Tokens : n = tab[t].ceremony /\ tab[t] \in Tab /\ Signed(n)
    <2>1. tab[t] \in Tab /\ tab[t].ceremony \in 0 .. MaxTokens /\ tab[t].ceremony # 0
        BY <1>1 DEF TabsTyped, Tab, Sign
    <2> QED
        BY <1>1, <2>1, TokensAreCounted DEF TabsTyped, Tokens
<1>3. PICK c : c = device'[k]
    OBVIOUS
<1> DEFINE made == [token |-> n, key |-> k, count |-> c]
<1>4. /\ n # 0 /\ tab[t].signature = NoSignature
      /\ token[n].purpose \in WebAuthn
      /\ device' = IF k \in counted THEN [device EXCEPT ![k] = @ + 1] ELSE device
      /\ tab' = [tab EXCEPT ![t].signature = made]
      /\ UNCHANGED <<token, passkey, cookie, pc, job, begun, past>>
    BY <1>3, <1>2 DEF Sign, server, WebAuthn
<1>5. /\ device' \in [Keys -> Nat]
      /\ \A l \in Keys : device[l] <= device'[l] /\ device'[l] <= device[l] + 1
      /\ \A l \in Keys : l \notin counted => device'[l] = 0
      /\ k \in counted => device'[k] > 0
    BY <1>4, <1>1 DEF KeysTyped
<1>6. Grows
    BY <1>4, <1>5 DEF Grows
<1>7. TokensTyped'
    BY <1>4, <1>1 DEF TokensTyped, Signed, Tokens, past
<1>8. CookiesTyped'
    BY <1>4, <1>1, CookiesStay DEF CookiesTyped
<1>9. KeysTyped'
    <2>1. \A l \in Keys : passkey[l].counter \in Nat
        BY <1>1, TokensAreCounted DEF KeysTyped, Passkey
    <2>2. \A l \in Keys : passkey[l].counter <= device'[l]
        BY <1>1, <1>5, <2>1 DEF KeysTyped
    <2> QED
        BY <1>4, <1>1, <1>5, <2>2 DEF KeysTyped, Signed
<1>10. /\ tab'[t].signature = made /\ tab'[t].ceremony = n /\ tab'[t].user = tab[t].user
      /\ \A u \in Tabs : u # t => tab'[u] = tab[u]
      /\ tab' = [tab EXCEPT ![t] = [tab[t] EXCEPT !.signature = made]]
    BY <1>4, <1>1, <1>2 DEF TabsTyped, Tab
<1>11. made # NoSignature
    BY <1>4 DEF NoSignature
<1>12. SignaturesBounded' /\ Cardinality(Past') <= MaxTokens /\ Cardinality(Past') \in Nat
    <2>1. ~(n \in Past) /\ n \in Past' /\ Past \subseteq Past' /\ Past' \subseteq Past \cup {n}
        <3>1. n \notin Past
            BY <1>4, <1>2 DEF Past, Waiting
        <3>2. \A m \in Tokens : Signed(m)' <=> Signed(m)
            BY <1>4 DEF Signed
        <3>3. ~Waiting(n)'
            <4>1. ASSUME NEW u \in Tabs, tab'[u].ceremony = n, tab'[u].signature = NoSignature
                  PROVE  FALSE
                <5>1. u # t
                    BY <1>10, <1>11, <4>1
                <5>2. tab[u].ceremony = n
                    BY <1>10, <4>1, <5>1
                <5> QED
                    BY <1>4, <1>1, <1>2, <5>1, <5>2 DEF TabsTyped
            <4> QED
                BY <1>10, <4>1 DEF Waiting
        <3>4. \A m \in Tokens : m # n => (Waiting(m)' <=> Waiting(m))
            <4>1. ASSUME NEW m \in Tokens, m # n, NEW u \in Tabs
                  PROVE  (tab'[u].ceremony = m /\ tab'[u].signature = NoSignature)
                         <=> (tab[u].ceremony = m /\ tab[u].signature = NoSignature)
                BY <1>2, <1>4, <1>10, <1>11, <4>1
            <4> QED
                BY <4>1 DEF Waiting
        <3> QED
            BY <1>2, <3>1, <3>2, <3>3, <3>4 DEF Past, Tokens
    <2>2. Past' = Past \cup {n}
        BY <2>1
    <2>3. IsFiniteSet(Past) /\ Cardinality(Past) \in Nat
        BY PastIsCounted
    <2>4. Cardinality(Past') = Cardinality(Past) + 1
        BY <2>1, <2>2, <2>3, FS_AddElement
    <2>5. Cardinality(Past') <= MaxTokens
        <3>1. Past' \subseteq Tokens
            BY DEF Past, Tokens
        <3> QED
            BY <3>1, TokensAreCounted, FS_Subset
    <2>6. ASSUME NEW l \in Keys
          PROVE  device'[l] <= Cardinality(Past')
        <3>1. device[l] <= Cardinality(Past) /\ device[l] \in Nat /\ device'[l] \in Nat
            BY <1>1, <1>5 DEF SignaturesBounded, KeysTyped
        <3>2. device'[l] <= device[l] + 1
            BY <1>5
        <3> QED
            BY <2>3, <2>4, <3>1, <3>2
    <2> QED
        BY <2>3, <2>4, <2>5, <2>6 DEF SignaturesBounded
<1>13. made \in [token : Tokens, key : Keys, count : Counts]
    <2>1. device'[k] \in Nat /\ device'[k] <= MaxTokens
        BY <1>5, <1>12, TokensAreCounted DEF SignaturesBounded
    <2>2. c \in Counts
        BY <1>3, <2>1, TokensAreCounted DEF Counts
    <2> QED
        BY <1>2, <2>2
<1>14. Made(made)'
    <2>1. made.token = n /\ made.key = k /\ made.count = device'[k] /\ device'[k] \in Nat
        BY <1>3, <1>5
    <2>2. Signed(n)' /\ token'[n].purpose \in WebAuthn
        BY <1>4, <1>2 DEF Signed
    <2>3. k \in counted <=> device'[k] > 0
        BY <1>5
    <2> QED
        BY <1>13, <2>1, <2>2, <2>3 DEF Made, Signed, Tokens, Counts
<1>15. TabsTyped'
    <2>1. tab' \in [Tabs -> Tab]
        <3>1. made \in Signatures
            BY <1>13 DEF Signatures
        <3>2. [tab[t] EXCEPT !.signature = made] \in Tab
            BY <1>2, <3>1 DEF Tab
        <3> QED
            BY <1>1, <1>4, <1>10, <3>2 DEF TabsTyped
    <2>2. ASSUME NEW u \in Tabs
          PROVE  /\ tab'[u].ceremony # 0 => Signed(tab[u].ceremony)'
                 /\ tab'[u].signature # NoSignature =>
                        Made(tab[u].signature)' /\ tab'[u].signature.token = tab'[u].ceremony
        <3>1. tab'[u].ceremony # 0 => Signed(tab[u].ceremony)'
            BY <1>4, <1>1, <1>10 DEF TabsTyped, Signed
        <3>2. CASE u = t
            BY <1>10, <1>14, <3>1, <3>2 DEF Made, Signed
        <3>3. CASE u # t
            <4>1. PICK s : s = tab[u].signature /\ s = tab'[u].signature
                BY <1>10, <3>3
            <4>2. s # NoSignature => Made(s) /\ s.token = tab[u].ceremony
                BY <1>1, <4>1 DEF TabsTyped
            <4>3. s # NoSignature => Made(s)'
                BY <1>1, <1>5, <1>6, <4>2, MadeStays DEF KeysTyped
            <4> QED
                BY <1>10, <3>1, <3>3, <4>1, <4>2, <4>3 DEF Made, Signed
        <3> QED
            BY <3>2, <3>3
    <2>3. \A u, v \in Tabs : u # v /\ tab'[u].ceremony = tab'[v].ceremony => tab'[u].ceremony = 0
        <3>1. \A u \in Tabs : tab'[u].ceremony = tab[u].ceremony
            BY <1>2, <1>10
        <3> QED
            BY <1>1, <3>1 DEF TabsTyped
    <2> QED
        BY <2>1, <2>2, <2>3 DEF TabsTyped
<1> QED
    BY <1>4, <1>5, <1>6, <1>7, <1>8, <1>9, <1>12, <1>15, BrowserStep

-------------------------------------------------------------------------------
(* What a request is about is a token or a key. *)
LEMMA AboutTyped == \A j : About(j) \subseteq Tokens \cup Keys
BY DEF About

(* A step of a request leaves what the browser and the tokens are like.    *)
LEMMA BrowserStays ==
    ASSUME CeremoniesTyped, UNCHANGED <<token, browser>>
    PROVE  CookiesTyped' /\ TabsTyped' /\ SignaturesBounded'
           /\ \A n \in Tokens : Signed(n)' <=> Signed(n)
<1>1. UNCHANGED <<token, cookie, tab, device>>
    BY DEF browser
<1>2. CookiesTyped /\ TabsTyped /\ SignaturesBounded
    BY DEF CeremoniesTyped
<1>3. CookiesTyped'
    BY <1>1, <1>2, CookiesStay DEF CookiesTyped
<1>4. TabsTyped' /\ Past' = Past
    BY <1>1, <1>2, TabsStay DEF TabsTyped
<1>5. SignaturesBounded'
    BY <1>1, <1>2, <1>4 DEF SignaturesBounded
<1> QED
    BY <1>1, <1>3, <1>4, <1>5 DEF Signed

(* A request leaves the browser, about whatever it is about: what meets    *)
(* another request is noted.                                               *)
LEMMA SendKeeps ==
    ASSUME CeremoniesKept, NEW r \in Requests, NEW j \in Request, Brings(j), j.op # "none",
           j.op = "callback" => j.cookie \in {0, cookie["oauth"]}, Send(r, j)
    PROVE  CeremoniesKept'
<1>1. /\ pc[r] = "idle" /\ begun < MaxRequests /\ begun' = begun + 1
      /\ pc' = [pc EXCEPT ![r] = "arrived"] /\ job' = [job EXCEPT ![r] = j]
      /\ overlapped' = overlapped \cup UNION {About(job[q]) \cap About(j) : q \in Requests}
      /\ UNCHANGED <<token, passkey, browser, opened, reopened, accepted>>
    BY DEF Send, server
<1>2. /\ TokensTyped /\ KeysTyped /\ RequestsTyped /\ HistoryTyped /\ CeremoniesTyped
      /\ MeetingsNoted /\ CounterPassed /\ StatesSpent
      /\ SignatureOpensOneSessionUnlessOverlapped
    BY DEF CeremoniesKept, CeremoniesTyped
<1>3. UNCHANGED <<cookie, tab, device>>
    BY <1>1 DEF browser
<1>4. Grows /\ device \in [Keys -> Nat]
    BY <1>1, <1>2, <1>3 DEF Grows, KeysTyped
<1>5. CookiesTyped' /\ TabsTyped' /\ SignaturesBounded'
      /\ \A n \in Tokens : Signed(n)' <=> Signed(n)
    BY <1>1, <1>2, BrowserStays
<1>6. TokensTyped'
    <2>1. begun' \in 0 .. MaxRequests
        BY <1>1, <1>2, TokensAreCounted DEF TokensTyped
    <2> QED
        BY <1>1, <1>2, <1>5, <2>1 DEF TokensTyped, Tokens
<1>7. KeysTyped'
    BY <1>1, <1>2, <1>3 DEF KeysTyped, Signed
<1>8. /\ pc'[r] = "arrived" /\ job'[r] = j
      /\ \A q \in Requests : q # r => pc'[q] = pc[q] /\ job'[q] = job[q]
    BY <1>1, <1>2 DEF RequestsTyped
<1>9. RequestsTyped'
    <2>1. Brings(j)'
        BY <1>1, <1>3 DEF Brings, Made, Signed
    <2>2. Found("arrived", j)'
        BY DEF Found, NoJob, Job
    <2> QED
        BY <1>1, <1>2, <1>3, <1>4, <2>1, <2>2, RequestsMove
<1>10. HistoryTyped'
    <2>1. overlapped' \subseteq Tokens \cup Keys
        BY <1>1, <1>2, AboutTyped DEF HistoryTyped
    <2> QED
        BY <1>1, <1>2, <1>3, <1>4, <2>1, HistoryStays
<1>11. overlapped \subseteq overlapped'
       /\ \A q \in Requests : About(job[q]) \cap About(j) \subseteq overlapped'
    BY <1>1
<1>12. MeetingsNoted'
    <2>1. ASSUME NEW p \in Requests, NEW q \in Requests, p # q
          PROVE  About(job'[p]) \cap About(job'[q]) \subseteq overlapped'
        <3>1. CASE p = r
            BY <1>8, <1>11, <2>1, <3>1
        <3>2. CASE q = r
            BY <1>8, <1>11, <2>1, <3>2
        <3>3. CASE p # r /\ q # r
            BY <1>2, <1>8, <1>11, <2>1, <3>3 DEF MeetingsNoted
        <3> QED
            BY <3>1, <3>2, <3>3
    <2>2. \A i : About(i)' = About(i)
        BY DEF About, Tokens
    <2> QED
        BY <2>1, <2>2 DEF MeetingsNoted
<1>13. CounterPassed'
    BY <1>1, <1>2, <1>8, <1>11, CountersStay
<1>14. StatesSpent'
    <2> SUFFICES ASSUME NEW n \in Tokens, Signed(n)', ~token'[n].post, n \notin overlapped'
                 PROVE  StateSpent(n)'
        BY DEF StatesSpent
    <2>1. StateSpent(n)
        BY <1>1, <1>2, <1>5, <1>11 DEF StatesSpent
    <2>2. Clearing(n) => Clearing(n)'
        BY <1>1, <1>8 DEF Clearing
    <2>3. ASSUME j.state = n, Clearing(n)
          PROVE  FALSE
        <3>1. PICK q \in Requests : job[q].state = n
            BY <2>3 DEF Clearing
        <3>2. n \in About(job[q]) \cap About(j)
            BY <2>3, <3>1 DEF About
        <3> QED
            BY <1>11, <3>2
    <2>4. ASSUME NEW q \in Requests, pc'[q] = "arrived", job'[q].state = n, job'[q].cookie = n
          PROVE  accepted[n] = 0
        <3>1. CASE q = r
            <4>1. j.state = n /\ j.cookie = n
                BY <1>8, <2>4, <3>1
            <4>2. n # 0 /\ j.op = "callback"
                BY <4>1, TokensAreCounted DEF Brings, Tokens
            <4>3. cookie["oauth"] = n
                BY <4>1, <4>2
            <4>4. accepted[n] # 1
                BY <2>1, <2>3, <4>1, <4>3 DEF StateSpent
            <4>5. accepted[n] \in Nat /\ accepted[n] <= 1
                BY <1>2, <2>1 DEF TokensTyped, StateSpent
            <4> QED
                BY <4>4, <4>5
        <3>2. CASE q # r
            BY <1>8, <2>1, <2>4, <3>2 DEF StateSpent
        <3> QED
            BY <3>1, <3>2
    <2> QED
        BY <1>1, <1>3, <2>1, <2>2, <2>4 DEF StateSpent
<1>15. SignatureOpensOneSessionUnlessOverlapped'
    BY <1>1, <1>2, <1>11 DEF SignatureOpensOneSessionUnlessOverlapped
<1> QED
    BY <1>5, <1>6, <1>7, <1>9, <1>10, <1>12, <1>13, <1>14, <1>15
    DEF CeremoniesKept, CeremoniesTyped

(* What the three kinds of request bring along.                            *)
LEMMA SendsKeep ==
    ASSUME CeremoniesKept, NEW r \in Requests, NEW t \in Tabs, Sends(r, t)
    PROVE  CeremoniesKept'
<1>1. CookiesTyped /\ TabsTyped /\ TokensTyped
    BY DEF CeremoniesKept, CeremoniesTyped
<1>2. PICK w \in 0 .. MaxTokens : w = cookie["webauthn"] /\ (w # 0 => Signed(w))
    BY <1>1 DEF CookiesTyped
<1>3. PICK o \in 0 .. MaxTokens : o = cookie["oauth"] /\ (o # 0 => Signed(o))
    BY <1>1 DEF CookiesTyped
<1>4. PICK u \in Users \cup {Nobody}, n \in 0 .. MaxTokens, s \in Signatures :
          /\ u = tab[t].user /\ n = tab[t].ceremony /\ s = tab[t].signature
          /\ n # 0 => n \in Tokens /\ Signed(n)
          /\ s # NoSignature => Made(s) /\ s.token = n
    <2>1. tab[t] \in Tab
        BY <1>1 DEF TabsTyped
    <2>2. tab[t].user \in Users \cup {Nobody} /\ tab[t].ceremony \in 0 .. MaxTokens
          /\ tab[t].signature \in Signatures
        BY <2>1 DEF Tab
    <2>3. tab[t].ceremony # 0 => tab[t].ceremony \in Tokens
        BY <2>2, TokensAreCounted DEF Tokens
    <2> QED
        BY <1>1, <2>2, <2>3 DEF TabsTyped
<1>5. 0 \in 0 .. MaxTokens /\ 0 \in Counts /\ 0 \notin Tokens
    BY TokensAreCounted DEF Tokens, Counts
<1>6. CASE SendSignature(r, t)
    <2>1. s # NoSignature /\ Made(s) /\ s.token = n
        BY <1>4, <1>6 DEF SendSignature
    <2>2. n \in Tokens /\ token[n].purpose \in WebAuthn
          /\ (token[n].purpose = "register" => u # Nobody)
        BY <1>4, <1>6, <2>1 DEF Made, SendSignature
    <2> DEFINE j == [op |-> token[n].purpose, tab |-> t, user |-> u, cookie |-> w,
                     state |-> 0, signature |-> s, counter |-> 0]
    <2>3. Send(r, j)
        BY <1>2, <1>4, <1>6 DEF SendSignature, NoJob, Job
    <2>4. j \in Request
        <3>1. s \in [token : 0 .. MaxTokens, key : Keys \cup {Nobody}, count : Counts]
            BY <2>1, TokensAreCounted DEF Made
        <3> QED
            BY <1>5, <2>2, <3>1 DEF Request, WebAuthn
    <2>5. Brings(j)
        BY <1>2, <2>1, <2>2 DEF Brings, WebAuthn
    <2>6. j.op # "none" /\ j.op # "callback"
        BY <2>2 DEF WebAuthn
    <2> QED
        BY <2>3, <2>4, <2>5, <2>6, SendKeeps
<1>7. CASE SendCallback(r, t)
    <2>1. n \in Tokens /\ Signed(n) /\ n \in 0 .. MaxTokens
        BY <1>4, <1>7 DEF SendCallback
    <2>2. PICK c \in {0, o} : c = IF token[n].post THEN 0 ELSE o
        BY <1>1, <2>1 DEF TokensTyped, SignedToken
    <2> DEFINE j == [op |-> "callback", tab |-> t, user |-> Nobody, cookie |-> c,
                     state |-> n, signature |-> NoSignature, counter |-> 0]
    <2>3. Send(r, j)
        BY <1>3, <1>4, <1>7, <2>2 DEF SendCallback, NoJob, Job
    <2>4. j \in Request
        BY <1>5, <2>1, <2>2, NothingTyped DEF Request
    <2>5. Brings(j)
        BY <1>3, <2>1, <2>2 DEF Brings
    <2> QED
        BY <1>3, <2>3, <2>4, <2>5, SendKeeps
<1>8. ASSUME NEW k \in Keys, SendRemoval(r, t, k)
      PROVE  CeremoniesKept'
    <2> DEFINE s0 == [token |-> 0, key |-> k, count |-> 0]
               j == [op |-> "remove", tab |-> t, user |-> u, cookie |-> 0,
                     state |-> 0, signature |-> s0, counter |-> 0]
    <2>1. Send(r, j)
        BY <1>4, <1>8 DEF SendRemoval, NoJob, Job, NoSignature
    <2>2. j \in Request
        BY <1>5 DEF Request
    <2>3. Brings(j)
        BY DEF Brings
    <2> QED
        BY <2>1, <2>2, <2>3, SendKeeps
<1> QED
    BY <1>6, <1>7, <1>8 DEF Sends

-------------------------------------------------------------------------------
(* A request moves on or ends, opens no session, and neither accepts a     *)
(* callback nor forgets one.                                               *)
LEMMA QuietStep ==
    ASSUME CeremoniesKept, NEW r \in Requests, Grows,
           UNCHANGED <<token, browser, begun, opened, reopened, accepted>>,
           overlapped \subseteq overlapped', overlapped' \subseteq Tokens \cup Keys,
           About(job'[r]) \subseteq About(job[r]), pc'[r] # "arrived",
           pc[r] = "answer" /\ job[r].op = "callback" => job[r].state \in overlapped',
           \A q \in Requests \ {r} : pc'[q] = pc[q] /\ job'[q] = job[q],
           KeysTyped', RequestsTyped', CounterPassed'
    PROVE  CeremoniesKept'
<1>1. /\ TokensTyped /\ KeysTyped /\ HistoryTyped /\ CeremoniesTyped
      /\ MeetingsNoted /\ StatesSpent /\ SignatureOpensOneSessionUnlessOverlapped
    BY DEF CeremoniesKept, CeremoniesTyped
<1>2. UNCHANGED <<cookie, device>> /\ device \in [Keys -> Nat]
    BY <1>1 DEF browser, KeysTyped
<1>3. CookiesTyped' /\ TabsTyped' /\ SignaturesBounded'
      /\ \A n \in Tokens : Signed(n)' <=> Signed(n)
    BY <1>1, BrowserStays
<1>4. TokensTyped'
    BY <1>1, <1>3 DEF TokensTyped, Tokens
<1>5. HistoryTyped'
    BY <1>1, <1>2, HistoryStays
<1>6. MeetingsNoted'
    BY <1>1, MeetingsStay
<1>7. StatesSpent'
    <2>1. \A q \in Requests : \/ pc'[q] = pc[q] /\ job'[q] = job[q]
                              \/ /\ pc'[q] # "arrived"
                                 /\ pc[q] = "answer" /\ job[q].op = "callback" =>
                                        \/ job[q].state \in overlapped'
                                        \/ cookie'["oauth"] # job[q].state
        OBVIOUS
    <2> QED
        BY <1>1, <1>2, <2>1, StatesStay
<1>8. SignatureOpensOneSessionUnlessOverlapped'
    BY <1>1 DEF SignatureOpensOneSessionUnlessOverlapped
<1> QED
    BY <1>3, <1>4, <1>5, <1>6, <1>7, <1>8 DEF CeremoniesKept, CeremoniesTyped

(* A request ends: refused, lost, or when the passkey has been deleted.    *)
LEMMA EndKeeps ==
    ASSUME CeremoniesKept, NEW r \in Requests, Grows, Finish(r),
           UNCHANGED <<token, browser, begun, opened, reopened, accepted>>,
           overlapped \subseteq overlapped', overlapped' \subseteq Tokens \cup Keys,
           pc[r] = "answer" /\ job[r].op = "callback" => job[r].state \in overlapped',
           KeysTyped', \A k \in Keys : passkey'[k].counter = passkey[k].counter
    PROVE  CeremoniesKept'
<1>1. RequestsTyped /\ KeysTyped /\ HistoryTyped /\ CounterPassed
    BY DEF CeremoniesKept, CeremoniesTyped
<1>2. /\ pc'[r] = "idle" /\ job'[r] = NoJob
      /\ \A q \in Requests \ {r} : pc'[q] = pc[q] /\ job'[q] = job[q]
    BY <1>1 DEF RequestsTyped, Finish, Goto
<1>3. device \in [Keys -> Nat] /\ device' \in [Keys -> Nat]
    BY <1>1 DEF KeysTyped
<1>4. RequestsTyped'
    BY <1>1, <1>3, RequestsEnd
<1>5. CounterPassed'
    BY <1>1, <1>2, CountersStay
<1>6. About(job'[r]) \subseteq About(job[r])
    BY <1>2, IdleIsAboutNothing
<1> QED
    BY <1>2, <1>4, <1>5, <1>6, QuietStep

(* A refused request has changed nothing. *)
LEMMA RefuseKeeps ==
    ASSUME CeremoniesKept, NEW r \in Requests, Refuse(r), UNCHANGED <<begun, overlapped>>,
           pc[r] # "answer"
    PROVE  CeremoniesKept'
<1>1. KeysTyped /\ HistoryTyped
    BY DEF CeremoniesKept, CeremoniesTyped
<1>2. UNCHANGED <<token, passkey, browser, device, opened, reopened, accepted>> /\ Finish(r)
    BY DEF Refuse, server, browser
<1>3. Grows
    BY <1>1, <1>2 DEF Grows, KeysTyped
<1>4. KeysTyped'
    BY <1>1, <1>2 DEF KeysTyped, Signed
<1> QED
    BY <1>1, <1>2, <1>3, <1>4, EndKeeps DEF HistoryTyped

(* A lost request has changed nothing, and a lost answer is noted. *)
LEMMA LostKeeps ==
    ASSUME CeremoniesKept, NEW r \in Requests, Lost(r)
    PROVE  CeremoniesKept'
<1>1. KeysTyped /\ HistoryTyped /\ RequestsTyped
    BY DEF CeremoniesKept, CeremoniesTyped
<1>2. /\ UNCHANGED <<token, passkey, browser, device, begun, opened, reopened, accepted>>
      /\ Finish(r)
      /\ overlapped' = overlapped \cup IF pc[r] = "answer" THEN Tokens \cap About(job[r]) ELSE {}
    BY DEF Lost, server, browser
<1>3. Grows
    BY <1>1, <1>2 DEF Grows, KeysTyped
<1>4. KeysTyped'
    BY <1>1, <1>2 DEF KeysTyped, Signed
<1>5. overlapped \subseteq overlapped' /\ overlapped' \subseteq Tokens \cup Keys
    BY <1>1, <1>2 DEF HistoryTyped
<1>6. pc[r] = "answer" /\ job[r].op = "callback" => job[r].state \in overlapped'
    <2>1. job[r].op = "callback" => job[r].state \in Tokens
        BY <1>1 DEF RequestsTyped, Brings
    <2>2. job[r].op = "callback" => job[r].state \in About(job[r])
        BY <2>1 DEF About
    <2> QED
        BY <1>2, <2>1, <2>2
<1> QED
    BY <1>2, <1>3, <1>4, <1>5, <1>6, EndKeeps

(* A key is registered for the user whom its token names.                  *)
LEMMA verifyRegistrationKeeps ==
    ASSUME CeremoniesKept, NEW r \in Requests, verifyRegistration(r)
    PROVE  CeremoniesKept'
<1>1. KeysTyped /\ HistoryTyped /\ RequestsTyped /\ CounterPassed
    BY DEF CeremoniesKept, CeremoniesTyped
<1>2. pc[r] = "arrived" /\ job[r].op = "register" /\ UNCHANGED <<begun, overlapped>>
    BY DEF verifyRegistration, At
<1>3. CASE Refuse(r)
    BY <1>2, <1>3, RefuseKeeps
<1>4. CASE ~Refuse(r)
    <2>1. PICK j : j = job[r]
        OBVIOUS
    <2>2. j \in Request /\ Brings(j) /\ j.op = "register"
        BY <1>1, <1>2, <2>1 DEF RequestsTyped
    <2> DEFINE k == j.signature.key
               new == [state |-> "active", owner |-> j.user, token |-> j.cookie,
                       counter |-> j.signature.count]
    <2>3. /\ RegistrationMet(j) /\ passkey[k].state = "none"
          /\ passkey' = [passkey EXCEPT ![k] = new]
          /\ pc' = [pc EXCEPT ![r] = "answer"]
          /\ UNCHANGED <<token, browser, device, job, opened, reopened, accepted>>
        BY <1>4, <2>1 DEF verifyRegistration, Goto, browser
    <2>4. k \in Keys /\ Made(j.signature)
        BY <2>2 DEF Brings, Made
    <2>5. /\ j.cookie \in 0 .. MaxTokens /\ j.cookie # 0 /\ Signed(j.cookie)
          /\ token[j.cookie].user = j.user /\ j.user \in Users \cup {Nobody}
        BY <2>2, <2>3 DEF RegistrationMet, ChallengeMet, Brings, Request
    <2>6. j.signature.count \in Counts /\ j.signature.count <= device[k]
        BY <2>4 DEF Made
    <2>7. new \in Passkey
        BY <2>5, <2>6 DEF Passkey
    <2>8. /\ passkey'[k] = new /\ passkey' \in [Keys -> Passkey]
          /\ \A l \in Keys : l # k => passkey'[l] = passkey[l]
        BY <1>1, <2>3, <2>4, <2>7 DEF KeysTyped
    <2>9. Grows
        BY <1>1, <2>3, <2>8 DEF Grows, KeysTyped
    <2>10. KeysTyped'
        <3>1. ASSUME NEW l \in Keys
              PROVE  /\ passkey'[l].counter <= device'[l]
                     /\ l \notin counted => device'[l] = 0
                     /\ passkey'[l].token # 0 =>
                           /\ Signed(passkey[l].token)'
                           /\ passkey'[l].owner = token'[passkey'[l].token].user
            <4>1. CASE l = k
                BY <1>1, <2>3, <2>5, <2>6, <2>8, <4>1 DEF KeysTyped, Signed
            <4>2. CASE l # k
                BY <1>1, <2>3, <2>8, <4>2 DEF KeysTyped, Signed
            <4> QED
                BY <4>1, <4>2
        <3> QED
            BY <1>1, <2>3, <2>8, <3>1 DEF KeysTyped, Signed
    <2>11. Brings(j)'
        BY <2>2, <2>3 DEF Brings, Made, Signed
    <2>12. job' = [job EXCEPT ![r] = j]
        BY <1>1, <2>1, <2>3 DEF RequestsTyped
    <2>13. RequestsTyped'
        <3>1. Found("answer", j)'
            BY <2>2 DEF Found, NoJob, Job
        <3> QED
            BY <1>1, <2>2, <2>3, <2>9, <2>10, <2>11, <2>12, <3>1, RequestsMove DEF KeysTyped
    <2>14. /\ pc'[r] = "answer"
           /\ \A q \in Requests \ {r} : pc'[q] = pc[q] /\ job'[q] = job[q]
        BY <1>1, <2>3 DEF RequestsTyped
    <2>15. CounterPassed'
        <3>1. \A l \in Keys : passkey[l].state # "none" =>
                                  passkey'[l].counter = passkey[l].counter
            BY <2>3, <2>8
        <3>2. \A q \in Requests : pc'[q] \in {"update", "issue"} =>
                                      pc'[q] = pc[q] /\ job'[q] = job[q]
            BY <2>3, <2>14
        <3> QED
            BY <1>1, <1>2, <2>3, <3>1, <3>2, CountersStay
    <2> QED
        BY <1>1, <1>2, <2>3, <2>9, <2>10, <2>13, <2>14, <2>15, QuietStep DEF HistoryTyped
<1> QED
    BY <1>3, <1>4

(* A removal finds the passkey, and deletes it.                            *)
LEMMA findPasskeyKeeps ==
    ASSUME CeremoniesKept, NEW r \in Requests, findPasskey(r)
    PROVE  CeremoniesKept'
<1>1. KeysTyped /\ HistoryTyped /\ RequestsTyped /\ CounterPassed
    BY DEF CeremoniesKept, CeremoniesTyped
<1>2. pc[r] = "arrived" /\ job[r].op = "remove" /\ UNCHANGED <<begun, overlapped>>
    BY DEF findPasskey, At
<1>3. CASE Refuse(r)
    BY <1>2, <1>3, RefuseKeeps
<1>4. CASE ~Refuse(r)
    <2>1. PICK j : j = job[r]
        OBVIOUS
    <2>2. j \in Request /\ Brings(j) /\ j.op = "remove"
        BY <1>1, <1>2, <2>1 DEF RequestsTyped
    <2>3. /\ passkey[j.signature.key].state = "active"
          /\ pc' = [pc EXCEPT ![r] = "delete"]
          /\ UNCHANGED <<token, passkey, browser, device, job, opened, reopened, accepted>>
        BY <1>4, <2>1 DEF findPasskey, Goto, browser, server
    <2>4. Grows
        BY <1>1, <2>3 DEF Grows, KeysTyped
    <2>5. KeysTyped'
        BY <1>1, <2>3 DEF KeysTyped, Signed
    <2>6. RequestsTyped'
        <3>1. Brings(j)'
            BY <2>2, <2>3 DEF Brings, Made, Signed
        <3>2. Found("delete", j)'
            BY <2>2, <2>3 DEF Found, NoJob, Job
        <3>3. job' = [job EXCEPT ![r] = j]
            BY <1>1, <2>1, <2>3 DEF RequestsTyped
        <3> QED
            BY <1>1, <2>2, <2>3, <2>4, <2>5, <3>1, <3>2, <3>3, RequestsMove DEF KeysTyped
    <2>7. /\ pc'[r] = "delete"
          /\ \A q \in Requests \ {r} : pc'[q] = pc[q] /\ job'[q] = job[q]
        BY <1>1, <2>3 DEF RequestsTyped
    <2>8. CounterPassed'
        BY <1>1, <1>2, <2>3, <2>7, CountersStay
    <2> QED
        BY <1>1, <1>2, <2>3, <2>4, <2>5, <2>6, <2>7, <2>8, QuietStep DEF HistoryTyped
<1> QED
    BY <1>3, <1>4

(* A deleted passkey keeps its counter, and its key is not free again. *)
LEMMA deletePasskeyKeeps ==
    ASSUME CeremoniesKept, NEW r \in Requests, deletePasskey(r)
    PROVE  CeremoniesKept'
<1>1. KeysTyped /\ HistoryTyped /\ RequestsTyped
    BY DEF CeremoniesKept, CeremoniesTyped
<1>2. /\ pc[r] = "delete" /\ job[r].op = "remove" /\ Finish(r)
      /\ UNCHANGED <<begun, overlapped, token, browser, device, opened, reopened, accepted>>
    BY DEF deletePasskey, At, browser
<1>3. PICK k \in Keys : k = job[r].signature.key
    BY <1>1, <1>2 DEF RequestsTyped, Brings
<1>4. passkey' = [passkey EXCEPT ![k].state = "deleted"]
    BY <1>3 DEF deletePasskey
<1>5. /\ passkey' \in [Keys -> Passkey] /\ passkey'[k].state = "deleted"
      /\ \A l \in Keys : /\ passkey'[l].counter = passkey[l].counter
                         /\ passkey'[l].token = passkey[l].token
                         /\ passkey'[l].owner = passkey[l].owner
                         /\ l # k => passkey'[l] = passkey[l]
    BY <1>1, <1>4 DEF KeysTyped, Passkey
<1>6. Grows
    BY <1>1, <1>2, <1>5 DEF Grows, KeysTyped
<1>7. KeysTyped'
    BY <1>1, <1>2, <1>5 DEF KeysTyped, Signed
<1> QED
    BY <1>1, <1>2, <1>5, <1>6, <1>7, EndKeeps DEF HistoryTyped

(* A request to sign in reads the passkey, with its counter.               *)
LEMMA readPasskeyKeeps ==
    ASSUME CeremoniesKept, NEW r \in Requests, readPasskey(r)
    PROVE  CeremoniesKept'
<1>1. KeysTyped /\ HistoryTyped /\ RequestsTyped /\ CounterPassed
    BY DEF CeremoniesKept, CeremoniesTyped
<1>2. pc[r] = "arrived" /\ job[r].op = "authenticate" /\ UNCHANGED <<begun, overlapped>>
    BY DEF readPasskey, At
<1>3. CASE Refuse(r)
    BY <1>2, <1>3, RefuseKeeps
<1>4. CASE ~Refuse(r)
    <2>1. PICK i : i = job[r]
        OBVIOUS
    <2>2. i \in Request /\ Brings(i) /\ i.op = "authenticate"
        BY <1>1, <1>2, <2>1 DEF RequestsTyped
    <2>3. i.signature.key \in Keys
        BY <2>2 DEF Brings, Made
    <2>4. PICK c \in Counts : c = passkey[i.signature.key].counter
        BY <1>1, <2>3 DEF KeysTyped, Passkey
    <2>5. PICK j \in Request :
              /\ j = [i EXCEPT !.counter = c]
              /\ j.op = i.op /\ j.tab = i.tab /\ j.user = i.user /\ j.cookie = i.cookie
              /\ j.state = i.state /\ j.signature = i.signature /\ j.counter = c
        <3> DEFINE j == [i EXCEPT !.counter = c]
        <3>1. j \in Request
            BY <2>2 DEF Request
        <3>2. /\ j.op = i.op /\ j.tab = i.tab /\ j.user = i.user /\ j.cookie = i.cookie
              /\ j.state = i.state /\ j.signature = i.signature /\ j.counter = c
            BY <2>2 DEF Request
        <3> HIDE DEF j
        <3> QED
            BY <3>1, <3>2 DEF j
    <2>6. /\ passkey[i.signature.key].state = "active"
          /\ pc' = [pc EXCEPT ![r] = "update"]
          /\ job' = [job EXCEPT ![r] = j]
          /\ UNCHANGED <<token, passkey, browser, device, opened, reopened, accepted>>
        BY <1>1, <1>4, <2>1, <2>4, <2>5 DEF readPasskey, Goto, browser, server, RequestsTyped
    <2>7. Grows
        BY <1>1, <2>6 DEF Grows, KeysTyped
    <2>8. KeysTyped'
        BY <1>1, <2>6 DEF KeysTyped, Signed
    <2>9. RequestsTyped'
        <3>1. Brings(j)'
            BY <2>2, <2>5, <2>6 DEF Brings, Made, Signed
        <3>2. Found("update", j)'
            BY <2>2, <2>5, <2>6 DEF Found, NoJob, Job
        <3> QED
            BY <1>1, <2>6, <2>7, <2>8, <3>1, <3>2, RequestsMove DEF KeysTyped
    <2>10. /\ pc'[r] = "update" /\ job'[r] = j
           /\ \A q \in Requests \ {r} : pc'[q] = pc[q] /\ job'[q] = job[q]
        BY <1>1, <2>6 DEF RequestsTyped
    <2>11. About(job'[r]) \subseteq About(job[r])
        BY <2>1, <2>5, <2>10 DEF About
    <2>12. CounterPassed'
        <3>1. ASSUME NEW q \in Requests
              PROVE  /\ pc'[q] = "update" /\ job'[q].signature.key \notin overlapped =>
                            job'[q].counter = passkey[job'[q].signature.key].counter
                     /\ pc'[q] = "issue" /\ job'[q].signature.key \in counted \ overlapped =>
                            /\ job'[q].signature \notin opened
                            /\ job'[q].signature.count = passkey[job'[q].signature.key].counter
            <4>1. CASE q = r
                BY <2>4, <2>5, <2>10, <4>1
            <4>2. CASE q # r
                BY <1>1, <2>10, <4>2 DEF CounterPassed
            <4> QED
                BY <4>1, <4>2
        <3> QED
            BY <1>1, <1>2, <2>6, <3>1 DEF CounterPassed
    <2> QED
        BY <1>1, <1>2, <2>6, <2>7, <2>8, <2>9, <2>10, <2>11, <2>12, QuietStep DEF HistoryTyped
<1> QED
    BY <1>3, <1>4

(* The counter of the passkey becomes that of the signature: it passes     *)
(* what it was when it was read, so what it is unless a request met it.    *)
LEMMA updateCounterKeeps ==
    ASSUME CeremoniesKept, NEW r \in Requests, updateCounter(r)
    PROVE  CeremoniesKept'
<1>1. KeysTyped /\ HistoryTyped /\ RequestsTyped /\ CounterPassed /\ MeetingsNoted
    BY DEF CeremoniesKept, CeremoniesTyped
<1>2. pc[r] = "update" /\ job[r].op = "authenticate" /\ UNCHANGED <<begun, overlapped>>
    BY DEF updateCounter, At
<1>3. CASE Refuse(r)
    BY <1>2, <1>3, RefuseKeeps
<1>4. CASE ~Refuse(r)
    <2>1. PICK j : j = job[r]
        OBVIOUS
    <2>2. j \in Request /\ Brings(j) /\ j.op = "authenticate"
        BY <1>1, <1>2, <2>1 DEF RequestsTyped
    <2>3. PICK k \in Keys : k = j.signature.key
        BY <2>2 DEF Brings, Made
    <2>4. PICK c \in Counts : c = j.signature.count /\ c <= device[k] /\ (k \in counted => c > 0)
        BY <2>2, <2>3 DEF Brings, Made
    <2>5. /\ CountMet(j) /\ passkey[k].state = "active"
          /\ passkey' = [passkey EXCEPT ![k].counter = c]
          /\ pc' = [pc EXCEPT ![r] = "issue"]
          /\ UNCHANGED <<token, browser, device, job, opened, reopened, accepted>>
        BY <1>4, <2>1, <2>3, <2>4 DEF updateCounter, Goto, browser
    <2>6. /\ passkey' \in [Keys -> Passkey] /\ passkey'[k].counter = c
          /\ \A l \in Keys : /\ passkey'[l].state = passkey[l].state
                             /\ passkey'[l].token = passkey[l].token
                             /\ passkey'[l].owner = passkey[l].owner
                             /\ l # k => passkey'[l] = passkey[l]
        BY <1>1, <2>5 DEF KeysTyped, Passkey
    <2>7. Grows
        BY <1>1, <2>5, <2>6 DEF Grows, KeysTyped
    <2>8. KeysTyped'
        <3>1. \A l \in Keys : passkey'[l].counter <= device'[l]
            BY <1>1, <2>4, <2>5, <2>6 DEF KeysTyped
        <3> QED
            BY <1>1, <2>5, <2>6, <3>1 DEF KeysTyped, Signed
    <2>9. RequestsTyped'
        <3>1. Brings(j)'
            BY <2>2, <2>5 DEF Brings, Made, Signed
        <3>2. Found("issue", j)'
            BY <2>2, <2>3, <2>5, <2>6 DEF Found, NoJob, Job
        <3>3. job' = [job EXCEPT ![r] = j]
            BY <1>1, <2>1, <2>5 DEF RequestsTyped
        <3> QED
            BY <1>1, <2>2, <2>5, <2>7, <2>8, <3>1, <3>2, <3>3, RequestsMove DEF KeysTyped
    <2>10. /\ pc'[r] = "issue" /\ job'[r] = j
           /\ \A q \in Requests \ {r} : pc'[q] = pc[q] /\ job'[q] = job[q]
        BY <1>1, <2>1, <2>5 DEF RequestsTyped
    <2>11. ASSUME k \in counted \ overlapped
           PROVE  passkey[k].counter < c
        <3>1. j.counter = passkey[k].counter
            BY <1>1, <1>2, <2>1, <2>3, <2>11 DEF CounterPassed
        <3>2. c > 0 /\ c \in Nat
            BY <2>4, <2>11, TokensAreCounted
        <3> QED
            BY <2>4, <2>5, <3>1, <3>2 DEF CountMet
    <2>12. CounterPassed'
        <3>1. ASSUME NEW s \in opened, s.key \in counted \ overlapped
              PROVE  s.count <= passkey'[s.key].counter
                     /\ (s.key = k => s.count < c)
            <4>1. s.key \in Keys /\ s.count <= passkey[s.key].counter /\ s.count \in Nat
                <5>1. Made(s)
                    BY <1>1 DEF HistoryTyped
                <5>2. s.key \in Keys /\ s.count \in Nat
                    BY <5>1, TokensAreCounted DEF Made
                <5> QED
                    BY <1>1, <3>1, <5>2 DEF CounterPassed
            <4>2. CASE s.key = k
                <5>1. passkey[k].counter \in Nat /\ c \in Nat
                    BY <1>1, TokensAreCounted DEF KeysTyped, Passkey
                <5> QED
                    BY <2>6, <2>11, <3>1, <4>1, <4>2, <5>1
            <4>3. CASE s.key # k
                BY <2>6, <4>1, <4>3
            <4> QED
                BY <4>2, <4>3
        <3>2. ASSUME NEW q \in Requests
              PROVE  /\ pc'[q] = "update" /\ job'[q].signature.key \notin overlapped =>
                            job'[q].counter = passkey'[job'[q].signature.key].counter
                     /\ pc'[q] = "issue" /\ job'[q].signature.key \in counted \ overlapped =>
                            /\ job'[q].signature \notin opened
                            /\ job'[q].signature.count = passkey'[job'[q].signature.key].counter
            <4>1. CASE q = r
                <5>1. k \in counted \ overlapped => j.signature \notin opened
                    <6> SUFFICES ASSUME k \in counted \ overlapped, j.signature \in opened
                                 PROVE  FALSE
                        OBVIOUS
                    <6> QED
                        BY <2>3, <2>4, <3>1, TokensAreCounted
                <5> QED
                    BY <2>3, <2>4, <2>6, <2>10, <4>1, <5>1
            <4>2. CASE q # r
                <5> SUFFICES ASSUME pc[q] \in {"update", "issue"},
                                    job[q].signature.key \notin overlapped
                             PROVE  /\ pc[q] = "update" =>
                                           job[q].counter = passkey'[job[q].signature.key].counter
                                    /\ pc[q] = "issue" /\ job[q].signature.key \in counted =>
                                           /\ job[q].signature \notin opened
                                           /\ job[q].signature.count
                                                  = passkey'[job[q].signature.key].counter
                    BY <2>10, <4>2
                <5>1. job[q].signature.key \in Keys
                    BY <1>1 DEF RequestsTyped, Found, Brings, Made
                <5>2. job[q].signature.key # k
                    <6>1. k \in About(j)
                        BY <2>3 DEF About
                    <6>2. job[q].signature.key \in About(job[q])
                        BY <5>1 DEF About
                    <6>3. About(job[q]) \cap About(job[r]) \subseteq overlapped
                        BY <1>1, <4>2 DEF MeetingsNoted
                    <6> QED
                        BY <2>1, <6>1, <6>2, <6>3
                <5>3. passkey'[job[q].signature.key] = passkey[job[q].signature.key]
                    BY <2>6, <5>1, <5>2
                <5> QED
                    BY <1>1, <5>3 DEF CounterPassed
            <4> QED
                BY <4>1, <4>2
        <3> QED
            BY <1>2, <2>5, <3>1, <3>2 DEF CounterPassed
    <2> QED
        BY <1>1, <1>2, <2>1, <2>5, <2>7, <2>8, <2>9, <2>10, <2>12, QuietStep DEF HistoryTyped
<1> QED
    BY <1>3, <1>4

(* A signature opens a session: the first that it opens, unless its        *)
(* authenticator does not count, or a request met it.                      *)
LEMMA issueSessionKeeps ==
    ASSUME CeremoniesKept, NEW r \in Requests, issueSession(r)
    PROVE  CeremoniesKept'
<1>1. /\ TokensTyped /\ KeysTyped /\ HistoryTyped /\ RequestsTyped /\ CounterPassed
      /\ MeetingsNoted /\ StatesSpent /\ CeremoniesTyped
      /\ SignatureOpensOneSessionUnlessOverlapped
    BY DEF CeremoniesKept, CeremoniesTyped
<1>2. PICK j : j = job[r]
    OBVIOUS
<1>3. PICK s : s = j.signature
    OBVIOUS
<1>4. /\ pc[r] = "issue" /\ j.op = "authenticate"
      /\ opened' = opened \cup {s}
      /\ reopened' = IF s \in opened THEN reopened \cup {s} ELSE reopened
      /\ pc' = [pc EXCEPT ![r] = "answer"]
      /\ UNCHANGED <<token, passkey, browser, cookie, device, job, accepted, begun, overlapped>>
    BY <1>2, <1>3 DEF issueSession, At, Goto, browser, server
<1>5. j \in Request /\ Brings(j) /\ Made(s) /\ passkey[s.key].state # "none" /\ s.key \in Keys
    BY <1>1, <1>2, <1>3, <1>4 DEF RequestsTyped, Brings, Found, Made
<1>6. Grows
    BY <1>1, <1>4 DEF Grows, KeysTyped
<1>7. CookiesTyped' /\ TabsTyped' /\ SignaturesBounded'
      /\ \A n \in Tokens : Signed(n)' <=> Signed(n)
    BY <1>1, <1>4, BrowserStays
<1>8. TokensTyped'
    BY <1>1, <1>4, <1>7 DEF TokensTyped, Tokens
<1>9. KeysTyped'
    BY <1>1, <1>4 DEF KeysTyped, Signed
<1>10. RequestsTyped'
    <2>1. Brings(j)'
        BY <1>4, <1>5 DEF Brings, Made, Signed
    <2>2. Found("answer", j)'
        BY <1>4 DEF Found, NoJob, Job
    <2>3. job' = [job EXCEPT ![r] = j]
        BY <1>1, <1>2, <1>4 DEF RequestsTyped
    <2> QED
        BY <1>1, <1>4, <1>5, <1>6, <1>9, <2>1, <2>2, <2>3, RequestsMove DEF KeysTyped
<1>11. HistoryTyped'
    <2>1. \A i \in opened' \cup reopened' : i \in opened \cup reopened \cup {s}
        BY <1>4
    <2>2. \A i \in opened \cup reopened \cup {s} : Made(i)' /\ passkey'[i.key].state # "none"
        BY <1>1, <1>4, <1>5 DEF HistoryTyped, Made, Signed
    <2> QED
        BY <1>1, <1>4, <2>1, <2>2 DEF HistoryTyped, Made, Signed
<1>12. MeetingsNoted'
    BY <1>1, <1>4, MeetingsStay
<1>13. /\ pc'[r] = "answer"
       /\ \A q \in Requests \ {r} : pc'[q] = pc[q] /\ job'[q] = job[q]
    BY <1>1, <1>4 DEF RequestsTyped
<1>14. s.key \in counted \ overlapped => s \notin opened /\ s.count = passkey[s.key].counter
    BY <1>1, <1>2, <1>3, <1>4 DEF CounterPassed
<1>15. CounterPassed'
    <2>1. ASSUME NEW i \in opened', i.key \in counted \ overlapped
          PROVE  i.count <= passkey[i.key].counter
        <3>1. CASE i = s
            <4>1. s.count \in Nat
                BY <1>5, TokensAreCounted DEF Made
            <4> QED
                BY <1>14, <2>1, <3>1, <4>1
        <3>2. CASE i \in opened
            BY <1>1, <2>1, <3>2 DEF CounterPassed
        <3> QED
            BY <1>4, <3>1, <3>2
    <2>2. ASSUME NEW q \in Requests, pc'[q] = "issue",
                 job[q].signature.key \in counted \ overlapped
          PROVE  job[q].signature \notin opened' /\ q # r
        <3>1. q # r /\ pc[q] = "issue"
            BY <1>13, <2>2
        <3>2. job[q].signature \notin opened
            BY <1>1, <2>2, <3>1 DEF CounterPassed
        <3>3. job[q].signature # s
            <4> SUFFICES ASSUME job[q].signature = s
                         PROVE  FALSE
                OBVIOUS
            <4>1. s.key \in About(job[q]) \cap About(job[r])
                BY <1>2, <1>3, <1>5 DEF About
            <4>2. s.key \in overlapped
                BY <1>1, <3>1, <4>1 DEF MeetingsNoted
            <4> QED
                BY <2>2, <4>2
        <3> QED
            BY <1>4, <3>1, <3>2, <3>3
    <2>3. ASSUME NEW q \in Requests
          PROVE  /\ pc'[q] = "update" /\ job'[q].signature.key \notin overlapped =>
                        job'[q].counter = passkey'[job'[q].signature.key].counter
                 /\ pc'[q] = "issue" /\ job'[q].signature.key \in counted \ overlapped =>
                        /\ job'[q].signature \notin opened'
                        /\ job'[q].signature.count = passkey'[job'[q].signature.key].counter
        <3>1. CASE q = r
            BY <1>13, <3>1
        <3>2. CASE q # r
            BY <1>1, <1>4, <1>13, <2>2, <3>2 DEF CounterPassed
        <3> QED
            BY <3>1, <3>2
    <2> QED
        BY <1>4, <2>1, <2>3 DEF CounterPassed
<1>16. StatesSpent'
    <2>1. \A q \in Requests : \/ pc'[q] = pc[q] /\ job'[q] = job[q]
                              \/ /\ pc'[q] # "arrived"
                                 /\ pc[q] = "answer" /\ job[q].op = "callback" =>
                                        \/ job[q].state \in overlapped'
                                        \/ cookie'["oauth"] # job[q].state
        BY <1>4, <1>13
    <2> QED
        BY <1>1, <1>4, <1>6, <2>1, StatesStay
<1>17. SignatureOpensOneSessionUnlessOverlapped'
    BY <1>1, <1>4, <1>14 DEF SignatureOpensOneSessionUnlessOverlapped
<1> QED
    BY <1>7, <1>8, <1>9, <1>10, <1>11, <1>12, <1>15, <1>16, <1>17
    DEF CeremoniesKept, CeremoniesTyped

(* A callback is accepted, or is not: the first time, unless it was posted *)
(* or another callback met it.                                             *)
LEMMA handleCallbackKeeps ==
    ASSUME CeremoniesKept, NEW r \in Requests, handleCallback(r)
    PROVE  CeremoniesKept'
<1>1. /\ TokensTyped /\ KeysTyped /\ HistoryTyped /\ RequestsTyped /\ CounterPassed
      /\ MeetingsNoted /\ StatesSpent /\ CeremoniesTyped
      /\ SignatureOpensOneSessionUnlessOverlapped
    BY DEF CeremoniesKept, CeremoniesTyped
<1>2. PICK j : j = job[r]
    OBVIOUS
<1>3. /\ pc[r] = "arrived" /\ j.op = "callback"
      /\ pc' = [pc EXCEPT ![r] = "answer"]
      /\ UNCHANGED <<token, passkey, browser, cookie, device, job, opened, reopened, begun,
                     overlapped>>
    BY <1>2 DEF handleCallback, At, Goto, browser, server
<1>4. j \in Request /\ Brings(j) /\ j.state \in Tokens /\ Signed(j.state)
    BY <1>1, <1>2, <1>3 DEF RequestsTyped, Brings
<1>5. PICK n \in Tokens : n = j.state /\ Signed(n)
    BY <1>4
<1>6. \/ accepted' = [accepted EXCEPT ![n] = @ + 1] /\ StateMet(j)
      \/ accepted' = accepted
    BY <1>2, <1>5 DEF handleCallback
<1>7. Grows
    BY <1>1, <1>3 DEF Grows, KeysTyped
<1>8. CookiesTyped' /\ TabsTyped' /\ SignaturesBounded'
      /\ \A m \in Tokens : Signed(m)' <=> Signed(m)
    BY <1>1, <1>3, BrowserStays
<1>9. /\ accepted' \in [Tokens -> Nat]
      /\ \A m \in Tokens : m # n => accepted'[m] = accepted[m]
      /\ accepted'[n] = accepted[n] \/ (accepted'[n] = accepted[n] + 1 /\ StateMet(j))
    BY <1>1, <1>6 DEF TokensTyped
<1>10. TokensTyped'
    <2>1. \A m \in Tokens : accepted'[m] > 0 => Signed(m)'
        BY <1>1, <1>5, <1>8, <1>9 DEF TokensTyped
    <2> QED
        BY <1>1, <1>3, <1>9, <2>1 DEF TokensTyped, Tokens
<1>11. KeysTyped'
    BY <1>1, <1>3 DEF KeysTyped, Signed
<1>12. /\ pc'[r] = "answer"
       /\ \A q \in Requests \ {r} : pc'[q] = pc[q]
    BY <1>1, <1>3 DEF RequestsTyped
<1>13. RequestsTyped'
    <2>1. Brings(j)'
        BY <1>3, <1>4 DEF Brings, Made, Signed
    <2>2. Found("answer", j)'
        BY <1>3 DEF Found, NoJob, Job
    <2>3. job' = [job EXCEPT ![r] = j]
        BY <1>1, <1>2, <1>3 DEF RequestsTyped
    <2> QED
        BY <1>1, <1>3, <1>4, <1>7, <1>11, <2>1, <2>2, <2>3, RequestsMove DEF KeysTyped
<1>14. HistoryTyped'
    BY <1>1, <1>3, <1>7, HistoryStays DEF HistoryTyped, KeysTyped
<1>15. MeetingsNoted'
    BY <1>1, <1>3, MeetingsStay
<1>16. CounterPassed'
    <2>1. \A q \in Requests : pc'[q] \in {"update", "issue"} =>
                                  pc'[q] = pc[q] /\ job'[q] = job[q]
        BY <1>3, <1>12
    <2> QED
        BY <1>1, <1>3, <2>1, CountersStay
<1>17. StatesSpent'
    <2> SUFFICES ASSUME NEW m \in Tokens, Signed(m), ~token[m].post, m \notin overlapped
                 PROVE  StateSpent(m)'
        BY <1>3, <1>8 DEF StatesSpent
    <2>1. StateSpent(m) /\ accepted[m] \in Nat
        BY <1>1 DEF StatesSpent, TokensTyped
    <2>2. Clearing(m) => Clearing(m)'
        BY <1>3, <1>12 DEF Clearing
    <2>3. CASE m # n
        <3>1. accepted'[m] = accepted[m]
            BY <1>9, <2>3
        <3>2. \A q \in Requests : pc'[q] = "arrived" => pc[q] = "arrived"
            BY <1>3, <1>12
        <3> QED
            BY <1>3, <2>1, <2>2, <3>1, <3>2 DEF StateSpent
    <2>4. CASE m = n
        <3>1. ASSUME StateMet(j)
              PROVE  accepted[m] = 0
            BY <1>2, <1>3, <1>5, <2>1, <2>4, <3>1 DEF StateMet, StateSpent
        <3>2. accepted'[m] <= 1
            BY <1>9, <2>1, <2>4, <3>1 DEF StateSpent
        <3>3. Clearing(m)'
            BY <1>2, <1>3, <1>5, <1>12, <2>4 DEF Clearing
        <3>4. ASSUME NEW q \in Requests, pc'[q] = "arrived", job'[q].state = m
              PROVE  FALSE
            <4>1. q # r /\ job[q].state = m
                BY <1>3, <1>12, <3>4
            <4>2. m \in About(job[q]) \cap About(job[r])
                BY <1>2, <1>5, <2>4, <4>1 DEF About
            <4> QED
                BY <1>1, <4>1, <4>2 DEF MeetingsNoted
        <3> QED
            BY <3>2, <3>3, <3>4 DEF StateSpent
    <2> QED
        BY <2>3, <2>4
<1>18. SignatureOpensOneSessionUnlessOverlapped'
    BY <1>1, <1>3 DEF SignatureOpensOneSessionUnlessOverlapped
<1> QED
    BY <1>8, <1>10, <1>11, <1>13, <1>14, <1>15, <1>16, <1>17, <1>18
    DEF CeremoniesKept, CeremoniesTyped

(* The browser has the answer: its cookie is gone, and a tab is signed in. *)
LEMMA AnsweredKeeps ==
    ASSUME CeremoniesKept, NEW r \in Requests, Answered(r)
    PROVE  CeremoniesKept'
<1>1. /\ TokensTyped /\ CookiesTyped /\ TabsTyped /\ KeysTyped /\ SignaturesBounded
      /\ HistoryTyped /\ RequestsTyped /\ CounterPassed /\ MeetingsNoted /\ StatesSpent
      /\ SignatureOpensOneSessionUnlessOverlapped
    BY DEF CeremoniesKept, CeremoniesTyped
<1>2. PICK j : j = job[r]
    OBVIOUS
<1> DEFINE c == IF j.op = "callback" THEN "oauth" ELSE "webauthn"
<1>3. /\ pc[r] = "answer" /\ Finish(r)
      /\ cookie' = [cookie EXCEPT ![c] = 0]
      /\ UNCHANGED <<token, passkey, device, begun, past>>
    BY <1>2 DEF Answered, server
<1>4. UNCHANGED <<opened, reopened, accepted, overlapped>>
    BY <1>3 DEF past
<1>5. j \in Request /\ Brings(j) /\ j.op \in {"register", "authenticate", "callback"}
      /\ j.tab \in Tabs
    BY <1>1, <1>2, <1>3 DEF RequestsTyped, Brings, Found
<1>6. \/ UNCHANGED tab
      \/ \E u \in Users \cup {Nobody} : tab' = [tab EXCEPT ![j.tab].user = u]
    <2>1. CASE j.op = "register"
        BY <1>2, <2>1 DEF Answered
    <2>2. CASE j.op = "authenticate"
        <3>1. j.signature.key \in Keys
            BY <1>5, <2>2 DEF Brings, Made
        <3>2. passkey[j.signature.key].owner \in Users \cup {Nobody}
            BY <1>1, <3>1 DEF KeysTyped, Passkey
        <3> QED
            BY <1>2, <2>2, <3>2 DEF Answered
    <2>3. CASE j.op = "callback"
        BY <1>2, <2>3 DEF Answered
    <2> QED
        BY <1>5, <2>1, <2>2, <2>3
<1>7. Grows
    BY <1>1, <1>3 DEF Grows, KeysTyped
<1>8. TokensTyped'
    BY <1>1, <1>3, <1>4 DEF TokensTyped, Signed, Tokens
<1>9. /\ cookie' \in [{"webauthn", "oauth"} -> 0 .. MaxTokens]
      /\ \A d \in {"webauthn", "oauth"} : cookie'[d] \in {0, cookie[d]}
      /\ j.op = "callback" => cookie'["oauth"] = 0
    BY <1>1, <1>3, TokensAreCounted DEF CookiesTyped
<1>10. CookiesTyped'
    BY <1>1, <1>3, <1>9, CookiesStay
<1>11. TabsTyped' /\ Past' = Past
    <2>1. tab' \in [Tabs -> Tab]
          /\ \A t \in Tabs : /\ tab'[t].ceremony = tab[t].ceremony
                             /\ tab'[t].signature = tab[t].signature
        BY <1>1, <1>5, <1>6, UserTyped DEF TabsTyped
    <2> QED
        BY <1>1, <1>3, <2>1, TabsStay
<1>12. KeysTyped'
    BY <1>1, <1>3 DEF KeysTyped, Signed
<1>13. SignaturesBounded'
    BY <1>1, <1>3, <1>11 DEF SignaturesBounded
<1>14. /\ pc'[r] = "idle" /\ job'[r] = NoJob
       /\ \A q \in Requests \ {r} : pc'[q] = pc[q] /\ job'[q] = job[q]
    BY <1>1, <1>3 DEF RequestsTyped, Finish, Goto
<1>15. RequestsTyped'
    BY <1>1, <1>3, <1>7, <1>12, RequestsEnd DEF KeysTyped
<1>16. HistoryTyped'
    BY <1>1, <1>3, <1>4, <1>7, <1>12, HistoryStays DEF HistoryTyped, KeysTyped
<1>17. MeetingsNoted'
    <2>1. \A q \in Requests : About(job'[q]) \subseteq About(job[q])
        BY <1>14, IdleIsAboutNothing
    <2> QED
        BY <1>1, <1>4, <2>1, MeetingsStay
<1>18. CounterPassed'
    <2>1. \A q \in Requests : pc'[q] \in {"update", "issue"} =>
                                  pc'[q] = pc[q] /\ job'[q] = job[q]
        BY <1>14
    <2> QED
        BY <1>1, <1>3, <1>4, <2>1, CountersStay
<1>19. StatesSpent'
    <2>1. \A n \in Tokens : token'[n] # token[n] \/ cookie'["oauth"] # n \/ cookie["oauth"] = n
        BY <1>9, TokensAreCounted DEF Tokens
    <2>2. j.op = "callback" => cookie'["oauth"] # j.state
        BY <1>5, <1>9, TokensAreCounted DEF Brings, Tokens
    <2>3. \A q \in Requests : \/ pc'[q] = pc[q] /\ job'[q] = job[q]
                              \/ /\ pc'[q] # "arrived"
                                 /\ pc[q] = "answer" /\ job[q].op = "callback" =>
                                        \/ job[q].state \in overlapped'
                                        \/ cookie'["oauth"] # job[q].state
        BY <1>2, <1>14, <2>2
    <2> QED
        BY <1>1, <1>4, <1>7, <2>1, <2>3, StatesStay
<1>20. SignatureOpensOneSessionUnlessOverlapped'
    BY <1>1, <1>4 DEF SignatureOpensOneSessionUnlessOverlapped
<1> QED
    BY <1>8, <1>10, <1>11, <1>12, <1>13, <1>15, <1>16, <1>17, <1>18, <1>19, <1>20
    DEF CeremoniesKept, CeremoniesTyped

(* Nothing happens.                                                        *)
LEMMA CeremoniesStutter ==
    ASSUME CeremoniesKept, UNCHANGED ceremonyVars
    PROVE  CeremoniesKept'
<1>1. UNCHANGED <<token, passkey, cookie, tab, device, pc, job, begun, past>>
    BY DEF ceremonyVars, server, browser
<1>2. TokensTyped /\ CookiesTyped /\ TabsTyped /\ KeysTyped /\ SignaturesBounded
    BY DEF CeremoniesKept, CeremoniesTyped
<1>3. Grows
    BY <1>1, <1>2 DEF Grows, KeysTyped
<1>4. CookiesTyped' /\ TabsTyped' /\ SignaturesBounded'
    BY <1>1, BrowserStays DEF CeremoniesKept, browser
<1>5. TokensTyped'
    BY <1>1, <1>2 DEF TokensTyped, Signed, Tokens, past
<1>6. KeysTyped'
    BY <1>1, <1>2 DEF KeysTyped, Signed
<1> QED
    BY <1>1, <1>2, <1>3, <1>4, <1>5, <1>6, BrowserStep DEF KeysTyped

(* Every step keeps what makes the ceremonies right. *)
LEMMA CeremoniesInductive == CeremoniesKept /\ [CeremonyNext]_ceremonyVars => CeremoniesKept'
<1> SUFFICES ASSUME CeremoniesKept, [CeremonyNext]_ceremonyVars
             PROVE  CeremoniesKept'
    OBVIOUS
<1>1. ASSUME NEW t \in Tabs, NEW n \in Tokens, Starts(t, n)
      PROVE  CeremoniesKept'
    BY <1>1, StartsKeep
<1>2. ASSUME NEW t \in Tabs, NEW k \in Keys, Sign(t, k)
      PROVE  CeremoniesKept'
    BY <1>2, SignKeeps
<1>3. ASSUME NEW t \in Tabs, SwitchUser(t)
      PROVE  CeremoniesKept'
    BY <1>3, SwitchUserKeeps
<1>4. ASSUME NEW t \in Tabs, NEW r \in Requests, Sends(r, t)
      PROVE  CeremoniesKept'
    BY <1>4, SendsKeep
<1>5. ASSUME NEW r \in Requests, Handles(r)
      PROVE  CeremoniesKept'
    BY <1>5, verifyRegistrationKeeps, readPasskeyKeeps, updateCounterKeeps, issueSessionKeeps,
       handleCallbackKeeps, findPasskeyKeeps, deletePasskeyKeeps DEF Handles
<1>6. ASSUME NEW r \in Requests, Answered(r)
      PROVE  CeremoniesKept'
    BY <1>6, AnsweredKeeps
<1>7. ASSUME NEW r \in Requests, Lost(r)
      PROVE  CeremoniesKept'
    BY <1>7, LostKeeps
<1>8. CASE UNCHANGED ceremonyVars
    BY <1>8, CeremoniesStutter
<1> QED
    BY <1>1, <1>2, <1>3, <1>4, <1>5, <1>6, <1>7, <1>8 DEF CeremonyNext

(* So it holds throughout every behaviour. *)
LEMMA CeremoniesInvariant == CeremonySpec => []CeremoniesKept
BY CeremoniesInit, CeremoniesInductive, PTL DEF CeremonySpec

(* The state of the ceremonies has its types. *)
LEMMA CeremoniesTypes == CeremoniesTyped => CeremonyTypeOK
<1> SUFFICES ASSUME CeremoniesTyped
             PROVE  CeremonyTypeOK
    OBVIOUS
<1>1. TokensTyped /\ CookiesTyped /\ TabsTyped /\ KeysTyped /\ SignaturesBounded
      /\ HistoryTyped /\ RequestsTyped
    BY DEF CeremoniesTyped
<1>2. device \in [Keys -> Counts]
    <2>1. ASSUME NEW k \in Keys
          PROVE  device[k] \in Counts
        <3>1. device[k] \in Nat /\ device[k] <= Cardinality(Past)
            BY <1>1 DEF KeysTyped, SignaturesBounded
        <3> QED
            BY <3>1, PastIsCounted, TokensAreCounted DEF Counts
    <2> QED
        BY <1>1, <2>1 DEF KeysTyped
<1>3. \A r \in Requests : pc[r] = "idle" <=> job[r] = NoJob
    BY <1>1 DEF RequestsTyped, Found
<1>4. opened \cup reopened \subseteq Signatures
    BY <1>1 DEF HistoryTyped, Made, Signatures
<1>5. token \in [Tokens -> [purpose : Purposes \cup {"none"}, user : Users \cup {Nobody},
                            post : BOOLEAN]]
      /\ \A n \in Tokens : token[n].purpose \in {"register", "link"} => token[n].user # Nobody
    BY <1>1 DEF TokensTyped, SignedToken
<1>6. tab \in [Tabs -> [user : Users \cup {Nobody}, ceremony : 0 .. MaxTokens,
                        signature : Signatures]]
    BY <1>1 DEF TabsTyped, Tab
<1>7. passkey \in [Keys -> [state : {"none", "active", "deleted"}, owner : Users \cup {Nobody},
                            token : 0 .. MaxTokens, counter : Counts]]
      /\ \A k \in Keys : passkey[k].counter <= device[k] /\ (k \notin counted => device[k] = 0)
    BY <1>1 DEF KeysTyped, Passkey
<1>8. cookie \in [{"webauthn", "oauth"} -> 0 .. MaxTokens]
      /\ \A c \in DOMAIN cookie : cookie[c] # 0 =>
            Signed(cookie[c]) /\ (token[cookie[c]].purpose \in WebAuthn <=> c = "webauthn")
    BY <1>1 DEF CookiesTyped
<1>9. begun \in 0 .. MaxRequests /\ overlapped \subseteq Tokens \cup Keys
      /\ pc \in [Requests -> {"idle", "arrived", "update", "issue", "delete", "answer"}]
    BY <1>1 DEF TokensTyped, HistoryTyped, RequestsTyped
<1> QED
    BY <1>2, <1>3, <1>4, <1>5, <1>6, <1>7, <1>8, <1>9 DEF CeremonyTypeOK

(* A passkey belongs to the user who asked for it, whoever has signed in   *)
(* to the tab since and whatever ceremony has replaced the cookie          *)
(* (verifyRegistration).                                                   *)
THEOREM PasskeysOwned == CeremonySpec => []PasskeyIsItsAskersOwn
<1>1. CeremoniesKept => PasskeyIsItsAskersOwn
    BY CeremoniesTypes DEF CeremoniesKept, CeremoniesTyped, KeysTyped, PasskeyIsItsAskersOwn
<1> QED
    BY <1>1, CeremoniesInvariant, PTL

(* A signature opens one session, for an authenticator that counts: unless *)
(* two requests about its key were in flight at once (updateCounter reads, *)
(* compares and writes in three steps).                                    *)
THEOREM SignaturesOpenOnce == CeremonySpec => []SignatureOpensOneSessionUnlessOverlapped
<1>1. CeremoniesKept => SignatureOpensOneSessionUnlessOverlapped
    BY DEF CeremoniesKept
<1> QED
    BY <1>1, CeremoniesInvariant, PTL

(* A state is accepted once, unless its answer has not cleared the cookie  *)
(* when it is sent again, or a form was posted (handleCallback).           *)
THEOREM StatesAcceptedOnce == CeremonySpec => []StateIsAcceptedOnceUnlessUncleared
<1>1. CeremoniesKept => StateIsAcceptedOnceUnlessUncleared
    <2> SUFFICES ASSUME CeremoniesKept, NEW n \in Tokens, accepted[n] > 1,
                        ~token[n].post, n \notin overlapped
                 PROVE  FALSE
        BY DEF StateIsAcceptedOnceUnlessUncleared
    <2>1. TokensTyped /\ StatesSpent
        BY DEF CeremoniesKept, CeremoniesTyped
    <2>2. accepted[n] \in Nat /\ Signed(n)
        BY <2>1 DEF TokensTyped
    <2>3. accepted[n] <= 1
        BY <2>1, <2>2 DEF StatesSpent, StateSpent
    <2> QED
        BY <2>2, <2>3
<1> QED
    BY <1>1, CeremoniesInvariant, PTL
================================================================================
