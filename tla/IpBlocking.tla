------------------------------ MODULE IpBlocking ------------------------------
(***************************************************************************)
(* ipBlocking.service.ts and the guard of ipBlock.middleware.ts: the table *)
(* of blocked addresses and the copy of it that each server process keeps  *)
(* for CACHE_TTL_MS.  A lookup that finds its copy missing or too old      *)
(* loads a new one, and other lookups, blocks and unblocks of the process  *)
(* go on meanwhile.                                                        *)
(***************************************************************************)
EXTENDS Naturals

CONSTANTS Servers, Ips, None,
          Lookups,       \* loads that may be under way at once
          Admins,        \* blocks and unblocks that may be under way at once
          Ends,          \* when an administrator may let a block end
          Ttl,           \* CACHE_TTL_MS
          MaxLoad,       \* bound on the time a load takes
          MaxTime,       \* bound on the clock
          MaxChanges     \* bound on the blocks and unblocks of a behaviour

ASSUME EndsAreTimes == Ends \subseteq 1 .. MaxTime + 1
ASSUME BoundsAreNatural == {Ttl, MaxLoad, MaxTime, MaxChanges} \subseteq Nat
ASSUME TtlIsPositive == Ttl > 0

VARIABLES
    now,
    row,        \* blocked_ips: the id of an address's row, and when its block ends
    cache,      \* each server's copy
    load,       \* the loads under way
    admin,      \* the blocks and unblocks under way
    changes,    \* how many of those were begun
    verdict,    \* history: what the last step answered from a copy, if it did
    changed,    \* history: when the row of an address last came or went
    settled     \* history: the changes that should be visible at once

history == <<changed, settled>>
vars == <<now, row, cache, load, admin, changes, verdict, history>>

Times == 0 .. MaxTime
NoLoad == [server |-> None, ip |-> None, step |-> "idle", began |-> 0, ips |-> {}]
NoAdmin == [server |-> None, ip |-> None, step |-> "idle", id |-> 0]

TypeOK ==
    /\ now \in Times
    /\ row \in [Ips -> [id : 0 .. MaxChanges, ends : Ends] \cup {None}]
    /\ cache \in [Servers -> [ips : SUBSET Ips, loadedAt : Times] \cup {None}]
    /\ load \in [Lookups -> [server : Servers, ip : Ips, step : {"query", "fill"},
                             began : Times, ips : SUBSET Ips] \cup {NoLoad}]
    /\ admin \in [Admins -> [server : Servers, ip : Ips,
                             step : {"create", "delete", "invalidate"},
                             id : 0 .. MaxChanges] \cup {NoAdmin}]
    /\ changes \in 0 .. MaxChanges
    /\ verdict \in [server : Servers, ip : Ips, blocked : BOOLEAN] \cup {None}
    /\ changed \in [Ips -> Times]
    /\ settled \subseteq Servers \X Ips
    /\ \A s \in Servers : cache[s] # None => cache[s].loadedAt <= now

Init ==
    /\ now = 0
    /\ row \in [Ips -> [id : {0}, ends : Ends] \cup {None}]
    /\ cache = [s \in Servers |-> None]
    /\ load = [l \in Lookups |-> NoLoad]
    /\ admin = [a \in Admins |-> NoAdmin]
    /\ changes = 0
    /\ verdict = None
    /\ changed = [i \in Ips |-> 0]
    /\ settled = {}

-------------------------------------------------------------------------------
ActiveAt(i, time) == row[i] # None /\ row[i].ends > time
Loading(s) == \E l \in Lookups : load[l].server = s

Answer(s, i, ips) == verdict' = [server |-> s, ip |-> i, blocked |-> i \in ips]

(* Mutant: a copy is trusted for one tick too long. *)
TrustedTooLong(s) == cache[s] # None /\ now - cache[s].loadedAt <= Ttl

Trusted(s) == cache[s] # None /\ now - cache[s].loadedAt < Ttl

(* isIpBlocked with a copy that is recent enough. *)
AnswerFromCache(s, i) ==
    /\ Trusted(s)
    /\ Answer(s, i, cache[s].ips)
    /\ UNCHANGED <<now, row, cache, load, admin, changes, history>>

(* The time that rows are compared with is the server's, taken now. *)
BeginLoad(l, s, i) ==
    /\ load[l] = NoLoad
    /\ ~Trusted(s)
    /\ load' = [load EXCEPT ![l] = [NoLoad EXCEPT !.server = s, !.ip = i, !.step = "query",
                                                  !.began = now]]
    /\ verdict' = None
    /\ UNCHANGED <<now, row, cache, admin, changes, history>>

(* loadActiveBlockedIps *)
Query(l) ==
    /\ load[l].step = "query"
    /\ load' = [load EXCEPT ![l].step = "fill",
                            ![l].ips = {i \in Ips : ActiveAt(i, load[l].began)}]
    /\ verdict' = None
    /\ UNCHANGED <<now, row, cache, admin, changes, history>>

(* The copy is dated when it arrives, not when it was asked for. *)
Filled(l) == [ips |-> load[l].ips, loadedAt |-> now]

Fill(l) ==
    LET s == load[l].server
    IN  /\ load[l].step = "fill"
        /\ cache' = [cache EXCEPT ![s] = Filled(l)]
        /\ Answer(s, load[l].ip, load[l].ips)
        /\ load' = [load EXCEPT ![l] = NoLoad]
        /\ UNCHANGED <<now, row, admin, changes, history>>

(* The lookup fails open: the request passes, by no copy's verdict. *)
QueryFails(l) ==
    /\ load[l].step = "query"
    /\ load' = [load EXCEPT ![l] = NoLoad]
    /\ verdict' = None
    /\ UNCHANGED <<now, row, cache, admin, changes, history>>

-------------------------------------------------------------------------------
(* blockIp and unblockIp: look for the row, write, invalidate. *)
BeginChange(a, s, i) ==
    /\ admin[a] = NoAdmin
    /\ changes < MaxChanges
    /\ changes' = changes + 1
    /\ admin' = [admin EXCEPT ![a] =
          IF row[i] = None
          THEN [server |-> s, ip |-> i, step |-> "create", id |-> 0]
          ELSE [server |-> s, ip |-> i, step |-> "delete", id |-> row[i].id]]
    /\ verdict' = None
    /\ UNCHANGED <<now, row, cache, load, history>>

Commit(a) ==
    /\ admin' = [admin EXCEPT ![a].step = "invalidate"]
    /\ changed' = [changed EXCEPT ![admin[a].ip] = now]
    /\ settled' = {x \in settled : x[2] # admin[a].ip}
    /\ verdict' = None
    /\ UNCHANGED <<now, cache, load, changes>>

(* The address is unique.  Between two creations of its row a change was *)
(* begun, the deletion, so their count is a fresh id.                    *)
Create(a, until) ==
    /\ admin[a].step = "create"
    /\ row[admin[a].ip] = None
    /\ until > now
    /\ row' = [row EXCEPT ![admin[a].ip] = [id |-> changes, ends |-> until]]
    /\ Commit(a)

Present(i, id) == row[i] # None /\ row[i].id = id

Delete(a) ==
    /\ admin[a].step = "delete"
    /\ Present(admin[a].ip, admin[a].id)
    /\ row' = [row EXCEPT ![admin[a].ip] = None]
    /\ Commit(a)

(* Another administrator was faster: a unique or a missing row. *)
ChangeFails(a) ==
    /\ \/ admin[a].step = "create" /\ row[admin[a].ip] # None
       \/ admin[a].step = "delete" /\ ~Present(admin[a].ip, admin[a].id)
    /\ admin' = [admin EXCEPT ![a] = NoAdmin]
    /\ verdict' = None
    /\ UNCHANGED <<now, row, cache, load, changes, history>>

(* Mutant: the copy is left to run out. *)
InvalidatedNever(s) == cache

Invalidated(s) == [cache EXCEPT ![s] = None]

Invalidate(a) ==
    LET s == admin[a].server
    IN  /\ admin[a].step = "invalidate"
        /\ cache' = Invalidated(s)
        /\ settled' = IF Loading(s) THEN settled ELSE settled \cup {<<s, admin[a].ip>>}
        /\ admin' = [admin EXCEPT ![a] = NoAdmin]
        /\ verdict' = None
        /\ UNCHANGED <<now, row, load, changes, changed>>

-------------------------------------------------------------------------------
(* A load takes no longer than MaxLoad. *)
Tick ==
    /\ now < MaxTime
    /\ \A l \in Lookups : load[l] # NoLoad => now < load[l].began + MaxLoad
    /\ now' = now + 1
    /\ verdict' = None
    /\ UNCHANGED <<row, cache, load, admin, changes, history>>

(* A process dies and starts again, with nothing in memory. *)
Restart(s) ==
    /\ cache[s] # None \/ Loading(s) \/ \E a \in Admins : admin[a].server = s
    /\ cache' = [cache EXCEPT ![s] = None]
    /\ load' = [l \in Lookups |-> IF load[l].server = s THEN NoLoad ELSE load[l]]
    /\ admin' = [a \in Admins |-> IF admin[a].server = s THEN NoAdmin ELSE admin[a]]
    /\ verdict' = None
    /\ UNCHANGED <<now, row, changes, history>>

Next ==
    \/ \E s \in Servers, i \in Ips :
          \/ AnswerFromCache(s, i)
          \/ \E l \in Lookups : BeginLoad(l, s, i)
          \/ \E a \in Admins : BeginChange(a, s, i)
    \/ \E l \in Lookups : Query(l) \/ Fill(l) \/ QueryFails(l)
    \/ \E a \in Admins :
          \/ \E until \in Ends : Create(a, until)
          \/ Delete(a) \/ ChangeFails(a) \/ Invalidate(a)
    \/ \E s \in Servers : Restart(s)
    \/ Tick

Spec == Init /\ [][Next]_vars

-------------------------------------------------------------------------------
(* Properties. *)
Blocked(i) == ActiveAt(i, now)

(* When address i last became blocked or free. *)
LastChange(i) == IF row[i] # None /\ row[i].ends <= now THEN row[i].ends ELSE changed[i]

Wrong == verdict # None /\ verdict.blocked # Blocked(verdict.ip)

(* ipBlocking.service.ts: a copy is "trusted before it is reloaded" for    *)
(* CACHE_TTL_MS.  Whatever loads, changes and restarts overlap, no server  *)
(* answers by a block that ended, or ignores one that began, longer ago    *)
(* than that and the time of a load.  The state is well typed.             *)
StalenessBounded == TypeOK /\ (Wrong => now - LastChange(verdict.ip) < Ttl + MaxLoad)

(* "block/unblock mutations invalidate the cache for immediacy": the next  *)
(* answer of the process that made the change is right, unless a load was  *)
(* under way there when it was made, or the block has run out since.       *)
ImmediateUnlessLoading ==
    Wrong /\ <<verdict.server, verdict.ip>> \in settled
        => row[verdict.ip] # None /\ ~Blocked(verdict.ip)
===============================================================================
