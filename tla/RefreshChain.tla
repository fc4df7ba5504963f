----------------------------- MODULE RefreshChain -----------------------------
(***************************************************************************)
(* What AuthKit Pro promises about renewing a login, with no database and  *)
(* no concurrency in it: a session hands out one refresh token at a time,  *)
(* a token renews at most once, and a session that was closed never renews *)
(* again.  SessionRotation, the model of the code, implements it.          *)
(***************************************************************************)
CONSTANTS Sessions, Tokens, None

VARIABLES phase,   \* phase[s]: is the session unopened, open or closed
          holder,  \* holder[s]: the one token that can renew session s
          used     \* the tokens handed out so far

chainVars == <<phase, holder, used>>

Phases == {"unopened", "open", "closed"}

ChainTypeOK ==
    /\ phase \in [Sessions -> Phases]
    /\ holder \in [Sessions -> Tokens \cup {None}]
    /\ used \subseteq Tokens

ChainInit ==
    /\ phase = [s \in Sessions |-> "unopened"]
    /\ holder = [s \in Sessions |-> None]
    /\ used = {}

(* A login opens a session with a token nobody held before. *)
Open(s, t) ==
    /\ phase[s] = "unopened"
    /\ t \notin used
    /\ phase' = [phase EXCEPT ![s] = "open"]
    /\ holder' = [holder EXCEPT ![s] = t]
    /\ used' = used \cup {t}

(* The holder of an open session exchanges its token for a fresh one. *)
Rotate(s, t) ==
    /\ phase[s] = "open"
    /\ t \notin used
    /\ holder' = [holder EXCEPT ![s] = t]
    /\ used' = used \cup {t}
    /\ UNCHANGED phase

(* Some open sessions are closed, for good. *)
Close(S) ==
    /\ \A s \in S : phase[s] = "open"
    /\ phase' = [s \in Sessions |-> IF s \in S THEN "closed" ELSE phase[s]]
    /\ holder' = [s \in Sessions |-> IF s \in S THEN None ELSE holder[s]]
    /\ UNCHANGED used

(* A renewal overtaken by the closing of its session: it answers with a    *)
(* token that renews nothing.                                              *)
Waste(t) ==
    /\ t \notin used
    /\ used' = used \cup {t}
    /\ UNCHANGED <<phase, holder>>

ChainNext ==
    \/ \E s \in Sessions, t \in Tokens : Open(s, t) \/ Rotate(s, t)
    \/ \E S \in SUBSET Sessions : Close(S)
    \/ \E t \in Tokens : Waste(t)

ChainSpec == ChainInit /\ [][ChainNext]_chainVars
===============================================================================
