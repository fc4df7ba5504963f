----------------------------- MODULE MC_Ceremonies -----------------------------
(* Two tabs, two users, and two keys, one of which counts.                   *)
EXTENDS Ceremonies, TLC

CONSTANTS t1, t2, u1, u2, k1, k2, r1, r2
MC_Tabs == {t1, t2}
MC_Users == {u1, u2}
MC_Keys == {k1, k2}
MC_counted == {k1}
MC_Requests == {r1, r2}
Symmetry == Permutations(MC_Tabs) \cup Permutations(MC_Users) \cup Permutations(MC_Requests)
===============================================================================
