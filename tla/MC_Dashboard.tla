----------------------------- MODULE MC_Dashboard -----------------------------
(* Two users, two items and two changes at a time, for each card; and for  *)
(* the push card two subscriptions.                                        *)
EXTENDS Push, TLC

CONSTANTS ann, bob, i1, i2, c1, c2, s1, s2
MC_Users == {ann, bob}
MC_Items == {i1, i2}
MC_Clicks == {c1, c2}
MC_Endpoints == {s1, s2}
Symmetry == Permutations(MC_Users) \cup Permutations(MC_Items) \cup Permutations(MC_Clicks)
            \cup Permutations(MC_Endpoints)
===============================================================================
