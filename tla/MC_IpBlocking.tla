----------------------------- MODULE MC_IpBlocking -----------------------------
(* One address, two server processes, two loads at a time. *)
EXTENDS IpBlocking, TLC

CONSTANTS s1, s2, l1, l2, a1, a2, i1
MC_Servers == {s1, s2}
MC_Lookups == {l1, l2}
MC_Admins == {a1, a2}
MC_Ips == {i1}
Symmetry == Permutations(MC_Servers) \cup Permutations(MC_Lookups) \cup Permutations(MC_Admins)
===============================================================================
