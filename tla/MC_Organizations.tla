--------------------------- MODULE MC_Organizations ---------------------------
(* Organizations on a small instance: users and requests are               *)
(* interchangeable.                                                        *)
EXTENDS Organizations, TLC

Symmetry == Permutations(Users) \cup Permutations(Requests)
===============================================================================
