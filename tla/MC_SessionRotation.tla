--------------------------- MODULE MC_SessionRotation ---------------------------
(* SessionRotation on a small instance: its rows and requests are          *)
(* interchangeable.                                                        *)
EXTENDS SessionRotation, TLC

Symmetry == Permutations(Sessions) \cup Permutations(Tokens) \cup Permutations(Requests)
===============================================================================
