---------------------------- MODULE MC_SecondFactor ----------------------------
(* SecondFactor on a small instance: secrets, backup codes, phones and     *)
(* requests are interchangeable.                                           *)
EXTENDS SecondFactor, TLC

Symmetry == Permutations(Secrets) \cup Permutations(Backups)
            \cup Permutations(Phones) \cup Permutations(Requests)
===============================================================================
