------------------------------ MODULE MC_Accounts ------------------------------
(* Two users, and a profile at each of two providers: one with a confirmed *)
(* address and a second one that is the other's, which is not confirmed.   *)
EXTENDS Accounts, TLC

CONSTANTS p1, p2, e1, e2
MC_Profiles == {p1, p2}
MC_Addresses == {e1, e2}
MC_provider == (p1 :> "github" @@ p2 :> "discord")
MC_account == (p1 :> [address |-> e1, confirmed |-> TRUE, spare |-> e2]
               @@ p2 :> [address |-> e2, confirmed |-> FALSE, spare |-> None])
Symmetry == Permutations(Users) \cup Permutations(Requests)
===============================================================================
