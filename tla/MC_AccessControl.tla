--------------------------- MODULE MC_AccessControl ---------------------------
(* Two users and two requests at a time. *)
EXTENDS AccessControl, TLC

CONSTANTS ann, bob, p1, p2

MCUsers == {ann, bob}
MCRequests == {p1, p2}
MCAskedRoles == {{"customer"}, {"admin"}, {"moderator", "admin"}}
MCAskedGrants == {{}, {"users:manage"}}
RequestSymmetry == Permutations(MCRequests)
==============================================================================
