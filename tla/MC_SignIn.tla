------------------------------- MODULE MC_SignIn -------------------------------
(* Two requests at a time from four devices: two that have nothing in      *)
(* common, one that resembles both, and one that tells nothing.            *)
EXTENDS SignIn, TLC

CONSTANTS r1, r2, ip1, ip2, ua1, ua2
MC_Requests == {r1, r2}
Device(ip, agent) == [ip |-> ip, agent |-> agent]
MC_Devices == {Device(ip1, ua1), Device(ip2, ua2), Device(ip1, ua2), Device(None, None)}
Symmetry == Permutations(MC_Requests)
===============================================================================
