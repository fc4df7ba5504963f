--------------------------- MODULE MC_ClientSession ---------------------------
(* Two tabs of one browser, two calls at a time, three with the SDK and two *)
(* with the web client.                                                     *)
EXTENDS ClientSession, TLC

CONSTANTS t1, t2, c1, c2, s1, s2
MC_MaxCalls == [sdk |-> 3, web |-> 2]
MC_Tabs == {t1, t2}
MC_Calls == {c1, c2}
MC_Sessions == {s1, s2}
Symmetry == Permutations(MC_Tabs) \cup Permutations(MC_Calls) \cup Permutations(MC_Sessions)
===============================================================================
