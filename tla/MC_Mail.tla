-------------------------------- MODULE MC_Mail --------------------------------
(* A mail, two processes, and a queue with room for it to be added thrice.    *)
EXTENDS Mail

MC_Jobs == 1 .. 3
===============================================================================
