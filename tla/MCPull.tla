-------------------------------- MODULE MCPull -------------------------------
(* Two pulls of one image by two processes, one of which may be killed, with *)
(* a single port left; one object in the panel of the first.                 *)
EXTENDS Pull, TLC

CONSTANTS p1, p2, w1, dir

OneDir == [p \in {p1, p2} |-> dir]
==============================================================================
