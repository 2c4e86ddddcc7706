--------------------------- MODULE MCSynchConsole ---------------------------
(* Model checking of the console. *)
EXTENDS SynchConsole

CONSTANTS p1, p2
=============================================================================
