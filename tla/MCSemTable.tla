----------------------------- MODULE MCSemTable -----------------------------
(* Model checking of the table of named semaphores. *)
EXTENDS SemTable

CONSTANTS p1, p2, a, b
=============================================================================
