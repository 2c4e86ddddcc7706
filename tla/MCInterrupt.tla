---------------------------- MODULE MCInterrupt ----------------------------
(* Instances of Interrupt for TLC. *)
EXTENDS Interrupt, TLC

CONSTANTS t1, t2, t3

=============================================================================
