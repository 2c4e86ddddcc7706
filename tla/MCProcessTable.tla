--------------------------- MODULE MCProcessTable ---------------------------
(* The instance of ProcessTable for TLC. *)
EXTENDS ProcessTable
=============================================================================
