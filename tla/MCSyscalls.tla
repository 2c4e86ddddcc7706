----------------------------- MODULE MCSyscalls -----------------------------
(* Two processes, one file that can be created and one that cannot, a table  *)
(* with two slots for files.                                                 *)
EXTENDS Syscalls, TLC
Symmetry == Permutations(Proc)
=============================================================================
