---------------------------- MODULE MCSynchDisk ----------------------------
(* Two threads on a disk of two tracks with three sectors each. *)
EXTENDS SynchDisk
=============================================================================
