----------------------------- MODULE MCThreads -----------------------------
(* Instances of Threads for TLC. *)
EXTENDS Threads, TLC

(* A lock, a zero-initialised semaphore, and a device's completion           *)
(* semaphore.                                                                *)
CONSTANTS t1, t2, t3, mutex, io
MCInitialValue == [s \in Sem |-> IF s = mutex THEN 1 ELSE 0]
=============================================================================
