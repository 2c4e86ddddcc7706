------------------------- MODULE CountingSemaphore -------------------------
(***************************************************************************)
(* What class Semaphore promises its callers (threads/synch.h:22-38),      *)
(* without queues, ready list or CPU: P waits until the value is positive  *)
(* and takes one unit in the same step; V adds one unit.                   *)
(***************************************************************************)
EXTENDS Naturals

CONSTANTS Thread, Sem, initialValue, NULL

VARIABLES
    value,   \* units available
    inP      \* the semaphore a thread waits for

csVars == <<value, inP>>

Init ==
    /\ value = initialValue
    /\ inP = [t \in Thread |-> NULL]

(* P finds no unit: the caller waits. *)
Wait(t, s) ==
    /\ inP[t] = NULL
    /\ value[s] = 0
    /\ inP' = [inP EXCEPT ![t] = s]
    /\ UNCHANGED value

(* P takes a unit, at once or after a wait. *)
Take(t, s) ==
    /\ inP[t] \in {NULL, s}
    /\ value[s] > 0
    /\ value' = [value EXCEPT ![s] = @ - 1]
    /\ inP' = [inP EXCEPT ![t] = NULL]

Release(s) ==
    /\ value' = [value EXCEPT ![s] = @ + 1]
    /\ UNCHANGED inP

Next ==
    \E s \in Sem :
        \/ \E t \in Thread : Wait(t, s) \/ Take(t, s)
        \/ Release(s)

Spec == Init /\ [][Next]_csVars
=============================================================================
