---------------------------- MODULE SynchConsole ----------------------------
(***************************************************************************)
(* The console: class SynchConsole (threads/synchcons.cc), through which   *)
(* the system calls read and write lines, on the simulated device          *)
(* (machine/console.cc), which moves one character at a time and reports   *)
(* by interrupt.                                                           *)
(*                                                                         *)
(* Characters are abstracted to what Read tells apart.  An action is the   *)
(* code between two points where a P or V turns interrupts back on; the    *)
(* device's interrupt handlers are actions of their own.                   *)
(***************************************************************************)
EXTENDS Integers, FiniteSets

CONSTANTS
    Proc,       \* threads that use the console
    MaxBytes,   \* bound: the longest line a program asks for
    Keys,       \* what is typed: "char", "newline", "ctrlA", "xff"
    MaxUnits,   \* bound: units of synchReadAvail that "xff" may pile up
    NULL

ASSUME SynchConsoleAssumption ==
    /\ MaxBytes \in Nat /\ MaxUnits \in Nat
    /\ Keys \subseteq {"char", "newline", "ctrlA", "xff"}
    /\ NULL \notin Keys \cup Proc \cup {"readAvail", "writeAvail", "RLineBlock", "WLineBlock"}

VARIABLES
    incoming,   \* Console::incoming, NULL when EOF
    putBusy,    \* Console::putBusy; its ConsoleWriteInt is then pending
    sem,        \* the four semaphores
    waits,      \* the semaphore in whose P a thread sleeps
    pc, n, loop,\* where a thread is, numBytes, and how many bytes are done
    result,     \* what the last Read returned
    shown,      \* whose character was displayed last; how many its line lacks
    taker,      \* the thread that got the last key, until its Read returns
    strays,     \* wake-ups announced for a 0xff and not yet spent
    machine     \* "up", or "assert" when the ASSERT of PutChar failed

deviceVars == <<incoming, putBusy, machine>>
ghostVars == <<result, shown, taker, strays>>
vars == <<deviceVars, sem, waits, pc, n, loop, ghostVars>>

SemId == {"readAvail", "writeAvail", "RLineBlock", "WLineBlock"}

TypeOK ==
    /\ incoming \in (Keys \ {"xff"}) \cup {NULL}
    /\ putBusy \in BOOLEAN
    /\ sem \in [SemId -> Nat]
    /\ waits \in [Proc -> SemId \cup {NULL}]
    /\ pc \in [Proc -> {"user", "write", "read", "getchar"}]
    /\ n \in [Proc -> 0 .. MaxBytes]
    /\ loop \in [Proc -> 0 .. MaxBytes]
    /\ result \in -1 .. MaxBytes
    /\ shown \in [owner : Proc \cup {NULL}, left : 0 .. MaxBytes]
    /\ taker \in Proc \cup {NULL}
    /\ strays \in Nat
    /\ machine \in {"up", "assert"}

CS == INSTANCE CountingSemaphore WITH
        Thread <- Proc, Sem <- SemId, value <- sem, inP <- waits,
        initialValue <- [s \in SemId |->
                            IF s \in {"RLineBlock", "WLineBlock"} THEN 1 ELSE 0]

(* Semaphore::P, up to its return or its Sleep, and Semaphore::V. *)
DoP(p, s) == CS!Wait(p, s) \/ CS!Take(p, s)
DoV(s) == CS!Release(s)

Init ==
    /\ incoming = NULL
    /\ putBusy = FALSE
    /\ CS!Init
    /\ pc = [p \in Proc |-> "user"]
    /\ n = [p \in Proc |-> 0]
    /\ loop = [p \in Proc |-> 0]
    /\ result = 0
    /\ shown = [owner |-> NULL, left |-> 0]
    /\ taker = NULL
    /\ strays = 0
    /\ machine = "up"

At(p, l) == machine = "up" /\ pc[p] = l /\ waits[p] = NULL
Goto(p, l) == pc' = [pc EXCEPT ![p] = l]

(* A call returns: its local variables end. *)
Leave(p) ==
    /\ Goto(p, "user")
    /\ n' = [n EXCEPT ![p] = 0]
    /\ loop' = [loop EXCEPT ![p] = 0]

Resume(p) ==
    /\ machine = "up"
    /\ waits[p] # NULL
    /\ CS!Take(p, waits[p])
    /\ UNCHANGED <<deviceVars, pc, n, loop, ghostVars>>

-----------------------------------------------------------------------------
(* SynchConsole::Write. *)
(* Mutant: Write without WLineBlock->P(). *)
WriteCallNoLock(p, k) ==
    /\ At(p, "user")
    /\ n' = [n EXCEPT ![p] = k]
    /\ loop' = [loop EXCEPT ![p] = 0]
    /\ Goto(p, "write")
    /\ UNCHANGED <<deviceVars, sem, waits, ghostVars>>

WriteCall(p, k) ==
    /\ At(p, "user")
    /\ DoP(p, "WLineBlock")
    /\ n' = [n EXCEPT ![p] = k]
    /\ loop' = [loop EXCEPT ![p] = 0]
    /\ Goto(p, "write")
    /\ UNCHANGED <<deviceVars, ghostVars>>

(* Console::PutChar up to its ASSERT, and the rest of it. *)
PutChar(p) ==
    IF putBusy
    THEN machine' = "assert" /\ UNCHANGED <<putBusy, shown>>
    ELSE /\ putBusy' = TRUE
         /\ shown' = [owner |-> p, left |-> n[p] - loop[p] - 1]
         /\ UNCHANGED machine

WriteChar(p) ==
    /\ At(p, "write")
    /\ loop[p] < n[p]
    /\ PutChar(p)
    /\ loop' = [loop EXCEPT ![p] = @ + 1]
    /\ DoP(p, "writeAvail")
    /\ UNCHANGED <<incoming, pc, n, result, taker, strays>>

(* Mutant: the line is given back before its last character. *)
WriteReturnEarly(p) ==
    /\ At(p, "write")
    /\ loop[p] + 1 >= n[p]
    /\ DoV("WLineBlock")
    /\ Leave(p)
    /\ UNCHANGED <<deviceVars, ghostVars>>

WriteReturn(p) ==
    /\ At(p, "write")
    /\ loop[p] = n[p]
    /\ DoV("WLineBlock")
    /\ Leave(p)
    /\ UNCHANGED <<deviceVars, ghostVars>>

(* Console::WriteDone and SynchWriteFunct. *)
WriteDone ==
    /\ machine = "up" /\ putBusy
    /\ putBusy' = FALSE
    /\ DoV("writeAvail")
    /\ UNCHANGED <<incoming, machine, pc, n, loop, ghostVars>>

-----------------------------------------------------------------------------
(* Console::CheckCharAvail, when a key was typed and the buffer is empty,    *)
(* and SynchReadFunct.  The character 0xff is EOF once it is in incoming: it *)
(* leaves the buffer empty, but is announced like any other.                 *)
(* Mutant: CheckCharAvail that does not test incoming. *)
CheckCharAvailOverwrites(key) ==
    /\ machine = "up"
    /\ incoming' = IF key = "xff" THEN NULL ELSE key
    /\ sem["readAvail"] < MaxUnits
    /\ strays' = IF key = "xff" THEN strays + 1 ELSE strays
    /\ DoV("readAvail")
    /\ UNCHANGED <<putBusy, machine, pc, n, loop, result, shown, taker>>

CheckCharAvail(key) ==
    /\ machine = "up"
    /\ incoming = NULL
    /\ key = "xff" => sem["readAvail"] < MaxUnits
    /\ incoming' = IF key = "xff" THEN NULL ELSE key
    /\ strays' = IF key = "xff" THEN strays + 1 ELSE strays
    /\ DoV("readAvail")
    /\ UNCHANGED <<putBusy, machine, pc, n, loop, result, shown, taker>>

-----------------------------------------------------------------------------
(* SynchConsole::Read. *)
ReadCall(p, k) ==
    /\ At(p, "user")
    /\ DoP(p, "RLineBlock")
    /\ n' = [n EXCEPT ![p] = k]
    /\ loop' = [loop EXCEPT ![p] = 0]
    /\ Goto(p, "read")
    /\ UNCHANGED <<deviceVars, ghostVars>>

ReadReturn(p, ret) ==
    /\ DoV("RLineBlock")
    /\ result' = ret
    /\ taker' = NULL
    /\ Leave(p)

(* The first P of the loop.  A Read of no bytes skips the loop and compares  *)
(* an uninitialised ch with CTRL-A.                                          *)
ReadStart(p) ==
    /\ At(p, "read")
    /\ IF n[p] = 0
       THEN \E ret \in {0, -1} : ReadReturn(p, ret)
       ELSE /\ DoP(p, "readAvail")
            /\ Goto(p, "getchar")
            /\ UNCHANGED <<n, loop, result, taker>>
    /\ UNCHANGED <<deviceVars, shown, strays>>

(* Mutant: the test for the end of a line expects another character. *)
ReadCharNoNewline(p) ==
    /\ At(p, "getchar")
    /\ incoming' = NULL
    /\ strays' = IF incoming = NULL THEN strays - 1 ELSE strays
    /\ \/ /\ incoming \in {NULL, "newline"}
          /\ DoP(p, "readAvail")
          /\ UNCHANGED <<pc, n, loop, result, taker>>
       \/ /\ incoming = "ctrlA"
          /\ ReadReturn(p, -1)
       \/ /\ incoming = "char" /\ loop[p] + 1 = n[p]
          /\ ReadReturn(p, n[p])
       \/ /\ incoming = "char" /\ loop[p] + 1 < n[p]
          /\ loop' = [loop EXCEPT ![p] = @ + 1]
          /\ taker' = p
          /\ DoP(p, "readAvail")
          /\ UNCHANGED <<pc, n, result>>
    /\ UNCHANGED <<putBusy, machine, shown>>

(* GetChar, and the code up to the next P of the loop or to the return. *)
ReadChar(p) ==
    /\ At(p, "getchar")
    /\ incoming' = NULL
    /\ strays' = IF incoming = NULL THEN strays - 1 ELSE strays
    /\ \/ /\ incoming = NULL
          /\ DoP(p, "readAvail")
          /\ UNCHANGED <<pc, n, loop, result, taker>>
       \/ /\ incoming \in {"newline", "ctrlA"}
          /\ ReadReturn(p, IF incoming = "ctrlA" THEN -1 ELSE loop[p])
       \/ /\ incoming = "char" /\ loop[p] + 1 = n[p]
          /\ ReadReturn(p, n[p])
       \/ /\ incoming = "char" /\ loop[p] + 1 < n[p]
          /\ loop' = [loop EXCEPT ![p] = @ + 1]
          /\ taker' = p
          /\ DoP(p, "readAvail")
          /\ UNCHANGED <<pc, n, result>>
    /\ UNCHANGED <<putBusy, machine, shown>>

-----------------------------------------------------------------------------
(* A call of Write or Read, once entered. *)
Kernel(p) ==
    \/ Resume(p)
    \/ WriteChar(p) \/ WriteReturn(p)
    \/ ReadStart(p) \/ ReadChar(p)

Next ==
    \/ \E p \in Proc : Kernel(p)
    \/ \E p \in Proc, k \in 0 .. MaxBytes : WriteCall(p, k) \/ ReadCall(p, k)
    \/ WriteDone
    \/ \E key \in Keys : CheckCharAvail(key)

Spec == Init /\ [][Next]_vars

(* A thread that can run is scheduled, the device finishes what it displays, *)
(* and somebody goes on typing, not only 0xff.                               *)
FairSpec ==
    /\ Spec
    /\ \A p \in Proc : WF_vars(Kernel(p))
    /\ WF_vars(WriteDone)
    /\ WF_vars(\E key \in Keys \ {"xff"} : CheckCharAvail(key))

-----------------------------------------------------------------------------
(* ASSERT(putBusy == FALSE) in Console::PutChar holds: no thread hands the   *)
(* device a character before the interrupt for the previous one, whoever     *)
(* wrote it.                                                                 *)
NoBusyPut == machine # "assert"

(* The characters of one Write appear together: a character of one thread is *)
(* displayed only when the line displayed before it is complete, or its own. *)
WriteWhole ==
    [][shown' # shown => shown.left = 0 \/ shown.owner = shown'.owner]_vars

(* The characters of one line go to one Read: a thread that is about to take *)
(* a key does not cut into a line that another has begun.                    *)
ReadWhole ==
    \A p \in Proc : pc[p] = "getchar" /\ waits[p] = NULL => taker \in {NULL, p}

(* Threads that synchReadAvail has released and that have not yet called     *)
(* GetChar.                                                                  *)
Getters == {p \in Proc : pc[p] = "getchar" /\ waits[p] = NULL}

(* There is exactly one unit of synchReadAvail, or released reader, for the  *)
(* buffered key, and one for every 0xff announced: no key waits without a    *)
(* wake-up, none is overwritten, and a reader finds the buffer empty only    *)
(* because of a 0xff.                                                        *)
KeysKept ==
    sem["readAvail"] + Cardinality(Getters) = strays + IF incoming = NULL THEN 0 ELSE 1

(* A writer sleeps for a character exactly as long as the device works on it *)
(* or its completion is not yet consumed: the interrupt that wakes it cannot *)
(* come too early, be lost or be left over for the next line.                *)
WriterWoken ==
    (\E p \in Proc : waits[p] = "writeAvail") <=> (putBusy \/ sem["writeAvail"] > 0)

(* The device and its writer take turns: it is given a character only when   *)
(* it is free, and every completion reaches the thread that sleeps for it    *)
(* (SynchConsole::Write, Console::PutChar and WriteDone).                    *)
DeviceRight == TypeOK /\ NoBusyPut /\ WriterWoken

(* Readers get what was typed: each key once, and a line whole               *)
(* (SynchConsole::Read, Console::CheckCharAvail and GetChar).                *)
ReadersRight == ReadWhole /\ KeysKept

(* A thread that has the line finishes its Write.                            *)
WriteEnds ==
    \A p \in Proc : pc[p] = "write" /\ waits[p] # "WLineBlock" ~> pc[p] = "user"

(* A thread that has the line finishes its Read as long as keys are typed,   *)
(* even if other threads read and write meanwhile.                           *)
ReadEnds ==
    \A p \in Proc :
        pc[p] \in {"read", "getchar"} /\ waits[p] # "RLineBlock" ~> pc[p] = "user"

(* Whoever has a line gives it back. *)
LinesEnd == WriteEnds /\ ReadEnds
=============================================================================
