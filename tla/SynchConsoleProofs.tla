------------------------- MODULE SynchConsoleProofs -------------------------
(***************************************************************************)
(* Proofs about SynchConsole, for any set of threads and lines of any      *)
(* length: the line locks make every Write and Read whole, and the device  *)
(* is never given a character while it is busy.                            *)
(***************************************************************************)
EXTENDS SynchConsole, FiniteSetTheorems, TLAPS

-----------------------------------------------------------------------------
(* Who has a line: the threads in Write or Read that do not wait for it. *)
HasW(p) == pc[p] = "write" /\ waits[p] # "WLineBlock"
HasR(p) == pc[p] \in {"read", "getchar"} /\ waits[p] # "RLineBlock"

(* A thread sleeps on a semaphore only inside the call that uses it. *)
Places ==
    \A p \in Proc :
        /\ waits[p] \in {"WLineBlock", "writeAvail"} => pc[p] = "write"
        /\ waits[p] = "WLineBlock" => loop[p] = 0
        /\ waits[p] = "RLineBlock" => pc[p] = "read"
        /\ waits[p] = "readAvail" => pc[p] = "getchar"
        /\ pc[p] = "read" => loop[p] = 0
        /\ pc[p] = "getchar" => loop[p] < n[p]
        /\ loop[p] <= n[p]

(* The two line locks. *)
Lines ==
    /\ \A p, q \in Proc : HasW(p) /\ HasW(q) => p = q
    /\ \A p, q \in Proc : HasR(p) /\ HasR(q) => p = q
    /\ sem["WLineBlock"] = IF \E p \in Proc : HasW(p) THEN 0 ELSE 1
    /\ sem["RLineBlock"] = IF \E p \in Proc : HasR(p) THEN 0 ELSE 1

(* A character is with the device, or its completion is a unit, not both. *)
Device ==
    /\ putBusy => sem["writeAvail"] = 0
    /\ sem["writeAvail"] <= 1
    /\ WriterWoken
    /\ NoBusyPut

(* The display shows the line of the writer that has begun one; every other  *)
(* line is complete.                                                         *)
Displayed ==
    /\ \A p \in Proc : HasW(p) /\ loop[p] > 0 => shown.owner = p /\ shown.left = n[p] - loop[p]
    /\ shown.left > 0 => shown.owner \in Proc /\ HasW(shown.owner) /\ loop[shown.owner] > 0

(* A line that was begun belongs to the reader that has the lock. *)
Taken == taker # NULL => HasR(taker) /\ pc[taker] = "getchar"

(* KeysKept without counting: at most one thread is about to take a key. *)
Kept ==
    sem["readAvail"] + (IF \E p \in Proc : pc[p] = "getchar" /\ waits[p] = NULL THEN 1 ELSE 0)
        = strays + IF incoming = NULL THEN 0 ELSE 1

IInv == TypeOK /\ Places /\ Lines /\ Device /\ Displayed /\ Taken /\ Kept

-----------------------------------------------------------------------------
(* A sleeper takes its unit. *)
LEMMA ResumeIInv ==
    ASSUME IInv, NEW p \in Proc, Resume(p)
    PROVE  IInv'
<1> USE SynchConsoleAssumption DEF IInv, Resume, At, Goto, Leave, DoP, DoV,
        CS!Wait, CS!Take, CS!Release, SemId
<1>1. TypeOK'
  BY DEF TypeOK, deviceVars, ghostVars
<1>2. Places'
  BY DEF Places, TypeOK, deviceVars, ghostVars
<1>3. Lines'
  BY DEF Lines, HasW, HasR, Places, TypeOK, deviceVars, ghostVars
<1>4. Device'
  BY DEF Device, WriterWoken, NoBusyPut, Lines, HasW, Places, TypeOK, deviceVars, ghostVars
<1>5. Displayed'
  BY DEF Displayed, Lines, HasW, Places, TypeOK, deviceVars, ghostVars
<1>6. Taken'
  BY DEF Taken, Lines, HasR, Places, TypeOK, deviceVars, ghostVars
<1>7. Kept'
  BY DEF Kept, Lines, HasR, Places, TypeOK, deviceVars, ghostVars
<1> QED
  BY <1>1, <1>2, <1>3, <1>4, <1>5, <1>6, <1>7

(* Write takes the line or waits for it. *)
LEMMA WriteCallIInv ==
    ASSUME IInv, NEW p \in Proc, NEW k \in 0 .. MaxBytes, WriteCall(p, k)
    PROVE  IInv'
<1> USE SynchConsoleAssumption DEF IInv, WriteCall, At, Goto, Leave, DoP, DoV,
        CS!Wait, CS!Take, CS!Release, SemId
<1>1. TypeOK'
  BY DEF TypeOK, deviceVars, ghostVars
<1>2. Places'
  BY DEF Places, TypeOK, deviceVars, ghostVars
<1>3. Lines'
  BY DEF Lines, HasW, HasR, Places, TypeOK, deviceVars, ghostVars
<1>4. Device'
  BY DEF Device, WriterWoken, NoBusyPut, Lines, HasW, Places, TypeOK, deviceVars, ghostVars
<1>5. Displayed'
  BY DEF Displayed, Lines, HasW, Places, TypeOK, deviceVars, ghostVars
<1>6. Taken'
  BY DEF Taken, Lines, HasR, Places, TypeOK, deviceVars, ghostVars
<1>7. Kept'
  BY DEF Kept, Lines, HasR, Places, TypeOK, deviceVars, ghostVars
<1> QED
  BY <1>1, <1>2, <1>3, <1>4, <1>5, <1>6, <1>7

(* PutChar hands the device one character, and the writer sleeps for it. *)
LEMMA WriteCharIInv ==
    ASSUME IInv, NEW p \in Proc, WriteChar(p)
    PROVE  IInv'
<1> USE SynchConsoleAssumption DEF IInv, WriteChar, PutChar, At, Goto, Leave, DoP, DoV,
        CS!Wait, CS!Take, CS!Release, SemId
<1>0. ~putBusy /\ sem["writeAvail"] = 0
  BY DEF Device, WriterWoken, Lines, HasW, Places, TypeOK
<1>a. /\ putBusy' = TRUE
      /\ shown' = [owner |-> p, left |-> n[p] - loop[p] - 1]
      /\ loop' = [loop EXCEPT ![p] = @ + 1]
      /\ waits' = [waits EXCEPT ![p] = "writeAvail"]
      /\ UNCHANGED <<sem, machine, incoming, pc, n, result, taker, strays>>
  BY <1>0
<1>b. n[p] - loop[p] - 1 \in 0 .. MaxBytes /\ loop[p] + 1 \in 0 .. MaxBytes
  BY DEF TypeOK
<1>c. shown' \in [owner : Proc \cup {NULL}, left : 0 .. MaxBytes]
  BY <1>a, <1>b
<1>1. TypeOK'
  BY <1>a, <1>b, <1>c DEF TypeOK
<1>2. Places'
  BY DEF Places, TypeOK, deviceVars, ghostVars
<1>3. Lines'
  BY DEF Lines, HasW, HasR, Places, TypeOK, deviceVars, ghostVars
<1>4. Device'
  BY DEF Device, WriterWoken, NoBusyPut, Lines, HasW, Places, TypeOK, deviceVars, ghostVars
<1>d. shown'.owner = p /\ shown'.left = n[p] - loop[p] - 1
  BY <1>a
<1>5. Displayed'
  BY <1>a, <1>d DEF Displayed, Lines, HasW, Places, TypeOK
<1>6. Taken'
  BY DEF Taken, Lines, HasR, Places, TypeOK, deviceVars, ghostVars
<1>7. Kept'
  BY DEF Kept, Lines, HasR, Places, TypeOK, deviceVars, ghostVars
<1> QED
  BY <1>1, <1>2, <1>3, <1>4, <1>5, <1>6, <1>7

(* Write gives the line back. *)
LEMMA WriteReturnIInv ==
    ASSUME IInv, NEW p \in Proc, WriteReturn(p)
    PROVE  IInv'
<1> USE SynchConsoleAssumption DEF IInv, WriteReturn, At, Goto, Leave, DoP, DoV,
        CS!Wait, CS!Take, CS!Release, SemId
<1>1. TypeOK'
  BY DEF TypeOK, deviceVars, ghostVars
<1>2. Places'
  BY DEF Places, TypeOK, deviceVars, ghostVars
<1>3. Lines'
  BY DEF Lines, HasW, HasR, Places, TypeOK, deviceVars, ghostVars
<1>4. Device'
  BY DEF Device, WriterWoken, NoBusyPut, Lines, HasW, Places, TypeOK, deviceVars, ghostVars
<1>5. Displayed'
  BY DEF Displayed, Lines, HasW, Places, TypeOK, deviceVars, ghostVars
<1>6. Taken'
  BY DEF Taken, Lines, HasR, Places, TypeOK, deviceVars, ghostVars
<1>7. Kept'
  BY DEF Kept, Lines, HasR, Places, TypeOK, deviceVars, ghostVars
<1> QED
  BY <1>1, <1>2, <1>3, <1>4, <1>5, <1>6, <1>7

(* The interrupt for the character displayed. *)
LEMMA WriteDoneIInv ==
    ASSUME IInv, WriteDone
    PROVE  IInv'
<1> USE SynchConsoleAssumption DEF IInv, WriteDone, At, Goto, Leave, DoP, DoV,
        CS!Wait, CS!Take, CS!Release, SemId
<1>0. sem' \in [SemId -> Nat]
  BY DEF TypeOK
<1>a. putBusy' = FALSE
  OBVIOUS
<1>1. TypeOK'
  BY <1>0, <1>a DEF TypeOK, deviceVars, ghostVars
<1>2. Places'
  BY DEF Places, TypeOK, deviceVars, ghostVars
<1>3. Lines'
  BY DEF Lines, HasW, HasR, Places, TypeOK, deviceVars, ghostVars
<1>4. Device'
  BY DEF Device, WriterWoken, NoBusyPut, Lines, HasW, Places, TypeOK, deviceVars, ghostVars
<1>5. Displayed'
  BY DEF Displayed, Lines, HasW, Places, TypeOK, deviceVars, ghostVars
<1>6. Taken'
  BY DEF Taken, Lines, HasR, Places, TypeOK, deviceVars, ghostVars
<1>7. Kept'
  BY DEF Kept, Lines, HasR, Places, TypeOK, deviceVars, ghostVars
<1> QED
  BY <1>1, <1>2, <1>3, <1>4, <1>5, <1>6, <1>7

(* The interrupt for a key. *)
LEMMA CheckCharAvailIInv ==
    ASSUME IInv, NEW key \in Keys, CheckCharAvail(key)
    PROVE  IInv'
<1> USE SynchConsoleAssumption DEF IInv, CheckCharAvail, At, Goto, Leave, DoP, DoV,
        CS!Wait, CS!Take, CS!Release, SemId
<1>1. TypeOK'
  BY DEF TypeOK, deviceVars, ghostVars
<1>2. Places'
  BY DEF Places, TypeOK, deviceVars, ghostVars
<1>3. Lines'
  BY DEF Lines, HasW, HasR, Places, TypeOK, deviceVars, ghostVars
<1>4. Device'
  BY DEF Device, WriterWoken, NoBusyPut, Lines, HasW, Places, TypeOK, deviceVars, ghostVars
<1>5. Displayed'
  BY DEF Displayed, Lines, HasW, Places, TypeOK, deviceVars, ghostVars
<1>6. Taken'
  BY DEF Taken, Lines, HasR, Places, TypeOK, deviceVars, ghostVars
<1>7. Kept'
  BY DEF Kept, Lines, HasR, Places, TypeOK, deviceVars, ghostVars
<1> QED
  BY <1>1, <1>2, <1>3, <1>4, <1>5, <1>6, <1>7

(* Read takes the line or waits for it. *)
LEMMA ReadCallIInv ==
    ASSUME IInv, NEW p \in Proc, NEW k \in 0 .. MaxBytes, ReadCall(p, k)
    PROVE  IInv'
<1> USE SynchConsoleAssumption DEF IInv, ReadCall, At, Goto, Leave, DoP, DoV,
        CS!Wait, CS!Take, CS!Release, SemId
<1>1. TypeOK'
  BY DEF TypeOK, deviceVars, ghostVars
<1>2. Places'
  BY DEF Places, TypeOK, deviceVars, ghostVars
<1>3. Lines'
  BY DEF Lines, HasW, HasR, Places, TypeOK, deviceVars, ghostVars
<1>4. Device'
  BY DEF Device, WriterWoken, NoBusyPut, Lines, HasW, Places, TypeOK, deviceVars, ghostVars
<1>5. Displayed'
  BY DEF Displayed, Lines, HasW, Places, TypeOK, deviceVars, ghostVars
<1>6. Taken'
  BY DEF Taken, Lines, HasR, Places, TypeOK, deviceVars, ghostVars
<1>7. Kept'
  BY DEF Kept, Lines, HasR, Places, TypeOK, deviceVars, ghostVars
<1> QED
  BY <1>1, <1>2, <1>3, <1>4, <1>5, <1>6, <1>7

(* Read begins to wait for a key, or returns at once. *)
LEMMA ReadStartIInv ==
    ASSUME IInv, NEW p \in Proc, ReadStart(p)
    PROVE  IInv'
<1> USE SynchConsoleAssumption DEF IInv, ReadStart, ReadReturn, At, Goto, Leave, DoP, DoV,
        CS!Wait, CS!Take, CS!Release, SemId
<1>1. TypeOK'
  BY DEF TypeOK, deviceVars, ghostVars
<1>a. ASSUME n[p] = 0 PROVE Places'
  <2>1. /\ pc' = [pc EXCEPT ![p] = "user"] /\ n' = [n EXCEPT ![p] = 0]
        /\ loop' = [loop EXCEPT ![p] = 0] /\ waits' = waits
    BY <1>a
  <2> QED
    BY <2>1 DEF Places, TypeOK
<1>b. ASSUME n[p] # 0 PROVE Places'
  <2>1. /\ pc' = [pc EXCEPT ![p] = "getchar"] /\ n' = n /\ loop' = loop
        /\ waits' \in {[waits EXCEPT ![p] = NULL], [waits EXCEPT ![p] = "readAvail"]}
    BY <1>b
  <2> QED
    BY <1>b, <2>1 DEF Places, TypeOK
<1>2. Places'
  BY <1>a, <1>b
<1>3. Lines'
  BY DEF Lines, HasW, HasR, Places, TypeOK, deviceVars, ghostVars
<1>4. Device'
  BY DEF Device, WriterWoken, NoBusyPut, Lines, HasW, Places, TypeOK, deviceVars, ghostVars
<1>5. Displayed'
  BY DEF Displayed, Lines, HasW, Places, TypeOK, deviceVars, ghostVars
<1>6. Taken'
  BY DEF Taken, Lines, HasR, Places, TypeOK, deviceVars, ghostVars
<1>7. Kept'
  BY DEF Kept, Lines, HasR, Places, TypeOK, deviceVars, ghostVars
<1> QED
  BY <1>1, <1>2, <1>3, <1>4, <1>5, <1>6, <1>7

(* GetChar, and the next P of Read or its return. *)
LEMMA ReadCharIInv ==
    ASSUME IInv, NEW p \in Proc, ReadChar(p)
    PROVE  IInv'
<1> USE SynchConsoleAssumption DEF IInv, ReadChar, ReadReturn, At, Goto, Leave, DoP, DoV,
        CS!Wait, CS!Take, CS!Release, SemId
<1>0. strays' \in Nat
  BY DEF Kept, TypeOK
<1>a. sem' \in [SemId -> Nat] /\ waits' \in [Proc -> SemId \cup {NULL}]
  BY DEF TypeOK
<1>b. /\ pc' \in [Proc -> {"user", "write", "read", "getchar"}]
      /\ n' \in [Proc -> 0 .. MaxBytes] /\ loop' \in [Proc -> 0 .. MaxBytes]
  BY DEF TypeOK
<1>c. result' \in -1 .. MaxBytes /\ taker' \in Proc \cup {NULL}
  BY DEF TypeOK
<1>1. TypeOK'
  BY <1>0, <1>a, <1>b, <1>c DEF TypeOK, deviceVars, ghostVars
<1>2. Places'
  BY DEF Places, TypeOK, deviceVars, ghostVars
<1>3. Lines'
  BY DEF Lines, HasW, HasR, Places, TypeOK, deviceVars, ghostVars
<1>4. Device'
  BY DEF Device, WriterWoken, NoBusyPut, Lines, HasW, Places, TypeOK, deviceVars, ghostVars
<1>5. Displayed'
  BY DEF Displayed, Lines, HasW, Places, TypeOK, deviceVars, ghostVars
<1>6. Taken'
  BY DEF Taken, Lines, HasR, Places, TypeOK, deviceVars, ghostVars
<1>7. Kept'
  BY DEF Kept, Lines, HasR, Places, TypeOK, deviceVars, ghostVars
<1> QED
  BY <1>1, <1>2, <1>3, <1>4, <1>5, <1>6, <1>7

(* The console begins with an idle device and both lines free. *)
LEMMA InitIInv == Init => IInv
<1> SUFFICES ASSUME Init PROVE IInv
  OBVIOUS
<1> USE SynchConsoleAssumption DEF Init, CS!Init, SemId
<1>1. /\ sem = [s \in SemId |-> IF s \in {"RLineBlock", "WLineBlock"} THEN 1 ELSE 0]
      /\ waits = [p \in Proc |-> NULL] /\ pc = [p \in Proc |-> "user"]
      /\ shown.owner = NULL /\ shown.left = 0
  OBVIOUS
<1>a. shown \in [owner : Proc \cup {NULL}, left : 0 .. MaxBytes]
  OBVIOUS
<1>b. sem \in [SemId -> Nat] /\ result \in -1 .. MaxBytes /\ strays \in Nat
  OBVIOUS
<1>c. putBusy = FALSE
  OBVIOUS
<1>2. TypeOK
  BY <1>a, <1>b, <1>c DEF TypeOK
<1>3. Places /\ Lines
  BY <1>1 DEF Places, Lines, HasW, HasR
<1>4. Device /\ Displayed
  BY <1>1 DEF Device, WriterWoken, NoBusyPut, Displayed, HasW
<1>5. Taken /\ Kept
  BY <1>1 DEF Taken, Kept
<1> QED
  BY <1>2, <1>3, <1>4, <1>5 DEF IInv

(* Every step of a thread or of the device keeps the invariant. *)
LEMMA NextIInv == IInv /\ [Next]_vars => IInv'
<1> SUFFICES ASSUME IInv, [Next]_vars PROVE IInv'
  OBVIOUS
<1>1. CASE UNCHANGED vars
  BY <1>1 DEF vars, deviceVars, ghostVars, IInv, TypeOK, Places, Lines, HasW, HasR, Device,
              WriterWoken, NoBusyPut, Displayed, Taken, Kept
<1>2. ASSUME NEW p \in Proc, Kernel(p) PROVE IInv'
  BY <1>2, ResumeIInv, WriteCharIInv, WriteReturnIInv, ReadStartIInv, ReadCharIInv DEF Kernel
<1>3. ASSUME NEW p \in Proc, NEW k \in 0 .. MaxBytes,
             WriteCall(p, k) \/ ReadCall(p, k)
      PROVE  IInv'
  BY <1>3, WriteCallIInv, ReadCallIInv
<1>4. CASE WriteDone
  BY <1>4, WriteDoneIInv
<1>5. ASSUME NEW key \in Keys, CheckCharAvail(key) PROVE IInv'
  BY <1>5, CheckCharAvailIInv
<1> QED
  BY <1>1, <1>2, <1>3, <1>4, <1>5 DEF Next

(* So it always holds. *)
THEOREM Inductive == Spec => []IInv
BY InitIInv, NextIInv, PTL DEF Spec

(* At most one thread is about to take a key, so counting them is easy. *)
LEMMA GettersCounted ==
    IInv => Cardinality(Getters)
                = IF \E p \in Proc : pc[p] = "getchar" /\ waits[p] = NULL THEN 1 ELSE 0
<1> SUFFICES ASSUME IInv PROVE Cardinality(Getters)
                = IF \E p \in Proc : pc[p] = "getchar" /\ waits[p] = NULL THEN 1 ELSE 0
  OBVIOUS
<1>1. CASE \E p \in Proc : pc[p] = "getchar" /\ waits[p] = NULL
  <2>1. PICK p \in Proc : pc[p] = "getchar" /\ waits[p] = NULL
    BY <1>1
  <2>2. Getters = {p}
    BY <2>1, SynchConsoleAssumption DEF Getters, IInv, Lines, HasR
  <2> QED
    BY <1>1, <2>2, FS_Singleton
<1>2. CASE ~ \E p \in Proc : pc[p] = "getchar" /\ waits[p] = NULL
  <2>1. Getters = {}
    BY <1>2 DEF Getters
  <2> QED
    BY <1>2, <2>1, FS_EmptySet
<1> QED
  BY <1>1, <1>2

-----------------------------------------------------------------------------
(* The ASSERT of Console::PutChar never fails, for any number of writers and *)
(* any lengths (console.cc:145).                                             *)
THEOREM DeviceNeverBusy == Spec => []NoBusyPut
<1>1. IInv => NoBusyPut
  BY DEF IInv, Device
<1> QED
  BY <1>1, Inductive, PTL

(* A writer sleeps exactly while its character is displayed or its wake-up   *)
(* is not consumed (synchcons.cc:79-83).                                     *)
THEOREM WriterAlwaysWoken == Spec => []WriterWoken
<1>1. IInv => WriterWoken
  BY DEF IInv, Device
<1> QED
  BY <1>1, Inductive, PTL

(* A line typed goes to one reader (synchcons.cc:110-134). *)
THEOREM ReadsAreWhole == Spec => []ReadWhole
<1>1. IInv => ReadWhole
  BY SynchConsoleAssumption DEF IInv, Taken, Lines, HasR, ReadWhole, TypeOK
<1> QED
  BY <1>1, Inductive, PTL

(* No key is lost or overwritten and none waits without a wake-up            *)
(* (console.cc:85-110).                                                      *)
THEOREM NoKeyLost == Spec => []KeysKept
<1>1. IInv => KeysKept
  BY GettersCounted DEF IInv, Kept, KeysKept
<1> QED
  BY <1>1, Inductive, PTL

(* The characters of one Write are displayed together (synchcons.cc:70-90). *)
THEOREM WritesAreWhole == Spec => WriteWhole
<1>1. IInv /\ [Next]_vars => [shown' # shown => shown.left = 0 \/ shown.owner = shown'.owner]_vars
  <2> SUFFICES ASSUME IInv, Next, shown' # shown
               PROVE  shown.left = 0 \/ shown.owner = shown'.owner
    OBVIOUS
  <2>1. PICK p \in Proc : WriteChar(p)
    BY DEF Next, Kernel, Resume, WriteReturn, ReadStart, ReadChar, WriteCall, ReadCall, WriteDone,
           CheckCharAvail, ghostVars
  <2>2. HasW(p) /\ shown'.owner = p
    BY <2>1, SynchConsoleAssumption DEF WriteChar, PutChar, At, HasW
  <2> QED
    BY <2>2 DEF IInv, Displayed, Lines, TypeOK
<1> QED
  BY <1>1, Inductive, PTL DEF Spec, WriteWhole

(* The device is never handed a character while it is busy, and a writer     *)
(* sleeps exactly as long as its character is not consumed, for any number   *)
(* of writers and any lengths (Console::PutChar and WriteDone).              *)
THEOREM DeviceAlwaysRight == Spec => []DeviceRight
<1>1. IInv => DeviceRight
  BY DEF IInv, Device, DeviceRight
<1> QED
  BY <1>1, Inductive, PTL

(* A line typed goes to one reader, and no key is lost, overwritten or left  *)
(* without a wake-up, however many threads read (SynchConsole::Read).        *)
THEOREM ReadersAlwaysRight == Spec => []ReadersRight
BY ReadsAreWhole, NoKeyLost, PTL DEF ReadersRight
=============================================================================
