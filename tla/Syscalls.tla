------------------------------ MODULE Syscalls ------------------------------
(***************************************************************************)
(* System calls from end to end: the assembly stubs that user programs are *)
(* linked with (test/start.c), ExceptionHandler (userprog/exception.cc),   *)
(* and below it the table of open files of the stub file system            *)
(* (filesys/filesys.h, filesys/openfile.h) over UNIX (machine/sysdep.cc).  *)
(*                                                                         *)
(* A handler runs without giving up the processor until it enters the      *)
(* console, the process table or the semaphore table, which have modules   *)
(* of their own: here they block the caller for a while and then answer    *)
(* anything they can answer.  Files are names and lengths.                 *)
(***************************************************************************)
EXTENDS Integers, Sequences, FiniteSets

CONSTANTS
    Proc,        \* user processes
    Names,       \* file names
    BadNames,    \* the names that UNIX cannot create (a missing directory)
    NumFiles,    \* slots of openf (15 in the code)
    Counts,      \* byte counts passed to Read and Write
    MaxLength,   \* bound on the length of a file
    NULL

ASSUME SyscallsAssumption ==
    /\ BadNames \subseteq Names
    /\ NumFiles \in Nat \ 0 .. 2
    /\ Counts \subseteq Nat

VARIABLES
    status,      \* "running", "halted" (interrupt->Halt) or "aborted" (ASSERT)
    length,      \* UNIX: length of each file, -1 if it does not exist
    openf,       \* FileSystem::openf
    descriptors, \* UNIX: the number of open file descriptors
    at,          \* what each process is doing in the kernel, NULL at user level
    returned     \* what the last step gave back to a user program, or NULL

files == <<length, openf, descriptors>>
vars == <<status, files, at, returned>>

Slots == 0 .. NumFiles - 1

-----------------------------------------------------------------------------
(* The stubs of test/start.c in their order, which is also the order of the  *)
(* codes in userprog/syscall.h.  A stub is four words: the load of the code, *)
(* the trap, the jump back to the caller and the jump's delay slot.          *)
Stubs == <<"Halt", "Exit", "Exec", "Join", "Create", "Open", "Read", "Write", "Close",
           "Fork", "Yield", "ReadInt", "PrintInt", "ReadChar", "PrintChar",
           "ReadString", "PrintString", "CreateSemaphore", "Signal", "Wait">>
Calls == {Stubs[i] : i \in DOMAIN Stubs}
Code(c) == (CHOOSE i \in DOMAIN Stubs : Stubs[i] = c) - 1
TrapWord(c) == 4 * Code(c) + 1

(* The system call the program makes next when it goes on at a word of the   *)
(* stubs, or NULL if the word takes it back to its caller.  After the last   *)
(* stub comes the jump of __main.                                            *)
GoesOn(word) ==
    LET next == (word + 1) \div 4
    IN  IF word % 4 = 2 \/ next >= Len(Stubs) THEN NULL ELSE Stubs[next + 1]

(* AdvanceProgramCounter: every call reaches the one after the switch; the   *)
(* three semaphore calls have made one before it.                            *)
AdvanceProgramCounter(word) == word + 1
SemaphoreCalls == {"CreateSemaphore", "Signal", "Wait"}
AdvanceTwice(c) == AdvanceProgramCounter(AdvanceProgramCounter(TrapWord(c)))
AfterSwitch(c) ==
    IF c \in SemaphoreCalls
    THEN AdvanceProgramCounter(AdvanceProgramCounter(TrapWord(c)))
    ELSE AdvanceProgramCounter(TrapWord(c))

-----------------------------------------------------------------------------
(* A process traps into the kernel with call c: it has called the stub, or   *)
(* it ran into the stub from the one before.                                 *)
Trap(p, c) ==
    /\ status = "running"
    /\ \/ at[p] = NULL
       \/ at[p] # NULL /\ at[p].doing = "trap" /\ at[p].call = c
Called(p, c) == IF at[p] = NULL THEN c ELSE at[p].called

(* The handler of c ends with r2 in register 2. *)
Return(p, c, name, r2) ==
    LET next == GoesOn(AfterSwitch(c))
    IN  IF next = NULL
        THEN /\ at' = [at EXCEPT ![p] = NULL]
             /\ returned' = [called |-> Called(p, c), last |-> c, name |-> name, r2 |-> r2]
        ELSE /\ at' = [at EXCEPT ![p] =
                            [called |-> Called(p, c), call |-> next, doing |-> "trap"]]
             /\ returned' = NULL

(* The handler of c enters another part of the kernel. *)
Enter(p, c, part) ==
    /\ at' = [at EXCEPT ![p] = [called |-> Called(p, c), call |-> c, doing |-> part]]
    /\ returned' = NULL
    /\ UNCHANGED <<status, files>>

Stop(how) ==
    /\ status' = how
    /\ returned' = NULL
    /\ UNCHANGED <<files, at>>

-----------------------------------------------------------------------------
(* The stub FileSystem and OpenFile. *)
FindFreeSlotAny == {i \in Slots : openf[i] = NULL /\ \A j \in 0 .. i - 1 : openf[j] # NULL}
FindFreeSlot == {i \in 2 .. NumFiles - 1 : openf[i] = NULL /\ \A j \in 2 .. i - 1 : openf[j] # NULL}

OpenForReadWrite(name) == length[name] # -1

Close(i) ==
    /\ openf' = [openf EXCEPT ![i] = NULL]
    /\ descriptors' = descriptors - 1

(* ReadPartial and OpenFile::Read: the bytes from the position to the end. *)
AvailableAny(f, count) == count
Available(f, count) ==
    LET rest == length[f.name] - f.pos
    IN  IF rest <= 0 THEN 0 ELSE IF count < rest THEN count ELSE rest
Advance(i, n) == openf' = [openf EXCEPT ![i].pos = @ + n]

(* WriteFile: a write beyond the end makes the file longer. *)
Extend(f, n) ==
    length' = [length EXCEPT ![f.name] = IF f.pos + n > @ THEN f.pos + n ELSE @]

-----------------------------------------------------------------------------
Init ==
    /\ status = "running"
    /\ length = [n \in Names |-> -1]
    /\ openf = [i \in Slots |->
                    CASE i = 0 -> [name |-> "stdin", type |-> 2, pos |-> 0]
                      [] i = 1 -> [name |-> "stdout", type |-> 3, pos |-> 0]
                      [] OTHER -> NULL]
    /\ descriptors = 2
    /\ at = [p \in Proc |-> NULL]
    /\ returned = NULL

(* Faults of the user program, SC_Halt, and the calls without a handler. *)
Fault(p) == status = "running" /\ at[p] = NULL /\ Stop("halted")
SC_Halt(p) == Trap(p, "Halt") /\ Stop("halted")
Unexpected(p) == \E c \in {"Fork", "Yield"} : Trap(p, c) /\ Stop("halted")

SC_Exec(p) == Trap(p, "Exec") /\ Enter(p, "Exec", "ptable")
SC_Join(p) == Trap(p, "Join") /\ Enter(p, "Join", "ptable")

(* SC_Exit: a status other than 0 does not end the process. *)
SC_Exit(p) ==
    /\ Trap(p, "Exit")
    /\ \/ /\ Return(p, "Exit", NULL, Code("Exit"))
          /\ UNCHANGED <<status, files>>
       \/ Enter(p, "Exit", "finished")

SC_CreateSemaphore(p) == Trap(p, "CreateSemaphore") /\ Enter(p, "CreateSemaphore", "semtab")
SC_Signal(p) == Trap(p, "Signal") /\ Enter(p, "Signal", "semtab")
SC_Wait(p) == Trap(p, "Wait") /\ Enter(p, "Wait", "semtab")

(* The process table and the semaphore table give a result. *)
Answer(p) ==
    /\ status = "running" /\ at[p] # NULL /\ at[p].doing \in {"ptable", "semtab"}
    /\ \E r2 \in {-1, 0} : Return(p, at[p].call, NULL, r2)
    /\ UNCHANGED <<status, files>>

(* SC_Create: OpenForWrite asserts that UNIX can create the file. *)
SC_Create(p, name) ==
    /\ Trap(p, "Create")
    /\ IF name \in BadNames
       THEN Stop("aborted")
       ELSE /\ length' = [length EXCEPT ![name] = 0]
            /\ Return(p, "Create", name, 0)
            /\ UNCHANGED <<status, openf, descriptors>>


(* SC_Open: when the file cannot be opened register 2 still holds the code   *)
(* of the call; types 2 and 3 are answered without looking at the table.     *)
SC_Open(p, name, type) ==
    /\ Trap(p, "Open")
    /\ \/ /\ FindFreeSlot = {}
          /\ Return(p, "Open", name, -1)
          /\ UNCHANGED <<openf, descriptors>>
       \/ \E i \in FindFreeSlot :
            IF type \in {0, 1} /\ OpenForReadWrite(name)
            THEN /\ openf' = [openf EXCEPT ![i] = [name |-> name, type |-> type, pos |-> 0]]
                 /\ descriptors' = descriptors + 1
                 /\ Return(p, "Open", name, i)
            ELSE /\ Return(p, "Open", name,
                           CASE type \in {0, 1} -> Code("Open") [] type = 2 -> 0 [] type = 3 -> 1)
                 /\ UNCHANGED <<openf, descriptors>>
    /\ UNCHANGED <<status, length>>

SC_Close(p, id) ==
    /\ Trap(p, "Close")
    /\ IF id \in Slots /\ openf[id] # NULL
       THEN Close(id) /\ Return(p, "Close", NULL, 0)
       ELSE Return(p, "Close", NULL, -1) /\ UNCHANGED <<openf, descriptors>>
    /\ UNCHANGED <<status, length>>

(* The checks at the head of SC_Read and SC_Write. *)
Refused(id, types) == IF id \in Slots /\ openf[id] # NULL THEN openf[id].type \in types ELSE TRUE

SC_Read(p, count, id) ==
    /\ Trap(p, "Read")
    /\ \/ /\ Refused(id, {3})
          /\ Return(p, "Read", NULL, -1)
          /\ UNCHANGED <<status, files>>
       \/ /\ ~Refused(id, {3}) /\ openf[id].type = 2
          /\ Enter(p, "Read", "console")
       \/ /\ ~Refused(id, {2, 3})
          /\ LET n == Available(openf[id], count)
             IN  Return(p, "Read", NULL, IF n > 0 THEN n ELSE -2) /\ Advance(id, n)
          /\ UNCHANGED <<status, length, descriptors>>

(* SC_Write: a write of no bytes to a file runs on into SC_ReadInt. *)
SC_Write(p, count, id) ==
    /\ Trap(p, "Write")
    /\ \/ /\ Refused(id, {1, 2})
          /\ Return(p, "Write", NULL, -1)
          /\ UNCHANGED <<status, files>>
       \/ /\ ~Refused(id, {1, 2, 3}) /\ count > 0 /\ openf[id].pos + count <= MaxLength
          /\ Extend(openf[id], count)
          /\ Advance(id, count)
          /\ Return(p, "Write", NULL, count)
          /\ UNCHANGED <<status, descriptors>>
       \/ /\ ~Refused(id, {1, 2, 3}) /\ count = 0
          /\ Enter(p, "Write", "ReadInt")
       \/ /\ ~Refused(id, {1, 2}) /\ openf[id].type = 3
          /\ Enter(p, "Write", "console")

SC_ReadInt(p) == Trap(p, "ReadInt") /\ Enter(p, "ReadInt", "ReadInt")
SC_PrintInt(p) == Trap(p, "PrintInt") /\ Enter(p, "PrintInt", "console")
SC_ReadChar(p) == Trap(p, "ReadChar") /\ Enter(p, "ReadChar", "console")
SC_PrintChar(p) == Trap(p, "PrintChar") /\ Enter(p, "PrintChar", "console")
SC_ReadString(p) == Trap(p, "ReadString") /\ Enter(p, "ReadString", "console")
SC_PrintString(p) == Trap(p, "PrintString") /\ Enter(p, "PrintString", "console")

(* The line for ReadInt arrives: a number, or something else that leaves     *)
(* register 2 with the code of the call.                                     *)
ReadIntDone(p) ==
    /\ status = "running" /\ at[p] # NULL /\ at[p].doing = "ReadInt"
    /\ \E r2 \in {0, Code(at[p].call)} : Return(p, at[p].call, NULL, r2)
    /\ UNCHANGED <<status, files>>

(* The other console calls: only Read, Write and ReadChar set register 2. *)
ConsoleDone(p) ==
    /\ status = "running" /\ at[p] # NULL /\ at[p].doing = "console"
    /\ \E r2 \in IF at[p].call \in {"Read", "Write", "ReadChar"}
                 THEN {-1, 1} ELSE {Code(at[p].call)} :
            Return(p, at[p].call, NULL, r2)
    /\ UNCHANGED <<status, files>>

Next ==
    \E p \in Proc :
        \/ Fault(p) \/ SC_Halt(p) \/ Unexpected(p)
        \/ SC_Exec(p) \/ SC_Join(p) \/ SC_Exit(p)
        \/ SC_CreateSemaphore(p) \/ SC_Signal(p) \/ SC_Wait(p) \/ Answer(p)
        \/ \E name \in Names :
            \/ SC_Create(p, name)
            \/ \E type \in 0 .. 3 : SC_Open(p, name, type)
        \/ \E id \in -1 .. NumFiles :
            \/ SC_Close(p, id)
            \/ \E count \in Counts : SC_Read(p, count, id) \/ SC_Write(p, count, id)
        \/ SC_ReadInt(p) \/ SC_PrintInt(p) \/ SC_ReadChar(p) \/ SC_PrintChar(p)
        \/ SC_ReadString(p) \/ SC_PrintString(p)
        \/ ReadIntDone(p) \/ ConsoleDone(p)

Spec == Init /\ [][Next]_vars

-----------------------------------------------------------------------------
TypeOK ==
    /\ status \in {"running", "halted", "aborted"}
    /\ length \in [Names -> -1 .. MaxLength]
    /\ \A i \in Slots : openf[i] = NULL \/ openf[i].pos \in 0 .. MaxLength
    /\ descriptors \in Nat
    /\ \A p \in Proc : at[p] = NULL \/ {at[p].called, at[p].call} \subseteq Calls

(* Slots 0 and 1 hold the console files or, after a Close, nothing: no Open  *)
(* puts another file where Open answers 0 and 1 for the console without      *)
(* looking (exception.cc:291, 301-308; filesys.h:92).                        *)
ConsoleSlots ==
    \A i \in Slots : openf[i] # NULL =>
        openf[i].type \in CASE i = 0 -> {2} [] i = 1 -> {3} [] OTHER -> {0, 1}

(* The open UNIX descriptors are those of the table: no path of Open, Create *)
(* or Close loses one (exception.cc:296, 325).                               *)
DescriptorsHeld == descriptors = Cardinality({i \in Slots : openf[i] # NULL})

(* The table of open files is what its users take it for, whatever processes *)
(* open, close and truncate.                                                 *)
OpenTableRight == TypeOK /\ ConsoleSlots /\ DescriptorsHeld

(* A call of a stub other than the three for semaphores returns after        *)
(* exactly the system call it was written for, and the kernel passes the     *)
(* jump of the stub and nothing else (exception.cc:535; start.c:45-179).     *)
StubReturns ==
    returned # NULL /\ returned.called \notin SemaphoreCalls => returned.last = returned.called

(* Read moves the position over bytes that are in the file, also when        *)
(* another process has truncated it with Create in the meantime              *)
(* (exception.cc:372-376).                                                   *)
ReadWithinFile ==
    [][\A i \in Slots :
        (returned' # NULL /\ returned'.last = "Read" /\ openf'[i] # openf[i]) =>
            /\ returned'.r2 = openf'[i].pos - openf[i].pos
            /\ openf'[i].pos <= length[openf[i].name]]_vars

(* start.c:35: "There is one stub per system call, that places the code for  *)
(* the system call into register r2": calling a stub makes that system call. *)
OneCallPerStub == returned # NULL => returned.last = returned.called

(* Open answers with the slot where it put the file, unless it failed: then  *)
(* register 2 still holds the code of Open, 5, which a program cannot tell   *)
(* from slot 5 (exception.cc:296; syscall.h:101).                            *)
OpenAnswersSlot ==
    [][(/\ returned' # NULL /\ returned'.last = "Open"
        /\ returned'.r2 \in Slots \ {0, 1, Code("Open")}) =>
            /\ openf[returned'.r2] = NULL
            /\ openf'[returned'.r2] # NULL
            /\ openf'[returned'.r2].name = returned'.name]_vars

(* What Read and Open answer is true of the table they leave. *)
AnswersRight == ReadWithinFile /\ OpenAnswersSlot
=============================================================================
