------------------------------ MODULE SemTable ------------------------------
(***************************************************************************)
(* Semaphores for user programs: the system calls CreateSemaphore, Signal  *)
(* and Wait (userprog/exception.cc) on the table of named semaphores       *)
(* (stable.cc, sem.h), and the stubs a program calls (test/start.c).       *)
(*                                                                         *)
(* Each of the three handlers calls AdvanceProgramCounter itself, and      *)
(* ExceptionHandler calls it again when the switch ends.  The second call  *)
(* skips the "j $31" behind the syscall instruction, so that the program   *)
(* runs on into the stub that follows in memory, with the name still in    *)
(* register 4: from CreateSemaphore into Signal, from Signal into Wait,    *)
(* from Wait into __main, whose "j $31" returns to the caller.             *)
(*                                                                         *)
(* The calls are atomic up to the P or V in them.  Programs create         *)
(* semaphores with values that are not negative.                           *)
(***************************************************************************)
EXTENDS Integers, FiniteSets, FiniteSetsExt

CONSTANTS
    Proc,       \* threads that run user programs
    Name,       \* names of semaphores
    NumSlots,   \* MAX_SEMAPHORE
    InitVals,   \* initial values that programs ask for
    GARBAGE,    \* a pointer that was never initialised
    NULL

ASSUME SemTableAssumption ==
    /\ NumSlots \in Nat \ {0}
    /\ InitVals \subseteq Nat
    /\ GARBAGE # NULL /\ {GARBAGE, NULL} \cap Name = {}
    /\ NULL \notin 0 .. NumSlots - 1

Slots == 0 .. NumSlots - 1
Stubs == {"CreateSemaphore", "Signal", "Wait"}

VARIABLES
    bm,        \* STable::bm, the set of used slots
    semTab,    \* STable::semTab: the name of each slot's Sem, NULL or GARBAGE
    value,     \* the value of each slot's Semaphore
    waits,     \* the slot in whose P a process sleeps
    pc,        \* the stub a process is in, or "user"
    arg,       \* the name in its register 4
    r2,        \* the result of its last system call
    machine    \* "up", or "crash" after following a garbage pointer

vars == <<bm, semTab, value, waits, pc, arg, r2, machine>>

CS == INSTANCE CountingSemaphore WITH
        Thread <- Proc, Sem <- Slots, inP <- waits, initialValue <- [i \in Slots |-> 0]

TypeOK ==
    /\ bm \in SUBSET Slots
    /\ semTab \in [Slots -> Name \cup {NULL, GARBAGE}]
    /\ value \in [Slots -> Nat]
    /\ waits \in [Proc -> Slots \cup {NULL}]
    /\ pc \in [Proc -> Stubs \cup {"user"}]
    /\ arg \in [Proc -> Name \cup {NULL}]
    /\ r2 \in [Proc -> {-1} \cup Slots]
    /\ machine \in {"up", "crash"}

(* STable::STable leaves semTab uninitialised. *)
Init ==
    /\ bm = {}
    /\ semTab \in [Slots -> {NULL, GARBAGE}]
    /\ CS!Init
    /\ pc = [p \in Proc |-> "user"]
    /\ arg = [p \in Proc |-> NULL]
    /\ r2 = [p \in Proc |-> 0]
    /\ machine = "up"

-----------------------------------------------------------------------------
Holding(name) == {i \in Slots : semTab[i] = name}

(* STable::IsExist: the lowest slot with that name. *)
IsExist(name) == IF Holding(name) = {} THEN -1 ELSE Min(Holding(name))

(* The scan of IsExist meets a garbage pointer before it finds the name. *)
Dangling(name) ==
    \E i \in Slots : semTab[i] = GARBAGE /\ (IsExist(name) = -1 \/ i < IsExist(name))

(* Following it ends the machine, unless the memory happens to be readable   *)
(* and to hold another name.                                                 *)
Crash(p) ==
    /\ machine = "up" /\ pc[p] # "user" /\ waits[p] = NULL
    /\ Dangling(arg[p])
    /\ machine' = "crash"
    /\ UNCHANGED <<bm, semTab, value, waits, pc, arg, r2>>

(* BitMap::Find, -1 when every slot is used. *)
(* Mutant: the highest free slot. *)
FindHighest == IF bm = Slots THEN -1 ELSE Max(Slots \ bm)

Find == IF bm = Slots THEN -1 ELSE Min(Slots \ bm)

(* A program calls a stub. *)
Call(p, stub, name) ==
    /\ machine = "up" /\ pc[p] = "user" /\ waits[p] = NULL
    /\ pc' = [pc EXCEPT ![p] = stub]
    /\ arg' = [arg EXCEPT ![p] = name]
    /\ UNCHANGED <<bm, semTab, value, waits, r2, machine>>

(* The process in a stub, its name, and its way on behind the syscall: a     *)
(* call that ends at "user" forgets its arguments.                           *)
In(p, stub) == machine = "up" /\ pc[p] = stub /\ waits[p] = NULL
RunOn(p, to) ==
    /\ pc' = [pc EXCEPT ![p] = to]
    /\ arg' = [arg EXCEPT ![p] = IF to = "user" THEN NULL ELSE @]
    /\ UNCHANGED machine
Result(p, x) == r2' = [r2 EXCEPT ![p] = x]

(* SC_CreateSemaphore and STable::Create, which takes the index 0 for "no    *)
(* such semaphore" and refuses then.                                         *)
CreateSemaphore(p, init) ==
    /\ In(p, "CreateSemaphore")
    /\ IF IsExist(arg[p]) = 0 \/ Find = -1
       THEN Result(p, -1) /\ UNCHANGED <<bm, semTab, value>>
       ELSE /\ bm' = bm \cup {Find}
            /\ semTab' = [semTab EXCEPT ![Find] = arg[p]]
            /\ value' = [value EXCEPT ![Find] = init]
            /\ Result(p, Find)
    /\ RunOn(p, "Signal")
    /\ UNCHANGED waits

(* SC_Signal: it refuses for the index 0, STable::Signal for -1. *)
Signal(p) ==
    /\ In(p, "Signal")
    /\ IF IsExist(arg[p]) \in {0, -1}
       THEN Result(p, -1) /\ UNCHANGED <<value, waits>>
       ELSE Result(p, 0) /\ CS!Release(IsExist(arg[p]))
    /\ RunOn(p, "Wait")
    /\ UNCHANGED <<bm, semTab>>

(* Mutant: SC_Wait without its test of IsExist. *)
WaitUntested(p) ==
    /\ In(p, "Wait")
    /\ UNCHANGED <<bm, semTab>>
    /\ IsExist(arg[p]) # -1
    /\ \/ CS!Take(p, IsExist(arg[p])) /\ Result(p, 0) /\ RunOn(p, "user")
       \/ CS!Wait(p, IsExist(arg[p])) /\ UNCHANGED <<pc, arg, r2, machine>>

(* SC_Wait: likewise.  Result and pc are set when P returns. *)
Wait(p) ==
    /\ In(p, "Wait")
    /\ UNCHANGED <<bm, semTab>>
    /\ \/ /\ IsExist(arg[p]) \in {0, -1}
          /\ Result(p, -1) /\ UNCHANGED <<value, waits>>
          /\ RunOn(p, "user")
       \/ /\ IsExist(arg[p]) \notin {0, -1}
          /\ CS!Take(p, IsExist(arg[p]))
          /\ Result(p, 0)
          /\ RunOn(p, "user")
       \/ /\ IsExist(arg[p]) \notin {0, -1}
          /\ CS!Wait(p, IsExist(arg[p]))
          /\ UNCHANGED <<pc, arg, r2, machine>>

(* The P of a process that slept in Wait takes its unit and returns. *)
Resume(p) ==
    /\ machine = "up"
    /\ waits[p] # NULL
    /\ CS!Take(p, waits[p])
    /\ Result(p, 0)
    /\ RunOn(p, "user")
    /\ UNCHANGED <<bm, semTab>>

Next ==
    \E p \in Proc :
        \/ \E stub \in Stubs, name \in Name : Call(p, stub, name)
        \/ \E init \in InitVals : CreateSemaphore(p, init)
        \/ Signal(p) \/ Wait(p) \/ Resume(p) \/ Crash(p)

Spec == Init /\ [][Next]_vars

-----------------------------------------------------------------------------
(* A name that designates a semaphore designates the same one for ever, even *)
(* though Create makes further semaphores with the same name: Find hands out *)
(* the slots in ascending order and IsExist takes the lowest.                *)
NameStable ==
    [][\A name \in Name : IsExist(name) # -1 => IsExist(name)' = IsExist(name)]_vars

(* A sleeper can be reached: the semaphore it sleeps on is the one that a    *)
(* Signal of the name it waited for finds, and not slot 0, which Signal      *)
(* refuses.                                                                  *)
SleeperReachable ==
    \A p \in Proc : waits[p] # NULL => waits[p] = IsExist(arg[p]) /\ waits[p] > 0

(* The table is what Create, Signal and Wait take it for, and loses nobody   *)
(* who sleeps (STable::Create, Signal and Wait).                             *)
TableUsable == TypeOK /\ SleeperReachable
=============================================================================
