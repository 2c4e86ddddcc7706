---------------------------- MODULE ProcessTable ----------------------------
(***************************************************************************)
(* The process table: the Exec, Join and Exit system calls of              *)
(* userprog/exception.cc on top of PTable (ptable.cc) and PCB (pcb.cc).    *)
(*                                                                         *)
(* A process is named by its thread; its PCB object carries the same name, *)
(* so pcb[i] = p says that slot i points to the PCB of p.  Processes are   *)
(* interrupted only where a P, V or Fork turns interrupts back on, so an   *)
(* action is the code from one such point to the next.  A P that finds no  *)
(* unit leaves the caller waiting (CountingSemaphore, which Threads        *)
(* implements).                                                            *)
(*                                                                         *)
(* File names are left out: ExecUpdate may refuse any Exec, because the    *)
(* file cannot be opened or because the name compares equal to that of the *)
(* calling thread (a string that SC_Exec has already freed).  So are exit  *)
(* codes: SC_Exit passes only 0 to ExitUpdate, and returns to the program  *)
(* without any effect for every other status.                              *)
(***************************************************************************)
EXTENDS Integers, FiniteSets

CONSTANTS
    Proc,         \* threads that run user programs
    Main,         \* the process that main() starts, with pid 0
    NumSlots,     \* MAX_PROCESS
    NULL

ASSUME ProcessTableAssumption ==
    /\ Main \in Proc /\ NULL \notin Proc
    /\ NULL \notin {"bmsem", "joinsem", "exitsem", "multex"} \X Proc
    /\ NumSlots \in Nat \ {0}

Slots == 0 .. NumSlots - 1
NoPid == -1
SemId == ({"joinsem", "exitsem", "multex"} \X Proc) \cup {<<"bmsem", Main>>}
bmsem == <<"bmsem", Main>>
joinsem(p) == <<"joinsem", p>>
exitsem(p) == <<"exitsem", p>>
multex(p) == <<"multex", p>>

VARIABLES
    bm,        \* PTable::bm, the set of used slots
    pcb,       \* PTable::pcb
    freed,     \* the processes whose PCB has been deleted
    pid,       \* Thread::pid and PCB::pid
    parentID,  \* PCB::parentID
    numwait,   \* PCB::numwait
    sem,       \* the values of bmsem and of the semaphores of each PCB
    pc,        \* where a process is
    waits,     \* the semaphore in whose P a process sleeps
    arg,       \* the pid that a process is joining
    tgt,       \* the PCB that a process works on
    unjoined,  \* pids that Exec returned to a program and Join did not yet
    machine,   \* up, stopped, or ended by a failure of the kernel
    disciplined \* programs join each child once, and exit after that

tableVars == <<bm, pcb, freed, pid, parentID, numwait>>
procVars == <<pc, waits, arg, tgt, unjoined>>
vars == <<tableVars, procVars, sem, machine, disciplined>>

(* The semaphores of the table and of all PCBs.  A PCB constructed by Exec   *)
(* appears with its multex taken, because PCB::Exec takes it at once.        *)
CS == INSTANCE CountingSemaphore WITH
        Thread <- Proc, Sem <- SemId, value <- sem, inP <- waits,
        initialValue <- [s \in SemId |-> IF s \in {bmsem, multex(Main)} THEN 1 ELSE 0]

ExecLabels == {"exec", "exec_fork", "exec_unlock", "exec_return"}
JoinLabels == {"join_inc", "join_wait", "join_code"}
ExitLabels == {"exit_dec", "exit_join", "exit_wait", "exit_remove", "exit_clear"}
Labels == {"none", "created", "start", "user", "done"}
            \cup ExecLabels \cup JoinLabels \cup ExitLabels

TypeOK ==
    /\ bm \in SUBSET Slots
    /\ pcb \in [Slots -> Proc \cup {NULL}]
    /\ freed \in SUBSET Proc
    /\ pid \in [Proc -> Slots \cup {NoPid}]
    /\ parentID \in [Proc -> Slots \cup {NoPid}]
    /\ numwait \in [Proc -> Int]
    /\ sem \in [SemId -> Nat]
    /\ pc \in [Proc -> Labels]
    /\ waits \in [Proc -> SemId \cup {NULL}]
    /\ arg \in [Proc -> Slots \cup {NoPid}]
    /\ tgt \in [Proc -> Proc \cup {NULL}]
    /\ unjoined \in [Proc -> SUBSET Slots]
    /\ machine \in {"up", "exited", "loadfailed", "assert", "null", "freed"}
    /\ disciplined \in BOOLEAN

(* PTable::PTable: slot 0 belongs to the main process, whose parentID the    *)
(* PCB constructor leaves uninitialised (NoPid: any value that is no slot).  *)
Init ==
    /\ bm = {0}
    /\ pcb = [i \in Slots |-> IF i = 0 THEN Main ELSE NULL]
    /\ freed = {}
    /\ pid = [p \in Proc |-> IF p = Main THEN 0 ELSE NoPid]
    /\ \E garbage \in Slots \cup {NoPid} :
        parentID = [p \in Proc |-> IF p = Main THEN garbage ELSE NoPid]
    /\ numwait = [p \in Proc |-> 0]
    /\ pc = [p \in Proc |-> IF p = Main THEN "user" ELSE "none"]
    /\ CS!Init
    /\ arg = [p \in Proc |-> NoPid]
    /\ tgt = [p \in Proc |-> NULL]
    /\ unjoined = [p \in Proc |-> {}]
    /\ machine = "up"
    /\ disciplined \in BOOLEAN

-----------------------------------------------------------------------------
At(p, l) == machine = "up" /\ pc[p] = l /\ waits[p] = NULL
Goto(p, l) == pc' = [pc EXCEPT ![p] = l]

(* Semaphore::P, up to its return or its Sleep, and Semaphore::V. *)
DoP(p, s) == CS!Wait(p, s) \/ CS!Take(p, s)
DoV(s) == CS!Release(s)

(* Mutant: the V of ExitRelease wakes nobody. *)
ResumeOthers(p) ==
    /\ machine = "up"
    /\ waits[p] # NULL
    /\ waits[p][2] \notin freed
    /\ waits[p][1] # "exitsem"
    /\ CS!Take(p, waits[p])
    /\ UNCHANGED <<tableVars, pc, arg, tgt, unjoined, machine>>

(* A sleeper takes the unit it waited for.  Nobody wakes the sleepers of a   *)
(* deleted semaphore.                                                        *)
Resume(p) ==
    /\ machine = "up"
    /\ waits[p] # NULL
    /\ waits[p][2] \notin freed
    /\ CS!Take(p, waits[p])
    /\ UNCHANGED <<tableVars, pc, arg, tgt, unjoined, machine>>

(* An ASSERT that fails or a bad pointer ends the whole machine. *)
Fail(how) ==
    /\ machine' = how
    /\ UNCHANGED <<tableVars, procVars, sem>>

-----------------------------------------------------------------------------
(* SC_Exec and PTable::ExecUpdate. *)
ExecCall(p) ==
    /\ At(p, "user")
    /\ DoP(p, bmsem)
    /\ Goto(p, "exec")
    /\ UNCHANGED <<tableVars, arg, tgt, unjoined, machine>>

(* Mutant: the early return of ExecUpdate without bmsem->V(). *)
ExecRefuseKeepsLock(p) ==
    /\ At(p, "exec")
    /\ Goto(p, "user")
    /\ UNCHANGED <<tableVars, sem, waits, arg, tgt, unjoined, machine>>

ExecRefuse(p) ==
    /\ At(p, "exec")
    /\ DoV(bmsem)
    /\ Goto(p, "user")
    /\ UNCHANGED <<tableVars, waits, arg, tgt, unjoined, machine>>

(* GetFreeSlot takes the lowest free slot; the new PCB's multex is taken by  *)
(* PCB::Exec.                                                                *)
GetFreeSlot(i) == i \in Slots \ bm /\ \A j \in Slots \ bm : i <= j

(* The thread of the new process: one that was not used yet, whichever. *)
NewProcess ==
    LET unused == {c \in Proc : pc[c] = "none"}
    IN  IF unused = {} THEN {} ELSE {CHOOSE c \in unused : TRUE}

ExecCreate(p, c) ==
    /\ At(p, "exec")
    /\ c \in NewProcess
    /\ \E i \in Slots :
        /\ GetFreeSlot(i)
        /\ bm' = bm \cup {i}
        /\ pcb' = [pcb EXCEPT ![i] = c]
        /\ pid' = [pid EXCEPT ![c] = i]
        /\ parentID' = [parentID EXCEPT ![c] = pid[p]]
    /\ pc' = [pc EXCEPT ![p] = "exec_fork", ![c] = "created"]
    /\ tgt' = [tgt EXCEPT ![p] = c]
    /\ UNCHANGED <<freed, numwait, sem, waits, arg, unjoined, machine>>

ExecFork(p) ==
    /\ At(p, "exec_fork")
    /\ pc' = [pc EXCEPT ![p] = "exec_unlock", ![tgt[p]] = "start"]
    /\ UNCHANGED <<tableVars, sem, waits, arg, tgt, unjoined, machine>>

ExecUnlock(p) ==
    /\ At(p, "exec_unlock")
    /\ DoV(multex(tgt[p]))
    /\ Goto(p, "exec_return")
    /\ UNCHANGED <<tableVars, waits, arg, tgt, unjoined, machine>>

ExecReturn(p) ==
    /\ At(p, "exec_return")
    /\ DoV(bmsem)
    /\ Goto(p, "user")
    /\ unjoined' = [unjoined EXCEPT ![p] = @ \cup {pid[tgt[p]]}]
    /\ UNCHANGED <<tableVars, waits, arg, tgt, machine>>

(* StartProcess_2: load the program and enter it.  A load that fails leaves  *)
(* an address space without pages, whose first instruction faults and halts. *)
Start(p) ==
    /\ At(p, "start")
    /\ \/ Goto(p, "user") /\ UNCHANGED machine
       \/ machine' = "loadfailed" /\ UNCHANGED pc
    /\ UNCHANGED <<tableVars, sem, waits, arg, tgt, unjoined>>

-----------------------------------------------------------------------------
(* SC_Join and PTable::JoinUpdate.  BitMap::Test asserts that the pid is in  *)
(* range; a Join of a free slot or of somebody else's child returns -1 and   *)
(* changes nothing.                                                          *)
JoinOutOfRange(p) ==
    /\ At(p, "user")
    /\ ~disciplined
    /\ Fail("assert")

JoinCall(p, i) ==
    /\ At(p, "user")
    /\ disciplined => i \in unjoined[p]
    /\ i \in bm
    /\ parentID[pcb[i]] = pid[p]
    /\ LET parent == pcb[parentID[pcb[i]]] IN
        /\ DoP(p, multex(parent))
        /\ tgt' = [tgt EXCEPT ![p] = parent]
    /\ arg' = [arg EXCEPT ![p] = i]
    /\ Goto(p, "join_inc")
    /\ UNCHANGED <<tableVars, unjoined, machine>>

JoinInc(p) ==
    /\ At(p, "join_inc")
    /\ numwait' = [numwait EXCEPT ![tgt[p]] = @ + 1]
    /\ DoV(multex(tgt[p]))
    /\ Goto(p, "join_wait")
    /\ UNCHANGED <<bm, pcb, freed, pid, parentID, waits, arg, tgt, unjoined, machine>>

JoinWait(p) ==
    /\ At(p, "join_wait")
    /\ \/ pcb[arg[p]] = NULL /\ Fail("null")
       \/ /\ pcb[arg[p]] # NULL
          /\ DoP(p, joinsem(pcb[arg[p]]))
          /\ tgt' = [tgt EXCEPT ![p] = pcb[arg[p]]]
          /\ Goto(p, "join_code")
          /\ UNCHANGED <<tableVars, arg, unjoined, machine>>

JoinReturn(p) ==
    /\ At(p, "join_code")
    /\ \/ pcb[arg[p]] = NULL /\ Fail("null")
       \/ /\ pcb[arg[p]] # NULL
          /\ DoV(exitsem(pcb[arg[p]]))
          /\ unjoined' = [unjoined EXCEPT ![p] = @ \ {arg[p]}]
          /\ Goto(p, "user")
          /\ UNCHANGED <<tableVars, waits, arg, tgt, machine>>

-----------------------------------------------------------------------------
(* Mutant: ExitUpdate without its case for the main process. *)
ExitCallSameForMain(p) ==
    /\ At(p, "user")
    /\ disciplined => unjoined[p] = {}
    /\ \/ (parentID[p] = NoPid \/ (parentID[p] # NoPid /\ pcb[parentID[p]] = NULL)) /\ Fail("null")
       \/ /\ parentID[p] # NoPid /\ pcb[parentID[p]] # NULL
          /\ DoP(p, multex(pcb[parentID[p]]))
          /\ tgt' = [tgt EXCEPT ![p] = pcb[parentID[p]]]
          /\ Goto(p, "exit_dec")
          /\ UNCHANGED <<tableVars, arg, unjoined, machine>>

(* SC_Exit with status 0 and PTable::ExitUpdate. *)
ExitCall(p) ==
    /\ At(p, "user")
    /\ disciplined => unjoined[p] = {}
    /\ \/ pid[p] = 0 /\ Fail("exited")
       \/ pid[p] # 0 /\ pcb[parentID[p]] = NULL /\ Fail("null")
       \/ /\ pid[p] # 0 /\ pcb[parentID[p]] # NULL
          /\ DoP(p, multex(pcb[parentID[p]]))
          /\ tgt' = [tgt EXCEPT ![p] = pcb[parentID[p]]]
          /\ Goto(p, "exit_dec")
          /\ UNCHANGED <<tableVars, arg, unjoined, machine>>

(* Mutant: DecNumWait leaves numwait alone. *)
ExitDecNothing(p) ==
    /\ At(p, "exit_dec")
    /\ \/ tgt[p] \in freed /\ Fail("freed")
       \/ /\ numwait' = numwait
          /\ DoV(multex(tgt[p]))
          /\ Goto(p, "exit_join")
          /\ UNCHANGED <<bm, pcb, freed, pid, parentID, waits, arg, tgt, unjoined, machine>>

(* DecNumWait may return from P into a PCB that has been deleted: the freed  *)
(* memory is still what it was, or the kernel goes down.                     *)
ExitDec(p) ==
    /\ At(p, "exit_dec")
    /\ \/ tgt[p] \in freed /\ Fail("freed")
       \/ /\ numwait' = [numwait EXCEPT ![tgt[p]] = @ - 1]
          /\ DoV(multex(tgt[p]))
          /\ Goto(p, "exit_join")
          /\ UNCHANGED <<bm, pcb, freed, pid, parentID, waits, arg, tgt, unjoined, machine>>

ExitJoinRelease(p) ==
    /\ At(p, "exit_join")
    /\ DoV(joinsem(pcb[pid[p]]))
    /\ Goto(p, "exit_wait")
    /\ UNCHANGED <<tableVars, waits, arg, tgt, unjoined, machine>>

(* Mutant: ExitUpdate without ExitWait. *)
ExitWaitSkipped(p) ==
    /\ At(p, "exit_wait")
    /\ Goto(p, "exit_remove")
    /\ UNCHANGED <<tableVars, sem, waits, arg, tgt, unjoined, machine>>

ExitWait(p) ==
    /\ At(p, "exit_wait")
    /\ DoP(p, exitsem(pcb[pid[p]]))
    /\ Goto(p, "exit_remove")
    /\ UNCHANGED <<tableVars, arg, tgt, unjoined, machine>>

(* PTable::Remove, then Thread::Finish. *)
ExitRemove(p) ==
    /\ At(p, "exit_remove")
    /\ DoP(p, bmsem)
    /\ Goto(p, "exit_clear")
    /\ UNCHANGED <<tableVars, arg, tgt, unjoined, machine>>

ExitClear(p) ==
    /\ At(p, "exit_clear")
    /\ bm' = bm \ {pid[p]}
    /\ freed' = freed \cup {pcb[pid[p]]}
    /\ pcb' = [pcb EXCEPT ![pid[p]] = NULL]
    /\ DoV(bmsem)
    /\ Goto(p, "done")
    /\ UNCHANGED <<pid, parentID, numwait, waits, arg, tgt, unjoined, machine>>

-----------------------------------------------------------------------------
(* The rest of a system call, once entered. *)
Kernel(p) ==
    \/ Resume(p)
    \/ ExecRefuse(p) \/ (\E c \in Proc : ExecCreate(p, c))
    \/ ExecFork(p) \/ ExecUnlock(p) \/ ExecReturn(p) \/ Start(p)
    \/ JoinInc(p) \/ JoinWait(p) \/ JoinReturn(p)
    \/ ExitDec(p) \/ ExitJoinRelease(p) \/ ExitWait(p) \/ ExitRemove(p) \/ ExitClear(p)

User(p) ==
    \/ ExecCall(p)
    \/ JoinOutOfRange(p)
    \/ \E i \in Slots : JoinCall(p, i)
    \/ ExitCall(p)

Next == (\E p \in Proc : Kernel(p) \/ User(p)) /\ UNCHANGED disciplined

Spec == Init /\ [][Next]_vars

(* Programs that end: a process in the kernel goes on when it can, a program *)
(* joins the children it has and then exits, and nobody repeats a refused    *)
(* Exec for ever.                                                            *)
Fairness ==
    /\ \A p \in Proc :
        /\ WF_vars(Kernel(p) /\ UNCHANGED disciplined)
        /\ WF_vars((\E i \in Slots : JoinCall(p, i)) /\ UNCHANGED disciplined)
        /\ p # Main => WF_vars(ExitCall(p) /\ UNCHANGED disciplined)
    /\ <>[][\A p \in Proc : ~ExecRefuse(p)]_vars

FairSpec == Spec /\ Fairness

-----------------------------------------------------------------------------
InTable(p) == /\ pc[p] \in ExecLabels \cup {"exit_clear"}
              /\ waits[p] = NULL

Live(p) == pc[p] \notin {"none", "done"}

(* The process has told its parent that it is done (JoinRelease).            *)
Zombie(p) == pc[p] \in {"exit_wait", "exit_remove", "exit_clear"}

(* It may also leave: ExitWait has returned.                                 *)
Released(p) == \/ pc[p] = "exit_remove" /\ waits[p] # exitsem(p)
               \/ pc[p] \in {"exit_clear", "done"}

(* Processes that have returned from JoinWait on p's PCB and not yet         *)
(* called ExitRelease.                                                       *)
Reapers(p) == {q \in Proc : pc[q] = "join_code" /\ waits[q] = NULL /\ tgt[q] = p}

(* bmsem makes Exec and Remove exclude each other: at most one process is    *)
(* inside, and none while the semaphore is free.  The section spans five     *)
(* points where Exec can be interrupted.                                     *)
TableMutex ==
    /\ \A p, q \in Proc : InTable(p) /\ InTable(q) => p = q
    /\ (\E p \in Proc : InTable(p)) <=> sem[bmsem] = 0

(* A pid names one process from the moment Exec chose it until that process  *)
(* has removed itself: bitmap, pcb[] and the threads' pids agree, so no two  *)
(* live processes share a slot even though slots are reused.                 *)
SlotOwner ==
    /\ \A i \in Slots : i \in bm <=> pcb[i] # NULL
    /\ \A i \in Slots : pcb[i] # NULL => pid[pcb[i]] = i /\ Live(pcb[i])
    /\ \A p \in Proc : Live(p) => pid[p] \in Slots /\ pcb[pid[p]] = p
    /\ \A p \in Proc : p \in freed <=> pc[p] = "done"

(* The exit handshake, whatever the programs do: once p has announced its    *)
(* end, exactly one of these holds: the announcement is unread, one Join has *)
(* read it, one permission to leave is unread, or p has it.  Before that     *)
(* nothing can be read.  So a PCB is read by at most one Join, and is not    *)
(* deleted before that Join let go of it.                                    *)
ExitHandshake ==
    \A p \in Proc :
        sem[joinsem(p)] + Cardinality(Reapers(p)) + sem[exitsem(p)]
            + (IF Released(p) THEN 1 ELSE 0)
        = IF Zombie(p) \/ pc[p] = "done" THEN 1 ELSE 0

(* JoinUpdate reads pcb[pid] again after JoinWait; the slot still holds the  *)
(* process it waited for, which has ended: "Only return once the user        *)
(* program "id" has finished" (syscall.h).                                   *)
JoinSeesItsChild ==
    \A q \in Proc : pc[q] = "join_code" /\ waits[q] = NULL =>
        pcb[arg[q]] = tgt[q] /\ Zombie(tgt[q])

(* The table is never seen half changed and never disagrees with the         *)
(* processes, whatever programs do (ExecUpdate, ExitUpdate, Remove).         *)
TableRight == TypeOK /\ TableMutex /\ SlotOwner

(* A child and those that join it meet, whatever programs do: what a Join    *)
(* reads is its child's, and is there until the Join has let go of it        *)
(* (JoinUpdate, ExitUpdate).                                                 *)
ChildrenMet == ExitHandshake /\ JoinSeesItsChild

(* With programs that join each child once before they exit, the kernel      *)
(* never dereferences an empty slot or a deleted PCB, and nobody sleeps on a *)
(* deleted semaphore.                                                        *)
KernelSafe ==
  disciplined =>
    /\ machine \in {"up", "exited", "loadfailed"}
    /\ \A p \in Proc : waits[p] # NULL => waits[p][2] \notin freed
    /\ \A p \in Proc : pc[p] \in {"join_inc", "exit_dec"} => tgt[p] \notin freed

(* With such programs the main process ends last: its Halt takes down only   *)
(* processes that have exited and been joined and have nothing left to do    *)
(* but to remove themselves, and every numwait is balanced.                  *)
MainEndsLast ==
    disciplined /\ machine = "exited" =>
        /\ \A p \in Proc \ {Main} :
            Live(p) => Zombie(p) /\ (Released(p) \/ sem[exitsem(p)] = 1)
        /\ \A p \in Proc : numwait[p] = 0

(* With such programs, every process that was started is removed from the    *)
(* table, unless the machine stops.                                          *)
EveryoneLeaves ==
    disciplined => \A p \in Proc \ {Main} : pc[p] = "start" ~> pc[p] = "done" \/ machine # "up"
=============================================================================
