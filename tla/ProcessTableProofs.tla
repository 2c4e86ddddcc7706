------------------------- MODULE ProcessTableProofs -------------------------
(***************************************************************************)
(* Proofs about ProcessTable, for a table of any size and any number of    *)
(* processes: bmsem guards the table, slots have one owner, and the        *)
(* handshake between Join and Exit is sound whatever the programs do.      *)
(***************************************************************************)
EXTENDS ProcessTable, TLAPS

-----------------------------------------------------------------------------
(* The inductive invariant.  Main keeps slot 0 and never exits by Remove;    *)
(* every other process has a parent.                                         *)
Kin ==
    /\ pc[Main] \notin {"none", "created", "start", "done"} \cup ExitLabels /\ pid[Main] = 0
    /\ \A p \in Proc \ {Main} : Live(p) => parentID[p] \in Slots
    /\ \A p \in Proc : IF pc[p] = "none" THEN pid[p] = NoPid ELSE pid[p] \in Slots
    /\ SlotOwner

(* Where the sleepers are: each P of the calls has its own place.            *)
SleepOf(p) ==
    /\ pc[p] \in {"none", "created", "start", "user", "exec_fork", "exec_unlock",
                  "exec_return", "join_wait", "exit_join", "exit_wait", "done"}
          => waits[p] = NULL
    /\ pc[p] \in {"exec", "exit_clear"} => waits[p] \in {NULL, bmsem}
    /\ pc[p] \in {"join_inc", "exit_dec"} => waits[p] \in {NULL, multex(tgt[p])}
    /\ pc[p] = "join_code" => waits[p] \in {NULL, joinsem(tgt[p])}
    /\ pc[p] = "exit_remove" => waits[p] \in {NULL, exitsem(p)}

(* What Exec and Join work on.                                               *)
TargetsOf(p) ==
    /\ pc[p] = "exec_fork" => tgt[p] \in Proc /\ pc[tgt[p]] = "created"
    /\ pc[p] \in {"exec_unlock", "exec_return"} =>
        tgt[p] \in Proc /\ pc[tgt[p]] \notin {"none", "created"}
    /\ pc[p] \in {"join_inc", "join_wait"} => arg[p] \in Slots
    /\ pc[p] \in {"join_inc", "exit_dec"} => tgt[p] \in Proc
    /\ pc[p] = "join_code" => tgt[p] \in Proc /\ arg[p] \in Slots /\ pid[tgt[p]] = arg[p]

Posts == \A p \in Proc : SleepOf(p) /\ TargetsOf(p)

Mutex == TableMutex /\ sem[bmsem] <= 1

(* The handshake without counting: at most one process reaps another.        *)
Reaps(q, p) == pc[q] = "join_code" /\ waits[q] = NULL /\ tgt[q] = p

OneReaper == \A p, q, r \in Proc : Reaps(q, p) /\ Reaps(r, p) => q = r

ShakeOf(p) ==
    sem[joinsem(p)] + (IF \E q \in Proc : Reaps(q, p) THEN 1 ELSE 0) + sem[exitsem(p)]
        + (IF Released(p) THEN 1 ELSE 0)
    = IF Zombie(p) \/ pc[p] = "done" THEN 1 ELSE 0

Shake == OneReaper /\ JoinSeesItsChild /\ \A p \in Proc : ShakeOf(p)

IInv == TypeOK /\ Kin /\ Posts /\ Mutex /\ Shake

-----------------------------------------------------------------------------
(* The semaphores are all different, and none is NULL.                       *)
LEMMA Sems ==
    /\ bmsem \in SemId /\ NULL \notin SemId
    /\ \A p \in Proc : joinsem(p) \in SemId /\ exitsem(p) \in SemId /\ multex(p) \in SemId
    /\ \A p, q \in Proc :
        /\ bmsem # joinsem(p) /\ bmsem # exitsem(p) /\ bmsem # multex(p)
        /\ joinsem(p) # exitsem(q) /\ joinsem(p) # multex(q) /\ exitsem(p) # multex(q)
        /\ joinsem(p) = joinsem(q) => p = q
        /\ exitsem(p) = exitsem(q) => p = q
        /\ multex(p) = multex(q) => p = q
<1>1. bmsem \in SemId
  BY Zenon DEF SemId, bmsem
<1>2. SemId \subseteq {"bmsem", "joinsem", "exitsem", "multex"} \X Proc
  BY ProcessTableAssumption DEF SemId
<1>3. \A p \in Proc : joinsem(p) \in SemId /\ exitsem(p) \in SemId /\ multex(p) \in SemId
  BY Zenon DEF SemId, joinsem, exitsem, multex
<1>4. \A p, q \in Proc :
        /\ bmsem # joinsem(p) /\ bmsem # exitsem(p) /\ bmsem # multex(p)
        /\ joinsem(p) # exitsem(q) /\ joinsem(p) # multex(q) /\ exitsem(p) # multex(q)
        /\ joinsem(p) = joinsem(q) => p = q
        /\ exitsem(p) = exitsem(q) => p = q
        /\ multex(p) = multex(q) => p = q
  BY Zenon DEF bmsem, joinsem, exitsem, multex
<1> QED
  BY <1>1, <1>2, <1>3, <1>4, ProcessTableAssumption, Zenon

(* What the semaphore operations do to sem and waits.                        *)
SemTypes == sem \in [SemId -> Nat] /\ waits \in [Proc -> SemId \cup {NULL}]

Downs(p, s) ==
    /\ SemTypes'
    /\ \A q \in Proc \ {p} : waits'[q] = waits[q]
    /\ \A x \in SemId \ {s} : sem'[x] = sem[x]
    /\ \/ waits'[p] = s /\ sem[s] = 0 /\ sem'[s] = 0
       \/ waits'[p] = NULL /\ sem[s] > 0 /\ sem'[s] = sem[s] - 1

Ups(s) ==
    /\ SemTypes'
    /\ waits' = waits
    /\ \A x \in SemId \ {s} : sem'[x] = sem[x]
    /\ sem'[s] = sem[s] + 1

LEMMA SemSteps ==
    ASSUME TypeOK, NEW p \in Proc, NEW s \in SemId
    PROVE  /\ DoP(p, s) /\ waits[p] = NULL => Downs(p, s)
           /\ CS!Take(p, s) => Downs(p, s) /\ waits'[p] = NULL
           /\ DoV(s) => Ups(s)
<1>1. ASSUME DoP(p, s), waits[p] = NULL PROVE Downs(p, s)
  BY <1>1, Sems DEF DoP, CS!Wait, CS!Take, SemTypes, Downs, TypeOK
<1>2. ASSUME CS!Take(p, s) PROVE Downs(p, s) /\ waits'[p] = NULL
  BY <1>2 DEF CS!Take, SemTypes, Downs, TypeOK
<1>3. ASSUME DoV(s) PROVE Ups(s)
  BY <1>3 DEF DoV, CS!Release, SemTypes, Ups, TypeOK
<1> QED
  BY <1>1, <1>2, <1>3, Zenon

-----------------------------------------------------------------------------
(* p goes on to l, and the table and the other processes stay as they are.   *)
Moves(p, l) ==
    /\ TypeOK'
    /\ \A q \in Proc : pc'[q] = IF q = p THEN l ELSE pc[q]
    /\ {pc[p], l} \cap {"none", "created", "done"} = {}
    /\ UNCHANGED <<bm, pcb, freed, pid, parentID>>
    /\ \A q \in Proc \ {p} : waits'[q] = waits[q] /\ tgt'[q] = tgt[q] /\ arg'[q] = arg[q]

(* bmsem and the processes inside the table: the sum is kept.                *)
Inside(p) == IF InTable(p) THEN 1 ELSE 0

Balanced(p) == sem'[bmsem] + Inside(p)' = sem[bmsem] + Inside(p)

LEMMA MutexKept ==
    ASSUME TypeOK, Mutex, TypeOK', NEW p \in Proc, Balanced(p),
           \A q \in Proc \ {p} : InTable(q)' <=> InTable(q)
    PROVE  Mutex'
<1>1. sem[bmsem] \in Nat /\ sem'[bmsem] \in Nat
  BY Sems, Zenon DEF TypeOK
<1>2. /\ \A q, r \in Proc : InTable(q) /\ InTable(r) => q = r
      /\ (\E q \in Proc : InTable(q)) <=> sem[bmsem] = 0
      /\ sem[bmsem] <= 1
  BY Zenon DEF Mutex, TableMutex
<1>3. CASE InTable(p)
  BY <1>1, <1>2, <1>3 DEF Mutex, TableMutex, Inside, Balanced
<1>4. CASE ~InTable(p)
  BY <1>1, <1>2, <1>4 DEF Mutex, TableMutex, Inside, Balanced
<1> QED
  BY <1>3, <1>4, Zenon

(* Then only what the invariant says of p itself is to be shown.             *)
LEMMA MovesKeep ==
    ASSUME IInv, NEW p \in Proc, NEW l, Moves(p, l), SleepOf(p)', TargetsOf(p)', Balanced(p),
           p # Main \/ l \notin {"start"} \cup ExitLabels
    PROVE  TypeOK' /\ Kin' /\ Posts' /\ Mutex'
<1>i. TypeOK /\ Kin /\ Posts /\ Mutex /\ Shake
  BY Zenon DEF IInv
<1> USE <1>i
<1>1. \A q \in Proc : /\ Live(q)' <=> Live(q)
                      /\ pc'[q] = "none" <=> pc[q] = "none"
                      /\ pc'[q] = "created" <=> pc[q] = "created"
                      /\ pc'[q] = "done" <=> pc[q] = "done"
  BY Zenon DEF Moves, Live
<1>2. SlotOwner'
  BY <1>1, ProcessTableAssumption DEF Moves, Kin, SlotOwner, TypeOK
<1>3. Kin'
  BY <1>1, <1>2, ProcessTableAssumption, Zenon DEF Moves, Kin
<1>4. Posts'
  BY <1>1 DEF Moves, Posts, SleepOf, TargetsOf
<1>5. Mutex'
  BY MutexKept, Zenon DEF Moves, InTable
<1> QED
  BY <1>3, <1>4, <1>5, Zenon DEF Moves

(* A process whose part of the handshake does not change.                    *)
Apart(q) ==
    /\ sem'[joinsem(q)] = sem[joinsem(q)] /\ sem'[exitsem(q)] = sem[exitsem(q)]
    /\ \A r \in Proc : Reaps(r, q)' <=> Reaps(r, q)
    /\ Released(q)' <=> Released(q)
    /\ Zombie(q)' <=> Zombie(q)
    /\ pc'[q] = "done" <=> pc[q] = "done"

LEMMA ShakeKept ==
    ASSUME IInv, NEW q \in Proc, Apart(q)
    PROVE  ShakeOf(q)'
<1>1. (\E r \in Proc : Reaps(r, q))' <=> (\E r \in Proc : Reaps(r, q))
  BY Zenon DEF Apart
<1> QED
  BY <1>1, Zenon DEF ShakeOf, Apart, IInv, Shake

(* A step that leaves the whole handshake alone: p is far from it, or on its *)
(* way out.                                                                  *)
Working == {"start", "user", "join_inc", "join_wait", "exit_dec", "exit_join"} \cup ExecLabels
Leaving(p) == pc[p] \in {"exit_remove", "exit_clear"} /\ Released(p)

Quiet(p, l) ==
    /\ \/ pc[p] \in Working /\ l \in Working
       \/ Leaving(p) /\ Leaving(p)'
    /\ \A q \in Proc : sem'[joinsem(q)] = sem[joinsem(q)] /\ sem'[exitsem(q)] = sem[exitsem(q)]

(* So most steps keep the invariant for simple reasons.                      *)
LEMMA QuietIInv ==
    ASSUME IInv, NEW p \in Proc, NEW l, Moves(p, l), SleepOf(p)', TargetsOf(p)', Balanced(p),
           p # Main \/ l \notin {"start"} \cup ExitLabels, Quiet(p, l)
    PROVE  IInv'
<1>1. pc[p] # "join_code" /\ pc'[p] # "join_code"
  BY Zenon DEF Moves, Quiet, Working, Leaving, ExecLabels
<1>2. \A q, r \in Proc : Reaps(r, q)' <=> Reaps(r, q)
  BY <1>1, Zenon DEF Moves, Reaps
<1>3. \A q \in Proc : /\ Released(q)' <=> Released(q)
                      /\ Zombie(q)' <=> Zombie(q)
                      /\ pc'[q] = "done" <=> pc[q] = "done"
  <2>1. ASSUME NEW q \in Proc, q # p
        PROVE  /\ Released(q)' <=> Released(q)
               /\ Zombie(q)' <=> Zombie(q)
               /\ pc'[q] = "done" <=> pc[q] = "done"
    BY <2>1, Zenon DEF Moves, Released, Zombie
  <2>2. /\ Released(p)' <=> Released(p)
        /\ Zombie(p)' <=> Zombie(p)
        /\ pc'[p] = "done" <=> pc[p] = "done"
    BY Zenon DEF Moves, Quiet, Released, Zombie, Working, ExecLabels, Leaving
  <2> QED
    BY <2>1, <2>2, Zenon
<1>4. \A q \in Proc : ShakeOf(q)'
  BY <1>2, <1>3, ShakeKept, Zenon DEF Quiet, Apart
<1>5. OneReaper'
  BY <1>2, Zenon DEF IInv, Shake, OneReaper
<1>6. JoinSeesItsChild'
  BY <1>1, <1>3 DEF Moves, JoinSeesItsChild, IInv, Shake, Posts, TargetsOf
<1> QED
  BY <1>4, <1>5, <1>6, MovesKeep, Zenon DEF IInv, Shake

(* A step that ends the machine leaves everything else as it was.            *)
LEMMA SameIInv ==
    ASSUME IInv, UNCHANGED <<bm, pcb, freed, pid, parentID, numwait, arg, tgt, unjoined, sem, waits, pc>>,
           machine' \in {"up", "exited", "loadfailed", "assert", "null", "freed"},
           disciplined' = disciplined
    PROVE  IInv'
<1>1. TypeOK' /\ Kin'
  BY Zenon DEF IInv, TypeOK, Kin, SlotOwner, Live
<1>2. Posts'
  BY Zenon DEF IInv, Posts, SleepOf, TargetsOf
<1>3. Mutex' /\ Shake'
  BY DEF IInv, Mutex, TableMutex, InTable, Shake, OneReaper, ShakeOf, Reaps, Released, Zombie,
     JoinSeesItsChild
<1> QED
  BY <1>1, <1>2, <1>3, Zenon DEF IInv

-----------------------------------------------------------------------------
(* Steps far from the handshake.  What is to be shown of each:               *)
Calm(p, l) ==
    /\ Moves(p, l) /\ SleepOf(p)' /\ TargetsOf(p)' /\ Balanced(p) /\ Quiet(p, l)
    /\ p # Main \/ l \notin {"start"} \cup ExitLabels

(* Exec takes bmsem or sleeps on it.                                         *)
LEMMA ExecCallCalm ==
    ASSUME IInv, NEW p \in Proc, ExecCall(p), disciplined' = disciplined
    PROVE  Calm(p, "exec")
<1>i. TypeOK /\ Kin /\ Posts /\ Mutex /\ Shake
  BY Zenon DEF IInv
<1> USE <1>i
<1>1. pc[p] = "user" /\ waits[p] = NULL
  BY Zenon DEF ExecCall, At
<1>2. Downs(p, bmsem)
  BY <1>1, SemSteps, Sems, Zenon DEF ExecCall
<1>3. TypeOK'
  <2>1. SemTypes'
    BY <1>2, Zenon DEF Downs
  <2> QED
    BY <2>1, Zenon DEF ExecCall, Goto, tableVars, TypeOK, SemTypes, Labels, ExecLabels
<1>4. Moves(p, "exec")
  BY <1>1, <1>2, <1>3, Zenon DEF ExecCall, Goto, tableVars, Moves, TypeOK, Downs
<1> QED
  BY <1>1, <1>2, <1>4, Sems DEF ExecCall, Calm, Moves, SleepOf, TargetsOf, Downs, Balanced, Inside, InTable,
     Quiet, Working, Leaving, Released, ExecLabels, JoinLabels, ExitLabels, TypeOK

(* A refused Exec gives bmsem back.                                          *)
LEMMA ExecRefuseCalm ==
    ASSUME IInv, NEW p \in Proc, ExecRefuse(p), disciplined' = disciplined
    PROVE  Calm(p, "user")
<1>i. TypeOK /\ Kin /\ Posts /\ Mutex /\ Shake
  BY Zenon DEF IInv
<1> USE <1>i
<1>1. pc[p] = "exec" /\ waits[p] = NULL
  BY Zenon DEF ExecRefuse, At
<1>2. Ups(bmsem)
  BY <1>1, SemSteps, Sems, Zenon DEF ExecRefuse
<1>3. Moves(p, "user")
  BY <1>1, <1>2, Zenon DEF ExecRefuse, Goto, tableVars, Moves, TypeOK, Ups, SemTypes, Labels, ExecLabels,
     JoinLabels, ExitLabels
<1> QED
  BY <1>1, <1>2, <1>3, Sems DEF ExecRefuse, Calm, Moves, SleepOf, TargetsOf, Ups, Balanced, Inside, InTable,
     Quiet, Working, Leaving, Released, ExecLabels, JoinLabels, ExitLabels, TypeOK

(* The multex of the child is given back.                                    *)
LEMMA ExecUnlockCalm ==
    ASSUME IInv, NEW p \in Proc, ExecUnlock(p), disciplined' = disciplined
    PROVE  Calm(p, "exec_return")
<1>i. TypeOK /\ Kin /\ Posts /\ Mutex /\ Shake
  BY Zenon DEF IInv
<1> USE <1>i
<1>1. pc[p] = "exec_unlock" /\ waits[p] = NULL /\ TargetsOf(p) /\ tgt[p] \in Proc
  BY Zenon DEF ExecUnlock, At, Posts, TargetsOf
<1>2. Ups(multex(tgt[p]))
  BY <1>1, SemSteps, Sems, Zenon DEF ExecUnlock
<1>3. Moves(p, "exec_return")
  BY <1>1, <1>2, Zenon DEF ExecUnlock, Goto, tableVars, Moves, TypeOK, Ups, SemTypes, Labels, ExecLabels,
     JoinLabels, ExitLabels
<1> QED
  BY <1>1, <1>2, <1>3, Sems DEF ExecUnlock, Calm, Moves, SleepOf, TargetsOf, Ups, Balanced, Inside, InTable,
     Quiet, Working, Leaving, Released, ExecLabels, JoinLabels, ExitLabels, TypeOK

(* Exec returns and gives bmsem back.                                        *)
LEMMA ExecReturnCalm ==
    ASSUME IInv, NEW p \in Proc, ExecReturn(p), disciplined' = disciplined
    PROVE  Calm(p, "user")
<1>i. TypeOK /\ Kin /\ Posts /\ Mutex /\ Shake
  BY Zenon DEF IInv
<1> USE <1>i
<1>1. pc[p] = "exec_return" /\ waits[p] = NULL /\ pid[tgt[p]] \in Slots
  BY Zenon DEF ExecReturn, At, Posts, TargetsOf, Kin
<1>2. Ups(bmsem)
  BY <1>1, SemSteps, Sems, Zenon DEF ExecReturn
<1>3. Moves(p, "user")
  BY <1>1, <1>2 DEF ExecReturn, Goto, tableVars, Moves, TypeOK, Ups, SemTypes, Labels, ExecLabels,
     JoinLabels, ExitLabels
<1> QED
  BY <1>1, <1>2, <1>3, Sems DEF ExecReturn, Calm, Moves, SleepOf, TargetsOf, Ups, Balanced, Inside, InTable,
     Quiet, Working, Leaving, Released, ExecLabels, JoinLabels, ExitLabels, TypeOK

(* The caller of a Join is the parent: it takes its own multex.              *)
LEMMA JoinCallCalm ==
    ASSUME IInv, NEW p \in Proc, NEW i \in Slots, JoinCall(p, i), disciplined' = disciplined
    PROVE  Calm(p, "join_inc")
<1>i. TypeOK /\ Kin /\ Posts /\ Mutex /\ Shake
  BY Zenon DEF IInv
<1> USE <1>i
<1>1. pc[p] = "user" /\ waits[p] = NULL /\ pcb[parentID[pcb[i]]] = p
  BY Zenon DEF JoinCall, At, Kin, SlotOwner, Live, TypeOK
<1>2. Downs(p, multex(p))
  BY <1>1, SemSteps, Sems, Zenon DEF JoinCall
<1>3. TypeOK'
  <2>1. SemTypes'
    BY <1>2, Zenon DEF Downs
  <2> QED
    BY <1>1, <2>1, Zenon DEF JoinCall, Goto, tableVars, TypeOK, SemTypes, Labels, JoinLabels
<1>4. Moves(p, "join_inc")
  BY <1>1, <1>2, <1>3 DEF JoinCall, Goto, tableVars, Moves, TypeOK, Downs
<1> QED
  BY <1>1, <1>2, <1>4, Sems DEF JoinCall, Calm, Moves, SleepOf, TargetsOf, Downs, Balanced, Inside, InTable,
     Quiet, Working, Leaving, Released, ExecLabels, JoinLabels, ExitLabels, TypeOK

(* Join counts the waiter under multex.                                      *)
LEMMA JoinIncCalm ==
    ASSUME IInv, NEW p \in Proc, JoinInc(p), disciplined' = disciplined
    PROVE  Calm(p, "join_wait")
<1>i. TypeOK /\ Kin /\ Posts /\ Mutex /\ Shake
  BY Zenon DEF IInv
<1> USE <1>i
<1>1. pc[p] = "join_inc" /\ waits[p] = NULL /\ tgt[p] \in Proc /\ arg[p] \in Slots
  BY Zenon DEF JoinInc, At, Posts, TargetsOf
<1>2. Ups(multex(tgt[p]))
  BY <1>1, SemSteps, Sems, Zenon DEF JoinInc
<1>3. Moves(p, "join_wait")
  BY <1>1, <1>2 DEF JoinInc, Goto, tableVars, Moves, TypeOK, Ups, SemTypes, Labels, ExecLabels,
     JoinLabels, ExitLabels
<1> QED
  BY <1>1, <1>2, <1>3, Sems DEF JoinInc, Calm, Moves, SleepOf, TargetsOf, Ups, Balanced, Inside, InTable,
     Quiet, Working, Leaving, Released, ExecLabels, JoinLabels, ExitLabels, TypeOK

(* Exit takes the multex of the parent or sleeps on it.                      *)
LEMMA ExitCallCalm ==
    ASSUME IInv, NEW p \in Proc, pid[p] # 0, pcb[parentID[p]] # NULL,
           ExitCall(p), disciplined' = disciplined
    PROVE  Calm(p, "exit_dec")
<1>i. TypeOK /\ Kin /\ Posts /\ Mutex /\ Shake
  BY Zenon DEF IInv
<1> USE <1>i
<1>1. pc[p] = "user" /\ waits[p] = NULL /\ pcb[parentID[p]] \in Proc /\ p # Main
  <2>1. pc[p] = "user" /\ waits[p] = NULL /\ p # Main
    BY Zenon DEF ExitCall, At, Kin
  <2>2. parentID[p] \in Slots
    BY <2>1, Zenon DEF Kin, Live
  <2> QED
    BY <2>1, <2>2, Zenon DEF TypeOK
<1>2. Downs(p, multex(pcb[parentID[p]]))
  BY <1>1, SemSteps, Sems, Zenon DEF ExitCall
<1>0. /\ pc' = [pc EXCEPT ![p] = "exit_dec"] /\ tgt' = [tgt EXCEPT ![p] = pcb[parentID[p]]]
      /\ UNCHANGED <<bm, pcb, freed, pid, parentID, numwait, arg, unjoined, machine>>
  BY Zenon DEF ExitCall, Goto, tableVars
<1>3. TypeOK'
  <2>1. SemTypes'
    BY <1>2, Zenon DEF Downs
  <2> QED
    BY <1>0, <1>1, <2>1, Zenon DEF TypeOK, SemTypes, Labels, ExitLabels
<1>4. Moves(p, "exit_dec")
  BY <1>0, <1>1, <1>2, <1>3, Zenon DEF Moves, TypeOK, Downs
<1> QED
  BY <1>1, <1>2, <1>4, Sems DEF ExitCall, Calm, Moves, SleepOf, TargetsOf, Downs, Balanced, Inside, InTable,
     Quiet, Working, Leaving, Released, ExecLabels, JoinLabels, ExitLabels, TypeOK

(* Exit counts the waiter out under multex.                                  *)
LEMMA ExitDecCalm ==
    ASSUME IInv, NEW p \in Proc, ~Fail("freed"), ExitDec(p), disciplined' = disciplined
    PROVE  Calm(p, "exit_join")
<1>i. TypeOK /\ Kin /\ Posts /\ Mutex /\ Shake
  BY Zenon DEF IInv
<1> USE <1>i
<1>1. pc[p] = "exit_dec" /\ waits[p] = NULL /\ tgt[p] \in Proc /\ p # Main
  BY Zenon DEF ExitDec, At, Posts, TargetsOf, Kin, ExitLabels
<1>2. Ups(multex(tgt[p]))
  BY <1>1, SemSteps, Sems, Zenon DEF ExitDec
<1>3. Moves(p, "exit_join")
  BY <1>1, <1>2 DEF ExitDec, Goto, tableVars, Moves, TypeOK, Ups, SemTypes, Labels, ExecLabels,
     JoinLabels, ExitLabels
<1> QED
  BY <1>1, <1>2, <1>3, Sems DEF ExitDec, Calm, Moves, SleepOf, TargetsOf, Ups, Balanced, Inside, InTable,
     Quiet, Working, Leaving, Released, ExecLabels, JoinLabels, ExitLabels, TypeOK

(* Remove takes bmsem or sleeps on it; ExitWait has returned.                *)
LEMMA ExitRemoveCalm ==
    ASSUME IInv, NEW p \in Proc, ExitRemove(p), disciplined' = disciplined
    PROVE  Calm(p, "exit_clear")
<1>i. TypeOK /\ Kin /\ Posts /\ Mutex /\ Shake
  BY Zenon DEF IInv
<1> USE <1>i
<1>1. pc[p] = "exit_remove" /\ waits[p] = NULL /\ p # Main
  BY Zenon DEF ExitRemove, At, Kin, ExitLabels
<1>2. Downs(p, bmsem)
  BY <1>1, SemSteps, Sems, Zenon DEF ExitRemove
<1>3. TypeOK'
  <2>1. SemTypes'
    BY <1>2, Zenon DEF Downs
  <2> QED
    BY <2>1, Zenon DEF ExitRemove, Goto, tableVars, TypeOK, SemTypes, Labels, ExitLabels
<1>4. Moves(p, "exit_clear")
  BY <1>1, <1>2, <1>3, Zenon DEF ExitRemove, Goto, tableVars, Moves, TypeOK, Downs
<1> QED
  BY <1>1, <1>2, <1>4, Sems DEF ExitRemove, Calm, Moves, SleepOf, TargetsOf, Downs, Balanced, Inside, InTable,
     Quiet, Working, Leaving, Released, ExecLabels, JoinLabels, ExitLabels, TypeOK

(* A sleeper takes bmsem.                                                    *)
LEMMA ResumeTableCalm ==
    ASSUME IInv, NEW p \in Proc, pc[p] \in {"exec", "exit_clear"},
           Resume(p), disciplined' = disciplined
    PROVE  Calm(p, pc[p])
<1>i. TypeOK /\ Kin /\ Posts /\ Mutex /\ Shake
  BY Zenon DEF IInv
<1> USE <1>i
<1>1. waits[p] = bmsem /\ (pc[p] = "exit_clear" => p # Main)
  BY Zenon DEF Resume, Posts, SleepOf, Kin, ExitLabels
<1>2. Downs(p, bmsem) /\ waits'[p] = NULL
  BY <1>1, SemSteps, Sems, Zenon DEF Resume
<1>3. TypeOK'
  <2>1. SemTypes'
    BY <1>2, Zenon DEF Downs
  <2> QED
    BY <1>1, <2>1, Zenon DEF Resume, Goto, tableVars, TypeOK, SemTypes, Labels, ExecLabels, JoinLabels, ExitLabels
<1>4. Moves(p, pc[p])
  BY <1>1, <1>2, <1>3, Zenon DEF Resume, Goto, tableVars, Moves, TypeOK, Downs
<1> QED
  BY <1>1, <1>2, <1>4, Sems DEF Resume, Calm, Moves, SleepOf, TargetsOf, Downs, Balanced, Inside, InTable,
     Quiet, Working, Leaving, Released, ExecLabels, JoinLabels, ExitLabels, TypeOK

(* A sleeper takes the multex of a PCB.                                      *)
LEMMA ResumeMultexCalm ==
    ASSUME IInv, NEW p \in Proc, pc[p] \in {"join_inc", "exit_dec"},
           Resume(p), disciplined' = disciplined
    PROVE  Calm(p, pc[p])
<1>i. TypeOK /\ Kin /\ Posts /\ Mutex /\ Shake
  BY Zenon DEF IInv
<1> USE <1>i
<1>1. /\ waits[p] = multex(tgt[p]) /\ tgt[p] \in Proc /\ TargetsOf(p)
      /\ pc[p] = "exit_dec" => p # Main
  BY Zenon DEF Resume, Posts, SleepOf, TargetsOf, Kin, ExitLabels
<1>2. Downs(p, multex(tgt[p])) /\ waits'[p] = NULL
  <2>1. multex(tgt[p]) \in SemId
    BY <1>1, Sems, Zenon
  <2>2. CS!Take(p, multex(tgt[p]))
    BY <1>1, Zenon DEF Resume
  <2> QED
    BY <2>1, <2>2, SemSteps, Zenon
<1>3. TypeOK'
  <2>1. SemTypes'
    BY <1>2, Zenon DEF Downs
  <2> QED
    BY <1>1, <2>1, Zenon DEF Resume, Goto, tableVars, TypeOK, SemTypes, Labels, ExecLabels, JoinLabels, ExitLabels
<1>4. Moves(p, pc[p])
  BY <1>1, <1>2, <1>3, Zenon DEF Resume, Goto, tableVars, Moves, TypeOK, Downs
<1> QED
  BY <1>1, <1>2, <1>4, Sems DEF Resume, Calm, Moves, SleepOf, TargetsOf, Downs, Balanced, Inside, InTable,
     Quiet, Working, Leaving, Released, ExecLabels, JoinLabels, ExitLabels, TypeOK

(* A program is entered, or cannot be loaded.                                *)
LEMMA StartCalm ==
    ASSUME IInv, NEW p \in Proc, Start(p), disciplined' = disciplined, pc' # pc
    PROVE  Calm(p, "user")
<1>i. TypeOK /\ Kin /\ Posts /\ Mutex /\ Shake
  BY Zenon DEF IInv
<1> USE <1>i
<1>1. pc[p] = "start" /\ waits[p] = NULL
  BY Zenon DEF Start, At
<1>2. UNCHANGED <<bm, pcb, freed, pid, parentID, numwait, sem, waits, arg, tgt, unjoined>>
  BY Zenon DEF Start, tableVars
<1>3. Moves(p, "user")
  BY <1>1, <1>2, Zenon DEF Start, Goto, Moves, TypeOK, Labels
<1> QED
  BY <1>1, <1>2, <1>3, Zenon DEF Calm, Moves, SleepOf, TargetsOf, Balanced, Inside, InTable, Quiet,
     Working, ExecLabels, ExitLabels, TypeOK

-----------------------------------------------------------------------------
(* Steps of the handshake.  Every other process is apart from them.          *)
LEMMA ShakeStep ==
    ASSUME IInv, NEW t \in Proc, ShakeOf(t)', \A q \in Proc \ {t} : Apart(q),
           OneReaper', JoinSeesItsChild'
    PROVE  Shake'
BY ShakeKept, Zenon DEF Shake

(* What follows from a Zombie, and what ShakeOf adds up.                     *)
LEMMA ShakeFacts ==
    ASSUME IInv, NEW q \in Proc
    PROVE  /\ sem[joinsem(q)] \in Nat /\ sem[exitsem(q)] \in Nat /\ ShakeOf(q)
           /\ ~Zombie(q) /\ pc[q] # "done" =>
                sem[joinsem(q)] = 0 /\ sem[exitsem(q)] = 0 /\ \A r \in Proc : ~Reaps(r, q)
           /\ sem[joinsem(q)] > 0 =>
                /\ Zombie(q) \/ pc[q] = "done"
                /\ sem[joinsem(q)] = 1 /\ sem[exitsem(q)] = 0 /\ \A r \in Proc : ~Reaps(r, q)
                /\ ~Released(q)
           /\ \A r \in Proc : Reaps(r, q) =>
                /\ sem[joinsem(q)] = 0 /\ sem[exitsem(q)] = 0 /\ ~Released(q)
                /\ Zombie(q) /\ pcb[arg[r]] = q
<1>i. TypeOK /\ Posts /\ Shake
  BY Zenon DEF IInv
<1>1. sem[joinsem(q)] \in Nat /\ sem[exitsem(q)] \in Nat /\ ShakeOf(q)
  BY Sems, <1>i, Zenon DEF TypeOK, Shake
<1>2. \A r \in Proc : Reaps(r, q) => Zombie(q) /\ pcb[arg[r]] = q
  BY <1>i, Zenon DEF Shake, JoinSeesItsChild, Reaps
<1>3. CASE \E r \in Proc : Reaps(r, q)
  BY <1>1, <1>2, <1>3 DEF ShakeOf
<1>4. CASE ~\E r \in Proc : Reaps(r, q)
  BY <1>1, <1>4 DEF ShakeOf
<1> QED
  BY <1>3, <1>4, Zenon

(* JoinRelease: p announces its end.                                         *)
LEMMA AnnounceShake ==
    ASSUME IInv, NEW p \in Proc, Moves(p, "exit_wait"), pc[p] = "exit_join", Ups(joinsem(p)),
           waits[p] = NULL
    PROVE  Shake'
<1>i. TypeOK /\ Posts /\ Shake
  BY Zenon DEF IInv
<1>1. \A q, r \in Proc : Reaps(r, q)' <=> Reaps(r, q)
  BY Zenon DEF Moves, Reaps
<1>2. \A q \in Proc \ {p} : Apart(q)
  BY <1>1, Sems DEF Apart, Moves, Released, Zombie, Ups
<1>3. ShakeOf(p)'
  <2>1. /\ sem[joinsem(p)] = 0 /\ sem[exitsem(p)] = 0 /\ \A r \in Proc : ~Reaps(r, p)
    BY ShakeFacts, Zenon DEF Zombie
  <2>2. /\ sem'[joinsem(p)] = 1 /\ sem'[exitsem(p)] = 0 /\ \A r \in Proc : ~Reaps(r, p)'
        /\ Zombie(p)' /\ ~Released(p)'
    BY <1>1, <2>1, Sems DEF Ups, Moves, Zombie, Released
  <2> QED
    BY <2>2 DEF ShakeOf
<1>4. OneReaper' /\ JoinSeesItsChild'
  BY <1>1, <1>i DEF Moves, Shake, OneReaper, JoinSeesItsChild, Zombie, Posts, TargetsOf
<1> QED
  BY <1>2, <1>3, <1>4, ShakeStep, Zenon

(* ExitWait: p takes the permission to leave, or sleeps.                     *)
LEMMA LeaveShake ==
    ASSUME IInv, NEW p \in Proc, Moves(p, "exit_remove"), Zombie(p), ~Released(p),
           Downs(p, exitsem(p))
    PROVE  Shake'
<1>i. TypeOK /\ Posts /\ Shake
  BY Zenon DEF IInv
<1>1. \A q, r \in Proc : Reaps(r, q)' <=> Reaps(r, q)
  BY Zenon DEF Moves, Reaps, Zombie
<1>2. \A q \in Proc \ {p} : Apart(q)
  BY <1>1, Sems DEF Apart, Moves, Released, Zombie, Downs
<1>3. ShakeOf(p)'
  <2>1. /\ sem'[joinsem(p)] = sem[joinsem(p)] /\ Zombie(p)'
        /\ sem'[exitsem(p)] + (IF Released(p)' THEN 1 ELSE 0) = sem[exitsem(p)]
        /\ sem'[exitsem(p)] \in Nat
    BY ShakeFacts, Sems DEF Downs, Moves, Zombie, Released, SemTypes
  <2>2. (\E r \in Proc : Reaps(r, p))' <=> (\E r \in Proc : Reaps(r, p))
    BY <1>1, Zenon
  <2>3. ShakeOf(p) /\ sem[joinsem(p)] \in Nat /\ sem[exitsem(p)] \in Nat
    BY ShakeFacts, Zenon
  <2> QED
    BY <2>1, <2>2, <2>3 DEF ShakeOf
<1>4. OneReaper' /\ JoinSeesItsChild'
  BY <1>1, <1>i DEF Moves, Shake, OneReaper, JoinSeesItsChild, Zombie, Posts, TargetsOf
<1> QED
  BY <1>2, <1>3, <1>4, ShakeStep, Zenon

(* JoinWait: p reads the announcement of t, or sleeps.                       *)
LEMMA ReapShake ==
    ASSUME IInv, NEW p \in Proc, NEW t \in Proc, Moves(p, "join_code"), Downs(p, joinsem(t)),
           tgt'[p] = t, pcb[arg'[p]] = t, pc[t] # "done", ~Zombie(p), \A q \in Proc : ~Reaps(p, q)
    PROVE  Shake'
<1>i. TypeOK /\ Posts /\ Shake
  BY Zenon DEF IInv
<1>1. /\ \A q, r \in Proc : r # p => (Reaps(r, q)' <=> Reaps(r, q))
      /\ \A q \in Proc : Reaps(p, q)' <=> q = t /\ waits'[p] = NULL
  BY Zenon DEF Moves, Reaps
<1>2. \A q \in Proc : /\ Released(q)' <=> Released(q)
                      /\ Zombie(q)' <=> Zombie(q)
                      /\ pc'[q] = "done" <=> pc[q] = "done"
  BY Zenon DEF Moves, Released, Zombie
<1>3. \A q \in Proc \ {t} : Apart(q)
  BY <1>1, <1>2, Sems DEF Apart, Downs
<1>4. ShakeOf(t)'
  <2>1. CASE waits'[p] = NULL
    <3>1. /\ sem[joinsem(t)] = 1 /\ sem[exitsem(t)] = 0 /\ ~Released(t) /\ Zombie(t)
          /\ sem'[joinsem(t)] = 0 /\ sem'[exitsem(t)] = 0
      BY <2>1, ShakeFacts, Sems DEF Downs
    <3> QED
      BY <1>1, <1>2, <2>1, <3>1 DEF ShakeOf
  <2>2. CASE waits'[p] # NULL
    <3>1. Apart(t)
      BY <1>1, <1>2, <2>2, Sems DEF Apart, Downs
    <3> QED
      BY <3>1, ShakeKept, Zenon
  <2> QED
    BY <2>1, <2>2, Zenon
<1>5. waits'[p] = NULL => Zombie(t)' /\ \A r \in Proc : ~Reaps(r, t)
  BY <1>2, ShakeFacts, Sems DEF Downs
<1>6. OneReaper'
  BY <1>1, <1>5, <1>i DEF Shake, OneReaper
<1>7. JoinSeesItsChild'
  <2>1. ASSUME NEW q \in Proc, q # p, pc[q] = "join_code", waits[q] = NULL
        PROVE  tgt[q] \in Proc /\ pcb[arg[q]] = tgt[q] /\ Zombie(tgt[q])
    BY <2>1, <1>i, Zenon DEF Shake, JoinSeesItsChild, Posts, TargetsOf
  <2> QED
    BY <1>2, <1>5, <2>1 DEF Moves, JoinSeesItsChild
<1> QED
  BY <1>3, <1>4, <1>6, <1>7, ShakeStep, Zenon

(* ExitRelease: p lets go of t.                                              *)
LEMMA LetGoShake ==
    ASSUME IInv, NEW p \in Proc, NEW t \in Proc, Moves(p, "user"), Ups(exitsem(t)), Reaps(p, t)
    PROVE  Shake'
<1>i. TypeOK /\ Posts /\ Shake
  BY Zenon DEF IInv
<1>1. /\ \A q, r \in Proc : r # p => (Reaps(r, q)' <=> Reaps(r, q))
      /\ \A q \in Proc : ~Reaps(p, q)' /\ (Reaps(p, q) => q = t)
  BY Zenon DEF Moves, Reaps
<1>2. /\ \A q \in Proc \ {t} : Apart(q)
      /\ Released(t)' <=> Released(t)
      /\ Zombie(t)' <=> Zombie(t)
      /\ pc'[t] = "done" <=> pc[t] = "done"
  BY <1>1, Sems DEF Apart, Moves, Released, Zombie, Ups, Reaps
<1>3. ShakeOf(t)'
  <2>1. /\ sem'[joinsem(t)] = 0 /\ sem'[exitsem(t)] = 1 /\ ~Released(t) /\ Zombie(t)
    BY ShakeFacts, Sems DEF Ups
  <2>2. \A r \in Proc : ~Reaps(r, t)'
    BY <1>1, <1>i, Zenon DEF Shake, OneReaper
  <2> QED
    BY <1>2, <2>1, <2>2 DEF ShakeOf
<1>4. OneReaper'
  BY <1>1, <1>i DEF Shake, OneReaper
<1>5. JoinSeesItsChild'
  BY <1>2, <1>i DEF Moves, Apart, Shake, JoinSeesItsChild, Posts, TargetsOf
<1> QED
  BY <1>2, <1>3, <1>4, <1>5, ShakeStep, Zenon

(* p announces its end: only here joinsem gains a unit.                      *)
LEMMA ExitJoinReleaseIInv ==
    ASSUME IInv, NEW p \in Proc, ExitJoinRelease(p), disciplined' = disciplined
    PROVE  Moves(p, "exit_wait") /\ Ups(joinsem(p)) /\ IInv'
<1>i. TypeOK /\ Kin /\ Posts /\ Mutex /\ Shake
  BY Zenon DEF IInv
<1> USE <1>i
<1>1. pc[p] = "exit_join" /\ waits[p] = NULL /\ pcb[pid[p]] = p /\ p # Main
  BY Zenon DEF ExitJoinRelease, At, Kin, SlotOwner, Live, ExitLabels
<1>2. Ups(joinsem(p))
  BY <1>1, SemSteps, Sems, Zenon DEF ExitJoinRelease
<1>3. Moves(p, "exit_wait")
  BY <1>1, <1>2, Zenon DEF ExitJoinRelease, Goto, tableVars, Moves, TypeOK, Ups, SemTypes, Labels, ExitLabels
<1>4. SleepOf(p)' /\ TargetsOf(p)' /\ Balanced(p)
  BY <1>1, <1>2, <1>3, Sems, Zenon DEF Moves, SleepOf, TargetsOf, Ups, Balanced, Inside, InTable, ExecLabels
<1>5. Shake'
  BY <1>1, <1>2, <1>3, AnnounceShake, Zenon
<1> QED
  BY <1>1, <1>2, <1>3, <1>4, <1>5, MovesKeep, Zenon DEF IInv

(* p sleeps until its parent let go of it, or leaves.                        *)
LEMMA ExitWaitIInv ==
    ASSUME IInv, NEW p \in Proc, ExitWait(p), disciplined' = disciplined
    PROVE  Moves(p, "exit_remove") /\ Downs(p, exitsem(p)) /\ IInv'
<1>i. TypeOK /\ Kin /\ Posts /\ Mutex /\ Shake
  BY Zenon DEF IInv
<1> USE <1>i
<1>1. pc[p] = "exit_wait" /\ waits[p] = NULL /\ pcb[pid[p]] = p /\ p # Main
  BY Zenon DEF ExitWait, At, Kin, SlotOwner, Live, ExitLabels
<1>2. Downs(p, exitsem(p))
  BY <1>1, SemSteps, Sems, Zenon DEF ExitWait
<1>3. TypeOK'
  <2>1. SemTypes'
    BY <1>2, Zenon DEF Downs
  <2> QED
    BY <1>1, <2>1, Zenon DEF ExitWait, Goto, tableVars, TypeOK, SemTypes, Labels, ExitLabels
<1>4. Moves(p, "exit_remove")
  BY <1>1, <1>2, <1>3 DEF ExitWait, Goto, tableVars, Moves, TypeOK, Downs
<1>5. SleepOf(p)' /\ TargetsOf(p)' /\ Balanced(p)
  BY <1>1, <1>2, <1>4, Sems, Zenon DEF Moves, SleepOf, TargetsOf, Downs, Balanced, Inside, InTable, ExecLabels
<1>6. Shake'
  BY <1>1, <1>2, <1>4, LeaveShake, Zenon DEF Zombie, Released
<1> QED
  BY <1>1, <1>2, <1>4, <1>5, <1>6, MovesKeep, Zenon DEF IInv

LEMMA ResumeExitIInv ==
    ASSUME IInv, NEW p \in Proc, Resume(p), disciplined' = disciplined, pc[p] = "exit_remove"
    PROVE  Moves(p, "exit_remove") /\ Downs(p, exitsem(p)) /\ IInv'
<1>i. TypeOK /\ Kin /\ Posts /\ Mutex /\ Shake
  BY Zenon DEF IInv
<1> USE <1>i
<1>1. waits[p] = exitsem(p) /\ p # Main
  BY Zenon DEF Resume, Posts, SleepOf, Kin, ExitLabels
<1>2. Downs(p, exitsem(p)) /\ waits'[p] = NULL
  BY <1>1, SemSteps, Sems, Zenon DEF Resume
<1>3. TypeOK'
  <2>1. SemTypes'
    BY <1>2, Zenon DEF Downs
  <2> QED
    BY <2>1, Zenon DEF Resume, tableVars, TypeOK, SemTypes
<1>4. Moves(p, "exit_remove")
  BY <1>2, <1>3, Zenon DEF Resume, tableVars, Moves, TypeOK, Downs
<1>5. SleepOf(p)' /\ TargetsOf(p)' /\ Balanced(p)
  BY <1>1, <1>2, <1>4, Sems, Zenon DEF Moves, SleepOf, TargetsOf, Downs, Balanced, Inside, InTable, ExecLabels
<1>6. Shake'
  BY <1>1, <1>2, <1>4, LeaveShake, Zenon DEF Zombie, Released
<1> QED
  BY <1>1, <1>2, <1>4, <1>5, <1>6, MovesKeep, Zenon DEF IInv

(* JoinWait reads the announcement of the child t, or sleeps until there is  *)
(* one.                                                                      *)
LEMMA JoinWaitIInv ==
    ASSUME IInv, NEW p \in Proc, NEW t, t = pcb[arg[p]], t # NULL, JoinWait(p), disciplined' = disciplined
    PROVE  Moves(p, "join_code") /\ Downs(p, joinsem(t)) /\ t \in Proc /\ IInv'
<1>i. TypeOK /\ Kin /\ Posts /\ Mutex /\ Shake
  BY Zenon DEF IInv
<1> USE <1>i
<1>1. pc[p] = "join_wait" /\ waits[p] = NULL /\ arg[p] \in Slots /\ t \in Proc /\ pid[t] = arg[p] /\ Live(t)
  BY DEF JoinWait, At, Posts, TargetsOf, Kin, SlotOwner, TypeOK
<1>2. /\ DoP(p, joinsem(t)) /\ tgt' = [tgt EXCEPT ![p] = t] /\ pc' = [pc EXCEPT ![p] = "join_code"]
      /\ UNCHANGED <<bm, pcb, freed, pid, parentID, numwait, arg, unjoined, machine>>
  BY Zenon DEF JoinWait, Goto, tableVars, Fail
<1>3. Downs(p, joinsem(t))
  BY <1>1, <1>2, SemSteps, Sems, Zenon
<1>4. TypeOK'
  <2>1. SemTypes'
    BY <1>3, Zenon DEF Downs
  <2> QED
    BY <1>1, <1>2, <2>1, Zenon DEF TypeOK, SemTypes, Labels, JoinLabels
<1>5. Moves(p, "join_code") /\ tgt'[p] = t
  BY <1>1, <1>2, <1>3, <1>4, Zenon DEF Moves, TypeOK, Downs
<1>6. SleepOf(p)' /\ TargetsOf(p)' /\ Balanced(p)
  <2>1. /\ pc'[p] = "join_code" /\ waits'[p] \in {NULL, joinsem(t)} /\ sem'[bmsem] = sem[bmsem]
        /\ arg' = arg /\ pid' = pid
    BY <1>1, <1>2, <1>3, <1>5, Sems, Zenon DEF Moves, Downs
  <2> QED
    BY <1>1, <1>5, <2>1, Zenon DEF SleepOf, TargetsOf, Balanced, Inside, InTable, ExecLabels
<1>7. Shake'
  BY <1>1, <1>2, <1>3, <1>5, ReapShake, Zenon DEF Zombie, Reaps, Live
<1> QED
  BY <1>1, <1>3, <1>5, <1>6, <1>7, MovesKeep, Zenon DEF IInv, ExitLabels

(* A sleeper in JoinWait learns that its child t has ended.                  *)
LEMMA ResumeJoinIInv ==
    ASSUME IInv, NEW p \in Proc, NEW t, t = tgt[p], Resume(p), disciplined' = disciplined,
           pc[p] = "join_code"
    PROVE  Moves(p, "join_code") /\ Downs(p, joinsem(t)) /\ t \in Proc /\ IInv'
<1>i. TypeOK /\ Kin /\ Posts /\ Mutex /\ Shake
  BY Zenon DEF IInv
<1> USE <1>i
<1>1. waits[p] = joinsem(t) /\ t \in Proc /\ arg[p] \in Slots /\ pid[t] = arg[p] /\ t \notin freed
  BY DEF Resume, Posts, SleepOf, TargetsOf, joinsem
<1>2. Downs(p, joinsem(t)) /\ waits'[p] = NULL /\ sem[joinsem(t)] > 0
  BY <1>1, SemSteps, Sems, Zenon DEF Resume, CS!Take
<1>3. pc[t] # "done" /\ pcb[arg[p]] = t
  <2>1. pc[t] # "done"
    BY <1>1, Zenon DEF Kin, SlotOwner
  <2>2. Zombie(t)
    BY <1>1, <1>2, <2>1, ShakeFacts, Zenon
  <2> QED
    BY <1>1, <2>1, <2>2 DEF Kin, SlotOwner, Live, Zombie
<1>4. TypeOK'
  <2>1. SemTypes'
    BY <1>2, Zenon DEF Downs
  <2> QED
    BY <2>1, Zenon DEF Resume, tableVars, TypeOK, SemTypes
<1>5. Moves(p, "join_code") /\ tgt' = tgt /\ arg' = arg
  BY <1>2, <1>4, Zenon DEF Resume, tableVars, Moves, TypeOK, Downs
<1>6. SleepOf(p)' /\ TargetsOf(p)' /\ Balanced(p)
  BY <1>1, <1>2, <1>5, Sems, Zenon DEF Moves, SleepOf, TargetsOf, Downs, Balanced, Inside, InTable, ExecLabels
<1>7. Shake'
  BY <1>1, <1>2, <1>3, <1>5, ReapShake, Sems DEF Zombie, Reaps
<1> QED
  BY <1>1, <1>2, <1>5, <1>6, <1>7, MovesKeep, Zenon DEF IInv, ExitLabels

(* JoinReturn lets the child t go.                                           *)
LEMMA JoinReturnIInv ==
    ASSUME IInv, NEW p \in Proc, NEW t, t = pcb[arg[p]], t # NULL, JoinReturn(p), disciplined' = disciplined
    PROVE  Moves(p, "user") /\ Ups(exitsem(t)) /\ t \in Proc /\ Reaps(p, t) /\ IInv'
<1>i. TypeOK /\ Kin /\ Posts /\ Mutex /\ Shake
  BY Zenon DEF IInv
<1> USE <1>i
<1>1. pc[p] = "join_code" /\ waits[p] = NULL /\ arg[p] \in Slots /\ t \in Proc /\ t = tgt[p]
  BY Zenon DEF JoinReturn, At, Posts, TargetsOf, Shake, JoinSeesItsChild
<1>2. /\ DoV(exitsem(t)) /\ unjoined' = [unjoined EXCEPT ![p] = @ \ {arg[p]}]
      /\ pc' = [pc EXCEPT ![p] = "user"]
      /\ UNCHANGED <<bm, pcb, freed, pid, parentID, numwait, arg, waits, tgt, machine>>
  BY Zenon DEF JoinReturn, Goto, tableVars, Fail
<1>3. Ups(exitsem(t))
  BY <1>1, <1>2, SemSteps, Sems, Zenon
<1>4. Moves(p, "user")
  BY <1>1, <1>2, <1>3, Zenon DEF Moves, TypeOK, Ups, SemTypes, Labels
<1>5. SleepOf(p)' /\ TargetsOf(p)' /\ Balanced(p)
  <2>1. pc'[p] = "user" /\ waits'[p] = NULL /\ sem'[bmsem] = sem[bmsem]
    BY <1>1, <1>3, <1>4, Sems, Zenon DEF Moves, Ups
  <2> QED
    BY <1>1, <2>1, Zenon DEF SleepOf, TargetsOf, Balanced, Inside, InTable, ExecLabels
<1>6. Reaps(p, t) /\ Shake'
  BY <1>1, <1>3, <1>4, LetGoShake, Zenon DEF Reaps
<1> QED
  BY <1>1, <1>3, <1>4, <1>5, <1>6, MovesKeep, Zenon DEF IInv, ExitLabels

-----------------------------------------------------------------------------
(* Steps that change the table, or two processes at once.                    *)

(* The child may run.                                                        *)
LEMMA ExecForkIInv ==
    ASSUME IInv, NEW p \in Proc, ExecFork(p), disciplined' = disciplined
    PROVE  IInv'
<1>i. TypeOK /\ Kin /\ Posts /\ Mutex /\ Shake
  BY Zenon DEF IInv
<1> USE <1>i
<1>1. pc[p] = "exec_fork" /\ waits[p] = NULL /\ tgt[p] \in Proc /\ pc[tgt[p]] = "created"
  BY Zenon DEF ExecFork, At, Posts, TargetsOf
<1>2. UNCHANGED <<bm, pcb, freed, pid, parentID, numwait, sem, waits, arg, tgt, unjoined, machine>>
  BY Zenon DEF ExecFork, tableVars
<1>3. \A q \in Proc :
        pc'[q] = IF q = p THEN "exec_unlock" ELSE IF q = tgt[p] THEN "start" ELSE pc[q]
  BY <1>1, Zenon DEF ExecFork, TypeOK
<1> USE <1>1, <1>2, <1>3
<1>4. TypeOK'
  BY DEF ExecFork, TypeOK, Labels, ExecLabels
<1>5. \A q \in Proc : /\ Live(q)' <=> Live(q)
                      /\ pc'[q] = "none" <=> pc[q] = "none"
                      /\ pc'[q] = "done" <=> pc[q] = "done"
  BY Zenon DEF Live
<1>6. Kin'
  BY <1>5, ProcessTableAssumption DEF Kin, SlotOwner, TypeOK, ExitLabels
<1>7. Posts'
  <2>1. \A q \in Proc \ {p} : pc[q] # "exec_fork"
    BY Zenon DEF Mutex, TableMutex, InTable, ExecLabels, Posts, SleepOf
  <2> QED
    BY <2>1 DEF Posts, SleepOf, TargetsOf
<1>8. Mutex'
  BY DEF Mutex, TableMutex, InTable, ExecLabels
<1>9. \A q \in Proc : Apart(q)
  BY Zenon DEF Apart, Reaps, Released, Zombie
<1>10. OneReaper' /\ JoinSeesItsChild'
  BY DEF Shake, OneReaper, Reaps, JoinSeesItsChild, Posts, TargetsOf, Zombie
<1> QED
  BY <1>4, <1>6, <1>7, <1>8, <1>9, <1>10, ShakeKept, Zenon DEF IInv, Shake

(* The child c gets the lowest free slot i.                                  *)
LEMMA ExecCreateIInv ==
    ASSUME IInv, NEW p \in Proc, NEW c \in Proc, ExecCreate(p, c), disciplined' = disciplined
    PROVE  IInv'
<1>i. TypeOK /\ Kin /\ Posts /\ Mutex /\ Shake
  BY Zenon DEF IInv
<1> USE <1>i
<1>0. PICK i \in Slots :
        /\ GetFreeSlot(i)
        /\ bm' = bm \cup {i} /\ pcb' = [pcb EXCEPT ![i] = c]
        /\ pid' = [pid EXCEPT ![c] = i] /\ parentID' = [parentID EXCEPT ![c] = pid[p]]
  BY Zenon DEF ExecCreate
<1>1. /\ pc[p] = "exec" /\ waits[p] = NULL /\ pc[c] = "none" /\ waits[c] = NULL
      /\ c # p /\ pid[c] = NoPid /\ pid[p] \in Slots /\ c # Main
      /\ i \notin bm /\ pcb[i] = NULL
  <2>1. pc[p] = "exec" /\ waits[p] = NULL /\ pc[c] = "none" /\ i \notin bm
    BY <1>0, Zenon DEF ExecCreate, At, NewProcess, GetFreeSlot
  <2> QED
    BY <2>1, Zenon DEF Kin, SlotOwner, Posts, SleepOf
<1>2. /\ UNCHANGED <<freed, numwait, sem, waits, arg, unjoined, machine>>
      /\ tgt' = [tgt EXCEPT ![p] = c]
      /\ pc' = [pc EXCEPT ![p] = "exec_fork", ![c] = "created"]
  BY Zenon DEF ExecCreate
<1>3. TypeOK'
  BY <1>0, <1>1, <1>2, Zenon DEF TypeOK, Labels, ExecLabels
<1>4. /\ \A q \in Proc :
          /\ pc'[q] = IF q = p THEN "exec_fork" ELSE IF q = c THEN "created" ELSE pc[q]
          /\ tgt'[q] = IF q = p THEN c ELSE tgt[q]
          /\ pid'[q] = IF q = c THEN i ELSE pid[q]
          /\ parentID'[q] = IF q = c THEN pid[p] ELSE parentID[q]
      /\ \A j \in Slots : pcb'[j] = (IF j = i THEN c ELSE pcb[j]) /\ (j \in bm' <=> j \in bm \/ j = i)
  BY <1>0, <1>1, <1>2, Zenon DEF TypeOK
<1>41. /\ UNCHANGED <<freed, sem, waits, arg>>
       /\ pc'[p] = "exec_fork" /\ pc'[c] = "created" /\ tgt'[p] = c
       /\ \A q \in Proc \ {p, c} : pc'[q] = pc[q] /\ tgt'[q] = tgt[q]
       /\ \A q \in Proc \ {c} : pid'[q] = pid[q]
       /\ \A j \in Slots : pcb[j] # NULL => pcb'[j] = pcb[j]
  BY <1>1, <1>2, <1>4, Zenon
<1>5. \A q \in Proc : /\ Live(q)' <=> Live(q) \/ q = c
                      /\ pc'[q] = "none" <=> pc[q] = "none" /\ q # c
                      /\ pc'[q] = "done" <=> pc[q] = "done"
  BY <1>1, <1>4, Zenon DEF Live
<1>6. SlotOwner'
  <2>1. \A j \in Slots : (j \in bm' <=> pcb'[j] # NULL)
    <3>1. SlotOwner /\ c # NULL
      BY ProcessTableAssumption, Zenon DEF Kin
    <3> QED
      BY <1>4, <3>1, Zenon DEF SlotOwner
  <2>2. \A j \in Slots : pcb'[j] # NULL => pid'[pcb'[j]] = j /\ Live(pcb[j])'
    <3>1. ~Live(c)
      BY <1>1, Zenon DEF Live
    <3>2. \A j \in Slots : pcb[j] # NULL => pcb[j] \in Proc \ {c} /\ pid[pcb[j]] = j /\ Live(pcb[j])
      BY <3>1 DEF Kin, SlotOwner, TypeOK
    <3>3. ASSUME NEW j \in Slots, pcb'[j] # NULL
          PROVE  \E q \in Proc : q = pcb'[j] /\ pid'[q] = j /\ Live(q)'
      <4>1. CASE j = i
        <5>1. c = pcb'[j] /\ pid'[c] = j /\ Live(c)'
          BY <1>4, <1>5, <4>1, Zenon
        <5> QED
          BY <5>1, Zenon
      <4>2. CASE j # i
        <5>1. pcb'[j] = pcb[j]
          BY <1>4, <4>2, Zenon
        <5>2. PICK q \in Proc \ {c} : q = pcb[j] /\ pid[q] = j /\ Live(q)
          BY <3>2, <3>3, <5>1, Zenon
        <5> QED
          BY <1>41, <1>5, <5>1, <5>2, Zenon
      <4> QED
        BY <4>1, <4>2, Zenon
    <3> QED
      BY <3>3, Zenon DEF Live
  <2>3. \A q \in Proc : Live(q)' => pid'[q] \in Slots /\ pcb'[pid'[q]] = q
    <3>1. ASSUME NEW q \in Proc, q # c, Live(q)
          PROVE  pid'[q] \in Slots /\ pcb'[pid'[q]] = q
      <4>1. pid[q] \in Slots /\ pcb[pid[q]] = q /\ q # NULL
        BY <3>1, ProcessTableAssumption, Zenon DEF Kin, SlotOwner
      <4> QED
        BY <1>41, <3>1, <4>1, Zenon
    <3>2. pid'[c] \in Slots /\ pcb'[pid'[c]] = c
      BY <1>4, Zenon
    <3> QED
      BY <1>5, <3>1, <3>2, Zenon
  <2>4. \A q \in Proc : q \in freed' <=> pc'[q] = "done"
    BY <1>41, <1>5, Zenon DEF Kin, SlotOwner
  <2> QED
    BY <2>1, <2>2, <2>3, <2>4, Zenon DEF SlotOwner
<1>7. Kin'
  <2>1. Main # c /\ pc'[Main] \notin {"none", "created", "start", "done"} \cup ExitLabels /\ pid'[Main] = 0
    BY <1>1, <1>4, ProcessTableAssumption, Zenon DEF Kin, ExitLabels
  <2>2. \A q \in Proc \ {Main} : Live(q)' => parentID'[q] \in Slots
    BY <1>1, <1>4, <1>5, Zenon DEF Kin
  <2>3. \A q \in Proc : IF pc'[q] = "none" THEN pid'[q] = NoPid ELSE pid'[q] \in Slots
    BY <1>4, <1>5, Zenon DEF Kin
  <2> QED
    BY <1>6, <2>1, <2>2, <2>3, Zenon DEF Kin
<1>8. Posts'
  <2>1. NoPid \notin Slots
    BY DEF NoPid, Slots
  <2>2. ASSUME NEW q \in Proc PROVE SleepOf(q)' /\ TargetsOf(q)'
    <3>1. SleepOf(q) /\ TargetsOf(q)
      BY Zenon DEF Posts
    <3> HIDE <1>i
    <3>2. CASE q \in {p, c}
      BY <1>1, <1>41, <3>2, Zenon DEF SleepOf, TargetsOf
    <3>3. CASE q \notin {p, c}
      <4>1. SleepOf(q)'
        BY <1>41, <3>1, <3>3, Zenon DEF SleepOf
      <4>2. \A r \in Proc : /\ pc[r] = "created" => pc'[r] = "created"
                            /\ pc[r] \notin {"none", "created"} => pc'[r] \notin {"none", "created"}
        BY <1>1, <1>41, Zenon
      <4>3. \A r \in Proc : pid[r] \in Slots => pid'[r] = pid[r]
        BY <1>1, <1>41, <2>1, Zenon
      <4>4. pc'[q] = pc[q] /\ tgt'[q] = tgt[q] /\ arg'[q] = arg[q]
        BY <1>41, <3>3, Zenon
      <4> QED
        BY <3>1, <4>1, <4>2, <4>3, <4>4, Zenon DEF TargetsOf
    <3> QED
      BY <3>2, <3>3, Zenon
  <2> QED
    BY <2>2, Zenon DEF Posts
<1>9. Mutex'
  BY <1>1, <1>41 DEF Mutex, TableMutex, InTable, ExecLabels
<1>10. \A q \in Proc : Apart(q)
  BY <1>1, <1>41, Zenon DEF Apart, Reaps, Released, Zombie
<1>11. OneReaper' /\ JoinSeesItsChild'
  BY <1>1, <1>41, ProcessTableAssumption DEF Shake, OneReaper, Reaps, JoinSeesItsChild, Posts, TargetsOf, Zombie
<1> QED
  BY <1>3, <1>7, <1>8, <1>9, <1>10, <1>11, ShakeKept, Zenon DEF IInv, Shake

(* Remove empties the slot of p, which no Join reads any more.               *)
LEMMA ExitClearIInv ==
    ASSUME IInv, NEW p \in Proc, ExitClear(p), disciplined' = disciplined
    PROVE  IInv'
<1>i. TypeOK /\ Kin /\ Posts /\ Mutex /\ Shake
  BY Zenon DEF IInv
<1> USE <1>i
<1>1. pc[p] = "exit_clear" /\ waits[p] = NULL /\ pid[p] \in Slots /\ pcb[pid[p]] = p /\ p # Main
  BY Zenon DEF ExitClear, At, Kin, SlotOwner, Live, ExitLabels
<1>2. /\ Ups(bmsem)
      /\ UNCHANGED <<pid, parentID, numwait, arg, tgt, unjoined, machine, waits>>
      /\ bm' = bm \ {pid[p]} /\ freed' = freed \cup {p} /\ pcb' = [pcb EXCEPT ![pid[p]] = NULL]
      /\ pc' = [pc EXCEPT ![p] = "done"]
  BY <1>1, Sems, SemSteps, Zenon DEF ExitClear, Goto
<1>3. TypeOK'
  BY <1>1, <1>2, Zenon DEF TypeOK, Ups, SemTypes, Labels
<1>4. /\ \A q \in Proc : pc'[q] = IF q = p THEN "done" ELSE pc[q]
      /\ \A j \in Slots : /\ pcb'[j] = IF j = pid[p] THEN NULL ELSE pcb[j]
                          /\ j \in bm' <=> j \in bm /\ j # pid[p]
  BY <1>1, <1>2, Zenon DEF TypeOK
<1>5. \A q \in Proc : /\ Live(q)' <=> Live(q) /\ q # p
                      /\ pc'[q] = "none" <=> pc[q] = "none"
                      /\ pc'[q] = "done" <=> pc[q] = "done" \/ q = p
  BY <1>1, <1>4, Zenon DEF Live
<1>6. SlotOwner'
  BY <1>1, <1>2, <1>4, <1>5 DEF Kin, SlotOwner, TypeOK
<1>7. Kin'
  BY <1>1, <1>2, <1>4, <1>5, <1>6 DEF Kin
<1>8. Posts'
  <2>1. ASSUME NEW q \in Proc, q # p PROVE SleepOf(q)' /\ TargetsOf(q)'
    <3>1. pc'[q] = pc[q] /\ \A r \in Proc : pc'[r] \in {"none", "created"} <=> pc[r] \in {"none", "created"}
      BY <1>1, <1>4, <2>1, Zenon
    <3>2. \A r \in Proc : pc[r] = "created" => pc'[r] = "created"
      BY <1>1, <1>4, Zenon
    <3> QED
      BY <1>2, <3>1, <3>2, Zenon DEF Posts, SleepOf, TargetsOf
  <2>2. SleepOf(p)' /\ TargetsOf(p)'
    <3>1. pc'[p] = "done" /\ waits'[p] = NULL
      BY <1>1, <1>2, <1>4, Zenon
    <3> QED
      BY <3>1, Zenon DEF SleepOf, TargetsOf
  <2> QED
    BY <2>1, <2>2, Zenon DEF Posts
<1>9. Mutex'
  <2>1. Balanced(p) /\ \A q \in Proc \ {p} : InTable(q)' <=> InTable(q)
    BY <1>1, <1>2, <1>4, Sems DEF Balanced, Inside, InTable, ExecLabels, Ups, TypeOK, SemTypes
  <2> QED
    BY <1>3, <2>1, MutexKept, Zenon
<1>10. OneReaper' /\ \A q, r \in Proc : Reaps(r, q)' <=> Reaps(r, q)
  BY <1>1, <1>2, <1>4 DEF Shake, OneReaper, Reaps
<1>11. Released(p) /\ Released(p)' /\ Zombie(p) /\ ~Zombie(p)' /\ pc[p] # "done" /\ pc'[p] = "done"
  BY <1>1, <1>4, Zenon DEF Released, Zombie
<1>12. \A q \in Proc : sem'[joinsem(q)] = sem[joinsem(q)] /\ sem'[exitsem(q)] = sem[exitsem(q)]
  BY <1>2, Sems, Zenon DEF Ups
<1>13. \A q \in Proc \ {p} : Apart(q)
  BY <1>2, <1>4, <1>10, <1>12, Zenon DEF Apart, Released, Zombie
<1>14. ShakeOf(p)'
  <2>1. (\E r \in Proc : Reaps(r, p))' <=> (\E r \in Proc : Reaps(r, p))
    BY <1>10, Zenon
  <2> QED
    BY <1>11, <1>12, <2>1, Zenon DEF ShakeOf, Shake
<1>15. JoinSeesItsChild'
  <2>1. \A q \in Proc : ~Reaps(q, p)
    BY <1>11, ShakeFacts, Zenon DEF Reaps
  <2> QED
    BY <1>1, <1>2, <1>4, <2>1 DEF Shake, JoinSeesItsChild, Reaps, Posts, TargetsOf, Zombie
<1> QED
  BY <1>3, <1>7, <1>8, <1>9, <1>10, <1>13, <1>14, <1>15, ShakeKept, Zenon DEF IInv, Shake

-----------------------------------------------------------------------------
(* Every step keeps the invariant. *)
LEMMA CalmIInv ==
    ASSUME IInv, NEW p \in Proc, NEW l, Calm(p, l)
    PROVE  IInv'
BY QuietIInv, Zenon DEF Calm

LEMMA FailIInv ==
    ASSUME IInv, disciplined' = disciplined,
           NEW how \in {"exited", "assert", "null", "freed"}, Fail(how)
    PROVE  IInv'
BY SameIInv, Zenon DEF Fail, tableVars, procVars

LEMMA ResumeIInv ==
    ASSUME IInv, disciplined' = disciplined, NEW p \in Proc, Resume(p)
    PROVE  IInv'
<1>1. pc[p] \in {"exec", "exit_clear", "join_inc", "exit_dec", "join_code", "exit_remove"}
  BY Zenon DEF Resume, IInv, Posts, SleepOf, TypeOK, Labels, ExecLabels, JoinLabels, ExitLabels
<1>2. CASE pc[p] \in {"exec", "exit_clear"}
  BY <1>2, ResumeTableCalm, CalmIInv, Zenon
<1>3. CASE pc[p] \in {"join_inc", "exit_dec"}
  BY <1>3, ResumeMultexCalm, CalmIInv, Zenon
<1>4. CASE pc[p] = "join_code"
  BY <1>4, ResumeJoinIInv, Zenon
<1>5. CASE pc[p] = "exit_remove"
  BY <1>5, ResumeExitIInv, Zenon
<1> QED
  BY <1>1, <1>2, <1>3, <1>4, <1>5, Zenon

LEMMA ExecIInv ==
    ASSUME IInv, disciplined' = disciplined, NEW p \in Proc,
           ExecCall(p) \/ ExecRefuse(p) \/ (\E c \in Proc : ExecCreate(p, c)) \/ ExecFork(p)
             \/ ExecUnlock(p) \/ ExecReturn(p) \/ Start(p)
    PROVE  IInv'
<1>1. CASE ExecCall(p) \/ ExecRefuse(p) \/ ExecUnlock(p) \/ ExecReturn(p)
  BY <1>1, CalmIInv, ExecCallCalm, ExecRefuseCalm, ExecUnlockCalm, ExecReturnCalm, Zenon
<1>2. CASE (\E c \in Proc : ExecCreate(p, c)) \/ ExecFork(p)
  BY <1>2, ExecCreateIInv, ExecForkIInv, Zenon
<1>3. CASE Start(p) /\ pc' # pc
  BY <1>3, StartCalm, CalmIInv, Zenon
<1>4. CASE Start(p) /\ pc' = pc
  <2>1. machine' \in {"up", "loadfailed"}
    BY <1>4, Zenon DEF Start, At
  <2> QED
    BY <1>4, <2>1, SameIInv, Zenon DEF Start, tableVars
<1> QED
  BY <1>1, <1>2, <1>3, <1>4, Zenon

LEMMA JoinIInv ==
    ASSUME IInv, disciplined' = disciplined, NEW p \in Proc,
           JoinOutOfRange(p) \/ (\E i \in Slots : JoinCall(p, i)) \/ JoinInc(p) \/ JoinWait(p)
             \/ JoinReturn(p)
    PROVE  IInv'
<1>1. CASE JoinOutOfRange(p) \/ Fail("null")
  BY <1>1, FailIInv, Zenon DEF JoinOutOfRange
<1>2. CASE (\E i \in Slots : JoinCall(p, i)) \/ JoinInc(p)
  BY <1>2, CalmIInv, JoinCallCalm, JoinIncCalm, Zenon
<1>3. CASE JoinWait(p) /\ ~Fail("null")
  <2>1. pcb[arg[p]] # NULL
    BY <1>3, Zenon DEF JoinWait
  <2> QED
    BY <1>3, <2>1, JoinWaitIInv, Zenon
<1>4. CASE JoinReturn(p) /\ ~Fail("null")
  <2>1. pcb[arg[p]] # NULL
    BY <1>4, Zenon DEF JoinReturn
  <2> QED
    BY <1>4, <2>1, JoinReturnIInv, Zenon
<1> QED
  BY <1>1, <1>2, <1>3, <1>4, Zenon

LEMMA ExitIInv ==
    ASSUME IInv, disciplined' = disciplined, NEW p \in Proc,
           ExitCall(p) \/ ExitDec(p) \/ ExitJoinRelease(p) \/ ExitWait(p) \/ ExitRemove(p)
             \/ ExitClear(p)
    PROVE  IInv'
<1>1. CASE Fail("exited") \/ Fail("null") \/ Fail("freed")
  BY <1>1, FailIInv, Zenon
<1>2. CASE ExitCall(p) /\ ~Fail("exited") /\ ~Fail("null")
  <2>1. pid[p] # 0 /\ pcb[parentID[p]] # NULL
    BY <1>2, Zenon DEF ExitCall
  <2> QED
    BY <1>2, <2>1, ExitCallCalm, CalmIInv, Zenon
<1>3. CASE ExitDec(p) /\ ~Fail("freed")
  BY <1>3, ExitDecCalm, CalmIInv, Zenon
<1>4. CASE ExitJoinRelease(p) \/ ExitWait(p) \/ ExitRemove(p) \/ ExitClear(p)
  BY <1>4, CalmIInv, ExitJoinReleaseIInv, ExitWaitIInv, ExitRemoveCalm, ExitClearIInv, Zenon
<1> QED
  BY <1>1, <1>2, <1>3, <1>4, Zenon

LEMMA NextIInv == IInv /\ [Next]_vars => IInv'
<1> SUFFICES ASSUME IInv, [Next]_vars PROVE IInv'
  BY Zenon
<1>1. CASE UNCHANGED vars
  BY <1>1, SameIInv, Zenon DEF vars, tableVars, procVars, IInv, TypeOK
<1>2. CASE Next
  <2>1. disciplined' = disciplined /\ \E p \in Proc : Kernel(p) \/ User(p)
    BY <1>2, Zenon DEF Next
  <2> QED
    BY <2>1, ResumeIInv, ExecIInv, JoinIInv, ExitIInv, Zenon DEF Kernel, User
<1> QED
  BY <1>1, <1>2, Zenon

(* The table that PTable::PTable builds satisfies it. *)
LEMMA InitIInv == Init => IInv
<1> SUFFICES ASSUME Init PROVE IInv
  BY Zenon
<1> USE ProcessTableAssumption
<1>1. /\ waits = [p \in Proc |-> NULL]
      /\ sem = [s \in SemId |-> IF s \in {bmsem, multex(Main)} THEN 1 ELSE 0]
      /\ 0 \in Slots /\ NoPid \notin Slots
  BY DEF Init, CS!Init, Slots, NoPid
<1>2. \A p \in Proc : pc[p] = IF p = Main THEN "user" ELSE "none"
  BY Zenon DEF Init
<1>3. TypeOK
  <2>1. /\ sem \in [SemId -> Nat] /\ waits \in [Proc -> SemId \cup {NULL}] /\ numwait \in [Proc -> Int]
        /\ pc \in [Proc -> Labels] /\ unjoined \in [Proc -> SUBSET Slots]
        /\ bm \in SUBSET Slots /\ freed \in SUBSET Proc /\ pcb \in [Slots -> Proc \cup {NULL}]
    BY <1>1 DEF Init, Labels
  <2>2. /\ pid \in [Proc -> Slots \cup {NoPid}] /\ parentID \in [Proc -> Slots \cup {NoPid}]
        /\ arg \in [Proc -> Slots \cup {NoPid}] /\ tgt \in [Proc -> Proc \cup {NULL}]
        /\ machine \in {"up", "exited", "loadfailed", "assert", "null", "freed"}
    BY <1>1, Zenon DEF Init
  <2>3. disciplined \in BOOLEAN
    BY Zenon DEF Init
  <2> QED
    BY <2>1, <2>2, <2>3, Zenon DEF TypeOK
<1>4. Kin
  BY <1>1, <1>2, Zenon DEF Init, Kin, SlotOwner, Live, ExitLabels
<1>5. Posts /\ Mutex
  BY <1>1, <1>2, Sems DEF Posts, SleepOf, TargetsOf, Mutex, TableMutex, InTable, ExecLabels
<1>6. OneReaper /\ JoinSeesItsChild
  BY <1>2, Zenon DEF OneReaper, JoinSeesItsChild, Reaps
<1>7. \A p \in Proc : ShakeOf(p)
  <2>1. \A p \in Proc : sem[joinsem(p)] = 0 /\ sem[exitsem(p)] = 0
    BY <1>1, Sems, Zenon
  <2> QED
    BY <1>2, <2>1 DEF ShakeOf, Reaps, Zombie, Released
<1> QED
  BY <1>3, <1>4, <1>5, <1>6, <1>7, Zenon DEF IInv, Shake

-----------------------------------------------------------------------------
(* IInv holds in every state the process table can be in, whatever the       *)
(* programs do.                                                              *)
THEOREM Inductive == Spec => []IInv
BY InitIInv, NextIInv, PTL DEF Spec

(* For a table of any size and any number of processes: bmsem keeps Exec and *)
(* Remove apart, and a pid names one live process (ExecUpdate, Remove).      *)
THEOREM TableAlwaysRight == Spec => []TableRight
<1>1. IInv => TableRight
  BY Zenon DEF IInv, Mutex, Kin, TableRight
<1> QED
  BY <1>1, Inductive, PTL

INSTANCE FiniteSetTheorems

(* For any number of processes: an ending process is announced once, read by *)
(* at most one Join, and leaves only after that; a Join that has returned    *)
(* from JoinWait works on the child it waited for (JoinUpdate, ExitUpdate).  *)
THEOREM ChildrenAlwaysMeet == Spec => []ChildrenMet
<1>1. ASSUME IInv, NEW p \in Proc
      PROVE  Cardinality(Reapers(p)) = IF \E q \in Proc : Reaps(q, p) THEN 1 ELSE 0
  <2>1. CASE \E q \in Proc : Reaps(q, p)
    <3>1. PICK q \in Proc : Reaps(q, p)
      BY <2>1, Zenon
    <3>2. Reapers(p) = {q}
      BY <1>1, <3>1, Zenon DEF Reapers, IInv, Shake, OneReaper, Reaps
    <3> QED
      BY <2>1, <3>2, FS_Singleton, Zenon
  <2>2. CASE ~\E q \in Proc : Reaps(q, p)
    <3>1. Reapers(p) = {}
      BY <2>2, Zenon DEF Reapers, Reaps
    <3> QED
      BY <2>2, <3>1, FS_EmptySet, Zenon
  <2> QED
    BY <2>1, <2>2, Zenon
<1>2. IInv => ChildrenMet
  BY <1>1, Zenon DEF IInv, Shake, ShakeOf, ChildrenMet, ExitHandshake
<1> QED
  BY <1>2, Inductive, PTL

====
