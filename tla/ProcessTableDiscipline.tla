----------------------- MODULE ProcessTableDiscipline -----------------------
(***************************************************************************)
(* Proofs about ProcessTable for disciplined programs, which join each     *)
(* child once and exit after that, for a table of any size and any number  *)
(* of processes: the kernel meets no empty slot and no deleted PCB, and    *)
(* the main process ends last.  They build on the invariant that           *)
(* ProcessTableProofs shows to hold whatever programs do.                  *)
(***************************************************************************)
EXTENDS ProcessTableProofs

-----------------------------------------------------------------------------
(* A process is a child of its parent until the parent lets go of it.        *)
Gone(c) == sem[exitsem(c)] > 0 \/ Released(c)
Child(c) == c # Main /\ pc[c] # "none" /\ ~Gone(c)
Parent(c) == pcb[parentID[c]]

(* Exec in q has created c, and has not yet returned its pid.                *)
Making(q, c) == pc[q] \in {"exec_fork", "exec_unlock", "exec_return"} /\ tgt[q] = c

(* A parent outlives its children, and knows each of them.                   *)
Owned ==
    \A c \in Proc : Child(c) =>
        \E q \in Proc : q = Parent(c) /\ (pid[c] \in unjoined[q] \/ Making(q, c))

Owns(q) ==
    /\ \A i \in unjoined[q] : \E c \in Proc : c = pcb[i] /\ Child(c) /\ parentID[c] = pid[q]
    /\ \A c \in Proc : Making(q, c) => Child(c) /\ parentID[c] = pid[q]

(* Nobody is its own ancestor: from any set of children a parent leads out.  *)
Rooted ==
    \A S \in SUBSET Proc :
        S # {} /\ (\A c \in S : Child(c)) => \E c \in S : Parent(c) \notin S

Family == Owned /\ (\A q \in Proc : Owns(q)) /\ Rooted

(* What programs and the calls make of unjoined, arg and tgt.                *)
Place(q) ==
    /\ pc[q] \in ExitLabels \cup {"none", "created", "start", "done"} => unjoined[q] = {}
    /\ pc[q] \in JoinLabels => arg[q] \in unjoined[q]
    /\ pc[q] = "join_inc" => tgt[q] = q
    /\ pc[q] = "join_code" => tgt[q] = pcb[arg[q]]
    /\ pc[q] = "exit_dec" => tgt[q] = Parent(q)

(* A child that has counted itself out of its parent's numwait, before the   *)
(* Join that counted itself in is done with it.                              *)
Told(c) == Child(c) /\ (pc[c] = "exit_join" \/ Zombie(c))
Waiting(p) == pc[p] \in {"join_wait", "join_code"}
Debts(p) == {i \in Slots : \E c \in Proc : c = pcb[i] /\ Told(c) /\ Parent(c) = p}
Counted(p) == numwait[p] = (IF Waiting(p) THEN 1 ELSE 0) - Cardinality(Debts(p))

Stops ==
    /\ machine \in {"up", "exited", "loadfailed"}
    /\ machine = "exited" => pc[Main] = "user" /\ unjoined[Main] = {}

Disc ==
    /\ Family
    /\ \A q \in Proc : Place(q)
    /\ \A q \in Proc : Counted(q)
    /\ Stops

DInv == disciplined => Disc

-----------------------------------------------------------------------------
(* Children are live, and have told of their end once they are gone.         *)
LEMMA ChildFacts ==
    ASSUME IInv, NEW c \in Proc
    PROVE  /\ Child(c) => /\ Live(c) /\ pid[c] \in Slots /\ pcb[pid[c]] = c
                          /\ parentID[c] \in Slots
           /\ Gone(c) => /\ Zombie(c) \/ pc[c] = "done"
                         /\ Released(c) \/ sem[exitsem(c)] = 1
           /\ Released(c) => Zombie(c) \/ pc[c] = "done"
<1>i. TypeOK /\ Kin
  BY Zenon DEF IInv
<1>1. Released(c) => Zombie(c) \/ pc[c] = "done"
  BY Zenon DEF Released, Zombie
<1>2. Child(c) => Live(c)
  BY Zenon DEF Child, Gone, Released, Live
<1>3. sem[exitsem(c)] > 0 => sem[exitsem(c)] = 1 /\ (Zombie(c) \/ pc[c] = "done")
  <2>1. ShakeOf(c) /\ sem[joinsem(c)] \in Nat /\ sem[exitsem(c)] \in Nat
    BY ShakeFacts, Zenon
  <2> QED
    BY <2>1 DEF ShakeOf
<1> QED
  BY <1>i, <1>1, <1>2, <1>3, Zenon DEF Gone, Child, Kin, SlotOwner

(* Whoever is in Exit before its announcement is still a child.              *)
LEMMA ExitDecChild ==
    ASSUME IInv, NEW c \in Proc, pc[c] \in {"exit_dec", "exit_join"}
    PROVE  Child(c)
<1>1. c # Main /\ ~Zombie(c) /\ pc[c] # "done"
  BY Zenon DEF IInv, Kin, ExitLabels, Zombie
<1> QED
  BY <1>1, ChildFacts, Zenon DEF Child

(* Two processes with one parent pid, and one process in two slots.          *)
LEMMA PidFacts ==
    ASSUME IInv, NEW q \in Proc, NEW r \in Proc, Live(q), Live(r), pid[q] = pid[r]
    PROVE  q = r
<1>1. pcb[pid[q]] = q /\ pcb[pid[r]] = r
  BY Zenon DEF IInv, Kin, SlotOwner
<1> QED
  BY <1>1, Zenon

-----------------------------------------------------------------------------
(* Steps that leave parents and children as they are.                        *)
Same ==
    /\ UNCHANGED <<pcb, pid, parentID, unjoined>>
    /\ \A q \in Proc : Child(q)' <=> Child(q)
    /\ \A q, c \in Proc : Making(q, c)' <=> Making(q, c)

LEMMA RootedKept ==
    ASSUME Rooted, \A c \in Proc : Child(c)' => Child(c) /\ Parent(c)' = Parent(c)
    PROVE  Rooted'
<1> SUFFICES ASSUME NEW S \in SUBSET Proc, S # {}, \A c \in S : Child(c)'
             PROVE  \E c \in S : Parent(c)' \notin S
  BY Zenon DEF Rooted
<1>1. PICK c \in S : Parent(c) \notin S
  BY Zenon DEF Rooted
<1> QED
  BY <1>1, Zenon

LEMMA FamilyKept ==
    ASSUME Family, Same
    PROVE  Family'
<1>1. \A c \in Proc : Parent(c)' = Parent(c)
  BY Zenon DEF Same, Parent
<1>2. Owned'
  BY <1>1, Zenon DEF Family, Owned, Same
<1>3. \A q \in Proc : Owns(q)'
  BY Zenon DEF Family, Owns, Same
<1>4. Rooted'
  BY <1>1, RootedKept, Zenon DEF Family, Same
<1> QED
  BY <1>2, <1>3, <1>4, Zenon DEF Family

(* A step of p that changes neither unjoined nor who is gone.                *)
Stays(p, l) ==
    /\ Moves(p, l)
    /\ \A q \in Proc : Gone(q)' <=> Gone(q)
    /\ unjoined' = unjoined
    /\ machine = "up" /\ machine' = "up"

LEMMA StaysSame ==
    ASSUME NEW p \in Proc, NEW l, Stays(p, l), \A c \in Proc : Making(p, c)' <=> Making(p, c)
    PROVE  Same
<1>1. \A q \in Proc : Child(q)' <=> Child(q)
  BY Zenon DEF Stays, Moves, Child
<1>2. \A q, c \in Proc : Making(q, c)' <=> Making(q, c)
  BY Zenon DEF Stays, Moves, Making
<1> QED
  BY <1>1, <1>2, Zenon DEF Stays, Moves, Same

LEMMA PlacesKept ==
    ASSUME NEW p \in Proc, NEW l, Moves(p, l), \A q \in Proc : Place(q), Place(p)',
           \A q \in Proc \ {p} : unjoined'[q] = unjoined[q]
    PROVE  \A q \in Proc : Place(q)'
<1> SUFFICES ASSUME NEW q \in Proc, q # p PROVE Place(q)'
  BY Zenon
<1>1. /\ pc'[q] = pc[q] /\ unjoined'[q] = unjoined[q] /\ arg'[q] = arg[q] /\ tgt'[q] = tgt[q]
      /\ pcb' = pcb /\ parentID' = parentID
  BY Zenon DEF Moves
<1> QED
  BY <1>1, Zenon DEF Place, Parent

LEMMA CountsKept ==
    ASSUME NEW p \in Proc, NEW l, Moves(p, l), Same, numwait' = numwait,
           \A q \in Proc : Counted(q), Told(p)' <=> Told(p), Waiting(p)' <=> Waiting(p)
    PROVE  \A q \in Proc : Counted(q)'
<1>1. \A q \in Proc : (Told(q)' <=> Told(q)) /\ (Waiting(q)' <=> Waiting(q))
  BY Zenon DEF Moves, Same, Told, Zombie, Waiting
<1>2. \A q \in Proc : Debts(q)' = Debts(q)
  <2>1. \A c \in Proc : Parent(c)' = Parent(c)
    BY Zenon DEF Same, Parent
  <2> QED
    BY <1>1, <2>1, Zenon DEF Same, Debts
<1> QED
  BY <1>1, <1>2, Zenon DEF Counted

LEMMA StaysDisc ==
    ASSUME Disc, NEW p \in Proc, NEW l, Stays(p, l),
           \A c \in Proc : Making(p, c)' <=> Making(p, c), Place(p)', numwait' = numwait,
           Told(p)' <=> Told(p), Waiting(p)' <=> Waiting(p)
    PROVE  Disc'
<1>1. Same
  BY StaysSame, Zenon
<1>2. Family'
  BY <1>1, FamilyKept, Zenon DEF Disc
<1>3. \A q \in Proc : Place(q)'
  BY PlacesKept, Zenon DEF Disc, Stays
<1>4. \A q \in Proc : Counted(q)'
  BY <1>1, CountsKept, Zenon DEF Disc, Stays
<1>5. Stops'
  BY Zenon DEF Stays, Stops
<1> QED
  BY <1>2, <1>3, <1>4, <1>5, Zenon DEF Disc

(* A step that only ends the machine.                                        *)
LEMMA EndDisc ==
    ASSUME Disc, UNCHANGED <<pcb, pid, parentID, numwait, sem, pc, waits, arg, tgt, unjoined>>, Stops'
    PROVE  Disc'
<1>1. \A q \in Proc : Gone(q)' <=> Gone(q)
  BY Zenon DEF Gone, Released
<1>2. Same /\ \A q \in Proc : Told(q)' <=> Told(q)
  BY <1>1, Zenon DEF Same, Child, Making, Told, Zombie
<1>3. Family'
  BY <1>2, FamilyKept, Zenon DEF Disc
<1>4. \A q \in Proc : Place(q)'
  BY Zenon DEF Disc, Place, Parent
<1>5. \A q \in Proc : Debts(q)' = Debts(q)
  BY <1>2, Zenon DEF Debts, Parent
<1>6. \A q \in Proc : Counted(q)'
  BY <1>5, Zenon DEF Disc, Counted, Waiting
<1> QED
  BY <1>3, <1>4, <1>6, Zenon DEF Disc

-----------------------------------------------------------------------------
(* Calm steps let nobody go.                                                 *)
LEMMA CalmGone ==
    ASSUME IInv, NEW p \in Proc, NEW l, Calm(p, l)
    PROVE  \A q \in Proc : Gone(q)' <=> Gone(q)
<1>1. Moves(p, l) /\ Quiet(p, l)
  BY Zenon DEF Calm
<1>2. Released(p)' <=> Released(p)
  BY <1>1, Zenon DEF Moves, Quiet, Released, Working, ExecLabels, Leaving
<1>3. \A q \in Proc : Released(q)' <=> Released(q)
  BY <1>1, <1>2, Zenon DEF Moves, Released
<1> QED
  BY <1>1, <1>3, Zenon DEF Quiet, Gone

LEMMA CalmStays ==
    ASSUME IInv, NEW p \in Proc, NEW l, Calm(p, l), unjoined' = unjoined,
           machine = "up", machine' = "up"
    PROVE  Stays(p, l)
BY CalmGone, Zenon DEF Stays, Calm

(* Most calm steps change nothing of interest.                               *)
LEMMA CalmDisc ==
    ASSUME IInv, Disc, NEW p \in Proc, NEW l, Calm(p, l), UNCHANGED <<unjoined, numwait, machine>>,
           machine = "up", \A c \in Proc : Making(p, c)' <=> Making(p, c), Place(p)',
           {pc[p], l} \cap {"join_wait", "join_code", "exit_join"} = {}
    PROVE  Disc'
<1>1. Stays(p, l)
  BY CalmStays, Zenon
<1>2. pc'[p] = l /\ Moves(p, l) /\ Quiet(p, l)
  BY <1>1, Zenon DEF Calm, Moves
<1>3. Waiting(p)' <=> Waiting(p)
  BY <1>2, Zenon DEF Waiting
<1>4. Zombie(p)' <=> Zombie(p)
  BY <1>2, Zenon DEF Quiet, Zombie, Working, ExecLabels, Leaving
<1>5. Child(p)' <=> Child(p)
  BY <1>1, Zenon DEF Stays, Moves, Child
<1>6. Told(p)' <=> Told(p)
  BY <1>2, <1>4, <1>5, Zenon DEF Told
<1> QED
  BY <1>1, <1>3, <1>6, StaysDisc, Zenon

(* The steps of Exec that do not create a process.                           *)
LEMMA ExecDisc ==
    ASSUME IInv, Disc, NEW p \in Proc, disciplined' = disciplined,
           ExecCall(p) \/ ExecRefuse(p) \/ ExecUnlock(p)
    PROVE  Disc'
<1>1. CASE ExecCall(p)
  <2>1. Calm(p, "exec") /\ pc[p] = "user" /\ machine = "up" /\ UNCHANGED <<unjoined, numwait, machine>>
    BY <1>1, ExecCallCalm, Zenon DEF ExecCall, At, tableVars
  <2>2. pc'[p] = "exec"
    BY <2>1, Zenon DEF Calm, Moves
  <2>3. Place(p)' /\ \A c \in Proc : Making(p, c)' <=> Making(p, c)
    BY <2>1, <2>2, Zenon DEF Place, Making, ExitLabels, JoinLabels
  <2> QED
    BY <2>1, <2>3, CalmDisc, Zenon
<1>2. CASE ExecRefuse(p)
  <2>1. Calm(p, "user") /\ pc[p] = "exec" /\ machine = "up" /\ UNCHANGED <<unjoined, numwait, machine>>
    BY <1>2, ExecRefuseCalm, Zenon DEF ExecRefuse, At, tableVars
  <2>2. pc'[p] = "user"
    BY <2>1, Zenon DEF Calm, Moves
  <2>3. Place(p)' /\ \A c \in Proc : Making(p, c)' <=> Making(p, c)
    BY <2>1, <2>2, Zenon DEF Place, Making, ExitLabels, JoinLabels
  <2> QED
    BY <2>1, <2>3, CalmDisc, Zenon
<1>3. CASE ExecUnlock(p)
  <2>1. /\ Calm(p, "exec_return") /\ pc[p] = "exec_unlock" /\ machine = "up"
        /\ UNCHANGED <<unjoined, numwait, machine, tgt>>
    BY <1>3, ExecUnlockCalm, Zenon DEF ExecUnlock, At, tableVars
  <2>2. pc'[p] = "exec_return"
    BY <2>1, Zenon DEF Calm, Moves
  <2>3. Place(p)' /\ \A c \in Proc : Making(p, c)' <=> Making(p, c)
    BY <2>1, <2>2, Zenon DEF Place, Making, ExitLabels, JoinLabels
  <2> QED
    BY <2>1, <2>3, CalmDisc, Zenon
<1> QED
  BY <1>1, <1>2, <1>3, Zenon

(* A program is entered, or the machine stops because it cannot be loaded.   *)
LEMMA StartDisc ==
    ASSUME IInv, Disc, NEW p \in Proc, disciplined' = disciplined, Start(p)
    PROVE  Disc'
<1>1. /\ pc[p] = "start" /\ machine = "up"
      /\ UNCHANGED <<bm, pcb, freed, pid, parentID, numwait, sem, waits, arg, tgt, unjoined>>
  BY Zenon DEF Start, At, tableVars
<1>2. CASE pc' # pc
  <2>1. Calm(p, "user") /\ machine' = machine
    BY <1>2, StartCalm, Zenon DEF Start
  <2>2. pc'[p] = "user"
    BY <2>1, Zenon DEF Calm, Moves
  <2>3. Place(p)' /\ \A c \in Proc : Making(p, c)' <=> Making(p, c)
    BY <1>1, <2>2, Zenon DEF Place, Making, ExitLabels, JoinLabels
  <2> QED
    BY <1>1, <2>1, <2>3, CalmDisc, Zenon
<1>3. CASE pc' = pc
  <2>1. machine' \in {"up", "loadfailed"}
    BY <1>1, Zenon DEF Start
  <2> QED
    BY <1>1, <1>3, <2>1, EndDisc, Zenon DEF Stops
<1> QED
  BY <1>2, <1>3, Zenon

(* The child may run.                                                        *)
LEMMA ExecForkDisc ==
    ASSUME IInv, Disc, NEW p \in Proc, ExecFork(p)
    PROVE  Disc'
<1>1. pc[p] = "exec_fork" /\ tgt[p] \in Proc /\ pc[tgt[p]] = "created" /\ machine = "up"
  BY Zenon DEF ExecFork, At, IInv, Posts, TargetsOf
<1>2. UNCHANGED <<pcb, freed, pid, parentID, numwait, sem, waits, arg, tgt, unjoined, machine>>
  BY Zenon DEF ExecFork, tableVars
<1>3. \A q \in Proc :
        pc'[q] = IF q = p THEN "exec_unlock" ELSE IF q = tgt[p] THEN "start" ELSE pc[q]
  BY <1>1, Zenon DEF ExecFork, IInv, TypeOK
<1>4. \A q \in Proc : /\ pc'[q] = "none" <=> pc[q] = "none"
                      /\ Released(q)' <=> Released(q)
                      /\ Zombie(q)' <=> Zombie(q)
                      /\ pc'[q] = "exit_join" <=> pc[q] = "exit_join"
                      /\ Waiting(q)' <=> Waiting(q)
  BY <1>1, <1>2, <1>3, Zenon DEF Released, Zombie, Waiting
<1>5. Same /\ \A q \in Proc : Told(q)' <=> Told(q)
  <2>1. \A q \in Proc : Child(q)' <=> Child(q)
    BY <1>2, <1>4, Zenon DEF Child, Gone
  <2>2. \A q, c \in Proc : Making(q, c)' <=> Making(q, c)
    BY <1>1, <1>2, <1>3, Zenon DEF Making
  <2> QED
    BY <1>2, <1>4, <2>1, <2>2, Zenon DEF Same, Told
<1>6. Family'
  BY <1>5, FamilyKept, Zenon DEF Disc
<1>7. \A q \in Proc : Place(q)'
  <2>1. ASSUME NEW q \in Proc PROVE Place(q)'
    <3>1. Place(q)
      BY Zenon DEF Disc
    <3>2. CASE q \in {p, tgt[p]}
      BY <1>1, <1>2, <1>3, <3>1, <3>2, Zenon DEF Place, ExitLabels, JoinLabels
    <3>3. CASE q \notin {p, tgt[p]}
      BY <1>2, <1>3, <3>1, <3>3, Zenon DEF Place, Parent
    <3> QED
      BY <3>2, <3>3, Zenon
  <2> QED
    BY <2>1, Zenon
<1>8. \A q \in Proc : Debts(q)' = Debts(q)
  BY <1>2, <1>5, Zenon DEF Debts, Parent
<1>9. \A q \in Proc : Counted(q)'
  BY <1>2, <1>4, <1>8, Zenon DEF Disc, Counted
<1> QED
  BY <1>1, <1>2, <1>6, <1>7, <1>9, Zenon DEF Disc, Stops

(* Exec returns the pid of the child that it made.                           *)
LEMMA ExecReturnDisc ==
    ASSUME IInv, Disc, NEW p \in Proc, ExecReturn(p), disciplined' = disciplined
    PROVE  Disc'
<1>1. /\ Calm(p, "user") /\ pc[p] = "exec_return" /\ tgt[p] \in Proc
      /\ machine = "up" /\ UNCHANGED <<numwait, machine, tgt>>
  BY ExecReturnCalm, Zenon DEF ExecReturn, At, tableVars, IInv, Posts, TargetsOf
<1>2. Moves(p, "user") /\ pc'[p] = "user" /\ UNCHANGED <<pcb, pid, parentID>>
  BY <1>1, Zenon DEF Calm, Moves
<1>3. /\ unjoined'[p] = unjoined[p] \cup {pid[tgt[p]]}
      /\ \A q \in Proc \ {p} : unjoined'[q] = unjoined[q]
  BY Zenon DEF ExecReturn, IInv, TypeOK
<1>4. Making(p, tgt[p]) /\ Child(tgt[p]) /\ parentID[tgt[p]] = pid[p]
  BY <1>1, Zenon DEF Making, Disc, Family, Owns
<1>5. pcb[pid[tgt[p]]] = tgt[p]
  BY <1>1, <1>4, ChildFacts, Zenon
<1>6. \A q \in Proc : (Child(q)' <=> Child(q)) /\ Parent(q)' = Parent(q)
  <2>1. \A q \in Proc : Gone(q)' <=> Gone(q)
    BY <1>1, CalmGone, Zenon
  <2> QED
    BY <1>2, <2>1, Zenon DEF Child, Moves, Parent
<1>7. \A q, c \in Proc : Making(q, c)' <=> Making(q, c) /\ q # p
  BY <1>2, Zenon DEF Making, Moves
<1>8. Owned'
  <2>1. ASSUME NEW c \in Proc, Child(c)
        PROVE  \E q \in Proc : q = Parent(c) /\ (pid[c] \in unjoined'[q] \/ Making(q, c)')
    <3>1. PICK q \in Proc : q = Parent(c) /\ (pid[c] \in unjoined[q] \/ Making(q, c))
      BY <2>1, Zenon DEF Disc, Family, Owned
    <3>2. CASE q = p
      <4>1. Making(p, c) => c = tgt[p]
        BY Zenon DEF Making
      <4> QED
        BY <1>3, <3>1, <3>2, <4>1, Zenon
    <3>3. CASE q # p
      BY <1>3, <1>7, <3>1, <3>3, Zenon
    <3> QED
      BY <3>2, <3>3, Zenon
  <2> QED
    BY <1>2, <1>6, <2>1, Zenon DEF Owned
<1>9. \A q \in Proc : Owns(q)'
  <2>1. ASSUME NEW q \in Proc, NEW i \in unjoined'[q]
        PROVE  \E c \in Proc : c = pcb[i] /\ Child(c) /\ parentID[c] = pid[q]
    <3>1. CASE i \in unjoined[q]
      BY <3>1, Zenon DEF Disc, Family, Owns
    <3>2. CASE i \notin unjoined[q]
      <4>1. q = p /\ i = pid[tgt[p]]
        BY <1>3, <3>2, Zenon
      <4> QED
        BY <1>1, <1>4, <1>5, <4>1, Zenon
    <3> QED
      BY <3>1, <3>2, Zenon
  <2>2. \A q, c \in Proc : Making(q, c)' => Child(c) /\ parentID[c] = pid[q]
    BY <1>7, Zenon DEF Disc, Family, Owns
  <2> QED
    BY <1>2, <1>6, <2>1, <2>2, Zenon DEF Owns
<1>10. Family'
  BY <1>6, <1>8, <1>9, RootedKept, Zenon DEF Disc, Family
<1>11. \A q \in Proc : Place(q)'
  <2>1. Place(p)'
    BY <1>2, Zenon DEF Place, ExitLabels, JoinLabels
  <2> QED
    BY <1>2, <1>3, <2>1, PlacesKept, Zenon DEF Disc
<1>12. \A q \in Proc : (Told(q)' <=> Told(q)) /\ (Waiting(q)' <=> Waiting(q))
  BY <1>1, <1>2, <1>6, Zenon DEF Moves, Told, Zombie, Waiting
<1>13. \A q \in Proc : Debts(q)' = Debts(q)
  BY <1>2, <1>6, <1>12, Zenon DEF Debts
<1>14. \A q \in Proc : Counted(q)'
  BY <1>1, <1>12, <1>13, Zenon DEF Disc, Counted
<1> QED
  BY <1>1, <1>10, <1>11, <1>14, Zenon DEF Disc, Stops

(* Exec creates a child of p.                                                *)
LEMMA ExecCreateDisc ==
    ASSUME IInv, Disc, NEW p \in Proc, NEW n \in Proc, ExecCreate(p, n)
    PROVE  Disc'
<1>i. TypeOK /\ Kin /\ Posts /\ Shake
  BY Zenon DEF IInv
<1>0. PICK i \in Slots :
        /\ GetFreeSlot(i) /\ pcb' = [pcb EXCEPT ![i] = n]
        /\ pid' = [pid EXCEPT ![n] = i] /\ parentID' = [parentID EXCEPT ![n] = pid[p]]
  BY Zenon DEF ExecCreate
<1>1. /\ pc[p] = "exec" /\ pc[n] = "none" /\ n # p /\ n # Main /\ pcb[i] = NULL /\ machine = "up"
      /\ pid[p] \in Slots /\ pcb[pid[p]] = p /\ ~Live(n)
  <2>1. pc[p] = "exec" /\ pc[n] = "none" /\ i \notin bm /\ machine = "up"
    BY <1>0, Zenon DEF ExecCreate, At, NewProcess, GetFreeSlot
  <2> QED
    BY <1>i, <2>1, Zenon DEF Kin, SlotOwner, Live
<1>2. /\ UNCHANGED <<numwait, sem, waits, arg, unjoined, machine>>
      /\ \A q \in Proc \ {p, n} : pc'[q] = pc[q] /\ tgt'[q] = tgt[q]
      /\ pc'[p] = "exec_fork" /\ pc'[n] = "created" /\ tgt'[p] = n
      /\ \A q \in Proc \ {n} : pid'[q] = pid[q] /\ parentID'[q] = parentID[q]
      /\ pid'[n] = i /\ parentID'[n] = pid[p]
      /\ \A j \in Slots \ {i} : pcb'[j] = pcb[j]
      /\ pcb'[i] = n
  <2>1. UNCHANGED <<numwait, sem, waits, arg, unjoined, machine>>
    BY Zenon DEF ExecCreate
  <2>2. /\ \A q \in Proc \ {p, n} : pc'[q] = pc[q] /\ tgt'[q] = tgt[q]
        /\ pc'[p] = "exec_fork" /\ pc'[n] = "created" /\ tgt'[p] = n
    BY <1>1, <1>i, Zenon DEF ExecCreate, TypeOK
  <2>3. /\ \A q \in Proc \ {n} : pid'[q] = pid[q] /\ parentID'[q] = parentID[q]
        /\ pid'[n] = i /\ parentID'[n] = pid[p]
    BY <1>0, <1>i, Zenon DEF TypeOK
  <2>4. pcb'[i] = n /\ \A j \in Slots \ {i} : pcb'[j] = pcb[j]
    BY <1>0, <1>i, Zenon DEF TypeOK
  <2> QED
    BY <2>1, <2>2, <2>3, <2>4, Zenon
<1>3. ~Gone(n) /\ ~Gone(n)' /\ \A q \in Proc \ {n} : Gone(q)' <=> Gone(q)
  <2>1. sem[exitsem(n)] = 0
    BY <1>1, ShakeFacts, Zenon DEF Zombie
  <2>2. \A q \in Proc : Released(q)' <=> Released(q)
    BY <1>1, <1>2, Zenon DEF Released
  <2>3. ~Released(n)
    BY <1>1, Zenon DEF Released
  <2>4. ~(sem[exitsem(n)] > 0)
    BY <2>1
  <2> QED
    BY <1>2, <2>2, <2>3, <2>4, Zenon DEF Gone
<1>4. \A q \in Proc : Child(q)' <=> Child(q) \/ q = n
  BY <1>1, <1>2, <1>3, Zenon DEF Child
<1>5. \A q \in Proc \ {n} : Child(q) => parentID[q] # i /\ Parent(q)' = Parent(q) /\ Parent(q) # n
  <2>1. ASSUME NEW q \in Proc, q # n, Child(q)
        PROVE  parentID[q] # i /\ Parent(q)' = Parent(q) /\ Parent(q) # n
    <3>1. Parent(q) \in Proc /\ parentID[q] \in Slots
      BY <2>1, ChildFacts, Zenon DEF Disc, Family, Owned
    <3>2. parentID[q] # i
      BY <1>1, <3>1, ProcessTableAssumption, Zenon DEF Parent
    <3>3. Live(Parent(q))
      BY <1>i, <3>1, ProcessTableAssumption, Zenon DEF Parent, Kin, SlotOwner
    <3> QED
      BY <1>1, <1>2, <2>1, <3>1, <3>2, <3>3, Zenon DEF Parent
  <2> QED
    BY <2>1, Zenon
<1>6. Parent(n)' = p /\ ~Child(n)
  <2>1. pid[p] # i
    BY <1>1, ProcessTableAssumption, Zenon
  <2>2. parentID'[n] = pid[p] /\ pcb'[pid[p]] = p
    BY <1>1, <1>2, <2>1, Zenon
  <2>3. Parent(n)' = p
    BY <2>2, Zenon DEF Parent
  <2>4. ~Child(n)
    BY <1>1, Zenon DEF Child
  <2> QED
    BY <2>3, <2>4, Zenon
<1>7. \A q, c \in Proc : Making(q, c)' <=> IF q = p THEN c = n ELSE Making(q, c)
  BY <1>1, <1>2, Zenon DEF Making
<1>8. Owned'
  <2>1. ASSUME NEW c \in Proc, Child(c)'
        PROVE  \E q \in Proc : q = Parent(c)' /\ (pid'[c] \in unjoined[q] \/ Making(q, c)')
    <3>1. CASE c = n
      BY <1>6, <1>7, <3>1, Zenon
    <3>2. CASE c # n
      <4>1. Child(c)
        BY <1>4, <2>1, <3>2, Zenon
      <4>2. PICK q \in Proc : q = Parent(c) /\ (pid[c] \in unjoined[q] \/ Making(q, c))
        BY <4>1, Zenon DEF Disc, Family, Owned
      <4>3. ~Making(p, c)
        BY <1>1, Zenon DEF Making
      <4> QED
        BY <1>2, <1>5, <1>7, <3>2, <4>1, <4>2, <4>3, Zenon
    <3> QED
      BY <3>1, <3>2, Zenon
  <2> QED
    BY <1>2, <2>1, Zenon DEF Owned
<1>9. \A q \in Proc : Owns(q)'
  <2>1. ASSUME NEW q \in Proc, NEW j \in unjoined[q]
        PROVE  \E c \in Proc : c = pcb'[j] /\ Child(c)' /\ parentID'[c] = pid'[q]
    <3>1. PICK c \in Proc : c = pcb[j] /\ Child(c) /\ parentID[c] = pid[q]
      BY Zenon DEF Disc, Family, Owns
    <3>2. j \in Slots /\ j # i /\ c # n
      BY <1>i, <1>1, <1>6, <3>1, ProcessTableAssumption, Zenon DEF TypeOK
    <3>3. q # n
      <4>1. Place(n)
        BY Zenon DEF Disc
      <4> QED
        BY <1>1, <4>1, Zenon DEF Place
    <3> QED
      BY <1>2, <1>4, <3>1, <3>2, <3>3, Zenon
  <2>2. ASSUME NEW q \in Proc, NEW c \in Proc, Making(q, c)'
        PROVE  Child(c)' /\ parentID'[c] = pid'[q]
    <3>1. CASE q = p
      BY <1>1, <1>2, <1>4, <1>7, <2>2, <3>1, Zenon
    <3>2. CASE q # p
      <4>1. Making(q, c) /\ Child(c) /\ parentID[c] = pid[q]
        BY <1>7, <2>2, <3>2, Zenon DEF Disc, Family, Owns
      <4>2. q # n /\ c # n
        BY <1>1, <1>6, <4>1, Zenon DEF Making
      <4> QED
        BY <1>2, <1>4, <4>1, <4>2, Zenon
    <3> QED
      BY <3>1, <3>2, Zenon
  <2> QED
    BY <1>2, <2>1, <2>2, Zenon DEF Owns
<1>10. Rooted'
  <2> SUFFICES ASSUME NEW S \in SUBSET Proc, S # {}, \A c \in S : Child(c)'
               PROVE  \E c \in S : Parent(c)' \notin S
    BY Zenon DEF Rooted
  <2>1. CASE S \ {n} = {}
    BY <1>1, <1>6, <2>1, Zenon
  <2>2. CASE S \ {n} # {}
    <3>1. S \ {n} \in SUBSET Proc /\ \A c \in S \ {n} : Child(c)
      BY <1>4, Zenon
    <3>2. PICK c \in S \ {n} : Parent(c) \notin S \ {n}
      BY <2>2, <3>1, Zenon DEF Disc, Family, Rooted
    <3> QED
      BY <1>5, <3>1, <3>2, Zenon
  <2> QED
    BY <2>1, <2>2, Zenon
<1>11. \A q \in Proc : Place(q)'
  <2>1. ASSUME NEW q \in Proc PROVE Place(q)'
    <3>1. Place(q)
      BY Zenon DEF Disc
    <3>2. CASE q \in {p, n}
      BY <1>1, <1>2, <3>1, <3>2, Zenon DEF Place, ExitLabels, JoinLabels
    <3>3. CASE q \notin {p, n}
      <4>1. pc[q] \in JoinLabels => arg[q] \in Slots /\ arg[q] # i
        <5>1. arg[q] \in unjoined[q] => \E c \in Proc : c = pcb[arg[q]] /\ arg[q] \in Slots
          BY <1>i, Zenon DEF Disc, Family, Owns, TypeOK
        <5> QED
          BY <1>1, <3>1, <5>1, ProcessTableAssumption, Zenon DEF Place
      <4>2. pc[q] = "exit_dec" => Parent(q)' = Parent(q)
        <5>1. pc[q] = "exit_dec" => Child(q)
          BY ExitDecChild, Zenon
        <5> QED
          BY <1>5, <3>3, <5>1, Zenon
      <4>3. pc'[q] = pc[q] /\ tgt'[q] = tgt[q] /\ arg' = arg /\ unjoined' = unjoined
        BY <1>2, <3>3, Zenon
      <4>4. pc[q] = "join_code" => pcb'[arg[q]] = pcb[arg[q]]
        BY <1>2, <4>1, Zenon DEF JoinLabels
      <4> QED
        BY <3>1, <4>2, <4>3, <4>4, Zenon DEF Place
    <3> QED
      BY <3>2, <3>3, Zenon
  <2> QED
    BY <2>1, Zenon
<1>12. \A q \in Proc : Told(q)' <=> Told(q)
  BY <1>1, <1>2, <1>4, <1>6, Zenon DEF Told, Zombie
<1>13. \A q \in Proc : Debts(q)' = Debts(q)
  <2>1. \A c \in Proc : Told(c) => c # n /\ Parent(c)' = Parent(c)
    BY <1>5, <1>6, Zenon DEF Told
  <2>2. ASSUME NEW j \in Slots, NEW c \in Proc, Told(c)
        PROVE  c = pcb'[j] <=> c = pcb[j]
    BY <1>1, <1>2, <2>1, <2>2, ProcessTableAssumption, Zenon
  <2> QED
    BY <1>12, <2>1, <2>2, Zenon DEF Debts
<1>14. \A q \in Proc : Counted(q)'
  <2>1. \A q \in Proc : Waiting(q)' <=> Waiting(q)
    BY <1>1, <1>2, Zenon DEF Waiting
  <2>2. numwait' = numwait /\ \A q \in Proc : Counted(q)
    BY <1>2, Zenon DEF Disc
  <2> QED
    BY <1>13, <2>1, <2>2, Zenon DEF Counted
<1> QED
  BY <1>1, <1>2, <1>8, <1>9, <1>10, <1>11, <1>14, Zenon DEF Disc, Family, Stops

-----------------------------------------------------------------------------
(* The size of a set of slots.                                               *)
LEMMA SlotSets ==
    ASSUME NEW S \in SUBSET Slots, NEW i \in Slots
    PROVE  /\ Cardinality(S) \in Nat
           /\ i \notin S => Cardinality(S \cup {i}) = Cardinality(S) + 1
           /\ i \in S => Cardinality(S \ {i}) = Cardinality(S) - 1
<1>1. IsFiniteSet(Slots)
  BY ProcessTableAssumption, FS_Interval DEF Slots
<1>2. IsFiniteSet(S)
  BY <1>1, FS_Subset, Zenon
<1>3. Cardinality(S) \in Nat
  BY <1>2, FS_CardinalityType, Zenon
<1>4. i \notin S => Cardinality(S \cup {i}) = Cardinality(S) + 1
  BY <1>2, FS_AddElement, Zenon
<1>5. i \in S => Cardinality(S \ {i}) = Cardinality(S) - 1
  BY <1>2, FS_RemoveElement, Zenon
<1> QED
  BY <1>3, <1>4, <1>5, Zenon

LEMMA DebtsCount ==
    ASSUME NEW p
    PROVE  Debts(p) \in SUBSET Slots /\ Cardinality(Debts(p)) \in Nat
<1>1. Debts(p) \in SUBSET Slots
  BY Zenon DEF Debts
<1>2. 0 \in Slots
  BY ProcessTableAssumption DEF Slots
<1> QED
  BY <1>1, <1>2, SlotSets, Zenon

-----------------------------------------------------------------------------
(* Join.  It is the parent that joins.                                       *)
LEMMA JoinCallDisc ==
    ASSUME IInv, Disc, NEW p \in Proc, NEW i \in Slots, JoinCall(p, i), disciplined,
           disciplined' = disciplined
    PROVE  Disc'
<1>1. /\ Calm(p, "join_inc") /\ pc[p] = "user" /\ machine = "up" /\ i \in unjoined[p]
      /\ UNCHANGED <<unjoined, numwait, machine, pcb>>
  BY JoinCallCalm, Zenon DEF JoinCall, At, tableVars
<1>2. pc'[p] = "join_inc" /\ arg'[p] = i /\ tgt'[p] = p
  <2>1. pcb[parentID[pcb[i]]] = p
    BY <1>1, Zenon DEF JoinCall, IInv, Kin, SlotOwner, Live
  <2> QED
    BY <1>1, <2>1, Zenon DEF JoinCall, Calm, Moves, IInv, TypeOK
<1>3. Place(p)' /\ \A c \in Proc : Making(p, c)' <=> Making(p, c)
  BY <1>1, <1>2, Zenon DEF Place, Making, ExitLabels
<1> QED
  BY <1>1, <1>3, CalmDisc, Zenon

(* Join counts itself in.                                                    *)
LEMMA JoinIncDisc ==
    ASSUME IInv, Disc, NEW p \in Proc, JoinInc(p), disciplined' = disciplined
    PROVE  Disc'
<1>1. /\ Calm(p, "join_wait") /\ pc[p] = "join_inc" /\ machine = "up" /\ Place(p)
      /\ UNCHANGED <<unjoined, machine, pcb, arg, tgt>>
  BY JoinIncCalm, Zenon DEF JoinInc, At, tableVars, Disc
<1>2. Moves(p, "join_wait") /\ Stays(p, "join_wait") /\ pc'[p] = "join_wait"
  BY <1>1, CalmStays, Zenon DEF Calm, Moves
<1>3. numwait'[p] = numwait[p] + 1 /\ \A q \in Proc \ {p} : numwait'[q] = numwait[q]
  BY <1>1, Zenon DEF JoinInc, Place, IInv, TypeOK
<1>4. Same
  BY <1>1, <1>2, StaysSame, Zenon DEF Making
<1>5. Family'
  BY <1>4, FamilyKept, Zenon DEF Disc
<1>6. \A q \in Proc : Place(q)'
  <2>1. Place(p)'
    BY <1>1, <1>2, Zenon DEF Place, ExitLabels, JoinLabels
  <2> QED
    BY <1>1, <1>2, <2>1, PlacesKept, Zenon DEF Disc
<1>7. \A q \in Proc : (Told(q)' <=> Told(q)) /\ Parent(q)' = Parent(q)
  BY <1>1, <1>2, <1>4, Zenon DEF Moves, Same, Told, Zombie, Parent
<1>8. \A q \in Proc : Debts(q)' = Debts(q)
  BY <1>1, <1>7, Zenon DEF Debts
<1>9. \A q \in Proc : Counted(q)'
  <2>1. ASSUME NEW q \in Proc, q # p PROVE Counted(q)'
    BY <1>2, <1>3, <1>8, <2>1, Zenon DEF Disc, Counted, Waiting, Moves
  <2>2. Counted(p)'
    <3>1. Cardinality(Debts(p)) \in Nat
      BY DebtsCount, Zenon
    <3>2. numwait[p] = 0 - Cardinality(Debts(p)) /\ Waiting(p)'
      BY <1>1, <1>2, Zenon DEF Disc, Counted, Waiting
    <3> QED
      BY <1>3, <1>8, <3>1, <3>2 DEF Counted
  <2> QED
    BY <2>1, <2>2, Zenon
<1> QED
  BY <1>1, <1>5, <1>6, <1>9, Zenon DEF Disc, Stops

(* JoinRelease and JoinWait use joinsem, and let nobody go.                  *)
LEMMA JoinsemGone ==
    ASSUME NEW p \in Proc, NEW l, NEW t \in Proc, Moves(p, l),
           Downs(p, joinsem(t)) \/ Ups(joinsem(t)), Released(p)' <=> Released(p)
    PROVE  \A q \in Proc : Gone(q)' <=> Gone(q)
<1>1. \A q \in Proc : Released(q)' <=> Released(q)
  BY Zenon DEF Moves, Released
<1>2. \A q \in Proc : sem'[exitsem(q)] = sem[exitsem(q)]
  BY Sems, Zenon DEF Downs, Ups
<1> QED
  BY <1>1, <1>2, Zenon DEF Gone

(* Join waits for the child.                                                 *)
LEMMA JoinWaitDisc ==
    ASSUME IInv, Disc, NEW p \in Proc, JoinWait(p), disciplined' = disciplined
    PROVE  Disc'
<1>1. pc[p] = "join_wait" /\ machine = "up" /\ Place(p) /\ arg[p] \in unjoined[p]
  BY Zenon DEF JoinWait, At, Disc, Place, JoinLabels
<1>2. pcb[arg[p]] \in Proc /\ pcb[arg[p]] # NULL
  <2>1. Owns(p)
    BY Zenon DEF Disc, Family
  <2> QED
    BY <1>1, <2>1, ProcessTableAssumption, Zenon DEF Owns
<1>3. /\ Moves(p, "join_code") /\ Downs(p, joinsem(pcb[arg[p]]))
  BY <1>2, JoinWaitIInv, Zenon
<1>4. /\ UNCHANGED <<unjoined, numwait, machine, pcb, arg>>
      /\ pc'[p] = "join_code" /\ tgt'[p] = pcb[arg[p]]
  BY <1>2, <1>3, Zenon DEF JoinWait, tableVars, Moves, IInv, TypeOK
<1>5. Stays(p, "join_code")
  <2>1. Released(p)' <=> Released(p)
    BY <1>1, <1>4, Zenon DEF Released
  <2> QED
    BY <1>1, <1>2, <1>3, <1>4, <2>1, JoinsemGone, Zenon DEF Stays
<1>6. Place(p)' /\ \A c \in Proc : Making(p, c)' <=> Making(p, c)
  BY <1>1, <1>4, Zenon DEF Place, Making, ExitLabels, JoinLabels
<1>7. (Waiting(p)' <=> Waiting(p)) /\ ~Told(p) /\ ~Told(p)'
  BY <1>1, <1>4, Zenon DEF Waiting, Told, Zombie
<1> QED
  BY <1>4, <1>5, <1>6, <1>7, StaysDisc, Zenon

(* A sleeper learns that its child has ended.                                *)
LEMMA ResumeJoinDisc ==
    ASSUME IInv, Disc, NEW p \in Proc, Resume(p), pc[p] = "join_code", disciplined' = disciplined
    PROVE  Disc'
<1>1. machine = "up" /\ Place(p) /\ UNCHANGED <<unjoined, numwait, machine, pcb, arg, tgt, pc>>
  BY Zenon DEF Resume, Disc, tableVars
<1>2. Moves(p, "join_code") /\ Downs(p, joinsem(tgt[p])) /\ tgt[p] \in Proc
  BY ResumeJoinIInv, Zenon
<1>3. Stays(p, "join_code")
  <2>1. Released(p)' <=> Released(p)
    BY <1>1, Zenon DEF Released
  <2> QED
    BY <1>1, <1>2, <2>1, JoinsemGone, Zenon DEF Stays
<1>4. Place(p)' /\ \A c \in Proc : Making(p, c)' <=> Making(p, c)
  BY <1>1, Zenon DEF Place, Making, ExitLabels
<1>5. (Waiting(p)' <=> Waiting(p)) /\ ~Told(p) /\ ~Told(p)'
  BY <1>1, Zenon DEF Waiting, Told, Zombie
<1> QED
  BY <1>1, <1>3, <1>4, <1>5, StaysDisc, Zenon

(* Join lets its child go.                                                   *)
LEMMA JoinReturnDisc ==
    ASSUME IInv, Disc, NEW p \in Proc, JoinReturn(p), disciplined' = disciplined
    PROVE  Disc'
<1>i. TypeOK
  BY Zenon DEF IInv
<1>1. pc[p] = "join_code" /\ machine = "up" /\ Place(p) /\ Owns(p) /\ arg[p] \in unjoined[p]
  BY Zenon DEF JoinReturn, At, Disc, Family, Place, JoinLabels
<1>2. PICK t \in Proc : t = pcb[arg[p]] /\ Child(t) /\ parentID[t] = pid[p]
  BY <1>1, Zenon DEF Owns
<1>3. t # NULL
  BY ProcessTableAssumption, Zenon
<1>4. Moves(p, "user") /\ Ups(exitsem(t)) /\ Reaps(p, t)
  BY <1>2, <1>3, JoinReturnIInv, Zenon
<1>5. /\ UNCHANGED <<numwait, machine, pcb, pid, parentID, arg, tgt>>
      /\ pc'[p] = "user" /\ \A q \in Proc \ {p} : pc'[q] = pc[q]
      /\ unjoined'[p] = unjoined[p] \ {arg[p]}
      /\ \A q \in Proc \ {p} : unjoined'[q] = unjoined[q]
  BY <1>i, <1>2, <1>3, <1>4, Zenon DEF JoinReturn, tableVars, Moves, TypeOK
<1>6. Live(p) /\ Live(t) /\ pcb[pid[p]] = p /\ pid[t] = arg[p] /\ arg[p] \in Slots /\ Zombie(t)
  <2>1. Live(p)
    BY <1>1, Zenon DEF Live
  <2>2. Live(t) /\ Zombie(t) /\ arg[p] \in Slots
    BY <1>i, <1>1, <1>2, <1>4, ChildFacts, ShakeFacts, Zenon DEF TypeOK
  <2>3. pcb[pid[p]] = p /\ pid[t] = arg[p]
    BY <1>2, <1>3, <2>1, <2>2, Zenon DEF IInv, Kin, SlotOwner
  <2> QED
    BY <2>1, <2>2, <2>3, Zenon
<1>7. \A q \in Proc : Child(q)' <=> Child(q) /\ q # t
  <2>1. \A q \in Proc : Released(q)' <=> Released(q)
    BY <1>1, <1>4, <1>5, Zenon DEF Released, Ups
  <2>2. \A q \in Proc \ {t} : sem'[exitsem(q)] = sem[exitsem(q)]
    BY <1>4, Sems, Zenon DEF Ups
  <2>3. sem'[exitsem(t)] > 0
    BY <1>i, <1>4, Sems DEF Ups, TypeOK
  <2>4. \A q \in Proc : Gone(q)' <=> Gone(q) \/ q = t
    BY <2>1, <2>2, <2>3, Zenon DEF Gone
  <2> QED
    BY <1>2, <1>4, <2>4, Zenon DEF Child, Moves
<1>8. \A q \in Proc : Parent(q)' = Parent(q)
  BY <1>5, Zenon DEF Parent
<1>9. \A q, c \in Proc : Making(q, c)' <=> Making(q, c)
  BY <1>1, <1>5, Zenon DEF Making
<1>10. Owned'
  <2>1. ASSUME NEW c \in Proc, Child(c), c # t
        PROVE  \E q \in Proc : q = Parent(c) /\ (pid[c] \in unjoined'[q] \/ Making(q, c))
    <3>1. PICK q \in Proc : q = Parent(c) /\ (pid[c] \in unjoined[q] \/ Making(q, c))
      BY <2>1, Zenon DEF Disc, Family, Owned
    <3>2. pid[c] # arg[p]
      <4>1. Live(c)
        BY <2>1, ChildFacts, Zenon
      <4> QED
        BY <1>6, <2>1, <4>1, PidFacts, Zenon
    <3> QED
      BY <1>5, <3>1, <3>2, Zenon
  <2> QED
    BY <1>5, <1>7, <1>8, <1>9, <2>1, Zenon DEF Owned
<1>11. \A q \in Proc : q # p => parentID[t] # pid[q] \/ ~Live(q)
  BY <1>2, <1>6, PidFacts, Zenon
<1>12. \A q \in Proc : Owns(q)'
  <2>1. ASSUME NEW q \in Proc, NEW j \in unjoined'[q]
        PROVE  \E c \in Proc : c = pcb[j] /\ Child(c) /\ c # t /\ parentID[c] = pid[q]
    <3>1. j \in unjoined[q] /\ (q = p => j # arg[p])
      BY <1>5, Zenon
    <3>2. PICK c \in Proc : c = pcb[j] /\ Child(c) /\ parentID[c] = pid[q]
      BY <3>1, Zenon DEF Disc, Family, Owns
    <3>3. Live(q)
      <4>1. Place(q)
        BY Zenon DEF Disc
      <4> QED
        BY <3>1, <4>1, Zenon DEF Place, Live
    <3>4. pid[c] = j
      <4>1. j \in Slots /\ pcb[j] # NULL
        BY <1>i, <3>1, <3>2, ProcessTableAssumption, Zenon DEF TypeOK
      <4>2. SlotOwner
        BY Zenon DEF IInv, Kin
      <4> QED
        BY <3>2, <4>1, <4>2, Zenon DEF SlotOwner
    <3> QED
      BY <1>6, <1>11, <3>1, <3>2, <3>3, <3>4, Zenon
  <2>2. ASSUME NEW q \in Proc, NEW c \in Proc, Making(q, c)
        PROVE  Child(c) /\ c # t /\ parentID[c] = pid[q]
    <3>1. Child(c) /\ parentID[c] = pid[q]
      BY <2>2, Zenon DEF Disc, Family, Owns
    <3>2. q # p /\ Live(q)
      BY <1>1, <2>2, Zenon DEF Making, Live
    <3> QED
      BY <1>11, <3>1, <3>2, Zenon
  <2> QED
    <3>1. \A q \in Proc : \A j \in unjoined'[q] :
            \E c \in Proc : c = pcb'[j] /\ Child(c)' /\ parentID'[c] = pid'[q]
      BY <1>5, <1>7, <2>1, Zenon
    <3>2. \A q, c \in Proc : Making(q, c)' => Child(c)' /\ parentID'[c] = pid'[q]
      BY <1>5, <1>7, <1>9, <2>2, Zenon
    <3> QED
      BY <3>1, <3>2, Zenon DEF Owns
<1>13. Family'
  BY <1>7, <1>8, <1>10, <1>12, RootedKept, Zenon DEF Disc, Family
<1>14. \A q \in Proc : Place(q)'
  <2>1. Place(p)'
    BY <1>5, Zenon DEF Place, ExitLabels, JoinLabels
  <2> QED
    BY <1>4, <1>5, <2>1, PlacesKept, Zenon DEF Disc
<1>15. \A q \in Proc : Told(q)' <=> Told(q) /\ q # t
  <2>1. ~Told(p) /\ ~Told(p)'
    BY <1>1, <1>5, Zenon DEF Told, Zombie
  <2> QED
    BY <1>5, <1>7, <2>1, Zenon DEF Told, Zombie
<1>16. Parent(t) = p /\ Told(t)
  BY <1>2, <1>6, Zenon DEF Parent, Told
<1>17. \A q \in Proc \ {p} : Debts(q)' = Debts(q)
  <2>1. ASSUME NEW q \in Proc, q # p, NEW c \in Proc
        PROVE  Told(c)' /\ Parent(c)' = q <=> Told(c) /\ Parent(c) = q
    BY <1>8, <1>15, <1>16, <2>1, Zenon
  <2> QED
    BY <1>5, <2>1, Zenon DEF Debts
<1>18. Debts(p)' = Debts(p) \ {arg[p]} /\ arg[p] \in Debts(p)
  <2>1. \A j \in Slots : pcb[j] = t <=> j = arg[p]
    BY <1>2, <1>3, <1>6, Zenon DEF IInv, Kin, SlotOwner
  <2>2. arg[p] \in Debts(p)
    BY <1>2, <1>6, <1>16, Zenon DEF Debts
  <2>3. \A j \in Slots : j \in Debts(p)' <=> j \in Debts(p) /\ j # arg[p]
    BY <1>5, <1>8, <1>15, <2>1, Zenon DEF Debts
  <2>4. Debts(p)' \in SUBSET Slots /\ Debts(p) \in SUBSET Slots
    BY Zenon DEF Debts
  <2> QED
    BY <2>2, <2>3, <2>4, Zenon
<1>19. \A q \in Proc : Counted(q)'
  <2>1. ASSUME NEW q \in Proc, q # p PROVE Counted(q)'
    BY <1>5, <1>17, <2>1, Zenon DEF Disc, Counted, Waiting
  <2>2. Counted(p)'
    <3>1. Cardinality(Debts(p)) \in Nat /\ Cardinality(Debts(p) \ {arg[p]}) = Cardinality(Debts(p)) - 1
      BY <1>6, <1>18, DebtsCount, SlotSets, Zenon
    <3>2. numwait[p] = 1 - Cardinality(Debts(p)) /\ ~Waiting(p)'
      BY <1>1, <1>5, Zenon DEF Disc, Counted, Waiting
    <3>3. numwait[p] = 0 - Cardinality(Debts(p) \ {arg[p]})
      BY <3>1, <3>2
    <3> QED
      BY <1>5, <1>18, <3>2, <3>3, Zenon DEF Counted
  <2> QED
    BY <2>1, <2>2, Zenon
<1> QED
  BY <1>1, <1>5, <1>13, <1>14, <1>19, Zenon DEF Disc, Stops

-----------------------------------------------------------------------------
(* Exit.  The parent of a process that exits is there.                       *)
LEMMA ExitCallDisc ==
    ASSUME IInv, Disc, NEW p \in Proc, ExitCall(p), disciplined, disciplined' = disciplined
    PROVE  Disc'
<1>1. pc[p] = "user" /\ machine = "up" /\ unjoined[p] = {}
  BY Zenon DEF ExitCall, At
<1>2. CASE Fail("exited") /\ pid[p] = 0
  <2>1. p = Main
    <3>1. Live(p) /\ Live(Main) /\ pid[Main] = 0
      BY <1>1, Zenon DEF IInv, Kin, Live
    <3> QED
      BY <1>2, <3>1, PidFacts, ProcessTableAssumption, Zenon
  <2>2. Stops'
    BY <1>1, <1>2, <2>1, Zenon DEF Fail, procVars, Stops
  <2> QED
    BY <1>2, <2>2, EndDisc, Zenon DEF Fail, tableVars, procVars
<1>3. CASE pid[p] # 0
  <2>1. Child(p)
    <3>1. p # Main /\ ~Zombie(p) /\ pc[p] \notin {"none", "done"}
      BY <1>1, <1>3, Zenon DEF IInv, Kin, Zombie
    <3> QED
      BY <3>1, ChildFacts, Zenon DEF Child
  <2>2. Parent(p) \in Proc /\ pcb[parentID[p]] # NULL
    BY <2>1, ProcessTableAssumption, Zenon DEF Disc, Family, Owned, Parent
  <2>3. Calm(p, "exit_dec")
    BY <1>3, <2>2, ExitCallCalm, Zenon
  <2>4. UNCHANGED <<unjoined, numwait, machine, pcb, parentID>> /\ pc'[p] = "exit_dec" /\ tgt'[p] = Parent(p)
    BY <1>3, <2>2, <2>3, Zenon DEF ExitCall, tableVars, Calm, Moves, IInv, TypeOK, Parent
  <2>5. Place(p)' /\ \A c \in Proc : Making(p, c)' <=> Making(p, c)
    BY <1>1, <2>4, Zenon DEF Place, Making, ExitLabels, JoinLabels, Parent
  <2> QED
    BY <1>1, <2>3, <2>4, <2>5, CalmDisc, Zenon
<1> QED
  BY <1>2, <1>3, Zenon DEF ExitCall

(* Exit counts a waiter out.                                                 *)
LEMMA ExitDecDisc ==
    ASSUME IInv, Disc, NEW p \in Proc, ExitDec(p), disciplined' = disciplined
    PROVE  Disc'
<1>i. TypeOK
  BY Zenon DEF IInv
<1>1. pc[p] = "exit_dec" /\ machine = "up" /\ Place(p) /\ tgt[p] = Parent(p)
  BY Zenon DEF ExitDec, At, Disc, Place
<1>2. Child(p) /\ pid[p] \in Slots /\ pcb[pid[p]] = p /\ parentID[p] \in Slots
  BY <1>1, ExitDecChild, ChildFacts, Zenon
<1>3. PICK q \in Proc : q = Parent(p) /\ q \notin freed
  <2>1. PICK q \in Proc : q = Parent(p)
    BY <1>2, Zenon DEF Disc, Family, Owned
  <2>2. q \notin freed
    BY <1>2, <2>1, ProcessTableAssumption, Zenon DEF Parent, IInv, Kin, SlotOwner, Live
  <2> QED
    BY <2>1, <2>2, Zenon
<1>4. ~Fail("freed")
  <2>1. ASSUME Fail("freed") PROVE FALSE
    BY <1>1, <1>3, <2>1, Zenon DEF ExitDec, Goto, Fail, procVars, TypeOK
  <2> QED
    BY <2>1, Zenon
<1>5. Calm(p, "exit_join") /\ UNCHANGED <<unjoined, machine, pcb, pid, parentID, arg, tgt>>
  BY <1>1, <1>3, <1>4, ExitDecCalm, Zenon DEF ExitDec
<1>6. numwait'[q] = numwait[q] - 1 /\ \A r \in Proc \ {q} : numwait'[r] = numwait[r]
  BY <1>i, <1>1, <1>3, <1>4, Zenon DEF ExitDec, TypeOK
<1>7. Moves(p, "exit_join") /\ Stays(p, "exit_join") /\ pc'[p] = "exit_join"
  BY <1>1, <1>5, CalmStays, Zenon DEF Calm, Moves
<1>8. Same
  BY <1>1, <1>7, StaysSame, Zenon DEF Making
<1>9. Family'
  BY <1>8, FamilyKept, Zenon DEF Disc
<1>10. \A r \in Proc : Place(r)'
  <2>1. Place(p)'
    BY <1>1, <1>5, <1>7, Zenon DEF Place, ExitLabels, JoinLabels
  <2> QED
    BY <1>5, <1>7, <2>1, PlacesKept, Zenon DEF Disc
<1>11. /\ \A r \in Proc : (Told(r)' <=> Told(r) \/ r = p) /\ Parent(r)' = Parent(r)
       /\ ~Told(p)
       /\ \A r \in Proc : Waiting(r)' <=> Waiting(r)
  BY <1>1, <1>2, <1>5, <1>7, <1>8, Zenon DEF Moves, Same, Told, Zombie, Parent, Waiting
<1>12. \A r \in Proc \ {q} : Debts(r)' = Debts(r)
  <2>1. ASSUME NEW r \in Proc, r # q, NEW c \in Proc
        PROVE  Told(c)' /\ Parent(c)' = r <=> Told(c) /\ Parent(c) = r
    BY <1>3, <1>11, <2>1, Zenon
  <2> QED
    BY <1>5, <2>1, Zenon DEF Debts
<1>13. Debts(q)' = Debts(q) \cup {pid[p]} /\ pid[p] \notin Debts(q)
  <2>1. \A j \in Slots : pcb[j] = p <=> j = pid[p]
    <3>1. p # NULL /\ SlotOwner
      BY ProcessTableAssumption, Zenon DEF IInv, Kin
    <3> QED
      BY <1>2, <3>1, Zenon DEF SlotOwner
  <2>2. pid[p] \notin Debts(q)
    BY <1>2, <1>11, Zenon DEF Debts
  <2>3. \A j \in Slots : j \in Debts(q)' <=> j \in Debts(q) \/ j = pid[p]
    BY <1>3, <1>5, <1>11, <2>1, Zenon DEF Debts
  <2>4. Debts(q)' \in SUBSET Slots /\ Debts(q) \in SUBSET Slots
    BY Zenon DEF Debts
  <2> QED
    BY <1>2, <2>2, <2>3, <2>4, Zenon
<1>14. \A r \in Proc : Counted(r)'
  <2>1. ASSUME NEW r \in Proc, r # q PROVE Counted(r)'
    BY <1>6, <1>11, <1>12, <2>1, Zenon DEF Disc, Counted
  <2>2. Counted(q)'
    <3>1. Cardinality(Debts(q)) \in Nat /\ Cardinality(Debts(q) \cup {pid[p]}) = Cardinality(Debts(q)) + 1
      BY <1>2, <1>13, DebtsCount, SlotSets, Zenon
    <3>2. Counted(q) /\ numwait[q] \in Int
      BY <1>i, Zenon DEF Disc, TypeOK
    <3>3. CASE Waiting(q)
      BY <1>6, <1>11, <1>13, <3>1, <3>2, <3>3 DEF Counted
    <3>4. CASE ~Waiting(q)
      BY <1>6, <1>11, <1>13, <3>1, <3>2, <3>4 DEF Counted
    <3> QED
      BY <3>3, <3>4, Zenon
  <2> QED
    BY <2>1, <2>2, Zenon
<1> QED
  BY <1>1, <1>5, <1>9, <1>10, <1>14, Zenon DEF Disc, Stops

(* A process announces its end.                                              *)
LEMMA ExitJoinReleaseDisc ==
    ASSUME IInv, Disc, NEW p \in Proc, ExitJoinRelease(p), disciplined' = disciplined
    PROVE  Disc'
<1>1. /\ pc[p] = "exit_join" /\ machine = "up" /\ Place(p)
      /\ UNCHANGED <<unjoined, numwait, machine, pcb, parentID, tgt>>
  BY Zenon DEF ExitJoinRelease, At, Disc, tableVars
<1>2. Moves(p, "exit_wait") /\ Ups(joinsem(p))
  BY ExitJoinReleaseIInv, Zenon
<1>3. pc'[p] = "exit_wait"
  BY <1>2, Zenon DEF Moves
<1>4. Stays(p, "exit_wait")
  <2>1. Released(p)' <=> Released(p)
    BY <1>1, <1>3, Zenon DEF Released
  <2> QED
    BY <1>1, <1>2, <2>1, JoinsemGone, Zenon DEF Stays
<1>5. Place(p)' /\ \A c \in Proc : Making(p, c)' <=> Making(p, c)
  BY <1>1, <1>3, Zenon DEF Place, Making, ExitLabels, JoinLabels
<1>6. (Waiting(p)' <=> Waiting(p)) /\ (Told(p)' <=> Told(p))
  <2>1. Child(p)' <=> Child(p)
    BY <1>4, Zenon DEF Stays, Moves, Child
  <2> QED
    BY <1>1, <1>3, <2>1, Zenon DEF Waiting, Told, Zombie
<1> QED
  BY <1>1, <1>4, <1>5, <1>6, StaysDisc, Zenon

(* It takes the permission to leave, which was given before, or sleeps.      *)
LEMMA LeaveDisc ==
    ASSUME IInv, Disc, NEW p \in Proc, Moves(p, "exit_remove"), Downs(p, exitsem(p)),
           pc[p] = "exit_wait" \/ (pc[p] = "exit_remove" /\ waits[p] = exitsem(p)),
           machine = "up", UNCHANGED <<unjoined, numwait, machine>>
    PROVE  Disc'
<1>1. pc'[p] = "exit_remove" /\ Zombie(p) /\ Zombie(p)' /\ ~Released(p) /\ Place(p)
  BY Zenon DEF Moves, Zombie, Released, Disc
<1>2. sem[exitsem(p)] \in Nat /\ waits'[p] = NULL => (sem[exitsem(p)] > 0 /\ Released(p)')
  BY <1>1, Sems, Zenon DEF Downs, Released
<1>3. waits'[p] # NULL => /\ ~(sem[exitsem(p)] > 0) /\ ~(sem'[exitsem(p)] > 0)
                          /\ ~Released(p)'
  <2>1. waits'[p] # NULL => waits'[p] = exitsem(p) /\ sem[exitsem(p)] = 0 /\ sem'[exitsem(p)] = 0
    BY Zenon DEF Downs
  <2>2. waits'[p] = exitsem(p) => ~Released(p)'
    BY <1>1, Zenon DEF Released
  <2> QED
    BY <2>1, <2>2
<1>4. Gone(p)' <=> Gone(p)
  BY <1>1, <1>2, <1>3, ShakeFacts, Zenon DEF Gone
<1>5. \A q \in Proc \ {p} : Gone(q)' <=> Gone(q)
  <2>1. \A q \in Proc \ {p} : Released(q)' <=> Released(q)
    BY Zenon DEF Moves, Released
  <2>2. \A q \in Proc \ {p} : sem'[exitsem(q)] = sem[exitsem(q)]
    BY Sems, Zenon DEF Downs
  <2> QED
    BY <2>1, <2>2, Zenon DEF Gone
<1>6. Stays(p, "exit_remove")
  BY <1>4, <1>5, Zenon DEF Stays
<1>7. Place(p)' /\ \A c \in Proc : Making(p, c)' <=> Making(p, c)
  BY <1>1, Zenon DEF Place, Making, ExitLabels, JoinLabels
<1>8. (Waiting(p)' <=> Waiting(p)) /\ (Told(p)' <=> Told(p))
  <2>1. Child(p)' <=> Child(p)
    BY <1>6, Zenon DEF Stays, Moves, Child
  <2> QED
    BY <1>1, <2>1, Zenon DEF Waiting, Told, Zombie
<1> QED
  BY <1>6, <1>7, <1>8, StaysDisc, Zenon

LEMMA ExitWaitDisc ==
    ASSUME IInv, Disc, NEW p \in Proc, ExitWait(p), disciplined' = disciplined
    PROVE  Disc'
<1>1. pc[p] = "exit_wait" /\ machine = "up" /\ UNCHANGED <<unjoined, numwait, machine>>
  BY Zenon DEF ExitWait, At, tableVars
<1>2. Moves(p, "exit_remove") /\ Downs(p, exitsem(p))
  BY ExitWaitIInv, Zenon
<1> QED
  BY <1>1, <1>2, LeaveDisc, Zenon

(* A sleeper goes on.                                                        *)
LEMMA ResumeDisc ==
    ASSUME IInv, Disc, NEW p \in Proc, Resume(p), disciplined' = disciplined
    PROVE  Disc'
<1>1. /\ machine = "up" /\ Place(p) /\ SleepOf(p) /\ waits[p] # NULL
      /\ UNCHANGED <<unjoined, numwait, machine, pcb, parentID, arg, tgt, pc>>
  BY Zenon DEF Resume, Disc, tableVars, IInv, Posts
<1>2. pc[p] \in {"exec", "exit_clear", "join_inc", "exit_dec", "join_code", "exit_remove"}
  BY <1>1, Zenon DEF SleepOf, IInv, TypeOK, Labels, ExecLabels, JoinLabels, ExitLabels
<1>3. CASE pc[p] \in {"exec", "exit_clear", "join_inc", "exit_dec"}
  <2>1. Calm(p, pc[p])
    BY <1>3, ResumeTableCalm, ResumeMultexCalm, Zenon
  <2>2. Place(p)' /\ \A c \in Proc : Making(p, c)' <=> Making(p, c)
    BY <1>1, Zenon DEF Place, Making, Parent
  <2> QED
    BY <1>1, <1>3, <2>1, <2>2, CalmDisc, Zenon
<1>4. CASE pc[p] = "join_code"
  BY <1>4, ResumeJoinDisc, Zenon
<1>5. CASE pc[p] = "exit_remove"
  <2>1. waits[p] = exitsem(p)
    BY <1>1, <1>5, Zenon DEF SleepOf
  <2>2. Moves(p, "exit_remove") /\ Downs(p, exitsem(p))
    BY <1>5, ResumeExitIInv, Zenon
  <2> QED
    BY <1>1, <1>5, <2>1, <2>2, LeaveDisc, Zenon
<1> QED
  BY <1>2, <1>3, <1>4, <1>5, Zenon

(* Remove takes bmsem or sleeps on it.                                       *)
LEMMA ExitRemoveDisc ==
    ASSUME IInv, Disc, NEW p \in Proc, ExitRemove(p), disciplined' = disciplined
    PROVE  Disc'
<1>1. /\ Calm(p, "exit_clear") /\ pc[p] = "exit_remove" /\ machine = "up" /\ Place(p)
      /\ UNCHANGED <<unjoined, numwait, machine>>
  BY ExitRemoveCalm, Zenon DEF ExitRemove, At, tableVars, Disc
<1>2. pc'[p] = "exit_clear"
  BY <1>1, Zenon DEF Calm, Moves
<1>3. Place(p)' /\ \A c \in Proc : Making(p, c)' <=> Making(p, c)
  BY <1>1, <1>2, Zenon DEF Place, Making, ExitLabels, JoinLabels
<1> QED
  BY <1>1, <1>3, CalmDisc, Zenon

(* Remove empties the slot of a process whose children are gone.             *)
LEMMA ExitClearDisc ==
    ASSUME IInv, Disc, NEW p \in Proc, ExitClear(p), disciplined' = disciplined
    PROVE  Disc'
<1>i. TypeOK /\ Kin
  BY Zenon DEF IInv
<1>1. /\ pc[p] = "exit_clear" /\ pid[p] \in Slots /\ pcb[pid[p]] = p /\ machine = "up"
      /\ unjoined[p] = {} /\ Released(p) /\ p # NULL
  <2>1. pc[p] = "exit_clear" /\ machine = "up" /\ Place(p) /\ p # NULL
    BY ProcessTableAssumption, Zenon DEF ExitClear, At, Disc
  <2>2. pid[p] \in Slots /\ pcb[pid[p]] = p
    BY <1>i, <2>1, Zenon DEF Kin, SlotOwner, Live
  <2> QED
    BY <2>1, <2>2, Zenon DEF Place, ExitLabels, Released
<1>2. /\ UNCHANGED <<pid, parentID, numwait, arg, tgt, unjoined, machine, waits>>
      /\ pc'[p] = "done" /\ \A q \in Proc \ {p} : pc'[q] = pc[q]
      /\ pcb'[pid[p]] = NULL /\ \A j \in Slots \ {pid[p]} : pcb'[j] = pcb[j]
  BY <1>i, <1>1, Zenon DEF ExitClear, Goto, TypeOK, DoV, CS!Release
<1>3. \A q \in Proc : sem'[exitsem(q)] = sem[exitsem(q)]
  BY <1>i, Sems, SemSteps, Zenon DEF ExitClear, Ups
<1>4. \A q \in Proc : Child(q)' <=> Child(q)
  <2>1. \A q \in Proc : Released(q)' <=> Released(q)
    BY <1>1, <1>2, Zenon DEF Released
  <2> QED
    BY <1>1, <1>2, <1>3, <2>1, Zenon DEF Child, Gone
<1>5. ~Child(p) /\ \A c \in Proc : ~Making(p, c) /\ ~Making(p, c)'
  BY <1>1, <1>2, Zenon DEF Child, Gone, Making
<1>6. \A c \in Proc : Child(c) => parentID[c] \in Slots \ {pid[p]} /\ Parent(c)' = Parent(c)
  <2>1. ASSUME NEW c \in Proc, Child(c)
        PROVE  parentID[c] \in Slots \ {pid[p]} /\ Parent(c)' = Parent(c)
    <3>1. PICK q \in Proc : q = Parent(c) /\ (pid[c] \in unjoined[q] \/ Making(q, c))
      BY <2>1, Zenon DEF Disc, Family, Owned
    <3>2. q # p
      BY <1>1, <1>5, <3>1, Zenon
    <3>3. parentID[c] \in Slots
      BY <2>1, ChildFacts, Zenon
    <3> QED
      BY <1>1, <1>2, <3>1, <3>2, <3>3, Zenon DEF Parent
  <2> QED
    BY <2>1, Zenon
<1>7. \A q, c \in Proc : Making(q, c)' <=> Making(q, c)
  BY <1>2, <1>5, Zenon DEF Making
<1>8. \A j \in Slots, c \in Proc : Child(c) => (c = pcb'[j] <=> c = pcb[j])
  BY <1>1, <1>2, <1>5, ProcessTableAssumption, Zenon
<1>9. Owned'
  BY <1>2, <1>4, <1>6, <1>7, Zenon DEF Disc, Family, Owned
<1>10. \A q \in Proc : Owns(q)'
  <2>1. ASSUME NEW q \in Proc, NEW j \in unjoined[q]
        PROVE  \E c \in Proc : c = pcb'[j] /\ Child(c)' /\ parentID'[c] = pid'[q]
    <3>1. PICK c \in Proc : c = pcb[j] /\ Child(c) /\ parentID[c] = pid[q]
      BY Zenon DEF Disc, Family, Owns
    <3>2. j \in Slots
      BY <1>i, Zenon DEF TypeOK
    <3> QED
      BY <1>2, <1>4, <1>8, <3>1, <3>2, Zenon
  <2>2. \A q, c \in Proc : Making(q, c)' => Child(c)' /\ parentID'[c] = pid'[q]
    BY <1>2, <1>4, <1>7, Zenon DEF Disc, Family, Owns
  <2> QED
    BY <1>2, <2>1, <2>2, Zenon DEF Owns
<1>11. Family'
  BY <1>4, <1>6, <1>9, <1>10, RootedKept, Zenon DEF Disc, Family
<1>12. \A q \in Proc : Place(q)'
  <2>1. ASSUME NEW q \in Proc, q # p PROVE Place(q)'
    <3>1. Place(q) /\ Owns(q)
      BY Zenon DEF Disc, Family
    <3>2. pc[q] = "join_code" => pcb'[arg[q]] = pcb[arg[q]]
      <4>1. pc[q] = "join_code" => arg[q] \in unjoined[q] /\ arg[q] \in Slots
        BY <1>i, <3>1, Zenon DEF Place, JoinLabels, TypeOK
      <4>2. pc[q] = "join_code" => \E c \in Proc : c = pcb[arg[q]] /\ Child(c)
        BY <3>1, <4>1, Zenon DEF Owns
      <4> QED
        BY <1>8, <4>1, <4>2, Zenon
    <3>3. pc[q] = "exit_dec" => Parent(q)' = Parent(q)
      BY <1>6, ExitDecChild, Zenon
    <3>4. pc'[q] = pc[q]
      BY <1>2, <2>1, Zenon
    <3> QED
      BY <1>2, <3>1, <3>2, <3>3, <3>4, Zenon DEF Place
  <2>2. Place(p)'
    BY <1>1, <1>2, Zenon DEF Place, JoinLabels
  <2> QED
    BY <2>1, <2>2, Zenon
<1>13. \A q \in Proc : (Told(q)' <=> Told(q)) /\ (Waiting(q)' <=> Waiting(q))
  BY <1>1, <1>2, <1>4, <1>5, Zenon DEF Told, Zombie, Waiting
<1>14. \A q \in Proc : Debts(q)' = Debts(q)
  <2>1. \A c \in Proc : Told(c) => Child(c) /\ Parent(c)' = Parent(c)
    BY <1>6, Zenon DEF Told
  <2> QED
    BY <1>8, <1>13, <2>1, Zenon DEF Debts
<1>15. \A q \in Proc : Counted(q)'
  BY <1>2, <1>13, <1>14, Zenon DEF Disc, Counted
<1> QED
  BY <1>1, <1>2, <1>11, <1>12, <1>15, Zenon DEF Disc, Stops

-----------------------------------------------------------------------------
(* Every step keeps the invariant.                                           *)
LEMMA NextDInv == IInv /\ DInv /\ [Next]_vars => DInv'
<1> SUFFICES ASSUME IInv, Disc, disciplined, disciplined' = disciplined, [Next]_vars PROVE Disc'
  BY Zenon DEF DInv, Next, vars
<1>1. CASE UNCHANGED vars
  <2>1. Stops'
    BY <1>1, Zenon DEF vars, procVars, Disc, Stops
  <2> QED
    BY <1>1, <2>1, EndDisc, Zenon DEF vars, tableVars, procVars
<1>2. CASE Next
  <2>1. PICK p \in Proc : Kernel(p) \/ User(p)
    BY <1>2, Zenon DEF Next
  <2>2. CASE Resume(p) \/ ExecRefuse(p) \/ (\E c \in Proc : ExecCreate(p, c)) \/ ExecFork(p)
               \/ ExecUnlock(p) \/ ExecReturn(p) \/ Start(p) \/ ExecCall(p)
    BY <2>2, ResumeDisc, ExecDisc, ExecCreateDisc, ExecForkDisc, ExecReturnDisc, StartDisc, Zenon
  <2>3. CASE JoinInc(p) \/ JoinWait(p) \/ JoinReturn(p) \/ (\E i \in Slots : JoinCall(p, i))
    BY <2>3, JoinCallDisc, JoinIncDisc, JoinWaitDisc, JoinReturnDisc, Zenon
  <2>4. CASE ExitDec(p) \/ ExitJoinRelease(p) \/ ExitWait(p) \/ ExitRemove(p) \/ ExitClear(p) \/ ExitCall(p)
    BY <2>4, ExitCallDisc, ExitDecDisc, ExitJoinReleaseDisc, ExitWaitDisc, ExitRemoveDisc,
       ExitClearDisc, Zenon
  <2>5. ~JoinOutOfRange(p)
    BY Zenon DEF JoinOutOfRange
  <2> QED
    BY <2>1, <2>2, <2>3, <2>4, <2>5, Zenon DEF Kernel, User
<1> QED
  BY <1>1, <1>2, Zenon

LEMMA InitDInv == Init => DInv
<1> SUFFICES ASSUME Init PROVE Disc
  BY Zenon DEF DInv
<1>1. \A q \in Proc : /\ pc[q] = IF q = Main THEN "user" ELSE "none"
                      /\ unjoined[q] = {} /\ numwait[q] = 0
  BY Zenon DEF Init
<1>2. \A c \in Proc : ~Child(c) /\ ~Told(c)
  BY <1>1, Zenon DEF Child, Told
<1>3. \A q, c \in Proc : ~Making(q, c)
  BY <1>1, Zenon DEF Making
<1>4. Rooted
  BY <1>2, Zenon DEF Rooted
<1>5. Family
  BY <1>1, <1>2, <1>3, <1>4, Zenon DEF Family, Owned, Owns
<1>6. \A q \in Proc : Place(q)
  BY <1>1, Zenon DEF Place, ExitLabels, JoinLabels
<1>7. \A q \in Proc : Counted(q)
  <2>1. \A q \in Proc : Debts(q) = {} /\ ~Waiting(q)
    BY <1>1, <1>2, Zenon DEF Debts, Waiting
  <2>2. Cardinality({}) = 0
    BY FS_EmptySet, Zenon
  <2> QED
    BY <1>1, <2>1, <2>2 DEF Counted
<1>8. Stops
  BY Zenon DEF Init, Stops
<1> QED
  BY <1>5, <1>6, <1>7, <1>8, Zenon DEF Disc

-----------------------------------------------------------------------------
(* DInv holds in every state that disciplined programs can reach.            *)
THEOREM DisciplineInductive == Spec => []DInv
BY InitDInv, NextDInv, Inductive, PTL DEF Spec

(* For a table of any size and any number of programs that join each child   *)
(* once before they exit: JoinUpdate and ExitUpdate never follow the pointer *)
(* of an empty slot, DecNumWait never returns into a deleted PCB, and nobody *)
(* sleeps on a deleted semaphore.                                            *)
THEOREM KernelAlwaysSafe == Spec => []KernelSafe
<1>1. ASSUME IInv, Disc, NEW p \in Proc, pc[p] \in {"join_inc", "exit_dec", "join_code"}
      PROVE  tgt[p] \in Proc /\ tgt[p] \notin freed
  <2>1. Place(p) /\ Owns(p) /\ SlotOwner /\ TypeOK
    BY <1>1, Zenon DEF Disc, Family, IInv, Kin
  <2>2. CASE pc[p] = "join_inc"
    BY <2>1, <2>2, Zenon DEF Place, SlotOwner
  <2>3. CASE pc[p] = "join_code"
    <3>1. arg[p] \in unjoined[p] /\ arg[p] \in Slots /\ tgt[p] = pcb[arg[p]]
      BY <2>1, <2>3, Zenon DEF Place, JoinLabels, TypeOK
    <3>2. PICK c \in Proc : c = pcb[arg[p]] /\ Child(c)
      BY <2>1, <3>1, Zenon DEF Owns
    <3> QED
      BY <1>1, <2>1, <3>1, <3>2, ChildFacts, Zenon DEF SlotOwner, Live
  <2>4. CASE pc[p] = "exit_dec"
    <3>1. Child(p) /\ tgt[p] = Parent(p)
      BY <1>1, <2>1, <2>4, ExitDecChild, Zenon DEF Place
    <3>2. Parent(p) \in Proc /\ parentID[p] \in Slots
      BY <1>1, <3>1, ChildFacts, Zenon DEF Disc, Family, Owned
    <3> QED
      BY <2>1, <3>1, <3>2, ProcessTableAssumption, Zenon DEF Parent, SlotOwner, Live
  <2> QED
    BY <1>1, <2>2, <2>3, <2>4, Zenon
<1>2. ASSUME IInv, Disc, NEW p \in Proc, waits[p] # NULL
      PROVE  waits[p][2] \notin freed
  <2>1. /\ SleepOf(p) /\ TypeOK /\ SlotOwner /\ Main \notin freed
    BY <1>2, ProcessTableAssumption, Zenon DEF IInv, Posts, Kin, SlotOwner
  <2>2. \/ waits[p] = bmsem
        \/ pc[p] \in {"join_inc", "exit_dec"} /\ waits[p] = multex(tgt[p])
        \/ pc[p] = "join_code" /\ waits[p] = joinsem(tgt[p])
        \/ pc[p] = "exit_remove" /\ waits[p] = exitsem(p)
    BY <1>2, <2>1, Zenon DEF SleepOf, TypeOK, Labels, ExecLabels, JoinLabels, ExitLabels
  <2>3. /\ bmsem[2] = Main
        /\ \A q \in Proc : multex(q)[2] = q /\ joinsem(q)[2] = q /\ exitsem(q)[2] = q
    BY DEF bmsem, multex, joinsem, exitsem
  <2>4. CASE waits[p] = bmsem
    BY <2>1, <2>3, <2>4, Zenon
  <2>5. CASE pc[p] = "exit_remove" /\ waits[p] = exitsem(p)
    <3>1. p \notin freed
      BY <2>1, <2>5, Zenon DEF SlotOwner
    <3> QED
      BY <2>3, <2>5, <3>1, Zenon
  <2>6. CASE \/ pc[p] \in {"join_inc", "exit_dec"} /\ waits[p] = multex(tgt[p])
             \/ pc[p] = "join_code" /\ waits[p] = joinsem(tgt[p])
    <3>1. tgt[p] \in Proc /\ tgt[p] \notin freed
      BY <1>1, <1>2, <2>6, Zenon
    <3> QED
      BY <2>3, <2>6, <3>1, Zenon
  <2> QED
    BY <2>2, <2>4, <2>5, <2>6, Zenon
<1>3. IInv /\ DInv => KernelSafe
  BY <1>1, <1>2, Zenon DEF DInv, Disc, Stops, KernelSafe
<1> QED
  BY <1>3, Inductive, DisciplineInductive, PTL

(* For any number of such programs: when the main process halts the machine, *)
(* everybody else has exited and been joined, and each numwait is balanced   *)
(* (IncNumWait, DecNumWait).                                                 *)
THEOREM MainAlwaysEndsLast == Spec => []MainEndsLast
<1>1. ASSUME IInv, Disc, machine = "exited", NEW c \in Proc, Child(c)
      PROVE  FALSE
  <2> DEFINE S == {d \in Proc : Child(d)}
  <2>1. S \in SUBSET Proc /\ S # {} /\ \A d \in S : Child(d)
    BY <1>1, Zenon
  <2> HIDE DEF S
  <2>2. PICK d \in S : Parent(d) \notin S
    BY <1>1, <2>1, Zenon DEF Disc, Family, Rooted
  <2>3. d \in Proc /\ Child(d)
    BY <2>1, <2>2, Zenon
  <2>4. PICK q \in Proc : q = Parent(d) /\ (pid[d] \in unjoined[q] \/ Making(q, d))
    BY <1>1, <2>3, Zenon DEF Disc, Family, Owned
  <2>5. ~Child(q) /\ Place(q)
    BY <1>1, <2>2, <2>4, Zenon DEF S, Disc
  <2>6. CASE q = Main
    BY <1>1, <2>4, <2>6, Zenon DEF Disc, Stops, Making
  <2>7. CASE q # Main
    <3>1. pc[q] = "none" \/ Zombie(q) \/ pc[q] = "done"
      BY <1>1, <2>5, <2>7, ChildFacts, Zenon DEF Child
    <3> QED
      BY <2>4, <2>5, <3>1, Zenon DEF Place, Making, Zombie, ExitLabels
  <2> QED
    BY <2>6, <2>7, Zenon
<1>2. ASSUME IInv, Disc, machine = "exited", NEW p \in Proc
      PROVE  /\ p # Main /\ Live(p) => Zombie(p) /\ (Released(p) \/ sem[exitsem(p)] = 1)
             /\ numwait[p] = 0
  <2>1. ~Child(p)
    BY <1>1, <1>2, Zenon
  <2>2. p # Main /\ Live(p) => Zombie(p) /\ (Released(p) \/ sem[exitsem(p)] = 1)
    BY <1>2, <2>1, ChildFacts, Zenon DEF Child, Live
  <2>3. ~Waiting(p)
    <3>1. CASE p = Main
      BY <1>2, <3>1, Zenon DEF Disc, Stops, Waiting
    <3>2. CASE p # Main
      BY <2>2, <3>2, Zenon DEF Live, Zombie, Waiting
    <3> QED
      BY <3>1, <3>2, Zenon
  <2>4. Debts(p) = {}
    BY <1>1, <1>2, Zenon DEF Debts, Told
  <2>5. Cardinality({}) = 0
    BY FS_EmptySet, Zenon
  <2>6. numwait[p] = 0
    <3>1. numwait[p] = 0 - Cardinality({})
      BY <1>2, <2>3, <2>4, Zenon DEF Disc, Counted
    <3> QED
      BY <2>5, <3>1
  <2> QED
    BY <2>2, <2>6, Zenon
<1>3. IInv /\ DInv => MainEndsLast
  BY <1>2, Zenon DEF DInv, MainEndsLast
<1> QED
  BY <1>3, Inductive, DisciplineInductive, PTL
=============================================================================
