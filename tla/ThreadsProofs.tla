--------------------------- MODULE ThreadsProofs ---------------------------
(***************************************************************************)
(* Proofs about Threads, for any finite set of threads, any semaphores and *)
(* any initial values.                                                     *)
(***************************************************************************)
EXTENDS Threads, FiniteSetTheorems, TLAPS

-----------------------------------------------------------------------------
(* Appending a new element to an injective list keeps it injective and adds  *)
(* that element: List::Append in ReadyToRun and P.                           *)
LEMMA AppendNew ==
    ASSUME NEW S, NEW q \in Seq(S), NEW x \in S, IsInjective(q), x \notin Range(q)
    PROVE  /\ Append(q, x) \in Seq(S)
           /\ IsInjective(Append(q, x))
           /\ Range(Append(q, x)) = Range(q) \cup {x}
           /\ Append(q, x) # <<>>
<1>1. /\ Append(q, x) \in Seq(S)
      /\ Len(Append(q, x)) = Len(q) + 1
      /\ DOMAIN Append(q, x) = 1..(Len(q) + 1)
      /\ DOMAIN q = 1..Len(q)
      /\ Len(q) \in Nat
      /\ \A i \in 1..Len(q) : Append(q, x)[i] = q[i]
      /\ Append(q, x)[Len(q) + 1] = x
  OBVIOUS
<1>2. IsInjective(Append(q, x))
  BY <1>1 DEF IsInjective, Range
<1>3. Range(Append(q, x)) = Range(q) \cup {x}
  BY <1>1 DEF Range
<1> QED
  BY <1>1, <1>2, <1>3

(* Removing the head of an injective list removes exactly that element:      *)
(* List::Remove in FindNextToRun and V.                                      *)
LEMMA RemoveHead ==
    ASSUME NEW S, NEW q \in Seq(S), IsInjective(q), q # <<>>
    PROVE  /\ Head(q) \in S
           /\ Head(q) \in Range(q)
           /\ Tail(q) \in Seq(S)
           /\ IsInjective(Tail(q))
           /\ Range(Tail(q)) = Range(q) \ {Head(q)}
<1>1. /\ Tail(q) \in Seq(S)
      /\ Head(q) \in S
      /\ Head(q) = q[1]
      /\ Len(q) \in Nat
      /\ Len(q) > 0
      /\ DOMAIN q = 1..Len(q)
      /\ DOMAIN Tail(q) = 1..(Len(q) - 1)
      /\ \A i \in 1..(Len(q) - 1) : Tail(q)[i] = q[i + 1]
  OBVIOUS
<1>2. IsInjective(Tail(q))
  BY <1>1 DEF IsInjective
<1>3. ASSUME NEW y \in Range(q), y # Head(q)
      PROVE  y \in Range(Tail(q))
  <2>1. PICK i \in 1..Len(q) : y = q[i]
    BY <1>1, <1>3 DEF Range
  <2>2. i - 1 \in 1..(Len(q) - 1) /\ Tail(q)[i - 1] = y
    BY <1>1, <1>3, <2>1
  <2> QED
    BY <1>1, <2>2 DEF Range
<1>4. ASSUME NEW y \in Range(Tail(q))
      PROVE  y \in Range(q) /\ y # Head(q)
  <2>1. PICK i \in 1..(Len(q) - 1) : y = q[i + 1]
    BY <1>1, <1>4 DEF Range
  <2>2. i + 1 \in 1..Len(q) /\ i + 1 # 1
    BY <1>1
  <2> QED
    BY <1>1, <2>1, <2>2 DEF Range, IsInjective
<1>5. Head(q) \in Range(q)
  BY <1>1 DEF Range
<1> QED
  BY <1>1, <1>2, <1>3, <1>4, <1>5

-----------------------------------------------------------------------------
(* The inductive invariant behind OnePlace and CarcassIsFinished: the lists  *)
(* are typed, agree with the statuses, and the carcass is off all of them.   *)
IInv == TypeOK /\ OnePlace /\ CarcassIsFinished

USE ThreadsAssumption

(* Initialize() establishes the invariant: one running thread, empty lists.  *)
LEMMA InitIInv == Init => IInv
<1> SUFFICES ASSUME Init PROVE IInv
  OBVIOUS
<1> USE DEF Init
<1>1. TypeOK
  <2>1. /\ currentThread \in Thread
        /\ status \in [Thread -> ThreadStatus]
        /\ readyList \in Seq(Thread)
        /\ threadToBeDestroyed \in Thread \cup {NULL}
        /\ phase \in [Thread -> Phase]
        /\ inP \in [Thread -> Sem \cup {NULL}]
        /\ value \in [Sem -> Nat]
    BY DEF ThreadStatus, Phase
  <2>2. queue \in [Sem -> Seq(Thread)]
    OBVIOUS
  <2>3. pending \in SUBSET Device /\ idleMode \in BOOLEAN /\ halted \in BOOLEAN
    OBVIOUS
  <2> QED
    BY <2>1, <2>2, <2>3 DEF TypeOK
<1>2. Range(readyList) = {} /\ IsInjective(readyList)
  BY DEF Range, IsInjective
<1>3. \A s \in Sem : Range(queue[s]) = {} /\ IsInjective(queue[s])
  BY DEF Range, IsInjective
<1>4. ListsAgree
  BY <1>2, <1>3 DEF ListsAgree
<1>5. LifeCycle
  BY DEF LifeCycle
<1>6. CarcassIsFinished
  BY DEF CarcassIsFinished
<1> QED
  BY <1>1, <1>4, <1>5, <1>6 DEF IInv, OnePlace

(* Thread::Fork puts the new thread on the ready list and nowhere else.      *)
LEMMA ForkIInv ==
    ASSUME IInv, NEW t \in Thread, NEW u \in Thread, Fork(t, u)
    PROVE  IInv'
<1> USE DEF Fork, Runs, semVars, machineVars
<1>1. TypeOK /\ ListsAgree /\ LifeCycle /\ CarcassIsFinished
  BY DEF IInv, OnePlace
<1>2. status[u] = "JUST_CREATED" /\ u \notin Range(readyList)
  BY <1>1 DEF ListsAgree, LifeCycle
<1>3. /\ readyList' \in Seq(Thread)
      /\ IsInjective(readyList')
      /\ Range(readyList') = Range(readyList) \cup {u}
  BY <1>1, <1>2, AppendNew DEF TypeOK, ListsAgree
<1>4. TypeOK'
  BY <1>1, <1>3 DEF TypeOK, ThreadStatus, Phase
<1>5. ListsAgree'
  BY <1>1, <1>2, <1>3 DEF ListsAgree, TypeOK
<1>6. LifeCycle'
  BY <1>1, <1>2 DEF LifeCycle, TypeOK
<1>7. CarcassIsFinished'
  BY <1>1, <1>2, <1>3 DEF CarcassIsFinished, TypeOK
<1> QED
  BY <1>4, <1>5, <1>6, <1>7 DEF IInv, OnePlace

(* Thread::Finish blocks the running thread for good.                        *)
LEMMA FinishIInv ==
    ASSUME IInv, NEW t \in Thread, Finish(t)
    PROVE  IInv'
<1> USE DEF Finish, Runs, semVars, machineVars
<1>1. TypeOK /\ ListsAgree /\ LifeCycle /\ CarcassIsFinished
  BY DEF IInv, OnePlace
<1>2. t \notin Range(readyList) /\ \A s \in Sem : t \notin Range(queue[s])
  BY <1>1 DEF ListsAgree
<1>3. TypeOK'
  BY <1>1 DEF TypeOK, ThreadStatus, Phase
<1>4. ListsAgree'
  BY <1>1, <1>2 DEF ListsAgree, TypeOK
<1>5. LifeCycle'
  BY <1>1 DEF LifeCycle, TypeOK
<1>6. CarcassIsFinished'
  BY <1>1, <1>2 DEF CarcassIsFinished, TypeOK
<1> QED
  BY <1>3, <1>4, <1>5, <1>6 DEF IInv, OnePlace

(* Yield and the time slice: the running thread goes to the end of the ready *)
(* list, the head of the list runs and deletes the carcass unless it is new. *)
LEMMA SwitchIInv ==
    ASSUME IInv, NEW t \in Thread, Runs(t), SwitchToNext(t)
    PROVE  IInv'
<1> USE DEF SwitchToNext, Run, Runs, semVars, machineVars
<1> DEFINE next == Head(readyList)
<1>1. TypeOK /\ ListsAgree /\ LifeCycle /\ CarcassIsFinished
  BY DEF IInv, OnePlace
<1>2. /\ next \in Thread /\ next \in Range(readyList)
      /\ Tail(readyList) \in Seq(Thread)
      /\ IsInjective(Tail(readyList))
      /\ Range(Tail(readyList)) = Range(readyList) \ {next}
  BY <1>1, RemoveHead DEF TypeOK, ListsAgree
<1>3. status[next] = "READY" /\ next # t /\ t \notin Range(readyList)
  BY <1>1, <1>2 DEF ListsAgree
<1>4. /\ readyList' \in Seq(Thread)
      /\ IsInjective(readyList')
      /\ Range(readyList') = (Range(readyList) \ {next}) \cup {t}
  <2> DEFINE q == Tail(readyList)
  <2>1. q \in Seq(Thread) /\ IsInjective(q) /\ t \notin Range(q)
    BY <1>2, <1>3
  <2>2. readyList' = Append(q, t)
    OBVIOUS
  <2> HIDE DEF q
  <2>3. /\ Append(q, t) \in Seq(Thread)
        /\ IsInjective(Append(q, t))
        /\ Range(Append(q, t)) = Range(q) \cup {t}
    BY <2>1, AppendNew
  <2> QED
    BY <1>2, <2>2, <2>3 DEF q
<1>5. threadToBeDestroyed # NULL =>
        /\ phase[threadToBeDestroyed] = "finished"
        /\ status[threadToBeDestroyed] = "BLOCKED"
        /\ inP[threadToBeDestroyed] = NULL
        /\ threadToBeDestroyed \in Thread
        /\ threadToBeDestroyed \notin Range(readyList)
        /\ threadToBeDestroyed # t
        /\ threadToBeDestroyed # next
  BY <1>1, <1>2, <1>3 DEF CarcassIsFinished, LifeCycle, TypeOK
<1> HIDE DEF next
<1>6. TypeOK'
  BY <1>1, <1>2, <1>4, <1>5 DEF TypeOK, ThreadStatus, Phase, next
<1>7. ListsAgree'
  BY <1>1, <1>2, <1>3, <1>4, <1>5 DEF ListsAgree, TypeOK, next
<1>8. LifeCycle'
  BY <1>1, <1>2, <1>3, <1>5 DEF LifeCycle, TypeOK, next
<1>9. CarcassIsFinished'
  BY <1>1, <1>2, <1>3, <1>4, <1>5 DEF CarcassIsFinished, TypeOK, next
<1> QED
  BY <1>6, <1>7, <1>8, <1>9 DEF IInv, OnePlace

(* The loop of Sleep dispatches the head of the ready list, which may be the *)
(* sleeper itself.                                                           *)
LEMMA DispatchIInv ==
    ASSUME IInv, Dispatch
    PROVE  IInv'
<1> USE DEF Dispatch, Run, InSleep, semVars
<1> DEFINE next == Head(readyList)
<1>1. TypeOK /\ ListsAgree /\ LifeCycle /\ CarcassIsFinished
  BY DEF IInv, OnePlace
<1>2. /\ next \in Thread /\ next \in Range(readyList)
      /\ readyList' \in Seq(Thread)
      /\ IsInjective(readyList')
      /\ Range(readyList') = Range(readyList) \ {next}
  BY <1>1, RemoveHead DEF TypeOK, ListsAgree
<1>3. status[next] = "READY"
  BY <1>1, <1>2 DEF ListsAgree
<1>4. threadToBeDestroyed # NULL =>
        /\ phase[threadToBeDestroyed] = "finished"
        /\ status[threadToBeDestroyed] = "BLOCKED"
        /\ inP[threadToBeDestroyed] = NULL
        /\ threadToBeDestroyed \in Thread
        /\ threadToBeDestroyed \notin Range(readyList)
        /\ threadToBeDestroyed # next
  BY <1>1, <1>2, <1>3 DEF CarcassIsFinished, LifeCycle, TypeOK
<1>5. \A u \in Thread : status[u] # "RUNNING"
  BY <1>1 DEF LifeCycle
<1> HIDE DEF next
<1>6. TypeOK'
  BY <1>1, <1>2, <1>4 DEF TypeOK, ThreadStatus, Phase, next
<1>7. ListsAgree'
  BY <1>1, <1>2, <1>3, <1>4 DEF ListsAgree, TypeOK, next
<1>8. LifeCycle'
  BY <1>1, <1>2, <1>3, <1>4, <1>5 DEF LifeCycle, TypeOK, next
<1>9. CarcassIsFinished'
  BY <1>1, <1>2, <1>3, <1>4 DEF CarcassIsFinished, TypeOK, next
<1> QED
  BY <1>6, <1>7, <1>8, <1>9 DEF IInv, OnePlace

(* Semaphore::P moves the running thread to the queue, or takes a unit.      *)
LEMMA PIInv ==
    ASSUME IInv, NEW t \in Thread, NEW s \in Sem, P(t, s)
    PROVE  IInv'
<1> USE DEF P, machineVars
<1>1. TypeOK /\ ListsAgree /\ LifeCycle /\ CarcassIsFinished
  BY DEF IInv, OnePlace
<1>2. /\ phase[t] = "live"
      /\ t \notin Range(readyList)
      /\ \A r \in Sem : t \notin Range(queue[r])
      /\ t # threadToBeDestroyed
      /\ s # NULL
  BY <1>1 DEF ListsAgree, LifeCycle, CarcassIsFinished
<1>3. CASE PSleep(t, s)
  <2> USE <1>3 DEF PSleep
  <2> DEFINE q == queue[s]
  <2>1. q \in Seq(Thread) /\ IsInjective(q) /\ t \notin Range(q)
    BY <1>1, <1>2 DEF TypeOK, ListsAgree
  <2>2. queue' = [queue EXCEPT ![s] = Append(q, t)]
    OBVIOUS
  <2> HIDE DEF q
  <2>3. /\ Append(q, t) \in Seq(Thread)
        /\ IsInjective(Append(q, t))
        /\ Range(Append(q, t)) = Range(q) \cup {t}
    BY <2>1, AppendNew
  <2>4. TypeOK'
    BY <1>1, <2>2, <2>3 DEF TypeOK, ThreadStatus
  <2>5. ListsAgree'
    <3>1. /\ IsInjective(readyList')
          /\ \A u \in Thread : u \in Range(readyList') <=> status'[u] = "READY"
      BY <1>1, <1>2 DEF ListsAgree, TypeOK
    <3>2. ASSUME NEW r \in Sem
          PROVE  /\ IsInjective(queue'[r])
                 /\ \A u \in Thread : u \in Range(queue'[r])
                        <=> status'[u] = "BLOCKED" /\ inP'[u] = r
      BY <1>1, <1>2, <2>2, <2>3 DEF ListsAgree, TypeOK, q
    <3> QED
      BY <3>1, <3>2 DEF ListsAgree
  <2>6. LifeCycle'
    BY <1>1, <1>2 DEF LifeCycle, TypeOK
  <2>7. CarcassIsFinished'
    BY <1>1, <1>2, <2>2, <2>3 DEF CarcassIsFinished, TypeOK, q
  <2> QED
    BY <2>4, <2>5, <2>6, <2>7 DEF IInv, OnePlace
<1>4. CASE PTake(t, s)
  <2> USE <1>4 DEF PTake
  <2>1. TypeOK'
    BY <1>1 DEF TypeOK
  <2>2. ListsAgree'
    BY <1>1 DEF ListsAgree, TypeOK
  <2>3. LifeCycle'
    BY <1>1, <1>2 DEF LifeCycle, TypeOK
  <2>4. CarcassIsFinished'
    BY <1>1 DEF CarcassIsFinished
  <2> QED
    BY <2>1, <2>2, <2>3, <2>4 DEF IInv, OnePlace
<1> QED
  BY <1>3, <1>4

(* Semaphore::V, called by a thread or by an interrupt handler, moves the    *)
(* head of the queue to the end of the ready list.                           *)
LEMMA VIInv ==
    ASSUME IInv, NEW s \in Sem, VBody(s),
           pending' \in SUBSET Device, idleMode' \in BOOLEAN, halted' \in BOOLEAN
    PROVE  IInv'
<1> USE DEF VBody
<1>1. TypeOK /\ ListsAgree /\ LifeCycle /\ CarcassIsFinished
  BY DEF IInv, OnePlace
<1>2. CASE queue[s] = <<>>
  <2> USE <1>2
  <2>1. TypeOK'
    BY <1>1 DEF TypeOK
  <2>2. ListsAgree' /\ LifeCycle' /\ CarcassIsFinished'
    BY <1>1 DEF ListsAgree, LifeCycle, CarcassIsFinished
  <2> QED
    BY <2>1, <2>2 DEF IInv, OnePlace
<1>3. CASE queue[s] # <<>>
  <2> USE <1>3
  <2> DEFINE w == Head(queue[s])
             q == Tail(queue[s])
  <2>1. /\ w \in Thread /\ w \in Range(queue[s])
        /\ q \in Seq(Thread)
        /\ IsInjective(q)
        /\ Range(q) = Range(queue[s]) \ {w}
    BY <1>1, RemoveHead DEF TypeOK, ListsAgree
  <2>2. /\ queue' = [queue EXCEPT ![s] = q]
        /\ status' = [status EXCEPT ![w] = "READY"]
        /\ readyList' = Append(readyList, w)
    OBVIOUS
  <2>3. /\ status[w] = "BLOCKED" /\ inP[w] = s
        /\ w \notin Range(readyList)
        /\ phase[w] = "live"
        /\ w # threadToBeDestroyed
    BY <1>1, <2>1 DEF ListsAgree, LifeCycle, CarcassIsFinished, TypeOK
  <2> HIDE DEF w, q
  <2>4. /\ readyList' \in Seq(Thread)
        /\ IsInjective(readyList')
        /\ Range(readyList') = Range(readyList) \cup {w}
    BY <1>1, <2>1, <2>2, <2>3, AppendNew DEF TypeOK, ListsAgree
  <2>5. TypeOK'
    BY <1>1, <2>1, <2>2, <2>4 DEF TypeOK, ThreadStatus
  <2>6. ListsAgree'
    <3>1. \A u \in Thread : u \in Range(readyList') <=> status'[u] = "READY"
      BY <1>1, <2>2, <2>3, <2>4 DEF ListsAgree, TypeOK
    <3>2. ASSUME NEW r \in Sem
          PROVE  /\ IsInjective(queue'[r])
                 /\ \A u \in Thread : u \in Range(queue'[r])
                        <=> status'[u] = "BLOCKED" /\ inP'[u] = r
      BY <1>1, <2>1, <2>2, <2>3 DEF ListsAgree, TypeOK
    <3> QED
      BY <2>4, <3>1, <3>2 DEF ListsAgree
  <2>7. LifeCycle'
    BY <1>1, <2>1, <2>2, <2>3 DEF LifeCycle, TypeOK
  <2>8. CarcassIsFinished'
    BY <1>1, <2>1, <2>2, <2>3, <2>4 DEF CarcassIsFinished, TypeOK
  <2> QED
    BY <2>5, <2>6, <2>7, <2>8 DEF IInv, OnePlace
<1> QED
  BY <1>2, <1>3

(* Every step of the thread system preserves the invariant.                  *)
LEMMA NextIInv == IInv /\ [Next]_vars => IInv'
<1> SUFFICES ASSUME IInv, [Next]_vars PROVE IInv'
  OBVIOUS
<1>1. ASSUME NEW t \in Thread, NEW u \in Thread, Fork(t, u) PROVE IInv'
  BY <1>1, ForkIInv
<1>2. ASSUME NEW t \in Thread, Yield(t) \/ TimeSlice(t) PROVE IInv'
  BY <1>2, SwitchIInv DEF Yield, TimeSlice
<1>3. ASSUME NEW t \in Thread, Finish(t) PROVE IInv'
  BY <1>3, FinishIInv
<1>4. ASSUME NEW t \in Thread, NEW s \in Sem, P(t, s) PROVE IInv'
  BY <1>4, PIInv
<1>5. ASSUME NEW t \in Thread, NEW s \in Sem, V(t, s) PROVE IInv'
  BY <1>5, VIInv DEF V, machineVars, IInv, TypeOK
<1>6. ASSUME NEW t \in Thread, NEW d \in Device, StartIO(t, d) PROVE IInv'
  <2>1. TypeOK'
    BY <1>6 DEF IInv, TypeOK, StartIO, threadVars, semVars
  <2>2. OnePlace' /\ CarcassIsFinished'
    BY <1>6 DEF IInv, OnePlace, ListsAgree, LifeCycle, CarcassIsFinished,
                StartIO, threadVars, semVars
  <2> QED
    BY <2>1, <2>2 DEF IInv
<1>7. CASE Dispatch
  BY <1>7, DispatchIInv
<1>8. ASSUME NEW d \in Device, DeviceInterrupt(d) \/ Idle(d) PROVE IInv'
  <2>1. /\ d \in Sem /\ VBody(d)
        /\ pending' \in SUBSET Device /\ idleMode' \in BOOLEAN /\ halted' \in BOOLEAN
    BY <1>8 DEF DeviceInterrupt, Idle, IInv, TypeOK
  <2> QED
    BY <2>1, VIInv
<1>9. CASE Halt \/ UNCHANGED vars
  <2>1. /\ UNCHANGED <<threadVars, semVars, pending, idleMode>>
        /\ halted' \in BOOLEAN
    BY <1>9 DEF Halt, vars, machineVars, IInv, TypeOK
  <2>2. TypeOK'
    BY <2>1 DEF IInv, TypeOK, threadVars, semVars
  <2>3. OnePlace' /\ CarcassIsFinished'
    BY <2>1 DEF IInv, OnePlace, ListsAgree, LifeCycle, CarcassIsFinished,
                threadVars, semVars
  <2> QED
    BY <2>2, <2>3 DEF IInv
<1> QED
  BY <1>1, <1>2, <1>3, <1>4, <1>5, <1>6, <1>7, <1>8, <1>9 DEF Next

(* The thread system keeps its variables well typed.                         *)
THEOREM TypeCorrect == Spec => []TypeOK
<1>1. IInv => TypeOK
  BY DEF IInv
<1> QED
  BY <1>1, InitIInv, NextIInv, PTL DEF Spec

(* In every reachable state each thread is in exactly one place: running,    *)
(* once on the ready list, or once on the queue of the semaphore it waits    *)
(* for, and the status field says which.                                     *)
THEOREM ThreadInOnePlace == Spec => []OnePlace
<1>1. IInv => OnePlace
  BY DEF IInv
<1> QED
  BY <1>1, InitIInv, NextIInv, PTL DEF Spec

(* Scheduler::Run never deletes a thread that is still on a list.            *)
THEOREM CarcassSafe == Spec => []CarcassIsFinished
<1>1. IInv => CarcassIsFinished
  BY DEF IInv
<1> QED
  BY <1>1, InitIInv, NextIInv, PTL DEF Spec

(* Every thread is in one place, and the one to be destroyed has finished    *)
(* and is nowhere else, however the scheduler's lists and the queues of the  *)
(* semaphores change (Scheduler::Run, Thread::Finish and Sleep).             *)
THEOREM ThreadsAlwaysAccounted == Spec => []ThreadsAccounted
<1>1. IInv => ThreadsAccounted
  BY DEF IInv, ThreadsAccounted
<1> QED
  BY <1>1, InitIInv, NextIInv, PTL DEF Spec

-----------------------------------------------------------------------------
(* The sets of woken threads are finite, so removing or adding a member      *)
(* changes the cardinality by one.                                           *)
LEMMA WokenFinite ==
    ASSUME NEW s \in Sem
    PROVE  IsFiniteSet(Woken(s)) /\ Cardinality(Woken(s)) \in Nat
<1>1. Woken(s) \subseteq Thread
  BY DEF Woken
<1> QED
  BY <1>1, FS_Subset, FS_CardinalityType

(* A step that changes neither the value, nor the queue, nor who is woken    *)
(* loses no wakeup.                                                          *)
LEMMA WakeupFrame ==
    ASSUME NoLostWakeup, UNCHANGED <<value, queue>>,
           \A s \in Sem : Woken(s)' = Woken(s)
    PROVE  NoLostWakeup'
BY DEF NoLostWakeup

(* A dispatch turns READY into RUNNING and back, and deletes only finished   *)
(* threads: nobody in a P changes between blocked and not blocked.           *)
LEMMA RunKeepsWoken ==
    ASSUME IInv, NEW next \in Thread, NEW st \in [Thread -> ThreadStatus],
           next \in Range(readyList), Run(next, st), inP' = inP,
           \A u \in Thread : st[u] = "BLOCKED" <=> status[u] = "BLOCKED"
    PROVE  \A s \in Sem : Woken(s)' = Woken(s)
<1>1. TypeOK /\ ListsAgree /\ LifeCycle /\ CarcassIsFinished
  BY DEF IInv, OnePlace
<1>2. status[next] = "READY"
  BY <1>1 DEF ListsAgree
<1>3. threadToBeDestroyed # NULL => inP[threadToBeDestroyed] = NULL
  BY <1>1 DEF CarcassIsFinished, LifeCycle, TypeOK
<1>4. ASSUME NEW u \in Thread, inP[u] # NULL
      PROVE  status'[u] = "BLOCKED" <=> status[u] = "BLOCKED"
  BY <1>1, <1>2, <1>3, <1>4 DEF Run, TypeOK
<1> QED
  BY <1>4 DEF Woken

(* P takes at most one unit, and if the taker had been woken it leaves the   *)
(* set of woken threads with it; P sleeps only on a zero value.              *)
LEMMA PWakeup ==
    ASSUME IInv, NoLostWakeup, NEW t \in Thread, NEW s \in Sem, P(t, s)
    PROVE  NoLostWakeup'
<1> USE DEF P
<1>1. TypeOK /\ s # NULL
  BY DEF IInv
<1>2. ASSUME NEW r \in Sem, r # s
      PROVE  /\ Woken(r)' = Woken(r)
             /\ queue'[r] = queue[r] /\ value'[r] = value[r]
  BY <1>1, <1>2 DEF TypeOK, Woken, PSleep, PTake
<1>3. Woken(s)' = Woken(s) \ {t}
  BY <1>1 DEF TypeOK, Woken, PSleep, PTake
<1>4. Cardinality(Woken(s)') \in Nat
  BY <1>3, WokenFinite, FS_Subset, FS_CardinalityType
<1>5. CASE PSleep(t, s)
  <2>1. value'[s] = 0
    BY <1>5 DEF PSleep
  <2> QED
    BY <1>2, <1>4, <2>1 DEF NoLostWakeup
<1>6. CASE PTake(t, s)
  <2>1. /\ queue'[s] = queue[s] /\ value'[s] = value[s] - 1
        /\ value[s] \in Nat /\ value[s] > 0
    BY <1>1, <1>6 DEF PTake, TypeOK
  <2>2. Cardinality(Woken(s)') >= Cardinality(Woken(s)) - 1
    <3> DEFINE W == Woken(s)
    <3>1. IsFiniteSet(W) /\ Cardinality(W) \in Nat
      BY WokenFinite
    <3> HIDE DEF W
    <3>2. Cardinality(W \ {t}) \in {Cardinality(W), Cardinality(W) - 1}
      BY <3>1, FS_RemoveElement
    <3>3. Cardinality(W \ {t}) >= Cardinality(W) - 1
      BY <3>1, <3>2
    <3>4. Woken(s)' = W \ {t}
      BY <1>3 DEF W
    <3> QED
      BY <3>3, <3>4 DEF W
  <2>3. queue'[s] # <<>> => value'[s] <= Cardinality(Woken(s)')
    BY <1>4, <2>1, <2>2, WokenFinite DEF NoLostWakeup
  <2> QED
    BY <1>2, <2>3 DEF NoLostWakeup
<1> QED
  BY <1>5, <1>6

(* V adds one unit and, when somebody queues, one woken thread.              *)
LEMMA VWakeup ==
    ASSUME IInv, NoLostWakeup, NEW s \in Sem, VBody(s)
    PROVE  NoLostWakeup'
<1> USE DEF VBody
<1>1. TypeOK /\ ListsAgree
  BY DEF IInv, OnePlace
<1>2. CASE queue[s] = <<>>
  <2>1. queue' = queue /\ \A r \in Sem : Woken(r)' = Woken(r)
    BY <1>2 DEF Woken
  <2>2. \A r \in Sem : r # s => value'[r] = value[r]
    BY <1>1 DEF TypeOK
  <2> QED
    BY <1>2, <2>1, <2>2 DEF NoLostWakeup
<1>3. CASE queue[s] # <<>>
  <2> DEFINE w == Head(queue[s])
  <2>1. w \in Thread /\ w \in Range(queue[s])
    BY <1>1, <1>3, RemoveHead DEF TypeOK, ListsAgree
  <2>2. status[w] = "BLOCKED" /\ inP[w] = s
    BY <1>1, <2>1 DEF ListsAgree
  <2>3. status' = [status EXCEPT ![w] = "READY"] /\ inP' = inP
    BY <1>3
  <2> HIDE DEF w
  <2>4. Woken(s)' = Woken(s) \cup {w} /\ w \notin Woken(s)
    BY <1>1, <2>1, <2>2, <2>3 DEF Woken, TypeOK
  <2>5. Cardinality(Woken(s)') = Cardinality(Woken(s)) + 1
    BY <2>4, WokenFinite, FS_AddElement
  <2>6. value'[s] = value[s] + 1 /\ value[s] \in Nat
    BY <1>1 DEF TypeOK
  <2>7. value[s] <= Cardinality(Woken(s))
    BY <1>3 DEF NoLostWakeup
  <2>8. ASSUME NEW r \in Sem, r # s
        PROVE  /\ Woken(r)' = Woken(r)
               /\ queue'[r] = queue[r] /\ value'[r] = value[r]
    BY <1>1, <1>3, <2>1, <2>2, <2>3, <2>8 DEF Woken, TypeOK
  <2>9. value'[s] <= Cardinality(Woken(s)')
    BY <2>5, <2>6, <2>7, WokenFinite
  <2> QED
    BY <2>8, <2>9 DEF NoLostWakeup
<1> QED
  BY <1>2, <1>3

(* Every step preserves NoLostWakeup.                                        *)
LEMMA NextWakeup == IInv /\ NoLostWakeup /\ [Next]_vars => NoLostWakeup'
<1> SUFFICES ASSUME IInv, NoLostWakeup, [Next]_vars PROVE NoLostWakeup'
  OBVIOUS
<1>t. TypeOK /\ ListsAgree /\ LifeCycle
  BY DEF IInv, OnePlace
<1>1. ASSUME NEW t \in Thread, NEW u \in Thread, Fork(t, u) PROVE NoLostWakeup'
  <2>1. inP[u] = NULL
    BY <1>t, <1>1 DEF Fork, LifeCycle
  <2>2. \A s \in Sem : Woken(s)' = Woken(s)
    BY <1>t, <1>1, <2>1 DEF Fork, Woken, semVars, TypeOK
  <2> QED
    BY <1>1, <2>2, WakeupFrame DEF Fork, semVars
<1>2. ASSUME NEW t \in Thread, Yield(t) \/ TimeSlice(t) PROVE NoLostWakeup'
  <2> DEFINE st == [status EXCEPT ![t] = "READY"]
             next == Head(readyList)
  <2>1. Runs(t) /\ SwitchToNext(t)
    BY <1>2 DEF Yield, TimeSlice
  <2>2. next \in Thread /\ next \in Range(readyList)
    BY <1>t, <2>1, RemoveHead DEF SwitchToNext, TypeOK, ListsAgree
  <2>3. /\ st \in [Thread -> ThreadStatus]
        /\ \A u \in Thread : st[u] = "BLOCKED" <=> status[u] = "BLOCKED"
    BY <1>t, <2>1 DEF Runs, TypeOK, ThreadStatus
  <2>4. Run(next, st) /\ UNCHANGED <<value, queue, inP>>
    BY <2>1 DEF SwitchToNext, semVars
  <2> HIDE DEF st, next
  <2>5. \A s \in Sem : Woken(s)' = Woken(s)
    BY <2>2, <2>3, <2>4, RunKeepsWoken
  <2> QED
    BY <2>4, <2>5, WakeupFrame
<1>3. ASSUME NEW t \in Thread, Finish(t) PROVE NoLostWakeup'
  <2>1. \A s \in Sem : Woken(s)' = Woken(s)
    BY <1>t, <1>3 DEF Finish, Runs, Woken, semVars, TypeOK
  <2> QED
    BY <1>3, <2>1, WakeupFrame DEF Finish, semVars
<1>4. ASSUME NEW t \in Thread, NEW s \in Sem, P(t, s) PROVE NoLostWakeup'
  BY <1>4, PWakeup
<1>5. ASSUME NEW s \in Sem, VBody(s) PROVE NoLostWakeup'
  BY <1>5, VWakeup
<1>6. CASE Dispatch
  <2> DEFINE next == Head(readyList)
  <2>1. next \in Thread /\ next \in Range(readyList)
    BY <1>t, <1>6, RemoveHead DEF Dispatch, TypeOK, ListsAgree
  <2>2. Run(next, status) /\ UNCHANGED <<value, queue, inP>>
    BY <1>6 DEF Dispatch, semVars
  <2> HIDE DEF next
  <2>3. \A s \in Sem : Woken(s)' = Woken(s)
    BY <1>t, <2>1, <2>2, RunKeepsWoken DEF TypeOK
  <2> QED
    BY <2>2, <2>3, WakeupFrame
<1>7. ASSUME UNCHANGED <<threadVars, semVars>> PROVE NoLostWakeup'
  BY <1>7 DEF NoLostWakeup, Woken, threadVars, semVars
<1>8. ASSUME NEW t \in Thread, NEW d \in Device, StartIO(t, d)
      PROVE  UNCHANGED <<threadVars, semVars>>
  BY <1>8 DEF StartIO
<1>9. ASSUME Halt \/ UNCHANGED vars PROVE UNCHANGED <<threadVars, semVars>>
  BY <1>9 DEF Halt, vars
<1> QED
  BY <1>1, <1>2, <1>3, <1>4, <1>5, <1>6, <1>7, <1>8, <1>9
  DEF Next, V, DeviceInterrupt, Idle

(* No V of a Semaphore is ever lost on threads that queue for it.            *)
THEOREM WakeupsKept == Spec => []NoLostWakeup
<1>1. Init => NoLostWakeup
  BY DEF Init, NoLostWakeup
<1> QED
  BY <1>1, InitIInv, NextIInv, NextWakeup, PTL DEF Spec

-----------------------------------------------------------------------------
(* When Idle finds nothing to wait for, no thread is ready or running, so    *)
(* none is woken either, and NoLostWakeup makes every awaited value zero.    *)
LEMMA HaltStuck ==
    ASSUME IInv, NoLostWakeup, Halt
    PROVE  HaltMeansStuck'
<1> USE DEF Halt, InSleep, threadVars, semVars
<1>1. TypeOK /\ ListsAgree /\ LifeCycle
  BY DEF IInv, OnePlace
<1>2. Range(readyList) = {}
  BY DEF Range
<1>3. \A t \in Thread : status[t] \in {"JUST_CREATED", "BLOCKED"}
  BY <1>1, <1>2 DEF TypeOK, ThreadStatus, ListsAgree, LifeCycle
<1>4. ASSUME NEW s \in Sem PROVE Woken(s) = {}
  BY <1>1, <1>3 DEF Woken, LifeCycle
<1>5. ASSUME NEW s \in Sem, queue[s] # <<>> PROVE value[s] = 0
  <2>1. value[s] <= Cardinality(Woken(s)) /\ value[s] \in Nat
    BY <1>1, <1>5 DEF NoLostWakeup, TypeOK
  <2>2. Cardinality(Woken(s)) = 0
    BY <1>4, FS_EmptySet
  <2> QED
    BY <2>1, <2>2
<1>6. ASSUME NEW t \in Thread, phase[t] \notin {"none", "finished"}
      PROVE  \E s \in Sem \ pending : t \in Range(queue[s]) /\ value[s] = 0
  <2>1. status[t] = "BLOCKED" /\ inP[t] \in Sem
    BY <1>1, <1>3, <1>6 DEF LifeCycle, TypeOK
  <2>2. t \in Range(queue[inP[t]])
    BY <1>1, <2>1 DEF ListsAgree
  <2>3. queue[inP[t]] # <<>>
    BY <2>2 DEF Range
  <2> QED
    BY <1>5, <2>1, <2>2, <2>3
<1> QED
  BY <1>6 DEF HaltMeansStuck

(* The machine stops by itself only when no thread can go on.                *)
THEOREM HaltOnlyWhenStuck == Spec => []HaltMeansStuck
<1>1. Init => NoLostWakeup /\ HaltMeansStuck
  BY DEF Init, NoLostWakeup, HaltMeansStuck
<1>2. IInv /\ NoLostWakeup /\ HaltMeansStuck /\ [Next]_vars => HaltMeansStuck'
  <2> SUFFICES ASSUME IInv, NoLostWakeup, HaltMeansStuck, [Next]_vars
               PROVE  HaltMeansStuck'
    OBVIOUS
  <2>1. CASE Halt
    BY <2>1, HaltStuck
  <2>2. CASE UNCHANGED vars
    BY <2>2 DEF HaltMeansStuck, vars, threadVars, semVars, machineVars
  <2>3. CASE Next /\ ~Halt
    <3>1. ~halted
      BY <2>3 DEF Next, Fork, Yield, TimeSlice, Finish, P, V, StartIO, Dispatch,
                  DeviceInterrupt, Idle, Runs, InSleep
    <3>2. halted' = halted
      BY <2>3 DEF Next, Fork, Yield, TimeSlice, SwitchToNext, Finish, P, V, StartIO,
                  Dispatch, DeviceInterrupt, Idle, machineVars
    <3> QED
      BY <3>1, <3>2 DEF HaltMeansStuck
  <2> QED
    BY <2>1, <2>2, <2>3
<1> QED
  BY <1>1, <1>2, InitIInv, NextIInv, NextWakeup, PTL DEF Spec

-----------------------------------------------------------------------------
(* The queue-and-ready-list Semaphore implements the counting semaphore: a   *)
(* P that sleeps again is a stuttering step of the abstract one, a V is a    *)
(* Release whoever calls it, and every other step leaves both alone.         *)
THEOREM SemaphoreRefinement == Spec => RefinesSemaphore
<1> USE DEF CS!csVars
<1>1. Init => CS!Init
  BY DEF Init, CS!Init
<1>2. IInv /\ [Next]_vars => [CS!Next]_(CS!csVars)
  <2> SUFFICES ASSUME IInv, [Next]_vars, ~ UNCHANGED <<value, inP>>
               PROVE  CS!Next
    OBVIOUS
  <2>1. TypeOK
    BY DEF IInv
  <2>2. ASSUME NEW s \in Sem, VBody(s) PROVE CS!Release(s)
    BY <2>2 DEF VBody, CS!Release
  <2>3. ASSUME NEW t \in Thread, NEW s \in Sem, P(t, s)
        PROVE  CS!Wait(t, s) \/ CS!Take(t, s)
    <3>1. CASE PTake(t, s)
      BY <2>3, <3>1 DEF P, PTake, CS!Take
    <3>2. CASE PSleep(t, s)
      <4>1. inP[t] = NULL
        BY <2>1, <2>3, <3>2 DEF P, PSleep, TypeOK
      <4> QED
        BY <3>2, <4>1 DEF PSleep, CS!Wait
    <3> QED
      BY <2>3, <3>1, <3>2 DEF P
  <2>4. \/ \E s \in Sem : VBody(s)
        \/ \E t \in Thread, s \in Sem : P(t, s)
    BY DEF Next, Fork, Yield, TimeSlice, SwitchToNext, Finish, V, StartIO,
           Dispatch, DeviceInterrupt, Idle, Halt, vars, semVars
  <2> QED
    BY <2>2, <2>3, <2>4 DEF CS!Next
<1> QED
  BY <1>1, <1>2, InitIInv, NextIInv, PTL DEF Spec, RefinesSemaphore, CS!Spec
=============================================================================
