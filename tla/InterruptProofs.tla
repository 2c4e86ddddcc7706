--------------------------- MODULE InterruptProofs ---------------------------
(***************************************************************************)
(* Proofs about Interrupt, for any number of threads and devices and any   *)
(* times: the pending list is in order and worked off in time, the machine *)
(* has the status of the code that runs, and no interrupt is lost.         *)
(***************************************************************************)
EXTENDS Interrupt, TLAPS

(* What the pending list holds.                                              *)
Entries == [type : IntType, when : Int]

(* A list in the order of its times, whose times are all at least n.         *)
InOrder(q) == \A i, j \in 1 .. Len(q) : i < j => q[i].when <= q[j].when
AtLeast(q, n) == \A i \in 1 .. Len(q) : q[i].when >= n

(* How many entries of a type a list has.                                    *)
Places(q, ty) == {i \in 1 .. Len(q) : q[i].type = ty}
Count(q, ty) == Cardinality(Places(q, ty))

-----------------------------------------------------------------------------
(* The inductive invariant.  Threads are ready, asleep or running, each in   *)
(* one place only.                                                           *)
Running == cpu \in {"run", "tick"}

Whereabouts ==
    /\ ready \in SUBSET Thread /\ blocked \in SUBSET Thread /\ current \in Thread
    /\ ready \cap blocked = {}
    /\ ready \cup blocked \cup {current} = Thread
    /\ Running <=> current \notin ready \cup blocked

(* A thread that is switched out in user code has the status of user code    *)
(* saved in its OneTick.                                                     *)
StatusOf(m) == IF m = "user" THEN "UserMode" ELSE "SystemMode"

SavedOf(t) ==
    /\ old[t] # NULL => old[t] = StatusOf(mode[t])
    /\ old[t] = NULL /\ mode[t] = "user" => t = current /\ cpu = "run"

Modes ==
    /\ level \in {"IntOff", "IntOn"} /\ status \in MachineStatus
    /\ cpu \in {"run", "tick", "idle", "sleep", "halted"}
    /\ mode \in [Thread -> {"boot", "user", "kernel"}]
    /\ old \in [Thread -> MachineStatus \cup {NULL}]
    /\ status = "IdleMode" <=> cpu \in {"idle", "halted"}
    /\ cpu = "tick" => old[current] # NULL
    /\ ModeRight
    /\ \A t \in Thread : SavedOf(t)

Yields == yieldOnReturn \in BOOLEAN /\ NoStaleYield

Holds(q, b) == \A d \in Device : Count(q, d) = IF d \in b THEN 1 ELSE 0

(* The pending list; an idle CPU never lets an interrupt come overdue.       *)
List ==
    /\ pending \in Seq(Entries) /\ busy \in SUBSET Device
    /\ InOrder(pending) /\ Holds(pending, busy)
    /\ NoneOverdue
    /\ cpu = "idle" => AtLeast(pending, 0)
    /\ cpu = "halted" => ready = {} /\ \A i \in 1 .. Len(pending) : pending[i].type = "TimerInt"

IInv == Whereabouts /\ Modes /\ Yields /\ List

-----------------------------------------------------------------------------
(* A handler moves at most a sleeper to the ready list.                      *)
LEMMA HandlerWakes ==
    ASSUME Whereabouts, NEW ty, NEW q, Handler(ty, q)
    PROVE  /\ ready' \in SUBSET Thread /\ blocked' \in SUBSET Thread
           /\ ready' \cap blocked' = {} /\ ready' \cup blocked' = ready \cup blocked
BY DEF Whereabouts, Handler, Wake

LEMMA WhereaboutsStep ==
    ASSUME Whereabouts, [Next]_vars, cpu \in {"run", "tick", "idle", "sleep", "halted"}
    PROVE  Whereabouts'
<1>1. CASE UserInstruction
  BY <1>1 DEF UserInstruction, InUser, BeginTick, Whereabouts, Running
<1>2. CASE EnterUser \/ Trap
  BY <1>2 DEF EnterUser, Trap, Whereabouts, Running
<1>3. CASE ReturnToUser
  BY <1>3 DEF ReturnToUser, InKernel, BeginTick, Whereabouts, Running
<1>4. CASE Disable
  BY <1>4 DEF Disable, threadVars, Whereabouts, Running
<1>5. CASE Enable
  BY <1>5 DEF Enable, BeginTick, Whereabouts, Running
<1>6. CASE \E d \in Device : Schedule(d)
  BY <1>6 DEF Schedule, threadVars, Whereabouts, Running
<1>7. CASE Sleep
  BY <1>7 DEF Sleep, InKernel, Whereabouts, Running
<1>8. CASE Dispatch
  BY <1>8 DEF Dispatch, Whereabouts, Running
<1>9. CASE CheckIfDue
  BY <1>9, HandlerWakes DEF CheckIfDue, Whereabouts, Running
<1>10. CASE EndTick
  BY <1>10 DEF EndTick, Whereabouts, Running
<1>11. CASE TimeSlice
  BY <1>11 DEF TimeSlice, Whereabouts, Running
<1>12. CASE Idle
  BY <1>12, HandlerWakes DEF Idle, Whereabouts, Running
<1>13. CASE IdleReturn \/ Halt
  BY <1>13 DEF IdleReturn, Halt, threadVars, Whereabouts, Running
<1>14. CASE UNCHANGED vars
  BY <1>14 DEF vars, threadVars, Whereabouts, Running
<1> QED
  BY <1>1, <1>2, <1>3, <1>4, <1>5, <1>6, <1>7, <1>8, <1>9, <1>10, <1>11, <1>12, <1>13, <1>14
  DEF Next

LEMMA ModesStep ==
    ASSUME Whereabouts, Modes, [Next]_vars
    PROVE  Modes'
<1> USE InterruptAssumption DEF Modes, ModeRight, SavedOf, StatusOf, MachineStatus, Whereabouts, Running
<1>1. CASE UserInstruction
  BY <1>1 DEF UserInstruction, InUser, BeginTick
<1>2. CASE EnterUser
  BY <1>2 DEF EnterUser, InKernel
<1>3. CASE Trap
  BY <1>3 DEF Trap, InUser
<1>4. CASE ReturnToUser
  BY <1>4 DEF ReturnToUser, InKernel, BeginTick
<1>5. CASE Disable
  BY <1>5 DEF Disable, threadVars
<1>6. CASE Enable
  BY <1>6 DEF Enable, BeginTick
<1>7. CASE \E d \in Device : Schedule(d)
  BY <1>7 DEF Schedule, threadVars
<1>8. CASE Sleep
  BY <1>8 DEF Sleep, InKernel
<1>9. CASE Dispatch
  BY <1>9 DEF Dispatch
<1>10. CASE CheckIfDue
  BY <1>10 DEF CheckIfDue
<1>11. CASE EndTick
  BY <1>11 DEF EndTick
<1>12. CASE TimeSlice
  BY <1>12 DEF TimeSlice
<1>13. CASE Idle
  BY <1>13 DEF Idle
<1>14. CASE IdleReturn \/ Halt
  BY <1>14 DEF IdleReturn, Halt, threadVars
<1>15. CASE UNCHANGED vars
  BY <1>15 DEF vars, threadVars
<1> QED
  BY <1>1, <1>2, <1>3, <1>4, <1>5, <1>6, <1>7, <1>8, <1>9, <1>10, <1>11, <1>12, <1>13, <1>14, <1>15
  DEF Next

LEMMA YieldsStep ==
    ASSUME Yields, cpu \in {"run", "tick", "idle", "sleep", "halted"}, [Next]_vars
    PROVE  Yields'
<1>1. CASE UNCHANGED yieldOnReturn /\ (cpu' = cpu \/ cpu' \in {"tick", "idle"})
  BY <1>1 DEF Yields, NoStaleYield
<1>2. CASE UNCHANGED yieldOnReturn /\ cpu \in {"run", "sleep"}
  BY <1>2 DEF Yields, NoStaleYield
<1>3. CASE CheckIfDue
  BY <1>3, Zenon DEF Yields, NoStaleYield, CheckIfDue, Handler
<1>4. CASE Idle
  BY <1>4, Zenon DEF Yields, NoStaleYield, Idle, Handler
<1>5. CASE TimeSlice \/ IdleReturn
  BY <1>5, Zenon DEF Yields, NoStaleYield, TimeSlice, IdleReturn
<1>6. CASE EndTick
  BY <1>6 DEF Yields, NoStaleYield, EndTick
<1>7. CASE UserInstruction \/ EnterUser \/ Trap \/ ReturnToUser \/ Disable \/ Enable
           \/ (\E d \in Device : Schedule(d)) \/ Sleep \/ Dispatch \/ Halt \/ UNCHANGED vars
  BY <1>1, <1>2, <1>7 DEF UserInstruction, BeginTick, EnterUser, Trap, ReturnToUser, Disable, Enable,
     Schedule, Sleep, InKernel, Dispatch, Halt, vars
<1> QED
  BY <1>3, <1>4, <1>5, <1>6, <1>7 DEF Next
-----------------------------------------------------------------------------
(* What the proof needs of the operations on the list; ListFactsHold below   *)
(* shows that they do it.                                                    *)
EntryFact ==
    \A q \in Seq(Entries) :
        /\ Len(q) \in Nat /\ DOMAIN q = 1 .. Len(q)
        /\ \A i \in 1 .. Len(q) : q[i] \in Entries /\ q[i].when \in Int /\ q[i].type \in IntType
        /\ \A ty : Count(q, ty) \in Nat
        /\ \A ty : (\A i \in 1 .. Len(q) : q[i].type # ty) => Count(q, ty) = 0

(* Tail takes the head off.                                                  *)
TailFact ==
    \A q \in Seq(Entries) : q # <<>> =>
        /\ Head(q) \in Entries /\ Head(q) = q[1] /\ Len(q) > 0
        /\ Tail(q) \in Seq(Entries) /\ Len(Tail(q)) = Len(q) - 1
        /\ \A i \in 1 .. Len(q) - 1 : Tail(q)[i] = q[i + 1]
        /\ InOrder(q) => InOrder(Tail(q))
        /\ \A ty : Count(q, ty) = Count(Tail(q), ty) + (IF Head(q).type = ty THEN 1 ELSE 0)

(* r is the list q with the entry e somewhere in it.                         *)
HasMore(r, q, e) ==
    /\ r \in Seq(Entries)
    /\ InOrder(q) => InOrder(r)
    /\ \A i \in 1 .. Len(r) : r[i] = e \/ \E j \in 1 .. Len(q) : r[i] = q[j]
    /\ \A ty : Count(r, ty) = Count(q, ty) + (IF e.type = ty THEN 1 ELSE 0)

InsertFact ==
    \A q \in Seq(Entries), e \in Entries : HasMore(SortedInsert(q, e), q, e)

(* r is the list q with all times moved by d.                                *)
Moved(r, q, d) ==
    /\ r \in Seq(Entries) /\ Len(r) = Len(q)
    /\ InOrder(q) => InOrder(r)
    /\ \A i \in 1 .. Len(q) : r[i].type = q[i].type /\ r[i].when = q[i].when - d
    /\ \A ty : Count(r, ty) = Count(q, ty)

AdvanceFact ==
    \A q \in Seq(Entries), d \in Int : Moved(Advance(q, d), q, d)

(* CheckIfDue puts back what it took off: nothing is lost or out of order.   *)
Same(r, q) ==
    /\ r \in Seq(Entries) /\ InOrder(r)
    /\ \A i \in 1 .. Len(r) : \E j \in 1 .. Len(q) : r[i] = q[j]
    /\ \A ty : Count(r, ty) = Count(q, ty)

PutBackFact ==
    \A q \in Seq(Entries) : InOrder(q) => Same(PutBack(q), q)

ListFacts == EntryFact /\ TailFact /\ InsertFact /\ AdvanceFact /\ PutBackFact

-----------------------------------------------------------------------------
(* The handler of the first interrupt of a list, which it takes off: the     *)
(* list stays in order and has what the devices wait for.                    *)
LEMMA HandlerKeeps ==
    ASSUME EntryFact, TailFact, InsertFact,
           NEW q \in Seq(Entries), q # <<>>, InOrder(q), busy \in SUBSET Device, Holds(q, busy),
           Handler(Head(q).type, Tail(q))
    PROVE  /\ pending' \in Seq(Entries) /\ busy' \in SUBSET Device
           /\ InOrder(pending') /\ Holds(pending', busy')
           /\ AtLeast(q, 0) => AtLeast(pending', 0)
           /\ \A ty \in Recurring : Count(pending', ty) = Count(q, ty)
<1> DEFINE t == Tail(q)
           h == Head(q)
<1>1. t \in Seq(Entries) /\ h \in Entries /\ h.type \in IntType /\ InOrder(t)
  BY DEF TailFact, Entries
<1>2. ASSUME NEW ty PROVE /\ Count(q, ty) = Count(t, ty) + (IF h.type = ty THEN 1 ELSE 0)
                          /\ Count(q, ty) \in Nat /\ Count(t, ty) \in Nat
  BY <1>1 DEF TailFact, EntryFact
<1>3. ASSUME AtLeast(q, 0) PROVE AtLeast(t, 0)
  <2>1. \A i \in 1 .. Len(t) : i + 1 \in 1 .. Len(q) /\ t[i] = q[i + 1]
    BY DEF TailFact, EntryFact
  <2> QED
    BY <1>3, <2>1 DEF AtLeast
<1>4. Handler(h.type, t)
  OBVIOUS
<1> HIDE DEF t, h
<1>5. ASSUME NEW n \in Nat, h.type \in Recurring, pending' = SortedInsert(t, Entry(h.type, n)),
             busy' = busy
      PROVE  /\ pending' \in Seq(Entries) /\ busy' \in SUBSET Device
             /\ InOrder(pending') /\ Holds(pending', busy')
             /\ AtLeast(q, 0) => AtLeast(pending', 0)
             /\ \A ty \in Recurring : Count(pending', ty) = Count(q, ty)
  <2> DEFINE e == Entry(h.type, n)
  <2>1. e \in Entries /\ e.type = h.type /\ e.when = n
    BY <1>1 DEF Entries, Entry
  <2>2. pending' = SortedInsert(t, e)
    BY <1>5
  <2> HIDE DEF e
  <2>3. HasMore(pending', t, e)
    BY <1>1, <2>1, <2>2 DEF InsertFact
  <2>4. pending' \in Seq(Entries) /\ InOrder(pending')
    BY <1>1, <2>3 DEF HasMore
  <2>5. \A ty : Count(pending', ty) = Count(q, ty)
    BY <1>2, <2>1, <2>3 DEF HasMore
  <2>6. ASSUME AtLeast(q, 0) PROVE AtLeast(pending', 0)
    BY <1>3, <2>1, <2>3, <2>6 DEF AtLeast, HasMore
  <2> QED
    BY <1>5, <2>4, <2>5, <2>6 DEF Holds
<1>6. CASE h.type \in Device /\ pending' = t /\ busy' = busy \ {h.type}
  <2>1. h.type \notin Recurring
    BY <1>6, InterruptAssumption DEF Recurring
  <2>2. Holds(pending', busy')
    BY <1>2, <1>6 DEF Holds
  <2>3. \A ty \in Recurring : Count(pending', ty) = Count(q, ty)
    BY <1>2, <1>6, <2>1
  <2> QED
    BY <1>1, <1>3, <1>6, <2>2, <2>3
<1>7. PollTicks \in Nat /\ TimeOfNextInterrupt \subseteq Nat
  BY InterruptAssumption DEF TimeOfNextInterrupt
<1>8. \/ \E n \in Nat : /\ h.type \in Recurring /\ pending' = SortedInsert(t, Entry(h.type, n))
                        /\ busy' = busy
      \/ h.type \in Device /\ pending' = t /\ busy' = busy \ {h.type}
  BY <1>4, <1>7 DEF Handler, Recurring
<1> QED
  BY <1>5, <1>6, <1>8

(* The head of a list in order is due first.                                 *)
LEMMA HeadFirst ==
    ASSUME EntryFact, TailFact, NEW q \in Seq(Entries), q # <<>>, InOrder(q)
    PROVE  Head(q).when \in Int /\ \A i \in 1 .. Len(q) : Head(q).when <= q[i].when
<1>1. Len(q) \in Nat /\ 1 \in 1 .. Len(q) /\ Head(q) = q[1] /\ \A i \in 1 .. Len(q) : q[i].when \in Int
  BY DEF TailFact, EntryFact
<1>2. ASSUME NEW i \in 1 .. Len(q) PROVE q[1].when <= q[i].when
  <2>1. CASE i = 1
    BY <1>1, <2>1
  <2>2. CASE i > 1
    BY <1>1, <2>2 DEF InOrder
  <2> QED
    BY <1>1, <2>1, <2>2
<1> QED
  BY <1>1, <1>2

(* The clock advances when OneTick begins.                                   *)
LEMMA TickList ==
    ASSUME EntryFact, AdvanceFact, List, NEW st, BeginTick(st)
    PROVE  List' /\ \A ty \in Recurring : Count(pending', ty) = Count(pending, ty)
<1> DEFINE d == IF st = "SystemMode" THEN SystemTick ELSE UserTick
<1>1. d \in Int
  BY InterruptAssumption
<1>2. pending' = Advance(pending, d) /\ busy' = busy /\ cpu' = "tick"
  BY DEF BeginTick
<1> HIDE DEF d
<1>3. Moved(pending', pending, d)
  BY <1>1, <1>2 DEF List, AdvanceFact
<1>4. Holds(pending', busy')
  BY <1>2, <1>3 DEF List, Holds, Moved
<1> QED
  BY <1>2, <1>3, <1>4 DEF List, NoneOverdue, Moved

(* A driver's request is placed behind what is due before it.                *)
LEMMA ScheduleList ==
    ASSUME EntryFact, InsertFact, List, NEW d \in Device, Schedule(d)
    PROVE  List' /\ \A ty \in Recurring : Count(pending', ty) = Count(pending, ty)
<1> DEFINE e == Entry(d, Delay)
<1>1. e \in Entries /\ e.type = d /\ e.when > 0 /\ d \notin Recurring
  BY InterruptAssumption DEF Entries, Entry, IntType, Recurring
<1>2. /\ pending' = SortedInsert(pending, e) /\ d \notin busy /\ busy' = busy \cup {d}
      /\ cpu = "run" /\ cpu' = "run"
  BY DEF Schedule, InKernel
<1> HIDE DEF e
<1>3. HasMore(pending', pending, e)
  BY <1>1, <1>2 DEF List, InsertFact
<1>4. Holds(pending', busy') /\ \A ty \in Recurring : Count(pending', ty) = Count(pending, ty)
  <2>1. \A ty : Count(pending, ty) \in Nat
    BY DEF List, EntryFact
  <2> QED
    BY <1>1, <1>2, <1>3, <2>1 DEF List, Holds, HasMore
<1>5. NoneOverdue'
  <2>1. DOMAIN pending = 1 .. Len(pending) /\ DOMAIN pending' = 1 .. Len(pending')
    BY <1>3 DEF List, EntryFact, HasMore
  <2>2. \A i \in 1 .. Len(pending) :
          pending[i].when > 0 \/ (pending[i].type = "TimerInt" /\ pending[i].when = 0)
    BY <1>2, <2>1 DEF List, NoneOverdue
  <2> QED
    BY <1>1, <1>3, <2>1, <2>2 DEF NoneOverdue, HasMore
<1> QED
  BY <1>2, <1>3, <1>4, <1>5 DEF List, HasMore

(* The loop of OneTick, or of Idle, ends: no interrupt is left that is due,  *)
(* except the timer of an idle machine.                                      *)
LEMMA PutBackList ==
    ASSUME EntryFact, TailFact, PutBackFact,
           List, ~Due, pending' = PutBack(pending), busy' = busy, cpu' \in {"run", "sleep"},
           status = "IdleMode" => cpu = "idle"
    PROVE  List' /\ \A ty \in Recurring : Count(pending', ty) = Count(pending, ty)
<1>1. Same(pending', pending)
  BY DEF List, PutBackFact
<1>2. DOMAIN pending' = 1 .. Len(pending')
  BY <1>1 DEF Same, EntryFact
<1>3. ASSUME NEW j \in 1 .. Len(pending)
      PROVE  pending[j].when > 0 \/ (pending[j].type = "TimerInt" /\ pending[j].when = 0)
  <2>1. /\ pending \in Seq(Entries) /\ Len(pending) \in Nat /\ pending # <<>>
        /\ pending[j].when \in Int
    BY DEF List, EntryFact
  <2>2. Head(pending).when \in Int /\ Head(pending).when <= pending[j].when
    BY <2>1, HeadFirst DEF List
  <2>3. CASE Head(pending).when > 0
    BY <2>1, <2>2, <2>3
  <2>4. CASE OnlyTimer(status)
    <3>1. j = 1 /\ Head(pending) = pending[1] /\ cpu = "idle"
      BY <2>1, <2>4 DEF TailFact, OnlyTimer
    <3>2. pending[j].when >= 0
      BY <3>1 DEF List, AtLeast
    <3> QED
      BY <2>1, <2>4, <3>1, <3>2 DEF OnlyTimer
  <2> QED
    BY <2>1, <2>2, <2>3, <2>4 DEF Due
<1>4. NoneOverdue'
  BY <1>1, <1>2, <1>3 DEF NoneOverdue, Same
<1>5. Holds(pending', busy')
  BY <1>1 DEF Holds, List, Same
<1> QED
  BY <1>1, <1>4, <1>5 DEF List, Same

LEMMA IdleList ==
    ASSUME ListFacts, List, Idle
    PROVE  List' /\ \A ty \in Recurring : Count(pending', ty) = Count(pending, ty)
<1> DEFINE d == IF Head(pending).when > 0 THEN Head(pending).when ELSE 0
           q == Advance(pending, d)
<1>1. /\ pending \in Seq(Entries) /\ pending # <<>> /\ InOrder(pending) /\ Len(pending) \in Nat
      /\ DOMAIN pending = 1 .. Len(pending)
      /\ Head(pending).when \in Int
      /\ \A i \in 1 .. Len(pending) : Head(pending).when <= pending[i].when /\ pending[i].when \in Int
  BY HeadFirst DEF ListFacts, EntryFact, List, Idle, DueIdle
<1>2. d \in Int /\ \A i \in 1 .. Len(pending) : pending[i].when >= d
  <2>1. \A i \in 1 .. Len(pending) : pending[i].when >= 0
    BY <1>1 DEF List, NoneOverdue, Idle
  <2> QED
    BY <1>1, <2>1
<1>3. Handler(Head(q).type, Tail(q)) /\ cpu' = "idle"
  BY DEF Idle
<1> HIDE DEF d
<1>4. Moved(q, pending, d)
  BY <1>1, <1>2 DEF ListFacts, AdvanceFact
<1> HIDE DEF q
<1>5. q # <<>> /\ AtLeast(q, 0)
  BY <1>1, <1>2, <1>4 DEF AtLeast, Moved, ListFacts, TailFact
<1>6. q \in Seq(Entries) /\ InOrder(q) /\ Holds(q, busy) /\ busy \in SUBSET Device
  BY <1>1, <1>4 DEF Holds, List, Moved
<1>7. /\ pending' \in Seq(Entries) /\ busy' \in SUBSET Device
      /\ InOrder(pending') /\ Holds(pending', busy') /\ AtLeast(pending', 0)
      /\ \A ty \in Recurring : Count(pending', ty) = Count(q, ty)
  BY <1>3, <1>5, <1>6, HandlerKeeps DEF ListFacts
<1> QED
  BY <1>3, <1>4, <1>7 DEF List, NoneOverdue, Moved

LEMMA ListStep ==
    ASSUME ListFacts, List, Modes, [Next]_vars
    PROVE  List' /\ \A ty \in Recurring : Count(pending', ty) = Count(pending, ty)
<1>1. CASE UserInstruction \/ ReturnToUser \/ Enable
  BY <1>1, TickList DEF ListFacts, UserInstruction, ReturnToUser, Enable
<1>2. CASE \E d \in Device : Schedule(d)
  BY <1>2, ScheduleList DEF ListFacts
<1>3. CASE EnterUser \/ Trap \/ Disable \/ Sleep \/ Dispatch
  <2>1. pending' = pending /\ busy' = busy /\ cpu \in {"run", "sleep"} /\ cpu' \in {"run", "sleep"}
    BY <1>3 DEF EnterUser, Trap, Disable, Sleep, Dispatch, InUser, InKernel
  <2> QED
    BY <2>1 DEF List, NoneOverdue
<1>4. CASE EndTick \/ TimeSlice \/ IdleReturn
  <2>1. /\ ~Due /\ pending' = PutBack(pending) /\ busy' = busy /\ cpu' \in {"run", "sleep"}
        /\ cpu \in {"tick", "idle"}
    BY <1>4 DEF EndTick, TimeSlice, IdleReturn
  <2> QED
    BY <2>1, PutBackList DEF Modes, ListFacts
<1>5. CASE CheckIfDue
  <2>1. /\ pending # <<>> /\ Handler(Head(pending).type, Tail(pending))
        /\ cpu' = cpu /\ cpu \in {"tick", "idle"}
    BY <1>5 DEF CheckIfDue, Due
  <2>2. /\ pending' \in Seq(Entries) /\ busy' \in SUBSET Device
        /\ InOrder(pending') /\ Holds(pending', busy')
        /\ AtLeast(pending, 0) => AtLeast(pending', 0)
        /\ \A ty \in Recurring : Count(pending', ty) = Count(pending, ty)
    BY <2>1, HandlerKeeps DEF List, ListFacts
  <2> QED
    BY <2>1, <2>2 DEF List, NoneOverdue
<1>6. CASE Idle
  BY <1>6, IdleList
<1>7. CASE Halt
  <2>1. /\ pending' = pending /\ busy' = busy /\ cpu' = "halted" /\ ready' = {}
        /\ pending = <<>> \/ (Len(pending) = 1 /\ Head(pending).type = "TimerInt")
    BY <1>7 DEF Halt, DueIdle, OnlyTimer, threadVars
  <2>2. \A i \in 1 .. Len(pending) : pending[i].type = "TimerInt"
    <3>1. CASE pending = <<>>
      BY <3>1
    <3>2. CASE pending # <<>>
      BY <2>1, <3>2 DEF List, ListFacts, TailFact
    <3> QED
      BY <3>1, <3>2
  <2> QED
    BY <2>1, <2>2 DEF List, NoneOverdue
<1>8. CASE UNCHANGED vars
  BY <1>8 DEF vars, threadVars, List, NoneOverdue
<1> QED
  BY <1>1, <1>2, <1>3, <1>4, <1>5, <1>6, <1>7, <1>8 DEF Next

-----------------------------------------------------------------------------
(* Timer and Console schedule their first interrupt.                         *)
LEMMA InitList ==
    ASSUME EntryFact, InsertFact, Init
    PROVE  List
<1>1. PICK timer \in BOOLEAN, console \in BOOLEAN : pending \in Start(timer, console)
  BY DEF Init
<1> DEFINE q == IF console THEN <<Entry("ConsoleReadInt", PollTicks)>> ELSE <<>>
<1>2. Entry("ConsoleReadInt", PollTicks) \in Entries /\ Entry("ConsoleReadInt", PollTicks).when > 0
      /\ Entry("ConsoleReadInt", PollTicks).type = "ConsoleReadInt"
  BY InterruptAssumption DEF Entry, Entries, IntType, Recurring
<1>3. /\ q \in Seq(Entries) /\ InOrder(q)
      /\ \A i \in 1 .. Len(q) : q[i].when > 0 /\ q[i].type \in Recurring
  <2>1. CASE console
    BY <1>2, <2>1 DEF InOrder, Recurring
  <2>2. CASE ~console
    BY <2>2 DEF InOrder
  <2> QED
    BY <2>1, <2>2
<1>4. pending = q \/ \E n \in TimeOfNextInterrupt : pending = SortedInsert(q, Entry("TimerInt", n))
  BY <1>1 DEF Start
<1> HIDE DEF q
<1>5. \A n \in TimeOfNextInterrupt : /\ Entry("TimerInt", n) \in Entries
                                     /\ Entry("TimerInt", n).when > 0
                                     /\ Entry("TimerInt", n).type = "TimerInt"
  BY InterruptAssumption DEF Entry, Entries, IntType, Recurring, TimeOfNextInterrupt
<1>6. /\ pending \in Seq(Entries) /\ InOrder(pending)
      /\ \A i \in 1 .. Len(pending) : pending[i].when > 0 /\ pending[i].type \in Recurring
  <2>1. CASE pending = q
    BY <1>3, <2>1
  <2>2. ASSUME NEW e \in Entries, e.when > 0, e.type = "TimerInt", pending = SortedInsert(q, e)
        PROVE  /\ pending \in Seq(Entries) /\ InOrder(pending)
               /\ \A i \in 1 .. Len(pending) : pending[i].when > 0 /\ pending[i].type \in Recurring
    <3>1. HasMore(pending, q, e)
      BY <1>3, <2>2 DEF InsertFact
    <3> QED
      BY <1>3, <2>2, <3>1 DEF Recurring, HasMore
  <2> QED
    BY <1>4, <1>5, <2>1, <2>2
<1>7. \A d \in Device : Count(pending, d) = 0
  <2> SUFFICES ASSUME NEW d \in Device PROVE Count(pending, d) = 0
    OBVIOUS
  <2>1. d \notin Recurring
    BY InterruptAssumption DEF Recurring
  <2> QED
    BY <1>6, <2>1 DEF EntryFact
<1>8. NoneOverdue
  BY <1>6 DEF EntryFact, NoneOverdue
<1>9. busy = {} /\ cpu = "run"
  BY DEF Init
<1> QED
  BY <1>6, <1>7, <1>8, <1>9 DEF List, Holds

LEMMA InitIInv ==
    ASSUME ListFacts, Init
    PROVE  IInv
<1>1. Whereabouts
  BY InterruptAssumption DEF Init, Whereabouts, Running
<1>2. Modes
  BY InterruptAssumption DEF Init, Modes, ModeRight, SavedOf, StatusOf, MachineStatus
<1>3. Yields
  BY Zenon DEF Init, Yields, NoStaleYield
<1> QED
  BY <1>1, <1>2, <1>3, InitList DEF IInv, ListFacts


LEMMA NextIInv ==
    ASSUME ListFacts, IInv, [Next]_vars
    PROVE  IInv' /\ \A ty \in Recurring : Count(pending', ty) = Count(pending, ty)
<1>1. Whereabouts'
  BY WhereaboutsStep DEF IInv, Modes
<1>2. Modes'
  BY ModesStep DEF IInv
<1>3. Yields'
  BY YieldsStep DEF IInv, Modes
<1> QED
  BY <1>1, <1>2, <1>3, ListStep DEF IInv

(* What the properties look at.                                              *)
LEMMA IInvGives ==
    ASSUME ListFacts, IInv
    PROVE  /\ PendingRight /\ StatusRight
           /\ \A ty : Scheduled(ty) = Count(pending, ty)
           /\ \A d \in Device : Count(pending, d) = IF d \in busy THEN 1 ELSE 0
<1>1. /\ DOMAIN pending = 1 .. Len(pending)
      /\ \A i \in 1 .. Len(pending) : pending[i].when \in Int /\ pending[i].type \in IntType
  BY DEF IInv, List, ListFacts, EntryFact
<1>2. yieldOnReturn \in BOOLEAN /\ NoStaleYield
  BY Zenon DEF IInv, Yields
<1>3. TypeOK
  BY <1>1, <1>2 DEF IInv, Whereabouts, Modes, List, TypeOK
<1>4. Sorted /\ NoneOverdue
  BY <1>1 DEF IInv, List, InOrder, Sorted
<1>5. ModeRight
  BY DEF IInv, Modes
<1>6. HaltsWhenQuiet
  BY <1>1 DEF IInv, Whereabouts, Running, List, HaltsWhenQuiet
<1>7. \A ty : Scheduled(ty) = Count(pending, ty)
  BY <1>1 DEF Scheduled, Count, Places
<1>8. \A d \in Device : Count(pending, d) = IF d \in busy THEN 1 ELSE 0
  BY DEF IInv, List, Holds
<1> QED
  BY <1>2, <1>3, <1>4, <1>5, <1>6, <1>7, <1>8 DEF PendingRight, StatusRight


-----------------------------------------------------------------------------
(* The pending list is a sequence.                                            *)
INSTANCE SequenceTheorems
INSTANCE WellFoundedInduction

(* The sequence q with e in front of the element at a position.              *)
Insertion(q, at, e) == SubSeq(q, 1, at - 1) \o <<e>> \o SubSeq(q, at, Len(q))

(* A set of positions that is not empty has a lowest one.                    *)
LEMMA Lowest ==
    ASSUME NEW S \in SUBSET Nat, S # {}
    PROVE  \E x \in S : \A y \in S : x <= y
<1> DEFINE R == OpToRel(<, Nat)
<1>1. IsWellFoundedOn(R, Nat)
  BY NatLessThanWellFounded
<1>2. \A x, y \in Nat : y < x => <<y, x>> \in R
  BY DEF OpToRel
<1> HIDE DEF R
<1>3. PICK x \in S : \A y \in S : ~ (<<y, x>> \in R)
  BY <1>1, WFMin
<1>4. ASSUME NEW y \in S PROVE x <= y
  <2>1. x \in Nat /\ y \in Nat
    OBVIOUS
  <2>2. ~ (y < x)
    BY <1>2, <1>3, <2>1
  <2> QED
    BY <2>1, <2>2
<1> QED
  BY <1>4

(* r is q with the entry e at a position, and the entries behind it moved.   *)
WithAt(r, q, e, at) ==
    /\ r \in Seq(Entries) /\ Len(r) = Len(q) + 1
    /\ \A i \in 1 .. Len(q) + 1 :
        r[i] = IF i < at THEN q[i] ELSE IF i = at THEN e ELSE q[i - 1]

(* The position is behind the entries whose time is not larger.              *)
Placed(q, e, at) ==
    /\ \A i \in 1 .. at - 1 : q[i].when <= e.when
    /\ at <= Len(q) => e.when < q[at].when

LEMMA InsertionIs ==
    ASSUME NEW q \in Seq(Entries), NEW e \in Entries, NEW at \in 1 .. Len(q) + 1
    PROVE  WithAt(Insertion(q, at, e), q, e, at)
<1> DEFINE a == SubSeq(q, 1, at - 1)
           b == SubSeq(q, at, Len(q))
<1>1. Len(q) \in Nat /\ \A i \in 1 .. Len(q) : q[i] \in Entries
  BY ElementOfSeq
<1>2. a \in Seq(Entries) /\ Len(a) = at - 1 /\ \A i \in 1 .. at - 1 : a[i] = q[i]
  BY <1>1, SubSeqProperties
<1>3. /\ b \in Seq(Entries) /\ Len(b) = Len(q) - at + 1
      /\ \A i \in 1 .. Len(q) - at + 1 : b[i] = q[at + i - 1]
  BY <1>1, SubSeqProperties
<1>4. <<e>> \in Seq(Entries) /\ Len(<<e>>) = 1 /\ <<e>>[1] = e
  OBVIOUS
<1> DEFINE c == a \o <<e>>
<1> HIDE DEF a, b
<1>5. c \in Seq(Entries) /\ Len(c) = at /\ \A i \in 1 .. at : c[i] = IF i < at THEN a[i] ELSE e
  BY <1>1, <1>2, <1>4, ConcatProperties
<1> HIDE DEF c
<1>6. /\ c \o b \in Seq(Entries) /\ Len(c \o b) = Len(q) + 1
      /\ \A i \in 1 .. Len(q) + 1 : (c \o b)[i] = IF i <= at THEN c[i] ELSE b[i - at]
  <2>1. /\ c \o b \in Seq(Entries) /\ Len(c \o b) = Len(c) + Len(b)
        /\ \A i \in 1 .. Len(c) + Len(b) : (c \o b)[i] = IF i <= Len(c) THEN c[i] ELSE b[i - Len(c)]
    BY <1>3, <1>5, ConcatProperties
  <2>2. Len(c) + Len(b) = Len(q) + 1 /\ Len(c) = at
    BY <1>1, <1>3, <1>5
  <2> QED
    BY <2>1, <2>2
<1>7. Insertion(q, at, e) = c \o b
  BY DEF Insertion, a, b, c
<1>8. ASSUME NEW i \in 1 .. Len(q) + 1
      PROVE  (c \o b)[i] = IF i < at THEN q[i] ELSE IF i = at THEN e ELSE q[i - 1]
  <2>1. CASE i < at
    <3>1. i \in 1 .. at - 1 /\ i \in 1 .. at
      BY <1>1, <2>1
    <3>2. (c \o b)[i] = c[i] /\ c[i] = a[i] /\ a[i] = q[i]
      BY <1>2, <1>5, <1>6, <2>1, <3>1
    <3> QED
      BY <2>1, <3>2
  <2>2. CASE i = at
    BY <1>1, <1>5, <1>6, <2>2
  <2>3. CASE i > at
    <3>1. i - at \in 1 .. Len(q) - at + 1 /\ at + (i - at) - 1 = i - 1
      BY <1>1, <2>3
    <3> QED
      BY <1>1, <1>3, <1>6, <2>3, <3>1
  <2>4. i < at \/ i = at \/ i > at
    BY <1>1
  <2> QED
    BY <2>1, <2>2, <2>3, <2>4
<1> QED
  BY <1>6, <1>7, <1>8 DEF WithAt

(* List::SortedInsert puts the entry at such a position.                     *)
LEMMA Inserted ==
    ASSUME NEW q \in Seq(Entries), NEW e \in Entries
    PROVE  \E at \in 1 .. Len(q) + 1 :
             WithAt(SortedInsert(q, e), q, e, at) /\ Placed(q, e, at)
<1> DEFINE larger == {i \in DOMAIN q : e.when < q[i].when}
           at == IF larger = {} THEN Len(q) + 1
                 ELSE CHOOSE i \in larger : \A j \in larger : i <= j
<1>1. Len(q) \in Nat /\ DOMAIN q = 1 .. Len(q) /\ \A i \in 1 .. Len(q) : q[i] \in Entries
  BY LenProperties, ElementOfSeq
<1>2. e.when \in Int /\ \A i \in 1 .. Len(q) : q[i].when \in Int
  BY <1>1 DEF Entries
<1>3. /\ larger \in SUBSET Nat
      /\ \A i \in 1 .. Len(q) : i \in larger <=> e.when < q[i].when
      /\ larger \subseteq 1 .. Len(q)
  BY <1>1
<1>4. SortedInsert(q, e) = Insertion(q, at, e)
  BY DEF SortedInsert, Insertion
<1> HIDE DEF larger
<1>5. larger # {} => at \in larger /\ \A j \in larger : at <= j
  BY <1>3, Lowest
<1>6. larger = {} => at = Len(q) + 1
  OBVIOUS
<1> HIDE DEF at
<1>7. /\ at \in 1 .. Len(q) + 1
      /\ \A i \in 1 .. at - 1 : i \in 1 .. Len(q) /\ i \notin larger
      /\ at <= Len(q) => at \in larger
  <2>1. CASE larger = {}
    BY <1>1, <1>6, <2>1
  <2>2. CASE larger # {}
    <3>1. at \in 1 .. Len(q) /\ at \in larger /\ \A j \in larger : at <= j
      BY <1>3, <1>5, <2>2
    <3> QED
      BY <1>1, <3>1
  <2> QED
    BY <2>1, <2>2
<1>8. /\ \A i \in 1 .. at - 1 : q[i].when <= e.when
      /\ at <= Len(q) => e.when < q[at].when
  BY <1>1, <1>2, <1>3, <1>7
<1>9. WithAt(Insertion(q, at, e), q, e, at)
  BY <1>7, InsertionIs
<1> QED
  BY <1>4, <1>7, <1>8, <1>9 DEF Placed

(* Tail is the other way round.                                              *)
LEMMA Behead ==
    ASSUME NEW q \in Seq(Entries), q # <<>>
    PROVE  /\ Head(q) \in Entries /\ Head(q) = q[1] /\ Len(q) > 0
           /\ Tail(q) \in Seq(Entries) /\ Len(Tail(q)) = Len(q) - 1
           /\ \A i \in 1 .. Len(q) - 1 : Tail(q)[i] = q[i + 1]
           /\ WithAt(q, Tail(q), Head(q), 1)
<1>1. /\ Head(q) \in Entries /\ Tail(q) \in Seq(Entries) /\ Len(Tail(q)) = Len(q) - 1
      /\ \A i \in 1 .. Len(Tail(q)) : Tail(q)[i] = q[i + 1]
  BY HeadTailProperties
<1>2. Len(q) \in Nat /\ Len(q) > 0 /\ Head(q) = q[1]
  OBVIOUS
<1>3. ASSUME NEW i \in 1 .. Len(q) PROVE i > 1 => Tail(q)[i - 1] = q[i]
  <2>1. i > 1 => i - 1 \in 1 .. Len(Tail(q)) /\ (i - 1) + 1 = i
    BY <1>1, <1>2
  <2> QED
    BY <1>1, <2>1
<1> QED
  BY <1>1, <1>2, <1>3 DEF WithAt

LEMMA EntryTypes ==
    ASSUME NEW q \in Seq(Entries)
    PROVE  /\ Len(q) \in Nat /\ DOMAIN q = 1 .. Len(q)
           /\ \A i \in 1 .. Len(q) : q[i] \in Entries /\ q[i].when \in Int /\ q[i].type \in IntType
<1>1. Len(q) \in Nat /\ DOMAIN q = 1 .. Len(q) /\ \A i \in 1 .. Len(q) : q[i] \in Entries
  BY LenProperties, ElementOfSeq
<1> QED
  BY <1>1 DEF Entries

LEMMA InsertOrder ==
    ASSUME NEW q \in Seq(Entries), NEW e \in Entries, InOrder(q)
    PROVE  InOrder(SortedInsert(q, e))
<1> DEFINE r == SortedInsert(q, e)
<1>1. PICK at \in 1 .. Len(q) + 1 : WithAt(r, q, e, at) /\ Placed(q, e, at)
  BY Inserted
<1> HIDE DEF r
<1>2. Len(q) \in Nat /\ e.when \in Int /\ \A i \in 1 .. Len(q) : q[i].when \in Int
  BY EntryTypes DEF Entries
<1>3. ASSUME NEW i \in 1 .. Len(q), NEW j \in 1 .. Len(q), i <= j PROVE q[i].when <= q[j].when
  BY <1>2, <1>3 DEF InOrder
<1>4. ASSUME NEW i \in at .. Len(q) PROVE e.when < q[i].when
  <2>1. at \in 1 .. Len(q) /\ i \in 1 .. Len(q) /\ at <= i
    BY <1>2
  <2> QED
    BY <1>1, <1>2, <1>3, <2>1 DEF Placed
<1>5. ASSUME NEW i \in 1 .. Len(r), NEW j \in 1 .. Len(r), i < j
      PROVE  r[i].when <= r[j].when
  <2>1. /\ i \in 1 .. Len(q) + 1 /\ j \in 1 .. Len(q) + 1
        /\ r[i] = IF i < at THEN q[i] ELSE IF i = at THEN e ELSE q[i - 1]
        /\ r[j] = IF j < at THEN q[j] ELSE IF j = at THEN e ELSE q[j - 1]
    BY <1>1 DEF WithAt
  <2>2. CASE j < at
    BY <1>2, <1>3, <1>5, <2>1, <2>2
  <2>3. CASE j = at
    BY <1>1, <1>2, <1>5, <2>1, <2>3 DEF Placed
  <2>4. CASE j > at /\ i < at
    <3>1. i \in 1 .. Len(q) /\ j - 1 \in 1 .. Len(q) /\ i <= j - 1
      BY <1>2, <2>1, <2>4
    <3> QED
      BY <1>3, <2>1, <2>4, <3>1
  <2>5. CASE j > at /\ i = at
    BY <1>2, <1>4, <1>5, <2>1, <2>5
  <2>6. CASE j > at /\ i > at
    BY <1>2, <1>3, <1>5, <2>1, <2>6
  <2>7. (j < at) \/ (j = at) \/ (j > at /\ i < at) \/ (j > at /\ i = at) \/ (j > at /\ i > at)
    BY <1>2, <2>1
  <2> QED
    BY <2>2, <2>3, <2>4, <2>5, <2>6, <2>7
<1> QED
  BY <1>5 DEF InOrder, r

(* What is on the list afterwards was there before, or is the new entry.     *)
LEMMA InsertMembers ==
    ASSUME NEW q \in Seq(Entries), NEW e \in Entries
    PROVE  /\ SortedInsert(q, e) \in Seq(Entries)
           /\ \A i \in 1 .. Len(SortedInsert(q, e)) :
                \/ SortedInsert(q, e)[i] = e
                \/ \E j \in 1 .. Len(q) : SortedInsert(q, e)[i] = q[j]
<1> DEFINE r == SortedInsert(q, e)
<1>1. PICK at \in 1 .. Len(q) + 1 : WithAt(r, q, e, at)
  BY Inserted
<1> HIDE DEF r
<1>2. ASSUME NEW i \in 1 .. Len(r) PROVE r[i] = e \/ \E j \in 1 .. Len(q) : r[i] = q[j]
  <2>1. Len(q) \in Nat /\ i \in 1 .. Len(q) + 1
    BY <1>1, EntryTypes DEF WithAt
  <2>2. r[i] = IF i < at THEN q[i] ELSE IF i = at THEN e ELSE q[i - 1]
    BY <1>1, <2>1 DEF WithAt
  <2>3. (i < at /\ i \in 1 .. Len(q)) \/ (i = at) \/ (i > at /\ i - 1 \in 1 .. Len(q))
    BY <2>1
  <2> QED
    BY <2>2, <2>3
<1> QED
  BY <1>1, <1>2 DEF WithAt, r

(* The clock moves all entries alike.                                        *)
LEMMA Advanced ==
    ASSUME NEW q \in Seq(Entries), NEW d \in Int
    PROVE  /\ Advance(q, d) \in Seq(Entries) /\ Len(Advance(q, d)) = Len(q)
           /\ \A i \in 1 .. Len(q) : /\ Advance(q, d)[i].type = q[i].type
                                     /\ Advance(q, d)[i].when = q[i].when - d
<1>1. /\ Len(q) \in Nat /\ DOMAIN q = 1 .. Len(q)
      /\ \A i \in 1 .. Len(q) : q[i] \in Entries /\ q[i].when \in Int
  BY EntryTypes
<1>2. \A x \in Entries : /\ [x EXCEPT !.when = @ - d] \in Entries
                         /\ [x EXCEPT !.when = @ - d].type = x.type
                         /\ [x EXCEPT !.when = @ - d].when = x.when - d
  BY DEF Entries
<1>3. Advance(q, d) = [i \in 1 .. Len(q) |-> [q[i] EXCEPT !.when = @ - d]]
  BY <1>1 DEF Advance
<1>4. Advance(q, d) \in [1 .. Len(q) -> Entries]
  BY <1>1, <1>2, <1>3
<1>5. Advance(q, d) \in Seq(Entries) /\ Len(Advance(q, d)) = Len(q)
  BY <1>1, <1>4, SeqDef
<1> QED
  BY <1>1, <1>2, <1>3, <1>5

LEMMA AdvanceOrder ==
    ASSUME NEW q \in Seq(Entries), NEW d \in Int, InOrder(q)
    PROVE  InOrder(Advance(q, d))
<1> DEFINE r == Advance(q, d)
<1>1. Len(r) = Len(q) /\ \A i \in 1 .. Len(q) : r[i].when = q[i].when - d /\ q[i].when \in Int
  BY Advanced, EntryTypes
<1> HIDE DEF r
<1>2. \A i, j \in 1 .. Len(q) : i < j => r[i].when <= r[j].when
  BY <1>1 DEF InOrder
<1> QED
  BY <1>1, <1>2 DEF InOrder, r

LEMMA TailOrder ==
    ASSUME NEW q \in Seq(Entries), q # <<>>, InOrder(q)
    PROVE  InOrder(Tail(q))
<1>1. \A i \in 1 .. Len(Tail(q)) : i + 1 \in 1 .. Len(q) /\ Tail(q)[i] = q[i + 1]
  BY Behead, EntryTypes
<1> QED
  BY <1>1 DEF InOrder

-----------------------------------------------------------------------------
(* Counting what is on it.                                                   *)
INSTANCE FiniteSetTheorems

LEMMA CountWith ==
    ASSUME NEW q \in Seq(Entries), NEW r, NEW e \in Entries, NEW at \in 1 .. Len(q) + 1,
           WithAt(r, q, e, at), NEW ty
    PROVE  Count(r, ty) = Count(q, ty) + (IF e.type = ty THEN 1 ELSE 0)
<1> DEFINE S == Places(q, ty)
           T == Places(r, ty)
           f == [i \in S |-> IF i < at THEN i ELSE i + 1]
<1>1. Len(q) \in Nat /\ Len(r) = Len(q) + 1
  BY EntryTypes DEF WithAt
<1>2. \A i \in 1 .. Len(q) : i \in S <=> q[i].type = ty
  BY DEF Places
<1>3. \A i \in 1 .. Len(q) + 1 :
        i \in T <=> (IF i < at THEN q[i] ELSE IF i = at THEN e ELSE q[i - 1]).type = ty
  BY <1>1 DEF Places, WithAt
<1>4. S \subseteq 1 .. Len(q) /\ T \subseteq 1 .. Len(q) + 1
  BY <1>1 DEF Places
<1>5. IsFiniteSet(S) /\ IsFiniteSet(T) /\ Cardinality(S) \in Nat
  <2>1. IsFiniteSet(1 .. Len(q)) /\ IsFiniteSet(1 .. Len(q) + 1)
    BY <1>1, FS_Interval
  <2> QED
    BY <1>4, <2>1, FS_Subset, FS_CardinalityType
<1> HIDE DEF S, T
<1>6. f \in [S -> T \ {at}]
  BY <1>1, <1>2, <1>3, <1>4
<1>7. \A i, j \in S : f[i] = f[j] => i = j
  BY <1>1, <1>4
<1>8. ASSUME NEW j \in T \ {at} PROVE \E i \in S : f[i] = j
  <2>1. CASE j < at
    <3>1. j \in S
      BY <1>1, <1>2, <1>3, <1>4, <2>1
    <3> QED
      BY <2>1, <3>1
  <2>2. CASE j > at
    <3>1. j - 1 \in S /\ ~(j - 1 < at) /\ (j - 1) + 1 = j
      BY <1>1, <1>2, <1>3, <1>4, <2>2
    <3> QED
      BY <3>1
  <2> QED
    BY <1>1, <1>4, <2>1, <2>2
<1> HIDE DEF f
<1>9. f \in Bijection(S, T \ {at})
  BY <1>6, <1>7, <1>8 DEF Bijection, Injection, Surjection, IsInjective
<1>10. Cardinality(T \ {at}) = Cardinality(S)
  BY <1>5, <1>9, FS_Bijection DEF ExistsBijection
<1>11. at \in T <=> e.type = ty
  BY <1>1, <1>3
<1>12. Cardinality(T \ {at}) = IF at \in T THEN Cardinality(T) - 1 ELSE Cardinality(T)
  BY <1>5, FS_RemoveElement
<1>13. Cardinality(T) \in Nat
  BY <1>5, FS_CardinalityType
<1>14. Cardinality(T) = Cardinality(S) + (IF e.type = ty THEN 1 ELSE 0)
  BY <1>5, <1>10, <1>11, <1>12, <1>13
<1> QED
  BY <1>14 DEF Count, S, T

LEMMA CountInsert ==
    ASSUME NEW q \in Seq(Entries), NEW e \in Entries, NEW ty
    PROVE  Count(SortedInsert(q, e), ty) = Count(q, ty) + (IF e.type = ty THEN 1 ELSE 0)
BY Inserted, CountWith

LEMMA CountTail ==
    ASSUME NEW q \in Seq(Entries), q # <<>>, NEW ty
    PROVE  Count(q, ty) = Count(Tail(q), ty) + (IF Head(q).type = ty THEN 1 ELSE 0)
<1>1. /\ Tail(q) \in Seq(Entries) /\ Head(q) \in Entries /\ WithAt(q, Tail(q), Head(q), 1)
  BY Behead
<1>2. ASSUME NEW t \in Seq(Entries), NEW h \in Entries, WithAt(q, t, h, 1)
      PROVE  Count(q, ty) = Count(t, ty) + (IF h.type = ty THEN 1 ELSE 0)
  <2>1. 1 \in 1 .. Len(t) + 1
    BY EntryTypes
  <2> QED
    BY <1>2, <2>1, CountWith
<1> QED
  BY <1>1, <1>2

LEMMA CountAdvance ==
    ASSUME NEW q \in Seq(Entries), NEW d \in Int, NEW ty
    PROVE  Count(Advance(q, d), ty) = Count(q, ty)
<1>1. Places(Advance(q, d), ty) = Places(q, ty)
  BY Advanced DEF Places
<1> QED
  BY <1>1 DEF Count

LEMMA CountNat ==
    ASSUME NEW q \in Seq(Entries), NEW ty
    PROVE  Count(q, ty) \in Nat
<1>1. IsFiniteSet(1 .. Len(q))
  BY EntryTypes, FS_Interval
<1>2. IsFiniteSet(Places(q, ty))
  BY <1>1, FS_Subset DEF Places
<1> QED
  BY <1>2, FS_CardinalityType DEF Count

LEMMA CountNone ==
    ASSUME NEW q \in Seq(Entries), NEW ty, \A i \in 1 .. Len(q) : q[i].type # ty
    PROVE  Count(q, ty) = 0
<1>1. Places(q, ty) = {}
  BY DEF Places
<1> QED
  BY <1>1, FS_EmptySet DEF Count

LEMMA PutBackKeeps ==
    ASSUME NEW q \in Seq(Entries), InOrder(q)
    PROVE  /\ PutBack(q) \in Seq(Entries) /\ InOrder(PutBack(q))
           /\ \A i \in 1 .. Len(PutBack(q)) : \E j \in 1 .. Len(q) : PutBack(q)[i] = q[j]
           /\ \A ty : Count(PutBack(q), ty) = Count(q, ty)
<1>1. CASE q = <<>>
  BY <1>1 DEF PutBack
<1>2. CASE q # <<>>
  <2>1. /\ Head(q) \in Entries /\ Head(q) = q[1] /\ 1 \in 1 .. Len(q)
        /\ Tail(q) \in Seq(Entries) /\ InOrder(Tail(q))
        /\ \A i \in 1 .. Len(Tail(q)) : i + 1 \in 1 .. Len(q) /\ Tail(q)[i] = q[i + 1]
    BY <1>2, Behead, TailOrder, EntryTypes
  <2> DEFINE t == Tail(q)
             h == Head(q)
  <2>2. PutBack(q) = SortedInsert(t, h)
    BY <1>2 DEF PutBack
  <2>3. \A ty : Count(q, ty) = Count(t, ty) + (IF h.type = ty THEN 1 ELSE 0)
    BY <1>2, CountTail
  <2> HIDE DEF t, h
  <2>4. t \in Seq(Entries) /\ h \in Entries /\ InOrder(t)
    BY <2>1 DEF t, h
  <2>5. /\ PutBack(q) \in Seq(Entries) /\ InOrder(PutBack(q))
        /\ \A i \in 1 .. Len(PutBack(q)) :
            PutBack(q)[i] = h \/ \E j \in 1 .. Len(t) : PutBack(q)[i] = t[j]
    <3>1. /\ SortedInsert(t, h) \in Seq(Entries)
          /\ \A i \in 1 .. Len(SortedInsert(t, h)) :
                \/ SortedInsert(t, h)[i] = h
                \/ \E j \in 1 .. Len(t) : SortedInsert(t, h)[i] = t[j]
      BY <2>4, InsertMembers
    <3>2. InOrder(SortedInsert(t, h))
      BY <2>4, InsertOrder
    <3> QED
      BY <2>2, <3>1, <3>2
  <2>6. \A i \in 1 .. Len(PutBack(q)) : \E j \in 1 .. Len(q) : PutBack(q)[i] = q[j]
    BY <2>1, <2>5 DEF t, h
  <2>7. \A ty : Count(PutBack(q), ty) = Count(q, ty)
    BY <2>2, <2>3, <2>4, CountInsert
  <2> QED
    BY <2>5, <2>6, <2>7
<1> QED
  BY <1>1, <1>2

LEMMA ListFactsHold == ListFacts
<1>1. EntryFact
  BY EntryTypes, CountNat, CountNone DEF EntryFact
<1>2. TailFact
  BY Behead, TailOrder, CountTail DEF TailFact
<1>3. InsertFact
  BY InsertMembers, InsertOrder, CountInsert DEF InsertFact, HasMore
<1>4. AdvanceFact
  BY Advanced, AdvanceOrder, CountAdvance DEF AdvanceFact, Moved
<1>5. PutBackFact
  BY PutBackKeeps DEF PutBackFact, Same
<1> QED
  BY <1>1, <1>2, <1>3, <1>4, <1>5 DEF ListFacts

-----------------------------------------------------------------------------
(* IInv holds in every state of the machine, for any number of threads and   *)
(* devices and any times.                                                    *)
THEOREM Inductive == Spec => []IInv
<1>1. Init => IInv
  BY ListFactsHold, InitIInv
<1>2. IInv /\ [Next]_vars => IInv'
  BY ListFactsHold, NextIInv
<1> QED
  BY <1>1, <1>2, PTL DEF Spec

(* The pending list is in the order of its times and no interrupt is overdue *)
(* when a thread's code runs or Sleep looks for a thread (CheckIfDue,        *)
(* OneTick, Idle, SortedInsert).                                             *)
THEOREM PendingAlwaysRight == Spec => []PendingRight
<1>1. IInv => PendingRight
  BY ListFactsHold, IInvGives
<1> QED
  BY <1>1, Inductive, PTL

(* The machine status is that of the code that runs, a request for a time    *)
(* slice does not outlive its tick, and the machine stops only when all      *)
(* threads sleep and only the timer is pending (OneTick, Idle, Sleep).       *)
THEOREM StatusAlwaysRight == Spec => []StatusRight
<1>1. IInv => StatusRight
  BY ListFactsHold, IInvGives
<1> QED
  BY <1>1, Inductive, PTL

(* No interrupt is lost or doubled: a device with a request in progress has  *)
(* exactly one on the list, and no step changes how many the timer and the   *)
(* console poll have (Schedule, CheckIfDue, SortedInsert).                   *)
THEOREM NothingEverLost == Spec => NothingLost
<1>1. IInv => \A ty : Scheduled(ty) = Count(pending, ty)
  BY ListFactsHold, IInvGives
<1>2. IInv => \A d \in Device : Scheduled(d) = IF d \in busy THEN 1 ELSE 0
  BY ListFactsHold, IInvGives
<1>3. IInv' => (\A ty : Scheduled(ty) = Count(pending, ty))'
  BY <1>1, PTL
<1>4. IInv /\ IInv' /\ [Next]_vars => [\A ty \in Recurring : Scheduled(ty)' = Scheduled(ty)]_vars
  BY ListFactsHold, NextIInv, <1>1, <1>3
<1> QED
  BY <1>2, <1>4, Inductive, PTL DEF Spec, NothingLost
=============================================================================
