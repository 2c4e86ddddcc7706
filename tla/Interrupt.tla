----------------------------- MODULE Interrupt -----------------------------
(***************************************************************************)
(* The simulated machine's clock and interrupt hardware                    *)
(* (machine/interrupt.cc) with the time-slice timer (machine/timer.cc),    *)
(* the sorted list of pending interrupts (threads/list.cc), and the switch *)
(* between user and kernel mode (machine/mipssim.cc, machine.cc).          *)
(*                                                                         *)
(* The clock is relative: an entry of the pending list carries the ticks   *)
(* that are left until it is due, zero or less when it is due.  Threads    *)
(* run arbitrary user and kernel code; which ready thread is dispatched is *)
(* left open here (module Threads has the ready list).                     *)
(***************************************************************************)
EXTENDS Integers, Sequences, FiniteSets

CONSTANTS
    Thread,      \* threads
    Main,        \* the thread that runs first
    Device,      \* devices with one completion interrupt per request
    Delay,       \* ticks from a request to its completion
    PollTicks,   \* period of the console's input poll (ConsoleTime)
    TimerTicks,  \* average time between time slices
    UserTick,    \* clock advance per user instruction
    SystemTick,  \* clock advance per enabling of interrupts
    NULL

ASSUME InterruptAssumption ==
    /\ Main \in Thread
    /\ Device \cap {"TimerInt", "ConsoleReadInt"} = {}
    /\ NULL \notin {"IdleMode", "SystemMode", "UserMode"}
    /\ Delay \in Nat \ {0} /\ PollTicks \in Nat \ {0} /\ TimerTicks \in Nat \ {0}
    /\ UserTick \in Nat \ {0} /\ SystemTick \in Nat \ {0}

VARIABLES
    pending,        \* Interrupt::pending
    busy,           \* devices with a request in progress (Disk::active,
                    \* Console::putBusy)
    level,          \* Interrupt::level
    status,         \* Interrupt::status
    yieldOnReturn,  \* Interrupt::yieldOnReturn
    cpu,            \* run: a thread's code; tick, idle: the loops of OneTick
                    \* and Idle; sleep: the loop of Thread::Sleep; halted
    current,        \* currentThread
    mode,           \* what a thread executes: boot is kernel code that runs
                    \* before Machine::Run
    old,            \* the status saved by the outermost OneTick of a thread
    ready,          \* threads on the ready list
    blocked         \* sleeping threads

threadVars == <<current, mode, old, ready, blocked>>
vars == <<pending, busy, level, status, yieldOnReturn, cpu, threadVars>>

(* The interrupts of the timer and of the console's input poll, which keep   *)
(* themselves going.                                                         *)
Recurring == {"TimerInt", "ConsoleReadInt"}
IntType == Device \cup Recurring
MachineStatus == {"IdleMode", "SystemMode", "UserMode"}

TypeOK ==
    /\ \A i \in DOMAIN pending : pending[i].type \in IntType /\ pending[i].when \in Int
    /\ busy \in SUBSET Device
    /\ level \in {"IntOff", "IntOn"}
    /\ status \in MachineStatus
    /\ yieldOnReturn \in BOOLEAN
    /\ cpu \in {"run", "tick", "idle", "sleep", "halted"}
    /\ current \in Thread
    /\ mode \in [Thread -> {"boot", "user", "kernel"}]
    /\ old \in [Thread -> MachineStatus \cup {NULL}]
    /\ ready \in SUBSET Thread
    /\ blocked \in SUBSET Thread

-----------------------------------------------------------------------------
Entry(t, w) == [type |-> t, when |-> w]

(* List::SortedInsert: in front of the first element with a larger key. *)
SortedInsert(q, e) ==
    LET larger == {i \in DOMAIN q : e.when < q[i].when}
        at == IF larger = {} THEN Len(q) + 1
              ELSE CHOOSE i \in larger : \A j \in larger : i <= j
    IN  SubSeq(q, 1, at - 1) \o <<e>> \o SubSeq(q, at, Len(q))

(* Timer::TimeOfNextInterrupt; Initialize only creates a randomised timer. *)
TimeOfNextInterrupt == 1 .. 2 * TimerTicks

(* The clock advances by d. *)
Advance(q, d) == [i \in DOMAIN q |-> [q[i] EXCEPT !.when = @ - d]]

(* The constructors of Timer (option -rs) and Console, if the machine has    *)
(* them, schedule their first interrupt.                                     *)
Start(timer, console) ==
    LET q == IF console THEN <<Entry("ConsoleReadInt", PollTicks)>> ELSE <<>>
    IN  IF timer
        THEN {SortedInsert(q, Entry("TimerInt", n)) : n \in TimeOfNextInterrupt}
        ELSE {q}

Init ==
    /\ \E timer, console \in BOOLEAN : pending \in Start(timer, console)
    /\ busy = {}
    /\ level = "IntOn"
    /\ status = "SystemMode"
    /\ yieldOnReturn = FALSE
    /\ cpu = "run"
    /\ current = Main
    /\ mode = [t \in Thread |-> "boot"]
    /\ old = [t \in Thread |-> NULL]
    /\ ready = Thread \ {Main}
    /\ blocked = {}

-----------------------------------------------------------------------------
(* The CPU executes the program, or kernel code, of the current thread; a    *)
(* thread with a saved status is inside OneTick.                             *)
InUser == cpu = "run" /\ old[current] = NULL /\ mode[current] = "user"
InKernel == cpu = "run" /\ old[current] = NULL /\ mode[current] # "user"

(* The first half of Interrupt::OneTick; st is the status it finds. *)
BeginTick(st) ==
    /\ pending' = Advance(pending, IF st = "SystemMode" THEN SystemTick ELSE UserTick)
    /\ level' = "IntOff"
    /\ cpu' = "tick"
    /\ UNCHANGED busy

(* Machine::Run executes an instruction of the program and calls OneTick. *)
UserInstruction ==
    /\ InUser
    /\ BeginTick(status)
    /\ old' = [old EXCEPT ![current] = status]
    /\ UNCHANGED <<status, yieldOnReturn, current, mode, ready, blocked>>

(* Machine::Run, called by StartProcess. *)
EnterUser ==
    /\ InKernel /\ level = "IntOn" /\ mode[current] = "boot"
    /\ mode' = [mode EXCEPT ![current] = "user"]
    /\ status' = "UserMode"
    /\ UNCHANGED <<pending, busy, level, yieldOnReturn, cpu, current, old, ready, blocked>>

(* Machine::RaiseException, up to the exception handler. *)
Trap ==
    /\ InUser
    /\ mode' = [mode EXCEPT ![current] = "kernel"]
    /\ status' = "SystemMode"
    /\ UNCHANGED <<pending, busy, level, yieldOnReturn, cpu, current, old, ready, blocked>>

(* The return of RaiseException, and the OneTick that follows it. *)
ReturnToUser ==
    /\ InKernel /\ level = "IntOn" /\ mode[current] = "kernel"
    /\ mode' = [mode EXCEPT ![current] = "user"]
    /\ status' = "UserMode"
    /\ BeginTick("UserMode")
    /\ old' = [old EXCEPT ![current] = "UserMode"]
    /\ UNCHANGED <<yieldOnReturn, current, ready, blocked>>

(* SetLevel(IntOff) in kernel code. *)
Disable ==
    /\ InKernel /\ level = "IntOn"
    /\ level' = "IntOff"
    /\ UNCHANGED <<pending, busy, status, yieldOnReturn, cpu, threadVars>>

(* SetLevel(IntOn) when interrupts are off: in kernel code, at the end of    *)
(* Thread::Yield (inside a OneTick whose old stays on the stack), and in     *)
(* ThreadRoot.                                                               *)
Enable ==
    /\ cpu = "run" /\ level = "IntOff"
    /\ BeginTick(status)
    /\ old' = [old EXCEPT ![current] = IF @ = NULL THEN status ELSE @]
    /\ UNCHANGED <<status, yieldOnReturn, current, mode, ready, blocked>>

(* A driver starts a device, which schedules its completion. *)
Schedule(d) ==
    /\ InKernel
    /\ d \notin busy
    /\ busy' = busy \cup {d}
    /\ pending' = SortedInsert(pending, Entry(d, Delay))
    /\ UNCHANGED <<level, status, yieldOnReturn, cpu, threadVars>>

(* Kernel code goes to sleep. *)
Sleep ==
    /\ InKernel /\ level = "IntOff"
    /\ blocked' = blocked \cup {current}
    /\ cpu' = "sleep"
    /\ UNCHANGED <<pending, busy, level, status, yieldOnReturn, current, mode, old, ready>>

Dispatch ==
    /\ cpu = "sleep"
    /\ \E u \in ready :
        /\ current' = u
        /\ ready' = ready \ {u}
    /\ cpu' = "run"
    /\ UNCHANGED <<pending, busy, level, status, yieldOnReturn, mode, old, blocked>>

-----------------------------------------------------------------------------
(* A handler that calls V: it may find a sleeper. *)
Wake ==
    \/ UNCHANGED <<ready, blocked>>
    \/ \E u \in blocked :
        /\ ready' = ready \cup {u}
        /\ blocked' = blocked \ {u}

(* The handlers, with q the list without the interrupt that fires: the timer *)
(* and the console poll schedule their next interrupt first.  A handler runs *)
(* in SystemMode, so the timer asks for a yield even when the CPU idles.     *)
Handler(type, q) ==
    \/ /\ type = "TimerInt"
       /\ \E n \in TimeOfNextInterrupt : pending' = SortedInsert(q, Entry(type, n))
       /\ yieldOnReturn' = TRUE
       /\ UNCHANGED <<busy, ready, blocked>>
    \/ /\ type = "ConsoleReadInt"
       /\ pending' = SortedInsert(q, Entry(type, PollTicks))
       /\ Wake
       /\ UNCHANGED <<busy, yieldOnReturn>>
    \/ /\ type \in Device
       /\ pending' = q
       /\ busy' = busy \ {type}
       /\ Wake
       /\ UNCHANGED yieldOnReturn

(* CheckIfDue returns FALSE for an idle CPU when only the timer is left.     *)
OnlyTimer(st) == st = "IdleMode" /\ Len(pending) = 1 /\ Head(pending).type = "TimerInt"

(* Whether CheckIfDue(FALSE), or CheckIfDue(TRUE), fires an interrupt. *)
Due == pending # <<>> /\ Head(pending).when <= 0 /\ ~OnlyTimer(status)
DueIdle == pending # <<>> /\ ~OnlyTimer("IdleMode")

(* Mutant: CheckIfDue forgets an interrupt that is not due. *)
PutBackForgotten(q) == IF q = <<>> THEN q ELSE Tail(q)

(* CheckIfDue(FALSE) with an interrupt that is not due takes it off the list *)
(* and puts it back, behind those with the same time.                        *)
PutBack(q) == IF q = <<>> THEN q ELSE SortedInsert(Tail(q), Head(q))

(* CheckIfDue(FALSE) in the loop of OneTick or of Idle. *)
CheckIfDue ==
    /\ cpu \in {"tick", "idle"}
    /\ Due
    /\ Handler(Head(pending).type, Tail(pending))
    /\ UNCHANGED <<level, status, cpu, current, mode, old>>

(* Mutant: OneTick checks once and not in a loop. *)
EndTickOnce ==
    /\ cpu = "tick" /\ ~yieldOnReturn
    /\ pending' = PutBack(pending)
    /\ level' = "IntOn"
    /\ status' = old[current]
    /\ old' = [old EXCEPT ![current] = NULL]
    /\ cpu' = "run"
    /\ UNCHANGED <<busy, yieldOnReturn, current, mode, ready, blocked>>

(* OneTick's loop ends without a time slice. *)
EndTick ==
    /\ cpu = "tick" /\ ~Due /\ ~yieldOnReturn
    /\ pending' = PutBack(pending)
    /\ level' = "IntOn"
    /\ status' = old[current]
    /\ old' = [old EXCEPT ![current] = NULL]
    /\ cpu' = "run"
    /\ UNCHANGED <<busy, yieldOnReturn, current, mode, ready, blocked>>

(* Mutant: the time slice goes back to the thread that was interrupted. *)
TimeSliceSame ==
    /\ cpu = "tick" /\ ~Due /\ yieldOnReturn
    /\ pending' = PutBack(pending)
    /\ yieldOnReturn' = FALSE
    /\ status' = "SystemMode"
    /\ level' = "IntOff"
    /\ cpu' = "run"
    /\ UNCHANGED <<busy, current, ready, mode, old, blocked>>

(* OneTick's loop ends with a time slice: Yield in SystemMode.  The thread   *)
(* that goes on has interrupts off; without another one Yield turns them on  *)
(* at once.                                                                  *)
TimeSlice ==
    /\ cpu = "tick" /\ ~Due /\ yieldOnReturn
    /\ pending' = PutBack(pending)
    /\ yieldOnReturn' = FALSE
    /\ status' = "SystemMode"
    /\ \/ \E u \in ready : current' = u /\ ready' = (ready \ {u}) \cup {current}
       \/ ready = {} /\ UNCHANGED <<current, ready>>
    /\ level' = "IntOff"
    /\ cpu' = "run"
    /\ UNCHANGED <<busy, mode, old, blocked>>

(* Interrupt::Idle, called by Sleep when nobody is ready: the clock jumps to *)
(* the next interrupt.                                                       *)
Idle ==
    /\ cpu = "sleep" /\ ready = {}
    /\ DueIdle
    /\ status' = "IdleMode"
    /\ LET q == Advance(pending, IF Head(pending).when > 0 THEN Head(pending).when ELSE 0)
       IN  Handler(Head(q).type, Tail(q))
    /\ cpu' = "idle"
    /\ UNCHANGED <<level, current, mode, old>>

(* Mutant: Idle returns with the timer's request still set. *)
IdleReturnKeepsYield ==
    /\ cpu = "idle" /\ ~Due
    /\ pending' = PutBack(pending)
    /\ status' = "SystemMode"
    /\ cpu' = "sleep"
    /\ UNCHANGED <<busy, level, yieldOnReturn, threadVars>>

IdleReturn ==
    /\ cpu = "idle" /\ ~Due
    /\ pending' = PutBack(pending)
    /\ yieldOnReturn' = FALSE
    /\ status' = "SystemMode"
    /\ cpu' = "sleep"
    /\ UNCHANGED <<busy, level, threadVars>>

(* Interrupt::Idle with nothing left but the timer. *)
Halt ==
    /\ cpu = "sleep" /\ ready = {}
    /\ ~DueIdle
    /\ status' = "IdleMode"
    /\ cpu' = "halted"
    /\ UNCHANGED <<pending, busy, level, yieldOnReturn, threadVars>>

Next ==
    \/ UserInstruction \/ EnterUser \/ Trap \/ ReturnToUser
    \/ Disable \/ Enable \/ (\E d \in Device : Schedule(d)) \/ Sleep \/ Dispatch
    \/ CheckIfDue \/ EndTick \/ TimeSlice
    \/ Idle \/ IdleReturn \/ Halt

Spec == Init /\ [][Next]_vars

(* The CPU never stops by itself: a program executes its next instruction,   *)
(* kernel code goes on.                                                      *)
FairSpec == Spec /\ WF_vars(Next)

-----------------------------------------------------------------------------
(* The pending list stays in the order of its times, although CheckIfDue     *)
(* takes interrupts off and puts them back and handlers insert while the     *)
(* list is being worked off; only the head is ever looked at.                *)
Sorted ==
    \A i, j \in DOMAIN pending : i < j => pending[i].when <= pending[j].when

(* Whenever a thread's code runs, or Sleep looks for one, all interrupts     *)
(* that came due have been delivered.  The one exception is the timer: an    *)
(* idle CPU that has nothing else left puts it back unserved.                *)
NoneOverdue ==
    cpu \in {"run", "sleep"} =>
        \A i \in DOMAIN pending :
            pending[i].when > 0 \/ (pending[i].type = "TimerInt" /\ pending[i].when = 0)

Scheduled(ty) == Cardinality({i \in DOMAIN pending : pending[i].type = ty})

(* No interrupt is lost or doubled, whatever path CheckIfDue took: a device  *)
(* with a request in progress has exactly one on the list, and the timer and *)
(* the console poll, once started, keep themselves going.                    *)
NothingLost ==
    /\ [](\A d \in Device : Scheduled(d) = IF d \in busy THEN 1 ELSE 0)
    /\ [][\A ty \in Recurring : Scheduled(ty)' = Scheduled(ty)]_vars

(* The machine status tells user from kernel code, for every thread, however *)
(* often it was switched out in OneTick, in Sleep or after Idle: OneTick     *)
(* counts time and Machine::Run relies on it.                                *)
ModeRight ==
    /\ cpu = "run" /\ old[current] = NULL =>
        status = IF mode[current] = "user" THEN "UserMode" ELSE "SystemMode"
    /\ cpu = "sleep" => status = "SystemMode"

(* A request for a time slice is consumed by the tick that made it; one that *)
(* comes while the CPU idles is dropped, so no thread loses its slice to it. *)
NoStaleYield == yieldOnReturn => cpu \in {"tick", "idle"}

(* Idle stops the machine only when every thread sleeps and nothing but the  *)
(* timer could still interrupt; with a console it never does.                *)
HaltsWhenQuiet ==
    cpu = "halted" =>
        /\ blocked = Thread
        /\ \A i \in DOMAIN pending : pending[i].type = "TimerInt"

(* The pending list is in order and worked off in time, whichever routine    *)
(* looks at it (OneTick, Idle and CheckIfDue).                               *)
PendingRight == TypeOK /\ Sorted /\ NoneOverdue

(* The machine is in the mode of the code that runs, owes no time slice, and *)
(* stops only when it must (OneTick and Idle).                               *)
StatusRight == ModeRight /\ NoStaleYield /\ HaltsWhenQuiet

(* With the timer, no thread keeps the CPU while another one is ready, not   *)
(* even one that never enters the kernel.                                    *)
Preempted ==
    \A t \in Thread :
        current = t /\ ready \ {t} # {} /\ Scheduled("TimerInt") = 1 ~> current # t

(* A request in progress completes. *)
InterruptsFire == \A d \in Device : d \in busy ~> d \notin busy

(* Time passes for everybody: slices end and requests complete, although a   *)
(* program may never trap and the CPU may idle (OneTick and Idle).           *)
TimeServes == Preempted /\ InterruptsFire
=============================================================================
