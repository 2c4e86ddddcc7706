------------------------------ MODULE Threads ------------------------------
(***************************************************************************)
(* The thread system of Nachos: Thread, Scheduler and Semaphore            *)
(* (threads/thread.cc, scheduler.cc, synch.cc) on one simulated CPU        *)
(* (machine/interrupt.cc).                                                 *)
(*                                                                         *)
(* The kernel is a uniprocessor: a routine that turned interrupts off runs *)
(* alone until it turns them on again or goes to sleep.  Each action below *)
(* is one such uninterrupted stretch.  The program of a thread is          *)
(* arbitrary: at every point where its interrupts are on it may call any   *)
(* kernel operation.                                                       *)
(*                                                                         *)
(* The pending-interrupt list is abstracted to the set of devices that     *)
(* have a completion interrupt scheduled; a due interrupt is delivered at  *)
(* any tick (a tick ends every kernel routine) or when the CPU idles.      *)
(***************************************************************************)
EXTENDS Naturals, Sequences, FiniteSets, Functions

CONSTANTS
    Thread,        \* addresses of Thread objects
    Main,          \* the thread that Initialize() turns main() into
    Sem,           \* the semaphores
    Device,        \* the semaphores that a device interrupt handler Vs
    initialValue,  \* the second argument of each Semaphore's constructor
    Timer,         \* TRUE when the time-slice timer runs (option -rs)
    MaxValue,      \* bound: the largest value a semaphore reaches
    NULL

ASSUME ThreadsAssumption ==
    /\ IsFiniteSet(Thread) /\ Main \in Thread /\ NULL \notin Thread
    /\ NULL \notin Sem /\ Device \subseteq Sem
    /\ initialValue \in [Sem -> Nat]
    /\ Timer \in BOOLEAN
    /\ MaxValue \in Nat

VARIABLES
    currentThread,        \* the thread that holds the CPU
    status,               \* Thread::status
    readyList,            \* Scheduler::readyList
    threadToBeDestroyed,  \* the finished thread whose carcass is not deleted
    phase,                \* what the stack of a thread says of its life
    inP,                  \* the semaphore whose P() is on the thread's stack
    value,                \* Semaphore::value
    queue,                \* Semaphore::queue
    pending,              \* the devices with a scheduled interrupt
    idleMode,             \* Interrupt::Idle has delivered an interrupt
    halted                \* Interrupt::Halt was called

threadVars == <<currentThread, status, readyList, threadToBeDestroyed, phase>>
semVars == <<inP, value, queue>>
machineVars == <<pending, idleMode, halted>>
vars == <<threadVars, semVars, machineVars>>

ThreadStatus == {"JUST_CREATED", "RUNNING", "READY", "BLOCKED"}

(* none: no such object.  fresh: forked, never dispatched; its first         *)
(* dispatch enters ThreadRoot and not the code after SWITCH.                 *)
Phase == {"none", "fresh", "live", "finished"}

TypeOK ==
    /\ currentThread \in Thread
    /\ status \in [Thread -> ThreadStatus]
    /\ readyList \in Seq(Thread)
    /\ threadToBeDestroyed \in Thread \cup {NULL}
    /\ phase \in [Thread -> Phase]
    /\ inP \in [Thread -> Sem \cup {NULL}]
    /\ value \in [Sem -> Nat]
    /\ queue \in [Sem -> Seq(Thread)]
    /\ pending \in SUBSET Device
    /\ idleMode \in BOOLEAN
    /\ halted \in BOOLEAN

Init ==
    /\ currentThread = Main
    /\ status = [t \in Thread |-> IF t = Main THEN "RUNNING" ELSE "JUST_CREATED"]
    /\ readyList = <<>>
    /\ threadToBeDestroyed = NULL
    /\ phase = [t \in Thread |-> IF t = Main THEN "live" ELSE "none"]
    /\ inP = [t \in Thread |-> NULL]
    /\ value = initialValue
    /\ queue = [s \in Sem |-> <<>>]
    /\ pending = {}
    /\ idleMode = FALSE
    /\ halted = FALSE

-----------------------------------------------------------------------------
(* The CPU executes t's own code with interrupts on. *)
Runs(t) ==
    /\ ~halted
    /\ t = currentThread
    /\ status[t] = "RUNNING"
    /\ inP[t] = NULL

(* The CPU is in the loop of Thread::Sleep, on the stack of currentThread. *)
InSleep == ~halted /\ status[currentThread] # "RUNNING"

(* Threads that a V took off the queue of s and that have not yet tested the *)
(* value again.                                                              *)
Woken(s) == {t \in Thread : inP[t] = s /\ status[t] # "BLOCKED"}

(* Scheduler::Run(next), with st the statuses it starts from.  Only a thread *)
(* that was switched out before comes back behind SWITCH and deletes the     *)
(* carcass; a fresh one starts at ThreadRoot.                                *)
Run(next, st) ==
    LET dead == IF phase[next] = "fresh" THEN {} ELSE {threadToBeDestroyed} \ {NULL}
    IN  /\ currentThread' = next
        /\ status' = [u \in Thread |-> IF u = next THEN "RUNNING"
                                       ELSE IF u \in dead THEN "JUST_CREATED"
                                       ELSE st[u]]
        /\ phase' = [u \in Thread |-> IF u = next THEN "live"
                                      ELSE IF u \in dead THEN "none"
                                      ELSE phase[u]]
        /\ threadToBeDestroyed' =
               IF phase[next] = "fresh" THEN threadToBeDestroyed ELSE NULL

(* new Thread(...) followed by Thread::Fork. *)
Fork(t, u) ==
    /\ Runs(t)
    /\ phase[u] = "none"
    /\ phase' = [phase EXCEPT ![u] = "fresh"]
    /\ status' = [status EXCEPT ![u] = "READY"]
    /\ readyList' = Append(readyList, u)
    /\ UNCHANGED <<currentThread, threadToBeDestroyed, semVars, machineVars>>

(* The body of Thread::Yield when another thread is ready; with an empty     *)
(* ready list Yield changes nothing.                                         *)
SwitchToNext(t) ==
    /\ readyList # <<>>
    /\ readyList' = Append(Tail(readyList), t)
    /\ Run(Head(readyList), [status EXCEPT ![t] = "READY"])
    /\ UNCHANGED <<semVars, machineVars>>

Yield(t) == Runs(t) /\ SwitchToNext(t)

(* TimerInterruptHandler asks for a yield, OneTick performs it. *)
TimeSlice(t) == Timer /\ Runs(t) /\ SwitchToNext(t)

(* Mutant: Finish leaves interrupts on, and is preempted before Sleep. *)
FinishPreempted(t) ==
    /\ Runs(t)
    /\ threadToBeDestroyed' = t
    /\ UNCHANGED <<currentThread, status, readyList, phase, semVars, machineVars>>

(* Thread::Finish up to the loop of Sleep. *)
Finish(t) ==
    /\ Runs(t)
    /\ threadToBeDestroyed' = t
    /\ phase' = [phase EXCEPT ![t] = "finished"]
    /\ status' = [status EXCEPT ![t] = "BLOCKED"]
    /\ UNCHANGED <<currentThread, readyList, semVars, machineVars>>

(* The rest of Thread::Sleep once a thread is ready. *)
Dispatch ==
    /\ InSleep
    /\ readyList # <<>>
    /\ readyList' = Tail(readyList)
    /\ Run(Head(readyList), status)
    /\ idleMode' = FALSE
    /\ UNCHANGED <<semVars, pending, halted>>

-----------------------------------------------------------------------------
(* One pass through the loop of Semaphore::P, from the call or from the      *)
(* return of Sleep: queue up and sleep, or take one unit and return.         *)
PSleep(t, s) ==
    /\ value[s] = 0
    /\ queue' = [queue EXCEPT ![s] = Append(@, t)]
    /\ inP' = [inP EXCEPT ![t] = s]
    /\ status' = [status EXCEPT ![t] = "BLOCKED"]
    /\ UNCHANGED value

(* Mutant: P returns without the decrement. *)
PTakeKeepsUnit(t, s) ==
    /\ value[s] > 0
    /\ inP' = [inP EXCEPT ![t] = NULL]
    /\ UNCHANGED <<value, queue, status>>

PTake(t, s) ==
    /\ value[s] > 0
    /\ value' = [value EXCEPT ![s] = @ - 1]
    /\ inP' = [inP EXCEPT ![t] = NULL]
    /\ UNCHANGED <<queue, status>>

P(t, s) ==
    /\ ~halted
    /\ t = currentThread
    /\ status[t] = "RUNNING"
    /\ inP[t] \in {NULL, s}
    /\ PSleep(t, s) \/ PTake(t, s)
    /\ UNCHANGED <<currentThread, readyList, threadToBeDestroyed, phase, machineVars>>

(* Bound: no V beyond MaxValue, counting the V a pending interrupt owes. *)
Room(s) == value[s] + (IF s \in pending THEN 1 ELSE 0) < MaxValue

(* Mutant: V wakes a thread only when the value was zero. *)
VBodyFromZero(s) ==
    /\ value' = [value EXCEPT ![s] = @ + 1]
    /\ IF queue[s] = <<>> \/ value[s] > 0
       THEN UNCHANGED <<queue, status, readyList>>
       ELSE /\ queue' = [queue EXCEPT ![s] = Tail(@)]
            /\ status' = [status EXCEPT ![Head(queue[s])] = "READY"]
            /\ readyList' = Append(readyList, Head(queue[s]))
    /\ UNCHANGED <<currentThread, threadToBeDestroyed, phase, inP>>

(* The body of Semaphore::V: the head of the queue, if any, becomes ready,   *)
(* and the value grows in either case.                                       *)
VBody(s) ==
    /\ value' = [value EXCEPT ![s] = @ + 1]
    /\ IF queue[s] = <<>>
       THEN UNCHANGED <<queue, status, readyList>>
       ELSE /\ queue' = [queue EXCEPT ![s] = Tail(@)]
            /\ status' = [status EXCEPT ![Head(queue[s])] = "READY"]
            /\ readyList' = Append(readyList, Head(queue[s]))
    /\ UNCHANGED <<currentThread, threadToBeDestroyed, phase, inP>>

V(t, s) == Runs(t) /\ Room(s) /\ VBody(s) /\ UNCHANGED machineVars

-----------------------------------------------------------------------------
(* A driver starts the device that will V d; the devices take one request    *)
(* at a time.                                                                *)
StartIO(t, d) ==
    /\ Runs(t)
    /\ d \notin pending /\ Room(d)
    /\ pending' = pending \cup {d}
    /\ UNCHANGED <<threadVars, semVars, idleMode, halted>>

(* Mutant: the handler forgets its V. *)
DeviceInterruptNoV(d) ==
    /\ Runs(currentThread)
    /\ d \in pending
    /\ pending' = pending \ {d}
    /\ UNCHANGED <<threadVars, semVars, idleMode, halted>>

(* OneTick finds the interrupt of d due and calls its handler. *)
DeviceInterrupt(d) ==
    /\ Runs(currentThread)
    /\ d \in pending
    /\ pending' = pending \ {d}
    /\ VBody(d)
    /\ UNCHANGED <<idleMode, halted>>

(* Interrupt::Idle, called by Sleep when nobody is ready: the clock jumps to *)
(* the next interrupt, and others due at the same tick follow.               *)
Idle(d) ==
    /\ InSleep
    /\ readyList = <<>> \/ idleMode
    /\ d \in pending
    /\ pending' = pending \ {d}
    /\ VBody(d)
    /\ idleMode' = TRUE
    /\ UNCHANGED halted

(* Mutant: Idle gives up without looking at the pending interrupts. *)
HaltTooEarly ==
    /\ InSleep
    /\ readyList = <<>>
    /\ halted' = TRUE
    /\ UNCHANGED <<threadVars, semVars, pending, idleMode>>

(* Interrupt::Idle without a pending interrupt other than the timer's. *)
Halt ==
    /\ InSleep
    /\ readyList = <<>>
    /\ pending = {}
    /\ halted' = TRUE
    /\ UNCHANGED <<threadVars, semVars, pending, idleMode>>

Next ==
    \/ \E t \in Thread :
        \/ \E u \in Thread : Fork(t, u)
        \/ Yield(t)
        \/ TimeSlice(t)
        \/ Finish(t)
        \/ \E s \in Sem : P(t, s) \/ V(t, s)
        \/ \E d \in Device : StartIO(t, d)
    \/ Dispatch
    \/ \E d \in Device : DeviceInterrupt(d) \/ Idle(d)
    \/ Halt

Spec == Init /\ [][Next]_vars

(* Scheduling that the machine guarantees when the timer runs: a CPU in the  *)
(* kernel goes on; the timer expires again and again (Timer::TimerExpired    *)
(* reschedules itself); and since every tick advances the clock, a scheduled *)
(* device interrupt comes due.                                               *)
Fairness ==
    /\ WF_vars(Dispatch)
    /\ \A t \in Thread : WF_vars(TimeSlice(t))
    /\ \A t \in Thread, s \in Sem : WF_vars(inP[t] = s /\ P(t, s))
    /\ \A d \in Device : SF_vars(DeviceInterrupt(d) \/ Idle(d))

FairSpec == Spec /\ Fairness

-----------------------------------------------------------------------------
(* Every thread is in exactly one place.  The ready list holds exactly the   *)
(* READY threads and the queue of s exactly those blocked in s's P, each     *)
(* once; a BLOCKED thread on no queue has finished; only the current thread  *)
(* is RUNNING.  Fork, Yield, Finish, Sleep, P and V all move threads between *)
(* these lists, and no assertion of the code checks that they agree.         *)
ListsAgree ==
    /\ IsInjective(readyList)
    /\ \A t \in Thread : t \in Range(readyList) <=> status[t] = "READY"
    /\ \A s \in Sem :
        /\ IsInjective(queue[s])
        /\ \A t \in Thread :
            t \in Range(queue[s]) <=> status[t] = "BLOCKED" /\ inP[t] = s

LifeCycle ==
    /\ \A t \in Thread :
        /\ status[t] = "RUNNING" => t = currentThread
        /\ status[t] = "JUST_CREATED" <=> phase[t] = "none"
        /\ phase[t] = "finished" => status[t] = "BLOCKED"
        /\ phase[t] = "fresh" => status[t] = "READY"
        /\ phase[t] # "live" => inP[t] = NULL
        /\ status[t] = "BLOCKED" /\ inP[t] = NULL => phase[t] = "finished"
    /\ phase[currentThread] \in {"live", "finished"}

OnePlace == ListsAgree /\ LifeCycle

(* Scheduler::Run only ever deletes a thread that has finished, and that no  *)
(* list refers to: threadToBeDestroyed never dangles and is never the thread *)
(* about to be dispatched (the ASSERT of Thread::~Thread).                   *)
CarcassIsFinished ==
    threadToBeDestroyed # NULL =>
        /\ phase[threadToBeDestroyed] = "finished"
        /\ threadToBeDestroyed \notin Range(readyList)
        /\ \A s \in Sem : threadToBeDestroyed \notin Range(queue[s])

(* No wakeup is lost: while threads queue on s, every unit of its value has  *)
(* a woken thread on its way to test it again.  P re-tests the value in a    *)
(* loop, so a thread that barges in between V and the woken thread's turn    *)
(* must not leave a unit that nobody comes to take.                          *)
NoLostWakeup ==
    \A s \in Sem : queue[s] # <<>> => value[s] <= Cardinality(Woken(s))

(* The machine gives up (Interrupt::Idle, "Assuming the program completed")  *)
(* only when no thread could go on: every thread that has not finished is    *)
(* queued on a semaphore whose value is zero and that no device is about to  *)
(* signal.                                                                   *)
HaltMeansStuck ==
    halted =>
        \A t \in Thread :
            \/ phase[t] \in {"none", "finished"}
            \/ \E s \in Sem \ pending : t \in Range(queue[s]) /\ value[s] = 0

(* With the timer, a ready thread gets the CPU: Yield and time slices put    *)
(* the running thread at the end of the list and take the next at its head.  *)
ReadyRuns == \A t \in Thread : status[t] = "READY" ~> status[t] = "RUNNING"

(* The thread at the head of a device's queue runs after the interrupt of    *)
(* the request in progress, whether that comes while others run or while the *)
(* CPU idles on the sleeper's own stack.                                     *)
IOCompletes ==
    \A t \in Thread, d \in Device :
        (queue[d] # <<>> /\ Head(queue[d]) = t /\ d \in pending)
            ~> status[t] = "RUNNING"

(* The lists and statuses of the scheduler agree and a carcass can be        *)
(* deleted, together with the types of the variables.                        *)
ThreadsAccounted == TypeOK /\ OnePlace /\ CarcassIsFinished

(* Threads that can go on do: the ready ones, and those that wait for a      *)
(* device at work.                                                           *)
ThreadsProgress == ReadyRuns /\ IOCompletes

(* The semaphores built from a value, a queue and the ready list behave like *)
(* counting semaphores: a P that found no unit takes one only when the value *)
(* is positive, however the wakeups and the callers interleave.              *)
CS == INSTANCE CountingSemaphore
RefinesSemaphore == CS!Spec
=============================================================================
