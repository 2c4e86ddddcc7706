------------------------------ MODULE AddrSpace ------------------------------
(***************************************************************************)
(* Address spaces: the constructor that loads a program into frames of     *)
(* main memory (userprog/addrspace.cc, userprog/bitmap.cc), the start of a *)
(* process (userprog/pcb.cc, userprog/progtest.cc), the context switch of  *)
(* the host, of the user registers and of the page table                   *)
(* (threads/scheduler.cc, threads/switch.c) and the end of the process.    *)
(*                                                                         *)
(* The processor is at the current thread.  Threads switch where a P or V  *)
(* turns interrupts on again and between user instructions.  Reads of the  *)
(* program file do not block in the build with the stub file system.       *)
(***************************************************************************)
EXTENDS Loaders, Switch, FiniteSets

CONSTANTS
    Proc,          \* threads that run user programs
    First,         \* the one that StartProcess runs in
    Programs,      \* COFF programs, as the linker script lays them out
    PageSize,
    NumPhysPages,
    UserStackSize,
    NULL

ASSUME AddrSpaceAssumption ==
    /\ First \in Proc
    /\ {PageSize, NumPhysPages} \subseteq Nat \ {0}
    /\ UserStackSize \in Nat

Frames == 0 .. NumPhysPages - 1
Memory == 0 .. NumPhysPages * PageSize - 1
Zero == <<NULL, <<"hole", 0>>>>    \* a byte that is 0

VARIABLES
    marked,       \* gPhysPageBitMap
    addrLock,     \* value of the semaphore addrLock
    mainMemory,   \* a byte of a program with its process, or Zero
    phase,        \* where each thread is
    program,      \* the COFF program of each thread, NULL if the file is missing
    pageTable,    \* AddrSpace::pageTable, as virtual page -> frame
    currentThread,
    machineTable, \* Machine::pageTable
    registers,    \* Machine::registers: the process whose values they hold
    userRegisters, \* Thread::userRegisters, likewise
    host,         \* the processor that Nachos runs on
    memory,       \* the Thread objects and the tops of the stacks of the host
    cpu, pc,      \* host registers and program counter after the last SWITCH
    started,      \* threads that have called SWITCH
    status        \* "running", "halted", or "wild" after a use of garbage

space == <<marked, addrLock, mainMemory, pageTable>>
machine == <<currentThread, machineTable, registers, userRegisters>>
context == <<host, memory, cpu, pc, started>>
vars == <<space, phase, program, machine, context, status>>

-----------------------------------------------------------------------------
DivRoundUp(n, d) == (n + d - 1) \div d

(* BitMap::NumClear, and Find called n times: the n lowest clear frames in   *)
(* order (at most one table).                                                *)
NumClear == Cardinality(Frames \ marked)
FindUnmarked(n) ==
    {table \in [0 .. n - 1 -> Frames \ marked] :
        \A i \in 0 .. n - 1 : \A f \in Frames \ marked : f >= table[i]}
Find(n) ==
    {table \in [0 .. n - 1 -> Frames \ marked] :
        \A i \in 0 .. n - 1 :
            /\ \A j \in 0 .. i - 1 : table[j] < table[i]
            /\ \A f \in Frames \ marked : f < table[i] => \E j \in 0 .. i - 1 : table[j] = f}

(* The size computed from the header. *)
NumPages(noff) ==
    DivRoundUp(noff.code.size + noff.initData.size + noff.uninitData.size + UserStackSize, PageSize)

(* How code and initialized data are laid out over pages. *)
NumCodePage(noff) == DivRoundUp(noff.code.size, PageSize)
LastCodePageSize(noff) == noff.code.size - (NumCodePage(noff) - 1) * PageSize
TempDataSize(noff) == noff.initData.size - (PageSize - LastCodePageSize(noff))
NumDataPage(noff) ==
    IF TempDataSize(noff) < 0 THEN 0 ELSE DivRoundUp(TempDataSize(noff), PageSize)
FirstDataPageSize(noff) ==
    IF TempDataSize(noff) < 0 THEN noff.initData.size ELSE PageSize - LastCodePageSize(noff)
LastDataPageSize(noff) == TempDataSize(noff) - (NumDataPage(noff) - 1) * PageSize

(* The reads of the constructor: how many bytes of the file go from where to *)
(* which place of main memory.                                               *)
CodeReads(noff, table) ==
    {[into |-> noff.code.virtualAddr + table[i] * PageSize,
      numBytes |-> IF i < NumCodePage(noff) - 1 THEN PageSize ELSE LastCodePageSize(noff),
      position |-> noff.code.inFileAddr + i * PageSize] : i \in 0 .. NumCodePage(noff) - 1}
FirstDataReads(noff, table) ==
    IF LastCodePageSize(noff) < PageSize /\ FirstDataPageSize(noff) > 0
    THEN {[into |-> noff.code.virtualAddr + table[NumCodePage(noff) - 1] * PageSize
                        + LastCodePageSize(noff),
           numBytes |-> FirstDataPageSize(noff),
           position |-> noff.initData.inFileAddr]}
    ELSE {}
DataReadsFromStart(noff, table) ==
    {[into |-> noff.code.virtualAddr + table[NumCodePage(noff) + j] * PageSize,
      numBytes |-> IF j < NumDataPage(noff) - 1 THEN PageSize ELSE LastDataPageSize(noff),
      position |-> noff.initData.inFileAddr + j * PageSize] : j \in 0 .. NumDataPage(noff) - 1}
DataReads(noff, table) ==
    {[into |-> noff.code.virtualAddr + table[NumCodePage(noff) + j] * PageSize,
      numBytes |-> IF j < NumDataPage(noff) - 1 THEN PageSize ELSE LastDataPageSize(noff),
      position |-> noff.initData.inFileAddr + j * PageSize + FirstDataPageSize(noff)]
        : j \in 0 .. NumDataPage(noff) - 1}
Reads(noff, table) ==
    CodeReads(noff, table) \cup FirstDataReads(noff, table) \cup DataReads(noff, table)

(* Main memory after the reads; the end of the file cuts a read short. *)
ReadAt(p, noff, reads) ==
    [a \in Memory |->
        LET hits == {r \in reads : /\ a \in r.into .. r.into + r.numBytes - 1
                                   /\ r.position + (a - r.into) < Len(noff.file)}
        IN  IF hits = {} THEN mainMemory[a]
            ELSE LET r == CHOOSE x \in hits : TRUE
                 IN  <<p, noff.file[r.position + (a - r.into) + 1]>>]

-----------------------------------------------------------------------------
Init ==
    /\ marked = {}
    /\ addrLock = 1
    /\ mainMemory = [a \in Memory |-> Zero]
    /\ phase = [p \in Proc |-> IF p = First THEN "new" ELSE "none"]
    /\ \E prog \in Programs \cup {NULL} :
        program = [p \in Proc |-> IF p = First THEN prog ELSE NULL]
    /\ pageTable = [p \in Proc |-> NULL]
    /\ currentThread = First
    /\ machineTable = NULL /\ registers = NULL
    /\ userRegisters = [p \in Proc |-> NULL]
    /\ host \in Hosts
    /\ memory = [x \in {"thread", "stack"} \X Proc |->
                    [o \in IF x[1] = "thread" THEN ObjectOffsets ELSE {0, 4, 8} |-> <<"garbage", x[2]>>]]
    /\ cpu = Own(host, First) /\ pc = <<ReturnAddress(host), First>>
    /\ started = {First}
    /\ status = "running"

Runs(p) == status = "running" /\ currentThread = p

(* PCB::Exec forks a thread for the new process, with a stack of its own. *)
Exec(p, q, prog) ==
    /\ Runs(p) /\ phase[p] = "user" /\ phase[q] = "none"
    /\ phase' = [phase EXCEPT ![q] = "new"]
    /\ program' = [program EXCEPT ![q] = prog]
    /\ memory' = [memory EXCEPT ![<<"thread", q>>] = StackAllocate(host, q),
                                ![<<"stack", q>>] = NewStack(host, q)]
    /\ started' = started \ {q}
    /\ userRegisters' = [userRegisters EXCEPT ![q] = NULL]
    /\ UNCHANGED <<space, currentThread, machineTable, registers, host, cpu, pc, status>>

(* The constructor finds no file and leaves the members as they were when    *)
(* new allocated them, or it reads the header and takes addrLock.            *)
OpenExecutable(p) ==
    /\ Runs(p) /\ phase[p] = "new"
    /\ IF program[p] = NULL
       THEN phase' = [phase EXCEPT ![p] = "garbage"] /\ UNCHANGED addrLock
       ELSE /\ addrLock > 0
            /\ addrLock' = addrLock - 1
            /\ phase' = [phase EXCEPT ![p] = "locked"]
    /\ UNCHANGED <<marked, mainMemory, pageTable, program, machine, context, status>>

(* The critical section up to V: too few clear frames give an address space  *)
(* without pages, otherwise frames are found and cleared.                    *)
Give(p, table) ==
    /\ addrLock' = addrLock + 1
    /\ pageTable' = [pageTable EXCEPT ![p] = table]
    /\ marked' = marked \cup {table[i] : i \in DOMAIN table}
    /\ mainMemory' = [a \in Memory |->
                        IF \E i \in DOMAIN table : a \div PageSize = table[i]
                        THEN Zero ELSE mainMemory[a]]
    /\ phase' = [phase EXCEPT ![p] = IF DOMAIN table = {} THEN "loaded" ELSE "load"]
Allocate(p) ==
    /\ Runs(p) /\ phase[p] = "locked"
    /\ LET n == NumPages(Convert(program[p]))
       IN  \E table \in Find(IF n > NumClear THEN 0 ELSE n) : Give(p, table)
    /\ UNCHANGED <<program, machine, context, status>>

(* The rest of the constructor. *)
Load(p) ==
    LET noff == Convert(program[p])
    IN  /\ Runs(p) /\ phase[p] = "load"
        /\ mainMemory' = ReadAt(p, noff, Reads(noff, pageTable[p]))
        /\ phase' = [phase EXCEPT ![p] = "loaded"]
        /\ UNCHANGED <<marked, addrLock, pageTable, program, machine, context, status>>

(* StartProcess and StartProcess_2 after the constructor: the registers are  *)
(* set, the machine gets the page table, and the first instruction is        *)
(* fetched from page 0.  Without pages that is an address error, which halts *)
(* Nachos; with garbage for a table anything can happen.                     *)
StartProcess(p) ==
    /\ Runs(p) /\ phase[p] \in {"loaded", "garbage"}
    /\ phase' = [phase EXCEPT ![p] = "user"]
    /\ machineTable' = pageTable[p] /\ registers' = p
    /\ status' = CASE phase[p] = "garbage" -> "wild"
                   [] phase[p] = "loaded" /\ DOMAIN pageTable[p] = {} -> "halted"
                   [] OTHER -> "running"
    /\ UNCHANGED <<space, program, currentThread, userRegisters, context>>

(* Scheduler::Run.  A thread that has its space saves the user registers,    *)
(* and gets its registers and its page table back when SWITCH returns to it. *)
DispatchSaving(p, q, saved, table) ==
    LET m == SWITCH(host, p, q, memory)
    IN  /\ currentThread' = q
        /\ memory' = m.memory /\ cpu' = m.cpu /\ pc' = ReturnsTo(host, m)
        /\ started' = started \cup {p}
        /\ userRegisters' = saved
        /\ registers' = IF phase[q] = "user" THEN saved[q] ELSE registers
        /\ machineTable' = table
        /\ UNCHANGED host
SaveUserState(p) ==
    IF phase[p] = "user" THEN [userRegisters EXCEPT ![p] = registers] ELSE userRegisters
RestoreState(q) == IF phase[q] = "user" THEN pageTable[q] ELSE machineTable
Dispatch(p, q) == DispatchSaving(p, q, SaveUserState(p), RestoreState(q))
Run(p, q) ==
    /\ Runs(p) /\ p # q /\ phase[q] # "none"
    /\ Dispatch(p, q)
    /\ UNCHANGED <<space, phase, program, status>>

(* SC_Exit and ~AddrSpace: the page table goes, the frames stay marked.      *)
(* Another thread runs next.                                                 *)
Exit(p, q) ==
    /\ Runs(p) /\ phase[p] = "user" /\ p # q /\ phase[q] # "none"
    /\ phase' = [phase EXCEPT ![p] = "none"]
    /\ pageTable' = [pageTable EXCEPT ![p] = NULL]
    /\ Dispatch(p, q)
    /\ UNCHANGED <<marked, addrLock, mainMemory, program, status>>

Next ==
    \E p \in Proc :
        \/ OpenExecutable(p) \/ Allocate(p) \/ Load(p) \/ StartProcess(p)
        \/ \E q \in Proc :
            \/ Run(p, q) \/ Exit(p, q)
            \/ \E prog \in Programs \cup {NULL} : Exec(p, q, prog)

Spec == Init /\ [][Next]_vars

-----------------------------------------------------------------------------
HasPages(p) == phase[p] \in {"load", "loaded", "user"} /\ pageTable[p] # NULL
FramesOf(p) == {pageTable[p][i] : i \in DOMAIN pageTable[p]}

TypeOK ==
    /\ marked \subseteq Frames
    /\ addrLock \in {0, 1}
    /\ \A p \in Proc : HasPages(p) => FramesOf(p) \subseteq Frames
    /\ currentThread \in Proc

(* No two address spaces share a frame, and no address space uses a frame    *)
(* twice, whatever the threads do around addrLock (addrspace.cc:96-126).     *)
FramesExclusive ==
    /\ \A p \in Proc : HasPages(p) =>
        /\ FramesOf(p) \subseteq marked
        /\ \A i, j \in DOMAIN pageTable[p] : pageTable[p][i] = pageTable[p][j] => i = j
    /\ \A p, q \in Proc : p # q /\ HasPages(p) /\ HasPages(q) => FramesOf(p) \cap FramesOf(q) = {}

(* Frames are handed out once. *)
FramesRight == TypeOK /\ FramesExclusive

(* Once loaded, a program's bytes are at the virtual addresses where the     *)
(* linker put them and all its other pages are 0, through the conversion to  *)
(* NOFF, which drops the sections, and the loader, which ignores the virtual *)
(* address of the data (addrspace.cc:128-178).                               *)
At(p, v) == mainMemory[pageTable[p][v \div PageSize] * PageSize + (v % PageSize)]
ByteOf(p, v) ==
    LET in == {s \in {program[p][i] : i \in DOMAIN program[p]} :
                    v \in s.paddr .. s.paddr + s.size - 1 /\ s.name \notin {".bss", ".sbss"}}
    IN  IF in = {} THEN Zero
        ELSE LET s == CHOOSE x \in in : TRUE IN <<p, <<s.name, v - s.paddr>>>>
ImageFaithful ==
    \A p \in Proc : phase[p] \in {"loaded", "user"} /\ HasPages(p) =>
        \A v \in 0 .. Cardinality(DOMAIN pageTable[p]) * PageSize - 1 : At(p, v) = ByteOf(p, v)

(* The four readers of a program agree: where the kernel's loader and the    *)
(* standalone interpreter accept it, the disassembler does too, and an       *)
(* address holds the same byte in the flat file (coff2flat.c:101-122), in    *)
(* the interpreter (bin/main.c:112-153), in the disassembler                 *)
(* (disasm.c:71-132) and in the address space of the process.                *)
LoadersAgree ==
    \A p \in Proc : phase[p] \in {"loaded", "user"} /\ HasPages(p) /\ DOMAIN pageTable[p] # {} =>
        LET flat == Flat(program[p], UserStackSize)
            interpreter == InterpreterMemory(program[p])
            disassembler == DisassemblerMemory(program[p])
            Byte(byte) == IF byte = <<"hole", 0>> THEN Zero ELSE <<p, byte>>
        IN  /\ Len(flat) <= Cardinality(DOMAIN pageTable[p]) * PageSize
            /\ \A v \in 0 .. Len(flat) - 1 : At(p, v) = Byte(flat[v + 1])
            /\ interpreter.ok =>
                /\ disassembler = interpreter
                /\ \A v \in 0 .. Min({Len(flat), MEMSIZE}) - 1 : At(p, v) = Byte(interpreter.mem[v])

(* A program is the same to everybody who reads its file. *)
ProgramsAlike == ImageFaithful /\ LoadersAgree

(* While a user program runs, the machine translates with its own table      *)
(* (scheduler.cc:130-133, pcb.cc:94): a thread that was preempted inside the *)
(* constructor, when it had no space, does not keep another one's.           *)
OwnTable ==
    status = "running" /\ phase[currentThread] = "user" => machineTable = pageTable[currentThread]

(* And its registers are its own, although the machine has one set of them   *)
(* and Run skips the save for a thread without a space (scheduler.cc:100,    *)
(* 130; thread.cc:300-319).                                                  *)
OwnRegisters ==
    status = "running" /\ phase[currentThread] = "user" => registers = currentThread

(* On every host processor, SWITCH gives a thread that called it back its    *)
(* stack, its registers and its return address, and starts a new thread in   *)
(* ThreadRoot with the procedures of StackAllocate where it looks for them   *)
(* (switch.c:82-342, thread.cc:255-286).                                     *)
OwnContext ==
    LET t == currentThread
    IN  IF t \in started
        THEN /\ pc = <<ReturnAddress(host), t>>
             /\ \A r \in Preserved(host) : cpu[r] = Own(host, t)[r]
        ELSE /\ pc = <<"ThreadRoot", t>>
             /\ cpu[StackPointer(host)] = <<"stack", t>>
             /\ ThreadRoot(host, cpu) =
                    <<<<"InterruptEnable", t>>, <<"func", t>>, <<"arg", t>>, <<"ThreadFinish", t>>>>

(* A thread that goes on has the whole machine as it left it. *)
OwnState == OwnTable /\ OwnRegisters /\ OwnContext
=============================================================================
