------------------------------- MODULE Switch -------------------------------
(***************************************************************************)
(* The context switch of the host: SWITCH and ThreadRoot of                *)
(* threads/switch.c with the offsets of switch.h, for the four processors  *)
(* that they support, and the state that Thread::StackAllocate prepares.   *)
(*                                                                         *)
(* SWITCH is run as the sequence of its loads, stores and moves.  A value  *)
(* is a pair of what it is and the thread it belongs to: <<"thread", t>>   *)
(* and <<"stack", t>> are pointers to the Thread object and to the top of  *)
(* the stack, <<r, t>> is what thread t has in register r.  A Thread       *)
(* object is a function of byte offsets: stackTop at 0, then machineState. *)
(***************************************************************************)
EXTENDS Integers, Sequences, Functions, TLC

Hosts == {"MIPS", "SPARC", "SNAKE", "i386"}
MachineStateSize == 18
ObjectOffsets == {4 * k : k \in 0 .. MachineStateSize}

\* switch.h: the offset of every saved register.
MipsOffsets ==
    [sp |-> 0, s0 |-> 4, s1 |-> 8, s2 |-> 12, s3 |-> 16, s4 |-> 20, s5 |-> 24, s6 |-> 28,
     s7 |-> 32, fp |-> 36, ra |-> 40]
SparcOffsets ==
    [i6 |-> 0, i0 |-> 4, i1 |-> 8, i2 |-> 12, i3 |-> 16, i4 |-> 20, i5 |-> 24, i7 |-> 32]
SnakeOffsets ==
    [sp |-> 0, r3 |-> 4, r4 |-> 8, r5 |-> 12, r6 |-> 16, r7 |-> 20, r8 |-> 24, r9 |-> 28,
     r10 |-> 32, r11 |-> 36, r12 |-> 40, r13 |-> 44, r14 |-> 48, r15 |-> 52, r16 |-> 56,
     r17 |-> 60, r18 |-> 64, rp |-> 68]
I386Offsets ==
    [esp |-> 0, ebx |-> 8, ecx |-> 12, edx |-> 16, ebp |-> 20, esi |-> 24, edi |-> 28]
eaxOffset == 4
pcOffset == 32

\* switch.h: where StackAllocate puts what ThreadRoot needs.
MipsRootState == [PC |-> 40, InitialPC |-> 4, InitialArg |-> 8, WhenDonePC |-> 12, StartupPC |-> 16]
SparcRootState == [PC |-> 32, InitialPC |-> 4, InitialArg |-> 8, WhenDonePC |-> 12, StartupPC |-> 16]
SnakeRootState == [PC |-> 68, InitialPC |-> 4, InitialArg |-> 8, WhenDonePC |-> 12, StartupPC |-> 16]
I386RootState == [PC |-> 32, InitialPC |-> 24, InitialArg |-> 16, WhenDonePC |-> 28, StartupPC |-> 12]
RootState ==
    [MIPS |-> MipsRootState, SPARC |-> SparcRootState, SNAKE |-> SnakeRootState,
     i386 |-> I386RootState]

-----------------------------------------------------------------------------
\* A run of stores or loads through one base register is one instruction: no
\* run changes its base before the last of its loads.
stores(regs, base) == [op |-> "st", regs |-> regs, base |-> base]
loads(base, regs) == [op |-> "ld", regs |-> regs, base |-> base]
st(reg, base, off) == stores([r \in {reg} |-> off], base)
ld(base, off, reg) == loads(base, [r \in {reg} |-> off])
mov(from, to) == [op |-> "mov", regs |-> [r \in {to} |-> 0], base |-> from]

MipsSwitch == <<stores(MipsOffsets, "a0"), loads("a1", MipsOffsets)>>
\* save makes the arguments in the out registers the in registers of a new
\* window, the stack pointer i6 and the return address i7; the trap writes the
\* other windows to the stack.
SparcSwitch == <<stores(SparcOffsets, "i0"), mov("i1", "l0"), loads("l0", SparcOffsets)>>
SnakeSwitch == <<stores(SnakeOffsets, "arg0"), loads("arg1", SnakeOffsets)>>
I386SwitchLate ==
    <<mov("eax", "eax_save"), ld("esp", 4, "eax"), stores(I386Offsets, "eax"),
      mov("eax_save", "ebx"), st("ebx", "eax", eaxOffset),
      ld("esp", 0, "ebx"), st("ebx", "eax", pcOffset),
      ld("esp", 8, "eax"),
      loads("eax", I386Offsets),
      ld("eax", eaxOffset, "ebx"), mov("ebx", "eax_save"),
      ld("eax", pcOffset, "eax"), st("eax", "esp", 4), mov("eax_save", "eax")>>
I386Switch ==
    <<mov("eax", "eax_save"), ld("esp", 4, "eax"), stores(I386Offsets, "eax"),
      mov("eax_save", "ebx"), st("ebx", "eax", eaxOffset),
      ld("esp", 0, "ebx"), st("ebx", "eax", pcOffset),
      ld("esp", 8, "eax"),
      ld("eax", eaxOffset, "ebx"), mov("ebx", "eax_save"),
      loads("eax", I386Offsets),
      ld("eax", pcOffset, "eax"), st("eax", "esp", 4), mov("eax_save", "eax")>>
SwitchCode ==
    [MIPS |-> MipsSwitch, SPARC |-> SparcSwitch, SNAKE |-> SnakeSwitch, i386 |-> I386Switch]

\* One instruction, on the registers and the memory: what a pointer points to,
\* as a function of offsets.
Perform(m, i) ==
    LET base == m.cpu[i.base]
        stored(o) == {r \in DOMAIN i.regs : i.regs[r] = o}
    IN  CASE i.op = "mov" ->
                [m EXCEPT !.cpu = [r \in DOMAIN i.regs |-> base] @@ m.cpu]
          [] i.op = "ld" ->
                [m EXCEPT !.cpu = [r \in DOMAIN i.regs |-> m.memory[base][i.regs[r]]] @@ m.cpu]
          [] i.op = "st" ->
                [m EXCEPT !.memory[base] = [o \in DOMAIN m.memory[base] |->
                    IF stored(o) = {} THEN @[o] ELSE m.cpu[CHOOSE r \in stored(o) : TRUE]]]

-----------------------------------------------------------------------------
StackPointer(host) ==
    CASE host \in {"MIPS", "SNAKE"} -> "sp" [] host = "SPARC" -> "i6" [] host = "i386" -> "esp"
Arguments(host) ==
    CASE host = "MIPS" -> <<"a0", "a1">> [] host = "SNAKE" -> <<"arg0", "arg1">>
      [] host = "SPARC" -> <<"i0", "i1">> [] host = "i386" -> << >>
\* What the compiler expects to find again after the call of SWITCH.  On the
\* SPARC the rest is in the frame that i6 points to.
Preserved(host) ==
    CASE host = "MIPS" -> {"sp", "s0", "s1", "s2", "s3", "s4", "s5", "s6", "s7", "fp", "ra"}
      [] host = "SPARC" -> {"i6", "i7"}
      [] host = "SNAKE" -> DOMAIN SnakeOffsets
      [] host = "i386" -> {"eax", "ebx", "ecx", "edx", "esi", "edi", "ebp", "esp"}
Registers ==
    [h \in Hosts |-> UNION {DOMAIN i.regs \cup {i.base} : i \in Range(SwitchCode[h])}]

Own(host, t) ==
    [r \in Registers[host] |-> IF r = StackPointer(host) THEN <<"stack", t>> ELSE <<r, t>>]
Frame(first, second, third) == [o \in {0, 4, 8} |-> <<first, second, third>>[o \div 4 + 1]]

\* The call SWITCH(old, new): what is in the registers and on the stack.
Called(host, old, new, memory) ==
    LET args == Arguments(host)
        ptr(t) == <<"thread", t>>
    IN  [cpu |-> [r \in Registers[host] |->
                    IF args # << >> /\ r = args[1] THEN ptr(old)
                    ELSE IF args # << >> /\ r = args[2] THEN ptr(new)
                    ELSE Own(host, old)[r]],
         memory |-> [memory EXCEPT ![<<"stack", old>>] = Frame(<<"pc", old>>, ptr(old), ptr(new))]]
RECURSIVE PerformFrom(_, _, _)
PerformFrom(m, code, k) ==
    IF k > Len(code) THEN m ELSE PerformFrom(Perform(m, code[k]), code, k + 1)
SWITCH(host, old, new, memory) ==
    PerformFrom(Called(host, old, new, memory), SwitchCode[host], 1)

\* Where the return address is, and where SWITCH returns to.
ReturnAddress(host) ==
    CASE host = "MIPS" -> "ra" [] host = "SPARC" -> "i7" [] host = "SNAKE" -> "rp"
      [] host = "i386" -> "pc"
ReturnsTo(host, m) ==
    CASE host = "MIPS" -> m.cpu["ra"] [] host = "SPARC" -> m.cpu["i7"]
      [] host = "SNAKE" -> m.cpu["rp"] [] host = "i386" -> m.memory[m.cpu["esp"]][0]

\* Thread::StackAllocate: the rest of a new Thread object is not initialized.
StackAllocate(host, t) ==
    LET at == RootState[host]
    IN  [o \in ObjectOffsets |->
            CASE o = 0 -> <<"stack", t>>
              [] o = at.PC -> <<"ThreadRoot", t>>
              [] o = at.StartupPC -> <<"InterruptEnable", t>>
              [] o = at.InitialPC -> <<"func", t>>
              [] o = at.InitialArg -> <<"arg", t>>
              [] o = at.WhenDonePC -> <<"ThreadFinish", t>>
              [] OTHER -> <<"garbage", t>>]
NewStack(host, t) ==
    Frame(<<IF host = "i386" THEN "ThreadRoot" ELSE "garbage", t>>, <<"garbage", t>>, <<"garbage", t>>)

\* ThreadRoot: the start-up procedure that it calls, then the thread's own
\* procedure with its argument, then the clean-up procedure.  A call leaves
\* only the callee-saved registers and the stack as they were.
AfterCall(cpu, calleeSaved) ==
    [r \in DOMAIN cpu |-> IF r \in calleeSaved THEN cpu[r] ELSE <<"clobbered", cpu[r][2]>>]
MipsThreadRoot(cpu) ==
    LET after == AfterCall(cpu, {"s0", "s1", "s2", "s3", "s4", "s5", "s6", "s7", "sp", "fp"})
    IN  <<cpu["s3"], after["s0"], after["s1"], after["s2"]>>
\* The out registers, which the restore of SWITCH made of the in registers, are
\* first copied to local ones.
SparcThreadRoot(cpu) == <<cpu["i3"], cpu["i0"], cpu["i1"], cpu["i2"]>>
SnakeThreadRoot(cpu) ==
    LET after == AfterCall(cpu, DOMAIN SnakeOffsets \ {"rp"})
    IN  <<cpu["r6"], after["r3"], after["r4"], after["r5"]>>
\* The argument is on the stack before the first call.
I386ThreadRoot(cpu) ==
    LET after == AfterCall(cpu, {"ebx", "esi", "edi", "ebp", "esp"})
    IN  <<cpu["ecx"], after["esi"], cpu["edx"], after["edi"]>>
ThreadRoot(host, cpu) ==
    CASE host = "MIPS" -> MipsThreadRoot(cpu) [] host = "SPARC" -> SparcThreadRoot(cpu)
      [] host = "SNAKE" -> SnakeThreadRoot(cpu) [] host = "i386" -> I386ThreadRoot(cpu)
=============================================================================
