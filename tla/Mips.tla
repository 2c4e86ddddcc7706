-------------------------------- MODULE Mips --------------------------------
(***************************************************************************)
(* The simulated MIPS CPU and its address translation                      *)
(* (machine/mipssim.cc, mipssim.h, translate.cc, machine.cc).  One step is *)
(* one OneInstruction of an instruction word chosen from a given set; the  *)
(* word is a record of its bit fields, and Decode turns it into an opcode. *)
(* An exception hands the machine to the kernel, where this module ends.   *)
(***************************************************************************)
EXTENDS Word, Sequences, TLC

CONSTANTS NumGPRegs,       \* general registers; R31 is the last of them
          PageSize, NumPhysPages,
          RegionSize       \* what the jump's target field can address

VARIABLES registers,       \* the register file of machine.h
          mainMemory,      \* byte at every physical address
          entries, tlb,    \* the page table, or the TLB when tlb
          exception        \* the exception the kernel was entered with

mipsVars == <<registers, mainMemory, entries, tlb, exception>>

GPRegs == 0 .. NumGPRegs - 1
R31 == NumGPRegs - 1
HiReg == NumGPRegs
LoReg == NumGPRegs + 1
PCReg == NumGPRegs + 2
NextPCReg == NumGPRegs + 3
PrevPCReg == NumGPRegs + 4
LoadReg == NumGPRegs + 5
LoadValueReg == NumGPRegs + 6
BadVAddrReg == NumGPRegs + 7
NumTotalRegs == NumGPRegs + 8
Entry == [virtualPage : Nat, physicalPage : Nat, valid : BOOLEAN,
          readOnly : BOOLEAN, use : BOOLEAN, dirty : BOOLEAN]
Exceptions == {"none", "AddressError", "PageFault", "ReadOnly", "BusError",
               "Overflow", "IllegalInstr", "Syscall", "Abort"}

-----------------------------------------------------------------------------
\* Instruction words: opTable and specialTable, indexed from 1.
opTable ==
  <<"SPECIAL", "BCOND", "J", "JAL", "BEQ", "BNE", "BLEZ", "BGTZ",
    "ADDI", "ADDIU", "SLTI", "SLTIU", "ANDI", "ORI", "XORI", "LUI">>
  \o [n \in 1 .. 4 |-> "UNIMP"] \o [n \in 1 .. 12 |-> "RES"]
  \o <<"LB", "LH", "LWL", "LW", "LBU", "LHU", "LWR", "RES",
       "SB", "SH", "SWL", "SW", "RES", "RES", "SWR", "RES">>
  \o [n \in 1 .. 4 |-> "UNIMP"] \o [n \in 1 .. 4 |-> "RES"]
  \o [n \in 1 .. 4 |-> "UNIMP"] \o [n \in 1 .. 4 |-> "RES"]

specialTable ==
  <<"SLL", "RES", "SRL", "SRA", "SLLV", "RES", "SRLV", "SRAV",
    "JR", "JALR", "RES", "RES", "SYSCALL", "UNIMP", "RES", "RES",
    "MFHI", "MTHI", "MFLO", "MTLO", "RES", "RES", "RES", "RES",
    "MULT", "MULTU", "DIV", "DIVU", "RES", "RES", "RES", "RES",
    "ADD", "ADDU", "SUB", "SUBU", "AND", "OR", "XOR", "NOR",
    "RES", "RES", "SLT", "SLTU">>
  \o [n \in 1 .. 20 |-> "RES"]

\* The extra field of the three formats: signed immediate, shift amount and
\* jump target.
Extra(i) ==
  CASE opTable[i.major + 1] \in {"J", "JAL"} -> i.ext % (RegionSize \div 4)
    [] opTable[i.major + 1] = "SPECIAL" -> i.ext % W
    [] OTHER -> SignExtend(i.ext % 2 ^ H, H)

\* Instruction::Decode.  minor is the funct field of a SPECIAL instruction
\* and the five bits of the rt field of a BCOND one.
Decode(i) ==
  LET op == opTable[i.major + 1]
      bcond == [n \in {0, 1, 16, 17} |->
                  CASE n = 0 -> "BLTZ" [] n = 1 -> "BGEZ"
                    [] n = 16 -> "BLTZAL" [] n = 17 -> "BGEZAL"]
  IN [op |-> CASE op = "SPECIAL" -> specialTable[i.minor + 1]
               [] op = "BCOND" -> IF i.minor \in DOMAIN bcond THEN bcond[i.minor] ELSE "UNIMP"
               [] OTHER -> op,
      rs |-> i.rs, rt |-> i.rt, rd |-> i.rd, extra |-> Extra(i)]

\* The line that OneInstruction prints with the debug flag m: the operation
\* and the operands that opStrings lists for it.
opStrings(op) ==
  CASE op \in {"ADD", "ADDU", "AND", "NOR", "OR", "SLT", "SLTU", "SUB", "SUBU", "XOR"} ->
         <<"RD", "RS", "RT">>
    [] op \in {"ADDI", "ADDIU", "ANDI", "ORI", "SLTI", "SLTIU", "XORI"} -> <<"RT", "RS", "EXTRA">>
    [] op \in {"BEQ", "BNE"} -> <<"RS", "RT", "EXTRA">>
    [] op \in {"BGEZ", "BGEZAL", "BGTZ", "BLEZ", "BLTZ", "BLTZAL"} -> <<"RS", "EXTRA">>
    [] op \in {"DIV", "DIVU", "MULT", "MULTU"} -> <<"RS", "RT">>
    [] op \in {"J", "JAL"} -> <<"EXTRA">>
    [] op \in {"JALR", "JR"} -> <<"RD", "RS">>
    [] op \in {"LB", "LBU", "LH", "LHU", "LW", "LWL", "LWR", "SB", "SH", "SW", "SWL", "SWR"} ->
         <<"RT", "EXTRA", "RS">>
    [] op = "LUI" -> <<"RT", "EXTRA">>
    [] op \in {"MFHI", "MFLO"} -> <<"RD">>
    [] op \in {"MTHI", "MTLO"} -> <<"RS">>
    [] op \in {"SLL", "SRA", "SRL"} -> <<"RD", "RT", "EXTRA">>
    [] op \in {"SLLV", "SRAV", "SRLV"} -> <<"RD", "RT", "RS">>
    [] OTHER -> << >>
TypeToReg(reg, d) ==
  CASE reg = "RS" -> d.rs [] reg = "RT" -> d.rt [] reg = "RD" -> d.rd [] reg = "EXTRA" -> d.extra
Trace(d) ==
  [op |-> d.op,
   args |-> [k \in DOMAIN opStrings(d.op) |-> TypeToReg(opStrings(d.op)[k], d)]]

-----------------------------------------------------------------------------
\* Translate.  The entry of a virtual page is found by index in a page table
\* and by search, first match, in a TLB; 0 stands for no entry.
Lookup(vpn) ==
  IF tlb
    THEN LET hits == {n \in DOMAIN entries : entries[n].valid /\ entries[n].virtualPage = vpn}
         IN IF hits = {} THEN 0 ELSE CHOOSE n \in hits : \A k \in hits : n <= k
    ELSE IF vpn < Len(entries) THEN vpn + 1 ELSE 0

FaultWritable(addr, size, writing) ==
  LET n == Lookup(addr \div PageSize)
  IN CASE addr % size # 0 -> "AddressError"
       [] n = 0 -> IF tlb THEN "PageFault" ELSE "AddressError"
       [] ~ entries[n].valid -> "PageFault"
       [] entries[n].physicalPage >= NumPhysPages -> "BusError"
       [] OTHER -> "none"
Fault(addr, size, writing) ==
  LET n == Lookup(addr \div PageSize)
  IN CASE addr % size # 0 -> "AddressError"
       [] n = 0 -> IF tlb THEN "PageFault" ELSE "AddressError"
       [] ~ entries[n].valid -> "PageFault"
       [] entries[n].readOnly /\ writing -> "ReadOnly"
       [] entries[n].physicalPage >= NumPhysPages -> "BusError"
       [] OTHER -> "none"

Physical(addr) ==
  entries[Lookup(addr \div PageSize)].physicalPage * PageSize + (addr % PageSize)

Marked(es, addr, writing) ==
  [es EXCEPT ![Lookup(addr \div PageSize)].use = TRUE,
             ![Lookup(addr \div PageSize)].dirty = @ \/ writing]

\* ReadMem and WriteMem, bytes in little-endian order.
ReadMem(addr, size) ==
  LET byte(k) == mainMemory[Physical(addr) + k] * 2 ^ (k * ByteBits)
  IN CASE size = 1 -> byte(0)
       [] size = 2 -> byte(0) + byte(1)
       [] size = 4 -> byte(0) + byte(1) + byte(2) + byte(3)

WriteMem(addr, size, value) ==
  [a \in DOMAIN mainMemory |->
     IF a - Physical(addr) \in 0 .. size - 1
       THEN (value \div 2 ^ ((a - Physical(addr)) * ByteBits)) % 2 ^ ByteBits
       ELSE mainMemory[a]]

-----------------------------------------------------------------------------
\* What an instruction does, before it is installed: the registers it
\* writes, its delayed load, the pc after the next one, memory, the use and
\* dirty bits, or the exception it raises instead.
R(r) == registers[r]
Link == Trunc(R(NextPCReg) + 4)
Fetched == Marked(entries, R(PCReg), FALSE)
Done == [set |-> << >>, load |-> <<0, 0>>, after |-> Link, fault |-> "none", bad |-> 0,
         memory |-> mainMemory, table |-> Fetched]
Set(r, v) == [Done EXCEPT !.set = r :> v]
HiLo(h, l) == [Done EXCEPT !.set = (HiReg :> h) @@ (LoReg :> l)]
Raise(e, bad) == [Done EXCEPT !.fault = e, !.bad = bad]
Branch(cond, i) == IF cond THEN [Done EXCEPT !.after = Trunc(R(NextPCReg) + 4 * i.extra)] ELSE Done
Address(i) == Trunc(R(i.rs) + i.extra)

LoadFrom(i, size, Value(_)) ==
  LET a == Address(i) IN
  IF Fault(a, size, FALSE) # "none" THEN Raise(Fault(a, size, FALSE), a)
  ELSE [Done EXCEPT !.load = <<i.rt, Value(ReadMem(a, size))>>,
                    !.table = Marked(@, a, FALSE)]

StoreTo(i, size, v) ==
  LET a == Address(i) IN
  IF Fault(a, size, TRUE) # "none" THEN Raise(Fault(a, size, TRUE), a)
  ELSE [Done EXCEPT !.memory = WriteMem(a, size, v), !.table = Marked(@, a, TRUE)]

SameSign(a, b) == Negative(a) = Negative(b)

ADD(i) ==
  LET sum == Trunc(R(i.rs) + R(i.rt)) IN
  IF SameSign(R(i.rs), R(i.rt)) /\ ~ SameSign(R(i.rs), sum)
    THEN Raise("Overflow", 0) ELSE Set(i.rd, sum)
ADDI(i) ==
  LET sum == Trunc(R(i.rs) + i.extra) IN
  IF SameSign(R(i.rs), i.extra) /\ ~ SameSign(i.extra, sum)
    THEN Raise("Overflow", 0) ELSE Set(i.rt, sum)
ADDIU(i) == Set(i.rt, Trunc(R(i.rs) + i.extra))
ADDU(i) == Set(i.rd, Trunc(R(i.rs) + R(i.rt)))
AND(i) == Set(i.rd, R(i.rs) & R(i.rt))
ANDI(i) == Set(i.rt, R(i.rs) & (i.extra % 2 ^ H))
BEQ(i) == Branch(R(i.rs) = R(i.rt), i)
BGEZ(i) == Branch(~ Negative(R(i.rs)), i)
BGTZ(i) == Branch(Signed(R(i.rs)) > 0, i)
BLEZStrict(i) == Branch(Signed(R(i.rs)) < 0, i)
BLEZ(i) == Branch(Signed(R(i.rs)) <= 0, i)
BLTZ(i) == Branch(Negative(R(i.rs)), i)
BNE(i) == Branch(R(i.rs) # R(i.rt), i)

\* The linking branches write R31 before they read rs.
Tested(i) == IF i.rs = R31 THEN Link ELSE R(i.rs)
BGEZAL(i) == [Branch(~ Negative(Tested(i)), i) EXCEPT !.set = R31 :> Link]
BLTZAL(i) == [Branch(Negative(Tested(i)), i) EXCEPT !.set = R31 :> Link]

\* The most negative word divided by -1 kills the host process.
DIV(i) ==
  LET n == Signed(R(i.rs)) d == Signed(R(i.rt)) IN
  CASE d = 0 -> HiLo(0, 0)
    [] d = -1 /\ n = -(2 ^ (W - 1)) -> Raise("Abort", 0)
    [] OTHER -> HiLo(Trunc(Rem(n, d)), Trunc(Quot(n, d)))
DIVU(i) ==
  IF R(i.rt) = 0 THEN HiLo(0, 0)
  ELSE HiLo(R(i.rs) % R(i.rt), R(i.rs) \div R(i.rt))

Target(i) == (Link \div RegionSize) * RegionSize + 4 * i.extra
J(i) == [Done EXCEPT !.after = Target(i)]
JAL(i) == [J(i) EXCEPT !.set = R31 :> Link]
JR(i) == [Done EXCEPT !.after = R(i.rs)]
JALR(i) == [Set(i.rd, Link) EXCEPT !.after = IF i.rs = i.rd THEN Link ELSE R(i.rs)]

Same(v) == v
SignByte(v) == SignExtend(v, ByteBits)
SignHalf(v) == SignExtend(v, H)
LB(i) == LoadFrom(i, 1, SignByte)
LBU(i) == LoadFrom(i, 1, Same)
LH(i) == LoadFrom(i, 2, SignHalf)
LHU(i) == LoadFrom(i, 2, Same)
LW(i) == LoadFrom(i, 4, Same)
LUI(i) == Set(i.rt, Trunc(i.extra * 2 ^ H))

\* Only the aligned cases of the four unaligned accesses get past their
\* ASSERT.  LWR merges into the value still on its way to rt, if any.
Aligned(i, o) == IF Address(i) % 4 = 0 THEN o ELSE Raise("Abort", 0)
Pending(r) == IF R(LoadReg) = r THEN R(LoadValueReg) ELSE R(r)
LWL(i) == Aligned(i, LoadFrom(i, 4, Same))
LWR(i) ==
  LET merge(v) == (Pending(i.rt) \div 2 ^ ByteBits) * 2 ^ ByteBits + (v \div 2 ^ (3 * ByteBits))
  IN Aligned(i, LoadFrom(i, 4, merge))

ReadThenStore(i, Value(_)) ==
  LET a == Address(i) IN
  IF Fault(a, 4, FALSE) # "none" THEN Raise(Fault(a, 4, FALSE), a)
  ELSE [StoreTo(i, 4, Value(ReadMem(a, 4))) EXCEPT !.table = Marked(@, a, FALSE)]
SWL(i) == LET whole(v) == R(i.rt) IN Aligned(i, ReadThenStore(i, whole))
SWR(i) ==
  LET merge(v) == (v % 2 ^ (3 * ByteBits)) + Trunc(R(i.rt) * 2 ^ (3 * ByteBits))
  IN Aligned(i, ReadThenStore(i, merge))

SB(i) == StoreTo(i, 1, R(i.rt))
SH(i) == StoreTo(i, 2, R(i.rt))
SW(i) == StoreTo(i, 4, R(i.rt))

MFHI(i) == Set(i.rd, R(HiReg))
MFLO(i) == Set(i.rd, R(LoReg))
MTHI(i) == Set(HiReg, R(i.rs))
MTLO(i) == Set(LoReg, R(i.rs))

\* Mult: shift and add on magnitudes, then two's complement of the pair.
RECURSIVE MultLoop(_, _, _, _, _, _)
MultLoop(n, a, bLo, bHi, lo, hi) ==
  LET lo2 == Trunc(lo + bLo)
      hi2 == Trunc(hi + Bit(lo2 < bLo) + bHi)
      next(l, h) == MultLoop(n + 1, Sra(a, 1), Sll(bLo, 1),
                             Sll(bHi, 1) + Bit(Negative(bLo)), l, h)
  IN CASE n = W -> <<hi, lo>>
       [] n < W /\ a = 1 -> <<hi2, lo2>>
       [] n < W /\ a # 1 -> IF a % 2 = 1 THEN next(lo2, hi2) ELSE next(lo, hi)

MultNoBorrow(a, b, signedArith) ==
  LET mag(x) == IF signedArith /\ Negative(x) THEN Neg(x) ELSE x
      p == MultLoop(0, mag(a), mag(b), 0, 0, 0)
  IN CASE a = 0 \/ b = 0 -> <<0, 0>>
       [] signedArith /\ Negative(a) # Negative(b) -> <<Compl(p[1]), Neg(p[2])>>
       [] OTHER -> p
Mult(a, b, signedArith) ==
  LET mag(x) == IF signedArith /\ Negative(x) THEN Neg(x) ELSE x
      p == MultLoop(0, mag(a), mag(b), 0, 0, 0)
  IN CASE a = 0 \/ b = 0 -> <<0, 0>>
       [] signedArith /\ Negative(a) # Negative(b) ->
            <<IF p[2] = 0 THEN Neg(p[1]) ELSE Compl(p[1]), Neg(p[2])>>
       [] OTHER -> p

MULT(i) == LET p == Mult(R(i.rs), R(i.rt), TRUE) IN HiLo(p[1], p[2])
MULTU(i) == LET p == Mult(R(i.rs), R(i.rt), FALSE) IN HiLo(p[1], p[2])

NOR(i) == Set(i.rd, Compl(R(i.rs) | R(i.rt)))
OR(i) == Set(i.rd, R(i.rs) | R(i.rs))
ORI(i) == Set(i.rt, R(i.rs) | (i.extra % 2 ^ H))
XOR(i) == Set(i.rd, R(i.rs) ^^ R(i.rt))
XORI(i) == Set(i.rt, R(i.rs) ^^ (i.extra % 2 ^ H))
SLL(i) == Set(i.rd, Sll(R(i.rt), i.extra))
SLLV(i) == Set(i.rd, Sll(R(i.rt), R(i.rs)))
SLT(i) == Set(i.rd, Bit(Signed(R(i.rs)) < Signed(R(i.rt))))
SLTI(i) == Set(i.rt, Bit(Signed(R(i.rs)) < Signed(i.extra)))
SLTIU(i) == Set(i.rt, Bit(R(i.rs) < i.extra))
SLTU(i) == Set(i.rd, Bit(R(i.rs) < R(i.rt)))
SRA(i) == Set(i.rd, Sra(R(i.rt), i.extra))
SRAV(i) == Set(i.rd, Sra(R(i.rt), R(i.rs)))
SRL(i) == Set(i.rd, Sra(R(i.rt), i.extra))       \* tmp is an int
SRLV(i) == Set(i.rd, Sra(R(i.rt), R(i.rs)))
SUB(i) ==
  LET diff == Trunc(R(i.rs) - R(i.rt)) IN
  IF ~ SameSign(R(i.rs), R(i.rt)) /\ ~ SameSign(R(i.rs), diff)
    THEN Raise("Overflow", 0) ELSE Set(i.rd, diff)
SUBU(i) == Set(i.rd, Trunc(R(i.rs) - R(i.rt)))
SYSCALL(i) == Raise("Syscall", 0)
ILLEGAL(i) == Raise("IllegalInstr", 0)

Execute(i) ==
  CASE i.op = "ADD" -> ADD(i) [] i.op = "ADDI" -> ADDI(i) [] i.op = "ADDIU" -> ADDIU(i)
    [] i.op = "ADDU" -> ADDU(i) [] i.op = "AND" -> AND(i) [] i.op = "ANDI" -> ANDI(i)
    [] i.op = "BEQ" -> BEQ(i) [] i.op = "BGEZ" -> BGEZ(i) [] i.op = "BGEZAL" -> BGEZAL(i)
    [] i.op = "BGTZ" -> BGTZ(i) [] i.op = "BLEZ" -> BLEZ(i) [] i.op = "BLTZ" -> BLTZ(i)
    [] i.op = "BLTZAL" -> BLTZAL(i) [] i.op = "BNE" -> BNE(i) [] i.op = "DIV" -> DIV(i)
    [] i.op = "DIVU" -> DIVU(i) [] i.op = "J" -> J(i) [] i.op = "JAL" -> JAL(i)
    [] i.op = "JALR" -> JALR(i) [] i.op = "JR" -> JR(i) [] i.op = "LB" -> LB(i)
    [] i.op = "LBU" -> LBU(i) [] i.op = "LH" -> LH(i) [] i.op = "LHU" -> LHU(i)
    [] i.op = "LUI" -> LUI(i) [] i.op = "LW" -> LW(i) [] i.op = "LWL" -> LWL(i)
    [] i.op = "LWR" -> LWR(i) [] i.op = "MFHI" -> MFHI(i) [] i.op = "MFLO" -> MFLO(i)
    [] i.op = "MTHI" -> MTHI(i) [] i.op = "MTLO" -> MTLO(i) [] i.op = "MULT" -> MULT(i)
    [] i.op = "MULTU" -> MULTU(i) [] i.op = "NOR" -> NOR(i) [] i.op = "OR" -> OR(i)
    [] i.op = "ORI" -> ORI(i) [] i.op = "SB" -> SB(i) [] i.op = "SH" -> SH(i)
    [] i.op = "SLL" -> SLL(i) [] i.op = "SLLV" -> SLLV(i) [] i.op = "SLT" -> SLT(i)
    [] i.op = "SLTI" -> SLTI(i) [] i.op = "SLTIU" -> SLTIU(i) [] i.op = "SLTU" -> SLTU(i)
    [] i.op = "SRA" -> SRA(i) [] i.op = "SRAV" -> SRAV(i) [] i.op = "SRL" -> SRL(i)
    [] i.op = "SRLV" -> SRLV(i) [] i.op = "SUB" -> SUB(i) [] i.op = "SUBU" -> SUBU(i)
    [] i.op = "SW" -> SW(i) [] i.op = "SWL" -> SWL(i) [] i.op = "SWR" -> SWR(i)
    [] i.op = "SYSCALL" -> SYSCALL(i) [] i.op = "XOR" -> XOR(i) [] i.op = "XORI" -> XORI(i)
    [] i.op \in {"RES", "UNIMP"} -> ILLEGAL(i)

-----------------------------------------------------------------------------
DelayedLoad(regs, nextReg, nextValue) ==
  [regs EXCEPT ![regs[LoadReg]] = regs[LoadValueReg],
               ![LoadReg] = nextReg, ![LoadValueReg] = nextValue, ![0] = 0]

RaiseExceptionPast(which, badVAddr) ==
  /\ registers' = DelayedLoad([registers EXCEPT ![BadVAddrReg] = badVAddr,
                                  ![PCReg] = R(NextPCReg)], 0, 0)
  /\ exception' = which
RaiseException(which, badVAddr) ==
  /\ registers' = DelayedLoad([registers EXCEPT ![BadVAddrReg] = badVAddr], 0, 0)
  /\ exception' = which

\* The end of OneInstruction: the delayed load, then the program counters.
Install(o) ==
  LET written == [r \in DOMAIN registers |-> IF r \in DOMAIN o.set THEN o.set[r] ELSE R(r)]
  IN [DelayedLoad(written, o.load[1], o.load[2]) EXCEPT
        ![PrevPCReg] = R(PCReg), ![PCReg] = R(NextPCReg), ![NextPCReg] = o.after]

OneInstruction(raw) ==
  /\ exception = "none"
  /\ UNCHANGED tlb
  /\ LET fetch == Fault(R(PCReg), 4, FALSE) IN
     IF fetch # "none"
       THEN RaiseException(fetch, R(PCReg)) /\ UNCHANGED <<mainMemory, entries>>
       ELSE LET o == Execute(Decode(raw)) IN
            /\ entries' = o.table
            /\ mainMemory' = o.memory
            /\ CASE o.fault = "none" -> registers' = Install(o) /\ exception' = "none"
                 [] o.fault = "Abort" -> exception' = "Abort" /\ UNCHANGED registers
                 [] OTHER -> RaiseException(o.fault, o.bad)

\* Interrupt::CheckIfDue finishes a delayed load before it calls a handler,
\* which it can do between any two instructions.
InterruptDelivered ==
  /\ exception = "none"
  /\ registers' = DelayedLoad(registers, 0, 0)
  /\ UNCHANGED <<mainMemory, entries, tlb, exception>>

MipsTypeOK ==
  /\ registers \in [0 .. NumTotalRegs - 1 -> Words]
  /\ registers[LoadReg] \in GPRegs
  /\ \A a \in DOMAIN mainMemory : mainMemory[a] \in 0 .. 2 ^ ByteBits - 1
  /\ DOMAIN mainMemory = 0 .. NumPhysPages * PageSize - 1
  /\ \A n \in DOMAIN entries : entries[n] \in Entry
  /\ exception \in Exceptions
=============================================================================
