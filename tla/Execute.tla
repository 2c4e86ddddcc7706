------------------------------ MODULE Execute -------------------------------
(***************************************************************************)
(* The stand-alone MIPS interpreter of the bin directory (bin/execute.c,   *)
(* with the instruction fields of instr.h, the codes of encode.h and the   *)
(* memory primitives of int.h): one flat memory, loads without delay, no   *)
(* exceptions.  One step is one iteration of runprogram's loop.            *)
(***************************************************************************)
EXTENDS Word, Sequences, TLC

CONSTANTS NumRegs, Region     \* Region: bytes a jump's target field addresses

VARIABLES Reg, HI, LO, pc, npc, mem,
          stopped             \* u(), exit or a host signal ended it

executeVars == <<Reg, HI, LO, pc, npc, mem, stopped>>

\* encode.h: the primary, the SPECIAL and the BCOND codes.
MajorCode ==
  [SPECIAL |-> 0, BCOND |-> 1, J |-> 2, JAL |-> 3, BEQ |-> 4, BNE |-> 5, BLEZ |-> 6,
   BGTZ |-> 7, ADDI |-> 8, ADDIU |-> 9, SLTI |-> 10, SLTIU |-> 11, ANDI |-> 12,
   ORI |-> 13, XORI |-> 14, LUI |-> 15, LB |-> 32, LH |-> 33, LWL |-> 34, LW |-> 35,
   LBU |-> 36, LHU |-> 37, LWR |-> 38, SB |-> 40, SH |-> 41, SWL |-> 42, SW |-> 43,
   SWR |-> 46]
SpecialCode ==
  [SLL |-> 0, SRL |-> 2, SRA |-> 3, SLLV |-> 4, SRLV |-> 6, SRAV |-> 7, JR |-> 8,
   JALR |-> 9, SYSCALL |-> 12, BREAK |-> 13, MFHI |-> 16, MTHI |-> 17, MFLO |-> 18,
   MTLO |-> 19, MULT |-> 24, MULTU |-> 25, DIV |-> 26, DIVU |-> 27, ADD |-> 32,
   ADDU |-> 33, SUB |-> 34, SUBU |-> 35, AND |-> 36, OR |-> 37, XOR |-> 38,
   NOR |-> 39, SLT |-> 42, SLTU |-> 43]
BcondCode == [BLTZ |-> 0, BGEZ |-> 1, BLTZAL |-> 16, BGEZAL |-> 17]

Named(code, n) ==
  IF \E op \in DOMAIN code : code[op] = n THEN CHOOSE op \in DOMAIN code : code[op] = n
  ELSE "none"
Operation(i) ==
  LET op == Named(MajorCode, i.major) IN
  CASE op = "SPECIAL" -> Named(SpecialCode, i.minor)
    [] op = "BCOND" -> Named(BcondCode, i.minor)
    [] OTHER -> op

\* instr.h
shamt(i) == i.ext % W
immed(i) == SignExtend(i.ext % 2 ^ H, H)
target(i) == 4 * (i.ext % (Region \div 4))

\* int.h
Mem(addr, n) == mem[Trunc(addr + n)] * 2 ^ (n * ByteBits)
cfetch(addr) == SignExtend(mem[addr], ByteBits)
ucfetch(addr) == mem[addr]
usfetch(addr) == Mem(addr, 0) + Mem(addr, 1)
sfetch(addr) == SignExtend(usfetch(addr), H)
fetch(addr) == usfetch(addr) + Mem(addr, 2) + Mem(addr, 3)
Stored(addr, size, v) ==
  [a \in DOMAIN mem |-> IF Trunc(a - addr) < size
                          THEN (v \div 2 ^ (Trunc(a - addr) * ByteBits)) % 2 ^ ByteBits
                          ELSE mem[a]]

-----------------------------------------------------------------------------
X(r) == IF r = 0 THEN 0 ELSE Reg[r]
Result == [set |-> << >>, HI |-> HI, LO |-> LO, npc |-> Trunc(npc + 4), mem |-> mem,
           stop |-> FALSE]
Put(r, v) == [Result EXCEPT !.set = r :> v]
Goto(cond, dest) == IF cond THEN [Result EXCEPT !.npc = dest] ELSE Result
Taken(cond, i) == Goto(cond, Trunc(pc + 4 + 4 * immed(i)))
Linked(o) == [o EXCEPT !.set = (NumRegs - 1) :> Trunc(pc + 8)]
u == [Result EXCEPT !.stop = TRUE]
At(i) == Trunc(X(i.rs) + immed(i))

Shift(i, op) ==
  CASE op = "SLL" -> Put(i.rd, Sll(X(i.rt), shamt(i)))
    [] op = "SRL" -> Put(i.rd, Srl(X(i.rt), shamt(i)))
    [] op = "SRA" -> Put(i.rd, Sra(X(i.rt), shamt(i)))
    [] op = "SLLV" -> Put(i.rd, Sll(X(i.rt), X(i.rs)))
    [] op = "SRLV" -> Put(i.rd, Srl(X(i.rt), X(i.rs)))
    [] op = "SRAV" -> Put(i.rd, Sra(X(i.rt), X(i.rs)))

JumpRegister(i, op) ==
  CASE op = "JR" -> Goto(TRUE, X(i.rs))
    [] op = "JALR" -> [Goto(TRUE, X(i.rs)) EXCEPT !.set = i.rd :> Trunc(pc + 8)]

HiLoMove(i, op) ==
  CASE op = "MFHI" -> Put(i.rd, HI)
    [] op = "MTHI" -> [Result EXCEPT !.HI = X(i.rs)]
    [] op = "MFLO" -> Put(i.rd, LO)
    [] op = "MTLO" -> [Result EXCEPT !.LO = X(i.rs)]

\* HI from the half words; the int products wrap before they are shifted.
HighPart(t1, t2) ==
  LET t1l == t1 % 2 ^ H t1h == t1 \div 2 ^ H
      t2l == t2 % 2 ^ H t2h == t2 \div 2 ^ H
  IN Trunc(t1h * t2h + Sra(Trunc(t1h * t2l), H) + Sra(Trunc(t2h * t1l), H))

Multiply(i) ==
  LET mag(x) == IF Negative(x) THEN Neg(x) ELSE x
      t1 == mag(X(i.rs)) t2 == mag(X(i.rt))
      lo == Trunc(t1 * t2) hi == HighPart(t1, t2)
  IN IF Negative(X(i.rs)) = Negative(X(i.rt))
       THEN [Result EXCEPT !.HI = hi, !.LO = lo]
       ELSE [Result EXCEPT !.HI = Trunc(Compl(hi) + Bit(lo = 0)), !.LO = Neg(lo)]

MultiplyUnsigned(i) ==
  [Result EXCEPT !.HI = HighPart(X(i.rs), X(i.rt)), !.LO = Trunc(X(i.rs) * X(i.rt))]

Divide(i, op) ==
  LET n == Signed(X(i.rs)) d == Signed(X(i.rt)) IN
  CASE d = 0 \/ (op = "DIV" /\ d = -1 /\ n = -(2 ^ (W - 1))) -> u
    [] op = "DIV" /\ d # 0 -> [Result EXCEPT !.HI = Trunc(Rem(n, d)), !.LO = Trunc(Quot(n, d))]
    [] OTHER -> [Result EXCEPT !.HI = X(i.rs) % X(i.rt), !.LO = X(i.rs) \div X(i.rt)]

Arithmetic(i, op) ==
  CASE op \in {"ADD", "ADDU"} -> Put(i.rd, Trunc(X(i.rs) + X(i.rt)))
    [] op \in {"SUB", "SUBU"} -> Put(i.rd, Trunc(X(i.rs) - X(i.rt)))
    [] op = "AND" -> Put(i.rd, X(i.rs) & X(i.rt))
    [] op = "OR" -> Put(i.rd, X(i.rs) | X(i.rt))
    [] op = "XOR" -> Put(i.rd, X(i.rs) ^^ X(i.rt))
    [] op = "NOR" -> Put(i.rd, Compl(X(i.rs) | X(i.rt)))
    [] op = "SLT" -> Put(i.rd, Bit(Signed(X(i.rs)) < Signed(X(i.rt))))
    [] op = "SLTU" -> Put(i.rd, Bit(X(i.rs) < X(i.rt)))

\* The linking forms write Reg[31] before they test rs.
Conditional(i, op) ==
  LET link == Trunc(pc + 8)
      rs == IF i.rs = NumRegs - 1 THEN link ELSE X(i.rs) IN
  CASE op = "BLTZ" -> Taken(Negative(X(i.rs)), i)
    [] op = "BGEZ" -> Taken(~ Negative(X(i.rs)), i)
    [] op = "BLTZAL" -> Linked(Taken(Negative(rs), i))
    [] op = "BGEZAL" -> Linked(Taken(~ Negative(rs), i))

Jump(i, op) ==
  LET o == Goto(TRUE, (pc \div Region) * Region + target(i))
  IN IF op = "JAL" THEN Linked(o) ELSE o

Compare(i, op) ==
  CASE op = "BEQ" -> Taken(X(i.rs) = X(i.rt), i)
    [] op = "BNE" -> Taken(X(i.rs) # X(i.rt), i)
    [] op = "BLEZ" -> Taken(Signed(X(i.rs)) <= 0, i)
    [] op = "BGTZ" -> Taken(Signed(X(i.rs)) > 0, i)

Immediate(i, op) ==
  CASE op \in {"ADDI", "ADDIU"} -> Put(i.rt, At(i))
    [] op = "SLTI" -> Put(i.rt, Bit(Signed(X(i.rs)) < Signed(immed(i))))
    [] op = "SLTIU" -> Put(i.rt, Bit(X(i.rs) < immed(i)))
    [] op = "ANDI" -> Put(i.rt, X(i.rs) & immed(i))
    [] op = "ORI" -> Put(i.rt, X(i.rs) | immed(i))
    [] op = "XORI" -> Put(i.rt, X(i.rs) ^^ immed(i))
    [] op = "LUI" -> Put(i.rt, Trunc((i.ext % 2 ^ H) * 2 ^ H))

\* The mask of LWL is -1 shifted as an int, so it keeps every bit.
Load(i, op) ==
  LET low == At(i) % 4 word == fetch(At(i) - low) bits(n) == n * ByteBits IN
  CASE op = "LB" -> Put(i.rt, cfetch(At(i)))
    [] op = "LH" -> Put(i.rt, sfetch(At(i)))
    [] op = "LW" -> Put(i.rt, fetch(At(i)))
    [] op = "LBU" -> Put(i.rt, ucfetch(At(i)))
    [] op = "LHU" -> Put(i.rt, usfetch(At(i)))
    [] op = "LWL" -> Put(i.rt, X(i.rt) | Sll(word, bits(low)))
    [] op = "LWR" -> IF low = 0 THEN Put(i.rt, word)
                     ELSE Put(i.rt, ((X(i.rt) \div 2 ^ bits(low)) * 2 ^ bits(low))
                                    | Sra(word, bits(4 - low)))

Store(i, op) ==
  CASE op = "SB" -> [Result EXCEPT !.mem = Stored(At(i), 1, X(i.rt))]
    [] op = "SH" -> [Result EXCEPT !.mem = Stored(At(i), 2, X(i.rt))]
    [] op = "SW" -> [Result EXCEPT !.mem = Stored(At(i), 4, X(i.rt))]

\* The traps (system_trap, system_break), SWL, SWR, the coprocessors and the
\* undefined codes all leave this model.
Perform(i) ==
  LET op == Operation(i) IN
  CASE op \in {"SLL", "SRL", "SRA", "SLLV", "SRLV", "SRAV"} -> Shift(i, op)
    [] op \in {"JR", "JALR"} -> JumpRegister(i, op)
    [] op \in {"MFHI", "MTHI", "MFLO", "MTLO"} -> HiLoMove(i, op)
    [] op = "MULT" -> Multiply(i)
    [] op = "MULTU" -> MultiplyUnsigned(i)
    [] op \in {"DIV", "DIVU"} -> Divide(i, op)
    [] op \in {"ADD", "ADDU", "SUB", "SUBU", "AND", "OR", "XOR", "NOR", "SLT", "SLTU"} ->
         Arithmetic(i, op)
    [] op \in DOMAIN BcondCode -> Conditional(i, op)
    [] op \in {"J", "JAL"} -> Jump(i, op)
    [] op \in {"BEQ", "BNE", "BLEZ", "BGTZ"} -> Compare(i, op)
    [] op \in {"ADDI", "ADDIU", "SLTI", "SLTIU", "ANDI", "ORI", "XORI", "LUI"} ->
         Immediate(i, op)
    [] op \in {"LB", "LH", "LWL", "LW", "LBU", "LHU", "LWR"} -> Load(i, op)
    [] op \in {"SB", "SH", "SW"} -> Store(i, op)
    [] OTHER -> u

runprogram(i) ==
  /\ ~ stopped
  /\ LET o == Perform(i) IN
     /\ stopped' = o.stop
     /\ Reg' = [r \in DOMAIN Reg |-> IF r \in DOMAIN o.set THEN o.set[r] ELSE X(r)]
     /\ HI' = o.HI /\ LO' = o.LO /\ mem' = o.mem
     /\ pc' = npc /\ npc' = o.npc
=============================================================================
