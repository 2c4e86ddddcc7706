------------------------------- MODULE Disasm -------------------------------
(***************************************************************************)
(* The disassembler of the bin directory (bin/d.c, opstrings.c, disasm.c), *)
(* which also prints the trace of the interpreter.  A name is the name of  *)
(* the operation, "none" where the table has an octal number; a line is    *)
(* the operation with the numbers of the registers, the constant or the    *)
(* address that are printed.                                               *)
(***************************************************************************)
EXTENDS Execute

Unnamed(n) == [k \in 1 .. n |-> "none"]

normalops ==
  <<"SPECIAL", "BCOND", "J", "JAL", "BEQ", "BNE", "BLEZ", "BGTZ",
    "ADDI", "ADDIU", "SLTI", "SLTIU", "ANDI", "ORI", "XORI", "LUI",
    "COP0", "COP1", "COP2", "COP3">> \o Unnamed(12)
  \o <<"LB", "LH", "LWL", "LW", "LBU", "LHU", "LWR", "none",
       "SB", "SH", "SWL", "SW", "none", "none", "SWR", "none",
       "LWC0", "LWC1", "LWC2", "LWC3">> \o Unnamed(4)
  \o <<"SWC0", "SWC1", "SWC2", "SWC3">> \o Unnamed(4)

specialops ==
  <<"SLL", "none", "SRL", "SRA", "SLLV", "none", "SRLV", "SRAV",
    "JR", "JALR", "none", "none", "SYSCALL", "BREAK", "none", "none",
    "MFHI", "MTHI", "MFLO", "MTLO">> \o Unnamed(4)
  \o <<"MULT", "MULTU", "DIV", "DIVU">> \o Unnamed(4)
  \o <<"ADD", "ADDU", "SUB", "SUBU", "AND", "OR", "XOR", "NOR",
       "none", "none", "SLT", "SLTU">> \o Unnamed(20)

\* The operands of a SPECIAL, a BCOND and any other instruction; destinations
\* are printed as addresses.
SpecialOperands(i, op) ==
  CASE op \in {"SLL", "SRL", "SRA"} -> <<i.rd, i.rt, shamt(i)>>
    [] op \in {"SLLV", "SRLV", "SRAV"} -> <<i.rd, i.rt, i.rs>>
    [] op \in {"JR", "JALR", "MFLO", "MTLO"} -> <<i.rs>>
    [] op \in {"MFHI", "MTHI"} -> <<i.rd>>
    [] op \in {"MULT", "MULTU", "DIV", "DIVU"} -> <<i.rs, i.rt>>
    [] op \in {"ADD", "ADDU", "SUB", "SUBU", "AND", "OR", "XOR", "NOR", "SLT", "SLTU"} ->
         <<i.rd, i.rs, i.rt>>
    [] OTHER -> << >>

DestinationOfSlot(i, addr) == Trunc(addr + 8 + 4 * immed(i))
Destination(i, addr) == Trunc(addr + 4 + 4 * immed(i))

BcondOperands(i, addr) == <<i.rs, Destination(i, addr)>>

NormalOperands(i, op, addr) ==
  CASE op \in {"J", "JAL"} -> <<(addr \div Region) * Region + target(i)>>
    [] op \in {"BEQ", "BNE"} -> <<i.rt, i.rs, Destination(i, addr)>>
    [] op \in {"ADDI", "ADDIU", "SLTI", "SLTIU", "ANDI", "ORI", "XORI"} ->
         <<i.rt, i.rs, immed(i)>>
    [] op = "LUI" -> <<i.rt, immed(i)>>
    [] op \in {"LB", "LH", "LWL", "LW", "LBU", "LHU", "LWR", "SB", "SH", "SWL", "SW", "SWR",
               "LWC0", "LWC1", "LWC2", "LWC3", "SWC0", "SWC1", "SWC2", "SWC3"} ->
         <<i.rt, immed(i), i.rs>>
    [] OTHER -> << >>

IsNop(i) == \A f \in {"major", "minor", "rs", "rt", "rd", "ext"} : i[f] = 0

dump_ascii(i, addr) ==
  LET normal == normalops[i.major + 1]
      special == specialops[i.minor + 1]
  IN CASE IsNop(i) -> [op |-> "NOP", args |-> << >>]
       [] normal = "SPECIAL" /\ ~ IsNop(i) ->
            [op |-> special, args |-> SpecialOperands(i, special)]
       [] normal = "BCOND" ->
            [op |-> IF Named(BcondCode, i.minor) = "none" THEN "BCOND"
                    ELSE Named(BcondCode, i.minor),
             args |-> BcondOperands(i, addr)]
       [] OTHER -> [op |-> normal, args |-> NormalOperands(i, normal, addr)]
=============================================================================
