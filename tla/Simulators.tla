----------------------------- MODULE Simulators -----------------------------
(***************************************************************************)
(* The CPU of the Nachos machine (Mips) run in lockstep with the           *)
(* stand-alone interpreter of the bin directory (Execute): two             *)
(* implementations of the same instruction set in the same repository.     *)
(* They start in the same registers and the same virtual memory and are    *)
(* fed the same instruction words; the pair goes on until an instruction   *)
(* the two are known to treat differently, after which only the Nachos     *)
(* machine runs.                                                           *)
(***************************************************************************)
EXTENDS Mips, Disasm

CONSTANTS Starts,          \* [regs, tlb, entries, steps]: where a run begins
          Memory,          \* the bytes of physical memory at the start
          LeadIns,         \* instruction words of all steps but the last
          Instructions     \* instruction words of the last step

ASSUME NumRegs = NumGPRegs /\ Region = RegionSize

VARIABLES steps, clean,
          traced           \* the instructions printed in a trace: the last one,
                           \* with the address it was fetched from

vars == <<mipsVars, executeVars, steps, clean, traced>>

Mapped(va) == Fault(va, 1, FALSE) = "none"

Init ==
  \E s \in Starts :
    /\ registers = [r \in 0 .. NumTotalRegs - 1 |->
                      CASE r \in GPRegs -> s.regs[r] [] r = NextPCReg -> 4 [] OTHER -> 0]
    /\ mainMemory = Memory
    /\ entries = s.entries /\ tlb = s.tlb
    /\ exception = "none"
    /\ Reg = s.regs /\ HI = 0 /\ LO = 0
    /\ pc = 0 /\ npc = 4
    /\ mem = [va \in Words |-> IF Mapped(va) THEN Memory[Physical(va)] ELSE 0]
    /\ stopped = FALSE
    /\ steps = s.steps /\ clean = TRUE
    /\ traced = << >>

-----------------------------------------------------------------------------
Linking == {"JAL", "JALR", "BLTZAL", "BGEZAL"}
Relative == {"BEQ", "BNE", "BLEZ", "BGTZ", "BLTZ", "BGEZ", "BLTZAL", "BGEZAL"}

\* The instruction touches the register a delayed load is about to write.
LoadHazard(d) ==
  /\ R(LoadReg) # 0
  /\ R(LoadReg) \in {d.rs, d.rt, d.rd} \cup (IF d.op \in Linking THEN {R31} ELSE {})

\* Branches and calls count from NextPC in Nachos and from pc in execute.c:
\* they part in the delay slot of a taken branch.
InDelaySlot(d) == d.op \in Linking \cup Relative /\ R(NextPCReg) # Trunc(R(PCReg) + 4)

\* Where the two implementations compute different things.
Differs(d) ==
  LET rs == R(d.rs) rt == R(d.rt) mag(x) == IF Negative(x) THEN Neg(x) ELSE x IN
  CASE d.op = "OR" -> rs | rt # rs
    [] d.op = "SRL" -> Negative(rt) /\ d.extra # 0
    [] d.op = "SRLV" -> Negative(rt) /\ rs % W # 0
    [] d.op \in {"ANDI", "ORI", "XORI"} -> Negative(d.extra)
    [] d.op = "MULT" -> mag(rs) >= 2 ^ H \/ mag(rt) >= 2 ^ H
    [] d.op = "MULTU" -> rs >= 2 ^ H \/ rt >= 2 ^ H
    [] d.op \in {"DIV", "DIVU"} -> rt = 0
    [] d.op \in {"J", "JAL"} -> Link \div RegionSize # R(PCReg) \div RegionSize
    [] d.op = "JALR" -> d.rd = d.rs
    [] d.op \in {"LWL", "LWR", "SWL", "SWR"} -> TRUE
    [] OTHER -> FALSE

Comparable(d) == ~ LoadHazard(d) /\ ~ InDelaySlot(d) /\ ~ Differs(d)

Step ==
  \E i \in IF steps > 1 THEN LeadIns ELSE Instructions :
    /\ steps > 0
    /\ OneInstruction(i)
    /\ steps' = steps - 1
    /\ clean' = (clean /\ Comparable(Decode(i)) /\ exception' = "none")
    /\ IF clean' THEN runprogram(i) ELSE UNCHANGED executeVars
    /\ traced' = IF Mapped(R(PCReg)) THEN <<i, R(PCReg)>> ELSE << >>

Interrupted == steps > 0 /\ InterruptDelivered /\ UNCHANGED <<executeVars, steps, clean, traced>>

Next == Step \/ Interrupted
Spec == Init /\ [][Next]_vars

-----------------------------------------------------------------------------
\* Every register and byte is a word and a byte of the machine, and R0 reads
\* zero between any two instructions (DelayedLoad's last assignment).
TypeOK ==
  /\ MipsTypeOK
  /\ registers[0] = 0
  /\ Reg \in [GPRegs -> Words] /\ HI \in Words /\ LO \in Words
  /\ pc \in Words /\ npc \in Words
  /\ clean => ~ stopped

\* The two simulators agree: decoding, arithmetic, branches, delay slots,
\* links, loads and stores of OneInstruction give what runprogram's loop
\* gives, once the load still on its way is counted, for every program that
\* has stayed clear of the differences listed above.
SimulatorsAgree ==
  clean =>
    /\ \A r \in GPRegs \ {0} : Pending(r) = Reg[r]
    /\ R(HiReg) = HI /\ R(LoReg) = LO
    /\ R(PCReg) = pc /\ R(NextPCReg) = npc
    /\ \A va \in Words : Mapped(va) => mainMemory[Physical(va)] = mem[va]

\* The simulators are in step, with well-formed registers and memories.
Lockstep == TypeOK /\ SimulatorsAgree

\* The arithmetic of OneInstruction is exact: ADD, ADDI and SUB trap exactly
\* when the signed result does not fit a word, and Mult's shift-and-add loop
\* with its carry and its negation yields the double-word product, for the
\* registers of every state in which an instruction is to come.
ArithmeticExact ==
  steps > 0 => \A a, b \in GPRegs :
    LET d == [rs |-> a, rt |-> b, rd |-> 1, extra |-> R(b)]
        fits(x) == x \in -(2 ^ (W - 1)) .. (2 ^ (W - 1) - 1)
        pair(x) == <<(x \div 2 ^ W) % 2 ^ W, x % 2 ^ W>>
    IN /\ ADD(d).fault = "none" <=> fits(Signed(R(a)) + Signed(R(b)))
       /\ ADDI(d).fault = "none" <=> fits(Signed(R(a)) + Signed(R(b)))
       /\ SUB(d).fault = "none" <=> fits(Signed(R(a)) - Signed(R(b)))
       /\ Mult(R(a), R(b), TRUE) = pair(Signed(R(a)) * Signed(R(b)))
       /\ Mult(R(a), R(b), FALSE) = pair(R(a) * R(b))

\* The traces of the two simulators agree: OneInstruction with opStrings and
\* dump_ascii with normalops and specialops name the same operation for every
\* instruction word, and print the same operands in the same order.  Known to
\* differ are BEQ and BNE (order), BLEZ and BGTZ (dump_ascii prints none), JR
\* and JALR (one register or two), MFLO and MTHI (dump_ascii prints the field
\* that the instruction does not use).
TracesAgree ==
  traced # << >> =>
    LET i == traced[1]
        n == Trace(Decode(i))
        b == dump_ascii(i, traced[2])
    IN /\ IF n.op \in {"UNIMP", "RES"} THEN b.op \notin DOMAIN MajorCode \cup DOMAIN SpecialCode
                                          \/ b.op \in {"BREAK", "BCOND"}
          ELSE b.op = (IF IsNop(i) THEN "NOP" ELSE n.op)
       /\ n.op \notin Relative \cup {"J", "JAL", "JR", "JALR", "MFLO", "MTHI", "UNIMP", "RES"}
            /\ ~ IsNop(i) => b.args = n.args

\* The address that dump_ascii prints for a branch or a jump is the one that
\* both simulators go to when it is taken, behind the delay slot.
TraceShowsTarget ==
  traced # << >> /\ clean =>
    LET b == dump_ascii(traced[1], traced[2])
    IN b.op \in (Relative \ {"BLEZ", "BGTZ"}) \cup {"J", "JAL"} =>
         R(NextPCReg) \in {Trunc(R(PCReg) + 4), b.args[Len(b.args)]}

\* A trace is true: it names what runs and where it goes.
TracesRight == TracesAgree /\ TraceShowsTarget

\* An instruction that traps has done nothing: the program counters, Hi, Lo
\* and memory are as before, and so are the general registers but for the
\* load already under way, so that the kernel can run it again (the comment
\* of OneInstruction promises the re-start).
TrapsRestartable ==
  [][exception' # "none" =>
       /\ mainMemory' = mainMemory
       /\ \A r \in {HiReg, LoReg, PCReg, NextPCReg} : registers'[r] = registers[r]
       /\ \A r \in GPRegs \ {0} : registers'[r] \in {registers[r], Pending(r)}
       /\ \A n \in DOMAIN entries : entries'[n].dirty = entries[n].dirty]_vars

\* A store lands only in a page the kernel mapped writable, and leaves its
\* dirty bit set: Translate is on the way of every write.
WritesTracked ==
  [][\A a \in DOMAIN mainMemory : mainMemory'[a] # mainMemory[a] =>
       \E n \in DOMAIN entries :
         /\ entries[n].physicalPage = a \div PageSize
         /\ entries[n].valid /\ ~ entries[n].readOnly
         /\ entries'[n].dirty /\ entries'[n].use]_vars
=============================================================================
