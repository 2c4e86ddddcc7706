------------------------------- MODULE Loaders -------------------------------
(***************************************************************************)
(* The other readers of a COFF program: the conversion to a flat file      *)
(* (bin/coff2flat.c) and the loaders of the standalone interpreter         *)
(* (bin/main.c) and disassembler (bin/disasm.c).                           *)
(***************************************************************************)
EXTENDS Coff2Noff, FiniteSetsExt

CONSTANT MEMSIZE    \* bytes of the static array mem, which begins as zeros

Uninitialized == {".bss", ".sbss"}

(* coff2flat: the sections with bytes one after the other, a hole up to the  *)
(* end of the stack, and a blank word that makes the hole part of the file.  *)
WriteSection(file, s) == IF s.name \in Uninitialized THEN file ELSE file \o Bytes(s)
Flat(sections, stackSize) ==
    LET file == FoldLeft(WriteSection, << >>, sections)
        top == Max({s.paddr + s.size : s \in Range(sections)} \cup {0})
    IN  [k \in 1 .. Max({Len(file), top + stackSize}) |->
            IF k <= Len(file) THEN file[k] ELSE <<"hole", 0>>]

(* load_program: each section that has a place in the file goes to its       *)
(* virtual address.  The interpreter compares the end of the section with    *)
(* the size of mem, the disassembler every byte before it is stored.         *)
EmptyMemory == [ok |-> TRUE, mem |-> [a \in 0 .. MEMSIZE - 1 |-> <<"hole", 0>>]]
Place(m, s) ==
    [m EXCEPT !.mem = [a \in DOMAIN @ |->
        IF a \in s.paddr .. s.paddr + s.size - 1 THEN <<s.name, a - s.paddr>> ELSE @[a]]]
LOADSECTION(m, s) ==
    CASE ~m.ok \/ s.name \in Uninitialized -> m
      [] m.ok /\ s.name \notin Uninitialized /\ s.paddr + s.size >= MEMSIZE -> [m EXCEPT !.ok = FALSE]
      [] OTHER -> Place(m, s)
load_section(m, s) ==
    CASE ~m.ok \/ s.name \in Uninitialized -> m
      [] m.ok /\ s.name \notin Uninitialized /\ s.size > 0 /\ s.paddr + s.size > MEMSIZE ->
            [m EXCEPT !.ok = FALSE]
      [] OTHER -> Place(m, s)
LoadOrder == <<".text", ".rdata", ".data", ".sdata", ".sbss", ".bss">>
InLoadOrder(sections) ==
    FlattenSeq([k \in DOMAIN LoadOrder |-> SelectSeq(sections, LAMBDA s : s.name = LoadOrder[k])])
InterpreterMemory(sections) == FoldLeft(LOADSECTION, EmptyMemory, InLoadOrder(sections))
DisassemblerMemory(sections) == FoldLeft(load_section, EmptyMemory, InLoadOrder(sections))
=============================================================================
