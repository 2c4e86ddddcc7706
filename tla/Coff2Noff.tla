------------------------------ MODULE Coff2Noff ------------------------------
(***************************************************************************)
(* The conversion of a linked program from COFF to NOFF (bin/coff2noff.c). *)
(* A COFF program is the sequence of its sections, a NOFF program a header *)
(* with three segments and the bytes that follow it.  A byte is the pair   *)
(* of its section's name and its offset there.                             *)
(***************************************************************************)
EXTENDS Integers, Sequences, SequencesExt

Bytes(s) == [k \in 1 .. s.size |-> <<s.name, k - 1>>]

(* The segments not in the file have size 0; the magic numbers of the COFF   *)
(* file are taken to be right.                                               *)
Empty == [size |-> 0, virtualAddr |-> 0, inFileAddr |-> 0]
EmptyNoff == [ok |-> TRUE, code |-> Empty, initData |-> Empty, uninitData |-> Empty,
              file |-> << >>]

(* A segment whose bytes are appended to the NOFF file. *)
Segment(noff, s) ==
    [size |-> s.size, virtualAddr |-> s.paddr, inFileAddr |-> Len(noff.file)]

CopyText(noff, s) ==
    [noff EXCEPT !.code = Segment(noff, s), !.file = @ \o Bytes(s)]

(* Only one of .rdata and .data may have bytes. *)
CopyData(noff, s) ==
    IF noff.initData.size # 0 THEN [noff EXCEPT !.ok = FALSE]
    ELSE [noff EXCEPT !.initData = Segment(noff, s), !.file = @ \o Bytes(s)]

(* A second section of uninitialized data that begins where the first ends   *)
(* is refused; another one is counted in.                                    *)
CopyBss(noff, s) ==
    LET u == noff.uninitData
    IN  CASE u.size = 0 -> [noff EXCEPT !.uninitData = [Segment(noff, s) EXCEPT !.inFileAddr = 0]]
          [] u.size # 0 /\ s.paddr = u.virtualAddr + u.size -> [noff EXCEPT !.ok = FALSE]
          [] OTHER -> [noff EXCEPT !.uninitData.size = @ + s.size]

(* One round of the loop; the program exits at the first error. *)
CopySection(noff, s) ==
    CASE ~noff.ok \/ s.size = 0 -> noff
      [] noff.ok /\ s.size # 0 /\ s.name = ".text" -> CopyText(noff, s)
      [] noff.ok /\ s.size # 0 /\ s.name \in {".data", ".rdata"} -> CopyData(noff, s)
      [] noff.ok /\ s.size # 0 /\ s.name \in {".bss", ".sbss"} -> CopyBss(noff, s)
      [] OTHER -> [noff EXCEPT !.ok = FALSE]

Convert(sections) == FoldLeft(CopySection, EmptyNoff, sections)
=============================================================================
