---------------------------- MODULE MCAddrSpace ----------------------------
(* Two processes in six frames of two bytes.  The programs have the sections *)
(* of test/script in its order, one after the other, with sizes around the   *)
(* page size; those that coff2noff refuses are left out.                     *)
EXTENDS AddrSpace

Layout(text, rdata, data, sbss, bss) ==
    << [name |-> ".text",  paddr |-> 0, size |-> text],
       [name |-> ".rdata", paddr |-> text, size |-> rdata],
       [name |-> ".data",  paddr |-> text + rdata, size |-> data],
       [name |-> ".sbss",  paddr |-> text + rdata + data, size |-> sbss],
       [name |-> ".bss",   paddr |-> text + rdata + data + sbss, size |-> bss] >>
Initialized == {<<0, 0>>, <<0, 3>>, <<2, 0>>}
MCPrograms ==
    {prog \in {Layout(t, i[1], i[2], s, b) : t \in {2, 3}, i \in Initialized, s \in {0, 1}, b \in {0, 1}} :
        Convert(prog).ok}
=============================================================================
