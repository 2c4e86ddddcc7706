---------------------------- MODULE MCSimulators ----------------------------
(* Words of four one-bit bytes, pages of one word, two frames. *)
EXTENDS Simulators

Page(vp, frame, valid, ro) ==
  [virtualPage |-> vp, physicalPage |-> frame, valid |-> valid, readOnly |-> ro,
   use |-> FALSE, dirty |-> FALSE]
MCMemory == [a \in 0 .. 7 |-> IF a \in {1, 2, 4, 7} THEN 1 ELSE 0]

\* A page table: code and data, a read-only page, a page that is not in
\* memory; the last virtual page lies beyond it.  A TLB with a stale entry,
\* and a translation to a frame that does not exist.
Table == <<Page(0, 1, TRUE, FALSE), Page(1, 0, TRUE, TRUE), Page(2, 0, FALSE, FALSE)>>
Tlb == <<Page(0, 0, FALSE, FALSE), Page(1, 0, TRUE, FALSE), Page(0, 1, TRUE, FALSE),
         Page(2, 2, TRUE, FALSE)>>

Start(a, b, c, es, isTlb, n) ==
  [regs |-> [r \in 0 .. 3 |-> <<0, a, b, c>>[r + 1]], entries |-> es, tlb |-> isTlb, steps |-> n]
MCStarts ==
  {Start(a, b, 12, Table, FALSE, 1) : a \in 0 .. 15, b \in {0, 1, 3, 7, 8, 9, 15}}
  \cup {Start(a, b, 4, Tlb, TRUE, 1) : a \in {0, 4, 8, 14}, b \in {5}}
  \cup {Start(0, 9, 4, Tlb, TRUE, 3), Start(4, 2, 0, Table, FALSE, 3)}

Word1(major, minor, f, ext) ==
  [major |-> major, minor |-> minor, rs |-> f[1], rt |-> f[2], rd |-> f[3], ext |-> ext]
Fields == {<<1, 2, 3>>, <<2, 1, 2>>, <<3, 1, 1>>, <<0, 3, 0>>}
MCInstructions ==
  {Word1(m, 0, f, x) : m \in {2, 3} \cup (4 .. 16) \cup {20} \cup (32 .. 38) \cup (40 .. 46) \cup {48},
                       f \in Fields, x \in 0 .. 3}
  \cup {Word1(0, n, f, 1) : n \in 0 .. 47, f \in Fields}
  \cup {Word1(0, 0, <<0, 0, 0>>, 0)}
  \cup {Word1(1, n, f, x) : n \in {0, 1, 2, 16, 17}, f \in Fields, x \in {1, 2}}
MCLeadIns ==
  {Word1(m, 0, <<1, 2, 3>>, 0) : m \in {4, 35, 36, 38, 43}}
  \cup {Word1(m, 0, <<0, 1, 3>>, 1) : m \in {5, 32, 9, 40}}
  \cup {Word1(0, n, f, 0) : n \in {9, 24, 33}, f \in {<<1, 2, 3>>, <<3, 1, 1>>}}
=============================================================================
