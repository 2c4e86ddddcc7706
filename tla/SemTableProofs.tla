---------------------------- MODULE SemTableProofs ----------------------------
(***************************************************************************)
(* Proofs about SemTable, for a table of any size and any programs: a name *)
(* that designates a semaphore keeps doing so, and a sleeper waits on the  *)
(* semaphore that a Signal of its name finds.                              *)
(***************************************************************************)
EXTENDS SemTable, WellFoundedInduction, TLAPS

-----------------------------------------------------------------------------
(* The lowest slot of a table, which BitMap::Find and STable::IsExist return *)
(* (Min in the model).                                                       *)

(* Every set of slots that is not empty has a lowest one.                    *)
LEMMA LowestExists ==
    ASSUME NEW S \in SUBSET Nat, S # {}
    PROVE  Min(S) \in S /\ \A y \in S : Min(S) <= y
<1> DEFINE R == OpToRel(<, Nat)
<1>0. IsWellFoundedOn(R, Nat)
  BY NatLessThanWellFounded
<1>a. \A x, y \in Nat : y < x => <<y, x>> \in R
  BY DEF OpToRel
<1> HIDE DEF R
<1>1. PICK x \in S : \A y \in S : ~ (<<y, x>> \in R)
  BY <1>0, WFMin
<1>2. ASSUME NEW y \in S PROVE x <= y
  <2>1. x \in Nat /\ y \in Nat
    OBVIOUS
  <2>2. ~ (y < x)
    BY <1>1, <1>a, <2>1
  <2> QED
    BY <2>1, <2>2
<1> QED
  BY <1>2 DEF Min

(* There is only one.                                                        *)
LEMMA LowestIs ==
    ASSUME NEW S \in SUBSET Nat, NEW m \in S, \A y \in S : m <= y
    PROVE  Min(S) = m
<1>1. Min(S) \in S /\ \A y \in S : Min(S) <= y
  BY LowestExists
<1>2. Min(S) \in Nat /\ m \in Nat /\ Min(S) <= m /\ m <= Min(S)
  BY <1>1
<1> QED
  BY <1>2

-----------------------------------------------------------------------------
(* The used slots are the lowest ones, and they hold the names; a process in *)
(* a stub has a name, and one that sleeps is in Wait.                        *)
Prefix == \E k \in 0 .. NumSlots : bm = 0 .. k - 1
Named == \A i \in Slots : i \in bm <=> semTab[i] \in Name
InStub == \A p \in Proc :
    /\ pc[p] # "user" => arg[p] \in Name
    /\ waits[p] # NULL => pc[p] = "Wait"

IInv == TypeOK /\ Prefix /\ Named /\ InStub /\ SleeperReachable

(* IsExist finds the lowest slot of a name that has one.                     *)
LEMMA Scan ==
    ASSUME NEW name \in Name
    PROVE  /\ IsExist(name) = -1 <=> Holding(name) = {}
           /\ IsExist(name) # -1 =>
                /\ IsExist(name) \in Holding(name)
                /\ \A i \in Holding(name) : IsExist(name) <= i
<1>1. Holding(name) \in SUBSET Nat
  BY SemTableAssumption DEF Holding, Slots
<1>2. CASE Holding(name) = {}
  BY <1>2 DEF IsExist
<1>3. CASE Holding(name) # {}
  <2>1. /\ Min(Holding(name)) \in Holding(name)
        /\ \A i \in Holding(name) : Min(Holding(name)) <= i
    BY <1>1, <1>3, LowestExists
  <2>2. Min(Holding(name)) \in Nat
    BY <1>1, <2>1
  <2> QED
    BY <1>3, <2>1, <2>2 DEF IsExist
<1> QED
  BY <1>2, <1>3

(* Find takes the first slot behind the used ones.                           *)
LEMMA FindNext ==
    ASSUME Prefix, bm # Slots
    PROVE  Find \in Slots /\ bm = 0 .. Find - 1
<1>1. PICK k \in 0 .. NumSlots : bm = 0 .. k - 1
  BY DEF Prefix
<1>2. k \in Slots \ bm
  BY <1>1, SemTableAssumption DEF Slots
<1>3. \A i \in Slots \ bm : k <= i
  BY <1>1, SemTableAssumption DEF Slots
<1>4. Slots \ bm \in SUBSET Nat
  BY SemTableAssumption DEF Slots
<1>5. Min(Slots \ bm) = k
  BY <1>2, <1>3, <1>4, LowestIs
<1> QED
  BY <1>1, <1>2, <1>5 DEF Find

(* A step that writes a name only behind the used slots changes no result of *)
(* IsExist but -1.                                                           *)
LEMMA ScanStable ==
    ASSUME IInv, NEW name \in Name, IsExist(name) # -1, NEW k \in Slots, NEW new \in Name,
           semTab' = semTab \/ (bm = 0 .. k - 1 /\ semTab' = [semTab EXCEPT ![k] = new])
    PROVE  IsExist(name)' = IsExist(name)
<1>1. CASE semTab' = semTab
  BY <1>1 DEF IsExist, Holding
<1>2. CASE bm = 0 .. k - 1 /\ semTab' = [semTab EXCEPT ![k] = new]
  <2> DEFINE m == IsExist(name)
  <2>1. m \in Holding(name) /\ \A i \in Holding(name) : m <= i
    BY Scan
  <2>2. Holding(name)' \subseteq Holding(name) \cup {k} /\ Holding(name) \subseteq Holding(name)'
    BY <1>2 DEF Holding, IInv, TypeOK, Named, Slots
  <2>3. m \in bm
    BY <2>1 DEF Holding, IInv, Named
  <2> HIDE DEF m
  <2>a. k \in Nat /\ m <= k
    BY <1>2, <2>3, SemTableAssumption DEF Slots
  <2>4. m \in Holding(name)' /\ \A i \in Holding(name)' : m <= i
    BY <2>1, <2>2, <2>a
  <2>5. Holding(name)' \in SUBSET Nat
    BY SemTableAssumption DEF Holding, Slots
  <2>6. Min(Holding(name)') = m
    BY <2>4, <2>5, LowestIs
  <2>7. IsExist(name)' = m
    BY <2>4, <2>6 DEF IsExist
  <2> QED
    BY <2>7 DEF m
<1> QED
  BY <1>1, <1>2

-----------------------------------------------------------------------------
(* CreateSemaphore fills the next slot, or none.                             *)
LEMMA CreateIInv ==
    ASSUME IInv, NEW p \in Proc, NEW init \in InitVals, CreateSemaphore(p, init)
    PROVE  /\ IInv'
           /\ \A name \in Name : IsExist(name) # -1 => IsExist(name)' = IsExist(name)
<1> USE SemTableAssumption
<1>0. arg[p] \in Name /\ waits[p] = NULL
  BY DEF IInv, InStub, CreateSemaphore, In
<1>1. /\ pc' = [pc EXCEPT ![p] = "Signal"] /\ arg' = [arg EXCEPT ![p] = arg[p]]
      /\ waits' = waits /\ machine' = machine
  BY DEF CreateSemaphore, RunOn
<1>2. CASE bm # Slots /\ bm' = bm \cup {Find} /\ semTab' = [semTab EXCEPT ![Find] = arg[p]]
           /\ value' = [value EXCEPT ![Find] = init] /\ Result(p, Find)
  <2>1. PICK k \in Slots : k = Find /\ bm = 0 .. k - 1
    BY <1>2, FindNext DEF IInv
  <2>2. /\ bm' = bm \cup {k} /\ semTab' = [semTab EXCEPT ![k] = arg[p]]
        /\ value' = [value EXCEPT ![k] = init] /\ r2' = [r2 EXCEPT ![p] = k]
    BY <1>2, <2>1 DEF Result
  <2>3. \A name \in Name : IsExist(name) # -1 => IsExist(name)' = IsExist(name)
    BY <1>0, <2>1, <2>2, ScanStable
  <2>4. TypeOK'
    BY <1>0, <1>1, <2>1, <2>2 DEF IInv, TypeOK, Stubs, Slots
  <2>5. Prefix' /\ Named'
    <3>1. k \in Nat /\ k + 1 \in 0 .. NumSlots /\ bm' = 0 .. (k + 1) - 1
      BY <2>1, <2>2 DEF Slots
    <3>2. Prefix'
      BY <3>1 DEF Prefix
    <3>3. Named'
      BY <1>0, <2>1, <2>2 DEF IInv, TypeOK, Named
    <3> QED
      BY <3>2, <3>3
  <2>6. InStub'
    BY <1>0, <1>1 DEF IInv, InStub, TypeOK
  <2>7. SleeperReachable'
    <3> SUFFICES ASSUME NEW q \in Proc, waits'[q] # NULL
                 PROVE  (waits[q] = IsExist(arg[q]) /\ waits[q] > 0)'
      BY DEF SleeperReachable
    <3>1. PICK name \in Name : name = arg[q] /\ name = arg'[q]
      BY <1>0, <1>1 DEF IInv, InStub, TypeOK
    <3>2. waits'[q] = IsExist(name) /\ waits'[q] > 0 /\ waits'[q] \in Slots
      BY <1>1, <3>1 DEF IInv, SleeperReachable, TypeOK
    <3>3. IsExist(name) # -1
      BY <3>2 DEF Slots
    <3>4. IsExist(arg[q])' = IsExist(name)'
      BY <3>1 DEF IsExist, Holding
    <3> QED
      BY <2>3, <3>2, <3>3, <3>4
  <2> QED
    BY <2>3, <2>4, <2>5, <2>6, <2>7 DEF IInv
<1>3. CASE Result(p, -1) /\ UNCHANGED <<bm, semTab, value>>
  <2>1. \A name : IsExist(name)' = IsExist(name)
    BY <1>3 DEF IsExist, Holding
  <2>2. TypeOK' /\ Prefix' /\ Named' /\ InStub'
    BY <1>0, <1>1, <1>3 DEF IInv, TypeOK, Prefix, Named, InStub, Result, Stubs
  <2>3. SleeperReachable'
    BY <1>0, <1>1, <2>1 DEF IInv, SleeperReachable, TypeOK
  <2> QED
    BY <2>1, <2>2, <2>3 DEF IInv
<1>4. bm # Slots \/ Find = -1
  BY DEF Find
<1> QED
  BY <1>2, <1>3, <1>4 DEF CreateSemaphore

(* With the table unchanged, a sleeper stays reachable if it kept its name   *)
(* and its slot or went to sleep on the slot that IsExist found.             *)
LEMMA SleepersKept ==
    ASSUME semTab' = semTab,
           \A q \in Proc : waits'[q] # NULL =>
                \E name \in Name : /\ name = arg'[q] /\ waits'[q] = IsExist(name)
                                   /\ waits'[q] > 0
    PROVE  SleeperReachable'
<1> SUFFICES ASSUME NEW q \in Proc, waits'[q] # NULL
             PROVE  (waits[q] = IsExist(arg[q]) /\ waits[q] > 0)'
  BY DEF SleeperReachable
<1>1. PICK name \in Name : name = arg'[q] /\ waits'[q] = IsExist(name) /\ waits'[q] > 0
  OBVIOUS
<1>2. IsExist(arg[q])' = IsExist(name)
  BY <1>1 DEF IsExist, Holding
<1> QED
  BY <1>1, <1>2

(* The other steps leave the table alone.                                    *)
LEMMA OtherIInv ==
    ASSUME IInv, NEW p \in Proc,
           \/ \E stub \in Stubs, name \in Name : Call(p, stub, name)
           \/ Signal(p) \/ Wait(p) \/ Resume(p) \/ Crash(p)
    PROVE  IInv' /\ \A name : IsExist(name)' = IsExist(name)
<1> USE SemTableAssumption
<1>1. bm' = bm /\ semTab' = semTab
  BY DEF Call, Signal, Wait, Resume, Crash
<1>2. \A name : IsExist(name)' = IsExist(name)
  BY <1>1 DEF IsExist, Holding
<1>3. Prefix' /\ Named'
  BY <1>1 DEF IInv, Prefix, Named
<1>4. \A name \in Name : IsExist(name) \in {-1} \cup Slots
  BY Scan DEF Holding
<1>a. \A q \in Proc : waits[q] # NULL =>
        arg[q] \in Name /\ waits[q] = IsExist(arg[q]) /\ waits[q] > 0 /\ pc[q] = "Wait"
  BY DEF IInv, InStub, SleeperReachable
<1>5. ASSUME NEW stub \in Stubs, NEW name \in Name, Call(p, stub, name)
      PROVE  TypeOK' /\ InStub' /\ SleeperReachable'
  <2>1. TypeOK' /\ InStub'
    BY <1>5 DEF Call, IInv, TypeOK, InStub, Stubs
  <2>2. SleeperReachable'
    <3>1. \A q \in Proc : waits'[q] # NULL => waits'[q] = waits[q] /\ arg'[q] = arg[q]
      BY <1>5, <1>a DEF Call, IInv, TypeOK
    <3> QED
      BY <1>1, <1>5, <1>a, <3>1, SleepersKept DEF Call
  <2> QED
    BY <2>1, <2>2
<1>6. ASSUME Signal(p) PROVE TypeOK' /\ InStub' /\ SleeperReachable'
  <2>0. arg[p] \in Name
    BY <1>6 DEF IInv, InStub, Signal, In
  <2>1. TypeOK'
    <3>1. IsExist(arg[p]) \in {-1} \cup Slots
      BY <1>4, <2>0
    <3>2. value' \in [Slots -> Nat] /\ waits' = waits
      BY <1>6, <3>1 DEF Signal, CS!Release, IInv, TypeOK
    <3>3. r2' \in [Proc -> {-1} \cup Slots]
      <4>1. 0 \in Slots
        BY DEF Slots
      <4>2. r2' = [r2 EXCEPT ![p] = -1] \/ r2' = [r2 EXCEPT ![p] = 0]
        BY <1>6 DEF Signal, Result
      <4> QED
        BY <4>1, <4>2 DEF IInv, TypeOK
    <3>4. pc' \in [Proc -> Stubs \cup {"user"}] /\ arg' \in [Proc -> Name \cup {NULL}]
      BY <1>6, <2>0 DEF Signal, RunOn, IInv, TypeOK, Stubs
    <3> QED
      BY <1>1, <1>6, <3>2, <3>3, <3>4 DEF Signal, RunOn, IInv, TypeOK
  <2>2. InStub'
    BY <1>6, <2>0 DEF Signal, In, RunOn, CS!Release, IInv, TypeOK, InStub
  <2>3. SleeperReachable'
    <3>2. waits' = waits
      BY <1>6 DEF Signal, CS!Release
    <3>1. \A q \in Proc : arg'[q] = arg[q]
      BY <1>6 DEF Signal, RunOn, IInv, TypeOK
    <3> QED
      BY <1>1, <1>a, <3>1, <3>2, SleepersKept
  <2> QED
    BY <2>1, <2>2, <2>3
<1>7. ASSUME Wait(p) PROVE TypeOK' /\ InStub' /\ SleeperReachable'
  <2>0. arg[p] \in Name /\ IsExist(arg[p]) \in {-1} \cup Slots
    BY <1>4, <1>7 DEF IInv, InStub, Wait, In
  <2>1. TypeOK'
    <3>2. value' \in [Slots -> Nat] /\ waits' \in [Proc -> Slots \cup {NULL}]
      BY <1>7, <2>0 DEF Wait, CS!Take, CS!Wait, IInv, TypeOK
    <3>3. r2' \in [Proc -> {-1} \cup Slots]
      BY <1>7 DEF Wait, Result, IInv, TypeOK, Slots
    <3>4. pc' \in [Proc -> Stubs \cup {"user"}] /\ arg' \in [Proc -> Name \cup {NULL}]
      BY <1>7 DEF Wait, RunOn, IInv, TypeOK
    <3> QED
      BY <1>1, <1>7, <3>2, <3>3, <3>4 DEF Wait, RunOn, IInv, TypeOK
  <2>2. InStub'
    BY <1>7, <2>0 DEF Wait, In, RunOn, CS!Take, CS!Wait, IInv, TypeOK, InStub
  <2>3. SleeperReachable'
    <3>1. \A q \in Proc \ {p} : waits'[q] = waits[q] /\ arg'[q] = arg[q]
      BY <1>7 DEF Wait, RunOn, CS!Take, CS!Wait, IInv, TypeOK
    <3>2. waits'[p] # NULL =>
            arg'[p] = arg[p] /\ waits'[p] = IsExist(arg[p]) /\ waits'[p] \notin {0, -1}
      BY <1>7 DEF Wait, In, CS!Take, CS!Wait, IInv, TypeOK
    <3>3. waits'[p] # NULL => waits'[p] > 0
      BY <2>0, <3>2 DEF Slots
    <3> QED
      BY <1>1, <1>a, <2>0, <3>1, <3>2, <3>3, SleepersKept
  <2> QED
    BY <2>1, <2>2, <2>3
<1>8. ASSUME Resume(p) PROVE TypeOK' /\ InStub' /\ SleeperReachable'
  <2>1. TypeOK'
    BY <1>8 DEF Resume, RunOn, Result, CS!Take, IInv, TypeOK, Stubs, Slots
  <2>2. InStub'
    BY <1>8 DEF Resume, RunOn, CS!Take, IInv, TypeOK, InStub
  <2>3. SleeperReachable'
    <3>1. \A q \in Proc : waits'[q] # NULL => waits'[q] = waits[q] /\ arg'[q] = arg[q]
      BY <1>8 DEF Resume, RunOn, CS!Take, IInv, TypeOK
    <3> QED
      BY <1>1, <1>a, <3>1, SleepersKept
  <2> QED
    BY <2>1, <2>2, <2>3
<1>9. ASSUME Crash(p) PROVE TypeOK' /\ InStub' /\ SleeperReachable'
  BY <1>9 DEF Crash, IInv, TypeOK, InStub, SleeperReachable, IsExist, Holding
<1> QED
  BY <1>2, <1>3, <1>5, <1>6, <1>7, <1>8, <1>9 DEF IInv

-----------------------------------------------------------------------------
(* The table begins without names, whatever its memory holds.                *)
LEMMA InitIInv == Init => IInv
<1> SUFFICES ASSUME Init PROVE IInv
  OBVIOUS
<1> USE SemTableAssumption DEF Init, CS!Init
<1>1. TypeOK
  BY DEF TypeOK, Slots
<1>2. Prefix
  <2>1. bm = 0 .. 0 - 1
    OBVIOUS
  <2> QED
    BY <2>1 DEF Prefix
<1>3. Named /\ InStub /\ SleeperReachable
  BY DEF Named, InStub, SleeperReachable
<1> QED
  BY <1>1, <1>2, <1>3 DEF IInv

(* Every step keeps the invariant, and the slot of every name that has one.  *)
LEMMA NextIInv ==
    ASSUME IInv, [Next]_vars
    PROVE  /\ IInv'
           /\ \A name \in Name : IsExist(name) # -1 => IsExist(name)' = IsExist(name)
<1>1. CASE UNCHANGED vars
  BY <1>1 DEF vars, IInv, TypeOK, Prefix, Named, InStub, SleeperReachable, IsExist, Holding
<1>2. CASE Next
  BY <1>2, CreateIInv, OtherIInv DEF Next
<1> QED
  BY <1>1, <1>2

(* So it always holds.                                                       *)
THEOREM Inductive == Spec => []IInv
<1>1. IInv /\ [Next]_vars => IInv'
  BY NextIInv
<1> QED
  BY <1>1, InitIInv, PTL DEF Spec

(* A name designates the same semaphore for ever, in a table of any size,    *)
(* although Create accepts a name again (stable.cc:38-47).                   *)
THEOREM NamesStay == Spec => NameStable
<1>1. IInv /\ [Next]_vars =>
        [\A name \in Name : IsExist(name) # -1 => IsExist(name)' = IsExist(name)]_vars
  BY NextIInv
<1> QED
  BY <1>1, Inductive, PTL DEF Spec, NameStable

(* A sleeper can be reached by a Signal of the name it waited for            *)
(* (stable.cc:50-81, exception.cc:215).                                      *)
THEOREM SleepersReachable == Spec => []SleeperReachable
<1>1. IInv => SleeperReachable
  BY DEF IInv
<1> QED
  BY <1>1, Inductive, PTL

(* The table stays well-formed, and a sleeper can be reached by a Signal of  *)
(* its name, in a table of any size (STable::Create, Wait and Signal).       *)
THEOREM TableAlwaysUsable == Spec => []TableUsable
<1>1. IInv => TableUsable
  BY DEF IInv, TableUsable
<1> QED
  BY <1>1, Inductive, PTL
=============================================================================
