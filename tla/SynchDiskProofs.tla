--------------------------- MODULE SynchDiskProofs ---------------------------
(***************************************************************************)
(* Proofs about SynchDisk, for any disk geometry and any finite set of     *)
(* threads: although the lock of SynchDisk excludes nobody, no completion  *)
(* of a request is lost, and requests take the time the geometry demands.  *)
(***************************************************************************)
EXTENDS SynchDisk, FiniteSetTheorems, TLAPS

-----------------------------------------------------------------------------
Sleepers == {t \in Thread : inP[t] # NULL}

(* The interrupt is pending only while the disk is active, and counting      *)
(* sleepers, units and the running request is balanced.  The track buffer    *)
(* began to be filled at the beginning of a sector.                          *)
IInv ==
    /\ value \in [{semaphore} -> Nat]
    /\ inP \in [Thread -> {semaphore, NULL}]
    /\ active \in BOOLEAN
    /\ totalTicks \in Nat /\ lastSector \in Int
    /\ \E b \in Int : bufferInit = RotationTime * b
    /\ pending # -1 => active = TRUE
    /\ NoLostCompletion

(* Division with remainder, and that quotient and remainder are unique: the  *)
(* arithmetic of Disk::ModuloDiff and of the sector boundaries.              *)
LEMMA DivMod ==
    ASSUME NEW a \in Int, NEW d \in Nat \ {0}
    PROVE  /\ a \div d \in Int
           /\ a % d \in 0 .. d - 1
           /\ a = d * (a \div d) + (a % d)
OBVIOUS

(* A multiple of d by at least one is at least d.                            *)
LEMMA Multiple ==
    ASSUME NEW k \in Int, NEW d \in Nat \ {0}, k >= 1
    PROVE  d * k >= d
OBVIOUS

(* The quotient and the remainder are determined by the sum.                 *)
LEMMA DivModUnique ==
    ASSUME NEW d \in Nat \ {0}, NEW k \in Int, NEW r \in 0 .. d - 1
    PROVE  (d * k + r) \div d = k /\ (d * k + r) % d = r
<1> DEFINE a == d * k + r
<1>1. a \in Int
  OBVIOUS
<1> DEFINE j == a \div d
           q == a % d
<1> HIDE DEF j, q, a
<1>2. j \in Int /\ q \in 0 .. d - 1 /\ a = d * j + q
  BY <1>1, DivMod DEF j, q
<1>3. d * (k - j) = q - r /\ d * (j - k) = r - q
  BY <1>2 DEF a
<1>4. ~ (k - j >= 1)
  BY <1>2, <1>3, Multiple
<1>5. ~ (j - k >= 1)
  BY <1>2, <1>3, Multiple
<1>6. k = j /\ r = q
  BY <1>2, <1>3, <1>4, <1>5
<1> QED
  BY <1>6 DEF j, q, a

(* Going round the track by whole turns leads to the same sector.            *)
LEMMA ModShift ==
    ASSUME NEW d \in Nat \ {0}, NEW a \in Int, NEW k \in Int
    PROVE  (a + d * k) % d = a % d
<1>1. PICK j \in Int, r \in 0 .. d - 1 : a = d * j + r /\ r = a % d
  BY DivMod
<1>2. a + d * k = d * (j + k) + r
  BY <1>1
<1>3. (d * (j + k) + r) % d = r
  BY DivModUnique
<1> QED
  BY <1>1, <1>2, <1>3

(* Disk::ModuloDiff is the distance from one sector of a track to another:   *)
(* less than a turn, and going that far leads there.                         *)
LEMMA ModuloDiffReaches ==
    ASSUME NEW to \in Int, NEW from \in Int, SectorsPerTrack \in Nat \ {0}
    PROVE  /\ ModuloDiff(to, from) \in 0 .. SectorsPerTrack - 1
           /\ \A x \in Int :
                (from + x + ModuloDiff(to, from)) % SectorsPerTrack = (to + x) % SectorsPerTrack
<1> DEFINE S == SectorsPerTrack
           diff == (to % S) - (from % S) + S
           D == diff % S
<1>1. PICK a \in Int, t \in 0 .. S - 1 : to = S * a + t /\ t = to % S
  BY DivMod
<1>2. PICK b \in Int, f \in 0 .. S - 1 : from = S * b + f /\ f = from % S
  BY DivMod
<1>3. diff = t - f + S
  BY <1>1, <1>2
<1>4. ModuloDiff(to, from) = D
  BY DEF ModuloDiff
<1> HIDE DEF diff
<1>5. PICK c \in Int : D \in 0 .. S - 1 /\ diff = S * c + D
  <2>1. diff \in Int
    BY <1>3
  <2> QED
    BY <2>1, DivMod
<1> HIDE DEF D, S
<1>6. ASSUME NEW x \in Int PROVE (from + x + D) % S = (to + x) % S
  <2>1. PICK k \in Int : k = b + 1 - c - a
    OBVIOUS
  <2>2. S * k = S * b + S - S * c - S * a
    BY <2>1 DEF S
  <2>3. from + x + D = (to + x) + S * k
    BY <1>1, <1>2, <1>3, <1>5, <2>2 DEF S
  <2>4. to + x \in Int /\ S \in Nat \ {0}
    BY DEF S
  <2>5. ((to + x) + S * k) % S = (to + x) % S
    BY <2>4, ModShift
  <2> QED
    BY <2>3, <2>5
<1> QED
  BY <1>4, <1>5, <1>6 DEF S

(* Disk::TimeToSeek returns no negative times, and after the seek and the    *)
(* wait that it computes the head is at the beginning of a sector.           *)
LEMMA AtBoundary ==
    ASSUME totalTicks \in Nat, lastSector \in Int, NEW s \in Int
    PROVE  /\ TimeToSeek(s) \in Nat
           /\ Rotation(s) \in Nat
           /\ TimeAfter(s) \in Nat
           /\ \E q \in Int : TimeAfter(s) = RotationTime * q
<1> USE SynchDiskAssumption
<1>1. TimeToSeek(s) \in Nat
  <2>1. (s \div SectorsPerTrack) - (lastSector \div SectorsPerTrack) \in Int
    BY DivMod
  <2>2. Abs((s \div SectorsPerTrack) - (lastSector \div SectorsPerTrack)) \in Nat
    BY <2>1 DEF Abs
  <2> QED
    BY <2>2 DEF TimeToSeek
<1> DEFINE arrival == totalTicks + TimeToSeek(s)
<1>2. arrival \in Int
  BY <1>1
<1>3. /\ Rotation(s) = IF arrival % RotationTime > 0
                       THEN RotationTime - (arrival % RotationTime) ELSE 0
      /\ TimeAfter(s) = arrival + Rotation(s)
  BY DEF Rotation, TimeAfter
<1> HIDE DEF arrival
<1>4. PICK j \in Int, r \in 0 .. RotationTime - 1 :
            arrival = RotationTime * j + r /\ r = arrival % RotationTime
  BY <1>2, DivMod
<1>5. Rotation(s) = IF r > 0 THEN RotationTime - r ELSE 0
  BY <1>3, <1>4
<1>6. Rotation(s) \in Nat
  BY <1>5
<1>7. TimeAfter(s) \in Nat
  BY <1>1, <1>6 DEF TimeAfter
<1>8. \E q \in Int : TimeAfter(s) = RotationTime * q
  <2>1. CASE r = 0
    <3>1. TimeAfter(s) = RotationTime * j
      BY <1>3, <1>4, <1>5, <2>1
    <3> QED
      BY <3>1
  <2>2. CASE r > 0
    <3>1. TimeAfter(s) = RotationTime * (j + 1)
      BY <1>3, <1>4, <1>5, <2>2
    <3> QED
      BY <3>1
  <2> QED
    BY <2>1, <2>2
<1> QED
  BY <1>1, <1>6, <1>7, <1>8

(* Disk::ComputeLatency is positive: the interrupt lies in the future.       *)
LEMMA LatencyPositive ==
    ASSUME totalTicks \in Nat, lastSector \in Int, NEW s \in Int, NEW writing \in BOOLEAN
    PROVE  ComputeLatency(s, writing) \in Nat \ {0}
<1> USE SynchDiskAssumption
<1>1. TimeToSeek(s) \in Nat /\ Rotation(s) \in Nat /\ TimeAfter(s) \div RotationTime \in Int
  BY AtBoundary, DivMod
<1>2. ModuloDiff(s, TimeAfter(s) \div RotationTime) \in Nat
  BY <1>1, ModuloDiffReaches
<1>3. ModuloDiff(s, TimeAfter(s) \div RotationTime) * RotationTime \in Nat
  BY <1>2
<1> QED
  BY <1>1, <1>3 DEF ComputeLatency

(* The latency of a request that goes to the disk, in every state.           *)
LEMMA LatencyIsExact ==
    ASSUME totalTicks \in Nat, lastSector \in Int
    PROVE  LatencyExact
<1> USE SynchDiskAssumption
<1> SUFFICES ASSUME NEW s \in Sectors, NEW writing \in BOOLEAN, ~InTrackBuffer(s, writing)
             PROVE  LET end == totalTicks + ComputeLatency(s, writing)
                    IN  /\ end % RotationTime = 0
                        /\ (end \div RotationTime) % SectorsPerTrack = (s + 1) % SectorsPerTrack
                        /\ end <= TimeAfter(s) + SectorsPerTrack * RotationTime
  BY DEF LatencyExact
<1> DEFINE end == totalTicks + ComputeLatency(s, writing)
<1>0. s \in Int
  BY DEF Sectors
<1>1. PICK q \in Int : TimeAfter(s) = RotationTime * q
  BY <1>0, AtBoundary
<1>2. TimeAfter(s) \div RotationTime = q
  BY <1>1, DivModUnique
<1>m. /\ ModuloDiff(s, q) \in 0 .. SectorsPerTrack - 1
      /\ \A x \in Int : (q + x + ModuloDiff(s, q)) % SectorsPerTrack = (s + x) % SectorsPerTrack
  BY <1>0, ModuloDiffReaches
<1>3. PICK D \in 0 .. SectorsPerTrack - 1 :
        D = ModuloDiff(s, q) /\ (q + 1 + D) % SectorsPerTrack = (s + 1) % SectorsPerTrack
  BY <1>m
<1>a. ComputeLatency(s, writing) = TimeToSeek(s) + Rotation(s) + RotationTime + D * RotationTime
  BY <1>2, <1>3 DEF ComputeLatency
<1>b. D * RotationTime \in Nat /\ TimeToSeek(s) \in Nat /\ Rotation(s) \in Nat
  BY <1>0, <1>3, AtBoundary
<1>4. end = RotationTime * q + RotationTime + D * RotationTime
  BY <1>1, <1>a, <1>b DEF TimeAfter
<1> HIDE DEF end
<1>5. end = RotationTime * (q + 1 + D) + 0
  BY <1>4
<1>6. end % RotationTime = 0 /\ end \div RotationTime = q + 1 + D
  BY <1>5, DivModUnique
<1>7. (D + 1) * RotationTime <= SectorsPerTrack * RotationTime
  <2>1. PICK m \in Nat : SectorsPerTrack = D + 1 + m
    OBVIOUS
  <2>2. SectorsPerTrack * RotationTime = (D + 1) * RotationTime + m * RotationTime
    BY <2>1
  <2>3. m * RotationTime \in Nat
    OBVIOUS
  <2> QED
    BY <2>2, <2>3
<1>8. end <= TimeAfter(s) + SectorsPerTrack * RotationTime
  BY <1>1, <1>4, <1>7
<1> QED
  BY <1>3, <1>6, <1>8 DEF end

(* What the track buffer holds, once it began to be filled at the beginning  *)
(* of a sector.                                                              *)
LEMMA BufferIsFilled ==
    ASSUME totalTicks \in Nat, lastSector \in Int, NEW b \in Int,
           bufferInit = RotationTime * b
    PROVE  TrackBufferFilled
<1> USE SynchDiskAssumption
<1> SUFFICES ASSUME NEW s \in Sectors, InTrackBuffer(s, FALSE)
             PROVE  \E begin \in bufferInit .. TimeAfter(s) - RotationTime :
                        /\ begin % RotationTime = 0
                        /\ (begin \div RotationTime) % SectorsPerTrack = s % SectorsPerTrack
  BY DEF TrackBufferFilled
<1>0. s \in Int
  BY DEF Sectors
<1>1. PICK q \in Int : TimeAfter(s) = RotationTime * q
  BY <1>0, AtBoundary
<1>2. bufferInit \div RotationTime = b
  BY DivModUnique
<1>3. (TimeAfter(s) - bufferInit) \div RotationTime = q - b
  <2>1. TimeAfter(s) - bufferInit = RotationTime * (q - b) + 0
    BY <1>1
  <2> QED
    BY <2>1, DivModUnique
<1>m. /\ ModuloDiff(s, b) \in 0 .. SectorsPerTrack - 1
      /\ \A x \in Int : (b + x + ModuloDiff(s, b)) % SectorsPerTrack = (s + x) % SectorsPerTrack
  BY <1>0, ModuloDiffReaches
<1>4. PICK D \in 0 .. SectorsPerTrack - 1 :
        D = ModuloDiff(s, b) /\ (b + 0 + D) % SectorsPerTrack = (s + 0) % SectorsPerTrack
  BY <1>m
<1>5. q - b > D
  BY <1>2, <1>3, <1>4 DEF InTrackBuffer
<1> DEFINE begin == RotationTime * (b + D) + 0
<1>6. begin % RotationTime = 0 /\ begin \div RotationTime = b + D
  BY DivModUnique
<1>7. begin \in bufferInit .. TimeAfter(s) - RotationTime
  <2>1. PICK m \in Nat : q = b + D + 1 + m
    BY <1>5
  <2>2. /\ RotationTime * q = RotationTime * (b + D) + RotationTime + RotationTime * m
        /\ RotationTime * (b + D) = RotationTime * b + RotationTime * D
        /\ RotationTime * m \in Nat /\ RotationTime * D \in Nat
    BY <2>1
  <2> QED
    BY <1>1, <2>2
<1>8. (begin \div RotationTime) % SectorsPerTrack = s % SectorsPerTrack
  BY <1>0, <1>4, <1>6
<1> QED
  BY <1>6, <1>7, <1>8

-----------------------------------------------------------------------------
(* A request: the caller sleeps, or takes the unit of another thread.        *)
LEMMA TransferIInv ==
    ASSUME IInv, NEW t \in Thread, NEW s \in Sectors, NEW writing \in BOOLEAN,
           Transfer(t, s, writing)
    PROVE  IInv'
<1> USE SynchDiskAssumption
<1>s. IsFiniteSet(Sleepers) /\ Cardinality(Sleepers) \in Nat
  BY FS_Subset, FS_CardinalityType DEF Sleepers
<1>1. CASE active
  BY <1>1 DEF IInv, NoLostCompletion, Transfer, diskVars
<1>2. CASE ~active
  <2>1. s \in Int
    BY DEF Sectors
  <2>2. /\ ComputeLatency(s, writing) \in Nat \ {0}
        /\ \E b \in Int : TimeAfter(s) = RotationTime * b
    BY <2>1, LatencyPositive, AtBoundary DEF IInv
  <2>3. Request(s, writing) /\ totalTicks' = totalTicks
    BY <1>2 DEF Transfer
  <2>4. /\ active' = TRUE
        /\ lastSector' \in Int /\ totalTicks' \in Nat
        /\ \E b \in Int : bufferInit' = RotationTime * b
    BY <2>1, <2>2, <2>3 DEF IInv, Request, UpdateLast
  <2>b. active' \in BOOLEAN
    BY <2>4
  <2>5. Cardinality(Sleepers) = value[semaphore]
    BY <1>2 DEF IInv, NoLostCompletion, Sleepers
  <2>6. CASE CS!Wait(t, semaphore)
    <3>1. Sleepers' = Sleepers \cup {t} /\ t \notin Sleepers
      BY <2>6 DEF Sleepers, CS!Wait, IInv, semaphore
    <3>2. Cardinality(Sleepers') = Cardinality(Sleepers) + 1
      BY <3>1, <1>s, FS_AddElement
    <3>3. value' = value /\ inP' \in [Thread -> {semaphore, NULL}]
      BY <2>6 DEF CS!Wait, IInv
    <3>4. NoLostCompletion'
      BY <2>4, <2>5, <3>2, <3>3, <1>s DEF IInv, NoLostCompletion, Sleepers
    <3> QED
      BY <2>4, <2>b, <3>3, <3>4 DEF IInv
  <2>7. CASE CS!Take(t, semaphore)
    <3>1. Sleepers' = Sleepers
      BY <2>7 DEF Sleepers, CS!Take, IInv, Transfer
    <3>2. /\ value' \in [{semaphore} -> Nat] /\ value'[semaphore] = value[semaphore] - 1
          /\ inP' \in [Thread -> {semaphore, NULL}]
      BY <2>7 DEF CS!Take, IInv
    <3>a. Cardinality(Sleepers') = value'[semaphore] + 1
      BY <2>5, <3>1, <3>2, <1>s DEF IInv
    <3>3. NoLostCompletion'
      BY <2>4, <3>a DEF NoLostCompletion, Sleepers
    <3> QED
      BY <2>4, <2>b, <3>2, <3>3 DEF IInv
  <2> QED
    BY <1>2, <2>6, <2>7 DEF Transfer
<1> QED
  BY <1>1, <1>2

(* A sleeper takes a unit and returns.                                       *)
LEMMA ReturnIInv ==
    ASSUME IInv, NEW t \in Thread, Return(t)
    PROVE  IInv'
<1> USE SynchDiskAssumption
<1>1. IsFiniteSet(Sleepers) /\ Cardinality(Sleepers) \in Nat
  BY FS_Subset, FS_CardinalityType DEF Sleepers
<1>2. Sleepers' = Sleepers \ {t} /\ t \in Sleepers
  BY DEF Sleepers, Return, CS!Take, IInv
<1>3. Cardinality(Sleepers') = Cardinality(Sleepers) - 1
  BY <1>1, <1>2, FS_RemoveElement
<1>4. /\ value' \in [{semaphore} -> Nat] /\ value'[semaphore] = value[semaphore] - 1
      /\ inP' \in [Thread -> {semaphore, NULL}]
  BY DEF Return, CS!Take, IInv
<1> QED
  BY <1>1, <1>3, <1>4 DEF IInv, NoLostCompletion, Sleepers, Return, diskVars

(* The interrupt turns the request into a unit.                              *)
LEMMA HandleInterruptIInv ==
    ASSUME IInv, HandleInterrupt
    PROVE  IInv'
<1>1. /\ value' \in [{semaphore} -> Nat] /\ value'[semaphore] = value[semaphore] + 1
      /\ inP' = inP
  BY DEF HandleInterrupt, CS!Release, IInv
<1>2. active = TRUE /\ active' = FALSE /\ pending' = -1
  BY DEF HandleInterrupt, IInv
<1>3. NoLostCompletion'
  BY <1>1, <1>2 DEF IInv, NoLostCompletion
<1> QED
  BY <1>1, <1>2, <1>3 DEF IInv, HandleInterrupt

(* Every step keeps the balance.                                             *)
LEMMA NextIInv == IInv /\ [Next]_vars => IInv'
<1> SUFFICES ASSUME IInv, [Next]_vars PROVE IInv'
  OBVIOUS
<1>1. CASE UNCHANGED vars
  BY <1>1 DEF vars, diskVars, IInv, NoLostCompletion
<1>2. CASE Tick
  BY <1>2 DEF Tick, diskVars, IInv, NoLostCompletion
<1> QED
  BY <1>1, <1>2, TransferIInv, ReturnIInv, HandleInterruptIInv DEF Next

(* The disk begins idle, with an empty semaphore.                            *)
LEMMA InitIInv == Init => IInv
<1> SUFFICES ASSUME Init PROVE IInv
  OBVIOUS
<1>1. value = [s \in {semaphore} |-> 0] /\ inP = [t \in Thread |-> NULL] /\ active = FALSE
  BY DEF Init, CS!Init
<1>2. Sleepers = {}
  BY <1>1 DEF Sleepers
<1>3. NoLostCompletion
  BY <1>1, <1>2, FS_EmptySet DEF NoLostCompletion, Sleepers
<1>4. value \in [{semaphore} -> Nat] /\ inP \in [Thread -> {semaphore, NULL}]
  BY <1>1
<1>5. active \in BOOLEAN
  BY <1>1
<1>6. \E b \in Int : bufferInit = RotationTime * b
  <2>1. bufferInit = RotationTime * 0
    BY SynchDiskAssumption DEF Init
  <2> QED
    BY <2>1
<1> QED
  BY <1>3, <1>4, <1>5, <1>6 DEF Init, IInv

(* So the invariant always holds.                                            *)
THEOREM Inductive == Spec => []IInv
BY InitIInv, NextIInv, PTL DEF Spec

(* Whatever threads share the disk, and although SynchDisk::lock is a stub,  *)
(* every thread in ReadSector or WriteSector is covered by the running       *)
(* request or by a unit (synchdisk.cc:75-78).                                *)
THEOREM CompletionsKept == Spec => []NoLostCompletion
<1>1. IInv => NoLostCompletion
  BY DEF IInv
<1> QED
  BY <1>1, Inductive, PTL

(* For every geometry and at every time, the latency that ComputeLatency     *)
(* charges ends exactly when the sector has passed (disk.cc:249).            *)
THEOREM LatencyAlwaysExact == Spec => []LatencyExact
<1>1. IInv => LatencyExact
  BY LatencyIsExact DEF IInv
<1> QED
  BY <1>1, Inductive, PTL

(* For every geometry, the track buffer answers only with sectors that the   *)
(* head has passed since it came to the track (disk.cc:241-243).             *)
THEOREM TrackBufferAlwaysFilled == Spec => []TrackBufferFilled
<1>1. IInv => TrackBufferFilled
  BY BufferIsFilled DEF IInv
<1> QED
  BY <1>1, Inductive, PTL

(* A request takes the time that the geometry demands, on either way through *)
(* Disk::ComputeLatency.                                                     *)
THEOREM TimingAlwaysRight == Spec => []TimingRight
BY LatencyAlwaysExact, TrackBufferAlwaysFilled, PTL DEF TimingRight

-----------------------------------------------------------------------------
(* What the balance does not need: the head is on the disk, and the clock    *)
(* and the times kept by the device are times.                               *)
Times ==
    /\ lastSector \in Sectors /\ bufferInit \in Nat
    /\ totalTicks \in 0 .. MaxTicks /\ pending \in Int /\ assertFailed \in BOOLEAN

(* The head begins on the first sector of the disk.                          *)
LEMMA InitTimes == Init => Times
<1> USE SynchDiskAssumption
<1>1. NumTracks * SectorsPerTrack >= SectorsPerTrack
  BY Multiple
<1>2. 0 \in Sectors
  BY <1>1 DEF Sectors
<1>3. Init => assertFailed \in BOOLEAN
  BY DEF Init
<1> QED
  BY <1>2, <1>3 DEF Init, Times

(* Every step leaves the head on the disk and the times what they are.       *)
LEMMA NextTimes ==
    ASSUME IInv, Times, [Next]_vars
    PROVE  Times'
<1> USE SynchDiskAssumption
<1>1. ASSUME NEW t \in Thread, NEW s \in Sectors, NEW writing \in BOOLEAN,
             Transfer(t, s, writing)
      PROVE  Times'
  <2>1. CASE active
    BY <1>1, <2>1 DEF Transfer, Times, diskVars
  <2>2. CASE ~active
    <3>1. s \in Int
      BY DEF Sectors
    <3>2. ComputeLatency(s, writing) \in Nat \ {0}
      BY <3>1, LatencyPositive DEF IInv
    <3>3. TimeToSeek(s) \in Nat /\ Rotation(s) \in Nat
      BY <3>1, AtBoundary DEF IInv
    <3>4. TimeAfter(s) \in Nat
      BY <3>3 DEF TimeAfter, IInv
    <3>5. /\ lastSector' = s /\ totalTicks' = totalTicks /\ assertFailed' = assertFailed
          /\ pending' = totalTicks + ComputeLatency(s, writing)
          /\ bufferInit' = TimeAfter(s) \/ bufferInit' = bufferInit
      BY <1>1, <2>2 DEF Transfer, Request, UpdateLast
    <3> QED
      BY <3>2, <3>4, <3>5 DEF Times, IInv
  <2> QED
    BY <2>1, <2>2
<1>2. ASSUME \/ \E t \in Thread : Return(t)
             \/ HandleInterrupt
             \/ UNCHANGED vars
      PROVE  Times'
  BY <1>2 DEF Return, HandleInterrupt, vars, diskVars, Times
<1>3. CASE Tick
  BY <1>3 DEF Tick, diskVars, Times
<1> QED
  BY <1>1, <1>2, <1>3 DEF Next

(* The semaphore never holds more units than threads wait for, the device    *)
(* stays within its disk, and no completion is lost (SynchDisk::ReadSector,  *)
(* WriteSector and RequestDone).                                             *)
THEOREM CompletionsAlwaysRight == Spec => []CompletionsRight
<1>1. IInv /\ Times => CompletionsRight
  <2> SUFFICES ASSUME IInv, Times PROVE CompletionsRight
    OBVIOUS
  <2>1. Cardinality(Sleepers) \in Nat /\ Cardinality(Sleepers) <= Cardinality(Thread)
        /\ Cardinality(Thread) \in Nat
    BY SynchDiskAssumption, FS_Subset, FS_CardinalityType DEF Sleepers
  <2>2. Cardinality(Sleepers) = value[semaphore] + (IF active THEN 1 ELSE 0)
    BY DEF IInv, NoLostCompletion, Sleepers
  <2>3. value[semaphore] <= Cardinality(Thread)
    BY <2>1, <2>2 DEF IInv
  <2>4. value \in [{semaphore} -> 0 .. Cardinality(Thread)]
    BY <2>1, <2>3 DEF IInv
  <2> QED
    BY <2>4 DEF CompletionsRight, TypeOK, IInv, Times
<1> QED
  BY <1>1, InitTimes, NextTimes, InitIInv, NextIInv, PTL DEF Spec
=============================================================================
