------------------------------ MODULE SynchDisk ------------------------------
(***************************************************************************)
(* The simulated disk (machine/disk.cc) and the synchronous interface that *)
(* the file system uses (filesys/synchdisk.cc).                            *)
(*                                                                         *)
(* Lock::Acquire and Lock::Release do nothing (threads/synch.cc:103), so   *)
(* threads that share the disk run ReadSector and WriteSector without      *)
(* mutual exclusion.  Interrupts are only taken where a P or V turns them  *)
(* back on, so a request and the P that follows it are one step.  The data *)
(* of a sector move when the request is made and are left out; time is     *)
(* kept, because ComputeLatency depends on where the head is.              *)
(***************************************************************************)
EXTENDS Integers, FiniteSets

CONSTANTS
    Thread,           \* threads that use the disk
    NumTracks,
    SectorsPerTrack,
    RotationTime,     \* ticks in which the disk rotates by one sector
    SeekTime,         \* ticks to move the head to the next track
    MaxTicks,         \* bound on the clock
    NULL

ASSUME SynchDiskAssumption ==
    /\ NumTracks \in Nat \ {0} /\ SectorsPerTrack \in Nat \ {0}
    /\ RotationTime \in Nat \ {0} /\ SeekTime \in Nat \ {0}
    /\ MaxTicks \in Nat
    /\ NULL # "semaphore" /\ IsFiniteSet(Thread)

Sectors == 0 .. NumTracks * SectorsPerTrack - 1
semaphore == "semaphore"

VARIABLES
    active,      \* Disk::active
    lastSector,  \* Disk::lastSector
    bufferInit,  \* Disk::bufferInit
    pending,     \* when the disk interrupt is due, or -1
    totalTicks,  \* the clock
    value,       \* the semaphore of SynchDisk
    inP,         \* the threads that sleep in its P
    assertFailed \* a request found the disk active

diskVars == <<active, lastSector, bufferInit, pending>>
vars == <<diskVars, totalTicks, value, inP, assertFailed>>

CS == INSTANCE CountingSemaphore WITH
        Sem <- {semaphore}, initialValue <- [s \in {semaphore} |-> 0]

-----------------------------------------------------------------------------
Abs(n) == IF n < 0 THEN -n ELSE n

(* Disk::TimeToSeek: the seek, and the time from its end to the next sector  *)
(* boundary.                                                                 *)
TimeToSeek(newSector) ==
    Abs((newSector \div SectorsPerTrack) - (lastSector \div SectorsPerTrack)) * SeekTime
Rotation(newSector) ==
    LET over == (totalTicks + TimeToSeek(newSector)) % RotationTime
    IN  IF over > 0 THEN RotationTime - over ELSE 0

(* Disk::ModuloDiff *)
ModuloDiff(to, from) ==
    ((to % SectorsPerTrack) - (from % SectorsPerTrack) + SectorsPerTrack) % SectorsPerTrack

(* Disk::ComputeLatency *)
TimeAfter(newSector) == totalTicks + TimeToSeek(newSector) + Rotation(newSector)
InTrackBufferEarly(newSector, writing) ==
    /\ ~writing /\ TimeToSeek(newSector) = 0
    /\ (TimeAfter(newSector) - bufferInit) \div RotationTime
            >= ModuloDiff(newSector, bufferInit \div RotationTime)
InTrackBuffer(newSector, writing) ==
    /\ ~writing /\ TimeToSeek(newSector) = 0
    /\ (TimeAfter(newSector) - bufferInit) \div RotationTime
            > ModuloDiff(newSector, bufferInit \div RotationTime)
ComputeLatency(newSector, writing) ==
    IF InTrackBuffer(newSector, writing) THEN RotationTime
    ELSE TimeToSeek(newSector) + Rotation(newSector) + RotationTime
         + ModuloDiff(newSector, TimeAfter(newSector) \div RotationTime) * RotationTime

(* Disk::UpdateLast *)
UpdateLast(newSector) ==
    /\ bufferInit' = IF TimeToSeek(newSector) # 0 THEN TimeAfter(newSector) ELSE bufferInit
    /\ lastSector' = newSector

(* Disk::ReadRequest and WriteRequest, when the disk is not active. *)
Request(newSector, writing) ==
    /\ active' = TRUE
    /\ UpdateLast(newSector)
    /\ pending' = totalTicks + ComputeLatency(newSector, writing)

-----------------------------------------------------------------------------
Init ==
    /\ active = FALSE
    /\ lastSector = 0
    /\ bufferInit = 0
    /\ pending = -1
    /\ totalTicks = 0
    /\ CS!Init
    /\ assertFailed = FALSE

(* SynchDisk::ReadSector and WriteSector, up to the P.  A unit that another  *)
(* thread has not taken yet lets the caller return before its own request is *)
(* done.                                                                     *)
Transfer(t, newSector, writing) ==
    /\ ~assertFailed /\ inP[t] = NULL
    /\ IF active
       THEN assertFailed' = TRUE /\ UNCHANGED <<diskVars, value, inP>>
       ELSE /\ Request(newSector, writing)
            /\ CS!Wait(t, semaphore) \/ CS!Take(t, semaphore)
            /\ UNCHANGED assertFailed
    /\ UNCHANGED totalTicks

(* The end of ReadSector and WriteSector: the sleeper takes a unit. *)
Return(t) ==
    /\ ~assertFailed /\ inP[t] # NULL
    /\ CS!Take(t, semaphore)
    /\ UNCHANGED <<diskVars, totalTicks, assertFailed>>

(* Disk::HandleInterrupt and SynchDisk::RequestDone. *)
HandleInterruptSilent ==
    /\ ~assertFailed /\ pending # -1 /\ pending <= totalTicks
    /\ active' = FALSE
    /\ pending' = -1
    /\ UNCHANGED <<value, inP, lastSector, bufferInit, totalTicks, assertFailed>>
HandleInterrupt ==
    /\ ~assertFailed /\ pending # -1 /\ pending <= totalTicks
    /\ active' = FALSE
    /\ pending' = -1
    /\ CS!Release(semaphore)
    /\ UNCHANGED <<lastSector, bufferInit, totalTicks, assertFailed>>

Tick ==
    /\ ~assertFailed /\ totalTicks < MaxTicks
    /\ totalTicks' = totalTicks + 1
    /\ UNCHANGED <<diskVars, value, inP, assertFailed>>

Next ==
    \/ \E t \in Thread :
        \/ Return(t)
        \/ \E s \in Sectors, writing \in BOOLEAN : Transfer(t, s, writing)
    \/ HandleInterrupt
    \/ Tick

Spec == Init /\ [][Next]_vars

-----------------------------------------------------------------------------
TypeOK ==
    /\ active \in BOOLEAN /\ assertFailed \in BOOLEAN
    /\ lastSector \in Sectors
    /\ bufferInit \in Nat /\ totalTicks \in 0 .. MaxTicks
    /\ pending \in Int
    /\ value \in [{semaphore} -> 0 .. Cardinality(Thread)]
    /\ inP \in [Thread -> {semaphore, NULL}]

(* No completion is lost: every thread in ReadSector or WriteSector is       *)
(* covered by the running request or by a unit of the semaphore, although    *)
(* threads can take each other's units (synchdisk.cc:75-78).                 *)
NoLostCompletion ==
    Cardinality({t \in Thread : inP[t] # NULL}) = value[semaphore] + (IF active THEN 1 ELSE 0)

(* A request that the track buffer cannot serve ends exactly when the sector *)
(* has passed under the head (disk.cc:249).                                  *)
LatencyExact ==
    \A s \in Sectors, writing \in BOOLEAN :
        LET end == totalTicks + ComputeLatency(s, writing)
        IN  ~InTrackBuffer(s, writing) =>
                /\ end % RotationTime = 0
                /\ (end \div RotationTime) % SectorsPerTrack = (s + 1) % SectorsPerTrack
                /\ end <= TimeAfter(s) + SectorsPerTrack * RotationTime

(* The track buffer answers a read only if the whole sector has passed under *)
(* the head since the head came to the track (disk.cc:241-243).              *)
TrackBufferFilled ==
    \A s \in Sectors :
        InTrackBuffer(s, FALSE) =>
            \E begin \in bufferInit .. TimeAfter(s) - RotationTime :
                /\ begin % RotationTime = 0
                /\ (begin \div RotationTime) % SectorsPerTrack = s % SectorsPerTrack

(* The threads, the device and the semaphore agree on what is done.          *)
CompletionsRight == TypeOK /\ NoLostCompletion

(* A request takes the time that the geometry demands, on either way through *)
(* ComputeLatency.                                                           *)
TimingRight == LatencyExact /\ TrackBufferFilled
=============================================================================
