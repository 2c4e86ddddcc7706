----------------------------- MODULE FileSystem -----------------------------
(***************************************************************************)
(* The Nachos file system (filesys/filesys.cc, directory.cc, filehdr.cc)   *)
(* over a disk that keeps its sectors when Nachos stops.                   *)
(*                                                                         *)
(* Every operation reads the directory and the free map from disk, works   *)
(* on these copies, and writes the sectors it changed one after the other: *)
(* "todo" is what it still has to write.  Nachos may stop between any two  *)
(* of these writes (Stop) and boot again.  Operations do not overlap: the  *)
(* code assumes that there is no concurrent access to the file system.     *)
(*                                                                         *)
(* A file name is represented by its first FileNameMaxLen characters,      *)
(* which is all that strncmp and strncpy look at; Prefix gives them.  The  *)
(* disk keeps no bytes of files, a data sector holds Data: the transfer of *)
(* bytes is computed, with the operators of OpenFile, for bytes that are   *)
(* all different, whenever a program writes.                               *)
(***************************************************************************)
EXTENDS OpenFile, FiniteSets, SequencesExt

CONSTANTS
    NumSectors,     \* sectors of the disk
    NumDirEntries,  \* entries of the directory
    NumDirect,      \* data sectors that a file header has room for
    Names,          \* file names that programs use
    Prefix(_),      \* the part of a name that is stored and compared
    FileSizes,      \* sizes that programs pass to Create
    Requests,       \* what programs write: pairs of a number of bytes and a position
    Handles,        \* OpenFile objects
    MaxStops,       \* bound on the number of times that Nachos stops
    NULL

ASSUME FileSystemAssumption ==
    /\ {NumSectors, NumDirEntries, NumDirect, SectorSize} \subseteq Nat \ {0}
    /\ NumSectors > 4
    /\ FileSizes \subseteq Nat
    /\ MaxStops \in Nat

Sector == 0 .. NumSectors - 1
Slot == 1 .. NumDirEntries
FreeMapSector == 0
DirectorySector == 1
DivRoundUp(n, s) == (n + s - 1) \div s

VARIABLES
    disk,     \* the contents of each sector
    status,   \* off, up, or lost: bytes that are no header were used as one
    todo,     \* the sectors that the running operation has still to write
    open,     \* the OpenFile objects, each with its copy of the file header
    stops,    \* how often Nachos has stopped
    settled,  \* slots of the files whose Create ended before the first stop
              \* and whose Remove has not begun
    wild,     \* a program has written through the handle of a removed file
    scribbled, \* a header that a directory entry names has been overwritten
    exact     \* every write changed the bytes that it should and no other one

vars == <<disk, status, todo, open, stops, settled, wild, scribbled, exact>>

-----------------------------------------------------------------------------
(* What a sector can hold.  A header lists the data sectors of its file; the *)
(* free map is the set of marked sectors; a directory entry has the sector   *)
(* of the file header (NULL when the entry is not in use) and the name.  The *)
(* free map and the directory each fit in one sector.                        *)
Header(size, sectors) == [kind |-> "header", numBytes |-> size, sectors |-> sectors]
MapImage(used) == [kind |-> "map", used |-> used]
DirImage(table) == [kind |-> "dir", table |-> table]
Data == [kind |-> "data"]
Blank == [kind |-> "blank"]

EmptyTable == [i \in Slot |-> [sector |-> NULL, name |-> NULL]]

(* The data sectors of the two system files, as the format allocates them. *)
MapDataSector == 2
DirDataSector == 3
SystemSectors == 0 .. 3

Formatted == \A s \in SystemSectors : disk[s] # Blank
IsHeader(s) == disk[s].kind = "header"

(* BitMap::FetchFrom and Directory::FetchFrom: what the disk holds now. *)
FetchMap == disk[MapDataSector].used
FetchTable == disk[DirDataSector].table

(* The disk writes of FileHeader, BitMap and Directory::WriteBack. *)
Put(s, content) == [sector |-> s, content |-> content]
WriteHeader(s, size, sectors) == <<Put(s, Header(size, sectors))>>
WriteMap(used) == <<Put(MapDataSector, MapImage(used))>>
WriteTable(table) == <<Put(DirDataSector, DirImage(table))>>

-----------------------------------------------------------------------------
(* BitMap::Find and NumClear. *)
NumClear(used) == NumSectors - Cardinality(used)
FindClear(used) == IF used = Sector THEN -1 ELSE Min(Sector \ used)

(* Directory::FindIndex, Add and Remove. *)
FindIndex(table, name) ==
    LET hits == {i \in Slot : table[i].sector # NULL /\ table[i].name = Prefix(name)}
    IN  IF hits = {} THEN -1 ELSE Min(hits)
Find(table, name) ==
    LET i == FindIndex(table, name)
    IN  IF i = -1 THEN -1 ELSE table[i].sector
FreeEntries(table) == {i \in Slot : table[i].sector = NULL}
AddEntry(table, name, sector) ==
    [table EXCEPT ![Min(FreeEntries(table))] = [sector |-> sector, name |-> Prefix(name)]]
RemoveEntry(table, name) == [table EXCEPT ![FindIndex(table, name)].sector = NULL]

(* FileHeader::Allocate: the first clear sectors, and whether there are      *)
(* enough of them.  There is no test against the room in the header.         *)
CanAllocate(used, size) == NumClear(used) >= DivRoundUp(size, SectorSize)
Allocate(used, size) ==
    [k \in 1 .. DivRoundUp(size, SectorSize) |->
        CHOOSE s \in Sector \ used : Cardinality({t \in Sector \ used : t < s}) = k - 1]

(* FileHeader::Deallocate asserts that each data sector is marked. *)
CanDeallocate(used, sectors) == Range(sectors) \subseteq used /\ IsInjective(sectors)
DeallocateNothing(used, sectors) == used
DeallocateOneMore(used, sectors) == used \ (Range(sectors) \cup {s + 1 : s \in Range(sectors)})
Deallocate(used, sectors) == used \ Range(sectors)

-----------------------------------------------------------------------------
Init ==
    /\ disk = [s \in Sector |-> Blank]
    /\ status = "off"
    /\ todo = <<>>
    /\ open = [h \in Handles |-> NULL]
    /\ stops = 0
    /\ settled = {}
    /\ wild = FALSE
    /\ scribbled = FALSE
    /\ exact = TRUE

Idle == status = "up" /\ todo = <<>>

(* FileSystem::FileSystem(TRUE): format the disk. *)
Format ==
    /\ status = "off" /\ stops = 0
    /\ LET used0 == {FreeMapSector, DirectorySector}
           mapData == Allocate(used0, SectorSize)
           used1 == used0 \cup Range(mapData)
           dirData == Allocate(used1, SectorSize)
           used2 == used1 \cup Range(dirData)
       IN  todo' = WriteHeader(FreeMapSector, SectorSize, mapData)
                     \o WriteHeader(DirectorySector, SectorSize, dirData)
                     \o WriteMap(used2) \o WriteTable(EmptyTable)
    /\ status' = "up"
    /\ UNCHANGED <<disk, open, stops, settled, wild, scribbled, exact>>

(* FileSystem::FileSystem(FALSE): open the free map and the directory.  On a *)
(* disk whose format did not end this reads bytes that are neither.          *)
Boot ==
    /\ status = "off" /\ stops > 0
    /\ status' = IF Formatted THEN "up" ELSE "lost"
    /\ UNCHANGED <<disk, todo, open, stops, settled, wild, scribbled, exact>>

(* SynchDisk::WriteSector, called by the operation that is running.  When    *)
(* the last sector of a Create is written the new file is settled.           *)
WriteSector ==
    /\ status = "up" /\ todo # <<>>
    /\ disk' = [disk EXCEPT ![Head(todo).sector] = Head(todo).content]
    /\ todo' = Tail(todo)
    /\ settled' = IF todo' = <<>> /\ stops = 0 /\ Head(todo).content.kind = "map"
                  THEN {i \in Slot : FetchTable[i].sector # NULL}
                  ELSE settled
    /\ scribbled' = (scribbled \/ (Formatted /\ \E i \in Slot : FetchTable[i].sector = Head(todo).sector))
    /\ UNCHANGED <<status, open, stops, wild, exact>>

(* Nachos stops: everything in memory is gone, the disk is not. *)
Stop ==
    /\ status = "up" /\ stops < MaxStops
    /\ status' = "off"
    /\ todo' = <<>>
    /\ open' = [h \in Handles |-> NULL]
    /\ stops' = stops + 1
    /\ UNCHANGED <<disk, settled, wild, scribbled, exact>>

(* FileSystem::Create.  A file that is too large for its header makes        *)
(* Allocate write behind the array dataSectors.                              *)
Create(name, size) ==
    /\ Idle
    /\ LET used == FetchMap
           table == FetchTable
           sector == FindClear(used)
           used1 == used \cup {sector}
           data == Allocate(used1, size)
       IN  \/ /\ \/ Find(table, name) # -1
                 \/ sector = -1
                 \/ FreeEntries(table) = {}
                 \/ ~CanAllocate(used1, size)
              /\ UNCHANGED <<status, todo>>
           \/ /\ Find(table, name) = -1
              /\ sector # -1
              /\ FreeEntries(table) # {}
              /\ CanAllocate(used1, size)
              /\ IF Len(data) > NumDirect
                 THEN status' = "lost" /\ UNCHANGED todo
                 ELSE /\ todo' = WriteHeader(sector, size, data)
                                   \o WriteTable(AddEntry(table, name, sector))
                                   \o WriteMap(used1 \cup Range(data))
                      /\ UNCHANGED status
    /\ UNCHANGED <<disk, open, stops, settled, wild, scribbled, exact>>

(* FileSystem::Remove.  The handles of a removed file keep their header. *)
RemoveFile(name) ==
    /\ Idle
    /\ LET table == FetchTable
           sector == Find(table, name)
           used == FetchMap
           data == disk[sector].sectors
       IN  IF sector = -1
           THEN UNCHANGED <<status, todo, open, stops, settled>>
           ELSE IF ~IsHeader(sector)
           THEN status' = "lost" /\ UNCHANGED <<todo, open, stops, settled>>
           ELSE IF ~CanDeallocate(used, data)
           THEN \* the assertion of Deallocate fails and Nachos exits
                /\ stops < MaxStops
                /\ status' = "off" /\ stops' = stops + 1
                /\ open' = [h \in Handles |-> NULL]
                /\ UNCHANGED <<todo, settled>>
           ELSE /\ todo' = WriteMap(Deallocate(used, data) \ {sector})
                             \o WriteTable(RemoveEntry(table, name))
                /\ settled' = settled \ {FindIndex(table, name)}
                /\ open' = [h \in Handles |->
                              IF open[h] # NULL /\ open[h].sector = sector
                              THEN [open[h] EXCEPT !.removed = TRUE] ELSE open[h]]
                /\ UNCHANGED <<status, stops>>
    /\ UNCHANGED <<disk, wild, scribbled, exact>>

(* FileSystem::Open and OpenFile::OpenFile. *)
Open(name, h) ==
    /\ Idle /\ open[h] = NULL
    /\ LET sector == Find(FetchTable, name)
       IN  /\ sector # -1
           /\ IF IsHeader(sector)
              THEN /\ open' = [open EXCEPT ![h] = [sector |-> sector, removed |-> FALSE,
                                                   hdr |-> disk[sector]]]
                   /\ UNCHANGED status
              ELSE status' = "lost" /\ UNCHANGED open
    /\ UNCHANGED <<disk, todo, stops, settled, wild, scribbled, exact>>

(* OpenFile::~OpenFile. *)
Close(h) ==
    /\ Idle /\ open[h] # NULL
    /\ open' = [open EXCEPT ![h] = NULL]
    /\ UNCHANGED <<disk, status, todo, stops, settled, wild, scribbled, exact>>

(* OpenFile::WriteAt with the handle's copy of the header.  Reading the file *)
(* before and after shows whether the right bytes have changed.              *)
OldBytes == [s \in Sector |-> [o \in 0 .. SectorSize - 1 |-> <<"old", s, o>>]]
NewBytes(n) == [k \in 1 .. n |-> <<"new", k, 0>>]
Heap == <<"heap", 0, 0>>
Written(bytes, writes) ==
    [s \in Sector |->
        LET hits == {k \in DOMAIN writes : writes[k].sector = s}
        IN  IF hits = {} THEN bytes[s] ELSE writes[Max(hits)].bytes]
ReadsBack(hdr, n, position, writes) ==
    LET before == ReadAt(hdr, OldBytes, FileLength(hdr), 0)
        after == ReadAt(hdr, Written(OldBytes, writes), FileLength(hdr), 0)
    IN  after = [k \in DOMAIN before |->
                    IF k - position \in 1 .. n THEN NewBytes(n)[k - position] ELSE before[k]]
SectorsToWrite(writes) == [k \in DOMAIN writes |-> Put(writes[k].sector, Data)]
WriteAt(h, n, position) ==
    /\ Idle /\ open[h] # NULL
    /\ LET writes == SectorWrites(open[h].hdr, OldBytes, NewBytes(n), position, Heap)
       IN  /\ todo' = SectorsToWrite(writes)
           /\ exact' = (exact /\ ReadsBack(open[h].hdr, n, position, writes))
    /\ wild' = (wild \/ (open[h].removed /\ todo' # <<>>))
    /\ UNCHANGED <<disk, status, open, stops, settled, scribbled>>

Next ==
    \/ Format \/ Boot \/ WriteSector \/ Stop
    \/ \E name \in Names : RemoveFile(name) \/ \E size \in FileSizes : Create(name, size)
    \/ \E h \in Handles :
        \/ Close(h)
        \/ \E name \in Names : Open(name, h)
        \/ \E r \in Requests : WriteAt(h, r[1], r[2])

Spec == Init /\ [][Next]_vars

-----------------------------------------------------------------------------
(* The sectors of the file in a directory entry, as the disk has it. *)
SectorsOf(i) ==
    LET s == FetchTable[i].sector
    IN  IF s = NULL THEN {}
        ELSE {s} \cup IF IsHeader(s) THEN Range(disk[s].sectors) ELSE {}

TypeOK ==
    /\ \A s \in Sector : disk[s].kind \in {"header", "map", "dir", "data", "blank"}
    /\ status \in {"off", "up", "lost"}
    /\ \A k \in DOMAIN todo : todo[k].sector \in Sector
    /\ \A h \in Handles : open[h] # NULL => open[h].sector \in Sector
    /\ stops \in 0 .. MaxStops
    /\ settled \in SUBSET Slot
    /\ {wild, scribbled, exact} \subseteq BOOLEAN

(* An open file works on the header that is on disk: the copy that OpenFile  *)
(* made when it was opened stays right as long as the file is not removed    *)
(* (openfile.cc:27-32), for files that a stop of Nachos did not damage.      *)
OpenCoherent ==
    Formatted /\ ~wild =>
        \A h \in Handles, i \in settled :
            open[h] # NULL /\ ~open[h].removed /\ open[h].sector = FetchTable[i].sector =>
                disk[open[h].sector] = open[h].hdr

(* Files stay apart.  A file that was complete when Nachos first stopped     *)
(* keeps its header and its marked sectors, and shares none with another     *)
(* file or with the system, whatever is created, removed and interrupted     *)
(* later (filesys.cc:205-207 and the writes of Remove).                      *)
SettledSafe ==
    Formatted /\ ~wild =>
        \A i \in settled :
            LET s == FetchTable[i].sector IN
            /\ s # NULL /\ IsHeader(s)
            /\ CanDeallocate(FetchMap, <<s>> \o disk[s].sectors)
            /\ SectorsOf(i) \cap SystemSectors = {}
            /\ \A j \in Slot \ {i} : SectorsOf(i) \cap SectorsOf(j) = {}

(* Complete files are intact, on disk and in memory. *)
FilesIntact == TypeOK /\ SettledSafe /\ OpenCoherent

(* A stop never leaks space: every marked sector belongs to the system or to *)
(* a file in the directory, because Create writes the directory before the   *)
(* free map and Remove writes the free map first, as long as no header that  *)
(* is in use is overwritten.                                                 *)
NoLeak ==
    Formatted /\ ~scribbled =>
        FetchMap \subseteq SystemSectors \cup UNION {SectorsOf(i) : i \in Slot}

(* A write replaces the bytes it was asked to, as far as they are in the     *)
(* file, and no others, although the disk writes whole sectors: the ends are *)
(* read first, wherever the request begins and ends (openfile.cc:161-190).   *)
WriteExact == exact
=============================================================================
