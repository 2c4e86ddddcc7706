------------------------------ MODULE OpenFile ------------------------------
(***************************************************************************)
(* The transfers of an open Nachos file (filesys/openfile.cc): a request   *)
(* for bytes is turned into reads and writes of whole sectors.  A header   *)
(* has numBytes and the sequence of its data sectors; the disk is given as *)
(* a function from sector and offset to bytes.                             *)
(***************************************************************************)
EXTENDS Integers, Sequences, FiniteSetsExt

CONSTANT SectorSize     \* bytes in a sector

FileLength(hdr) == hdr.numBytes
ByteToSector(hdr, offset) == hdr.sectors[offset \div SectorSize + 1]

(* How many of the bytes asked for are in the file. *)
InFile(hdr, numBytes, position) ==
    IF numBytes <= 0 \/ position >= FileLength(hdr) THEN 0
    ELSE Min({numBytes, FileLength(hdr) - position})
FirstSector(position) == position \div SectorSize
LastSector(position, numBytes) == (position + numBytes - 1) \div SectorSize

ReadAt(hdr, bytes, numBytes, position) ==
    [k \in 1 .. InFile(hdr, numBytes, position) |->
        LET at == position + k - 1
        IN  bytes[ByteToSector(hdr, (at \div SectorSize) * SectorSize)][at % SectorSize]]

(* The buffer of WriteAt: what new char[] left there, then the partly        *)
(* modified sectors at its ends, then the bytes to write.                    *)
Fill(buf, start, data) ==
    [b \in DOMAIN buf |-> IF b - start + 1 \in DOMAIN data THEN data[b - start + 1] ELSE buf[b]]
WriteBufferFirstOnly(hdr, bytes, data, position, heap) ==
    LET n == Len(data)
        first == FirstSector(position)
        buf == [b \in 0 .. (1 + LastSector(position, n) - first) * SectorSize - 1 |-> heap]
    IN  Fill(Fill(buf, 0, ReadAt(hdr, bytes, SectorSize, first * SectorSize)),
             position - first * SectorSize, data)
WriteBuffer(hdr, bytes, data, position, heap) ==
    LET n == Len(data)
        first == FirstSector(position)
        last == LastSector(position, n)
        firstAligned == position = first * SectorSize
        lastAligned == position + n = (last + 1) * SectorSize
        buf0 == [b \in 0 .. (1 + last - first) * SectorSize - 1 |-> heap]
        buf1 == IF firstAligned THEN buf0
                ELSE Fill(buf0, 0, ReadAt(hdr, bytes, SectorSize, first * SectorSize))
        buf2 == IF lastAligned \/ (first = last /\ ~firstAligned) THEN buf1
                ELSE Fill(buf1, (last - first) * SectorSize,
                          ReadAt(hdr, bytes, SectorSize, last * SectorSize))
    IN  Fill(buf2, position - first * SectorSize, data)

(* The sectors that WriteAt writes, in order, with their bytes. *)
SectorWrites(hdr, bytes, from, position, heap) ==
    LET data == SubSeq(from, 1, InFile(hdr, Len(from), position))
        first == FirstSector(position)
        buf == WriteBuffer(hdr, bytes, data, position, heap)
    IN  IF data = << >> THEN << >>
        ELSE [i \in 1 .. 1 + LastSector(position, Len(data)) - first |->
                [sector |-> ByteToSector(hdr, (first + i - 1) * SectorSize),
                 bytes |-> [o \in 0 .. SectorSize - 1 |-> buf[(i - 1) * SectorSize + o]]]]
=============================================================================
