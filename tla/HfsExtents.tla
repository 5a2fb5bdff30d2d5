----------------------------- MODULE HfsExtents -----------------------------
(***************************************************************************)
(* Reading a part of a file that lies in pieces on the disk (lib/hfs/hfs.c,*)
(* ReadFile and ReadExtent).  The first Density extents are in the file's  *)
(* record, the others in records of the extents tree, each found by the    *)
(* number of the first block it describes.                                 *)
(*                                                                         *)
(* The data is named by where it is on the disk: byte b of block n is      *)
(* n * BlockSize + b.  Finding a record is the subject of HfsBTree, reading*)
(* one piece that of HfsCache.                                             *)
(***************************************************************************)
EXTENDS Integers, Sequences, FiniteSetsExt

CONSTANTS
    Density,        \* kHFSPlusExtentDensity (8) or kHFSExtentDensity (3)
    BlockSize,
    LoadSize,       \* kLoadSize
    Files           \* the extents of a file, in order: start and count of each

VARIABLES
    extents,        \* of the file
    fileLength,
    offset, length, \* parameters of ReadFile, then of ReadExtent
    want,           \* ghost: the part of the file that was asked for
    nextExtent, countedBlocks, currentExtentBlock,  \* locals of ReadExtent
    extentBuffer,   \* the record of the extents tree that was read last
    buffer,         \* what was read, byte by byte
    pc,             \* "file", "extent" or "done"
    returned        \* the length, -1 after an error

vars == <<extents, fileLength, offset, length, want, nextExtent, countedBlocks,
          currentExtentBlock, extentBuffer, buffer, pc, returned>>

file == <<extents, fileLength, want>>

NoExtent == [start |-> 0, count |-> 0]

-----------------------------------------------------------------------------
(* The volume *)

\* The blocks of the first n extents
Blocks(n) ==
    LET sum[k \in 0 .. Len(extents)] == IF k = 0 THEN 0 ELSE sum[k - 1] + extents[k].count
    IN  sum[n]

\* Record number r of the file: 0 in the catalog, the others in the extents tree.
Record(r) == [i \in 0 .. Density - 1 |->
                 IF r * Density + i + 1 \in DOMAIN extents
                 THEN extents[r * Density + i + 1] ELSE NoExtent]

\* ReadExtentsEntry finds the record by the number of blocks before it.
Overflow(block) == {r \in 1 .. Len(extents) : r * Density < Len(extents) /\ Blocks(r * Density) = block}

Init ==
    /\ extents \in Files
    /\ fileLength \in 0 .. Blocks(Len(extents)) * BlockSize
    /\ offset \in 0 .. fileLength + 1
    /\ length \in 0 .. fileLength + 1
    /\ want = [offset |-> offset, length |-> length]
    /\ nextExtent = 0 /\ countedBlocks = 0 /\ currentExtentBlock = 0
    /\ extentBuffer = [i \in 0 .. Density - 1 |-> NoExtent]
    /\ buffer = <<>> /\ pc = "file" /\ returned = 0

-----------------------------------------------------------------------------
(* ReadFile *)

Return(n) == pc' = "done" /\ returned' = n
Locals == <<nextExtent, countedBlocks, currentExtentBlock, extentBuffer, buffer>>

\* Mutant: a length of 0 is taken as it is.
ClampedZero == IF offset + length > fileLength THEN fileLength - offset ELSE length

Clamped == IF length = 0 \/ offset + length > fileLength THEN fileLength - offset ELSE length

ReadFileRefused ==
    /\ pc = "file"
    /\ offset > fileLength \/ Clamped > LoadSize
    /\ length' = IF offset > fileLength THEN length ELSE Clamped
    /\ Return(-1)
    /\ UNCHANGED <<file, offset, Locals>>

ReadFileAtEnd ==
    /\ pc = "file"
    /\ offset = fileLength
    /\ length' = Clamped
    /\ Return(0)
    /\ UNCHANGED <<file, offset, Locals>>

ReadFile ==
    /\ pc = "file"
    /\ offset < fileLength /\ Clamped <= LoadSize
    /\ length' = Clamped
    /\ pc' = "extent"
    /\ UNCHANGED <<file, offset, Locals, returned>>

-----------------------------------------------------------------------------
(* ReadExtent *)

\* lastOffset is offset + size; offset and sizeRead go up together.
sizeRead    == Len(buffer)
blockNumber == offset \div BlockSize

More == pc = "extent" /\ sizeRead < length

InFork == nextExtent < Density

\* The records of the extents tree begin with number 1.
nextExtentBlock == nextExtent \div Density
Loaded == currentExtentBlock = nextExtentBlock

\* A record that is not found leaves what the buffer had.
LoadOverflow ==
    /\ More /\ ~InFork /\ ~Loaded
    /\ extentBuffer' = IF Overflow(countedBlocks) = {} THEN extentBuffer
                       ELSE Record(Min(Overflow(countedBlocks)))
    /\ currentExtentBlock' = nextExtentBlock
    /\ UNCHANGED <<file, offset, length, nextExtent, countedBlocks, buffer, pc, returned>>

Current == IF InFork THEN Record(0)[nextExtent] ELSE extentBuffer[nextExtent % Density]

Holds == countedBlocks + Current.count - 1 >= blockNumber

SkipExtent ==
    /\ More /\ (InFork \/ Loaded) /\ ~Holds
    /\ countedBlocks' = countedBlocks + Current.count
    /\ nextExtent' = nextExtent + 1
    /\ UNCHANGED <<file, offset, length, currentExtentBlock, extentBuffer, buffer, pc, returned>>

\* Where in the extent the offset is, and how much of it is read.
InExtent == (blockNumber - countedBlocks) * BlockSize + (offset % BlockSize)
readSize == Min({Current.count * BlockSize - InExtent, length - sizeRead})

\* One piece, from one extent; the search goes on from there.
ReadPiece ==
    /\ More /\ (InFork \/ Loaded) /\ Holds
    /\ buffer' = buffer \o [i \in 1 .. readSize |-> Current.start * BlockSize + InExtent + i - 1]
    /\ offset' = offset + readSize
    /\ UNCHANGED <<file, length, nextExtent, countedBlocks, currentExtentBlock,
                   extentBuffer, pc, returned>>

ReadExtentEnds ==
    /\ pc = "extent" /\ sizeRead >= length
    /\ Return(sizeRead)
    /\ UNCHANGED <<file, offset, length, Locals>>

Next == ReadFileRefused \/ ReadFileAtEnd \/ ReadFile \/ LoadOverflow \/ SkipExtent
        \/ ReadPiece \/ ReadExtentEnds

Spec == Init /\ [][Next]_vars

-----------------------------------------------------------------------------
(* Properties *)

\* The disk address of byte b of the file
Address(b) ==
    LET block == b \div BlockSize
        n == CHOOSE n \in DOMAIN extents : Blocks(n - 1) <= block /\ block < Blocks(n)
    IN  (extents[n].start + block - Blocks(n - 1)) * BlockSize + (b % BlockSize)

\* The part of the file that was asked for, to its end for a length of 0, is
\* what was read, in order, however many pieces and records it lies in.
ReadsFile ==
    LET rest == fileLength - want.offset
        size == IF want.length = 0 THEN rest ELSE Min({want.length, rest})
    IN  /\ \A i \in DOMAIN buffer : buffer[i] = Address(want.offset + i - 1)
        /\ pc = "done" => returned = IF rest < 0 \/ (rest > 0 /\ size > LoadSize) THEN -1 ELSE size
=============================================================================
