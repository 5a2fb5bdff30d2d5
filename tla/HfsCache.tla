----------------------------- MODULE HfsCache ------------------------------
(***************************************************************************)
(* The block cache of the HFS reader (lib/hfs/cache.c).                    *)
(*                                                                         *)
(* The device behind it is external: Seek and Read of lib/hfssup.c are     *)
(* stubs that panic, and a read here is one that works, as the cache       *)
(* assumes.  Data is named by device, offset and length; the part of       *)
(* gCacheBuffer that belongs to entry cnt is held[cnt].                    *)
(***************************************************************************)
EXTENDS Integers, FiniteSets, FiniteSetsExt, SequencesExt

CONSTANTS
    Devices,        \* CICell values other than 0
    Offsets,
    CacheSize,      \* kCacheSize, kCacheMinBlockSize and kCacheMaxBlockSize,
    MinBlockSize,   \* in bytes; scaled down
    MaxBlockSize,
    MaxTime         \* bound: the largest value of a long

ASSUME DeviceAssumption == 0 \notin Devices
ASSUME SizeAssumption == /\ CacheSize \in Nat
                         /\ MinBlockSize \in 1 .. CacheSize
                         /\ MaxBlockSize \in MinBlockSize .. CacheSize + 1
                         /\ MaxTime \in Nat \ {0}

MaxEntries == CacheSize \div MinBlockSize
BlockSizes == 0 .. MaxBlockSize     \* what callers ask for
Slots      == 0 .. MaxEntries - 1   \* positions in gCacheEntries

VARIABLES
    cacheIH,       \* gCacheIH
    cacheBlock,    \* gCacheBlockSize
    numEntries,    \* gCacheNumEntries
    time,          \* gCacheTime
    entries,       \* gCacheEntries: ih, time and offset of each slot
    held,          \* what the slot's part of gCacheBuffer holds
    allocated,     \* which of gCacheBuffer and gCacheEntries were allocated
    answer,        \* what the last CacheRead copied to its caller
    request        \* what it was asked for

vars == <<cacheIH, cacheBlock, numEntries, time, entries, held, allocated, answer, request>>

FreeEntry == [ih |-> 0, time |-> 0, offset |-> 0]
Nothing   == <<>>

TypeOK ==
    /\ cacheIH \in Devices \union {0}
    /\ cacheBlock \in BlockSizes
    /\ numEntries \in 0 .. MaxEntries
    /\ time \in -(MaxTime + 1) .. MaxTime
    /\ entries \in [Slots -> [ih : Devices \union {0}, offset : Offsets \union {0},
                              time : -(MaxTime + 1) .. MaxTime]]
    /\ held \in [Slots -> {Nothing} \union (Devices \X Offsets \X BlockSizes)]
    /\ allocated \subseteq {"buffer", "entries"}
    /\ \A a \in {answer, request} : a = Nothing \/ a \in Devices \X Offsets \X BlockSizes

Init ==
    /\ cacheIH = 0 /\ cacheBlock = 0 /\ numEntries = 0 /\ time = 0
    /\ entries = [slot \in Slots |-> FreeEntry]
    /\ held = [slot \in Slots |-> Nothing]
    /\ allocated = {}
    /\ answer = Nothing /\ request = Nothing

-----------------------------------------------------------------------------
(* CacheInit *)

\* The entries are cleared; what the buffer holds is not.
Clear == entries' = [slot \in Slots |-> FreeEntry]

InRange(blockSize) == blockSize >= MinBlockSize /\ blockSize < MaxBlockSize

\* The cache is already set up for this device and block size.
InitSame(ih, blockSize) ==
    /\ ih = cacheIH /\ blockSize = cacheBlock
    /\ UNCHANGED vars

\* The block size is out of range: whatever was set up stays.
InitRejected(ih, blockSize) ==
    /\ ~ (ih = cacheIH /\ blockSize = cacheBlock)
    /\ ~InRange(blockSize)
    /\ UNCHANGED vars

\* Either allocation may fail and is tried again by a later call.
InitCache(ih, blockSize, got) ==
    /\ ~ (ih = cacheIH /\ blockSize = cacheBlock)
    /\ InRange(blockSize)
    /\ allocated \subseteq got
    /\ cacheBlock' = blockSize
    /\ numEntries' = CacheSize \div blockSize
    /\ time' = 0
    /\ allocated' = got
    /\ IF got = {"buffer", "entries"}
       THEN cacheIH' = ih /\ Clear
       ELSE cacheIH' = 0 /\ UNCHANGED entries
    /\ UNCHANGED <<held, answer, request>>

-----------------------------------------------------------------------------
(* CacheRead *)

Used == 0 .. numEntries - 1

\* ++gCacheTime
Tick(t) == IF t = MaxTime THEN -(MaxTime + 1) ELSE t + 1

Matching(ih, offset) ==
    {slot \in Used : entries[slot].ih = ih /\ entries[slot].offset = offset}

\* Mutant: does not look at the block size.
CacheableAnyLength(ih, length) == cacheIH = ih

Cacheable(ih, length) == cacheIH = ih /\ length = cacheBlock

Ask(ih, offset, length) == request' = <<ih, offset, length>>

\* The data is in the cache.
ReadHit(ih, offset, length) ==
    /\ Cacheable(ih, length)
    /\ Matching(ih, offset) # {}
    /\ Ask(ih, offset, length)
    /\ LET slot == Min(Matching(ih, offset)) IN
        /\ time' = Tick(time)
        /\ entries' = [entries EXCEPT ![slot].time = Tick(time)]
        /\ answer' = held[slot]
    /\ UNCHANGED <<cacheIH, cacheBlock, numEntries, held, allocated>>

\* The slot with the smallest time, the first of several; the first slot of all
\* if none is older than the counter.
Victim ==
    LET older == {slot \in Used : entries[slot].time < time}
        age(slot) == entries[slot].time
    IN  IF older = {} THEN 0
        ELSE Min({s \in older : \A t \in older : age(s) <= age(t)})

Free == {slot \in Used : entries[slot].ih = 0}

\* It is not: read it from the device and keep it in a free or the oldest slot.
ReadMiss(ih, offset, length) ==
    /\ Cacheable(ih, length)
    /\ Matching(ih, offset) = {}
    /\ Ask(ih, offset, length)
    /\ answer' = <<ih, offset, length>>
    /\ LET slot == IF Free # {} THEN Min(Free) ELSE Victim IN
        /\ time' = Tick(time)
        /\ entries' = [entries EXCEPT ![slot] =
                           [ih |-> ih, time |-> Tick(time), offset |-> offset]]
        /\ held' = [held EXCEPT ![slot] = <<ih, offset, length>>]
    /\ UNCHANGED <<cacheIH, cacheBlock, numEntries, allocated>>

\* The caller does not want it cached, or it is not a block of this device.
ReadAround(ih, offset, length) ==
    /\ Ask(ih, offset, length)
    /\ answer' = <<ih, offset, length>>
    /\ UNCHANGED <<cacheIH, cacheBlock, numEntries, time, entries, held,
                   allocated>>

ReadUncached(ih, offset, length) ==
    /\ ~Cacheable(ih, length)
    /\ ReadAround(ih, offset, length)

CacheInit(ih, blockSize) ==
    \/ InitSame(ih, blockSize)
    \/ InitRejected(ih, blockSize)
    \/ \E got \in SUBSET {"buffer", "entries"} : InitCache(ih, blockSize, got)

CacheRead(ih, offset, length) ==
    \/ ReadHit(ih, offset, length)
    \/ ReadMiss(ih, offset, length)
    \/ ReadUncached(ih, offset, length)
    \/ ReadAround(ih, offset, length)      \* cache = 0

Next ==
    \E ih \in Devices :
        \/ \E blockSize \in BlockSizes : CacheInit(ih, blockSize)
        \/ \E offset \in Offsets, length \in BlockSizes : CacheRead(ih, offset, length)

Spec == Init /\ [][Next]_vars

-----------------------------------------------------------------------------
(* Properties *)

\* No device, block size, eviction or counter overflow makes a read return
\* anything but what it asked for.
Device == INSTANCE BlockDevice WITH Lengths <- BlockSizes
ImplementsDevice == Device!Spec

\* While the cache is in use both of its arrays exist, its entries lie inside
\* them, and no block is in it twice.
EntriesOK ==
    cacheIH # 0 =>
        /\ allocated = {"buffer", "entries"}
        /\ numEntries * cacheBlock <= CacheSize
        /\ \A slot \in Slots : entries[slot].ih # 0 => slot \in Used
        /\ \A s, t \in Used : /\ entries[s].ih # 0 /\ entries[s].ih = entries[t].ih
                              /\ entries[s].offset = entries[t].offset
                              => s = t
=============================================================================
