--------------------------- MODULE Hfs_proofs -----------------------------
(***************************************************************************)
(* The HFS reader, for caches, blocks, files and trees of every size: a    *)
(* read through the block cache returns what the device holds, a read of a *)
(* file the bytes of its extents, and a search of a B-tree the record of   *)
(* the key.                                                                *)
(***************************************************************************)
EXTENDS MCHfs, WellFoundedInduction, TLAPS

\* A slot in use holds the block that its entry names, of the current size.
HeldOK ==
    cacheIH # 0 =>
        /\ cacheBlock \in 1 .. CacheSize
        /\ numEntries >= 1
        /\ \A slot \in Slots :
              entries[slot].ih # 0 =>
                  held[slot] = <<entries[slot].ih, entries[slot].offset, cacheBlock>>

IInv == TypeOK /\ EntriesOK /\ HeldOK

USE DeviceAssumption, SizeAssumption

-----------------------------------------------------------------------------
(* Sizes and smallest elements *)

\* A block at most as large as the cache goes into it at least once.
LEMMA BlocksFit ==
    ASSUME NEW size \in Nat, NEW block \in 1 .. size
    PROVE  /\ size \div block \in Nat \ {0}
           /\ (size \div block) * block <= size
           /\ size < (size \div block) * block + block
  OBVIOUS

\* Of larger blocks no more go into the cache.
LEMMA FewerLarger ==
    ASSUME NEW size \in Nat, NEW small \in 1 .. size, NEW block \in small .. size
    PROVE  size \div block <= size \div small
  <1> DEFINE q == size \div block
             p == size \div small
  <1>1. q \in Nat /\ p \in Nat /\ q * block <= size /\ size < p * small + small
    BY BlocksFit
  <1>2. q * small <= q * block
    BY <1>1
  <1> HIDE DEF q, p
  <1>3. q * small < (p + 1) * small
    BY <1>1, <1>2
  <1>4. ~ (p + 1 <= q)
    BY <1>1, <1>3
  <1>5. q <= p
    BY <1>1, <1>4
  <1> QED  BY <1>5 DEF q, p

\* A set of natural numbers has a least one, which Min finds.
LEMMA LeastNat ==
    ASSUME NEW S \in SUBSET Nat, S # {}
    PROVE  /\ \E m \in S : \A k \in S : m <= k
           /\ Min(S) \in S
  <1> DEFINE less == {p \in Nat \X Nat : p[1] < p[2]}
  <1>1. IsWellFoundedOn(less, Nat)
    BY NatLessThanWellFounded DEF OpToRel
  <1>2. \E m \in S : \A k \in S : ~ (<<k, m>> \in less)
    <2> HIDE DEF less
    <2> QED  BY <1>1, WFMin
  <1>3. PICK m \in S : \A k \in S : ~ (<<k, m>> \in less)
    BY <1>2
  <1>4. ASSUME NEW k \in S PROVE m <= k
    <2>1. m \in Nat /\ k \in Nat /\ ~ (k < m)
      BY <1>3
    <2> QED  BY <2>1
  <1> QED  BY <1>4 DEF Min

\* The counter stays a long.
LEMMA Ticks ==
    ASSUME NEW t \in -(MaxTime + 1) .. MaxTime
    PROVE  Tick(t) \in -(MaxTime + 1) .. MaxTime
  BY DEF Tick

LEMMA UsedSlots == ASSUME TypeOK PROVE Used \subseteq Slots /\ Used \subseteq Nat
  <1>1. numEntries \in Nat /\ numEntries <= MaxEntries /\ MaxEntries \in Nat
    BY BlocksFit DEF TypeOK, MaxEntries
  <1> QED  BY <1>1 DEF Used, Slots

\* The slot that is given up is one of those in use.
LEMMA VictimUsed ==
    ASSUME TypeOK, numEntries >= 1
    PROVE  Victim \in Used
  <1> DEFINE older == {slot \in Used : entries[slot].time < time}
             oldest == {s \in older : \A t \in older : entries[s].time <= entries[t].time}
  <1>1. CASE older = {}
    BY <1>1 DEF Victim, Used, TypeOK
  <1>2. CASE older # {}
    <2> DEFINE ages == {entries[s].time + (MaxTime + 1) : s \in older}
    <2>1. \A s \in older : entries[s].time \in -(MaxTime + 1) .. MaxTime
      BY UsedSlots DEF TypeOK
    <2>2. ages \in SUBSET Nat /\ ages # {}
      BY <1>2, <2>1
    <2>3. PICK m \in ages : \A k \in ages : m <= k
      <3> HIDE DEF ages
      <3> QED  BY <2>2, LeastNat
    <2>4. PICK s \in older : m = entries[s].time + (MaxTime + 1)
      BY <2>3
    <2>5. ASSUME NEW t \in older PROVE entries[s].time <= entries[t].time
      <3>1. m <= entries[t].time + (MaxTime + 1)
        BY <2>3
      <3> QED  BY <2>1, <2>4, <3>1
    <2>6. oldest # {} /\ oldest \in SUBSET Nat
      BY <2>5, UsedSlots
    <2>7. Min(oldest) \in oldest
      <3> HIDE DEF oldest
      <3> QED  BY <2>6, LeastNat
    <2>8. Victim = Min(oldest)
      BY <1>2 DEF Victim
    <2> QED  BY <2>7, <2>8
  <1> QED  BY <1>1, <1>2

\* The slot a block is put into is one of those in use.
LEMMA SlotUsed ==
    ASSUME TypeOK, numEntries >= 1
    PROVE  (IF Free # {} THEN Min(Free) ELSE Victim) \in Used
  <1>1. ASSUME Free # {} PROVE Min(Free) \in Used
    <2>1. Free \in SUBSET Nat
      BY UsedSlots DEF Free
    <2>2. Min(Free) \in Free
      BY <1>1, <2>1, LeastNat
    <2> QED  BY <2>2 DEF Free
  <1> QED  BY <1>1, VictimUsed

-----------------------------------------------------------------------------
(* The invariant *)

LEMMA InitIInv == Init => IInv
  <1> SUFFICES ASSUME Init PROVE IInv
    OBVIOUS
  <1>1. MaxEntries \in Nat /\ MaxBlockSize \in Nat
    BY BlocksFit DEF MaxEntries
  <1>2. FreeEntry \in [ih : Devices \union {0}, offset : Offsets \union {0},
                       time : -(MaxTime + 1) .. MaxTime]
    BY DEF FreeEntry
  <1>3. TypeOK
    BY <1>1, <1>2 DEF Init, TypeOK, BlockSizes
  <1> QED  BY <1>3 DEF Init, IInv, EntriesOK, HeldOK

\* A successful set-up begins with no entries; one that fails turns the cache off.
LEMMA CacheInitStep ==
    ASSUME IInv, NEW ih \in Devices, NEW blockSize \in BlockSizes, CacheInit(ih, blockSize)
    PROVE  IInv'
  <1> USE DEF IInv
  <1>1. CASE UNCHANGED vars
    BY <1>1 DEF vars, TypeOK, EntriesOK, HeldOK, Used
  <1>2. ASSUME NEW got \in SUBSET {"buffer", "entries"}, InitCache(ih, blockSize, got)
        PROVE  IInv'
    <2>1. /\ blockSize \in 1 .. CacheSize /\ blockSize \in MinBlockSize .. CacheSize
          /\ CacheSize \in Nat /\ MinBlockSize \in 1 .. CacheSize
      BY <1>2 DEF InitCache, InRange, BlockSizes
    <2>2. /\ numEntries' \in Nat \ {0} /\ numEntries' * blockSize <= CacheSize
          /\ numEntries' <= MaxEntries /\ MaxEntries \in Nat
      BY <1>2, <2>1, BlocksFit, FewerLarger DEF InitCache, MaxEntries
    <2>3. FreeEntry \in [ih : Devices \union {0}, offset : Offsets \union {0},
                         time : -(MaxTime + 1) .. MaxTime]
      BY DEF FreeEntry
    <2>4. TypeOK'
      BY <1>2, <2>2, <2>3 DEF InitCache, TypeOK, Clear
    <2>5. ASSUME cacheIH' # 0
          PROVE  /\ allocated' = {"buffer", "entries"} /\ cacheBlock' = blockSize
                 /\ \A slot \in Slots : entries'[slot].ih = 0
      BY <1>2, <2>5 DEF InitCache, Clear, FreeEntry
    <2>6. EntriesOK'
      <3>0. Used' = 0 .. numEntries' - 1
        BY DEF Used
      <3>1. Used' \subseteq Slots
        <4>1. \A n, m \in Nat : n <= m => 0 .. n - 1 \subseteq 0 .. m - 1
          OBVIOUS
        <4>2. numEntries' \in Nat /\ MaxEntries \in Nat /\ numEntries' <= MaxEntries
          BY <2>2
        <4> QED  BY <3>0, <4>1, <4>2 DEF Slots
      <3> QED  BY <2>2, <2>5, <3>1 DEF EntriesOK
    <2>7. HeldOK'
      BY <2>1, <2>2, <2>5 DEF HeldOK
    <2> QED  BY <2>4, <2>6, <2>7
  <1> QED
    BY <1>1, <1>2 DEF CacheInit, InitSame, InitRejected

\* A hit changes only the age of its entry.
LEMMA HitStep ==
    ASSUME IInv, NEW ih \in Devices, NEW at \in Offsets, NEW size \in BlockSizes,
           ReadHit(ih, at, size)
    PROVE  IInv' /\ answer' = <<ih, at, size>>
  <1> DEFINE slot == Min(Matching(ih, at))
  <1>1. /\ slot \in Used /\ slot \in Slots
        /\ entries[slot].ih = ih /\ entries[slot].offset = at
    <2>1. Matching(ih, at) \in SUBSET Nat /\ Matching(ih, at) # {}
      BY UsedSlots DEF Matching, ReadHit, IInv
    <2>2. slot \in Matching(ih, at)
      BY <2>1, LeastNat
    <2> QED  BY <2>2, UsedSlots DEF Matching, IInv
  <1>2. /\ cacheIH = ih /\ size = cacheBlock /\ ih # 0
        /\ entries' = [entries EXCEPT ![slot].time = Tick(time)]
        /\ answer' = held[slot] /\ time' = Tick(time)
        /\ request' = <<ih, at, size>>
        /\ UNCHANGED <<cacheIH, cacheBlock, numEntries, held, allocated>>
    BY DEF ReadHit, Cacheable, Ask
  <1> HIDE DEF slot
  <1>3. answer' = <<ih, at, size>>
    BY <1>1, <1>2 DEF IInv, HeldOK
  <1>4. TypeOK'
    BY <1>1, <1>2, <1>3, Ticks DEF IInv, TypeOK
  <1>5. \A s \in Slots : entries'[s].ih = entries[s].ih /\ entries'[s].offset = entries[s].offset
    BY <1>1, <1>2 DEF IInv, TypeOK
  <1>6. EntriesOK'
    BY <1>2, <1>5, UsedSlots DEF IInv, EntriesOK, Used
  <1>7. HeldOK'
    BY <1>2, <1>5 DEF IInv, HeldOK
  <1> QED  BY <1>3, <1>4, <1>6, <1>7 DEF IInv

\* A miss puts the block into a slot in use, and no other slot has it.
LEMMA MissStep ==
    ASSUME IInv, NEW ih \in Devices, NEW at \in Offsets, NEW size \in BlockSizes,
           ReadMiss(ih, at, size)
    PROVE  IInv'
  <1> DEFINE slot == IF Free # {} THEN Min(Free) ELSE Victim
             block == <<ih, at, size>>
             entry == [ih |-> ih, time |-> Tick(time), offset |-> at]
  <1>1. /\ cacheIH = ih /\ size = cacheBlock /\ ih # 0
        /\ Matching(ih, at) = {}
        /\ entries' = [entries EXCEPT ![slot] = entry]
        /\ held' = [held EXCEPT ![slot] = block]
        /\ answer' = block /\ request' = block /\ time' = Tick(time)
        /\ UNCHANGED <<cacheIH, cacheBlock, numEntries, allocated>>
    BY DEF ReadMiss, Cacheable, Ask
  <1>2. slot \in Used /\ slot \in Slots
    BY <1>1, SlotUsed, UsedSlots DEF IInv, HeldOK
  <1> HIDE DEF slot
  <1>3. TypeOK'
    BY <1>1, <1>2, Ticks DEF IInv, TypeOK
  <1>4. \A s \in Slots :
            /\ entries'[s] = IF s = slot THEN entry ELSE entries[s]
            /\ held'[s] = IF s = slot THEN block ELSE held[s]
    BY <1>1, <1>2 DEF IInv, TypeOK
  <1>5. EntriesOK'
    <2>1. \A s \in Used : ~ (entries[s].ih = ih /\ entries[s].offset = at)
      BY <1>1 DEF Matching
    <2>2. ASSUME NEW s \in Used, NEW t \in Used, entries'[s].ih # 0,
                 entries'[s].ih = entries'[t].ih, entries'[s].offset = entries'[t].offset
          PROVE  s = t
      <3>1. s \in Slots /\ t \in Slots
        BY UsedSlots DEF IInv
      <3>2. CASE s # slot /\ t # slot
        BY <1>1, <1>4, <2>2, <3>1, <3>2 DEF IInv, EntriesOK
      <3>3. CASE s = slot \/ t = slot
        BY <1>4, <2>1, <2>2, <3>1, <3>3
      <3> QED  BY <3>2, <3>3
    <2>3. Used' = Used
      BY <1>1 DEF Used
    <2> QED  BY <1>1, <1>2, <1>4, <2>2, <2>3 DEF IInv, EntriesOK
  <1>6. HeldOK'
    BY <1>1, <1>4 DEF IInv, HeldOK
  <1> QED  BY <1>3, <1>5, <1>6 DEF IInv

LEMMA AroundStep ==
    ASSUME IInv, NEW ih \in Devices, NEW at \in Offsets, NEW size \in BlockSizes,
           ReadAround(ih, at, size)
    PROVE  IInv'
  BY DEF IInv, ReadAround, Ask, TypeOK, EntriesOK, HeldOK, Used

\* Whatever a read does, its caller gets what it asked for.
LEMMA ReadStep ==
    ASSUME IInv, NEW ih \in Devices, NEW at \in Offsets, NEW size \in BlockSizes,
           CacheRead(ih, at, size)
    PROVE  IInv' /\ request' = <<ih, at, size>> /\ answer' = request'
  <1>1. CASE ReadHit(ih, at, size)
    BY <1>1, HitStep DEF ReadHit, Ask
  <1>2. CASE ReadMiss(ih, at, size)
    BY <1>2, MissStep DEF ReadMiss, Ask
  <1>3. CASE ReadAround(ih, at, size)
    BY <1>3, AroundStep DEF ReadAround, Ask
  <1> QED  BY <1>1, <1>2, <1>3 DEF CacheRead, ReadUncached

LEMMA IInvStep == IInv /\ [Next]_vars => IInv'
  <1>1. ASSUME IInv, UNCHANGED vars PROVE IInv'
    BY <1>1 DEF vars, IInv, TypeOK, EntriesOK, HeldOK, Used
  <1> QED  BY <1>1, CacheInitStep, ReadStep DEF Next

LEMMA Invariance == Spec => []IInv
  BY InitIInv, IInvStep, PTL DEF Spec

-----------------------------------------------------------------------------

\* CacheInit, CacheRead: whatever order of set-ups, failed allocations and reads,
\* the entries in use lie inside the cache, and no block has two of them.
THEOREM EntriesSound == Spec => [](TypeOK /\ EntriesOK)
  <1>1. IInv => TypeOK /\ EntriesOK
    BY DEF IInv
  <1> QED  BY <1>1, Invariance, PTL

\* A step of the cache is a read of the device or nothing.
LEMMA DeviceStep == IInv /\ [Next]_vars => [Device!Next]_<<request, answer>>
  <1> SUFFICES ASSUME IInv, [Next]_vars PROVE [Device!Next]_<<request, answer>>
    OBVIOUS
  <1>1. ASSUME NEW ih \in Devices, NEW blockSize \in BlockSizes, CacheInit(ih, blockSize)
        PROVE  UNCHANGED <<request, answer>>
    BY <1>1 DEF CacheInit, InitSame, InitRejected, InitCache, vars
  <1>2. ASSUME NEW ih \in Devices, NEW at \in Offsets, NEW size \in BlockSizes,
               CacheRead(ih, at, size)
        PROVE  Device!Next
    BY <1>2, ReadStep DEF Device!Next, Device!Read
  <1>3. CASE UNCHANGED vars
    BY <1>3 DEF vars
  <1> QED  BY <1>1, <1>2, <1>3 DEF Next

\* CacheRead (lib/hfs/cache.c) is transparent: it implements a device without a
\* cache, whatever the sizes, the evictions and the overflows of its counter.
THEOREM Transparent == Spec => ImplementsDevice
  <1>1. Init => Device!Init
    BY DEF Init, Device!Init, Device!Nothing, Nothing
  <1> QED
    BY <1>1, DeviceStep, Invariance, PTL DEF Spec, ImplementsDevice, Device!Spec

-----------------------------------------------------------------------------
(* ReadExtent: sizes *)

LEMMA ExtentSizes == Density \in Nat \ {0} /\ BlockSize \in Nat \ {0} /\ LoadSize \in Nat
  BY ExtentAssumption
USE ExtentSizes

\* A set that has 0 and with every number the next one has all of them.
LEMMA Induction ==
    ASSUME NEW n \in Nat, NEW S, 0 \in S, \A k \in 1 .. n : k - 1 \in S => k \in S
    PROVE  \A k \in 0 .. n : k \in S
  <1> SUFFICES ASSUME NEW k \in 0 .. n, k \notin S PROVE FALSE
    OBVIOUS
  <1> DEFINE out == {m \in 0 .. n : m \notin S}
  <1>1. PICK m \in out : \A l \in out : m <= l
    <2>1. out \in SUBSET Nat /\ out # {}
      OBVIOUS
    <2> HIDE DEF out
    <2> QED  BY <2>1, LeastNat
  <1>2. m \in 1 .. n
    BY <1>1
  <1>3. m - 1 \in 0 .. n /\ ~ (m <= m - 1)
    BY <1>2
  <1>4. m - 1 \in S
    BY <1>1, <1>3
  <1> QED  BY <1>1, <1>2, <1>4

-----------------------------------------------------------------------------
(* ReadFile, ReadExtent: numbers *)

LEMMA Quotient ==
    ASSUME NEW n \in Nat, NEW d \in Nat \ {0}
    PROVE  /\ n \div d \in Nat /\ n % d \in 0 .. d - 1 /\ n % d \in Nat
           /\ n = (n \div d) * d + (n % d)
  OBVIOUS

LEMMA Factor ==
    ASSUME NEW a \in Nat, NEW b \in Nat, NEW d \in Nat \ {0}
    PROVE  /\ a * d \in Nat
           /\ a < b => a * d + d <= b * d
           /\ a <= b <=> a * d <= b * d
  <1>1. a * d \in Nat /\ b * d \in Nat
    OBVIOUS
  <1>2. ASSUME a < b PROVE a * d + d <= b * d
    <2>1. PICK c \in Nat : b = a + 1 + c
      <3>1. b - a - 1 \in Nat /\ b = a + 1 + (b - a - 1)
        BY <1>2
      <3> QED  BY <3>1
    <2>2. b * d = a * d + d + c * d /\ c * d \in Nat
      BY <2>1
    <2> QED  BY <1>1, <2>2
  <1>3. ASSUME b < a PROVE b * d + d <= a * d
    <2>1. PICK c \in Nat : a = b + 1 + c
      <3>1. a - b - 1 \in Nat /\ a = b + 1 + (a - b - 1)
        BY <1>3
      <3> QED  BY <3>1
    <2>2. a * d = b * d + d + c * d /\ c * d \in Nat
      BY <2>1
    <2> QED  BY <1>1, <2>2
  <1> DEFINE ad == a * d
             bd == b * d
  <1>4. ad \in Nat /\ bd \in Nat /\ (a < b => ad + d <= bd) /\ (b < a => bd + d <= ad) /\ (a = b => ad = bd)
    BY <1>1, <1>2, <1>3
  <1> HIDE DEF ad, bd
  <1>5. /\ ad \in Nat
        /\ a < b => ad + d <= bd
        /\ a <= b <=> ad <= bd
    BY <1>4
  <1> QED  BY <1>5 DEF ad, bd

\* n lies before block q just if the block it is in does.
LEMMA InBlock ==
    ASSUME NEW n \in Nat, NEW d \in Nat \ {0}, NEW q \in Nat
    PROVE  n \div d < q <=> n < q * d
  <1> DEFINE p == n \div d
             m == n % d
             pd == p * d
             qd == q * d
  <1>1. p \in Nat /\ m \in 0 .. d - 1 /\ n = pd + m
    BY Quotient
  <1>2. pd \in Nat /\ qd \in Nat
    <2> HIDE DEF p
    <2> QED  BY <1>1
  <1>3. (p < q => pd + d <= qd) /\ (q <= p => qd <= pd)
    <2> HIDE DEF p
    <2> QED  BY <1>1, Factor
  <1> HIDE DEF p, m, pd, qd
  <1>4. p < q <=> n < qd
    BY <1>1, <1>2, <1>3
  <1> QED  BY <1>4 DEF p, qd

\* What is appended.
LEMMA Appended ==
    ASSUME NEW s \in Seq(Int), NEW n \in Nat, NEW f \in [1 .. n -> Int]
    PROVE  /\ s \o f \in Seq(Int) /\ Len(s \o f) = Len(s) + n
           /\ \A i \in 1 .. Len(s) : (s \o f)[i] = s[i]
           /\ \A i \in Len(s) + 1 .. Len(s) + n : (s \o f)[i] = f[i - Len(s)]
  <1>1. f \in Seq(Int) /\ Len(f) = n
    OBVIOUS
  <1> QED  BY <1>1

-----------------------------------------------------------------------------
(* The extents of a file *)

Extent == [start : Nat, count : Nat \ {0}]

LEMMA FileShape ==
    ASSUME NEW f \in Files
    PROVE  /\ Len(f) \in Nat \ {0} /\ DOMAIN f = 1 .. Len(f)
           /\ \A k \in 1 .. Len(f) : f[k].start \in Nat /\ f[k].count \in Nat \ {0}
  <1>1. f # <<>> /\ f \in Seq(Extent)
    BY ExtentAssumption DEF Extent
  <1>2. Len(f) \in Nat \ {0} /\ DOMAIN f = 1 .. Len(f)
    BY <1>1
  <1>3. ASSUME NEW k \in 1 .. Len(f) PROVE f[k] \in Extent
    BY <1>1, <1>2
  <1> QED  BY <1>2, <1>3 DEF Extent

Sums(f) == CHOOSE sum : sum = [k \in 0 .. Len(f) |-> IF k = 0 THEN 0 ELSE sum[k - 1] + f[k].count]

BlocksOf(f, n) == Sums(f)[n]

RecordOf(f, r) == [i \in 0 .. Density - 1 |->
                      IF r * Density + i + 1 \in DOMAIN f THEN f[r * Density + i + 1] ELSE Ext!NoExtent]

AddressOf(f, b) ==
    LET block == b \div BlockSize
        n == CHOOSE n \in DOMAIN f : BlocksOf(f, n - 1) <= block /\ block < BlocksOf(f, n)
    IN  (f[n].start + block - BlocksOf(f, n - 1)) * BlockSize + (b % BlockSize)

SumUpTo(f, m, g) == g = [k \in 0 .. m |-> IF k = 0 THEN 0 ELSE g[k - 1] + f[k].count]

\* The function that the loop over the extents computes exists.
LEMMA SumsExist ==
    ASSUME NEW f \in Files
    PROVE  \E g : g = [k \in 0 .. Len(f) |-> IF k = 0 THEN 0 ELSE g[k - 1] + f[k].count]
  <1> DEFINE S == {m \in 0 .. Len(f) : \E g : SumUpTo(f, m, g)}
  <1>0. Len(f) \in Nat
    BY FileShape
  <1>1. 0 \in S
    <2>1. SumUpTo(f, 0, [k \in 0 .. 0 |-> 0])
      BY DEF SumUpTo
    <2> QED  BY <1>0, <2>1
  <1>2. ASSUME NEW m \in 1 .. Len(f), m - 1 \in S PROVE m \in S
    <2>1. PICK g : SumUpTo(f, m - 1, g)
      BY <1>2
    <2> DEFINE h == [k \in 0 .. m |-> IF k = m THEN g[m - 1] + f[m].count ELSE g[k]]
    <2>2. \A k \in 0 .. m - 1 : h[k] = g[k] /\ g[k] = IF k = 0 THEN 0 ELSE g[k - 1] + f[k].count
      <3>1. \A k \in 0 .. m - 1 : k \in 0 .. m /\ k # m
        OBVIOUS
      <3>2. \A k \in 0 .. m - 1 : g[k] = IF k = 0 THEN 0 ELSE g[k - 1] + f[k].count
        BY <2>1 DEF SumUpTo
      <3> QED  BY <3>1, <3>2
    <2>3. h[m] = g[m - 1] + f[m].count
      OBVIOUS
    <2>4. \A k \in 0 .. m : h[k] = IF k = 0 THEN 0 ELSE h[k - 1] + f[k].count
      <3> HIDE DEF h
      <3> TAKE k \in 0 .. m
      <3>1. CASE k = m
        <4>1. m - 1 \in 0 .. m - 1 /\ m # 0
          OBVIOUS
        <4> QED  BY <2>2, <2>3, <3>1, <4>1
      <3>2. CASE k # m
        <4>1. k \in 0 .. m - 1 /\ (k # 0 => k - 1 \in 0 .. m - 1)
          BY <3>2
        <4> QED  BY <2>2, <4>1
      <3> QED  BY <3>1, <3>2
    <2>5. SumUpTo(f, m, h)
      <3>1. h = [k \in 0 .. m |-> h[k]]
        OBVIOUS
      <3> HIDE DEF h
      <3> QED  BY <2>4, <3>1 DEF SumUpTo
    <2> QED  BY <2>5
  <1>3. Len(f) \in S
    <2> HIDE DEF S
    <2> QED  BY <1>0, <1>1, <1>2, Induction
  <1> QED  BY <1>3 DEF SumUpTo

LEMMA Summed ==
    ASSUME NEW f \in Files
    PROVE  /\ BlocksOf(f, 0) = 0
           /\ \A k \in 0 .. Len(f) : BlocksOf(f, k) \in Nat
           /\ \A k \in 1 .. Len(f) : BlocksOf(f, k) = BlocksOf(f, k - 1) + f[k].count
  <1>0. Len(f) \in Nat /\ \A k \in 1 .. Len(f) : f[k].count \in Nat
    BY FileShape
  <1>1. Sums(f) = [k \in 0 .. Len(f) |-> IF k = 0 THEN 0 ELSE Sums(f)[k - 1] + f[k].count]
    BY SumsExist DEF Sums
  <1>2. \A k \in 0 .. Len(f) : BlocksOf(f, k) = IF k = 0 THEN 0 ELSE BlocksOf(f, k - 1) + f[k].count
    BY <1>1, Zenon DEF BlocksOf
  <1>3. BlocksOf(f, 0) = 0 /\ \A k \in 1 .. Len(f) : BlocksOf(f, k) = BlocksOf(f, k - 1) + f[k].count
    BY <1>0, <1>2
  <1> DEFINE S == {k \in 0 .. Len(f) : BlocksOf(f, k) \in Nat}
  <1>4. 0 \in S /\ \A k \in 1 .. Len(f) : k - 1 \in S => k \in S
    BY <1>0, <1>3
  <1> HIDE DEF S
  <1>5. \A k \in 0 .. Len(f) : k \in S
    BY <1>0, <1>4, Induction
  <1> QED  BY <1>3, <1>5 DEF S

\* Every extent has a block.
LEMMA Increasing ==
    ASSUME NEW f \in Files, NEW j \in 0 .. Len(f), NEW k \in 0 .. Len(f)
    PROVE  j < k <=> BlocksOf(f, j) < BlocksOf(f, k)
  <1>0. Len(f) \in Nat /\ \A n \in 1 .. Len(f) : f[n].count \in Nat \ {0}
    BY FileShape
  <1> DEFINE S == {n \in 0 .. Len(f) : \A m \in 0 .. n - 1 : BlocksOf(f, m) < BlocksOf(f, n)}
  <1>1. 0 \in S
    BY <1>0
  <1>2. ASSUME NEW n \in 1 .. Len(f), n - 1 \in S PROVE n \in S
    <2>1. ASSUME NEW m \in 0 .. n - 1 PROVE BlocksOf(f, m) < BlocksOf(f, n)
      <3>1. BlocksOf(f, n - 1) < BlocksOf(f, n)
        <4>1. n - 1 \in 0 .. Len(f) /\ f[n].count \in Nat \ {0}
          BY <1>0
        <4>2. BlocksOf(f, n) = BlocksOf(f, n - 1) + f[n].count /\ BlocksOf(f, n - 1) \in Nat
          BY <4>1, Summed
        <4> QED  BY <4>1, <4>2
      <3>2. m = n - 1 \/ BlocksOf(f, m) < BlocksOf(f, n - 1)
        BY <1>2
      <3>3. BlocksOf(f, m) \in Nat /\ BlocksOf(f, n) \in Nat /\ BlocksOf(f, n - 1) \in Nat
        BY <1>0, Summed
      <3> QED  BY <3>1, <3>2, <3>3
    <2> QED  BY <2>1
  <1>3. \A n \in 0 .. Len(f) : n \in S
    <2> HIDE DEF S
    <2> QED  BY <1>0, <1>1, <1>2, Induction
  <1>4. \A m, n \in 0 .. Len(f) : m < n => BlocksOf(f, m) < BlocksOf(f, n)
    BY <1>3
  <1>5. BlocksOf(f, j) \in Nat /\ BlocksOf(f, k) \in Nat
    BY Summed
  <1> QED  BY <1>4, <1>5

\* The extent that a block is in gives a byte's address.
LEMMA AddressIn ==
    ASSUME NEW f \in Files, NEW k \in 1 .. Len(f), NEW b \in Nat,
           BlocksOf(f, k - 1) * BlockSize <= b, b < BlocksOf(f, k) * BlockSize
    PROVE  AddressOf(f, b) = f[k].start * BlockSize + (b - BlocksOf(f, k - 1) * BlockSize)
  <1> DEFINE block == b \div BlockSize
             low == BlocksOf(f, k - 1)
             holds(n) == BlocksOf(f, n - 1) <= block /\ block < BlocksOf(f, n)
             n == CHOOSE n \in DOMAIN f : holds(n)
  <1>0. /\ Len(f) \in Nat /\ DOMAIN f = 1 .. Len(f) /\ f[k].start \in Nat
        /\ \A m \in 1 .. Len(f) : m - 1 \in 0 .. Len(f) /\ m \in 0 .. Len(f)
    BY FileShape
  <1>1. \A m \in 0 .. Len(f) : BlocksOf(f, m) \in Nat
    BY Summed
  <1>2. block \in Nat /\ b % BlockSize \in Nat /\ b = block * BlockSize + (b % BlockSize)
    BY Quotient, Zenon
  <1>3. holds(k)
    <2>1. block < BlocksOf(f, k) <=> b < BlocksOf(f, k) * BlockSize
      BY <1>0, <1>1, InBlock
    <2>2. block < BlocksOf(f, k - 1) <=> b < BlocksOf(f, k - 1) * BlockSize
      BY <1>0, <1>1, InBlock
    <2>3. low * BlockSize \in Nat /\ BlocksOf(f, k - 1) \in Nat
      BY <1>0, <1>1
    <2> HIDE DEF block
    <2> QED  BY <1>0, <1>1, <1>2, <2>1, <2>2, <2>3
  <1>4. ASSUME NEW m \in 1 .. Len(f), holds(m) PROVE m = k
    <2>1. /\ m < k => m <= k - 1 /\ ~ (k - 1 < m)
          /\ k < m => k <= m - 1 /\ ~ (m - 1 < k)
      OBVIOUS
    <2>2. m < k => BlocksOf(f, m) <= BlocksOf(f, k - 1)
      BY <1>0, <1>1, <2>1, Increasing
    <2>3. k < m => BlocksOf(f, k) <= BlocksOf(f, m - 1)
      BY <1>0, <1>1, <2>1, Increasing
    <2>5. /\ BlocksOf(f, k) \in Nat /\ BlocksOf(f, k - 1) \in Nat
           /\ BlocksOf(f, m) \in Nat /\ BlocksOf(f, m - 1) \in Nat
      BY <1>0, <1>1
    <2> HIDE DEF block
    <2>4. ~ (m < k) /\ ~ (k < m)
      BY <1>2, <1>3, <1>4, <2>2, <2>3, <2>5
    <2> QED  BY <2>4
  <1>5. n = k
    <2> HIDE DEF holds
    <2> QED  BY <1>0, <1>3, <1>4
  <1>6. AddressOf(f, b) = (f[k].start + block - low) * BlockSize + (b % BlockSize)
    <2>1. AddressOf(f, b) = (f[n].start + block - BlocksOf(f, n - 1)) * BlockSize + (b % BlockSize)
      BY DEF AddressOf
    <2> HIDE DEF n, block
    <2> QED  BY <1>5, <2>1
  <1>7. low \in Nat
    BY <1>0, <1>1
  <1> HIDE DEF block, low, holds, n
  <1>8. (f[k].start + block - low) * BlockSize = f[k].start * BlockSize + (block * BlockSize - low * BlockSize)
    BY <1>0, <1>2, <1>7
  <1>9. /\ f[k].start * BlockSize \in Int /\ block * BlockSize \in Int /\ low * BlockSize \in Int
    BY <1>0, <1>2, <1>7
  <1>10. AddressOf(f, b) = f[k].start * BlockSize + (b - low * BlockSize)
    BY <1>2, <1>6, <1>8, <1>9
  <1> QED  BY <1>10 DEF low

-----------------------------------------------------------------------------
(* The loops of ReadExtent *)

Rest == fileLength - want.offset

\* What is to be read, to the end of the file for a length of 0.
Asked == IF want.length = 0 \/ want.offset + want.length > fileLength THEN Rest ELSE want.length

\* Whether the record of the extents tree that the next extent is in was read.
RecordRead ==
    IF nextExtent < Density THEN currentExtentBlock = 0
    ELSE IF currentExtentBlock = nextExtent \div Density
    THEN extentBuffer = RecordOf(extents, nextExtent \div Density)
    ELSE nextExtent % Density = 0

\* The extents that were passed lie before the offset.
Passed ==
    /\ nextExtent \in 0 .. Len(extents) - 1
    /\ countedBlocks = BlocksOf(extents, nextExtent)
    /\ countedBlocks * BlockSize <= offset

AsInFile == \A i \in 1 .. Len(buffer) : buffer[i] = AddressOf(extents, want.offset + i - 1)

Progress ==
    /\ readPc \in {"file", "extent", "done"}
    /\ readPc = "file" => buffer = <<>> /\ length = want.length
    /\ readPc = "extent" =>
          want.offset < fileLength /\ length = Asked /\ Asked <= LoadSize /\ Len(buffer) <= length
    /\ readPc = "done" =>
          returned = IF Rest < 0 \/ (Rest > 0 /\ Asked > LoadSize) THEN -1 ELSE Asked

ExtInv ==
    /\ extents \in Files
    /\ fileLength \in Nat /\ fileLength <= BlocksOf(extents, Len(extents)) * BlockSize
    /\ want.offset \in Nat /\ want.length \in Nat
    /\ buffer \in Seq(Int) /\ offset = want.offset + Len(buffer)
    /\ AsInFile /\ Progress /\ Passed /\ RecordRead


LEMMA BlocksAre == ASSUME NEW n PROVE Ext!Blocks(n) = BlocksOf(extents, n)
  BY DEF Ext!Blocks, BlocksOf, Sums

LEMMA RecordIs == ASSUME NEW r PROVE Ext!Record(r) = RecordOf(extents, r)
  BY DEF Ext!Record, RecordOf

LEMMA AddressIs == ASSUME NEW b PROVE Ext!Address(b) = AddressOf(extents, b)
  BY BlocksAre DEF Ext!Address, AddressOf

LEMMA ExtInit == Ext!Init => ExtInv
  <1> SUFFICES ASSUME Ext!Init PROVE ExtInv
    OBVIOUS
  <1>1. /\ extents \in Files
        /\ fileLength \in 0 .. BlocksOf(extents, Len(extents)) * BlockSize
        /\ offset \in 0 .. fileLength + 1 /\ length \in 0 .. fileLength + 1
        /\ want.offset = offset /\ want.length = length
        /\ nextExtent = 0 /\ countedBlocks = 0 /\ currentExtentBlock = 0
        /\ buffer = <<>> /\ readPc = "file"
    BY BlocksAre DEF Ext!Init
  <1>2. Len(extents) \in Nat \ {0} /\ BlocksOf(extents, Len(extents)) \in Nat /\ BlocksOf(extents, 0) = 0
    BY <1>1, FileShape, Summed
  <1>3. BlocksOf(extents, Len(extents)) * BlockSize \in Nat
    BY <1>2
  <1>4. offset \in Nat /\ length \in Nat /\ fileLength \in Nat
        /\ fileLength <= BlocksOf(extents, Len(extents)) * BlockSize
    BY <1>1, <1>3
  <1>5. Passed
    <2>1. 0 * BlockSize <= offset
      BY <1>4
    <2> QED  BY <1>1, <1>2, <2>1 DEF Passed
  <1>6. Len(buffer) = 0 /\ buffer \in Seq(Int) /\ AsInFile
    BY <1>1 DEF AsInFile
  <1>7. RecordRead
    BY <1>1 DEF RecordRead
  <1>8. Progress
    BY <1>1 DEF Progress
  <1> QED  BY <1>1, <1>4, <1>5, <1>6, <1>7, <1>8 DEF ExtInv

\* What is asked for is in the file.
LEMMA AskedInFile ==
    ASSUME fileLength \in Nat, want.offset \in Nat, want.length \in Nat
    PROVE  /\ Rest \in Int /\ Asked \in Int /\ Asked <= Rest
           /\ Rest >= 0 => Asked \in Nat
           /\ Rest = 0 => Asked = 0
  BY DEF Rest, Asked

\* ReadFile's three ways
LEMMA ReadFileStep ==
    ASSUME ExtInv, Ext!ReadFileRefused \/ Ext!ReadFileAtEnd \/ Ext!ReadFile
    PROVE  ExtInv'
  <1>1. /\ readPc = "file"
        /\ UNCHANGED <<extents, fileLength, want, offset, nextExtent, countedBlocks,
                       currentExtentBlock, extentBuffer, buffer>>
    BY DEF Ext!ReadFileRefused, Ext!ReadFileAtEnd, Ext!ReadFile, Ext!file, Ext!Locals
  <1>2. /\ buffer = <<>> /\ Len(buffer) = 0 /\ length = want.length /\ offset = want.offset
        /\ fileLength \in Nat /\ want.offset \in Nat /\ want.length \in Nat
    BY <1>1 DEF ExtInv, Progress
  <1>3. Ext!Clamped = Asked
    BY <1>2 DEF Ext!Clamped, Asked, Rest
  <1>4. Rest' = Rest /\ Asked' = Asked
    BY <1>1 DEF Rest, Asked
  <1>5. Progress'
    <2>1. CASE Ext!ReadFileRefused
      <3>1. readPc' = "done" /\ returned' = -1
        BY <2>1 DEF Ext!ReadFileRefused, Ext!Return
      <3>2. Rest < 0 \/ (Rest > 0 /\ Asked > LoadSize)
        <4>1. offset > fileLength \/ Asked > LoadSize
          BY <1>3, <2>1 DEF Ext!ReadFileRefused
        <4> QED  BY <1>2, <4>1, AskedInFile DEF Rest
      <3> QED  BY <1>4, <3>1, <3>2 DEF Progress
    <2>2. CASE Ext!ReadFileAtEnd
      <3>1. readPc' = "done" /\ returned' = 0 /\ Rest = 0
        BY <1>2, <2>2 DEF Ext!ReadFileAtEnd, Ext!Return, Rest
      <3>2. Asked = 0
        BY <1>2, <3>1, AskedInFile
      <3> QED  BY <1>4, <3>1, <3>2 DEF Progress
    <2>3. CASE Ext!ReadFile
      <3>1. readPc' = "extent" /\ length' = Asked /\ offset < fileLength /\ Asked <= LoadSize
        BY <1>3, <2>3 DEF Ext!ReadFile
      <3>2. Rest >= 0 /\ Asked \in Nat
        BY <1>2, <3>1, AskedInFile DEF Rest
      <3> QED  BY <1>1, <1>2, <1>4, <3>1, <3>2 DEF Progress
    <2> QED  BY <2>1, <2>2, <2>3
  <1>6. AsInFile' /\ Passed' /\ RecordRead'
    BY <1>1 DEF ExtInv, AsInFile, Passed, RecordRead
  <1> QED  BY <1>1, <1>5, <1>6 DEF ExtInv

LEMMA ReadExtentEndsStep == ASSUME ExtInv, Ext!ReadExtentEnds PROVE ExtInv'
  <1>1. /\ readPc = "extent" /\ readPc' = "done" /\ returned' = Len(buffer) /\ Len(buffer) >= length
        /\ UNCHANGED <<extents, fileLength, want, offset, length, nextExtent, countedBlocks,
                       currentExtentBlock, extentBuffer, buffer>>
    BY DEF Ext!ReadExtentEnds, Ext!Return, Ext!sizeRead, Ext!file, Ext!Locals
  <1>2. Rest' = Rest /\ Asked' = Asked
    BY <1>1 DEF Rest, Asked
  <1>3. /\ want.offset < fileLength /\ length = Asked /\ Asked <= LoadSize /\ Len(buffer) <= length
        /\ Len(buffer) \in Nat /\ fileLength \in Nat /\ want.offset \in Nat /\ want.length \in Nat
    BY <1>1 DEF ExtInv, Progress
  <1>4. Rest \in Int /\ Rest > 0 /\ Asked = Len(buffer)
    BY <1>1, <1>3, AskedInFile DEF Rest
  <1>5. Progress'
    BY <1>1, <1>2, <1>3, <1>4 DEF Progress
  <1>6. AsInFile' /\ Passed' /\ RecordRead'
    BY <1>1 DEF ExtInv, AsInFile, Passed, RecordRead
  <1> QED  BY <1>1, <1>5, <1>6 DEF ExtInv

\* As long as there is more to read, the offset is in the file.
LEMMA MoreInFile ==
    ASSUME ExtInv, Ext!More
    PROVE  /\ readPc = "extent" /\ Len(buffer) \in Nat /\ Len(buffer) < length
           /\ offset \in Nat /\ offset < BlocksOf(extents, Len(extents)) * BlockSize
           /\ length \in Nat
  <1>1. /\ readPc = "extent" /\ Len(buffer) < length /\ Len(buffer) \in Nat
        /\ length = Asked /\ offset = want.offset + Len(buffer) /\ want.offset < fileLength
        /\ fileLength \in Nat /\ want.offset \in Nat /\ want.length \in Nat
        /\ fileLength <= BlocksOf(extents, Len(extents)) * BlockSize
    BY DEF ExtInv, Progress, Ext!More, Ext!sizeRead
  <1>2. Asked <= fileLength - want.offset /\ Asked \in Nat
    BY <1>1, AskedInFile DEF Rest
  <1>3. BlocksOf(extents, Len(extents)) * BlockSize \in Int
    <2>1. extents \in Files /\ Len(extents) \in 0 .. Len(extents)
      BY FileShape DEF ExtInv
    <2> QED  BY <2>1, Summed
  <1> QED  BY <1>1, <1>2, <1>3

\* The extent that is looked at is the one of its number, in the catalog's record
\* or in the one that was read last.
LEMMA CurrentIs ==
    ASSUME ExtInv, Ext!InFork \/ Ext!Loaded
    PROVE  Ext!Current = extents[nextExtent + 1]
  <1> DEFINE q == nextExtent \div Density
             m == nextExtent % Density
  <1>1. extents \in Files /\ nextExtent \in 0 .. Len(extents) - 1 /\ Len(extents) \in Nat \ {0}
        /\ DOMAIN extents = 1 .. Len(extents)
    BY FileShape DEF ExtInv, Passed
  <1>2. nextExtent \in Nat /\ nextExtent + 1 \in DOMAIN extents
    BY <1>1
  <1>3. CASE Ext!InFork
    <2>1. Ext!Current = RecordOf(extents, 0)[nextExtent] /\ nextExtent \in 0 .. Density - 1
      BY <1>2, <1>3, RecordIs DEF Ext!Current, Ext!InFork
    <2>2. 0 * Density + nextExtent + 1 = nextExtent + 1
      BY <1>2
    <2> QED  BY <1>2, <2>1, <2>2 DEF RecordOf
  <1>4. CASE ~ Ext!InFork
    <2>1. q \in Nat /\ m \in 0 .. Density - 1 /\ nextExtent = q * Density + m
      BY <1>2, Quotient
    <2>2. Ext!Current = extentBuffer[m] /\ currentExtentBlock = q /\ ~ (nextExtent < Density)
      BY <1>4 DEF Ext!Current, Ext!InFork, Ext!Loaded, Ext!nextExtentBlock
    <2>3. extentBuffer = RecordOf(extents, q)
      BY <2>2 DEF ExtInv, RecordRead
    <2> HIDE DEF q, m
    <2>4. extentBuffer[m] = extents[q * Density + m + 1]
      BY <1>2, <2>1, <2>3 DEF RecordOf
    <2> QED  BY <2>1, <2>2, <2>4
  <1> QED  BY <1>3, <1>4

\* The record that begins with the next extent is the one that is found.
LEMMA OverflowIs ==
    ASSUME ExtInv, ~ Ext!InFork, ~ Ext!Loaded
    PROVE  Ext!Overflow(countedBlocks) = {nextExtent \div Density}
  <1> DEFINE q == nextExtent \div Density
  <1>1. /\ extents \in Files /\ nextExtent \in 0 .. Len(extents) - 1 /\ Len(extents) \in Nat \ {0}
        /\ countedBlocks = BlocksOf(extents, nextExtent)
        /\ nextExtent \in Nat /\ ~ (nextExtent < Density)
        /\ nextExtent % Density = 0
    BY FileShape DEF ExtInv, Passed, RecordRead, Ext!InFork, Ext!Loaded, Ext!nextExtentBlock
  <1>2. q \in Nat /\ nextExtent = q * Density
    <2>1. nextExtent = q * Density + (nextExtent % Density) /\ q \in Nat
      BY <1>1, Quotient, Zenon
    <2> HIDE DEF q
    <2> QED  BY <1>1, <2>1
  <1> HIDE DEF q
  <1>3. q \in 1 .. Len(extents)
    <2>1. q # 0
      BY <1>1, <1>2
    <2>2. q <= q * Density
      BY <1>2
    <2> QED  BY <1>1, <1>2, <2>1, <2>2
  <1>4. ASSUME NEW r \in 1 .. Len(extents), r * Density < Len(extents),
               BlocksOf(extents, r * Density) = BlocksOf(extents, nextExtent)
        PROVE  r = q
    <2>1. r * Density \in 0 .. Len(extents) /\ nextExtent \in 0 .. Len(extents)
      BY <1>1, <1>4
    <2>2. ~ (r * Density < nextExtent) /\ ~ (nextExtent < r * Density)
      BY <1>1, <1>4, <2>1, Increasing, Summed
    <2>3. r * Density = q * Density
      BY <1>1, <1>2, <2>1, <2>2
    <2>4. r <= q /\ q <= r
      BY <1>2, <1>3, <2>1, <2>3, Factor
    <2> QED  BY <1>2, <2>4
  <1>5. Ext!Overflow(countedBlocks) =
            {r \in 1 .. Len(extents) : r * Density < Len(extents)
                                       /\ BlocksOf(extents, r * Density) = countedBlocks}
    BY BlocksAre DEF Ext!Overflow
  <1>6. q * Density < Len(extents) /\ BlocksOf(extents, q * Density) = countedBlocks
    BY <1>1, <1>2
  <1>7. Ext!Overflow(countedBlocks) = {q}
    BY <1>1, <1>3, <1>4, <1>5, <1>6
  <1> QED  BY <1>7 DEF q

LEMMA LoadOverflowStep == ASSUME ExtInv, Ext!LoadOverflow PROVE ExtInv'
  <1> DEFINE q == nextExtent \div Density
  <1>1. /\ ~ Ext!InFork /\ ~ Ext!Loaded /\ readPc = "extent"
        /\ currentExtentBlock' = q
        /\ UNCHANGED <<extents, fileLength, want, offset, length, nextExtent, countedBlocks,
                       buffer, readPc, returned>>
    BY DEF Ext!LoadOverflow, Ext!file, Ext!nextExtentBlock, Ext!More
  <1>2. extentBuffer' = RecordOf(extents, q)
    <2>1. Ext!Overflow(countedBlocks) = {q}
      BY <1>1, OverflowIs
    <2>2. extentBuffer' = Ext!Record(Ext!Min({q}))
      BY <2>1 DEF Ext!LoadOverflow
    <2>3. Ext!Min({q}) = q
      <3>1. Ext!Min({q}) \in {q}
        <4>1. q \in Nat /\ q <= q
          <5>1. nextExtent \in Nat
            BY FileShape DEF ExtInv, Passed
          <5> QED  BY <5>1, Quotient
        <4> HIDE DEF q
        <4> QED  BY <4>1 DEF Ext!Min
      <3> QED  BY <3>1
    <2> QED  BY <2>2, <2>3, RecordIs
  <1>3. RecordRead'
    BY <1>1, <1>2 DEF RecordRead, ExtInv, Ext!InFork
  <1>4. Progress' /\ AsInFile' /\ Passed'
    BY <1>1 DEF ExtInv, Progress, Rest, Asked, AsInFile, Passed
  <1> QED  BY <1>1, <1>3, <1>4 DEF ExtInv

LEMMA NextQuotient ==
    ASSUME NEW n \in Nat, NEW d \in Nat \ {0}
    PROVE  (n + 1) \div d = IF (n + 1) % d = 0 THEN n \div d + 1 ELSE n \div d
  OBVIOUS

\* An extent is passed when it ends before the offset, so never the last one.
LEMMA SkipExtentStep == ASSUME ExtInv, Ext!SkipExtent PROVE ExtInv'
  <1> DEFINE k == nextExtent + 1
             b == BlocksOf(extents, k)
             last == BlocksOf(extents, Len(extents))
  <1>1. /\ Ext!More /\ (Ext!InFork \/ Ext!Loaded) /\ ~ Ext!Holds
        /\ countedBlocks' = countedBlocks + Ext!Current.count /\ nextExtent' = k
        /\ UNCHANGED <<extents, fileLength, want, offset, length, currentExtentBlock,
                       extentBuffer, buffer, readPc, returned>>
    BY DEF Ext!SkipExtent, Ext!file
  <1>2. /\ extents \in Files /\ Len(extents) \in Nat \ {0}
        /\ nextExtent \in Nat /\ k \in 1 .. Len(extents) /\ k \in 0 .. Len(extents)
        /\ extents[k].count \in Nat \ {0}
        /\ countedBlocks = BlocksOf(extents, nextExtent) /\ countedBlocks \in Nat
    BY FileShape, Summed DEF ExtInv, Passed
  <1>3. /\ Ext!Current = extents[k]
        /\ offset \in Nat /\ offset < last * BlockSize
    BY <1>1, CurrentIs, MoreInFile
  <1>4. b = countedBlocks + extents[k].count /\ b \in Nat /\ last \in Nat
    <2>1. b = BlocksOf(extents, k - 1) + extents[k].count /\ b \in Nat /\ last \in Nat
      BY <1>2, Summed
    <2>2. k - 1 = nextExtent
      BY <1>2
    <2> QED  BY <1>2, <2>1, <2>2
  <1>5. ~ (offset \div BlockSize < b)
    <2>1. ~ (countedBlocks + extents[k].count - 1 >= offset \div BlockSize)
      BY <1>1, <1>3 DEF Ext!Holds, Ext!blockNumber
    <2>2. offset \div BlockSize \in Nat
      BY <1>3, Quotient
    <2> HIDE DEF b, k
    <2> QED  BY <1>2, <1>4, <2>1, <2>2
  <1>6. b * BlockSize <= offset
    <2>1. ~ (offset < b * BlockSize)
      BY <1>3, <1>4, <1>5, InBlock
    <2>2. b * BlockSize \in Nat
      <3> HIDE DEF b
      <3> QED  BY <1>4
    <2> HIDE DEF b
    <2> QED  BY <1>3, <2>1, <2>2
  <1>7. k < Len(extents)
    <2>1. ~ (last <= b)
      <3>1. last <= b <=> last * BlockSize <= b * BlockSize
        BY <1>4, Factor
      <3>2. last * BlockSize \in Nat /\ b * BlockSize \in Nat
        <4> HIDE DEF last, b
        <4> QED  BY <1>4
      <3> HIDE DEF last, b
      <3> QED  BY <1>3, <1>6, <3>1, <3>2
    <2>2. b < last
      <3> HIDE DEF last, b
      <3> QED  BY <1>4, <2>1
    <2>3. k < Len(extents) <=> b < last
      BY <1>2, Increasing
    <2> QED  BY <2>2, <2>3
  <1>8. Passed'
    <2>1. k \in 0 .. Len(extents) - 1
      BY <1>2, <1>7
    <2>2. countedBlocks' = b /\ offset' = offset /\ extents' = extents /\ nextExtent' = k
      BY <1>1, <1>3, <1>4
    <2> HIDE DEF k
    <2> QED  BY <1>6, <2>1, <2>2 DEF Passed
  <1>9. RecordRead'
    <2> DEFINE q == nextExtent \div Density
               p == k \div Density
    <2>1. p = IF k % Density = 0 THEN q + 1 ELSE q
      BY <1>2, NextQuotient
    <2>2. q \in Nat
      BY <1>2, Quotient
    <2>3. nextExtent < Density => currentExtentBlock = 0
      BY DEF ExtInv, RecordRead
    <2>4. ~ (nextExtent < Density) => currentExtentBlock = q /\ extentBuffer = RecordOf(extents, q)
      BY <1>1 DEF Ext!InFork, Ext!Loaded, Ext!nextExtentBlock, ExtInv, RecordRead
    <2>5. CASE k < Density
      <3>1. nextExtent < Density
        BY <1>2, <2>5
      <3> QED  BY <1>1, <2>3, <2>5, <3>1 DEF RecordRead
    <2>6. CASE ~ (k < Density) /\ k % Density = 0
      <3>1. currentExtentBlock # p
        <4>1. CASE nextExtent < Density
          <5>1. p = q + 1 /\ p # 0
            <6> HIDE DEF p, q, k
            <6> QED  BY <2>1, <2>2, <2>6
          <5> QED  BY <2>3, <4>1, <5>1
        <4>2. CASE ~ (nextExtent < Density)
          <5>1. p = q + 1 /\ p # q
            <6> HIDE DEF p, q, k
            <6> QED  BY <2>1, <2>2, <2>6
          <5> QED  BY <2>4, <4>2, <5>1
        <4> QED  BY <4>1, <4>2
      <3> HIDE DEF k
      <3> QED  BY <1>1, <2>6, <3>1 DEF RecordRead, p
    <2>7. CASE ~ (k < Density) /\ k % Density # 0
      <3>1. k # Density
        <4>1. Density % Density = 0
          OBVIOUS
        <4> HIDE DEF k
        <4> QED  BY <2>7, <4>1
      <3>2. ~ (nextExtent < Density)
        BY <1>2, <2>7, <3>1
      <3>3. p = q
        <4> HIDE DEF p, q, k
        <4> QED  BY <2>1, <2>7
      <3>4. currentExtentBlock' = k \div Density /\ extentBuffer' = RecordOf(extents', k \div Density)
        <4>1. currentExtentBlock' = q /\ extentBuffer' = RecordOf(extents', q)
          BY <1>1, <2>4, <3>2
        <4> HIDE DEF q, k
        <4> QED  BY <3>3, <4>1 DEF p
      <3> HIDE DEF k
      <3> QED  BY <1>1, <2>7, <3>4 DEF RecordRead
    <2> QED  BY <2>5, <2>6, <2>7
  <1>10. Progress' /\ AsInFile'
    BY <1>1 DEF ExtInv, Progress, Rest, Asked, AsInFile
  <1> QED  BY <1>1, <1>8, <1>9, <1>10 DEF ExtInv

LEMMA MinTwo ==
    ASSUME NEW a \in Nat, NEW b \in Nat
    PROVE  Ext!Min({a, b}) = IF a <= b THEN a ELSE b
  BY DEF Ext!Min

\* A piece that is no longer than what is left of the extent and of the length
LEMMA PieceEnds ==
    ASSUME NEW o \in Nat, NEW l \in Nat, NEW m \in Nat, NEW high \in Nat, o < high, m < l
    PROVE  \A n : n = (IF high - o <= l - m THEN high - o ELSE l - m)
                     => n \in Nat /\ o + n <= high /\ m + n <= l
  OBVIOUS

\* The bytes of a piece, which goes from m on in what was read
LEMMA PieceByte ==
    ASSUME NEW w \in Nat, NEW m \in Nat, NEW n \in Nat, NEW i \in m + 1 .. m + n,
           NEW low \in Nat, NEW high \in Nat, NEW from \in Nat,
           low <= w + m, w + m + n <= high
    PROVE  /\ w + i - 1 \in Nat /\ low <= w + i - 1 /\ w + i - 1 < high
           /\ from + ((w + m) - low) + (i - m - 1) = from + ((w + i - 1) - low)
  OBVIOUS

\* A piece is read from where the offset is in the extent, to the end of the
\* extent at most.
LEMMA ReadPieceStep == ASSUME ExtInv, Ext!ReadPiece PROVE ExtInv'
  <1> DEFINE k == nextExtent + 1
             e == extents[k]
             n == Ext!readSize
             m == Len(buffer)
             low == countedBlocks * BlockSize
             high == BlocksOf(extents, k) * BlockSize
             from == e.start * BlockSize
             piece == [i \in 1 .. n |-> from + Ext!InExtent + i - 1]
  <1>1. /\ Ext!More /\ (Ext!InFork \/ Ext!Loaded) /\ Ext!Holds
        /\ Ext!Current = e /\ offset' = offset + n
        /\ UNCHANGED <<extents, fileLength, want, length, nextExtent, countedBlocks,
                       currentExtentBlock, extentBuffer, readPc, returned>>
    BY CurrentIs DEF Ext!ReadPiece, Ext!file
  <1>2. buffer' = buffer \o piece
    BY <1>1 DEF Ext!ReadPiece
  <1>3. /\ extents \in Files /\ nextExtent \in Nat /\ k \in 1 .. Len(extents) /\ nextExtent = k - 1
        /\ e.start \in Nat /\ e.count \in Nat
        /\ countedBlocks = BlocksOf(extents, k - 1) /\ countedBlocks \in Nat
        /\ low <= offset
    <2>1. extents \in Files /\ nextExtent \in 0 .. Len(extents) - 1 /\ Len(extents) \in Nat
          /\ countedBlocks = BlocksOf(extents, nextExtent) /\ low <= offset
      BY FileShape DEF ExtInv, Passed
    <2>2. k \in 1 .. Len(extents) /\ nextExtent = k - 1 /\ nextExtent \in Nat
      BY <2>1
    <2>3. e.start \in Nat /\ e.count \in Nat
      <3> HIDE DEF k
      <3> QED  BY <2>1, <2>2, FileShape
    <2>4. countedBlocks \in Nat
      BY <2>1, Summed
    <2> QED  BY <2>1, <2>2, <2>3, <2>4
  <1>4. /\ offset \in Nat /\ m \in Nat /\ length \in Nat /\ m < length /\ readPc = "extent"
        /\ want.offset \in Nat /\ offset = want.offset + m /\ buffer \in Seq(Int)
    BY <1>1, MoreInFile DEF ExtInv
  <1>5. /\ BlocksOf(extents, k) = countedBlocks + e.count /\ BlocksOf(extents, k) \in Nat
        /\ high \in Nat /\ low \in Nat /\ from \in Nat /\ high = low + e.count * BlockSize
    <2>1. BlocksOf(extents, k) = countedBlocks + e.count
      BY <1>3, Summed
    <2>2. BlocksOf(extents, k) \in Nat
      BY <1>3, <2>1
    <2> HIDE DEF k, e
    <2>3. (countedBlocks + e.count) * BlockSize = countedBlocks * BlockSize + e.count * BlockSize
      BY <1>3
    <2>4. BlocksOf(extents, k) * BlockSize \in Nat /\ countedBlocks * BlockSize \in Nat
          /\ e.start * BlockSize \in Nat
      BY <1>3, <2>2
    <2> QED  BY <2>1, <2>2, <2>3, <2>4
  <1>6. offset < high
    <2>1. countedBlocks + e.count - 1 >= offset \div BlockSize /\ offset \div BlockSize \in Nat
      BY <1>1, <1>4, Quotient DEF Ext!Holds, Ext!blockNumber
    <2>2. offset \div BlockSize < BlocksOf(extents, k)
      <3>1. /\ e.count \in Nat /\ countedBlocks \in Nat
            /\ BlocksOf(extents, k) = countedBlocks + e.count
        BY <1>3, <1>5
      <3> HIDE DEF k, e
      <3> QED  BY <2>1, <3>1
    <2> QED  BY <1>4, <1>5, <2>2, InBlock
  <1>7. Ext!InExtent = offset - low
    <2>1. Ext!InExtent = (offset \div BlockSize - countedBlocks) * BlockSize + (offset % BlockSize)
      BY DEF Ext!InExtent, Ext!blockNumber
    <2> DEFINE q == offset \div BlockSize
               r == offset % BlockSize
    <2>2. q \in Nat /\ r \in Nat /\ offset = q * BlockSize + r
      BY <1>4, Quotient, Zenon
    <2> HIDE DEF q, r
    <2>3. (q - countedBlocks) * BlockSize = q * BlockSize - countedBlocks * BlockSize
      BY <1>3, <2>2
    <2>4. q * BlockSize \in Int /\ countedBlocks * BlockSize \in Int
      BY <1>3, <2>2
    <2> QED  BY <2>1, <2>2, <2>3, <2>4 DEF q, r
  <1>8. n \in Nat /\ offset + n <= high /\ m + n <= length
    <2>1. n = Ext!Min({e.count * BlockSize - Ext!InExtent, length - m})
      BY <1>1 DEF Ext!readSize, Ext!sizeRead
    <2>2. e.count * BlockSize - Ext!InExtent = high - offset
      <3>1. e.count * BlockSize \in Int
        <4> HIDE DEF e
        <4> QED  BY <1>3
      <3> HIDE DEF e, high, low
      <3> QED  BY <1>4, <1>5, <1>7, <3>1
    <2> HIDE DEF e, high, low, n, m
    <2>3. high - offset \in Nat /\ length - m \in Nat
      BY <1>4, <1>5, <1>6
    <2>4. n = IF high - offset <= length - m THEN high - offset ELSE length - m
      BY <2>1, <2>2, <2>3, MinTwo
    <2>5. high \in Nat /\ offset < high
      BY <1>5, <1>6
    <2>6. offset \in Nat /\ length \in Nat /\ m \in Nat /\ m < length
      BY <1>4
    <2>7. \A x : x = (IF high - offset <= length - m THEN high - offset ELSE length - m)
                     => x \in Nat /\ offset + x <= high /\ m + x <= length
      BY <2>5, <2>6, PieceEnds
    <2>8. n \in Nat /\ offset + n <= high /\ m + n <= length
      BY <2>4, <2>7
    <2> QED  BY <2>8
  <1> HIDE DEF n, low, high, from
  <1>9. low \in Nat /\ high \in Nat /\ from \in Nat /\ low <= offset
    BY <1>3, <1>5
  <1>10. piece \in [1 .. n -> Int]
    BY <1>4, <1>7, <1>8, <1>9
  <1>11. /\ buffer' \in Seq(Int) /\ Len(buffer') = m + n
         /\ \A i \in 1 .. m : buffer'[i] = buffer[i]
         /\ \A i \in m + 1 .. m + n : buffer'[i] = piece[i - m]
    <2> HIDE DEF piece
    <2> QED  BY <1>2, <1>4, <1>8, <1>10, Appended
  <1>12. ASSUME NEW i \in m + 1 .. m + n
         PROVE  buffer'[i] = AddressOf(extents, want.offset + i - 1)
    <2> DEFINE b == want.offset + i - 1
    <2>1. /\ b \in Nat /\ low <= b /\ b < high
          /\ from + (offset - low) + (i - m - 1) = from + (b - low)
      <3>1. low <= want.offset + m /\ want.offset + m + n <= high
        BY <1>4, <1>8, <1>9
      <3>2. offset = want.offset + m /\ want.offset \in Nat /\ m \in Nat
        BY <1>4
      <3> HIDE DEF k, e, m
      <3>3. n \in Nat /\ low \in Nat /\ high \in Nat /\ from \in Nat
        BY <1>8, <1>9
      <3>4. /\ want.offset + i - 1 \in Nat /\ low <= want.offset + i - 1 /\ want.offset + i - 1 < high
            /\ from + ((want.offset + m) - low) + (i - m - 1) = from + ((want.offset + i - 1) - low)
        BY <3>1, <3>2, <3>3, PieceByte
      <3> QED  BY <3>2, <3>4
    <2>2. AddressOf(extents, b) = from + (b - low)
      <3>1. BlocksOf(extents, k - 1) * BlockSize <= b /\ b < BlocksOf(extents, k) * BlockSize
        BY <1>3, <2>1 DEF low, high
      <3> HIDE DEF b
      <3>2. AddressOf(extents, b) = e.start * BlockSize + (b - BlocksOf(extents, k - 1) * BlockSize)
        <4> HIDE DEF k
        <4> QED  BY <1>3, <2>1, <3>1, AddressIn
      <3> QED  BY <1>3, <3>2 DEF from, low
    <2>3. i - m \in 1 .. n
      BY <1>4, <1>8
    <2>4. buffer'[i] = from + (offset - low) + (i - m - 1)
      BY <1>4, <1>7, <1>9, <1>11, <2>3
    <2> QED  BY <2>1, <2>2, <2>4
  <1>13. AsInFile'
    <2>1. ASSUME NEW i \in 1 .. m PROVE buffer'[i] = AddressOf(extents, want.offset + i - 1)
      BY <1>11 DEF ExtInv, AsInFile
    <2>2. \A i \in 1 .. m + n : i \in 1 .. m \/ i \in m + 1 .. m + n
      BY <1>4, <1>8
    <2>3. \A i \in 1 .. m + n : buffer'[i] = AddressOf(extents, want.offset + i - 1)
      BY <1>12, <2>1, <2>2
    <2> QED  BY <1>1, <1>11, <2>3 DEF AsInFile
  <1>14. Progress'
    <2>1. Rest' = Rest /\ Asked' = Asked
      BY <1>1 DEF Rest, Asked
    <2>2. Len(buffer') <= length
      BY <1>8, <1>11
    <2> QED  BY <1>1, <1>4, <2>1, <2>2 DEF ExtInv, Progress
  <1>15. Passed'
    <2>1. low <= offset + n
      <3> HIDE DEF k, e, m
      <3> QED  BY <1>4, <1>8, <1>9
    <2> QED  BY <1>1, <2>1 DEF ExtInv, Passed, low
  <1>16. RecordRead'
    BY <1>1 DEF ExtInv, RecordRead
  <1>17. offset' = want.offset + Len(buffer')
    <2> HIDE DEF m
    <2> QED  BY <1>1, <1>4, <1>8, <1>11
  <1> QED  BY <1>1, <1>11, <1>13, <1>14, <1>15, <1>16, <1>17 DEF ExtInv

LEMMA ExtStep == ExtInv /\ Ext!Next => ExtInv'
  BY ReadFileStep, LoadOverflowStep, SkipExtentStep, ReadPieceStep, ReadExtentEndsStep DEF Ext!Next

LEMMA ExtRests == ExtInv /\ UNCHANGED ext => ExtInv'
  BY DEF ext, ExtInv, AsInFile, Progress, Rest, Asked, Passed, RecordRead

LEMMA ExtDone == ExtInv => Ext!ReadsFile
  <1> SUFFICES ASSUME ExtInv PROVE Ext!ReadsFile
    OBVIOUS
  <1>1. /\ fileLength \in Nat /\ want.offset \in Nat /\ want.length \in Nat
        /\ DOMAIN buffer = 1 .. Len(buffer)
    BY DEF ExtInv
  <1>2. \A i \in DOMAIN buffer : buffer[i] = Ext!Address(want.offset + i - 1)
    BY <1>1, AddressIs DEF ExtInv, AsInFile
  <1>3. ASSUME readPc = "done"
        PROVE  returned = LET rest == fileLength - want.offset
                              size == IF want.length = 0 THEN rest ELSE Ext!Min({want.length, rest})
                          IN  IF rest < 0 \/ (rest > 0 /\ size > LoadSize) THEN -1 ELSE size
    <2> DEFINE size == IF want.length = 0 THEN Rest ELSE Ext!Min({want.length, Rest})
    <2>1. returned = IF Rest < 0 \/ (Rest > 0 /\ Asked > LoadSize) THEN -1 ELSE Asked
      BY <1>3 DEF ExtInv, Progress
    <2>2. CASE Rest < 0
      BY <2>1, <2>2 DEF Rest
    <2>3. CASE ~ (Rest < 0)
      <3>1. Rest \in Nat
        BY <1>1, <2>3 DEF Rest
      <3>2. size = Asked
        BY <1>1, <3>1, MinTwo DEF Asked, Rest
      <3> QED  BY <2>1, <2>3, <3>2 DEF Rest
    <2> QED  BY <2>2, <2>3
  <1> QED  BY <1>2, <1>3 DEF Ext!ReadsFile

\* CacheRead: the entries lie inside the cache, and no block of a device has two
\* of them.  ReadFile, ReadExtent: for files of any number of extents, of any
\* size, in records of any number, what is read is the part that was asked for.
THEOREM FilesReadWhole == MCSpec => []ReadsFile
  <1> DEFINE Inv == (part = "cache" => IInv) /\ (part = "extents" => ExtInv)
  <1>1. MCInit => Inv
    BY InitIInv, ExtInit DEF MCInit
  <1>2. Inv /\ [MCNext]_<<part, vars, ext, bt, cat, nam>> => Inv'
    <2> SUFFICES ASSUME Inv, [MCNext]_<<part, vars, ext, bt, cat, nam>> PROVE Inv'
      OBVIOUS
    <2>1. part' = part
      BY DEF MCNext
    <2>2. ASSUME part = "cache" PROVE IInv'
      <3>1. [Next]_vars
        BY <2>2 DEF MCNext
      <3> QED  BY <2>2, <3>1, IInvStep
    <2>3. ASSUME part = "extents" PROVE ExtInv'
      <3>1. Ext!Next \/ UNCHANGED ext
        BY <2>3 DEF MCNext
      <3> QED  BY <2>3, <3>1, ExtStep, ExtRests
    <2> QED  BY <2>1, <2>2, <2>3
  <1>3. Inv => ReadsFile
    BY ExtDone DEF ReadsFile, IInv
  <1> QED  BY <1>1, <1>2, <1>3, PTL DEF MCSpec

-----------------------------------------------------------------------------
(* ReadBTreeEntry: keys *)

LEMMA KeysOrdered ==
    ASSUME NEW k \in Tree!Keys, NEW l \in Tree!Keys
    PROVE  /\ Tree!Before(k, l) \/ k = l \/ Tree!Before(l, k)
           /\ ~ (Tree!Before(k, l) /\ (k = l \/ Tree!Before(l, k)))
           /\ \A m \in Tree!Keys : Tree!Before(k, l) /\ Tree!Before(l, m) => Tree!Before(k, m)
           /\ \A m \in Tree!Keys : Tree!Before(k, l) /\ ~ Tree!Before(m, l) => Tree!Before(k, m)
           /\ \A m \in Tree!Keys : ~ Tree!Before(l, k) /\ Tree!Before(l, m) => Tree!Before(k, m)
  <1>1. ASSUME NEW m \in Tree!Keys
        PROVE  /\ m[1] \in Nat /\ m[2] \in Nat /\ m = <<m[1], m[2]>>
    <2>1. m[1] \in IDs /\ m[2] \in Rests /\ m = <<m[1], m[2]>>
      BY DEF Tree!Keys
    <2>2. IDs \subseteq Nat /\ Rests \subseteq Nat
      BY KeyAssumption
    <2> QED  BY <2>1, <2>2
  <1>2. k[1] \in Nat /\ k[2] \in Nat /\ l[1] \in Nat /\ l[2] \in Nat
        /\ k = <<k[1], k[2]>> /\ l = <<l[1], l[2]>>
    BY <1>1
  <1>3. k = l <=> k[1] = l[1] /\ k[2] = l[2]
    BY <1>2, Zenon
  <1>4. ASSUME NEW m \in Tree!Keys
        PROVE  /\ Tree!Before(k, l) /\ Tree!Before(l, m) => Tree!Before(k, m)
               /\ Tree!Before(k, l) /\ ~ Tree!Before(m, l) => Tree!Before(k, m)
               /\ ~ Tree!Before(l, k) /\ Tree!Before(l, m) => Tree!Before(k, m)
    <2>1. m[1] \in Nat /\ m[2] \in Nat
      BY <1>1
    <2> QED  BY <1>2, <2>1 DEF Tree!Before
  <1>5. /\ Tree!Before(k, l) \/ (k[1] = l[1] /\ k[2] = l[2]) \/ Tree!Before(l, k)
        /\ ~ (Tree!Before(k, l) /\ ((k[1] = l[1] /\ k[2] = l[2]) \/ Tree!Before(l, k)))
    BY <1>2 DEF Tree!Before
  <1> QED  BY <1>3, <1>4, <1>5, Zenon

\* No ID reaches the sign bit, so that the comparison is the order.
LEMMA ComparesOrder ==
    ASSUME NEW k \in Tree!Keys, NEW l \in Tree!Keys
    PROVE  /\ Tree!Before(l, k) => Tree!Compare(k, l) = 1
           /\ k = l => Tree!Compare(k, l) = 0
           /\ Tree!Before(k, l) => Tree!Compare(k, l) = -1
  <1>1. k[1] \in IDs /\ l[1] \in IDs /\ k[1] \in Nat /\ k[2] \in Nat /\ l[1] \in Nat /\ l[2] \in Nat
    BY KeyAssumption DEF Tree!Keys
  <1>2. Tree!Signed(k[1]) = k[1] /\ Tree!Signed(l[1]) = l[1]
    BY <1>1, KeyAssumption, Zenon DEF Tree!Signed
  <1>3. Tree!Compare(k, l) = IF k[1] > l[1] \/ (k[1] = l[1] /\ k[2] > l[2]) THEN 1
                             ELSE IF k = l THEN 0 ELSE -1
    BY <1>2 DEF Tree!Compare
  <1>4. Tree!Before(l, k) => Tree!Compare(k, l) = 1
    BY <1>1, <1>3 DEF Tree!Before
  <1>5. k = l => Tree!Compare(k, l) = 0
    BY <1>1, <1>3
  <1>6. Tree!Before(k, l) => Tree!Compare(k, l) = -1
    BY <1>1, <1>3 DEF Tree!Before
  <1> QED  BY <1>4, <1>5, <1>6

\* The least of the later keys is the one after a key.
LEMMA KeyAfterIs ==
    ASSUME NEW S \in SUBSET Tree!Keys, NEW k \in Tree!Keys, NEW a \in S, Tree!Before(k, a),
           \A l \in S : Tree!Before(k, l) => l = a \/ Tree!Before(a, l)
    PROVE  Tree!KeyAfter(k, S) = a
  <1> DEFINE later == {l \in S : Tree!Before(k, l)}
             least(l) == \A other \in later : other = l \/ Tree!Before(l, other)
  <1>1. a \in later /\ later # {} /\ least(a)
    OBVIOUS
  <1>2. ASSUME NEW l \in later, least(l) PROVE l = a
    <2>1. l \in Tree!Keys /\ a \in Tree!Keys
      OBVIOUS
    <2>2. (a = l \/ Tree!Before(l, a)) /\ (l = a \/ Tree!Before(a, l))
      BY <1>1, <1>2
    <2> QED  BY <2>1, <2>2, KeysOrdered
  <1>3. Tree!KeyAfter(k, S) = CHOOSE l \in later : least(l)
    BY <1>1 DEF Tree!KeyAfter
  <1> HIDE DEF later, least
  <1> QED  BY <1>1, <1>2, <1>3

-----------------------------------------------------------------------------
(* ReadBTreeEntry: nodes *)

K(j) == tree[curNode].keys[j]

Count == Len(tree[curNode].keys)

Link == tree[curNode].fLink

\* The key is between the first one of the current node and the first one of the
\* node behind it.
KeyInNode ==
    /\ curNode \in DOMAIN tree
    /\ ~ Tree!Before(key, K(1))
    /\ Link # 0 => Tree!Before(key, tree[Link].keys[1])

\* What was compared so far: the key is behind the records before lowerBound and
\* before those behind upperBound; the last comparison set one of them.
Probing ==
    /\ lowerBound \in Nat /\ upperBound \in -1 .. Count - 1 /\ lowerBound <= upperBound + 1
    /\ \A j \in 1 .. lowerBound : Tree!Before(K(j), key)
    /\ \A j \in upperBound + 2 .. Count : Tree!Before(key, K(j))
    /\ \/ lowerBound = 0 /\ upperBound = Count - 1
       \/ result = 1 /\ index = lowerBound - 1
       \/ result = -1 /\ index = upperBound + 1

\* The record that was found is the last one that is not behind the key.
Closest ==
    /\ index \in 0 .. Count - 1
    /\ ~ Tree!Before(key, K(index + 1))
    /\ index + 1 < Count => Tree!Before(key, K(index + 2))
    /\ result = 0 <=> key = K(index + 1)

TreeInv ==
    /\ Tree!IsTree(tree, root) /\ key \in Tree!Keys
    /\ KeyInNode
    /\ searchPc \in {"read", "probe", "closest", "done"}
    /\ searchPc = "probe" => Probing
    /\ searchPc = "closest" => Closest

LEMMA NodeShape ==
    ASSUME NEW nodes, NEW top, Tree!IsTree(nodes, top), NEW n \in DOMAIN nodes
    PROVE  /\ Len(nodes[n].keys) \in Nat \ {0} /\ DOMAIN nodes[n].keys = 1 .. Len(nodes[n].keys)
           /\ \A j \in 1 .. Len(nodes[n].keys) :
                 nodes[n].keys[j] \in Tree!Keys /\ nodes[n].keys[j] \in Tree!Range(nodes[n].keys)
           /\ \A i, j \in 1 .. Len(nodes[n].keys) :
                 i < j => Tree!Before(nodes[n].keys[i], nodes[n].keys[j])
  <1>1. Tree!InOrder(nodes[n])
    BY DEF Tree!IsTree
  <1>2. nodes[n].keys \in Seq(Tree!Keys) /\ nodes[n].keys # <<>>
    BY <1>1 DEF Tree!InOrder
  <1> DEFINE keys == nodes[n].keys
  <1>3. Len(keys) \in Nat \ {0} /\ DOMAIN keys = 1 .. Len(keys)
    <2> HIDE DEF keys
    <2>1. keys \in Seq(Tree!Keys) /\ keys # <<>>
      BY <1>2 DEF keys
    <2> QED  BY <2>1
  <1>4. \A j \in 1 .. Len(keys) : keys[j] \in Tree!Keys /\ keys[j] \in Tree!Range(keys)
    <2>1. \A j \in DOMAIN keys : keys[j] \in Tree!Range(keys)
      BY DEF Tree!Range
    <2> HIDE DEF keys
    <2>2. keys \in Seq(Tree!Keys)
      BY <1>2 DEF keys
    <2> QED  BY <1>3, <2>1, <2>2
  <1> QED  BY <1>1, <1>3, <1>4 DEF Tree!InOrder

LEMMA HereShape ==
    ASSUME TreeInv
    PROVE  /\ Count \in Nat \ {0} /\ DOMAIN tree[curNode].keys = 1 .. Count
           /\ \A j \in 1 .. Count : K(j) \in Tree!Keys /\ K(j) \in Tree!Range(tree[curNode].keys)
           /\ \A i, j \in 1 .. Count : i < j => Tree!Before(K(i), K(j))
           /\ key \in Tree!Keys
  BY NodeShape DEF TreeInv, KeyInNode, Count, K

LEMMA TreeInit == Tree!Init => TreeInv
  <1> SUFFICES ASSUME Tree!Init PROVE TreeInv
    OBVIOUS
  <1>1. Tree!IsTree(tree, root) /\ key \in Tree!Keys /\ curNode = root /\ searchPc = "read"
    BY TreeAssumption DEF Tree!Init
  <1>2. curNode \in DOMAIN tree /\ Link = 0
    BY <1>1 DEF Tree!IsTree, Link
  <1>3. PICK k \in Tree!StoredKeys : k = key \/ Tree!Before(k, key)
    BY DEF Tree!Init
  <1>4. k \in Tree!Keys /\ ~ Tree!Before(k, K(1))
    BY <1>1 DEF Tree!StoredKeys, Tree!IsTree, K
  <1>5. K(1) \in Tree!Keys
    BY <1>1, <1>2, NodeShape DEF K
  <1>6. ~ Tree!Before(key, K(1))
    <2>1. ASSUME Tree!Before(k, key), Tree!Before(key, K(1)) PROVE Tree!Before(k, K(1))
      BY <1>1, <1>4, <1>5, <2>1, KeysOrdered
    <2> QED  BY <1>3, <1>4, <2>1
  <1> QED  BY <1>1, <1>2, <1>6 DEF TreeInv, KeyInNode

LEMMA ReadNodeStep == ASSUME TreeInv, Tree!ReadNode PROVE TreeInv'
  <1>1. /\ lowerBound' = 0 /\ upperBound' = Count - 1 /\ searchPc' = "probe"
        /\ UNCHANGED <<tree, root, key, curNode, index, result>>
    BY DEF Tree!ReadNode, Tree!Node, Count
  <1>2. Count' = Count /\ Count \in Nat \ {0}
    BY <1>1, HereShape DEF Count
  <1>3. Probing'
    <2>1. \A j \in 1 .. lowerBound' : FALSE
      BY <1>1
    <2>2. \A j \in upperBound' + 2 .. Count' : FALSE
      BY <1>1, <1>2
    <2>3. lowerBound' \in Nat /\ upperBound' \in -1 .. Count' - 1 /\ lowerBound' <= upperBound' + 1
      BY <1>1, <1>2
    <2> QED  BY <1>1, <1>2, <2>1, <2>2, <2>3 DEF Probing
  <1>4. KeyInNode'
    BY <1>1 DEF TreeInv, KeyInNode, K, Link
  <1> QED  BY <1>1, <1>3, <1>4 DEF TreeInv

LEMMA Midpoint ==
    ASSUME NEW low \in Nat, NEW up \in Int, low <= up
    PROVE  /\ (low + up) \div 2 \in Nat
           /\ low <= (low + up) \div 2 /\ (low + up) \div 2 <= up
  OBVIOUS

LEMMA ProbeStep == ASSUME TreeInv, Tree!Probe PROVE TreeInv'
  <1>1. /\ searchPc = "probe" /\ lowerBound <= upperBound
        /\ index' = (lowerBound + upperBound) \div 2
        /\ result' = Tree!Compare(key, K(index' + 1))
        /\ upperBound' = (IF result' < 0 THEN index' - 1 ELSE upperBound)
        /\ lowerBound' = (IF result' > 0 THEN index' + 1 ELSE lowerBound)
        /\ searchPc' = (IF result' = 0 THEN "closest" ELSE "probe")
        /\ UNCHANGED <<tree, root, key, curNode>>
    BY DEF Tree!Probe, Tree!Node, K
  <1>2. /\ Count' = Count /\ Count \in Nat \ {0} /\ key \in Tree!Keys
        /\ \A j \in 1 .. Count : K(j) \in Tree!Keys
        /\ \A i, j \in 1 .. Count : i < j => Tree!Before(K(i), K(j))
    BY <1>1, HereShape DEF Count
  <1>3. /\ lowerBound \in Nat /\ upperBound \in -1 .. Count - 1
        /\ \A j \in 1 .. lowerBound : Tree!Before(K(j), key)
        /\ \A j \in upperBound + 2 .. Count : Tree!Before(key, K(j))
    BY <1>1 DEF TreeInv, Probing
  <1>4. /\ index' \in Nat /\ lowerBound <= index' /\ index' <= upperBound
        /\ upperBound \in Nat /\ upperBound <= Count - 1
    <2>1. /\ lowerBound \in Nat /\ upperBound \in Int /\ lowerBound <= upperBound
          /\ upperBound <= Count - 1
      BY <1>1, <1>2, <1>3
    <2>2. /\ (lowerBound + upperBound) \div 2 \in Nat
          /\ lowerBound <= (lowerBound + upperBound) \div 2
          /\ (lowerBound + upperBound) \div 2 <= upperBound
      BY <2>1, Midpoint
    <2>3. upperBound \in Nat
      BY <2>1
    <2> QED  BY <1>1, <2>1, <2>2, <2>3, Zenon
  <1> DEFINE i == index'
             low == lowerBound'
             up == upperBound'
             n == Count
  <1>10. /\ i \in Nat /\ lowerBound \in Nat /\ upperBound \in Nat /\ n \in Nat
         /\ lowerBound <= i /\ i <= upperBound /\ upperBound <= n - 1
    BY <1>2, <1>3, <1>4, Zenon
  <1> HIDE DEF i, low, up, n
  <1>11. i + 1 \in 1 .. n
    BY <1>10
  <1>5. index' + 1 \in 1 .. Count /\ K(index' + 1) \in Tree!Keys
    BY <1>2, <1>11, Zenon DEF i, n
  <1>6. KeyInNode' /\ \A j : K(j)' = K(j)
    BY <1>1 DEF TreeInv, KeyInNode, K, Link
  <1>7. CASE key = K(index' + 1)
    <2>1. result' = 0 /\ searchPc' = "closest"
      BY <1>1, <1>2, <1>5, <1>7, ComparesOrder
    <2>2. ~ Tree!Before(key, K(index' + 1))
      BY <1>2, <1>7, KeysOrdered
    <2>7. i + 1 < n => i + 1 \in 1 .. n /\ i + 2 \in 1 .. n /\ i + 1 < i + 2
      BY <1>10
    <2>3. index' + 1 < Count => Tree!Before(key, K(index' + 2))
      BY <1>2, <1>7, <2>7, Zenon DEF i, n
    <2>4. index' \in 0 .. Count' - 1
      BY <1>2, <1>4
    <2>5. key' = key
      BY <1>1
    <2>6. Closest'
      BY <1>2, <1>6, <1>7, <2>1, <2>2, <2>3, <2>4, <2>5 DEF Closest, K
    <2> QED  BY <1>1, <1>6, <2>1, <2>6 DEF TreeInv
  <1>8. CASE Tree!Before(key, K(index' + 1))
    <2>1. result' = -1 /\ searchPc' = "probe" /\ upperBound' = index' - 1 /\ lowerBound' = lowerBound
      BY <1>1, <1>2, <1>5, <1>8, ComparesOrder
    <2>2. ASSUME NEW j \in upperBound' + 2 .. Count PROVE Tree!Before(key, K(j))
      <3>0. j \in i + 1 .. n
        <4>1. j \in up + 2 .. n /\ up = i - 1
          BY <2>1, <2>2, Zenon DEF i, up, n
        <4> QED  BY <1>10, <4>1
      <3>2. j \in 1 .. n /\ (j = i + 1 \/ i + 1 < j)
        BY <1>10, <3>0
      <3>1. j \in 1 .. Count /\ (j = index' + 1 \/ index' + 1 < j)
        BY <3>2, Zenon DEF i, n
      <3> QED  BY <1>2, <1>5, <1>8, <3>1, KeysOrdered
    <2>6. up = i - 1 /\ low = lowerBound
      BY <2>1, Zenon DEF i, up, low
    <2>7. low \in Nat /\ up \in -1 .. n - 1 /\ low <= up + 1 /\ i = up + 1
      BY <1>10, <2>6
    <2>3. lowerBound' \in Nat /\ upperBound' \in -1 .. Count - 1 /\ lowerBound' <= upperBound' + 1
          /\ index' = upperBound' + 1
      BY <2>7, Zenon DEF i, low, up, n
    <2>4. key' = key /\ \A j \in 1 .. lowerBound' : Tree!Before(K(j), key)
      BY <1>1, <1>3, <2>1
    <2>5. Probing'
      BY <1>2, <1>6, <2>1, <2>2, <2>3, <2>4 DEF Probing
    <2> QED  BY <1>1, <1>6, <2>1, <2>5 DEF TreeInv
  <1>9. CASE Tree!Before(K(index' + 1), key)
    <2>1. result' = 1 /\ searchPc' = "probe" /\ upperBound' = upperBound /\ lowerBound' = index' + 1
      BY <1>1, <1>2, <1>5, <1>9, ComparesOrder
    <2>2. ASSUME NEW j \in 1 .. lowerBound' PROVE Tree!Before(K(j), key)
      <3>0. j \in 1 .. i + 1
        BY <2>1, <2>2, Zenon DEF i
      <3>2. j \in 1 .. n /\ (j = i + 1 \/ j < i + 1)
        BY <1>10, <3>0
      <3>1. j \in 1 .. Count /\ (j = index' + 1 \/ j < index' + 1)
        BY <3>2, Zenon DEF i, n
      <3> QED  BY <1>2, <1>5, <1>9, <3>1, KeysOrdered
    <2>6. low = i + 1 /\ up = upperBound
      BY <2>1, Zenon DEF i, up, low
    <2>7. low \in Nat /\ up \in -1 .. n - 1 /\ low <= up + 1 /\ i = low - 1
      BY <1>10, <2>6
    <2>3. lowerBound' \in Nat /\ upperBound' \in -1 .. Count - 1 /\ lowerBound' <= upperBound' + 1
          /\ index' = lowerBound' - 1
      BY <2>7, Zenon DEF i, low, up, n
    <2>4. key' = key /\ \A j \in upperBound' + 2 .. Count : Tree!Before(key, K(j))
      BY <1>1, <1>3, <2>1
    <2>5. Probing'
      BY <1>2, <1>6, <2>1, <2>2, <2>3, <2>4 DEF Probing
    <2> QED  BY <1>1, <1>6, <2>1, <2>5 DEF TreeInv
  <1> QED  BY <1>2, <1>5, <1>7, <1>8, <1>9, KeysOrdered

LEMMA ProbesEndStep == ASSUME TreeInv, Tree!ProbesEnd PROVE TreeInv'
  <1>1. /\ searchPc = "probe" /\ lowerBound > upperBound /\ searchPc' = "closest"
        /\ index' = (IF result < 0 THEN upperBound ELSE index)
        /\ UNCHANGED <<tree, root, key, curNode, lowerBound, upperBound, result>>
    BY DEF Tree!ProbesEnd
  <1>2. /\ Count' = Count /\ Count \in Nat \ {0} /\ key \in Tree!Keys
        /\ \A j \in 1 .. Count : K(j) \in Tree!Keys
    BY <1>1, HereShape DEF Count
  <1>3. /\ lowerBound \in Nat /\ upperBound \in -1 .. Count - 1 /\ lowerBound <= upperBound + 1
        /\ \A j \in 1 .. lowerBound : Tree!Before(K(j), key)
        /\ \A j \in upperBound + 2 .. Count : Tree!Before(key, K(j))
        /\ \/ lowerBound = 0 /\ upperBound = Count - 1
           \/ result = 1 /\ index = lowerBound - 1
           \/ result = -1 /\ index = upperBound + 1
    BY <1>1 DEF TreeInv, Probing
  <1>4. lowerBound = upperBound + 1 /\ ~ (lowerBound = 0 /\ upperBound = Count - 1)
    BY <1>1, <1>2, <1>3
  <1>5. index' = upperBound /\ result # 0
    BY <1>1, <1>3, <1>4
  <1>6. KeyInNode' /\ \A j : K(j)' = K(j)
    BY <1>1 DEF TreeInv, KeyInNode, K, Link
  <1>7. upperBound \in 0 .. Count - 1
    <2>1. ASSUME upperBound = -1 PROVE FALSE
      <3>1. 1 \in upperBound + 2 .. Count
        BY <1>2, <2>1
      <3> QED  BY <1>3, <3>1 DEF TreeInv, KeyInNode
    <2> QED  BY <1>2, <1>3, <2>1
  <1>8. Tree!Before(K(upperBound + 1), key)
    BY <1>3, <1>4, <1>7
  <1>9. upperBound + 1 \in 1 .. Count
    BY <1>2, <1>7
  <1>10. ~ Tree!Before(key, K(upperBound + 1)) /\ key # K(upperBound + 1)
    BY <1>2, <1>8, <1>9, KeysOrdered
  <1>11. upperBound + 1 < Count => Tree!Before(key, K(upperBound + 2))
    BY <1>2, <1>3, <1>7
  <1>12. Closest'
    BY <1>1, <1>2, <1>5, <1>6, <1>7, <1>10, <1>11 DEF Closest
  <1> QED  BY <1>1, <1>6, <1>12 DEF TreeInv

\* The child that is gone to begins where its record says.
LEMMA DescendStep == ASSUME TreeInv, Tree!Descend PROVE TreeInv'
  <1> DEFINE c == tree[curNode].child[index + 1]
  <1>1. /\ searchPc = "closest" /\ tree[curNode].kind = "index" /\ curNode' = c
        /\ searchPc' = "read" /\ UNCHANGED <<tree, root, key>>
    BY DEF Tree!Descend, Tree!Node
  <1>2. /\ Tree!IsTree(tree, root) /\ curNode \in DOMAIN tree /\ key \in Tree!Keys
        /\ Link # 0 => Tree!Before(key, tree[Link].keys[1])
        /\ Count \in Nat \ {0} /\ DOMAIN tree[curNode].keys = 1 .. Count
    BY HereShape DEF TreeInv, KeyInNode
  <1>3. /\ index \in 0 .. Count - 1
        /\ ~ Tree!Before(key, K(index + 1))
        /\ index + 1 < Count => Tree!Before(key, K(index + 2))
    BY <1>1 DEF TreeInv, Closest
  <1>4. \A i \in 1 .. Count :
            /\ tree[curNode].child[i] \in DOMAIN tree
            /\ tree[tree[curNode].child[i]].keys[1] = K(i)
            /\ tree[tree[curNode].child[i]].fLink = IF i < Count THEN tree[curNode].child[i + 1]
                                                    ELSE IF Link = 0 THEN 0 ELSE tree[Link].child[1]
    <2>1. Tree!Indexes(tree, tree[curNode])
      BY <1>2 DEF Tree!IsTree
    <2> QED  BY <1>1, <1>2, <2>1 DEF Tree!Indexes, K, Count, Link
  <1>5. index + 1 \in 1 .. Count /\ index \in Nat
    BY <1>2, <1>3
  <1>6. c \in DOMAIN tree /\ ~ Tree!Before(key, tree[c].keys[1])
    BY <1>3, <1>4, <1>5
  <1>7. ASSUME tree[c].fLink # 0 PROVE Tree!Before(key, tree[tree[c].fLink].keys[1])
    <2>1. CASE index + 1 < Count
      <3>1. index + 2 \in 1 .. Count /\ (index + 1) + 1 = index + 2
        BY <1>2, <1>5, <2>1
      <3>2. tree[c].fLink = tree[curNode].child[index + 2]
        BY <1>4, <1>5, <2>1, <3>1
      <3> QED  BY <1>3, <1>4, <2>1, <3>1, <3>2
    <2>2. CASE ~ (index + 1 < Count)
      <3>1. Link # 0 /\ tree[c].fLink = tree[Link].child[1]
        BY <1>4, <1>5, <1>7, <2>2
      <3>2. Tree!LinkedOn(tree, tree[curNode])
        BY <1>2 DEF Tree!IsTree
      <3>3. Link \in DOMAIN tree /\ tree[Link].kind = "index"
        BY <1>1, <3>1, <3>2 DEF Tree!LinkedOn, Link
      <3>4. Tree!Indexes(tree, tree[Link]) /\ 1 \in DOMAIN tree[Link].keys
        <4>1. Len(tree[Link].keys) \in Nat \ {0} /\ DOMAIN tree[Link].keys = 1 .. Len(tree[Link].keys)
          BY <1>2, <3>3, NodeShape
        <4> QED  BY <1>2, <3>3, <4>1 DEF Tree!IsTree
      <3>5. tree[tree[Link].child[1]].keys[1] = tree[Link].keys[1]
        BY <3>3, <3>4 DEF Tree!Indexes
      <3> QED  BY <1>2, <3>1, <3>5
    <2> QED  BY <2>1, <2>2
  <1>8. KeyInNode'
    BY <1>1, <1>6, <1>7 DEF KeyInNode, K, Link
  <1> QED  BY <1>1, <1>2, <1>8 DEF TreeInv

LEMMA ReturnStep == ASSUME TreeInv, Tree!Return PROVE TreeInv'
  BY DEF TreeInv, Tree!Return, KeyInNode, K, Link

-----------------------------------------------------------------------------
(* ReadBTreeEntry: the answer *)

\* A key that is stored is in the leaf, or lies before or behind it.
LEMMA StoredWhere ==
    ASSUME TreeInv, tree[curNode].kind = "leaf", NEW k \in Tree!StoredKeys
    PROVE  \/ \E j \in 1 .. Count : k = K(j)
           \/ Tree!Before(k, K(1))
           \/ Link # 0 /\ ~ Tree!Before(k, tree[Link].keys[1])
  <1>1. Tree!IsTree(tree, root) /\ curNode \in DOMAIN tree
    BY DEF TreeInv, KeyInNode
  <1>2. PICK n \in DOMAIN tree : tree[n].kind = "leaf" /\ k \in Tree!Range(tree[n].keys)
    BY DEF Tree!StoredKeys
  <1>3. CASE tree[n] = tree[curNode]
    BY <1>2, <1>3, HereShape DEF Tree!Range, K
  <1>4. CASE tree[n] # tree[curNode]
    <2>1. Tree!LeafApart(tree, tree[curNode], tree[n])
      BY <1>1, <1>2 DEF Tree!IsTree
    <2> QED  BY <1>2, <1>4, <2>1 DEF Tree!LeafApart, K, Link
  <1> QED  BY <1>3, <1>4

LEMMA HereStored ==
    ASSUME TreeInv, tree[curNode].kind = "leaf", NEW j \in 1 .. Count
    PROVE  K(j) \in Tree!StoredKeys
  BY HereShape DEF TreeInv, KeyInNode, Tree!StoredKeys

\* The node behind a leaf is a leaf, and begins behind it.
LEMMA BehindLeaf ==
    ASSUME TreeInv, tree[curNode].kind = "leaf", Link # 0
    PROVE  /\ tree[Link].keys[1] \in Tree!StoredKeys
           /\ \A j \in 1 .. Count : Tree!Before(K(j), tree[Link].keys[1])
  <1>1. Tree!IsTree(tree, root) /\ curNode \in DOMAIN tree
    BY DEF TreeInv, KeyInNode
  <1>2. Tree!LinkedOn(tree, tree[curNode])
    BY <1>1 DEF Tree!IsTree
  <1>3. /\ Link \in DOMAIN tree /\ tree[Link].kind = "leaf"
        /\ \A k \in Tree!Range(tree[curNode].keys) : Tree!Before(k, tree[Link].keys[1])
    BY <1>2 DEF Tree!LinkedOn, Link
  <1>4. tree[Link].keys[1] \in Tree!Keys /\ tree[Link].keys[1] \in Tree!Range(tree[Link].keys)
    BY <1>1, <1>3, NodeShape
  <1> QED  BY <1>3, <1>4, HereShape DEF Tree!StoredKeys

\* A key that is not in the leaf is not stored.
LEMMA NotStored ==
    ASSUME TreeInv, tree[curNode].kind = "leaf", Closest, result # 0
    PROVE  key \notin Tree!StoredKeys
  <1> SUFFICES ASSUME key \in Tree!StoredKeys PROVE FALSE
    OBVIOUS
  <1>1. ~ Tree!Before(key, K(1)) /\ (Link # 0 => Tree!Before(key, tree[Link].keys[1]))
    BY DEF TreeInv, KeyInNode
  <1>2. PICK j \in 1 .. Count : key = K(j)
    BY <1>1, StoredWhere
  <1>3. /\ index \in 0 .. Count - 1 /\ ~ Tree!Before(key, K(index + 1)) /\ key # K(index + 1)
        /\ index + 1 < Count => Tree!Before(key, K(index + 2))
        /\ Count \in Nat \ {0} /\ key \in Tree!Keys
        /\ \A i \in 1 .. Count : K(i) \in Tree!Keys
        /\ \A i, m \in 1 .. Count : i < m => Tree!Before(K(i), K(m))
    BY HereShape DEF Closest
  <1>4. CASE j <= index
    <2>1. j < index + 1 /\ index + 1 \in 1 .. Count
      BY <1>3, <1>4
    <2> QED  BY <1>2, <1>3, <2>1
  <1>5. CASE j = index + 1
    BY <1>2, <1>3, <1>5
  <1>6. CASE j > index + 1
    <2>1. index + 1 < Count /\ index + 2 \in 1 .. Count /\ (j = index + 2 \/ index + 2 < j)
      BY <1>3, <1>6
    <2>2. Tree!Before(key, key)
      <3>1. CASE j = index + 2
        BY <1>2, <1>3, <2>1, <3>1
      <3>2. CASE index + 2 < j
        <4>1. Tree!Before(key, K(index + 2)) /\ Tree!Before(K(index + 2), K(j))
          BY <1>3, <2>1, <3>2
        <4> QED  BY <1>2, <1>3, <2>1, <4>1, KeysOrdered
      <3> QED  BY <2>1, <3>1, <3>2
    <2> QED  BY <1>3, <2>2, KeysOrdered
  <1> QED  BY <1>3, <1>4, <1>5, <1>6

\* The record after a key that is found
LEMMA NextIs ==
    ASSUME TreeInv, tree[curNode].kind = "leaf", Closest, result = 0
    PROVE  Tree!KeyAt(Tree!NextRecord) = Tree!KeyAfter(key, Tree!StoredKeys)
  <1> DEFINE S == Tree!StoredKeys
  <1>1. /\ index \in 0 .. Count - 1 /\ key = K(index + 1)
        /\ index + 1 < Count => Tree!Before(key, K(index + 2))
        /\ Count \in Nat \ {0} /\ key \in Tree!Keys
        /\ \A i \in 1 .. Count : K(i) \in Tree!Keys
        /\ \A i, m \in 1 .. Count : i < m => Tree!Before(K(i), K(m))
        /\ ~ Tree!Before(key, K(1)) /\ (Link # 0 => Tree!Before(key, tree[Link].keys[1]))
    BY HereShape DEF Closest, TreeInv, KeyInNode
  <1>2. curNode # 0
    BY DEF TreeInv, KeyInNode, Tree!IsTree
  <1>3. S \in SUBSET Tree!Keys
    BY DEF Tree!StoredKeys
  <1>4. ASSUME NEW l \in S, Tree!Before(key, l)
        PROVE  \/ \E j \in index + 2 .. Count : l = K(j)
               \/ Link # 0 /\ ~ Tree!Before(l, tree[Link].keys[1])
    <2>1. ~ Tree!Before(l, K(1))
      <3>1. ASSUME Tree!Before(l, K(1)) PROVE Tree!Before(key, K(1))
        <4>1. l \in Tree!Keys /\ 1 \in 1 .. Count
          BY <1>1, <1>3
        <4> QED  BY <1>1, <1>4, <3>1, <4>1, KeysOrdered
      <3> QED  BY <1>1, <3>1
    <2>2. ASSUME NEW j \in 1 .. Count, l = K(j) PROVE j \in index + 2 .. Count
      <3>1. ASSUME j <= index + 1 PROVE FALSE
        <4>1. index + 1 \in 1 .. Count /\ (j = index + 1 \/ j < index + 1)
          BY <1>1, <3>1
        <4>2. l = key \/ Tree!Before(l, key)
          BY <1>1, <2>2, <4>1
        <4> QED  BY <1>1, <1>3, <1>4, <4>2, KeysOrdered
      <3> QED  BY <1>1, <3>1
    <2> QED  BY <2>1, <2>2, StoredWhere
  <1>5. CASE index + 1 < Count
    <2> DEFINE a == K(index + 2)
    <2>1. /\ index + 2 \in 1 .. Count /\ (index + 1) + 1 = index + 2
          /\ \A j \in index + 2 .. Count : j \in 1 .. Count /\ (j = index + 2 \/ index + 2 < j)
      BY <1>1, <1>5
    <2>2. Tree!KeyAt(Tree!NextRecord) = a
      <3>1. index + 1 # Count
        BY <1>1, <1>5
      <3>2. Tree!NextRecord = <<curNode, index + 1>>
        BY <3>1 DEF Tree!NextRecord, Tree!Node, Count
      <3> QED  BY <1>2, <2>1, <3>2 DEF Tree!KeyAt, K
    <2>3. a \in S /\ Tree!Before(key, a)
      BY <1>1, <1>5, <2>1, HereStored
    <2>4. ASSUME NEW l \in S, Tree!Before(key, l) PROVE l = a \/ Tree!Before(a, l)
      <3>1. ASSUME NEW j \in index + 2 .. Count, l = K(j) PROVE l = a \/ Tree!Before(a, l)
        BY <1>1, <2>1, <3>1
      <3>2. ASSUME Link # 0, ~ Tree!Before(l, tree[Link].keys[1]) PROVE Tree!Before(a, l)
        <4>1. Tree!Before(a, tree[Link].keys[1]) /\ tree[Link].keys[1] \in Tree!Keys
          BY <1>3, <2>1, <3>2, BehindLeaf
        <4> QED  BY <1>3, <2>3, <3>2, <4>1, KeysOrdered
      <3> QED  BY <1>4, <2>4, <3>1, <3>2
    <2> HIDE DEF S, a
    <2>5. Tree!KeyAfter(key, S) = a
      BY <1>1, <1>3, <2>3, <2>4, KeyAfterIs
    <2> QED  BY <2>2, <2>5 DEF S
  <1>6. CASE ~ (index + 1 < Count)
    <2>1. index + 1 = Count /\ \A j \in index + 2 .. Count : FALSE
      BY <1>1, <1>6
    <2>2. Tree!NextRecord = <<Link, 0>>
      BY <2>1 DEF Tree!NextRecord, Tree!Node, Count, Link
    <2>3. CASE Link = 0
      <3>1. {l \in S : Tree!Before(key, l)} = {}
        BY <1>4, <2>1, <2>3
      <3> QED  BY <2>2, <2>3, <3>1 DEF Tree!KeyAt, Tree!KeyAfter
    <2>4. CASE Link # 0
      <3> DEFINE a == tree[Link].keys[1]
      <3>1. Tree!KeyAt(Tree!NextRecord) = a
        BY <2>2, <2>4 DEF Tree!KeyAt
      <3>2. a \in S /\ Tree!Before(key, a)
        BY <1>1, <2>4, BehindLeaf
      <3>3. ASSUME NEW l \in S, Tree!Before(key, l) PROVE l = a \/ Tree!Before(a, l)
        <4>1. ~ Tree!Before(l, a)
          BY <1>4, <2>1, <3>3
        <4> QED  BY <1>3, <3>2, <4>1, KeysOrdered
      <3> HIDE DEF S, a
      <3>4. Tree!KeyAfter(key, S) = a
        BY <1>1, <1>3, <3>2, <3>3, KeyAfterIs
      <3> QED  BY <3>1, <3>4 DEF S
    <2> QED  BY <2>3, <2>4
  <1> QED  BY <1>5, <1>6

LEMMA TreeStep == TreeInv /\ Tree!Next => TreeInv'
  BY ReadNodeStep, ProbeStep, ProbesEndStep, DescendStep, ReturnStep DEF Tree!Next

LEMMA TreeRests == TreeInv /\ UNCHANGED bt => TreeInv'
  BY DEF bt, TreeInv, KeyInNode, K, Link, Count, Probing, Closest

\* What HfsLookup sees as the answer
Answered ==
    IF searchPc # "done" THEN {}
    ELSE IF found = {} THEN {<<>>}
    ELSE {<<f[1], Tree!KeyAt(f[2])>> : f \in found}

LEMMA LookupRests ==
    UNCHANGED bt => UNCHANGED <<Tree!StoredKeys, key, Answered>>
  BY DEF bt, Tree!StoredKeys, Answered, Tree!KeyAt

\* The last step of a search is the answer, the others nothing.
LEMMA LookupStep ==
    ASSUME TreeInv, Tree!Next
    PROVE  [Tree!Lookup!Answer]_<<Tree!StoredKeys, key, Answered>>
  <1>1. CASE Tree!Return
    <2>1. /\ searchPc = "closest" /\ searchPc' = "done" /\ tree[curNode].kind = "leaf"
          /\ found' = IF result # 0 THEN {} ELSE {<<K(index + 1), Tree!NextRecord>>}
          /\ UNCHANGED <<tree, key>>
      BY <1>1 DEF Tree!Return, Tree!Node, K
    <2>2. Closest
      BY <2>1 DEF TreeInv
    <2>3. Tree!StoredKeys' = Tree!StoredKeys /\ key' = key /\ Answered = {}
      BY <2>1 DEF Tree!StoredKeys, Answered
    <2>4. CASE result # 0
      <3>1. Answered' = {<<>>}
        BY <2>1, <2>4 DEF Answered
      <3>2. Tree!Lookup!Reply = <<>>
        BY <2>1, <2>2, <2>4, NotStored DEF Tree!Lookup!Reply
      <3> QED  BY <2>3, <3>1, <3>2 DEF Tree!Lookup!Answer, Answered
    <2>5. CASE result = 0
      <3>1. found' = {<<key, Tree!NextRecord>>}
        BY <2>1, <2>2, <2>5 DEF Closest
      <3>2. Answered' = {<<key, Tree!KeyAt(Tree!NextRecord)>>}
        <4>1. Tree!KeyAt(Tree!NextRecord)' = Tree!KeyAt(Tree!NextRecord)
          BY <1>1, <2>1 DEF Tree!KeyAt, Tree!NextRecord, Tree!Node, Tree!Return
        <4> DEFINE f == <<key, Tree!NextRecord>>
        <4>2. found' = {f} /\ f[1] = key /\ f[2] = Tree!NextRecord
          BY <3>1
        <4>3. Tree!KeyAt(Tree!NextRecord)' = Tree!KeyAt(f[2])'
          BY <1>1, <2>1, <4>2 DEF Tree!KeyAt, Tree!NextRecord, Tree!Node, Tree!Return
        <4>4. Answered' = {<<g[1], Tree!KeyAt(g[2])'>> : g \in {f}}
          BY <2>1, <4>2 DEF Answered, Tree!KeyAt
        <4> HIDE DEF f
        <4>5. Answered' = {<<f[1], Tree!KeyAt(f[2])'>>}
          <5> DEFINE at(g) == Tree!KeyAt(g[2])'
          <5>1. Answered' = {<<g[1], at(g)>> : g \in {f}}
            BY <4>4
          <5> HIDE DEF at
          <5>2. {<<g[1], at(g)>> : g \in {f}} = {<<f[1], at(f)>>}
            OBVIOUS
          <5> QED  BY <5>1, <5>2 DEF at
        <4> QED  BY <4>1, <4>2, <4>3, <4>5
      <3>3. key \in Tree!StoredKeys
        <4>1. index + 1 \in 1 .. Count
          BY <2>2, HereShape DEF Closest
        <4> QED  BY <2>1, <2>2, <2>5, <4>1, HereStored DEF Closest
      <3>4. Tree!Lookup!Reply = <<key, Tree!KeyAfter(key, Tree!StoredKeys)>>
        BY <3>3 DEF Tree!Lookup!Reply
      <3>5. Tree!KeyAt(Tree!NextRecord) = Tree!KeyAfter(key, Tree!StoredKeys)
        BY <2>1, <2>2, <2>5, NextIs
      <3> QED  BY <2>3, <3>2, <3>4, <3>5 DEF Tree!Lookup!Answer, Answered
    <2> QED  BY <2>4, <2>5
  <1>2. CASE Tree!ReadNode \/ Tree!Probe \/ Tree!ProbesEnd \/ Tree!Descend
    <2>1. searchPc # "done" /\ searchPc' # "done" /\ UNCHANGED <<tree, key>>
      BY <1>2 DEF Tree!ReadNode, Tree!Probe, Tree!ProbesEnd, Tree!Descend
    <2> QED  BY <2>1 DEF Tree!StoredKeys, Answered
  <1> QED  BY <1>1, <1>2 DEF Tree!Next

\* ReadBTreeEntry, in trees of every shape, with keys and nodes of any number:
\* the record of a key is found just if there is one, with the place of the
\* next record in the order of the volume.
THEOREM SearchFinds == MCSpec => ImplementsLookup
  <1> DEFINE Inv == part = "btree" => TreeInv
  <1>1. MCInit => Inv
    BY TreeInit DEF MCInit
  <1>2. Inv /\ [MCNext]_<<part, vars, ext, bt, cat, nam>> => Inv'
    <2> SUFFICES ASSUME Inv, [MCNext]_<<part, vars, ext, bt, cat, nam>> PROVE Inv'
      OBVIOUS
    <2>1. part' = part
      BY DEF MCNext
    <2>2. ASSUME part = "btree" PROVE TreeInv'
      <3>1. Tree!Next \/ UNCHANGED bt
        BY <2>2 DEF MCNext
      <3> QED  BY <2>2, <3>1, TreeStep, TreeRests
    <2> QED  BY <2>1, <2>2
  <1>3. MCInit => Tree!Lookup!Init
    <2> SUFFICES ASSUME MCInit PROVE Tree!Lookup!Init
      OBVIOUS
    <2>1. Tree!StoredKeys \subseteq Tree!Keys
      BY DEF Tree!StoredKeys
    <2>2. key \in Tree!Keys /\ searchPc = "read"
      <3>1. Tree!Keys # {}
        <4>1. PICK id \in IDs, rest \in Rests : TRUE
          BY KeyAssumption
        <4>2. <<id, rest>> \in Tree!Keys
          BY DEF Tree!Keys
        <4> QED  BY <4>2
      <3> QED  BY <3>1 DEF MCInit, Tree!Init, TreeAtRest
    <2> QED  BY <2>1, <2>2 DEF Tree!Lookup!Init
  <1>4. Inv /\ [MCNext]_<<part, vars, ext, bt, cat, nam>>
            => [Tree!Lookup!Answer]_<<Tree!StoredKeys, key, Answered>>
    <2> SUFFICES ASSUME Inv, [MCNext]_<<part, vars, ext, bt, cat, nam>>
                 PROVE  [Tree!Lookup!Answer]_<<Tree!StoredKeys, key, Answered>>
      OBVIOUS
    <2>1. (part = "btree" /\ Tree!Next) \/ UNCHANGED bt
      BY DEF MCNext
    <2> QED  BY <2>1, LookupStep, LookupRests
  <1> HIDE DEF Inv
  <1> QED
    BY <1>1, <1>2, <1>3, <1>4, PTL DEF MCSpec, ImplementsLookup, Tree!ImplementsLookup,
       Tree!Lookup!Spec, Answered
=============================================================================
