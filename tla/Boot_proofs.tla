---------------------------- MODULE Boot_proofs ----------------------------
(***************************************************************************)
(* The boot's loaders, for atag lists, images, compressed texts, kernels   *)
(* and memories of every size: the search for a tag, what a match of the   *)
(* decompression writes, the checksum, the way to the prompt, and what the *)
(* kernel is handed.                                                       *)
(***************************************************************************)
EXTENDS MCBoot, TLAPS, WellFoundedInduction

\* A set of natural numbers has a least one.
LEMMA LeastNat ==
    ASSUME NEW S \in SUBSET Nat, S # {}
    PROVE  \E m \in S : \A k \in S : m <= k
  <1> DEFINE less == {p \in Nat \X Nat : p[1] < p[2]}
  <1>1. IsWellFoundedOn(less, Nat)
    BY NatLessThanWellFounded DEF OpToRel
  <1>2. PICK m \in S : \A k \in S : ~ (<<k, m>> \in less)
    <2> HIDE DEF less
    <2> QED  BY <1>1, WFMin
  <1>3. ASSUME NEW k \in S PROVE m <= k
    <2>1. m \in Nat /\ k \in Nat /\ ~ (k < m)
      BY <1>2
    <2> QED  BY <2>1
  <1> QED  BY <1>3

\* A set that has 0 and with every number the next one has all of them.
LEMMA Induction ==
    ASSUME NEW n \in Nat, NEW S, 0 \in S, \A k \in 1 .. n : k - 1 \in S => k \in S
    PROVE  \A k \in 0 .. n : k \in S
  <1> SUFFICES ASSUME NEW k \in 0 .. n, k \notin S PROVE FALSE
    OBVIOUS
  <1> DEFINE out == {m \in 0 .. n : m \notin S}
  <1>1. PICK m \in out : \A l \in out : m <= l
    <2>1. out \in SUBSET Nat /\ out # {}
      OBVIOUS
    <2> HIDE DEF out
    <2> QED  BY <2>1, LeastNat
  <1>2. m \in 1 .. n
    BY <1>1
  <1>3. m - 1 \in 0 .. n /\ ~ (m <= m - 1)
    BY <1>2
  <1>4. m - 1 \in S
    BY <1>1, <1>3
  <1> QED  BY <1>1, <1>2, <1>4

\* The function that a loop of n rounds computes exists.
Loop(V, v, n, f, g) ==
    g \in [0 .. n -> V] /\ g[0] = v /\ \A k \in 1 .. n : g[k] = f[<<k, g[k - 1]>>]

LEMMA Rounds ==
    ASSUME NEW V, NEW v \in V, NEW n \in Nat, NEW f \in [(1 .. n) \X V -> V]
    PROVE  \E g : Loop(V, v, n, f, g)
  <1> DEFINE S == {m \in 0 .. n : \E g : Loop(V, v, m, f, g)}
  <1>1. 0 \in S
    <2>1. Loop(V, v, 0, f, [k \in 0 .. 0 |-> v])
      BY DEF Loop
    <2> QED  BY <2>1
  <1>2. ASSUME NEW k \in 1 .. n, k - 1 \in S PROVE k \in S
    <2>1. PICK g : Loop(V, v, k - 1, f, g)
      BY <1>2
    <2> DEFINE h == [l \in 0 .. k |-> IF l = k THEN f[<<k, g[k - 1]>>] ELSE g[l]]
    <2>2. g \in [0 .. k - 1 -> V] /\ k - 1 \in 0 .. k - 1
      BY <2>1 DEF Loop
    <2>3. f[<<k, g[k - 1]>>] \in V
      BY <2>2
    <2>4. \A l \in 0 .. k : l # k => l \in 0 .. k - 1
      OBVIOUS
    <2>5. h \in [0 .. k -> V]
      BY <2>2, <2>3, <2>4
    <2>6. h[k] = f[<<k, g[k - 1]>>] /\ \A l \in 0 .. k - 1 : h[l] = g[l]
      OBVIOUS
    <2> HIDE DEF h
    <2>7. h[0] = v
      BY <2>1, <2>6 DEF Loop
    <2>8. ASSUME NEW l \in 1 .. k PROVE h[l] = f[<<l, h[l - 1]>>]
      <3>1. l - 1 \in 0 .. k - 1 /\ h[l - 1] = g[l - 1]
        BY <2>6
      <3>2. CASE l = k
        BY <3>1, <3>2, <2>6
      <3>3. CASE l # k
        <4>1. l \in 1 .. k - 1
          BY <3>3
        <4>2. g[l] = f[<<l, g[l - 1]>>] /\ h[l] = g[l]
          BY <4>1, <2>1, <2>6 DEF Loop
        <4> QED  BY <4>2, <3>1
      <3> QED  BY <3>2, <3>3
    <2>9. Loop(V, v, k, f, h)
      BY <2>5, <2>7, <2>8 DEF Loop
    <2> QED  BY <2>9
  <1>3. n \in S
    <2> HIDE DEF S
    <2> QED  BY <1>1, <1>2, Induction
  <1> QED  BY <1>3

-----------------------------------------------------------------------------
(* image3_find_tag *)

\* The tags lie one behind the other and one of them, or the last one's end, is
\* where the file ends; no tag before the one that is looked at is of the kind.
TagsLaid ==
    /\ size \in Nat /\ DOMAIN image \subseteq Nat
    /\ \A o \in DOMAIN image :
          /\ image[o] \in I!Tags
          /\ \A p \in DOMAIN image : o < p => o + image[o].size <= p
          /\ o < size => /\ o + image[o].size <= size
                         /\ o + image[o].size \in DOMAIN image \union {size}

SearchInv ==
    /\ I!TypeOK /\ I!FindsFirst /\ TagsLaid
    /\ searching => off <= size /\ \A o \in I!Own : off <= o

LEMMA BehindIsNext ==
    ASSUME NEW bounds \in SUBSET Nat, NEW o \in I!Begins(bounds)
    PROVE  /\ I!Behind(bounds, o) \in bounds /\ o < I!Behind(bounds, o)
           /\ \A c \in bounds : o < c => I!Behind(bounds, o) <= c
  <1> DEFINE later == {b \in bounds : o < b}
  <1>1. later \in SUBSET Nat /\ later # {}
    BY DEF I!Begins
  <1>2. PICK b \in later : \A c \in later : b <= c
    BY <1>1, LeastNat
  <1> QED  BY <1>2 DEF I!Behind

LEMMA SearchInit == I!Init => SearchInv
  <1> SUFFICES ASSUME I!Init PROVE SearchInv
    OBVIOUS
  <1>1. PICK bounds \in I!Layouts :
          /\ \E kinds \in [I!Begins(bounds) -> Magics] :
                image = [o \in I!Begins(bounds) |->
                           [magic |-> kinds[o], size |-> I!Behind(bounds, o) - o]]
          /\ size \in bounds
    BY DEF I!Init
  <1>2. PICK kinds \in [I!Begins(bounds) -> Magics] :
          image = [o \in I!Begins(bounds) |->
                      [magic |-> kinds[o], size |-> I!Behind(bounds, o) - o]]
    BY <1>1
  <1>3. /\ bounds \in SUBSET Nat /\ 1 \in bounds /\ \A b \in bounds : 1 <= b
        /\ \A o \in I!Begins(bounds) : I!Behind(bounds, o) - o \in Sizes
    BY DEF I!Layouts, I!RootSize
  <1>4. DOMAIN image = I!Begins(bounds) /\ I!Begins(bounds) \subseteq bounds
    BY <1>2 DEF I!Begins
  <1>5. ASSUME NEW o \in DOMAIN image
        PROVE  /\ image[o] \in I!Tags /\ o + image[o].size = I!Behind(bounds, o)
               /\ I!Behind(bounds, o) \in bounds
               /\ \A c \in bounds : o < c => I!Behind(bounds, o) <= c
    <2>1. /\ I!Behind(bounds, o) \in bounds
          /\ \A c \in bounds : o < c => I!Behind(bounds, o) <= c
      BY <1>3, <1>4, BehindIsNext
    <2>2. image[o] = [magic |-> kinds[o], size |-> I!Behind(bounds, o) - o]
      BY <1>2, <1>4
    <2>3. o \in Nat /\ I!Behind(bounds, o) \in Nat
      BY <2>1, <1>3, <1>4
    <2>4. image[o] \in I!Tags
      BY <2>2, <1>3, <1>4 DEF I!Tags
    <2> QED  BY <2>1, <2>2, <2>3, <2>4
  <1>6. size \in Nat /\ 1 <= size
    BY <1>1, <1>3
  <1>7. ASSUME NEW b \in bounds, b # size, b <= size PROVE b \in DOMAIN image
    BY <1>1, <1>3, <1>4, <1>6, <1>7 DEF I!Begins
  <1>8. TagsLaid
    <2>1. ASSUME NEW o \in DOMAIN image, o < size
          PROVE  /\ o + image[o].size <= size
                 /\ o + image[o].size \in DOMAIN image \union {size}
      BY <2>1, <1>1, <1>3, <1>5, <1>7
    <2>2. ASSUME NEW o \in DOMAIN image, NEW p \in DOMAIN image, o < p
          PROVE  o + image[o].size <= p
      BY <2>2, <1>4, <1>5
    <2> QED  BY <2>1, <2>2, <1>3, <1>4, <1>5, <1>6 DEF TagsLaid
  <1>9. off = 1 /\ searching = TRUE /\ found = {} /\ wanted \in Magics
    BY DEF I!Init, I!RootSize
  <1>10. I!TypeOK
    <2>1. PICK last \in Sizes : TRUE
      BY ImageAssumption
    <2>2. last \in Nat
      BY ImageAssumption
    <2>3. off \in 1 .. size + last
      BY <1>6, <1>9, <2>2
    <2> QED  BY <1>6, <1>9, <2>3 DEF I!TypeOK, I!RootSize
  <1>11. I!FindsFirst
    BY <1>3, <1>6, <1>7, <1>9 DEF I!FindsFirst
  <1>12. \A o \in I!Own : off <= o
    BY <1>3, <1>4, <1>9 DEF I!Own
  <1> QED  BY <1>6, <1>8, <1>9, <1>10, <1>11, <1>12 DEF SearchInv

LEMMA SearchStep == SearchInv /\ I!Next => SearchInv'
  <1> SUFFICES ASSUME SearchInv, I!Next PROVE SearchInv'
    OBVIOUS
  <1> USE DEF SearchInv
  <1>1. CASE I!FindTagFound
    <2>1. /\ searching /\ searching' = FALSE /\ found' = {off}
          /\ UNCHANGED <<image, size, wanted, off>>
      BY <1>1 DEF I!FindTagFound
    <2>2. TagsLaid' /\ I!Own' = I!Own
      BY <2>1 DEF TagsLaid, I!Own
    <2>3. I!TypeOK'
      <3>1. PICK last \in Sizes : off \in 1 .. size + last
        BY DEF I!TypeOK, I!RootSize
      <3>2. off' \in 1 .. size' + last /\ found' \subseteq Nat /\ searching' \in BOOLEAN
        <4>1. off \in Nat
          BY <3>1
        <4> QED  BY <2>1, <3>1, <4>1
      <3> QED  BY <2>1, <3>2 DEF I!TypeOK, I!RootSize
    <2>4. off <= size => off \in DOMAIN image \union {size}
      BY DEF I!FindsFirst
    <2>5. ASSUME NEW o \in I!Own PROVE off \in I!Own
      <3>1. off <= o /\ o < size /\ o \in Nat /\ off \in Nat /\ size \in Nat
        BY <2>1 DEF I!Own, TagsLaid, I!TypeOK, I!RootSize
      <3>2. off \in DOMAIN image /\ off < size
        BY <3>1, <2>4
      <3>3. image[off].magic = wanted
        BY <1>1, <3>2 DEF I!FindTagFound, I!TagAt
      <3> QED  BY <3>2, <3>3 DEF I!Own
    <2>6. I!FindsFirst'
      BY <2>1, <2>2, <2>4, <2>5 DEF I!FindsFirst
    <2> QED  BY <2>1, <2>2, <2>3, <2>6
  <1>2. CASE I!FindTagNext
    <2>1. PICK at \in I!TagAt(off) :
            at.magic # wanted /\ off' = off + at.size /\ searching' = ~ (off' > size)
      BY <1>2 DEF I!FindTagNext, I!Left, I!After
    <2>2. searching /\ UNCHANGED <<image, size, wanted, found>>
      BY <1>2 DEF I!FindTagNext
    <2>3. TagsLaid' /\ I!Own' = I!Own
      BY <2>2 DEF TagsLaid, I!Own
    <2>4. off \in Nat /\ size \in Nat /\ off >= 1 /\ off <= size /\ off \in DOMAIN image \union {size}
      BY <2>2 DEF I!TypeOK, I!RootSize, I!FindsFirst, TagsLaid
    <2>5. at \in I!Tags /\ at.size \in Sizes /\ at.size \in Nat /\ at.size > 0
      <3>1. at \in I!Tags
        BY <2>1 DEF I!TagAt, TagsLaid
      <3>2. at.size \in Sizes
        BY <3>1 DEF I!Tags
      <3>3. \A n \in Sizes : n \in Nat /\ n > 0
        BY ImageAssumption
      <3> QED  BY <3>1, <3>2, <3>3
    <2>6. I!TypeOK'
      <3>1. off' \in 1 .. size + at.size
        BY <2>1, <2>4, <2>5
      <3>2. searching' \in BOOLEAN
        BY <2>1
      <3>3. size \in Nat /\ wanted \in Magics /\ found \subseteq Nat
        BY DEF I!TypeOK
      <3> QED  BY <2>2, <2>5, <3>1, <3>2, <3>3 DEF I!TypeOK, I!RootSize
    <2>7. ASSUME NEW o \in I!Own PROVE off' <= o /\ off < size
      <3>1. off <= o /\ o < size /\ o \in Nat /\ o \in DOMAIN image /\ image[o].magic = wanted
        BY <2>2 DEF I!Own, TagsLaid
      <3>2. off \in DOMAIN image /\ off < size
        BY <3>1, <2>4
      <3>3. at = image[off]
        BY <3>2, <2>1 DEF I!TagAt
      <3>4. off # o
        BY <3>1, <3>3, <2>1
      <3>5. off < o
        BY <3>1, <3>4, <2>4
      <3> QED  BY <3>1, <3>2, <3>3, <3>5, <2>1 DEF TagsLaid
    <2>8. off' <= size => off' \in DOMAIN image \union {size}
      <3> SUFFICES ASSUME off' <= size PROVE off' \in DOMAIN image \union {size}
        OBVIOUS
      <3>1. off < size /\ off \in DOMAIN image
        BY <2>1, <2>4, <2>5
      <3>2. at = image[off]
        BY <3>1, <2>1 DEF I!TagAt
      <3> QED  BY <3>1, <3>2, <2>1 DEF TagsLaid
    <2>9. searching' \/ I!Own = {}
      <3> SUFFICES ASSUME NEW o \in I!Own PROVE searching'
        OBVIOUS
      <3>1. off' <= o /\ o < size /\ o \in Nat
        BY <2>7 DEF I!Own, TagsLaid
      <3>2. off' \in Nat
        BY <2>1, <2>4, <2>5
      <3>3. ~ (off' > size)
        BY <3>1, <3>2, <2>4
      <3> QED  BY <3>3, <2>1, Zenon
    <2>10. I!FindsFirst'
      BY <2>2, <2>3, <2>8, <2>9 DEF I!FindsFirst
    <2>11. searching' => off' <= size
      <3>1. off' \in Nat
        BY <2>1, <2>4, <2>5
      <3>2. searching' => ~ (off' > size)
        BY <2>1, Zenon
      <3> QED  BY <3>1, <3>2, <2>4
    <2> QED  BY <2>2, <2>3, <2>6, <2>7, <2>10, <2>11
  <1> QED  BY <1>1, <1>2 DEF I!Next

LEMMA SearchRests == SearchInv /\ UNCHANGED search => SearchInv'
  BY DEF SearchInv, search, I!TypeOK, I!FindsFirst, I!Own, TagsLaid

\* image3_find_tag, in files of every size with tags of every size and kind: the
\* first tag of the kind is found if the file has one.
THEOREM FirstTagFound == MCSpec => []FindsFirst
  <1> DEFINE Inv == part = "search" => SearchInv
  <1>1. MCInit => Inv
    BY SearchInit DEF MCInit
  <1>2. Inv /\ [MCNext]_all => Inv'
    <2> SUFFICES ASSUME Inv, [MCNext]_all, part' = "search" PROVE SearchInv'
      OBVIOUS
    <2>1. part = "search" /\ SearchInv
      BY DEF MCNext, all
    <2>2. I!Next \/ UNCHANGED search
      BY <2>1 DEF MCNext, all
    <2> QED  BY <2>1, <2>2, SearchStep, SearchRests
  <1>3. Inv => FindsFirst
    BY DEF FindsFirst, SearchInv
  <1> QED  BY <1>1, <1>2, <1>3, PTL DEF MCSpec

-----------------------------------------------------------------------------
(* machboot_main *)

\* What the first n atags said.
RegionTaken(n) ==
    \/ first_region = 0 /\ memory = None /\ \A m \in 1 .. n : atags[m].kind # "MEM"
    \/ first_region = 1 /\ \E m \in 1 .. n : B!First(m, "MEM") /\ memory = atags[m].value

RamdiskTaken(n) ==
    \/ first_ramdisk = 0 /\ ramdisk = None /\ \A m \in 1 .. n : atags[m].kind # "INITRD2"
    \/ first_ramdisk = 1 /\ \E m \in 1 .. n : B!First(m, "INITRD2") /\ ramdisk = atags[m].value

LineTaken(n) ==
    \/ commandLine = <<>> /\ \A m \in 1 .. n : ~ B!Line(m)
    \/ \E m \in 1 .. n :
          /\ B!Line(m) /\ \A k \in m + 1 .. n : ~ B!Line(k)
          /\ commandLine = B!strncpy(atags[m].value, LineLength)

Taken(n) == RegionTaken(n) /\ RamdiskTaken(n) /\ LineTaken(n)

\* In every stage the atags before the current one are taken, none of them before
\* the loop; it ends at the last one.
FlowInv ==
    /\ B!TypeOK /\ B!MapsEverything
    /\ atags \in AtagLists /\ Taken(atag - 1)
    /\ stage \in {"reset", "mapped", "started"} => atag = 1
    /\ (stage = "atags" /\ tag = "NONE") \/ stage \in {"prompt", "panicked"} => atag = Len(atags)
    /\ stage = "prompt" => first_region = 1

LEMMA ListShape ==
    ASSUME NEW list \in AtagLists
    PROVE  /\ Len(list) \in Nat \ {0} /\ DOMAIN list = 1 .. Len(list)
           /\ \A n \in DOMAIN list :
                 /\ list[n].kind = "NONE" <=> n = Len(list)
                 /\ list[n].kind = "CMDLINE" => list[n].value \in Seq(Nat)
  <1>1. list \in Seq(Range(list)) /\ list # <<>>
    BY FlowAssumption
  <1>2. Len(list) \in Nat \ {0} /\ DOMAIN list = 1 .. Len(list)
    BY <1>1
  <1> QED  BY <1>2, FlowAssumption

LEMMA CopyFits ==
    ASSUME NEW line \in Seq(Nat)
    PROVE  Len(B!strncpy(line, LineLength)) <= LineLength
  <1>1. LineLength \in Nat
    BY FlowAssumption
  <1>2. CASE Len(line) <= LineLength
    BY <1>2 DEF B!strncpy
  <1>3. CASE ~ (Len(line) <= LineLength)
    <2>1. Len(SubSeq(line, 1, LineLength)) = LineLength
      BY <1>1, <1>3
    <2> QED  BY <1>1, <1>3, <2>1 DEF B!strncpy
  <1> QED  BY <1>2, <1>3

LEMMA FlowInit == B!Init => FlowInv
  <1> SUFFICES ASSUME B!Init PROVE FlowInv
    OBVIOUS
  <1> USE DEF B!Init
  <1>1. atags \in AtagLists /\ atag = 1 /\ stage = "reset"
    OBVIOUS
  <1>2. atag \in DOMAIN atags
    BY <1>1, ListShape
  <1>3. table \in [0 .. Sections - 1 -> 0 .. Sections - 1 \union {None}]
    OBVIOUS
  <1>4. Len(commandLine) <= LineLength
    BY FlowAssumption
  <1>5. B!TypeOK
    BY <1>1, <1>2, <1>3, <1>4 DEF B!TypeOK
  <1>6. Taken(atag - 1)
    BY <1>1 DEF Taken, RegionTaken, RamdiskTaken, LineTaken
  <1> QED  BY <1>1, <1>5, <1>6 DEF FlowInv, B!MapsEverything

\* The page table after mmu_init.
LEMMA Mapped ==
    ASSUME FlowInv, B!mmu_init
    PROVE  /\ table' \in [0 .. Sections - 1 -> 0 .. Sections - 1 \union {None}]
           /\ \A s \in 0 .. Sections - 2 : table'[s] = IF s = 0 THEN Booter ELSE s
  <1> DEFINE flat == [s \in DOMAIN table |-> IF s \in 0 .. 0 + B!Everything - 1 THEN 0 + s - 0 ELSE table[s]]
  <1>1. table \in [0 .. Sections - 1 -> 0 .. Sections - 1 \union {None}]
    BY DEF FlowInv, B!TypeOK
  <1>2. Sections \in Nat \ {0} /\ Booter \in 0 .. Sections - 1
    BY FlowAssumption
  <1>3. table' = [s \in DOMAIN flat |-> IF s \in 0 .. 0 + 1 - 1 THEN Booter + s - 0 ELSE flat[s]]
    BY DEF B!mmu_init, B!pmap_map_section
  <1>4. DOMAIN flat = 0 .. Sections - 1
    BY <1>1
  <1>5. \A s \in 0 .. Sections - 1 : flat[s] = IF s <= Sections - 2 THEN s ELSE table[s]
    BY <1>1, <1>2 DEF B!Everything
  <1> HIDE DEF flat
  <1>6. ASSUME NEW s \in 0 .. Sections - 1
        PROVE  table'[s] = IF s = 0 THEN Booter ELSE IF s <= Sections - 2 THEN s ELSE table[s]
    BY <1>2, <1>3, <1>4, <1>5
  <1>7. DOMAIN table' = 0 .. Sections - 1 /\ table' = [s \in 0 .. Sections - 1 |-> table'[s]]
    BY <1>3, <1>4
  <1>8. \A s \in 0 .. Sections - 1 : table'[s] \in 0 .. Sections - 1 \union {None}
    BY <1>1, <1>2, <1>6
  <1> QED  BY <1>2, <1>6, <1>7, <1>8

\* One atag more is taken.
LEMMA ReadTakes ==
    ASSUME FlowInv, B!ReadAtag, atags[atag].kind # "NONE"
    PROVE  Taken(atag - 1)'
  <1> DEFINE a == atags[atag]
  <1>1. /\ atag \in 1 .. Len(atags) /\ Len(atags) \in Nat /\ atag \in Nat
    BY ListShape DEF FlowInv, B!TypeOK
  <1>2. Taken(atag - 1)
    BY DEF FlowInv
  <1>3. atag' - 1 = atag /\ atags' = atags
    BY <1>1 DEF B!ReadAtag, B!After
  <1>7. \A m \in 1 .. atag : m \in 1 .. atag - 1 \/ m = atag
    BY <1>1
  <1>8. \A m \in 1 .. atag - 1 : m \in 1 .. atag
    BY <1>1
  <1>4. RegionTaken(atag - 1)'
    <2>1. CASE a.kind = "MEM"
      <3>1. first_region' = 1 /\ memory' = IF first_region = 1 THEN memory ELSE a.value
        BY <2>1 DEF B!ReadAtag, B!populate_memory_info, B!populate_first
      <3>2. CASE first_region = 0
        <4>1. \A m \in 1 .. atag - 1 : atags[m].kind # "MEM"
          BY <1>2, <3>2 DEF Taken, RegionTaken
        <4> QED  BY <1>1, <1>3, <1>7, <1>8, <2>1, <3>1, <3>2, <4>1 DEF RegionTaken, B!First
      <3>3. CASE first_region = 1
        BY <1>1, <1>2, <1>3, <1>7, <1>8, <3>1, <3>3 DEF Taken, RegionTaken, B!First
      <3> QED  BY <3>2, <3>3, <1>2 DEF Taken, RegionTaken
    <2>2. CASE a.kind # "MEM"
      <3>1. first_region' = first_region /\ memory' = memory
        BY <2>2 DEF B!ReadAtag
      <3> QED  BY <1>1, <1>2, <1>3, <1>7, <1>8, <2>2, <3>1 DEF Taken, RegionTaken, B!First
    <2> QED  BY <2>1, <2>2
  <1>5. RamdiskTaken(atag - 1)'
    <2>1. CASE a.kind = "INITRD2"
      <3>1. first_ramdisk' = 1 /\ ramdisk' = IF first_ramdisk = 1 THEN ramdisk ELSE a.value
        BY <2>1 DEF B!ReadAtag, B!populate_ramdisk_info, B!populate_first
      <3>2. CASE first_ramdisk = 0
        <4>1. \A m \in 1 .. atag - 1 : atags[m].kind # "INITRD2"
          BY <1>2, <3>2 DEF Taken, RamdiskTaken
        <4> QED  BY <1>1, <1>3, <1>7, <1>8, <2>1, <3>1, <3>2, <4>1 DEF RamdiskTaken, B!First
      <3>3. CASE first_ramdisk = 1
        BY <1>1, <1>2, <1>3, <1>7, <1>8, <3>1, <3>3 DEF Taken, RamdiskTaken, B!First
      <3> QED  BY <3>2, <3>3, <1>2 DEF Taken, RamdiskTaken
    <2>2. CASE a.kind # "INITRD2"
      <3>1. first_ramdisk' = first_ramdisk /\ ramdisk' = ramdisk
        BY <2>2 DEF B!ReadAtag
      <3> QED  BY <1>1, <1>2, <1>3, <1>7, <1>8, <2>2, <3>1 DEF Taken, RamdiskTaken, B!First
    <2> QED  BY <2>1, <2>2
  <1>6. LineTaken(atag - 1)'
    <2>1. CASE B!Line(atag)
      <3>1. commandLine' = B!strncpy(a.value, LineLength)
        BY <2>1 DEF B!Line, B!ReadAtag, B!populate_commandline_info
      <3> QED  BY <1>1, <1>3, <1>7, <1>8, <2>1, <3>1 DEF LineTaken, B!Line
    <2>2. CASE ~ B!Line(atag)
      <3>1. commandLine' = commandLine
        BY <2>2 DEF B!Line, B!ReadAtag, B!populate_commandline_info
      <3> QED  BY <1>1, <1>2, <1>3, <1>7, <1>8, <2>2, <3>1 DEF Taken, LineTaken, B!Line
    <2> QED  BY <2>1, <2>2
  <1> QED  BY <1>4, <1>5, <1>6 DEF Taken

LEMMA FlowStep == FlowInv /\ B!Next => FlowInv'
  <1> SUFFICES ASSUME FlowInv, B!Next PROVE FlowInv'
    OBVIOUS
  <1>0. /\ atag \in DOMAIN atags /\ DOMAIN atags = 1 .. Len(atags) /\ Len(atags) \in Nat \ {0}
        /\ \A n \in DOMAIN atags : atags[n].kind = "NONE" <=> n = Len(atags)
    BY ListShape DEF FlowInv, B!TypeOK
  <1>1. CASE B!mmu_init
    <2>1. /\ stage = "reset" /\ stage' = "mapped" /\ UNCHANGED <<atags, atag, tag>>
          /\ UNCHANGED <<first_region, first_ramdisk, memory, ramdisk, commandLine>>
      BY <1>1 DEF B!mmu_init, B!found
    <2>2. B!TypeOK' /\ B!MapsEverything'
      BY <1>1, <2>1, Mapped DEF FlowInv, B!TypeOK, B!MapsEverything
    <2> QED  BY <2>1, <2>2 DEF FlowInv, Taken, RegionTaken, RamdiskTaken, LineTaken, B!Line, B!First
  <1>2. CASE B!corestart_main
    BY <1>2 DEF B!corestart_main, B!found, B!TypeOK, B!MapsEverything, FlowInv, Taken, RegionTaken,
                RamdiskTaken, LineTaken, B!Line, B!First
  <1>3. CASE B!machboot_main
    <2>1. /\ stage = "started" /\ stage' = "atags" /\ tag' = atags[atag].kind
          /\ UNCHANGED <<table, atags, atag>>
          /\ UNCHANGED <<first_region, first_ramdisk, memory, ramdisk, commandLine>>
      BY <1>3 DEF B!machboot_main, B!found
    <2>2. B!TypeOK' /\ B!MapsEverything'
      BY <2>1 DEF FlowInv, B!TypeOK, B!MapsEverything
    <2>3. tag' = "NONE" => atag = Len(atags)
      BY <2>1, <1>0
    <2> QED
      BY <2>1, <2>2, <2>3 DEF FlowInv, Taken, RegionTaken, RamdiskTaken, LineTaken, B!Line, B!First
  <1>4. CASE B!ReadAtag
    <2>1. /\ stage = "atags" /\ tag' = atags[atag].kind /\ UNCHANGED <<stage, table, atags>>
          /\ atag' = IF atags[atag].kind = "NONE" THEN atag ELSE atag + 1
      BY <1>4 DEF B!ReadAtag, B!After
    <2>2. B!MapsEverything'
      BY <2>1 DEF FlowInv, B!MapsEverything
    <2>3. CASE atags[atag].kind = "NONE"
      <3>1. /\ UNCHANGED <<first_region, first_ramdisk, memory, ramdisk, commandLine>>
            /\ atag' = atag
        BY <1>4, <2>1, <2>3 DEF B!ReadAtag
      <3>2. atag = Len(atags)
        BY <1>0, <2>3
      <3>3. B!TypeOK'
        BY <2>1, <3>1 DEF FlowInv, B!TypeOK
      <3>4. Taken(atag - 1)'
        BY <2>1, <3>1 DEF FlowInv, Taken, RegionTaken, RamdiskTaken, LineTaken, B!Line, B!First
      <3> QED  BY <2>1, <2>2, <3>1, <3>2, <3>3, <3>4 DEF FlowInv
    <2>4. CASE atags[atag].kind # "NONE"
      <3>1. atag' = atag + 1 /\ atag' \in DOMAIN atags' /\ atag' - 1 = atag
        BY <1>0, <2>1, <2>4
      <3>2. Taken(atag - 1)'
        BY <1>4, <2>4, ReadTakes
      <3>3. {first_region', first_ramdisk'} \subseteq {0, 1}
        BY <3>2 DEF Taken, RegionTaken, RamdiskTaken
      <3>4. Len(commandLine') <= LineLength
        <4>1. CASE commandLine' = commandLine
          BY <4>1 DEF FlowInv, B!TypeOK
        <4>2. CASE commandLine' # commandLine
          <5>1. atags[atag].kind = "CMDLINE" /\ commandLine' = B!strncpy(atags[atag].value, LineLength)
            BY <1>4, <4>2 DEF B!ReadAtag, B!populate_commandline_info
          <5>2. atags[atag].value \in Seq(Nat)
            BY <1>0, <5>1, ListShape DEF FlowInv
          <5> QED  BY <5>1, <5>2, CopyFits
        <4> QED  BY <4>1, <4>2
      <3>5. B!TypeOK'
        BY <2>1, <3>1, <3>3, <3>4 DEF FlowInv, B!TypeOK
      <3> QED  BY <2>1, <2>2, <2>4, <3>2, <3>5 DEF FlowInv
    <2> QED  BY <2>3, <2>4
  <1>5. CASE B!AtagsRead
    <2>1. /\ stage = "atags" /\ tag = "NONE"
          /\ stage' = IF first_region = 1 THEN "prompt" ELSE "panicked"
          /\ UNCHANGED <<table, atags, atag, tag>>
          /\ UNCHANGED <<first_region, first_ramdisk, memory, ramdisk, commandLine>>
      BY <1>5 DEF B!AtagsRead, B!found
    <2>2. B!TypeOK' /\ B!MapsEverything'
      BY <2>1 DEF FlowInv, B!TypeOK, B!MapsEverything
    <2> QED
      BY <2>1, <2>2 DEF FlowInv, Taken, RegionTaken, RamdiskTaken, LineTaken, B!Line, B!First
  <1> QED  BY <1>1, <1>2, <1>3, <1>4, <1>5 DEF B!Next

LEMMA FlowRests == FlowInv /\ UNCHANGED flow => FlowInv'
  BY DEF FlowInv, flow, B!TypeOK, B!MapsEverything, Taken, RegionTaken, RamdiskTaken, LineTaken,
         B!Line, B!First

\* At the prompt all of the list is taken.
LEMMA FlowDone == FlowInv => B!TypeOK /\ B!MapsEverything /\ B!AtagsTaken
  <1> SUFFICES ASSUME FlowInv, stage = "prompt" PROVE B!AtagsTaken
    BY DEF FlowInv, B!AtagsTaken
  <1>1. /\ atag = Len(atags) /\ first_region = 1 /\ Taken(atag - 1)
        /\ Len(atags) \in Nat \ {0} /\ DOMAIN atags = 1 .. Len(atags)
        /\ atags[Len(atags)].kind = "NONE"
    BY ListShape DEF FlowInv
  <1>2. \E n \in DOMAIN atags : B!First(n, "MEM") /\ memory = atags[n].value
    BY <1>1 DEF Taken, RegionTaken
  <1>3. \/ \E n \in DOMAIN atags : B!First(n, "INITRD2") /\ ramdisk = atags[n].value
        \/ ramdisk = None /\ \A n \in DOMAIN atags : atags[n].kind # "INITRD2"
    BY <1>1 DEF Taken, RamdiskTaken
  <1>4. \/ \E n \in DOMAIN atags : B!LastLine(n) /\ commandLine = B!strncpy(atags[n].value, LineLength)
        \/ commandLine = <<>> /\ \A n \in DOMAIN atags : ~ B!Line(n)
    <2>1. ~ B!Line(Len(atags))
      BY <1>1 DEF B!Line
    <2> QED  BY <1>1, <2>1 DEF Taken, LineTaken, B!LastLine
  <1> QED  BY <1>2, <1>3, <1>4 DEF B!AtagsTaken

-----------------------------------------------------------------------------
(* start_darwin *)

\* A number is rounded up to a multiple by less than that.
LEMMA UpBounds ==
    ASSUME NEW p \in Nat, NEW s \in Nat \ {0}
    PROVE  K!Up(p, s) \in Nat /\ p <= K!Up(p, s) /\ K!Up(p, s) <= p + s
  BY DEF K!Up

LEMMA StartBounds ==
    ASSUME NEW p \in Nat, NEW s \in Nat
    PROVE  K!Start(p, s) \in Nat /\ p <= K!Start(p, s) /\ K!Start(p, s) <= p + s
  BY UpBounds DEF K!Start

\* A segment in a file.
Seg(file, n) == file.commands[n].cmd = "segment"

LEMMA Commands ==
    ASSUME NEW file \in Kernels
    PROVE  /\ Len(file.commands) \in Nat /\ DOMAIN file.commands = 1 .. Len(file.commands)
           /\ \A n \in 1 .. Len(file.commands) :
                /\ file.commands[n] \in LoadCommands
                /\ Seg(file, n) => /\ file.commands[n].vmsize \in Nat /\ file.commands[n].vmaddr \in Nat
                                   /\ file.commands[n].filesize \in Nat /\ file.commands[n].fileoff \in Nat
           /\ \A s \in K!Segments(file) : \E n \in 1 .. Len(file.commands) : Seg(file, n) /\ s = file.commands[n]
           /\ \A n \in 1 .. Len(file.commands) : Seg(file, n) => file.commands[n] \in K!Segments(file)
  <1>1. file.commands \in Seq(LoadCommands)
    BY KernelAssumption
  <1>2. Len(file.commands) \in Nat /\ DOMAIN file.commands = 1 .. Len(file.commands)
    BY <1>1
  <1>3. ASSUME NEW n \in 1 .. Len(file.commands)
        PROVE  /\ file.commands[n] \in LoadCommands
               /\ Seg(file, n) => /\ file.commands[n].vmsize \in Nat /\ file.commands[n].vmaddr \in Nat
                                  /\ file.commands[n].filesize \in Nat /\ file.commands[n].fileoff \in Nat
    <2>1. file.commands[n] \in LoadCommands
      BY <1>1, <1>2
    <2> QED  BY <2>1 DEF LoadCommands, Seg
  <1>4. ASSUME NEW s \in K!Segments(file)
        PROVE  \E n \in 1 .. Len(file.commands) : Seg(file, n) /\ s = file.commands[n]
    <2>1. s \in K!Range(file.commands) /\ s.cmd = "segment"
      BY DEF K!Segments, K!IsSegment
    <2>2. PICK n \in DOMAIN file.commands : s = file.commands[n]
      BY <2>1 DEF K!Range
    <2> QED  BY <1>2, <2>1, <2>2 DEF Seg
  <1>5. ASSUME NEW n \in 1 .. Len(file.commands), Seg(file, n)
        PROVE  file.commands[n] \in K!Segments(file)
    <2>1. file.commands[n] \in K!Range(file.commands)
      BY <1>2 DEF K!Range
    <2> QED  BY <1>5, <2>1 DEF K!Segments, K!IsSegment, Seg
  <1> QED  BY <1>2, <1>3, <1>4, <1>5

LEMMA VmSizeNat == ASSUME NEW file \in Kernels PROVE K!VmSize(file) \in Nat
  <1> DEFINE n == Len(file.commands)
             c(k) == file.commands[k]
             add == [p \in (1 .. n) \X Nat |-> IF K!IsSegment(c(p[1])) THEN p[2] + c(p[1]).vmsize ELSE p[2]]
             count == CHOOSE count : count = [k \in 0 .. n |->
                        IF k = 0 THEN 0
                        ELSE IF K!IsSegment(file.commands[k]) THEN count[k - 1] + file.commands[k].vmsize
                        ELSE count[k - 1]]
  <1>1. n \in Nat /\ \A k \in 1 .. n : K!IsSegment(c(k)) => c(k).vmsize \in Nat
    BY Commands DEF Seg, K!IsSegment
  <1>2. add \in [(1 .. n) \X Nat -> Nat]
    BY <1>1
  <1>3. PICK g : Loop(Nat, 0, n, add, g)
    <2> HIDE DEF n, add
    <2> QED  BY <1>1, <1>2, Rounds
  <1>4. ASSUME NEW k \in 1 .. n
        PROVE  g[k] = IF K!IsSegment(file.commands[k]) THEN g[k - 1] + file.commands[k].vmsize ELSE g[k - 1]
    <2>1. g[k - 1] \in Nat /\ g[k] = add[<<k, g[k - 1]>>]
      <3> HIDE DEF n, add
      <3> QED  BY <1>1, <1>3 DEF Loop
    <2> QED  BY <2>1
  <1>5. g = [k \in 0 .. n |-> IF k = 0 THEN 0
                ELSE IF K!IsSegment(file.commands[k]) THEN g[k - 1] + file.commands[k].vmsize
                ELSE g[k - 1]]
    <2>1. \A k \in 0 .. n : k = 0 \/ k \in 1 .. n
      BY <1>1
    <2>2. g \in [0 .. n -> Nat] /\ g[0] = 0
      <3> HIDE DEF n, add
      <3> QED  BY <1>3 DEF Loop
    <2> HIDE DEF n
    <2> QED  BY <1>4, <2>1, <2>2
  <1>6. count = [k \in 0 .. n |-> IF k = 0 THEN 0
                    ELSE IF K!IsSegment(file.commands[k]) THEN count[k - 1] + file.commands[k].vmsize
                    ELSE count[k - 1]]
    BY <1>5
  <1> HIDE DEF n
  <1>7. \A k \in 0 .. n : count[k] \in Nat
    <2> DEFINE S == {k \in 0 .. n : count[k] \in Nat}
    <2>0. count[0] = 0 /\ \A k \in 1 .. n : count[k] =
              IF K!IsSegment(file.commands[k]) THEN count[k - 1] + file.commands[k].vmsize ELSE count[k - 1]
      <3> HIDE DEF count
      <3> QED  BY <1>1, <1>6
    <2> HIDE DEF count
    <2>1. 0 \in S
      BY <1>1, <2>0
    <2>2. \A k \in 1 .. n : k - 1 \in S => k \in S
      BY <1>1, <2>0
    <2> HIDE DEF S
    <2>3. \A k \in 0 .. n : k \in S
      BY <1>1, <2>1, <2>2, Induction
    <2> QED  BY <2>3 DEF S
  <1>8. K!VmSize(file) = count[n]
    BY DEF K!VmSize, n
  <1> HIDE DEF count
  <1> QED  BY <1>1, <1>7, <1>8

\* Where a segment goes.
Place(file, n) == file.commands[n].vmaddr - virtBase

KernelTop(file) == Page + K!VmSize(file)

Apart(file, n, m) ==
    \/ Place(file, n) + file.commands[n].vmsize <= Place(file, m)
    \/ Place(file, m) + file.commands[m].vmsize <= Place(file, n)

LEMMA Places ==
    ASSUME NEW file \in Kernels, NEW d \in Ramdisks,
           NEW n \in 1 .. Len(file.commands), Seg(file, n)
    PROVE  /\ Place(file, n) \in Nat /\ Page <= Place(file, n)
           /\ Place(file, n) + file.commands[n].vmsize <= KernelTop(file)
           /\ file.commands[n].filesize <= file.commands[n].vmsize
           /\ KernelAt + file.commands[n].fileoff + file.commands[n].filesize <= End + 1
           /\ \A m \in 1 .. Len(file.commands) : m # n /\ Seg(file, m) => Apart(file, n, m)
  <1>1. /\ file.commands[n].vmsize \in Nat /\ file.commands[n].vmaddr \in Nat
        /\ file.commands[n].filesize \in Nat /\ file.commands[n].fileoff \in Nat
        /\ DOMAIN file.commands = 1 .. Len(file.commands)
    BY Commands
  <1>2. /\ file.commands[n].filesize <= file.commands[n].vmsize
        /\ K!KERNEL_VMADDR <= file.commands[n].vmaddr
        /\ file.commands[n].vmaddr + file.commands[n].vmsize <= K!KERNEL_VMADDR + K!VmSize(file)
        /\ KernelAt + file.commands[n].fileoff + file.commands[n].filesize <= End + 1
        /\ \A m \in 1 .. Len(file.commands) :
              m # n /\ file.commands[m].cmd = "segment" =>
                  \/ file.commands[n].vmaddr + file.commands[n].vmsize <= file.commands[m].vmaddr
                  \/ file.commands[m].vmaddr + file.commands[m].vmsize <= file.commands[n].vmaddr
    BY <1>1, KernelAssumption, Zenon DEF Seg
  <1>3. virtBase \in Nat /\ Page \in Nat /\ K!VmSize(file) \in Nat
    BY SizeAssumption, VmSizeNat
  <1>4. K!KERNEL_VMADDR = virtBase + Page
    BY DEF K!KERNEL_VMADDR
  <1>5. ASSUME NEW m \in 1 .. Len(file.commands), m # n, Seg(file, m) PROVE Apart(file, n, m)
    <2>1. file.commands[m].vmaddr \in Nat /\ file.commands[m].vmsize \in Nat
      BY <1>5, Commands
    <2>2. \/ file.commands[n].vmaddr + file.commands[n].vmsize <= file.commands[m].vmaddr
          \/ file.commands[m].vmaddr + file.commands[m].vmsize <= file.commands[n].vmaddr
      BY <1>2, <1>5 DEF Seg
    <2> DEFINE a == file.commands[n].vmaddr
               b == file.commands[m].vmaddr
               x == file.commands[n].vmsize
               y == file.commands[m].vmsize
    <2>3. {a, b, x, y} \subseteq Nat /\ (a + x <= b \/ b + y <= a)
      BY <1>1, <2>1, <2>2
    <2> HIDE DEF a, b, x, y
    <2>4. a - virtBase + x <= b - virtBase \/ b - virtBase + y <= a - virtBase
      BY <2>3, <1>3
    <2> QED  BY <2>4 DEF Apart, Place, a, b, x, y
  <1>6. /\ Place(file, n) \in Nat /\ Page <= Place(file, n)
        /\ Place(file, n) + file.commands[n].vmsize <= KernelTop(file)
    <2> DEFINE a == file.commands[n].vmaddr
               x == file.commands[n].vmsize
               v == K!VmSize(file)
    <2>1. /\ a \in Nat /\ x \in Nat /\ v \in Nat /\ virtBase + Page <= a
          /\ a + x <= virtBase + Page + v
      BY <1>1, <1>2, <1>3, <1>4
    <2> HIDE DEF a, x, v
    <2>2. a - virtBase \in Nat /\ Page <= a - virtBase /\ a - virtBase + x <= Page + v
      BY <2>1, <1>3
    <2> QED  BY <2>2 DEF Place, KernelTop, a, x, v
  <1> QED  BY <1>2, <1>5, <1>6

LEMMA Room ==
    ASSUME NEW file \in Kernels, NEW d \in Ramdisks
    PROVE  /\ Page \in Nat /\ ZeroSize \in Nat /\ ArgsSize \in Nat /\ virtBase \in Nat
           /\ KernelAt \in Nat /\ End \in Nat /\ TreeLength \in Nat
           /\ RamdiskAlign \in Nat \ {0} /\ ArgsAlign \in Nat \ {0} /\ TopAlign \in Nat \ {0}
           /\ KernelTop(file) \in Nat /\ d.base \in Nat /\ d.size \in Nat
           /\ KernelTop(file) <= ZeroSize /\ ZeroSize <= KernelAt
           /\ KernelTop(file) + RamdiskAlign + d.size + TreeLength + 1 + ArgsAlign + ArgsSize <= End
  BY SizeAssumption, VmSizeNat, RoomAssumption DEF KernelTop

\* The first k commands of a file are mapped: out is what m became.
Copies(file, n, m, out) ==
    \A x \in 0 .. file.commands[n].filesize - 1 :
        out[Place(file, n) + x] = m[KernelAt + file.commands[n].fileoff + x]

Outside(file, n, a) == ~ (a - Place(file, n) \in 0 .. file.commands[n].filesize - 1)

MappedUpTo(file, k, m, out) ==
    /\ \A n \in 1 .. k : Seg(file, n) => Copies(file, n, m, out)
    /\ \A a \in 0 .. End : (\A n \in 1 .. k : Seg(file, n) => Outside(file, n, a)) => out[a] = m[a]

\* bytes of m are in out at another place, and what is not there is as it was.
Carried(m, out, from, to, bytes) == \A x \in 0 .. bytes - 1 : out[to + x] = m[from + x]

Kept(m, out, to, bytes) == \A a \in 0 .. End : ~ (a - to \in 0 .. bytes - 1) => out[a] = m[a]

\* What a copy leaves: the bytes at their new place, and the rest as it was.
LEMMA Moved ==
    ASSUME NEW V, NEW m \in [0 .. End -> V], NEW from \in Nat, NEW to \in Nat, NEW bytes \in Nat,
           End \in Nat, from + bytes <= End + 1, to + bytes <= End + 1
    PROVE  /\ K!Copied(m, from, to, bytes) \in [0 .. End -> V]
           /\ Carried(m, K!Copied(m, from, to, bytes), from, to, bytes)
           /\ Kept(m, K!Copied(m, from, to, bytes), to, bytes)
  <1> DEFINE out == K!Copied(m, from, to, bytes)
  <1>1. out = [a \in 0 .. End |-> IF a - to \in 0 .. bytes - 1 THEN m[a - to + from] ELSE m[a]]
    BY DEF K!Copied
  <1> HIDE DEF out
  <1>2. ASSUME NEW a \in 0 .. End, a - to \in 0 .. bytes - 1 PROVE a - to + from \in 0 .. End
    BY <1>2
  <1>3. out \in [0 .. End -> V]
    BY <1>1, <1>2
  <1>4. ASSUME NEW x \in 0 .. bytes - 1 PROVE out[to + x] = m[from + x]
    <2>1. to + x \in 0 .. End /\ to + x - to = x /\ x + from = from + x
      OBVIOUS
    <2> QED  BY <1>1, <2>1
  <1>5. \A a \in 0 .. End : ~ (a - to \in 0 .. bytes - 1) => out[a] = m[a]
    BY <1>1
  <1> QED  BY <1>3, <1>4, <1>5 DEF out, Carried, Kept

\* The places of two segments, as numbers.
LEMMA Disjoint ==
    ASSUME NEW file \in Kernels, NEW d \in Ramdisks,
           NEW n \in 1 .. Len(file.commands), Seg(file, n),
           NEW m \in 1 .. Len(file.commands), Seg(file, m), m # n,
           NEW x \in 0 .. file.commands[n].filesize - 1
    PROVE  ~ ((Place(file, n) + x) - Place(file, m) \in 0 .. file.commands[m].filesize - 1)
  <1> DEFINE p == Place(file, n)
             q == Place(file, m)
             a == file.commands[n].vmsize
             b == file.commands[m].vmsize
             v == file.commands[n].filesize
             w == file.commands[m].filesize
  <1>1. /\ p \in Nat /\ q \in Nat /\ a \in Nat /\ b \in Nat /\ v \in Nat /\ w \in Nat
        /\ v <= a /\ w <= b /\ (p + a <= q \/ q + b <= p) /\ x \in 0 .. v - 1
    BY Places, Commands DEF Apart
  <1> HIDE DEF p, q, a, b, v, w
  <1>2. ~ ((p + x) - q \in 0 .. w - 1)
    BY <1>1
  <1>3. ~ ((Place(file, n) + x) - Place(file, m) \in 0 .. file.commands[m].filesize - 1)
    BY <1>2 DEF p, q, w
  <1> QED  BY <1>3

\* One more segment.
LEMMA MapsOne ==
    ASSUME NEW file \in Kernels, NEW d \in Ramdisks, NEW k \in 1 .. Len(file.commands),
           Seg(file, k), NEW V, NEW m \in [0 .. End -> V], NEW before \in [0 .. End -> V],
           MappedUpTo(file, k - 1, m, before)
    PROVE  /\ K!SegmentMapped(before, file.commands[k], Page) \in [0 .. End -> V]
           /\ MappedUpTo(file, k, m, K!SegmentMapped(before, file.commands[k], Page))
  <1> DEFINE out == K!SegmentMapped(before, file.commands[k], Page)
             P == Place(file, k)
             bytes == file.commands[k].filesize
             from == KernelAt + file.commands[k].fileoff
  <1>1. /\ file.commands[k].vmaddr \in Nat /\ bytes \in Nat /\ file.commands[k].fileoff \in Nat
        /\ file.commands[k].vmsize \in Nat
    BY Commands
  <1>2. /\ Page \in Nat /\ virtBase \in Nat /\ KernelAt \in Nat /\ End \in Nat
        /\ KernelTop(file) \in Nat /\ KernelTop(file) <= KernelAt /\ KernelTop(file) <= End
    <2> DEFINE top == KernelTop(file)
    <2>1. /\ top \in Nat /\ top <= ZeroSize /\ ZeroSize <= KernelAt /\ ZeroSize \in Nat
          /\ top + RamdiskAlign + d.size + TreeLength + 1 + ArgsAlign + ArgsSize <= End
          /\ RamdiskAlign \in Nat /\ d.size \in Nat /\ TreeLength \in Nat /\ ArgsAlign \in Nat
          /\ ArgsSize \in Nat /\ KernelAt \in Nat /\ End \in Nat
      BY Room
    <2> DEFINE z == d.size
    <2> HIDE DEF top, z
    <2>2. top <= KernelAt /\ top <= End
      <3>1. z \in Nat /\ top + RamdiskAlign + z + TreeLength + 1 + ArgsAlign + ArgsSize <= End
        BY <2>1 DEF z
      <3> QED  BY <2>1, <3>1
    <2> QED  BY <2>2, Room DEF top
  <1>3. P \in Nat /\ P + bytes <= End + 1 /\ from \in Nat /\ KernelAt <= from /\ from + bytes <= End + 1
    <2> DEFINE top == KernelTop(file)
               v == file.commands[k].vmsize
               o == file.commands[k].fileoff
    <2>1. /\ P \in Nat /\ P + v <= top /\ bytes <= v /\ KernelAt + o + bytes <= End + 1
          /\ v \in Nat /\ o \in Nat /\ top \in Nat /\ top <= End /\ bytes \in Nat
      BY <1>1, <1>2, Places
    <2> HIDE DEF top, v, o, P, bytes
    <2>2. P + bytes <= End + 1 /\ KernelAt + o \in Nat /\ KernelAt <= KernelAt + o
      BY <1>2, <2>1
    <2> QED  BY <2>1, <2>2 DEF o
  <1>4. Page + file.commands[k].vmaddr - K!KERNEL_VMADDR = P
    <2> DEFINE v == file.commands[k].vmaddr
    <2> HIDE DEF v
    <2>1. Page + v - (virtBase + Page) = v - virtBase
      BY <1>1, <1>2 DEF v
    <2> QED  BY <2>1 DEF K!KERNEL_VMADDR, Place, v
  <1>5. out = K!Copied(before, from, P, bytes)
    BY <1>4 DEF K!SegmentMapped
  <1> HIDE DEF P, bytes, from, out
  <1>6. /\ out \in [0 .. End -> V]
        /\ \A x \in 0 .. bytes - 1 : out[P + x] = before[from + x]
        /\ \A a \in 0 .. End : ~ (a - P \in 0 .. bytes - 1) => out[a] = before[a]
    <2>1. from \in Nat /\ P \in Nat /\ bytes \in Nat /\ End \in Nat /\ from + bytes <= End + 1 /\ P + bytes <= End + 1
      BY <1>1, <1>2, <1>3
    <2>2. out \in [0 .. End -> V] /\ Carried(before, out, from, P, bytes) /\ Kept(before, out, P, bytes)
      BY <1>5, <2>1, Moved
    <2> QED  BY <2>2 DEF Carried, Kept
  <1>8. ASSUME NEW a \in KernelAt .. End PROVE before[a] = m[a]
    <2>1. a \in 0 .. End
      BY <1>2
    <2>2. ASSUME NEW n \in 1 .. k - 1, Seg(file, n) PROVE Outside(file, n, a)
      <3>1. n \in 1 .. Len(file.commands)
        BY Commands
      <3> DEFINE p == Place(file, n)
                 v == file.commands[n].vmsize
                 w == file.commands[n].filesize
                 top == KernelTop(file)
      <3>2. p \in Nat /\ p + v <= top /\ w <= v /\ w \in Nat /\ v \in Nat
            /\ top \in Nat /\ top <= KernelAt
        BY <2>2, <3>1, <1>2, Places, Commands
      <3> HIDE DEF p, v, w, top
      <3>3. ~ (a - p \in 0 .. w - 1)
        BY <3>2, <1>2
      <3> QED  BY <3>3 DEF Outside, p, w
    <2> QED  BY <2>1, <2>2 DEF MappedUpTo
  <1>9. Copies(file, k, m, out)
    <2>1. ASSUME NEW x \in 0 .. bytes - 1 PROVE out[P + x] = m[from + x]
      <3>1. from + x \in KernelAt .. End
        BY <1>1, <1>2, <1>3
      <3> QED  BY <3>1, <1>6, <1>8
    <2> QED  BY <2>1 DEF Copies, P, from, bytes
  <1>10. ASSUME NEW n \in 1 .. k - 1, Seg(file, n) PROVE Copies(file, n, m, out)
    <2>1. n \in 1 .. Len(file.commands) /\ n # k /\ k \in 1 .. Len(file.commands)
      BY Commands
    <2>5. ASSUME NEW x \in 0 .. file.commands[n].filesize - 1
          PROVE  out[Place(file, n) + x] = before[Place(file, n) + x]
      <3>1. ~ ((Place(file, n) + x) - P \in 0 .. bytes - 1)
        BY <1>10, <2>1, Disjoint DEF P, bytes
      <3>2. Place(file, n) + x \in 0 .. End
        <4> DEFINE p == Place(file, n)
                   v == file.commands[n].vmsize
                   w == file.commands[n].filesize
                   top == KernelTop(file)
        <4>1. p \in Nat /\ p + v <= top /\ w <= v /\ w \in Nat /\ v \in Nat
              /\ top \in Nat /\ top <= End /\ x \in 0 .. w - 1
          BY <1>10, <2>1, <1>2, Places, Commands
        <4> HIDE DEF p, v, w, top
        <4>2. p + x \in 0 .. End
          BY <4>1, <1>2
        <4> QED  BY <4>2 DEF p
      <3> DEFINE at == Place(file, n) + x
      <3> HIDE DEF at
      <3>3. at \in 0 .. End /\ ~ (at - P \in 0 .. bytes - 1)
        BY <3>1, <3>2 DEF at
      <3>4. out[at] = before[at]
        BY <3>3, <1>6
      <3> QED  BY <3>4 DEF at
    <2>6. Copies(file, n, m, before)
      BY <1>10 DEF MappedUpTo
    <2> QED  BY <2>5, <2>6 DEF Copies
  <1>11. ASSUME NEW a \in 0 .. End, \A n \in 1 .. k : Seg(file, n) => Outside(file, n, a)
         PROVE  out[a] = m[a]
    <2>1. k \in 1 .. k /\ \A n \in 1 .. k - 1 : n \in 1 .. k
      OBVIOUS
    <2>2. before[a] = m[a]
      BY <1>11, <2>1 DEF MappedUpTo
    <2>3. ~ (a - P \in 0 .. bytes - 1)
      BY <1>11, <2>1 DEF Outside, P, bytes
    <2> QED  BY <1>6, <2>2, <2>3
  <1>12. \A n \in 1 .. k : n = k \/ n \in 1 .. k - 1
    OBVIOUS
  <1>13. MappedUpTo(file, k, m, out)
    BY <1>9, <1>10, <1>11, <1>12 DEF MappedUpTo
  <1> QED  BY <1>6, <1>13 DEF out

\* macho_file_map copies every segment and nothing else.
LEMMA MapsAll ==
    ASSUME NEW file \in Kernels, NEW d \in Ramdisks, NEW V, NEW m \in [0 .. End -> V]
    PROVE  /\ K!FileMapped(m, file, Page) \in [0 .. End -> V]
           /\ MappedUpTo(file, Len(file.commands), m, K!FileMapped(m, file, Page))
  <1> DEFINE n == Len(file.commands)
             M == [0 .. End -> V]
             Good(k, out) == out \in M /\ MappedUpTo(file, k, m, out)
             Step(k, out) == IF K!IsSegment(file.commands[k])
                             THEN K!SegmentMapped(out, file.commands[k], Page) ELSE out
             f == [p \in (1 .. n) \X M |-> IF Step(p[1], p[2]) \in M THEN Step(p[1], p[2]) ELSE p[2]]
             mapped == CHOOSE mapped : mapped = [k \in 0 .. n |->
                         IF k = 0 THEN m
                         ELSE IF K!IsSegment(file.commands[k])
                         THEN K!SegmentMapped(mapped[k - 1], file.commands[k], Page)
                         ELSE mapped[k - 1]]
  <1>1. n \in Nat /\ \A k \in 1 .. n : K!IsSegment(file.commands[k]) <=> Seg(file, k)
    BY Commands DEF Seg, K!IsSegment
  <1>2. f \in [(1 .. n) \X M -> M]
    <2> HIDE DEF Step, M
    <2> QED  OBVIOUS
  <1>3. ASSUME NEW k \in 1 .. n, NEW out, Good(k - 1, out)
        PROVE  Good(k, Step(k, out))
    <2>1. CASE Seg(file, k)
      BY <1>1, <1>3, <2>1, MapsOne
    <2>2. CASE ~ Seg(file, k)
      <3>1. Step(k, out) = out /\ \A l \in 1 .. k : l = k \/ l \in 1 .. k - 1
        BY <1>1, <2>2
      <3>2. \A l \in 1 .. k - 1 : l \in 1 .. k
        OBVIOUS
      <3> QED  BY <1>3, <2>2, <3>1, <3>2 DEF MappedUpTo
    <2> QED  BY <2>1, <2>2
  <1>4. Good(0, m)
    BY DEF MappedUpTo
  <1>5. PICK g : Loop(M, m, n, f, g)
    <2> HIDE DEF n, f, M
    <2>1. m \in M
      BY DEF M
    <2> QED  BY <1>1, <1>2, <2>1, Rounds
  <1>6. g \in [0 .. n -> M] /\ g[0] = m /\ \A k \in 1 .. n : g[k] = f[<<k, g[k - 1]>>]
    <2> HIDE DEF f, M, n
    <2> QED  BY <1>5 DEF Loop
  <1>7. \A k \in 1 .. n : f[<<k, g[k - 1]>>] =
            IF Step(k, g[k - 1]) \in M THEN Step(k, g[k - 1]) ELSE g[k - 1]
    <2>1. \A k \in 1 .. n : k - 1 \in 0 .. n
      BY <1>1
    <2> HIDE DEF Step, M, n
    <2>2. \A k \in 1 .. n : <<k, g[k - 1]>> \in (1 .. n) \X M
      BY <1>6, <2>1
    <2> QED  BY <2>2
  <1>8. \A k \in 0 .. n : Good(k, g[k])
    <2> DEFINE S == {k \in 0 .. n : Good(k, g[k])}
    <2> HIDE DEF n, f, Good, Step
    <2>1. 0 \in S
      BY <1>1, <1>4, <1>6
    <2>2. ASSUME NEW k \in 1 .. n, k - 1 \in S PROVE k \in S
      <3>1. Good(k, Step(k, g[k - 1]))
        BY <1>3, <2>2
      <3>2. Step(k, g[k - 1]) \in M
        BY <3>1 DEF Good
      <3>3. k \in 0 .. n
        BY <1>1
      <3>4. g[k] = Step(k, g[k - 1])
        BY <1>6, <1>7, <3>2, Zenon
      <3> QED  BY <3>1, <3>3, <3>4
    <2> HIDE DEF S
    <2>3. \A k \in 0 .. n : k \in S
      BY <1>1, <2>1, <2>2, Induction
    <2> QED  BY <2>3 DEF S
  <1>9. \A k \in 1 .. n : g[k] = Step(k, g[k - 1])
    <2> HIDE DEF n, f, Good, Step
    <2>1. ASSUME NEW k \in 1 .. n PROVE Step(k, g[k - 1]) \in M
      <3>1. k - 1 \in 0 .. n
        BY <1>1
      <3>2. Good(k, Step(k, g[k - 1]))
        BY <3>1, <1>3, <1>8
      <3> QED  BY <3>2 DEF Good
    <2> QED  BY <1>6, <1>7, <2>1
  <1>10. g = [k \in 0 .. n |-> IF k = 0 THEN m
                ELSE IF K!IsSegment(file.commands[k])
                THEN K!SegmentMapped(g[k - 1], file.commands[k], Page)
                ELSE g[k - 1]]
    <2>1. \A k \in 0 .. n : k = 0 \/ k \in 1 .. n
      BY <1>1
    <2> HIDE DEF n, f, M
    <2> QED  BY <1>6, <1>9, <2>1
  <1>11. mapped = [k \in 0 .. n |-> IF k = 0 THEN m
                    ELSE IF K!IsSegment(file.commands[k])
                    THEN K!SegmentMapped(mapped[k - 1], file.commands[k], Page)
                    ELSE mapped[k - 1]]
    BY <1>10
  <1>12. K!FileMapped(m, file, Page) = mapped[n]
    BY DEF K!FileMapped
  <1>13. \A k \in 0 .. n : Good(k, mapped[k])
    <2>0. mapped[0] = m /\ \A k \in 1 .. n : mapped[k] = Step(k, mapped[k - 1])
      <3> HIDE DEF mapped, n
      <3>1. 0 \in 0 .. n /\ \A k \in 1 .. n : k \in 0 .. n /\ k # 0
        BY <1>1
      <3>2. mapped[0] = m
        BY <3>1, <1>11
      <3>3. ASSUME NEW k \in 1 .. n PROVE mapped[k] = Step(k, mapped[k - 1])
        BY <3>1, <1>11
      <3> QED  BY <3>2, <3>3
    <2> DEFINE S == {k \in 0 .. n : Good(k, mapped[k])}
    <2> HIDE DEF mapped, n, Good, Step
    <2>1. 0 \in S
      BY <1>1, <1>4, <2>0
    <2>2. ASSUME NEW k \in 1 .. n, k - 1 \in S PROVE k \in S
      BY <1>3, <2>0, <2>2
    <2> HIDE DEF S
    <2>3. \A k \in 0 .. n : k \in S
      BY <1>1, <2>1, <2>2, Induction
    <2> QED  BY <2>3 DEF S
  <1> HIDE DEF mapped
  <1> QED  BY <1>1, <1>12, <1>13

-----------------------------------------------------------------------------
(* What is in memory, stage by stage *)

Units == {"file", "disk", "tree", "args", "zero", "other"} \X Int

\* A kernel file, or a ramdisk, is at its place and the beginning is cleared.
FileAt(file, m) ==
    \A n \in 1 .. Len(file.commands) : Seg(file, n) =>
        \A x \in 0 .. file.commands[n].filesize - 1 :
            m[KernelAt + file.commands[n].fileoff + x] = K!FileUnit(file.commands[n].fileoff + x)

DiskAt(d, m, at) == \A x \in 0 .. d.size - 1 : m[at + x] = K!DiskUnit(x)

Ready(file, d, m) ==
    /\ FileAt(file, m)
    /\ d.base # 0 => DiskAt(d, m, d.base)
    /\ \A a \in 0 .. KernelTop(file) - 1 : m[a] = K!Zero

\* A kernel's segments are at their places.
Unit(file, n, x) ==
    IF x < file.commands[n].filesize THEN K!FileUnit(file.commands[n].fileoff + x) ELSE K!Zero

Whole(file, m) ==
    \A n \in 1 .. Len(file.commands) : Seg(file, n) =>
        \A x \in 0 .. file.commands[n].vmsize - 1 : m[Place(file, n) + x] = Unit(file, n, x)

\* The numbers of a kernel and a ramdisk.
LEMMA Limits ==
    ASSUME NEW file \in Kernels, NEW d \in Ramdisks
    PROVE  /\ KernelTop(file) \in Nat /\ Page <= KernelTop(file)
           /\ KernelTop(file) <= ZeroSize /\ KernelTop(file) <= KernelAt /\ KernelTop(file) <= End
           /\ ZeroSize \in Nat /\ KernelAt \in Nat /\ End \in Nat /\ ZeroSize <= KernelAt
           /\ d.base \in Nat /\ d.size \in Nat
           /\ d.base # 0 => ZeroSize <= d.base /\ d.base + d.size <= End + 1
  <1> DEFINE top == KernelTop(file)
             z == d.size
             v == K!VmSize(file)
  <1>1. /\ top \in Nat /\ top <= ZeroSize /\ ZeroSize <= KernelAt /\ ZeroSize \in Nat
        /\ RamdiskAlign \in Nat /\ z \in Nat /\ TreeLength \in Nat /\ ArgsAlign \in Nat
        /\ ArgsSize \in Nat /\ KernelAt \in Nat /\ End \in Nat /\ d.base \in Nat
        /\ v \in Nat /\ Page \in Nat
    BY Room, VmSizeNat
  <1>2. top + RamdiskAlign + z + TreeLength + 1 + ArgsAlign + ArgsSize <= End
    BY Room
  <1>3. d.base # 0 => ZeroSize <= d.base /\ d.base + d.size <= End + 1
    BY RoomAssumption
  <1>4. top = Page + v
    BY DEF KernelTop
  <1> HIDE DEF top, z, v
  <1>5. top <= KernelAt /\ top <= End /\ Page <= top
    BY <1>1, <1>2, <1>4
  <1> QED  BY <1>1, <1>3, <1>5 DEF top, z

\* A byte of a segment lies below what is reserved later.
LEMMA InKernel ==
    ASSUME NEW file \in Kernels, NEW d \in Ramdisks,
           NEW n \in 1 .. Len(file.commands), Seg(file, n),
           NEW x \in 0 .. file.commands[n].vmsize - 1
    PROVE  Place(file, n) + x \in 0 .. KernelTop(file) - 1
  <1> DEFINE p == Place(file, n)
             v == file.commands[n].vmsize
             top == KernelTop(file)
  <1>1. p \in Nat /\ v \in Nat /\ p + v <= top /\ top \in Nat /\ x \in 0 .. v - 1
    BY Places, Commands, Limits
  <1> HIDE DEF p, v, top
  <1>2. p + x \in 0 .. top - 1
    BY <1>1
  <1> QED  BY <1>2 DEF p, top

LEMMA WholeKept ==
    ASSUME NEW file \in Kernels, NEW d \in Ramdisks, NEW m, NEW out, NEW to \in Nat, NEW bytes \in Nat,
           Whole(file, m), Kept(m, out, to, bytes), KernelTop(file) <= to
    PROVE  Whole(file, out)
  <1> SUFFICES ASSUME NEW n \in 1 .. Len(file.commands), Seg(file, n),
                      NEW x \in 0 .. file.commands[n].vmsize - 1
               PROVE  out[Place(file, n) + x] = Unit(file, n, x)
    BY DEF Whole
  <1> DEFINE a == Place(file, n) + x
             top == KernelTop(file)
  <1>1. a \in 0 .. top - 1 /\ top \in Nat /\ top <= End /\ End \in Nat /\ top <= to
    BY InKernel, Limits
  <1>2. m[a] = Unit(file, n, x)
    BY DEF Whole
  <1> HIDE DEF a, top
  <1>3. a \in 0 .. End /\ ~ (a - to \in 0 .. bytes - 1)
    BY <1>1
  <1>4. out[a] = m[a]
    BY <1>3 DEF Kept
  <1> QED  BY <1>2, <1>4 DEF a

LEMMA DiskKept ==
    ASSUME NEW d \in Ramdisks, NEW m, NEW out, NEW to \in Nat, NEW bytes \in Nat, NEW at \in Nat,
           d.size \in Nat, End \in Nat, DiskAt(d, m, at), Kept(m, out, to, bytes),
           at + d.size <= to, at + d.size <= End + 1
    PROVE  DiskAt(d, out, at)
  <1> SUFFICES ASSUME NEW x \in 0 .. d.size - 1 PROVE out[at + x] = K!DiskUnit(x)
    BY DEF DiskAt
  <1> DEFINE a == at + x
             z == d.size
  <1>1. a \in 0 .. End /\ ~ (a - to \in 0 .. bytes - 1)
    <2>1. z \in Nat /\ at + z <= to /\ at + z <= End + 1 /\ x \in 0 .. z - 1
      OBVIOUS
    <2> HIDE DEF z
    <2>2. at + x \in 0 .. End /\ ~ ((at + x) - to \in 0 .. bytes - 1)
      BY <2>1
    <2> QED  BY <2>2
  <1>2. m[a] = K!DiskUnit(x)
    BY DEF DiskAt
  <1> HIDE DEF a
  <1>3. out[a] = m[a]
    BY <1>1 DEF Kept
  <1> QED  BY <1>2, <1>3 DEF a

\* What is put in memory: f from to on.
Filled(f, out, to, bytes) == \A x \in 0 .. bytes - 1 : out[to + x] = f[x]

Overlay(m, f, to, bytes) == [a \in 0 .. End |-> IF a - to \in 0 .. bytes - 1 THEN f[a - to] ELSE m[a]]

LEMMA Written ==
    ASSUME NEW V, NEW m \in [0 .. End -> V], NEW to \in Nat, NEW bytes \in Nat,
           NEW f \in [0 .. bytes - 1 -> V], End \in Nat, to + bytes <= End + 1
    PROVE  /\ Overlay(m, f, to, bytes) \in [0 .. End -> V]
           /\ Filled(f, Overlay(m, f, to, bytes), to, bytes)
           /\ Kept(m, Overlay(m, f, to, bytes), to, bytes)
  <1> DEFINE out == Overlay(m, f, to, bytes)
  <1>0. out = [a \in 0 .. End |-> IF a - to \in 0 .. bytes - 1 THEN f[a - to] ELSE m[a]]
    BY DEF Overlay
  <1> HIDE DEF out
  <1>1. out \in [0 .. End -> V] /\ Kept(m, out, to, bytes)
    BY <1>0 DEF Kept
  <1>2. ASSUME NEW x \in 0 .. bytes - 1 PROVE out[to + x] = f[x]
    <2>1. to + x \in 0 .. End /\ (to + x) - to = x
      OBVIOUS
    <2> QED  BY <1>0, <2>1
  <1> QED  BY <1>1, <1>2 DEF Filled, out

-----------------------------------------------------------------------------
(* What each step leaves in memory *)

LEMMA UnitTypes ==
    /\ \A x \in Int : K!FileUnit(x) \in Units /\ K!DiskUnit(x) \in Units /\ K!TreeUnit(x) \in Units
    /\ K!Zero \in Units /\ K!ArgsUnit \in Units /\ K!Other \in Units
  BY DEF Units, K!FileUnit, K!DiskUnit, K!TreeUnit, K!Zero, K!ArgsUnit, K!Other

LEMMA Initially ==
    ASSUME NEW file \in Kernels, NEW d \in Ramdisks
    PROVE  /\ K!InitialMemory(file, d) \in [0 .. End -> Units]
           /\ FileAt(file, K!InitialMemory(file, d))
           /\ d.base # 0 => DiskAt(d, K!InitialMemory(file, d), d.base)
  <1> DEFINE m == K!InitialMemory(file, d)
  <1>1. m = [a \in 0 .. End |->
                IF K!InFile(file, a - KernelAt) THEN K!FileUnit(a - KernelAt)
                ELSE IF d.base # 0 /\ a - d.base \in 0 .. d.size - 1 THEN K!DiskUnit(a - d.base)
                ELSE K!Other]
    BY DEF K!InitialMemory
  <1> HIDE DEF m
  <1>2. KernelAt \in Nat /\ End \in Nat /\ d.base \in Nat /\ d.size \in Nat
    BY Limits
  <1>3. m \in [0 .. End -> Units]
    <2>1. \A a \in 0 .. End : a - KernelAt \in Int /\ a - d.base \in Int
      BY <1>2
    <2> QED  BY <1>1, <2>1, UnitTypes
  <1>4. FileAt(file, m)
    <2> SUFFICES ASSUME NEW n \in 1 .. Len(file.commands), Seg(file, n),
                        NEW x \in 0 .. file.commands[n].filesize - 1
                 PROVE  m[KernelAt + file.commands[n].fileoff + x] = K!FileUnit(file.commands[n].fileoff + x)
      BY DEF FileAt
    <2> DEFINE o == file.commands[n].fileoff
               w == file.commands[n].filesize
    <2>1. o \in Nat /\ w \in Nat /\ KernelAt + o + w <= End + 1 /\ x \in 0 .. w - 1
      BY Commands, Places
    <2>2. K!InFile(file, o + x)
      <3>1. o + x \in 0 .. o + w - 1
        <4> HIDE DEF o, w
        <4> QED  BY <2>1
      <3>2. file.commands[n] \in K!Segments(file)
        BY Commands
      <3> QED  BY <3>1, <3>2 DEF K!InFile
    <2> HIDE DEF o, w
    <2>3. KernelAt + o + x \in 0 .. End /\ (KernelAt + o + x) - KernelAt = o + x
      BY <1>2, <2>1
    <2>4. m[KernelAt + o + x] = K!FileUnit(o + x)
      BY <1>1, <2>2, <2>3
    <2> QED  BY <2>4 DEF o
  <1>5. ASSUME d.base # 0 PROVE DiskAt(d, m, d.base)
    <2> SUFFICES ASSUME NEW x \in 0 .. d.size - 1 PROVE m[d.base + x] = K!DiskUnit(x)
      BY DEF DiskAt
    <2> DEFINE b == d.base
               z == d.size
    <2>1. b \in Nat /\ z \in Nat /\ b + z <= End + 1 /\ x \in 0 .. z - 1
      BY <1>5, Limits
    <2>2. ~ K!InFile(file, b + x - KernelAt)
      BY <1>5, RoomAssumption
    <2> HIDE DEF b, z
    <2>3. b + x \in 0 .. End /\ (b + x) - b = x /\ (b + x) - KernelAt = b + x - KernelAt
      BY <1>2, <2>1
    <2>4. ~ K!InFile(file, (b + x) - KernelAt)
      BY <2>2, <2>3
    <2>5. m[b + x] = K!DiskUnit((b + x) - b)
      BY <1>1, <1>5, <2>1, <2>3, <2>4 DEF b, z
    <2> QED  BY <2>3, <2>5 DEF b
  <1> QED  BY <1>3, <1>4, <1>5 DEF m

\* start_darwin clears nothing that is needed.
LEMMA Clears ==
    ASSUME NEW file \in Kernels, NEW d \in Ramdisks, NEW m \in [0 .. End -> Units],
           FileAt(file, m), d.base # 0 => DiskAt(d, m, d.base)
    PROVE  /\ K!Put(m, 0, ZeroSize, LAMBDA k : K!Zero) \in [0 .. End -> Units]
           /\ Ready(file, d, K!Put(m, 0, ZeroSize, LAMBDA k : K!Zero))
  <1> DEFINE out == K!Put(m, 0, ZeroSize, LAMBDA k : K!Zero)
  <1>1. out = [a \in 0 .. End |-> IF a - 0 \in 0 .. ZeroSize - 1 THEN K!Zero ELSE m[a]]
    BY DEF K!Put
  <1> HIDE DEF out
  <1>2. /\ KernelAt \in Nat /\ End \in Nat /\ d.base \in Nat /\ d.size \in Nat /\ ZeroSize \in Nat
        /\ ZeroSize <= KernelAt /\ d.base # 0 => ZeroSize <= d.base
    BY Limits
  <1>3. ASSUME NEW a \in 0 .. End, ZeroSize <= a PROVE out[a] = m[a]
    BY <1>1, <1>2, <1>3
  <1>4. FileAt(file, out)
    <2> SUFFICES ASSUME NEW n \in 1 .. Len(file.commands), Seg(file, n),
                        NEW x \in 0 .. file.commands[n].filesize - 1
                 PROVE  out[KernelAt + file.commands[n].fileoff + x] = K!FileUnit(file.commands[n].fileoff + x)
      BY DEF FileAt
    <2> DEFINE o == file.commands[n].fileoff
               w == file.commands[n].filesize
    <2>1. o \in Nat /\ w \in Nat /\ KernelAt + o + w <= End + 1 /\ x \in 0 .. w - 1
      BY Commands, Places
    <2>2. m[KernelAt + o + x] = K!FileUnit(o + x)
      BY DEF FileAt
    <2> HIDE DEF o, w
    <2>3. KernelAt + o + x \in 0 .. End /\ ZeroSize <= KernelAt + o + x
      BY <1>2, <2>1
    <2>4. out[KernelAt + o + x] = K!FileUnit(o + x)
      BY <1>3, <2>2, <2>3
    <2> QED  BY <2>4 DEF o
  <1>5. ASSUME d.base # 0 PROVE DiskAt(d, out, d.base)
    <2> SUFFICES ASSUME NEW x \in 0 .. d.size - 1 PROVE out[d.base + x] = K!DiskUnit(x)
      BY DEF DiskAt
    <2> DEFINE b == d.base
               z == d.size
    <2>1. b \in Nat /\ z \in Nat /\ b + z <= End + 1 /\ x \in 0 .. z - 1 /\ ZeroSize <= b
      BY <1>5, Limits
    <2>2. m[b + x] = K!DiskUnit(x)
      BY <1>5 DEF DiskAt
    <2> HIDE DEF b, z
    <2>3. b + x \in 0 .. End /\ ZeroSize <= b + x
      BY <1>2, <2>1
    <2>4. out[b + x] = K!DiskUnit(x)
      BY <1>3, <2>2, <2>3
    <2> QED  BY <2>4 DEF b
  <1>6. \A a \in 0 .. KernelTop(file) - 1 : out[a] = K!Zero
    <2> DEFINE top == KernelTop(file)
    <2>1. top \in Nat /\ top <= End /\ top <= ZeroSize
      BY Limits
    <2> HIDE DEF top
    <2>2. \A a \in 0 .. top - 1 : out[a] = K!Zero
      BY <1>1, <1>2, <2>1
    <2> QED  BY <2>2 DEF top
  <1>7. out \in [0 .. End -> Units]
    BY <1>1, UnitTypes
  <1> QED  BY <1>4, <1>5, <1>6, <1>7 DEF Ready, out

\* prepare_kernel: a segment has its bytes of the file and zeros behind them.
LEMMA KernelIn ==
    ASSUME NEW file \in Kernels, NEW d \in Ramdisks, NEW m \in [0 .. End -> Units], Ready(file, d, m)
    PROVE  /\ K!FileMapped(m, file, Page) \in [0 .. End -> Units]
           /\ Whole(file, K!FileMapped(m, file, Page))
           /\ d.base # 0 => DiskAt(d, K!FileMapped(m, file, Page), d.base)
  <1> DEFINE out == K!FileMapped(m, file, Page)
             len == Len(file.commands)
  <1>1. out \in [0 .. End -> Units] /\ MappedUpTo(file, len, m, out)
    BY MapsAll
  <1> HIDE DEF out
  <1>2. Whole(file, out)
    <2> SUFFICES ASSUME NEW n \in 1 .. Len(file.commands), Seg(file, n),
                        NEW x \in 0 .. file.commands[n].vmsize - 1
                 PROVE  out[Place(file, n) + x] = Unit(file, n, x)
      BY DEF Whole
    <2> DEFINE p == Place(file, n)
               w == file.commands[n].filesize
               v == file.commands[n].vmsize
               top == KernelTop(file)
    <2>1. p \in Nat /\ w \in Nat /\ v \in Nat /\ x \in 0 .. v - 1
      BY Places, Commands
    <2>2. CASE x < w
      <3>1. x \in 0 .. w - 1
        <4> HIDE DEF w, v
        <4> QED  BY <2>1, <2>2
      <3>2. out[p + x] = m[KernelAt + file.commands[n].fileoff + x]
        BY <1>1, <3>1 DEF MappedUpTo, Copies
      <3>3. m[KernelAt + file.commands[n].fileoff + x] = K!FileUnit(file.commands[n].fileoff + x)
        BY <3>1 DEF Ready, FileAt
      <3> QED  BY <2>2, <3>2, <3>3 DEF Unit
    <2>3. CASE ~ (x < w)
      <3>1. p + x \in 0 .. top - 1 /\ top \in Nat /\ top <= End /\ End \in Nat
        BY InKernel, Limits
      <3>2. ASSUME NEW l \in 1 .. len, Seg(file, l) PROVE Outside(file, l, p + x)
        <4>1. CASE l = n
          <5>1. ~ ((p + x) - p \in 0 .. w - 1)
            <6> HIDE DEF p, w, v
            <6> QED  BY <2>1, <2>3
          <5> QED  BY <4>1, <5>1 DEF Outside
        <4>2. CASE l # n
          <5> DEFINE q == Place(file, l)
                     b == file.commands[l].vmsize
                     u == file.commands[l].filesize
          <5>1. q \in Nat /\ b \in Nat /\ u \in Nat /\ u <= b /\ (p + v <= q \/ q + b <= p)
            BY <3>2, <4>2, Places, Commands DEF Apart
          <5>2. ~ ((p + x) - q \in 0 .. u - 1)
            <6> HIDE DEF p, w, v, q, b, u
            <6> QED  BY <2>1, <5>1
          <5> QED  BY <5>2 DEF Outside
        <4> QED  BY <4>1, <4>2
      <3> DEFINE a == p + x
      <3>3. \A l \in 1 .. len : Seg(file, l) => Outside(file, l, a)
        BY <3>2
      <3> HIDE DEF a
      <3>4. a \in 0 .. End
        <4> HIDE DEF p, top
        <4> QED  BY <3>1 DEF a
      <3>5. out[a] = m[a]
        BY <1>1, <3>3, <3>4 DEF MappedUpTo
      <3>6. m[a] = K!Zero
        BY <3>1 DEF Ready, a
      <3> QED  BY <2>3, <3>5, <3>6 DEF Unit, a
    <2> QED  BY <2>2, <2>3
  <1>3. ASSUME d.base # 0 PROVE DiskAt(d, out, d.base)
    <2> SUFFICES ASSUME NEW x \in 0 .. d.size - 1 PROVE out[d.base + x] = K!DiskUnit(x)
      BY DEF DiskAt
    <2> DEFINE b == d.base
               z == d.size
               top == KernelTop(file)
               a == b + x
    <2>1. b \in Nat /\ z \in Nat /\ b + z <= End + 1 /\ x \in 0 .. z - 1 /\ top <= b
          /\ End \in Nat /\ top \in Nat
      BY <1>3, Limits
    <2>2. m[a] = K!DiskUnit(x)
      BY <1>3 DEF Ready, DiskAt
    <2> HIDE DEF b, z, top
    <2>3. a \in 0 .. End /\ top <= a /\ a \in Nat
      BY <2>1
    <2> HIDE DEF a
    <2>4. ASSUME NEW l \in 1 .. len, Seg(file, l) PROVE Outside(file, l, a)
      <3> DEFINE q == Place(file, l)
                 s == file.commands[l].vmsize
                 u == file.commands[l].filesize
      <3>1. q \in Nat /\ s \in Nat /\ u \in Nat /\ u <= s /\ q + s <= top
        BY <2>4, Places, Commands DEF top
      <3> HIDE DEF q, s, u
      <3>2. ~ (a - q \in 0 .. u - 1)
        BY <2>1, <2>3, <3>1
      <3> QED  BY <3>2 DEF Outside, q, u
    <2>5. out[a] = m[a]
      BY <1>1, <2>3, <2>4 DEF MappedUpTo
    <2> QED  BY <2>2, <2>5 DEF a, b
  <1> QED  BY <1>1, <1>2, <1>3 DEF out

\* The thread's first instruction: the last thread command counts.
LEMMA Entry ==
    ASSUME NEW file \in Kernels
    PROVE  /\ K!Physical(K!EntryPoint(file)) \in 0 .. End
           /\ K!vtophys(K!EntryPoint(file)) = K!Physical(K!EntryPoint(file))
  <1> DEFINE threads == {n \in DOMAIN file.commands : file.commands[n].cmd = "thread"}
             last == CHOOSE n \in threads : \A other \in threads : other <= n
             len == Len(file.commands)
             S == {k \in 0 .. len : len - k \in threads}
  <1>1. len \in Nat /\ threads \subseteq 1 .. len /\ threads # {}
    BY Commands, KernelAssumption
  <1>2. PICK m \in S : \A k \in S : m <= k
    <2>1. S \in SUBSET Nat
      BY <1>1
    <2>2. S # {}
      <3>1. PICK n \in threads : TRUE
        BY <1>1
      <3> HIDE DEF threads, len
      <3>2. len - n \in 0 .. len /\ len - (len - n) = n
        BY <1>1
      <3> QED  BY <3>1, <3>2
    <2> HIDE DEF S
    <2> QED  BY <2>1, <2>2, LeastNat
  <1>3. len - m \in threads /\ \A other \in threads : other <= len - m
    <2>1. ASSUME NEW other \in threads PROVE other <= len - m
      <3> HIDE DEF threads, len
      <3>1. len - other \in S
        <4>1. len - other \in 0 .. len /\ len - (len - other) = other
          BY <1>1
        <4> QED  BY <4>1
      <3>2. m \in Nat /\ other \in Nat
        BY <1>1, <1>2
      <3>3. m <= len - other
        <4> HIDE DEF S
        <4> QED  BY <1>2, <3>1
      <3> QED  BY <1>1, <3>2, <3>3
    <2> QED  BY <1>2, <2>1
  <1>4. last \in threads
    <2> HIDE DEF threads, len
    <2> QED  BY <1>3
  <1>5. K!EntryPoint(file) = file.commands[last].pc
    BY DEF K!EntryPoint
  <1> HIDE DEF last
  <1>6. /\ last \in 1 .. len /\ file.commands[last].cmd = "thread"
        /\ file.commands[last].pc - virtBase \in 0 .. End
    BY <1>1, <1>4, KernelAssumption
  <1>7. file.commands[last].pc \in Nat
    <2>1. file.commands[last] \in LoadCommands
      BY <1>6, Commands
    <2> QED  BY <1>6, <2>1 DEF LoadCommands
  <1> DEFINE pc == file.commands[last].pc
  <1>8. (pc - (virtBase + Page)) + Page = pc - virtBase
    <2> HIDE DEF pc
    <2>1. virtBase \in Nat /\ Page \in Nat /\ pc \in Nat
      BY <1>7, SizeAssumption DEF pc
    <2> QED  BY <2>1
  <1> QED  BY <1>5, <1>6, <1>8 DEF K!Physical, K!vtophys, K!KERNEL_VMADDR

TreeAt(m, to, length) == \A x \in 0 .. length - 1 : m[to + x] = K!TreeUnit(x)

ArgsAt(m, to) == \A x \in 0 .. ArgsSize - 1 : m[to + x] = K!ArgsUnit

\* prepare_devicetree_stage2: the ramdisk, then the tree.
LEMMA DiskIn ==
    ASSUME NEW file \in Kernels, NEW d \in Ramdisks, NEW m \in [0 .. End -> Units],
           Whole(file, m), d.base # 0, DiskAt(d, m, d.base),
           NEW to \in Nat, KernelTop(file) <= to, to + d.size <= End
    PROVE  /\ K!Copied(m, d.base, to, d.size) \in [0 .. End -> Units]
           /\ Whole(file, K!Copied(m, d.base, to, d.size))
           /\ DiskAt(d, K!Copied(m, d.base, to, d.size), to)
  <1> DEFINE b == d.base
             z == d.size
             out == K!Copied(m, b, to, z)
  <1>1. /\ b \in Nat /\ z \in Nat /\ End \in Nat /\ b + z <= End + 1 /\ to + z <= End
    BY Limits
  <1> HIDE DEF b, z
  <1>2. to + z <= End + 1
    BY <1>1
  <1>3. out \in [0 .. End -> Units] /\ Carried(m, out, b, to, z) /\ Kept(m, out, to, z)
    BY <1>1, <1>2, Moved
  <1> HIDE DEF out
  <1>4. Whole(file, out)
    BY <1>1, <1>3, WholeKept
  <1>5. DiskAt(d, out, to)
    BY <1>3 DEF DiskAt, Carried, b, z
  <1> QED  BY <1>3, <1>4, <1>5 DEF out, b, z

LEMMA TreeIn ==
    ASSUME NEW m \in [0 .. End -> Units], NEW to \in Nat, NEW length \in Nat, End \in Nat,
           to + length <= End + 1
    PROVE  /\ K!Put(m, to, length, K!TreeUnit) \in [0 .. End -> Units]
           /\ TreeAt(K!Put(m, to, length, K!TreeUnit), to, length)
           /\ Kept(m, K!Put(m, to, length, K!TreeUnit), to, length)
  <1> DEFINE f == [x \in 0 .. length - 1 |-> K!TreeUnit(x)]
             out == K!Put(m, to, length, K!TreeUnit)
  <1>1. out = Overlay(m, f, to, length)
    BY DEF K!Put, Overlay
  <1>2. f \in [0 .. length - 1 -> Units]
    BY UnitTypes
  <1>3. \A x \in 0 .. length - 1 : f[x] = K!TreeUnit(x)
    OBVIOUS
  <1> HIDE DEF f, out
  <1>4. out \in [0 .. End -> Units] /\ Filled(f, out, to, length) /\ Kept(m, out, to, length)
    BY <1>1, <1>2, Written
  <1> QED  BY <1>3, <1>4 DEF Filled, TreeAt, out

LEMMA ArgsIn ==
    ASSUME NEW m \in [0 .. End -> Units], NEW to \in Nat, ArgsSize \in Nat, End \in Nat,
           to + ArgsSize <= End + 1
    PROVE  /\ K!Put(m, to, ArgsSize, LAMBDA k : K!ArgsUnit) \in [0 .. End -> Units]
           /\ ArgsAt(K!Put(m, to, ArgsSize, LAMBDA k : K!ArgsUnit), to)
           /\ Kept(m, K!Put(m, to, ArgsSize, LAMBDA k : K!ArgsUnit), to, ArgsSize)
  <1> DEFINE f == [x \in 0 .. ArgsSize - 1 |-> K!ArgsUnit]
             out == K!Put(m, to, ArgsSize, LAMBDA k : K!ArgsUnit)
  <1>1. out = Overlay(m, f, to, ArgsSize)
    BY DEF K!Put, Overlay
  <1>2. f \in [0 .. ArgsSize - 1 -> Units]
    BY UnitTypes
  <1>3. \A x \in 0 .. ArgsSize - 1 : f[x] = K!ArgsUnit
    OBVIOUS
  <1> HIDE DEF f, out
  <1>4. out \in [0 .. End -> Units] /\ Filled(f, out, to, ArgsSize) /\ Kept(m, out, to, ArgsSize)
    BY <1>1, <1>2, Written
  <1> QED  BY <1>3, <1>4 DEF Filled, ArgsAt, out

LEMMA TreeKept ==
    ASSUME NEW m, NEW out, NEW to \in Nat, NEW bytes \in Nat, NEW at \in Nat, NEW length \in Nat,
           End \in Nat, TreeAt(m, at, length), Kept(m, out, to, bytes),
           at + length <= to, at + length <= End + 1
    PROVE  TreeAt(out, at, length)
  <1> SUFFICES ASSUME NEW x \in 0 .. length - 1 PROVE out[at + x] = K!TreeUnit(x)
    BY DEF TreeAt
  <1> DEFINE a == at + x
  <1>1. a \in 0 .. End /\ ~ (a - to \in 0 .. bytes - 1)
    <2>1. at + x \in 0 .. End /\ ~ ((at + x) - to \in 0 .. bytes - 1)
      OBVIOUS
    <2> QED  BY <2>1
  <1>2. m[a] = K!TreeUnit(x)
    BY DEF TreeAt
  <1> HIDE DEF a
  <1>3. out[a] = m[a]
    BY <1>1 DEF Kept
  <1> QED  BY <1>2, <1>3 DEF a

-----------------------------------------------------------------------------
(* The stages *)

Tree == deviceTreeP - virtBase

\* What the kernel is handed lies one behind the other: the kernel, the
\* ramdisk, the tree.
Reserved ==
    /\ Whole(kernel, dram) /\ kernel_entrypoint = K!Physical(K!EntryPoint(kernel))
    /\ deviceTreeLength \in Nat /\ Tree \in Nat /\ KernelTop(kernel) <= Tree
    /\ TreeAt(dram, Tree, deviceTreeLength)
    /\ disk.base # 0 => \E range \in K!Range(ranges) : range.length = disk.size /\ DiskAt(disk, dram, range.start)
    /\ \A range \in K!Range(ranges) : range.start \in Nat /\ range.length = disk.size /\ range.start + range.length <= Tree

Given(m) == disk.base # 0 => DiskAt(disk, m, disk.base)

Stages == {"bootx", "cleared", "kernel", "tree", "stage2", "jumped", "panicked"}

LayoutInv ==
    /\ kernel \in Kernels /\ disk \in Ramdisks /\ dram \in [0 .. End -> Units]
    /\ step \in Stages /\ pos \in 0 .. End /\ kernel_entrypoint \in 0 .. End
    /\ step = "bootx" => ranges = <<>> /\ FileAt(kernel, dram) /\ Given(dram)
    /\ step = "cleared" => pos = Page /\ ranges = <<>> /\ Ready(kernel, disk, dram)
    /\ step \in {"kernel", "tree"} =>
          /\ pos = KernelTop(kernel) /\ ranges = <<>>
          /\ Whole(kernel, dram) /\ Given(dram)
          /\ kernel_entrypoint = K!Physical(K!EntryPoint(kernel))
    /\ step = "stage2" =>
          /\ Reserved /\ pos = Tree + deviceTreeLength
          /\ pos + ArgsAlign + ArgsSize <= End
    /\ step = "jumped" =>
          /\ Reserved /\ ArgsAt(dram, args)
          /\ topOfKernelData \in Nat /\ Tree + deviceTreeLength <= topOfKernelData

LEMMA LayoutInit == K!Init => LayoutInv
  <1> SUFFICES ASSUME K!Init PROVE LayoutInv
    OBVIOUS
  <1>1. /\ kernel \in Kernels /\ disk \in Ramdisks /\ step = "bootx"
        /\ dram = K!InitialMemory(kernel, disk) /\ pos = 0 /\ kernel_entrypoint = 0 /\ ranges = <<>>
    BY DEF K!Init
  <1>2. /\ dram \in [0 .. End -> Units] /\ FileAt(kernel, dram) /\ Given(dram)
    BY <1>1, Initially DEF Given
  <1>3. 0 \in 0 .. End
    BY SizeAssumption
  <1> QED  BY <1>1, <1>2, <1>3 DEF LayoutInv, Stages

LEMMA StartDarwin == LayoutInv /\ K!start_darwin => LayoutInv'
  <1> SUFFICES ASSUME LayoutInv, K!start_darwin PROVE LayoutInv'
    OBVIOUS
  <1>1. /\ kernel \in Kernels /\ disk \in Ramdisks /\ dram \in [0 .. End -> Units]
        /\ ranges = <<>> /\ FileAt(kernel, dram) /\ Given(dram) /\ kernel_entrypoint \in 0 .. End
    BY DEF LayoutInv, K!start_darwin
  <1>2. /\ kernel' = kernel /\ disk' = disk /\ step' = "cleared" /\ pos' = Page /\ ranges' = ranges
        /\ dram' = K!Put(dram, 0, ZeroSize, LAMBDA k : K!Zero)
        /\ kernel_entrypoint' = kernel_entrypoint
    BY DEF K!start_darwin
  <1>3. dram' \in [0 .. End -> Units] /\ Ready(kernel, disk, dram')
    BY <1>1, <1>2, Clears DEF Given
  <1>4. Page \in 0 .. End
    <2>1. /\ KernelTop(kernel) \in Nat /\ Page <= KernelTop(kernel) /\ KernelTop(kernel) <= End
          /\ Page \in Nat /\ End \in Nat
      BY <1>1, Limits, SizeAssumption
    <2> QED  BY <2>1
  <1> QED  BY <1>1, <1>2, <1>3, <1>4 DEF LayoutInv, Stages

LEMMA PrepareKernel == LayoutInv /\ K!prepare_kernel => LayoutInv'
  <1> SUFFICES ASSUME LayoutInv, K!prepare_kernel PROVE LayoutInv'
    OBVIOUS
  <1>1. /\ kernel \in Kernels /\ disk \in Ramdisks /\ dram \in [0 .. End -> Units]
        /\ ranges = <<>> /\ Ready(kernel, disk, dram) /\ kernel_entrypoint \in 0 .. End
        /\ pos = Page /\ pos \in 0 .. End
    BY DEF LayoutInv, K!prepare_kernel
  <1>2. kernel' = kernel /\ disk' = disk /\ ranges' = ranges
    BY DEF K!prepare_kernel
  <1>3. CASE K!Panic
    BY <1>1, <1>2, <1>3 DEF K!Panic, LayoutInv, Stages
  <1>4. CASE ~ K!Panic
    <2>1. /\ dram' = K!FileMapped(dram, kernel, K!Start(pos, 0))
          /\ pos' = K!After(pos, K!VmSize(kernel), 0)
          /\ kernel_entrypoint' = K!vtophys(K!EntryPoint(kernel))
          /\ step' = "kernel"
      BY <1>4 DEF K!prepare_kernel
    <2>2. dram' = K!FileMapped(dram, kernel, Page) /\ pos' = KernelTop(kernel)
      BY <1>1, <2>1 DEF K!Start, K!After, KernelTop
    <2>3. dram' \in [0 .. End -> Units] /\ Whole(kernel, dram') /\ Given(dram)'
      BY <1>1, <1>2, <2>2, KernelIn DEF Given
    <2>4. KernelTop(kernel) \in 0 .. End
      <3>1. KernelTop(kernel) \in Nat /\ KernelTop(kernel) <= End /\ End \in Nat
        BY <1>1, Limits
      <3> QED  BY <3>1
    <2>5. kernel_entrypoint' = K!Physical(K!EntryPoint(kernel)) /\ kernel_entrypoint' \in 0 .. End
      BY <1>1, <2>1, Entry
    <2> QED  BY <1>1, <1>2, <2>1, <2>2, <2>3, <2>4, <2>5 DEF LayoutInv, Stages
  <1> QED  BY <1>3, <1>4

LEMMA PrepareTree == LayoutInv /\ K!prepare_devicetree => LayoutInv'
  BY DEF LayoutInv, K!prepare_devicetree, Given, Stages

LEMMA Handover == LayoutInv => K!TypeOK /\ K!KernelWhole /\ K!HandedOver /\ K!TopAbove
  <1> SUFFICES ASSUME LayoutInv PROVE K!TypeOK /\ K!KernelWhole /\ K!HandedOver /\ K!TopAbove
    OBVIOUS
  <1>1. K!TypeOK
    <2>1. dram \in [0 .. End -> Units] /\ DOMAIN dram = 0 .. End
      BY DEF LayoutInv
    <2>2. dram \in [0 .. End -> K!Range(dram)]
      BY <2>1 DEF K!Range
    <2> QED  BY <2>2 DEF LayoutInv, K!TypeOK, Stages
  <1>2. CASE step # "jumped"
    BY <1>1, <1>2 DEF K!KernelWhole, K!HandedOver, K!TopAbove
  <1>3. CASE step = "jumped"
    <2>1. Reserved /\ ArgsAt(dram, args) /\ kernel \in Kernels /\ disk \in Ramdisks
          /\ topOfKernelData \in Nat /\ Tree + deviceTreeLength <= topOfKernelData
      BY <1>3 DEF LayoutInv
    <2>2. K!KernelWhole
      <3>1. ASSUME NEW s \in K!Segments(kernel), NEW k \in 0 .. End, k < s.vmsize
            PROVE  dram[K!Physical(s.vmaddr) + k] =
                      IF k < s.filesize THEN K!FileUnit(s.fileoff + k) ELSE K!Zero
        <4>1. PICK n \in 1 .. Len(kernel.commands) : Seg(kernel, n) /\ s = kernel.commands[n]
          BY <2>1, Commands
        <4>2. k \in 0 .. kernel.commands[n].vmsize - 1
          <5> DEFINE v == kernel.commands[n].vmsize
          <5>1. v \in Nat /\ k < v /\ k \in Nat
            BY <2>1, <3>1, <4>1, Commands, SizeAssumption
          <5> HIDE DEF v
          <5>2. k \in 0 .. v - 1
            BY <5>1
          <5> QED  BY <5>2 DEF v
        <4>3. dram[Place(kernel, n) + k] = Unit(kernel, n, k)
          BY <2>1, <4>1, <4>2 DEF Reserved, Whole
        <4> QED  BY <4>1, <4>3 DEF Unit, Place, K!Physical
      <3> QED  BY <2>1, <3>1 DEF K!KernelWhole, Reserved
    <2>3. K!HandedOver
      <3>1. ASSUME disk.base # 0
            PROVE  \E range \in K!Range(ranges) :
                      range.length = disk.size /\ \A k \in 0 .. range.length - 1 : dram[range.start + k] = K!DiskUnit(k)
        BY <2>1, <3>1 DEF Reserved, DiskAt
      <3> QED  BY <2>1, <3>1 DEF K!HandedOver, K!Physical, Reserved, Tree, TreeAt, ArgsAt
    <2>4. K!TopAbove
      <3> DEFINE tree == Tree
                 top == KernelTop(kernel)
      <3>1. tree \in Nat /\ deviceTreeLength \in Nat /\ topOfKernelData \in Nat /\ top <= tree
            /\ tree + deviceTreeLength <= topOfKernelData /\ top \in Nat
        BY <2>1, Limits DEF Reserved
      <3>2. topOfKernelData >= K!Physical(deviceTreeP) + deviceTreeLength
        <4> HIDE DEF tree, top
        <4>1. topOfKernelData >= tree + deviceTreeLength
          BY <3>1
        <4> QED  BY <4>1 DEF tree, Tree, K!Physical
      <3>3. ASSUME NEW range \in K!Range(ranges) PROVE topOfKernelData >= range.start + range.length
        <4> DEFINE a == range.start
                   z == range.length
        <4>1. a \in Nat /\ z \in Nat /\ a + z <= tree
          BY <2>1, Limits DEF Reserved
        <4> HIDE DEF tree, top, a, z
        <4>2. topOfKernelData >= a + z
          BY <3>1, <4>1
        <4> QED  BY <4>2 DEF a, z
      <3>4. ASSUME NEW s \in K!Segments(kernel) PROVE topOfKernelData >= K!Physical(s.vmaddr) + s.vmsize
        <4>1. PICK n \in 1 .. Len(kernel.commands) : Seg(kernel, n) /\ s = kernel.commands[n]
          BY <2>1, Commands
        <4> DEFINE p == Place(kernel, n)
                   v == kernel.commands[n].vmsize
        <4>2. p \in Nat /\ v \in Nat /\ p + v <= top
          BY <2>1, <4>1, Places, Commands
        <4> HIDE DEF tree, top, p, v
        <4>3. topOfKernelData >= p + v
          BY <3>1, <4>2
        <4> QED  BY <4>1, <4>3 DEF p, v, Place, K!Physical
      <3> QED  BY <3>2, <3>3, <3>4 DEF K!TopAbove
    <2> QED  BY <1>1, <2>2, <2>3, <2>4
  <1> QED  BY <1>2, <1>3

LEMMA PrepareStage2 == LayoutInv /\ K!prepare_devicetree_stage2 => LayoutInv'
  <1> SUFFICES ASSUME LayoutInv, K!prepare_devicetree_stage2 PROVE LayoutInv'
    OBVIOUS
  <1> DEFINE given == disk.base # 0
             top == KernelTop(kernel)
             z == disk.size
             to == K!Start(pos, RamdiskAlign)
             copied == IF given THEN K!Copied(dram, disk.base, to, z) ELSE dram
             behind == IF given THEN K!After(pos, z, RamdiskAlign) ELSE pos
             length == TreeLength + (IF given THEN 1 ELSE 0)
             out == K!Put(copied, behind, length, K!TreeUnit)
  <1>1. /\ kernel \in Kernels /\ disk \in Ramdisks /\ dram \in [0 .. End -> Units]
        /\ ranges = <<>> /\ Whole(kernel, dram) /\ Given(dram) /\ kernel_entrypoint \in 0 .. End
        /\ kernel_entrypoint = K!Physical(K!EntryPoint(kernel)) /\ pos = top
    BY DEF LayoutInv, K!prepare_devicetree_stage2
  <1>2. /\ kernel' = kernel /\ disk' = disk /\ step' = "stage2" /\ kernel_entrypoint' = kernel_entrypoint
        /\ ranges' = IF given THEN K!AllocateMemoryRange(to, z) ELSE ranges
        /\ dram' = K!Put(copied, K!Start(behind, 0), length, K!TreeUnit)
        /\ pos' = K!After(behind, length, 0)
        /\ deviceTreeLength' = length /\ deviceTreeP' = behind + virtBase
    BY DEF K!prepare_devicetree_stage2
  <1>3. /\ top \in Nat /\ z \in Nat /\ End \in Nat /\ TreeLength \in Nat /\ ArgsAlign \in Nat
        /\ ArgsSize \in Nat /\ RamdiskAlign \in Nat /\ virtBase \in Nat
        /\ top + RamdiskAlign + z + TreeLength + 1 + ArgsAlign + ArgsSize <= End
    BY <1>1, Room
  <1>4. to \in Nat /\ top <= to /\ to <= top + RamdiskAlign
    <2> HIDE DEF top
    <2> QED  BY <1>1, <1>3, StartBounds
  <1>5. K!Start(behind, 0) = behind /\ K!After(behind, length, 0) = behind + length
    BY DEF K!Start, K!After
  <1>6. given => behind = to + z
    BY DEF K!After
  <1>7. /\ behind \in Nat /\ top <= behind /\ behind <= top + RamdiskAlign + z
        /\ given => to + z <= behind
    <2> HIDE DEF top, z, to, behind, given
    <2>1. CASE given
      BY <1>3, <1>4, <1>6, <2>1
    <2>2. CASE ~ given
      <3>1. behind = top
        BY <1>1, <2>2 DEF behind
      <3> QED  BY <1>3, <2>2, <3>1
    <2> QED  BY <2>1, <2>2
  <1>8. length \in Nat /\ length <= TreeLength + 1
    BY <1>3
  <1>9. /\ copied \in [0 .. End -> Units] /\ Whole(kernel, copied)
        /\ given => DiskAt(disk, copied, to)
    <2>1. CASE given
      <3>1. to + disk.size <= End
        <4>1. to + z <= End
          <5> HIDE DEF top, z, to
          <5> QED  BY <1>3, <1>4
        <4> QED  BY <4>1
      <3>2. DiskAt(disk, dram, disk.base)
        BY <1>1, <2>1 DEF Given
      <3> HIDE DEF to
      <3> QED  BY <1>1, <1>4, <2>1, <3>1, <3>2, DiskIn
    <2>2. CASE ~ given
      BY <1>1, <2>2
    <2> QED  BY <2>1, <2>2
  <1>10. dram' = out /\ pos' = behind + length
    BY <1>2, <1>5
  <1> HIDE DEF top, z, to, copied, behind, length, given
  <1>11. behind + length <= End /\ behind + length \in 0 .. End
         /\ (behind + length) + ArgsAlign + ArgsSize <= End
    BY <1>3, <1>7, <1>8
  <1>12. /\ out \in [0 .. End -> Units] /\ TreeAt(out, behind, length)
         /\ Kept(copied, out, behind, length)
    <2>1. behind + length <= End + 1
      BY <1>3, <1>7, <1>8, <1>11
    <2> QED  BY <1>3, <1>7, <1>8, <1>9, <2>1, TreeIn
  <1> HIDE DEF out
  <1>13. Whole(kernel, out)
    BY <1>1, <1>7, <1>8, <1>9, <1>12, WholeKept DEF top
  <1>14. given => DiskAt(disk, out, to)
    <2>1. ASSUME given PROVE DiskAt(disk, out, to)
      <3>1. to + z <= behind /\ to + z <= End + 1
        BY <1>3, <1>4, <1>7, <2>1
      <3>2. to + disk.size <= behind /\ to + disk.size <= End + 1 /\ disk.size \in Nat
        BY <1>3, <3>1 DEF z
      <3> QED  BY <1>1, <1>3, <1>4, <1>7, <1>8, <1>9, <1>12, <2>1, <3>2, DiskKept
    <2> QED  BY <2>1
  <1>15. Tree' = behind
    BY <1>2, <1>3, <1>7 DEF Tree
  <1>16. /\ given => /\ \A range \in K!Range(ranges') : range = [start |-> to, length |-> z]
                     /\ [start |-> to, length |-> z] \in K!Range(ranges')
         /\ ~ given => K!Range(ranges') = {}
    <2>1. CASE given
      <3>1. ranges' = Append(<<>>, [start |-> to, length |-> z])
        BY <1>1, <1>2, <2>1 DEF K!AllocateMemoryRange
      <3>2. ranges' = <<[start |-> to, length |-> z]>>
        BY <3>1
      <3> QED  BY <2>1, <3>2 DEF K!Range
    <2>2. CASE ~ given
      BY <1>1, <1>2, <2>2 DEF K!Range
    <2> QED  BY <2>1, <2>2
  <1>17. /\ disk'.base # 0 => \E range \in K!Range(ranges') : range.length = disk'.size /\ DiskAt(disk', dram', range.start)
         /\ \A range \in K!Range(ranges') : range.start \in Nat /\ range.length = disk'.size /\ range.start + range.length <= Tree'
    <2>1. CASE given
      BY <1>2, <1>4, <1>7, <1>10, <1>14, <1>15, <1>16, <2>1 DEF z
    <2>2. CASE ~ given
      BY <1>2, <1>16, <2>2 DEF given
    <2> QED  BY <2>1, <2>2
  <1>18. Reserved'
    BY <1>1, <1>2, <1>7, <1>8, <1>10, <1>12, <1>13, <1>15, <1>17 DEF Reserved, top
  <1> QED  BY <1>1, <1>2, <1>10, <1>11, <1>12, <1>15, <1>18 DEF LayoutInv, Stages

LEMMA PrepareArgs == LayoutInv /\ K!prepare_finalized_boot_args => LayoutInv'
  <1> SUFFICES ASSUME LayoutInv, K!prepare_finalized_boot_args PROVE LayoutInv'
    OBVIOUS
  <1> DEFINE to == K!Start(pos, ArgsAlign)
             top == KernelTop(kernel)
             out == K!Put(dram, to, ArgsSize, LAMBDA k : K!ArgsUnit)
  <1>1. /\ kernel \in Kernels /\ disk \in Ramdisks /\ dram \in [0 .. End -> Units]
        /\ Reserved /\ kernel_entrypoint \in 0 .. End /\ pos \in 0 .. End
        /\ pos = Tree + deviceTreeLength /\ pos + ArgsAlign + ArgsSize <= End
    BY DEF LayoutInv, K!prepare_finalized_boot_args
  <1>2. /\ kernel' = kernel /\ disk' = disk /\ step' = "jumped" /\ kernel_entrypoint' = kernel_entrypoint
        /\ ranges' = ranges /\ topOfKernelData' = K!Up(pos, TopAlign)
        /\ args' = to /\ pos' = to + ArgsSize /\ dram' = out
        /\ deviceTreeP' = deviceTreeP /\ deviceTreeLength' = deviceTreeLength
    BY DEF K!prepare_finalized_boot_args, K!After
  <1>3. /\ End \in Nat /\ ArgsAlign \in Nat \ {0} /\ ArgsSize \in Nat /\ TopAlign \in Nat \ {0}
        /\ top \in Nat /\ top <= End /\ pos \in Nat
    BY <1>1, SizeAssumption, Limits
  <1>4. to \in Nat /\ pos <= to /\ to <= pos + ArgsAlign
    BY <1>3, StartBounds
  <1>5. topOfKernelData' \in Nat /\ pos <= topOfKernelData'
    BY <1>2, <1>3, UpBounds
  <1> HIDE DEF to, top
  <1>6. to + ArgsSize <= End /\ to + ArgsSize <= End + 1 /\ to + ArgsSize \in 0 .. End
    BY <1>1, <1>3, <1>4
  <1>7. out \in [0 .. End -> Units] /\ ArgsAt(out, to) /\ Kept(dram, out, to, ArgsSize)
    BY <1>1, <1>3, <1>4, <1>6, ArgsIn
  <1> HIDE DEF out
  <1>8. Tree \in Nat /\ deviceTreeLength \in Nat /\ top <= Tree
    BY <1>1 DEF Reserved, top
  <1> DEFINE tree == Tree
  <1>9. top <= to /\ tree + deviceTreeLength <= to /\ tree + deviceTreeLength <= End + 1 /\ tree <= to
        /\ tree <= End
    <2>1. pos = tree + deviceTreeLength /\ tree \in Nat /\ top <= tree
      BY <1>1, <1>8
    <2> HIDE DEF tree
    <2> QED  BY <1>1, <1>3, <1>4, <1>8, <2>1
  <1>10. Whole(kernel, out)
    BY <1>1, <1>3, <1>4, <1>7, <1>9, WholeKept DEF Reserved, top
  <1>11. TreeAt(out, tree, deviceTreeLength)
    <2>1. TreeAt(dram, tree, deviceTreeLength) /\ tree \in Nat
      BY <1>1, <1>8 DEF Reserved
    <2> HIDE DEF tree
    <2> QED  BY <1>3, <1>4, <1>7, <1>8, <1>9, <2>1, TreeKept
  <1>12. ASSUME disk.base # 0
         PROVE  \E range \in K!Range(ranges) : range.length = disk.size /\ DiskAt(disk, out, range.start)
    <2>1. PICK range \in K!Range(ranges) : range.length = disk.size /\ DiskAt(disk, dram, range.start)
      BY <1>1, <1>12 DEF Reserved
    <2> DEFINE at == range.start
               z == disk.size
    <2>2. at \in Nat /\ z \in Nat /\ at + z <= tree
      BY <1>1, <2>1, Limits DEF Reserved
    <2>3. at + disk.size <= to /\ at + disk.size <= End + 1
      <3>1. tree \in Nat
        BY <1>8
      <3> HIDE DEF at, z, tree
      <3>2. at + z <= to /\ at + z <= End + 1
        BY <1>3, <1>4, <1>9, <2>2, <3>1
      <3> QED  BY <3>2 DEF z
    <2>4. DiskAt(disk, out, at)
      <3>1. DiskAt(disk, dram, at)
        BY <2>1
      <3> HIDE DEF at
      <3> QED  BY <1>1, <1>3, <1>4, <1>7, <2>2, <2>3, <3>1, DiskKept
    <2> QED  BY <2>1, <2>4
  <1>13. Reserved'
    <2>1. Tree' = Tree
      BY <1>2 DEF Tree
    <2> QED  BY <1>1, <1>2, <1>10, <1>11, <1>12, <2>1 DEF Reserved
  <1>14. Tree' + deviceTreeLength' <= topOfKernelData'
    <2>1. Tree' = Tree
      BY <1>2 DEF Tree
    <2> QED  BY <1>1, <1>2, <1>5, <2>1
  <1> QED  BY <1>1, <1>2, <1>5, <1>6, <1>7, <1>13, <1>14 DEF LayoutInv, Stages

LEMMA LayoutStep == LayoutInv /\ K!Next => LayoutInv'
  BY StartDarwin, PrepareKernel, PrepareTree, PrepareStage2, PrepareArgs DEF K!Next

LEMMA LayoutRests == LayoutInv /\ UNCHANGED layout => LayoutInv'
  BY DEF LayoutInv, layout, Given, Reserved, Tree

-----------------------------------------------------------------------------

\* machboot_main: at the prompt memory is mapped and the atags have been taken.
\* prepare_kernel and everything after it: for every kernel file whose segments
\* lie apart, the kernel is started with its segments, the ramdisk, the device
\* tree and the boot arguments whole, where it is told, below topOfKernelData.
THEOREM LoadersHandOver == MCSpec => []HandedOver
  <1> DEFINE Inv == (part = "flow" => FlowInv) /\ (part = "layout" => LayoutInv)
  <1>1. MCInit => Inv
    BY FlowInit, LayoutInit DEF MCInit
  <1>2. Inv /\ [MCNext]_all => Inv'
    <2> SUFFICES ASSUME Inv, [MCNext]_all PROVE Inv'
      OBVIOUS
    <2>1. part' = part
      BY DEF MCNext, all
    <2>2. ASSUME part = "flow" PROVE FlowInv'
      <3>1. B!Next \/ UNCHANGED flow
        BY <2>2 DEF MCNext, all
      <3> QED  BY <2>2, <3>1, FlowStep, FlowRests
    <2>3. ASSUME part = "layout" PROVE LayoutInv'
      <3>1. K!Next \/ UNCHANGED layout
        BY <2>3 DEF MCNext, all
      <3> QED  BY <2>3, <3>1, LayoutStep, LayoutRests
    <2> QED  BY <2>1, <2>2, <2>3
  <1>3. Inv => HandedOver
    BY FlowDone, Handover DEF HandedOver
  <1> QED  BY <1>1, <1>2, <1>3, PTL DEF MCSpec

-----------------------------------------------------------------------------
(* decompress_lzss *)

\* What a byte of the text, or of the ring, can be.
Texts == L!Bytes \union {Blank, Uninitialized}

\* The ring holds the last N bytes of the text out; at is where it goes on.
Ring(buf, at, out) ==
    /\ buf \in [0 .. L!N - 1 -> Texts] /\ at \in 0 .. L!N - 1 /\ out \in Seq(Texts)
    /\ \A n \in 1 .. L!N : buf[(at - n) % L!N] = Before(out, Len(out) + 1, n)

UnpackInv ==
    /\ next \in {"flags", "byte", "low", "high"}
    /\ i \in 0 .. Half * Half - 1
    /\ Ring(text_buf, r, dst)

\* The sizes: a ring has room for a match.
LEMMA RingSize ==
    /\ Half \in Nat \ {0} /\ THRESHOLD \in Nat /\ Half * Half \in Nat \ {0}
    /\ L!N \in Nat \ {0} /\ L!F \in Nat /\ L!F <= L!N /\ L!F = Half + THRESHOLD
  <1>1. Half \in Nat \ {0} /\ THRESHOLD \in Nat
    BY UnpackAssumption
  <1>2. Half * Half \in Nat \ {0}
    BY <1>1
  <1> DEFINE s == Half * Half
  <1>3. s * Half \in Nat \ {0}
    <2>1. s \in Nat \ {0}
      BY <1>2
    <2> HIDE DEF s
    <2> QED  BY <1>1, <2>1
  <1> QED  BY <1>1, <1>2, <1>3, UnpackAssumption DEF L!N, L!F

\* A position in a ring is wrapped around once at most.
Wrap(a, n) == a % n

LEMMA Wrapped ==
    ASSUME NEW n \in Nat \ {0}, NEW a \in Int, - n <= a, a <= 2 * n - 1
    PROVE  Wrap(a, n) = IF a < 0 THEN a + n ELSE IF a < n THEN a ELSE a - n
  BY DEF Wrap

\* Going on by one, and back again.
LEMMA BackOne ==
    ASSUME NEW n \in Nat \ {0}, NEW at \in 0 .. n - 1
    PROVE  Wrap(Wrap(at + 1, n) - 1, n) = at /\ Wrap(at + 1, n) \in 0 .. n - 1
  <1> DEFINE a == at + 1
             p == Wrap(a, n)
             q == p - 1
  <1>1. a \in Int /\ - n <= a /\ a <= 2 * n - 1
    OBVIOUS
  <1>2. p = IF a < 0 THEN a + n ELSE IF a < n THEN a ELSE a - n
    <2> HIDE DEF a
    <2> QED  BY <1>1, Wrapped
  <1> HIDE DEF p
  <1>3. p \in 0 .. n - 1 /\ q \in Int /\ - n <= q /\ q <= 2 * n - 1
    BY <1>2
  <1>4. Wrap(q, n) = IF q < 0 THEN q + n ELSE IF q < n THEN q ELSE q - n
    <2> HIDE DEF q
    <2> QED  BY <1>3, Wrapped
  <1>5. Wrap(q, n) = at
    BY <1>2, <1>4
  <1> QED  BY <1>3, <1>5 DEF p

LEMMA BackMore ==
    ASSUME NEW n \in Nat \ {0}, NEW at \in 0 .. n - 1, NEW d \in 2 .. n
    PROVE  /\ Wrap(Wrap(at + 1, n) - d, n) = Wrap(at - (d - 1), n)
           /\ Wrap(at - (d - 1), n) # at /\ Wrap(at - (d - 1), n) \in 0 .. n - 1
  <1> DEFINE a == at + 1
             p == Wrap(a, n)
             q == p - d
             b == at - (d - 1)
  <1>1. a \in Int /\ - n <= a /\ a <= 2 * n - 1
    OBVIOUS
  <1>2. p = IF a < 0 THEN a + n ELSE IF a < n THEN a ELSE a - n
    <2> HIDE DEF a
    <2> QED  BY <1>1, Wrapped
  <1> HIDE DEF p
  <1>3. /\ p \in 0 .. n - 1 /\ q \in Int /\ - n <= q /\ q <= 2 * n - 1
        /\ b \in Int /\ - n <= b /\ b <= 2 * n - 1
    BY <1>2
  <1>4. Wrap(q, n) = IF q < 0 THEN q + n ELSE IF q < n THEN q ELSE q - n
    <2> HIDE DEF q
    <2> QED  BY <1>3, Wrapped
  <1>5. Wrap(b, n) = IF b < 0 THEN b + n ELSE IF b < n THEN b ELSE b - n
    <2> HIDE DEF b
    <2> QED  BY <1>3, Wrapped
  <1>6. Wrap(q, n) = Wrap(b, n) /\ Wrap(b, n) # at /\ Wrap(b, n) \in 0 .. n - 1
    BY <1>2, <1>4, <1>5
  <1> QED  BY <1>6 DEF p

\* A position and a length of a match.
LEMMA Halves ==
    ASSUME NEW c \in L!Bytes, NEW p \in 0 .. Half * Half - 1
    PROVE  /\ p + (c \div Half) * (Half * Half) \in 0 .. L!N - 1
           /\ (c % Half) + THRESHOLD + 1 \in 1 .. L!F
           /\ c \in 0 .. Half * Half - 1
  <1> DEFINE q == c \div Half
             s == Half * Half
  <1>1. Half \in Nat \ {0} /\ s \in Nat \ {0} /\ c \in 0 .. s - 1 /\ THRESHOLD \in Nat
    BY RingSize DEF L!Bytes
  <1>2. q \in 0 .. Half - 1 /\ c % Half \in 0 .. Half - 1
    BY <1>1
  <1>3. q * s \in Nat /\ q * s <= (Half - 1) * s /\ (Half - 1) * s = Half * s - s
    <2> HIDE DEF q, s
    <2> QED  BY <1>1, <1>2
  <1>4. L!N = Half * s
    <2>1. Half * Half * Half = Half * (Half * Half)
      BY <1>1
    <2> QED  BY <2>1 DEF L!N
  <1> DEFINE qs == q * s
             hs == Half * s
  <1>5. p \in 0 .. s - 1 /\ qs \in Nat /\ qs <= hs - s /\ hs \in Nat
    BY <1>1, <1>3
  <1>6. p + qs \in 0 .. hs - 1
    <2> HIDE DEF s, qs, hs
    <2> QED  BY <1>1, <1>5
  <1>7. (c % Half) + THRESHOLD + 1 \in 1 .. Half + THRESHOLD
    BY <1>1, <1>2
  <1> QED  BY <1>1, <1>4, <1>6, <1>7 DEF L!F

\* t is s and one more byte.
Longer(s, c, t) ==
    /\ t \in Seq(Texts) /\ Len(t) = Len(s) + 1 /\ t[Len(s) + 1] = c
    /\ \A j \in 1 .. Len(s) : t[j] = s[j]

LEMMA Appended ==
    ASSUME NEW s \in Seq(Texts), NEW o \in Seq(Texts), NEW c \in Texts
    PROVE  Longer(s, c, Append(s, c)) /\ Longer(s \o o, c, s \o Append(o, c))
  BY DEF Longer

\* What was before does not change.
LEMMA BeforeKept ==
    ASSUME NEW s \in Seq(Texts), NEW c \in Texts, NEW t, Longer(s, c, t),
           NEW m \in Nat, m <= Len(s) + 1, NEW n \in Nat \ {0}
    PROVE  Before(t, m, n) = Before(s, m, n)
  <1>1. CASE m - n >= 1
    <2>1. m - n \in 1 .. Len(s)
      BY <1>1
    <2> QED  BY <1>1, <2>1 DEF Before, Longer
  <1>2. CASE ~ (m - n >= 1)
    BY <1>2 DEF Before
  <1> QED  BY <1>1, <1>2

\* One byte is written.
LEMMA RingStep ==
    ASSUME NEW buf, NEW at, NEW s, Ring(buf, at, s), NEW c \in Texts, NEW t, Longer(s, c, t)
    PROVE  Ring([buf EXCEPT ![at] = c], (at + 1) % L!N, t)
  <1> DEFINE ring == [buf EXCEPT ![at] = c]
             len == Len(s)
             size_of == L!N
             next_at == (at + 1) % size_of
  <1>1. size_of \in Nat \ {0} /\ at \in 0 .. size_of - 1 /\ s \in Seq(Texts) /\ len \in Nat
        /\ buf \in [0 .. size_of - 1 -> Texts]
    BY RingSize DEF Ring
  <1>2. ring \in [0 .. size_of - 1 -> Texts] /\ next_at \in 0 .. size_of - 1
    BY <1>1
  <1>3. ASSUME NEW n \in 1 .. size_of PROVE ring[(next_at - n) % size_of] = Before(t, Len(t) + 1, n)
    <2>1. CASE n = 1
      <3>1. (next_at - n) % size_of = at
        <4> HIDE DEF size_of
        <4>1. Wrap(Wrap(at + 1, size_of) - 1, size_of) = at
          BY <1>1, BackOne
        <4> QED  BY <2>1, <4>1 DEF Wrap
      <3>2. Before(t, Len(t) + 1, n) = c
        <4>1. Len(t) = len + 1 /\ t[len + 1] = c
          BY DEF Longer
        <4>2. Len(t) + 1 - n >= 1 /\ Len(t) + 1 - n = len + 1
          BY <1>1, <2>1, <4>1
        <4> QED  BY <4>1, <4>2 DEF Before
      <3> QED  BY <1>1, <3>1, <3>2
    <2>2. CASE n # 1
      <3>1. n - 1 \in 1 .. size_of /\ n - 1 \in 1 .. size_of - 1 /\ n - 1 \in Nat \ {0}
        BY <1>1, <2>2
      <3>2. (next_at - n) % size_of = (at - (n - 1)) % size_of /\ (at - (n - 1)) % size_of # at
            /\ (at - (n - 1)) % size_of \in 0 .. size_of - 1
        <4> HIDE DEF size_of
        <4>1. n \in 2 .. size_of
          BY <1>1, <3>1
        <4>2. /\ Wrap(Wrap(at + 1, size_of) - n, size_of) = Wrap(at - (n - 1), size_of)
              /\ Wrap(at - (n - 1), size_of) # at /\ Wrap(at - (n - 1), size_of) \in 0 .. size_of - 1
          BY <1>1, <4>1, BackMore
        <4> QED  BY <4>2 DEF Wrap
      <3>3. buf[(at - (n - 1)) % size_of] = Before(s, len + 1, n - 1)
        BY <3>1 DEF Ring
      <3>4. ring[(next_at - n) % size_of] = Before(s, len + 1, n - 1)
        <4> DEFINE p == (at - (n - 1)) % size_of
        <4>1. p \in 0 .. size_of - 1 /\ p # at /\ (next_at - n) % size_of = p
              /\ buf[p] = Before(s, len + 1, n - 1)
          BY <3>2, <3>3
        <4> HIDE DEF p, size_of, next_at
        <4> QED  BY <1>1, <4>1
      <3>5. Before(t, len + 1, n - 1) = Before(s, len + 1, n - 1)
        BY <1>1, <3>1, BeforeKept
      <3>6. Before(t, Len(t) + 1, n) = Before(t, len + 1, n - 1)
        <4>1. Len(t) = len + 1 /\ Len(t) + 1 - n = (len + 1) - (n - 1)
          BY <1>1, <3>1 DEF Longer
        <4> QED  BY <4>1 DEF Before
      <3> QED  BY <3>4, <3>5, <3>6
    <2> QED  BY <2>1, <2>2
  <1>4. t \in Seq(Texts)
    BY DEF Longer
  <1> HIDE DEF ring, next_at
  <1>5. Ring(ring, next_at, t)
    BY <1>2, <1>3, <1>4 DEF Ring
  <1> QED  BY <1>5 DEF ring, next_at

\* The bytes at a distance of the place where the text goes on.
Positions(n, at, from, j) ==
    /\ Wrap(at - from - 1, n) + 1 \in 1 .. n
    /\ Wrap(Wrap(at + j, n) - (Wrap(at - from - 1, n) + 1), n) = Wrap(from + j, n)
    /\ Wrap(Wrap(at + j, n) + 1, n) = Wrap(at + (j + 1), n)
    /\ Wrap(at + j, n) \in 0 .. n - 1

LEMMA Distance ==
    ASSUME NEW n \in Nat \ {0}, NEW at \in 0 .. n - 1, NEW from \in 0 .. n - 1, NEW j \in 0 .. n - 1
    PROVE  Positions(n, at, from, j)
  <1> DEFINE a == at + j
             p == Wrap(a, n)
             b == at - from - 1
             q == Wrap(b, n)
             c == from + j
             d == p - (q + 1)
             e == p + 1
             g == at + (j + 1)
  <1>1. /\ a \in Int /\ - n <= a /\ a <= 2 * n - 1 /\ b \in Int /\ - n <= b /\ b <= 2 * n - 1
        /\ c \in Int /\ - n <= c /\ c <= 2 * n - 1 /\ g \in Int /\ - n <= g /\ g <= 2 * n - 1
    OBVIOUS
  <1>2. p = IF a < 0 THEN a + n ELSE IF a < n THEN a ELSE a - n
    <2> HIDE DEF a
    <2> QED  BY <1>1, Wrapped
  <1>3. q = IF b < 0 THEN b + n ELSE IF b < n THEN b ELSE b - n
    <2> HIDE DEF b
    <2> QED  BY <1>1, Wrapped
  <1>4. Wrap(c, n) = IF c < 0 THEN c + n ELSE IF c < n THEN c ELSE c - n
    <2> HIDE DEF c
    <2> QED  BY <1>1, Wrapped
  <1>5. Wrap(g, n) = IF g < 0 THEN g + n ELSE IF g < n THEN g ELSE g - n
    <2> HIDE DEF g
    <2> QED  BY <1>1, Wrapped
  <1> HIDE DEF p, q
  <1>6. p \in 0 .. n - 1 /\ q \in 0 .. n - 1
    BY <1>2, <1>3
  <1>7. d \in Int /\ - n <= d /\ d <= 2 * n - 1 /\ e \in Int /\ - n <= e /\ e <= 2 * n - 1
    BY <1>6
  <1>8. Wrap(d, n) = IF d < 0 THEN d + n ELSE IF d < n THEN d ELSE d - n
    <2> HIDE DEF d
    <2> QED  BY <1>7, Wrapped
  <1>9. Wrap(e, n) = IF e < 0 THEN e + n ELSE IF e < n THEN e ELSE e - n
    <2> HIDE DEF e
    <2> QED  BY <1>7, Wrapped
  <1>10. q + 1 \in 1 .. n /\ Wrap(d, n) = Wrap(c, n)
    BY <1>2, <1>3, <1>4, <1>6, <1>8
  <1>11. Wrap(e, n) = Wrap(g, n)
    BY <1>2, <1>5, <1>6, <1>9
  <1> QED  BY <1>6, <1>10, <1>11 DEF Positions, p, q

\* k bytes of a match are copied.
Item == [buf : [0 .. L!N - 1 -> Texts], out : Seq(Texts)]

CopyStep(at, from, k, done) ==
    LET c == done.buf[(from + k - 1) % L!N]
    IN  [buf |-> [done.buf EXCEPT ![(at + k - 1) % L!N] = c], out |-> Append(done.out, c)]

Repeats(out, m, from, at) == out[m] = Before(out, m, ((at - from - 1) % L!N) + 1)

Part(text, at, from, k, done) ==
    /\ done \in Item /\ Len(done.out) = k
    /\ Ring(done.buf, Wrap(at + k, L!N), text \o done.out)
    /\ \A j \in 1 .. k : Repeats(text \o done.out, Len(text) + j, from, at)

LEMMA CopyTypes ==
    ASSUME NEW at \in 0 .. L!N - 1, NEW from \in 0 .. L!N - 1, NEW k \in Nat \ {0}, NEW done \in Item
    PROVE  CopyStep(at, from, k, done) \in Item
  <1> DEFINE c == done.buf[(from + k - 1) % L!N]
  <1>1. (from + k - 1) % L!N \in 0 .. L!N - 1
    BY RingSize
  <1>2. c \in Texts /\ done.out \in Seq(Texts) /\ done.buf \in [0 .. L!N - 1 -> Texts]
    BY <1>1 DEF Item
  <1> HIDE DEF c
  <1>3. Append(done.out, c) \in Seq(Texts) /\ [done.buf EXCEPT ![(at + k - 1) % L!N] = c] \in [0 .. L!N - 1 -> Texts]
    <2> DEFINE p == (at + k - 1) % L!N
    <2> HIDE DEF p
    <2>1. [done.buf EXCEPT ![p] = c] \in [0 .. L!N - 1 -> Texts]
      BY <1>2
    <2>2. Append(done.out, c) \in Seq(Texts)
      BY <1>2
    <2> QED  BY <2>1, <2>2 DEF p
  <1> QED  BY <1>3 DEF CopyStep, Item, c

LEMMA PartStep ==
    ASSUME NEW text \in Seq(Texts), NEW at \in 0 .. L!N - 1, NEW from \in 0 .. L!N - 1,
           NEW k \in 1 .. L!N, NEW done, Part(text, at, from, k - 1, done)
    PROVE  Part(text, at, from, k, CopyStep(at, from, k, done))
  <1> DEFINE n == L!N
             j == k - 1
             p == Wrap(at + j, n)
             d == Wrap(at - from - 1, n) + 1
             c == done.buf[(from + k - 1) % L!N]
             after == CopyStep(at, from, k, done)
             s == text \o done.out
             t == text \o after.out
             len == Len(text)
  <1>1. n \in Nat \ {0} /\ j \in 0 .. n - 1 /\ k \in 1 .. n /\ at \in 0 .. n - 1 /\ from \in 0 .. n - 1
    BY RingSize
  <1>2. /\ d \in 1 .. n /\ Wrap(p - d, n) = Wrap(from + j, n) /\ Wrap(p + 1, n) = Wrap(at + (j + 1), n)
        /\ p \in 0 .. n - 1
    <2>1. Positions(n, at, from, j)
      <3> HIDE DEF n, j
      <3> QED  BY <1>1, Distance
    <2> QED  BY <2>1 DEF Positions
  <1>3. done \in Item /\ Len(done.out) = j /\ Ring(done.buf, p, s)
        /\ \A l \in 1 .. j : Repeats(s, len + l, from, at)
    BY DEF Part
  <1>4. after \in Item
    BY <1>3, CopyTypes
  <1>5. /\ after.buf = [done.buf EXCEPT ![p] = c] /\ after.out = Append(done.out, c)
    BY DEF CopyStep, Wrap
  <1>6. c = done.buf[Wrap(p - d, n)]
    <2>1. (from + k - 1) % L!N = Wrap(from + j, n)
      BY DEF Wrap
    <2> QED  BY <1>2, <2>1
  <1>7. c \in Texts /\ done.out \in Seq(Texts) /\ s \in Seq(Texts) /\ Len(s) = len + j
    <2>1. Wrap(p - d, n) \in 0 .. n - 1
      BY <1>1, <1>2 DEF Wrap
    <2>2. done.buf \in [0 .. n - 1 -> Texts] /\ done.out \in Seq(Texts)
      BY <1>3 DEF Item
    <2>3. c \in Texts
      BY <1>6, <2>1, <2>2
    <2>4. s \in Seq(Texts) /\ Len(s) = Len(text) + Len(done.out)
      BY <2>2
    <2> QED  BY <1>3, <2>2, <2>3, <2>4
  <1>8. Longer(s, c, t)
    <2> HIDE DEF c, after
    <2> QED  BY <1>5, <1>7, Appended
  <1>9. c = Before(s, Len(s) + 1, d)
    BY <1>2, <1>3, <1>6 DEF Ring, Wrap
  <1> HIDE DEF n, p, d, c, after, s, t
  <1>10. Ring(after.buf, Wrap(p + 1, n), t)
    BY <1>3, <1>5, <1>7, <1>8, RingStep DEF Wrap, n
  <1>11. at + (j + 1) = at + k /\ Len(s) + 1 = len + k /\ len \in Nat /\ Len(s) \in Nat
    BY <1>1, <1>7
  <1>12. Len(after.out) = k
    BY <1>1, <1>3, <1>5, <1>7
  <1>13. ASSUME NEW l \in 1 .. k PROVE t[len + l] = Before(t, len + l, d)
    <2>1. len + l \in Nat /\ len + l <= Len(s) + 1 /\ d \in Nat \ {0}
      BY <1>1, <1>2, <1>11
    <2>2. Before(t, len + l, d) = Before(s, len + l, d)
      BY <1>7, <1>8, <2>1, BeforeKept
    <2>3. CASE l = k
      BY <1>8, <1>9, <1>11, <2>2, <2>3 DEF Longer
    <2>4. CASE l # k
      <3>1. l \in 1 .. j /\ len + l \in 1 .. Len(s)
        BY <1>1, <1>7, <1>11, <2>4
      <3>2. s[len + l] = Before(s, len + l, d)
        BY <1>3, <3>1 DEF Repeats, d, Wrap, n
      <3>3. t[len + l] = s[len + l]
        BY <1>8, <3>1 DEF Longer
      <3> QED  BY <2>2, <3>2, <3>3
    <2> QED  BY <2>3, <2>4
  <1>14. \A l \in 1 .. k : Repeats(t, len + l, from, at)
    BY <1>13 DEF Repeats, d, Wrap, n
  <1> QED  BY <1>2, <1>4, <1>10, <1>11, <1>12, <1>14 DEF Part, after, t, n

\* A whole match.
LEMMA Match ==
    ASSUME Ring(text_buf, r, dst), NEW from \in 0 .. L!N - 1, NEW count \in 1 .. L!F
    PROVE  Part(dst, r, from, count, L!Copied(from, count))
  <1> DEFINE first == [buf |-> text_buf, out |-> <<>>]
             f == [p \in (1 .. count) \X Item |-> CopyStep(r, from, p[1], p[2])]
             step_of == CHOOSE step_of : step_of = [k \in 0 .. count |->
                         IF k = 0 THEN [buf |-> text_buf, out |-> <<>>]
                         ELSE LET done == step_of[k - 1]
                                  c    == done.buf[(from + k - 1) % L!N]
                              IN  [buf |-> [done.buf EXCEPT ![(r + k - 1) % L!N] = c],
                                   out |-> Append(done.out, c)]]
  <1>1. /\ r \in 0 .. L!N - 1 /\ dst \in Seq(Texts) /\ text_buf \in [0 .. L!N - 1 -> Texts]
        /\ count \in Nat /\ count \in 1 .. L!N /\ L!N \in Nat \ {0} /\ \A k \in 1 .. count : k \in Nat \ {0}
    BY RingSize DEF Ring
  <1>2. first \in Item /\ Part(dst, r, from, 0, first)
    <2>1. first \in Item /\ first.buf = text_buf /\ first.out = <<>> /\ Len(first.out) = 0
      BY <1>1 DEF Item
    <2>2. dst \o first.out = dst
      BY <1>1, <2>1
    <2>3. Wrap(r + 0, L!N) = r
      <3>1. r + 0 = r /\ r \in Int /\ - L!N <= r /\ r <= 2 * L!N - 1 /\ ~ (r < 0) /\ r < L!N
        BY <1>1
      <3> QED  BY <1>1, <3>1, Wrapped
    <2> HIDE DEF first
    <2> QED  BY <1>1, <2>1, <2>2, <2>3 DEF Part
  <1>3. f \in [(1 .. count) \X Item -> Item]
    <2>1. \A p \in (1 .. count) \X Item : CopyStep(r, from, p[1], p[2]) \in Item
      BY <1>1, CopyTypes
    <2> QED  BY <2>1
  <1>4. PICK g : Loop(Item, first, count, f, g)
    <2> HIDE DEF f, first
    <2> QED  BY <1>1, <1>2, <1>3, Rounds
  <1>5. g \in [0 .. count -> Item] /\ g[0] = first /\ \A k \in 1 .. count : g[k] = f[<<k, g[k - 1]>>]
    <2> HIDE DEF f, first
    <2> QED  BY <1>4 DEF Loop
  <1>6. ASSUME NEW k \in 1 .. count PROVE g[k] = CopyStep(r, from, k, g[k - 1])
    <2>1. k - 1 \in 0 .. count
      BY <1>1
    <2>2. <<k, g[k - 1]>> \in (1 .. count) \X Item
      BY <1>5, <2>1
    <2> QED  BY <1>5, <2>2
  <1>7. g = [k \in 0 .. count |->
                IF k = 0 THEN [buf |-> text_buf, out |-> <<>>]
                ELSE LET done == g[k - 1]
                         c    == done.buf[(from + k - 1) % L!N]
                     IN  [buf |-> [done.buf EXCEPT ![(r + k - 1) % L!N] = c],
                          out |-> Append(done.out, c)]]
    <2>1. \A k \in 0 .. count : k = 0 \/ k \in 1 .. count
      BY <1>1
    <2> DEFINE h == [k \in 0 .. count |-> IF k = 0 THEN first ELSE CopyStep(r, from, k, g[k - 1])]
    <2>2. g = h
      <3> HIDE DEF f, first
      <3> QED  BY <1>5, <1>6, <2>1
    <2> QED  BY <2>2 DEF CopyStep
  <1>8. step_of = [k \in 0 .. count |->
                IF k = 0 THEN [buf |-> text_buf, out |-> <<>>]
                ELSE LET done == step_of[k - 1]
                         c    == done.buf[(from + k - 1) % L!N]
                     IN  [buf |-> [done.buf EXCEPT ![(r + k - 1) % L!N] = c],
                          out |-> Append(done.out, c)]]
    BY <1>7
  <1>9. step_of[0] = first /\ \A k \in 1 .. count : step_of[k] = CopyStep(r, from, k, step_of[k - 1])
    <2>0. step_of = [k \in 0 .. count |-> IF k = 0 THEN first ELSE CopyStep(r, from, k, step_of[k - 1])]
      <3> HIDE DEF step_of
      <3> QED  BY <1>8 DEF CopyStep
    <2> HIDE DEF step_of, first
    <2>1. 0 \in 0 .. count /\ \A k \in 1 .. count : k \in 0 .. count /\ k # 0
      BY <1>1
    <2>2. step_of[0] = first
      BY <2>0, <2>1
    <2>3. ASSUME NEW k \in 1 .. count PROVE step_of[k] = CopyStep(r, from, k, step_of[k - 1])
      BY <2>0, <2>1
    <2> QED  BY <2>2, <2>3
  <1>10. L!Copied(from, count) = step_of[count]
    BY DEF L!Copied
  <1>11. \A k \in 0 .. count : Part(dst, r, from, k, step_of[k])
    <2> DEFINE S == {k \in 0 .. count : Part(dst, r, from, k, step_of[k])}
    <2> HIDE DEF step_of, first, f
    <2>1. 0 \in S
      BY <1>1, <1>2, <1>9
    <2>2. ASSUME NEW k \in 1 .. count, k - 1 \in S PROVE k \in S
      <3>1. k \in 1 .. L!N /\ k \in 0 .. count
        BY <1>1
      <3>2. Part(dst, r, from, k - 1, step_of[k - 1])
        BY <2>2
      <3>3. Part(dst, r, from, k, CopyStep(r, from, k, step_of[k - 1]))
        BY <1>1, <3>1, <3>2, PartStep
      <3> QED  BY <1>9, <3>1, <3>3
    <2> HIDE DEF S
    <2>3. \A k \in 0 .. count : k \in S
      BY <1>1, <2>1, <2>2, Induction
    <2> QED  BY <2>3 DEF S
  <1> HIDE DEF step_of
  <1> QED  BY <1>1, <1>10, <1>11

LEMMA UnpackInit == L!Init => UnpackInv
  <1> SUFFICES ASSUME L!Init PROVE UnpackInv
    OBVIOUS
  <1> DEFINE n == L!N
             f == L!F
  <1>1. n \in Nat \ {0} /\ f \in Nat /\ f <= n /\ Half * Half \in Nat \ {0} /\ f \in Nat \ {0}
    BY RingSize
  <1>2. /\ next = "flags" /\ i = 0 /\ r = n - f /\ dst = <<>>
        /\ text_buf = [p \in 0 .. n - 1 |-> IF p < n - f THEN Blank ELSE Uninitialized]
    BY DEF L!Init
  <1> HIDE DEF n, f
  <1>3. text_buf \in [0 .. n - 1 -> Texts] /\ r \in 0 .. n - 1 /\ dst \in Seq(Texts) /\ Len(dst) = 0
    BY <1>1, <1>2 DEF Texts
  <1>4. ASSUME NEW k \in 1 .. n PROVE text_buf[(r - k) % n] = Before(dst, Len(dst) + 1, k)
    <2> DEFINE d == r - k
    <2>1. d \in Int /\ - n <= d /\ d <= 2 * n - 1 /\ d < n
      BY <1>1, <1>2
    <2>2. Wrap(d, n) = IF d < 0 THEN d + n ELSE d
      <3> HIDE DEF d
      <3> QED  BY <1>1, <2>1, Wrapped
    <2> DEFINE p == Wrap(d, n)
    <2>3. p \in 0 .. n - 1 /\ (p < n - f <=> 1 - k > f - n)
      BY <1>1, <1>2, <2>1, <2>2
    <2>4. Before(dst, Len(dst) + 1, k) = IF 1 - k > f - n THEN Blank ELSE Uninitialized
      BY <1>3 DEF Before, n, f
    <2> HIDE DEF p
    <2>5. text_buf[p] = Before(dst, Len(dst) + 1, k)
      BY <1>2, <2>3, <2>4
    <2> QED  BY <2>5 DEF p, Wrap
  <1>5. Ring(text_buf, r, dst)
    BY <1>3, <1>4 DEF Ring, n
  <1> QED  BY <1>1, <1>2, <1>5 DEF UnpackInv

\* What a step of the loop does, and what a match writes.
Wrote ==
    next = "high" /\ next' # "high" =>
        LET from     == i + (byte' \div Half) * (Half * Half)
            distance == ((r - from - 1) % L!N) + 1
        IN  /\ Len(dst') = Len(dst) + (byte' % Half) + THRESHOLD + 1
            /\ \A m \in Len(dst) + 1 .. Len(dst') :
                  dst'[m] = Before(dst', m, distance)

LEMMA UnpackStep == UnpackInv /\ UnpackNext => UnpackInv' /\ Wrote
  <1> SUFFICES ASSUME UnpackInv, UnpackNext PROVE UnpackInv' /\ Wrote
    OBVIOUS
  <1>0. Ring(text_buf, r, dst) /\ dst \in Seq(Texts) /\ r \in 0 .. L!N - 1 /\ i \in 0 .. Half * Half - 1
    BY DEF UnpackInv, Ring
  <1>1. CASE L!EndOfSource
    BY <1>1 DEF L!EndOfSource, UnpackInv, Ring, Wrote
  <1>2. CASE \E c \in L!Bytes : L!ReadByte(c) /\ byte' = c
    <2>1. PICK c \in L!Bytes : L!ReadByte(c) /\ byte' = c
      BY <1>2
    <2>2. c \in Texts /\ c \in 0 .. Half * Half - 1
      BY Halves, <1>0 DEF Texts
    <2>3. CASE L!ReadFlags(c)
      BY <2>3 DEF L!ReadFlags, L!Following, UnpackInv, Ring, Wrote
    <2>4. CASE L!Literal(c)
      <3>1. /\ next = "byte" /\ next' \in {"flags", "byte", "low"} /\ i' = i
            /\ dst' = Append(dst, c) /\ text_buf' = [text_buf EXCEPT ![r] = c] /\ r' = (r + 1) % L!N
        BY <2>4 DEF L!Literal, L!Following
      <3>2. Longer(dst, c, dst')
        BY <1>0, <2>2, <3>1, Appended
      <3>3. Ring(text_buf', r', dst')
        BY <1>0, <2>2, <3>1, <3>2, RingStep
      <3> QED  BY <1>0, <3>1, <3>3 DEF UnpackInv, Wrote
    <2>5. CASE L!MatchLow(c)
      BY <2>2, <2>5 DEF L!MatchLow, UnpackInv, Ring, Wrote
    <2>6. CASE L!MatchHigh(c)
      <3> DEFINE from == i + (c \div Half) * (Half * Half)
                 count == (c % Half) + THRESHOLD + 1
                 copied == L!Copied(from, count)
      <3>1. /\ next' \in {"flags", "byte", "low"} /\ i' = i
            /\ text_buf' = copied.buf /\ dst' = dst \o copied.out /\ r' = (r + count) % L!N
        BY <2>6 DEF L!MatchHigh, L!Following
      <3>2. from \in 0 .. L!N - 1 /\ count \in 1 .. L!F
        BY <1>0, Halves
      <3> HIDE DEF from, count
      <3>3. Part(dst, r, from, count, copied)
        BY <1>0, <3>2, Match
      <3> HIDE DEF copied
      <3>4. Ring(text_buf', r', dst') /\ Len(copied.out) = count /\ copied.out \in Seq(Texts)
        BY <3>1, <3>3 DEF Part, Wrap, Item
      <3>5. count \in Nat /\ Len(dst) \in Nat /\ Len(dst') = Len(dst) + count
        <4>1. Len(dst \o copied.out) = Len(dst) + Len(copied.out) /\ Len(dst) \in Nat
          BY <1>0, <3>4
        <4>2. count \in Nat
          BY <3>2, RingSize
        <4> QED  BY <3>1, <3>4, <4>1, <4>2
      <3>6. ASSUME NEW m \in Len(dst) + 1 .. Len(dst') PROVE Repeats(dst', m, from, r)
        <4>1. m - Len(dst) \in 1 .. count /\ Len(dst) + (m - Len(dst)) = m
          BY <3>5
        <4>2. Repeats(dst', Len(dst) + (m - Len(dst)), from, r)
          BY <3>1, <3>3, <4>1 DEF Part
        <4> QED  BY <4>1, <4>2
      <3>7. Wrote
        <4>1. Len(dst') = Len(dst) + (byte' % Half) + THRESHOLD + 1
          <5> DEFINE h == c % Half
          <5>1. h \in Nat /\ THRESHOLD \in Nat /\ count = h + THRESHOLD + 1
            BY RingSize, Halves, <1>0, <2>2 DEF count
          <5> HIDE DEF h
          <5>2. Len(dst) + count = Len(dst) + h + THRESHOLD + 1
            BY <3>5, <5>1
          <5> QED  BY <2>1, <3>5, <5>2 DEF h
        <4> QED  BY <2>1, <3>6, <4>1 DEF Wrote, Repeats, from
      <3> QED  BY <1>0, <3>1, <3>4, <3>7 DEF UnpackInv
    <2> QED  BY <2>1, <2>3, <2>4, <2>5, <2>6 DEF L!ReadByte
  <1> QED  BY <1>1, <1>2 DEF UnpackNext

LEMMA UnpackRests == UnpackInv /\ UNCHANGED unpack => UnpackInv'
  BY DEF UnpackInv, unpack, Ring

\* decompress_lzss, for bytes and rings of every size and texts of every length:
\* a match is the bytes at a distance before it, however the position wraps
\* around the ring.
THEOREM MatchesAreCopied == MCSpec => MatchesCopied
  <1>1. MCInit => UnpackInv
    BY UnpackInit DEF MCInit
  <1>2. UnpackInv /\ [MCNext]_all => UnpackInv'
    <2>1. [MCNext]_all => UnpackNext \/ UNCHANGED unpack
      BY DEF MCNext, all
    <2> QED  BY <2>1, UnpackStep, UnpackRests
  <1>3. UnpackInv /\ [MCNext]_all =>
          [part = "unpack" /\ next = "high" /\ next' # "high" =>
             LET from     == i + (byte' \div Half) * (Half * Half)
                 distance == ((r - from - 1) % L!N) + 1
             IN  /\ Len(dst') = Len(dst) + (byte' % Half) + THRESHOLD + 1
                 /\ \A m \in Len(dst) + 1 .. Len(dst') :
                       dst'[m] = Before(dst', m, distance)]_all
    <2> SUFFICES ASSUME UnpackInv, [MCNext]_all
                 PROVE  (part = "unpack" => Wrote) \/ UNCHANGED all
      BY DEF Wrote
    <2>1. UnpackNext \/ UNCHANGED unpack
      BY DEF MCNext, all
    <2>2. CASE UnpackNext
      BY <2>2, UnpackStep
    <2>3. CASE UNCHANGED unpack
      BY <2>3 DEF unpack, Wrote
    <2> QED  BY <2>1, <2>2, <2>3
  <1> QED  BY <1>1, <1>2, <1>3, PTL DEF MCSpec, MatchesCopied

-----------------------------------------------------------------------------
(* Adler32 *)

\* The values that the code has.
RealSizes == Byte = 256 /\ Modulus = 65521 /\ Between = 5000 /\ Word = 4294967296

\* The bytes added since the sums were reduced.
Since == IF cnt = 0 THEN 0 ELSE ((cnt - 1) % 5000) + 1

\* What the sums can be at most after that many bytes.
Bounded(lo, hi, n) ==
    /\ lo <= 65520 + 255 * n
    /\ 2 * hi <= 131040 + 131040 * n + 255 * (n * (n + 1))

AdlerInv ==
    /\ cnt \in Nat /\ lowHalf \in Nat /\ highHalf \in Nat
    /\ low = lowHalf % Modulus /\ high = highHalf % Modulus
    /\ Bounded(lowHalf, highHalf, Since)

\* A remainder may be taken before an addition or after it.
LEMMA ModSum ==
    ASSUME RealSizes, NEW a \in Nat, NEW b \in Nat
    PROVE  (a + b) % Modulus = ((a % Modulus) + b) % Modulus
  BY SMTT(30) DEF RealSizes

LEMMA ModNat == ASSUME RealSizes, NEW a \in Nat PROVE a % Modulus \in Nat
  BY SMTT(30) DEF RealSizes

\* How Since goes on: from 0 when the sums are reduced, by one otherwise.
LEMMA SinceStep ==
    ASSUME NEW n \in Nat
    PROVE  /\ (n % 5000) \in 0 .. 4999
           /\ n % 5000 # 0 => n # 0 /\ ((n - 1) % 5000) + 1 = n % 5000
  BY SMTT(30)

\* The quadratic part of the bound, from one byte to the next.
LEMMA Squares ==
    ASSUME NEW j \in 0 .. 4999
    PROVE  /\ (j + 1) * (j + 2) = j * (j + 1) + 2 * (j + 1)
           /\ (j + 1) * (j + 2) <= 25005000
           /\ j * (j + 1) \in Nat
  <1>1. (j + 1) * (j + 2) = j * (j + 1) + 2 * (j + 1)
    BY SMTT(30)
  <1>2. (j + 1) * (j + 2) <= 5000 * (j + 2)
    BY SMTT(30)
  <1>3. j * (j + 1) \in Nat
    BY SMTT(30)
  <1> QED  BY <1>1, <1>2, <1>3

\* Adding a byte to sums within their bounds keeps them there, below 2^32.
LEMMA BoundStep ==
    ASSUME RealSizes, NEW j \in 0 .. Between - 1, NEW lo \in Nat, NEW hi \in Nat, NEW c \in 0 .. 255,
           Bounded(lo, hi, j)
    PROVE  /\ Bounded(lo + c, hi + (lo + c), j + 1)
           /\ lo + c < Word /\ hi + (lo + c) < Word
  <1> DEFINE s == j * (j + 1)
             t == (j + 1) * (j + 2)
  <1>0. j \in 0 .. 4999
    BY DEF RealSizes
  <1>1. s \in Nat /\ t = s + 2 * (j + 1) /\ t <= 25005000
    BY ONLY <1>0, Squares, SMTT(30)
  <1>2. lo <= 65520 + 255 * j /\ 2 * hi <= 131040 + 131040 * j + 255 * s
    BY DEF Bounded
  <1>3. (j + 1) * ((j + 1) + 1) = t
    BY SMTT(30)
  <1> HIDE DEF s, t
  <1>4. 2 * (hi + (lo + c)) <= 131040 + 131040 * (j + 1) + 255 * t
    BY <1>1, <1>2
  <1>5. lo + c <= 65520 + 255 * (j + 1)
    BY <1>2
  <1>6. lo + c < Word /\ hi + (lo + c) < Word
    <2>1. lo + c <= 4294967295 /\ hi + (lo + c) <= 4294967295
      BY ONLY <1>0, <1>1, <1>4, <1>5, lo \in Nat, hi \in Nat, c \in 0 .. 255, SMTT(30)
    <2> QED  BY <2>1, SMT DEF RealSizes
  <1> QED  BY <1>3, <1>4, <1>5, <1>6 DEF Bounded

\* Every byte keeps the sums within their bounds and congruent, and neither
\* wraps.
LEMMA AdlerStep ==
    ASSUME RealSizes, AdlerInv, Next
    PROVE  /\ AdlerInv'
           /\ \E c \in 0 .. Byte - 1 : /\ lowHalf' = Reduced(lowHalf) + c
                                       /\ highHalf' = Reduced(highHalf) + lowHalf'
  <1>1. PICK c \in 0 .. 255 : Add(c)
    BY DEF Next, RealSizes
  <1> DEFINE j == cnt % Between
             lo == IF j = 0 THEN lowHalf % Modulus ELSE lowHalf
             hi == IF j = 0 THEN highHalf % Modulus ELSE highHalf
  <1>2. /\ j \in 0 .. Between - 1 /\ (j # 0 => Since = j) /\ Since' = j + 1
        /\ cnt' = cnt + 1 /\ cnt \in Nat
    <2>1. cnt \in Nat /\ cnt' = cnt + 1
      BY <1>1 DEF AdlerInv, Add
    <2> QED  BY <2>1, SinceStep DEF Since, RealSizes
  <1>3. lo \in Nat /\ hi \in Nat /\ lo % Modulus = low /\ hi % Modulus = high
    <2>1. lowHalf \in Nat /\ highHalf \in Nat /\ low = lowHalf % Modulus /\ high = highHalf % Modulus
      BY DEF AdlerInv
    <2> QED  BY <2>1, SMTT(30) DEF RealSizes
  <1>4. Bounded(lo, hi, j)
    <2>1. CASE j = 0
      <3>1. lo <= 65520 /\ hi <= 65520
        BY <2>1, SMT DEF AdlerInv, RealSizes
      <3> QED  BY <2>1, <3>1, <1>3, SMT DEF Bounded
    <2>2. CASE j # 0
      BY <2>2, <1>2 DEF AdlerInv
    <2> QED  BY <2>1, <2>2
  <1>5. lo = Reduced(lowHalf) /\ hi = Reduced(highHalf) /\ c \in 0 .. Byte - 1
    BY SMT DEF Reduced, RealSizes
  <1> HIDE DEF j, lo, hi
  <1>6. /\ lowHalf' = (lo + c) % Word /\ highHalf' = (hi + lowHalf') % Word
        /\ low' = (low + c) % Modulus /\ high' = (high + low') % Modulus
    BY <1>1, <1>5, SMT DEF Add
  <1>7. /\ Bounded(lo + c, hi + (lo + c), j + 1)
        /\ lo + c < Word /\ hi + (lo + c) < Word
    <2>1. RealSizes /\ j \in 0 .. Between - 1 /\ lo \in Nat /\ hi \in Nat /\ c \in 0 .. 255
      BY <1>2, <1>3
    <2> QED  BY ONLY <2>1, <1>4, BoundStep, Zenon
  <1>8. lowHalf' = lo + c /\ highHalf' = hi + (lo + c)
    <2>1. lo + c \in Nat /\ hi + (lo + c) \in Nat /\ Word \in Nat
      BY <1>3, SMT DEF RealSizes
    <2> QED  BY <1>6, <1>7, <2>1, SMTT(30)
  <1>9. low' = lowHalf' % Modulus
    <2>1. (lo + c) % Modulus = ((lo % Modulus) + c) % Modulus
      BY <1>3, c \in Nat, ModSum, SMTT(30)
    <2>2. lo % Modulus = low /\ low' = (low + c) % Modulus /\ lowHalf' = lo + c
      BY <1>3, <1>6, <1>8, Zenon
    <2> QED  BY <2>1, <2>2, Zenon
  <1>10. high' = highHalf' % Modulus
    <2>1. lowHalf' \in Nat /\ hi % Modulus \in Nat
      BY <1>3, <1>8, SMT DEF RealSizes
    <2>2. high' = ((hi % Modulus) + (lowHalf' % Modulus)) % Modulus
      BY <1>3, <1>6, <1>9, SMT
    <2>3. (hi + lowHalf') % Modulus = ((hi % Modulus) + lowHalf') % Modulus
      BY <1>3, <2>1, ModSum, SMTT(30)
    <2>4. (lowHalf' + (hi % Modulus)) % Modulus = ((lowHalf' % Modulus) + (hi % Modulus)) % Modulus
      BY <2>1, ModSum, SMTT(30)
    <2>5. lowHalf' % Modulus \in Nat
      BY <2>1, ModNat
    <2>6. /\ lowHalf' + (hi % Modulus) = (hi % Modulus) + lowHalf'
          /\ (lowHalf' % Modulus) + (hi % Modulus) = (hi % Modulus) + (lowHalf' % Modulus)
      BY <2>1, <2>5, SMT
    <2>7. highHalf' = hi + lowHalf'
      BY <1>8, SMT
    <2> QED  BY <2>2, <2>3, <2>4, <2>6, <2>7, Zenon
  <1>11. cnt' \in Nat /\ lowHalf' \in Nat /\ highHalf' \in Nat
    BY <1>2, <1>3, <1>8, SMT
  <1>12. AdlerInv'
    <2>1. Modulus' = Modulus
      OBVIOUS
    <2> QED  BY <1>2, <1>7, <1>8, <1>9, <1>10, <1>11, <2>1, SMT DEF AdlerInv
  <1>13. lowHalf' = Reduced(lowHalf) + c /\ highHalf' = Reduced(highHalf) + lowHalf'
    BY <1>5, <1>8, SMT
  <1> QED  BY <1>5, <1>12, <1>13, Zenon

\* The bounds hold from the beginning on.
LEMMA AdlerInductive ==
    ASSUME RealSizes
    PROVE  /\ Init => AdlerInv
           /\ AdlerInv /\ [Next]_vars => AdlerInv'
  <1>1. Init => AdlerInv
    BY SMT DEF Init, AdlerInv, Bounded, Since, RealSizes
  <1>2. AdlerInv /\ [Next]_vars => AdlerInv'
    <2> SUFFICES ASSUME AdlerInv, [Next]_vars PROVE AdlerInv'
      OBVIOUS
    <2>1. CASE Next
      BY <2>1, AdlerStep
    <2>2. CASE UNCHANGED vars
      BY <2>2, SMT DEF vars, AdlerInv, Since, Bounded
    <2> QED  BY <2>1, <2>2
  <1> QED  BY <1>1, <1>2

\* Adler32, for buffers of any length: the result is that of the definition,
\* whose sums are reduced at every byte.
THEOREM AdlerIsDefinition == ASSUME RealSizes PROVE Spec => []IsAdler
  <1>1. (Init => AdlerInv) /\ (AdlerInv /\ [Next]_vars => AdlerInv')
    BY AdlerInductive
  <1>2. AdlerInv => IsAdler
    BY DEF AdlerInv, IsAdler, Result
  <1> QED  BY <1>1, <1>2, PTL DEF Spec

\* Adler32, for buffers of any length: no addition exceeds 32 bits.
THEOREM AdlerNeverWraps == ASSUME RealSizes PROVE Spec => NeverWraps
  <1>1. (Init => AdlerInv) /\ (AdlerInv /\ [Next]_vars => AdlerInv')
    BY AdlerInductive
  <1>2. AdlerInv /\ [Next]_vars => [AddsWhole]_vars
    BY AdlerStep DEF AddsWhole
  <1> QED  BY <1>1, <1>2, PTL DEF Spec, NeverWraps
=============================================================================
