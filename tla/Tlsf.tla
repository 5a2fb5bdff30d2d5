------------------------------- MODULE Tlsf --------------------------------
(***************************************************************************)
(* The heap of the loader (lib/core/tlsf.c, malloc.c): two-level           *)
(* segregated free lists over one area of memory.                          *)
(*                                                                         *)
(* Sizes and addresses count words of four bytes.  A block is named by the *)
(* address of its header; the lists of free blocks, linked through the     *)
(* blocks, are sequences.  Requests stay below the sizes whose rounding    *)
(* overflows.  calloc, add_new_area and destroy_memory_pool have no caller.*)
(***************************************************************************)
EXTENDS Integers, FiniteSets, FiniteSetsExt, SequencesExt

CONSTANTS
    Owners,         \* who holds memory, one region each
    Requests,       \* the sizes asked for, in words
    Area,           \* words of the block that init_memory_pool frees
    FLI_OFFSET,     \* 6 in the code, 4 in words
    MAX_LOG2_SLI    \* 5

Align    == 2               \* BLOCK_ALIGN
Overhead == 2               \* BHDR_OVERHEAD
MinSize  == 2               \* MIN_BLOCK_SIZE
Header   == Overhead + MinSize    \* sizeof(bhdr_t)
MaxSli   == 2 ^ MAX_LOG2_SLI
Small    == 2 ^ (FLI_OFFSET + 1)  \* SMALL_BLOCK

\* Addresses have 32 bits, so words are less than 2^30.
ASSUME RequestsAssumption == Requests \subseteq 0 .. 2 ^ 29
ASSUME AreaAssumption == Area \in MinSize .. 2 ^ 29 /\ Area % Align = 0
\* Every class of small blocks holds one aligned size.
ASSUME ClassAssumption == /\ FLI_OFFSET \in 0 .. 28 /\ MAX_LOG2_SLI \in 0 .. FLI_OFFSET + 1
                          /\ Small \div MaxSli \in 1 .. Align

VARIABLES
    tlsf,       \* blocks: size, free, prevFree and prev of each header; matrix:
                \* the free lists; sl, fl: the two bitmaps, as sets
    held,       \* what each owner holds: [at, size], or None
    memory,     \* ghost: who wrote each word last
    failed      \* the request that malloc has just refused, or 0

vars == <<tlsf, held, memory, failed>>

None == [at |-> 0, size |-> 0]
End  == Overhead + Area         \* the header of the sentinel
Words == 0 .. End + Overhead - 1
Nobody == "nobody"

-----------------------------------------------------------------------------
(* Sizes and classes *)

\* ms_bit; sizes in words, rounded up, are below 2^31.
MsBit(n) == CHOOSE k \in 0 .. 30 : 2 ^ k <= n /\ n < 2 ^ (k + 1)

Log(r)  == MsBit(r) - MAX_LOG2_SLI

MAPPING_INSERT(r) ==
    IF r < Small THEN <<0, r \div (Small \div MaxSli)>>
    ELSE <<MsBit(r) - FLI_OFFSET, r \div (2 ^ Log(r)) - MaxSli>>

\* The size at and above which every block of a class fits the request.
SearchSize(r) ==
    IF r < Small THEN r
    ELSE ((r + 2 ^ Log(r) - 1) \div 2 ^ Log(r)) * 2 ^ Log(r)

Classes == {MAPPING_INSERT(r) : r \in 1 .. 2 * Area}
Levels  == {class[1] : class \in Classes}

\* MIN_BLOCK_SIZE or ROUNDUP_SIZE
Rounded(n) == IF n < MinSize THEN MinSize ELSE n + (n % Align)

-----------------------------------------------------------------------------
(* Blocks and lists *)

NextOf(h, b) == b + Overhead + h.blocks[b].size

\* EXTRACT_BLOCK, EXTRACT_BLOCK_HDR: out of the list of its size
Extract(h, b) ==
    LET class == MAPPING_INSERT(h.blocks[b].size)
        rest  == RemoveFirst(h.matrix[class], b)
        sl    == IF rest = <<>> THEN h.sl \ {class} ELSE h.sl
    IN  [h EXCEPT !.matrix[class] = rest,
                  !.sl = sl,
                  !.fl = IF \E c \in sl : c[1] = class[1] THEN @ ELSE @ \ {class[1]}]

\* Mutant: the first-level bit is left alone.
InsertOneBit(h, b) ==
    LET class == MAPPING_INSERT(h.blocks[b].size)
    IN  [h EXCEPT !.matrix[class] = <<b>> \o @,
                  !.sl = @ \union {class}]

\* INSERT_BLOCK
Insert(h, b) ==
    LET class == MAPPING_INSERT(h.blocks[b].size)
    IN  [h EXCEPT !.matrix[class] = <<b>> \o @,
                  !.sl = @ \union {class},
                  !.fl = @ \union {class[1]}]

\* FIND_SUITABLE_BLOCK: the first block of the first class that is large enough
Suitable(h, class) ==
    LET here  == {c \in h.sl : c[1] = class[1] /\ c[2] >= class[2]}
        above == {level \in h.fl : level > class[1]}
        first(cs) == CHOOSE c \in cs : \A d \in cs : c[2] <= d[2]
    IN  IF here # {} THEN {Head(h.matrix[first(here)])}
        ELSE IF above = {} THEN {}
        ELSE {Head(h.matrix[first({c \in h.sl : c[1] = Min(above)})])}

\* What is left of block b after size words becomes a free block before next.
Split(h, b, size) ==
    LET next == NextOf(h, b)
        b2   == b + Overhead + size
        new  == [size |-> h.blocks[b].size - size - Overhead, free |-> TRUE,
                 prevFree |-> FALSE, prev |-> 0]
    IN  Insert([h EXCEPT !.blocks = [c \in DOMAIN @ \union {b2} |->
                   CASE c = b2   -> new
                     [] c = b    -> [@[b] EXCEPT !.size = size, !.free = FALSE]
                     [] c = next -> [@[next] EXCEPT !.prev = b2, !.prevFree = TRUE]
                     [] OTHER    -> @[c]]], b2)

\* Block b swallows the block after it.
Join(h, b) ==
    LET next == NextOf(h, b)
        size == h.blocks[b].size + h.blocks[next].size + Overhead
    IN  [h EXCEPT !.blocks = [c \in DOMAIN @ \ {next} |->
                                 IF c = b THEN [@[b] EXCEPT !.size = size] ELSE @[c]]]

MarkUsed(h, b) ==
    [h EXCEPT !.blocks[NextOf(h, b)].prevFree = FALSE, !.blocks[b].free = FALSE]

LargeEnough(rest) == rest >= Header

-----------------------------------------------------------------------------
(* malloc_ex, free_ex, realloc_ex: the heap after them, and the block *)

\* Mutant: a block that is not split stays marked free.
TakeStaysFree(h, b, size) ==
    LET out == Extract(h, b)
    IN  IF LargeEnough(h.blocks[b].size - size) THEN Split(out, b, size)
        ELSE [out EXCEPT !.blocks[NextOf(h, b)].prevFree = FALSE]

\* A free block becomes a used one of size words, or of all it has.
Take(h, b, size) ==
    LET out == Extract(h, b)
    IN  IF LargeEnough(h.blocks[b].size - size) THEN Split(out, b, size)
        ELSE MarkUsed(out, b)

Fitting(h, n) == Suitable(h, MAPPING_INSERT(SearchSize(Rounded(n))))

\* With a free block after or before it, b becomes one block.
MergeNext(h, b) ==
    IF h.blocks[NextOf(h, b)].free THEN Join(Extract(h, NextOf(h, b)), b) ELSE h

MergePrev(h, b) ==
    LET prev == h.blocks[b].prev
    IN  IF h.blocks[b].prevFree
        THEN [heap |-> Join(Extract(h, prev), prev), block |-> prev]
        ELSE [heap |-> h, block |-> b]

Free(h, b) ==
    LET marked == [h EXCEPT !.blocks[b].free = TRUE]
        merged == MergePrev(MergeNext(marked, b), b)
        new    == merged.block
        in     == Insert(merged.heap, new)
        next   == NextOf(in, new)
    IN  [in EXCEPT !.blocks[next].prevFree = TRUE, !.blocks[next].prev = new]

\* realloc to no more than the block has: the free block after it, if there is
\* one, is extended downwards, or what is left becomes one.
Shrink(h, b, size) ==
    LET all == MergeNext(h, b)
    IN  IF LargeEnough(all.blocks[b].size - size) THEN Split(all, b, size) ELSE h

\* Mutant: the block after it is told that b is free, as it was before.
GrowStale(h, b, size) ==
    LET all == Join(Extract(h, NextOf(h, b)), b)
    IN  IF LargeEnough(all.blocks[b].size - size) THEN Split(all, b, size) ELSE all

\* realloc into the free block after it
Grow(h, b, size) ==
    LET all == Join(Extract(h, NextOf(h, b)), b)
    IN  IF LargeEnough(all.blocks[b].size - size) THEN Split(all, b, size)
        ELSE [all EXCEPT !.blocks[NextOf(all, b)].prevFree = FALSE,
                         !.blocks[NextOf(all, b)].prev = b]

\* The free block after b is as large as what b lacks.  The header between
\* them, which b would gain as well, is not counted.
CanGrow(h, b, size) ==
    LET next == h.blocks[NextOf(h, b)]
    IN  next.free /\ size <= h.blocks[b].size + next.size

-----------------------------------------------------------------------------
(* The operations *)

Block(o)  == held[o].at - Overhead
Region(r) == {w \in Words : r.at <= w /\ w < r.at + r.size}
Holding   == {o \in Owners : held[o] # None}

\* The words the allocator writes: headers, and the links in free blocks.
Written(h) == UNION {b .. b + (IF h.blocks[b].free THEN Header ELSE Overhead) - 1 :
                        b \in DOMAIN h.blocks}

\* Owner o has region r, copied words of it from what it had before, and fills
\* the rest.
Give(h, o, r, copied) ==
    /\ tlsf' = h
    /\ held' = [held EXCEPT ![o] = r]
    /\ memory' = [w \in Words |->
           IF w \in Region(r)
           THEN IF w < r.at + copied THEN memory[held[o].at + w - r.at] ELSE o
           ELSE IF w \in Written(h) \/ w \notin UNION {Region(held[p]) : p \in Owners \ {o}}
                THEN Nobody
                ELSE memory[w]]
    /\ failed' = 0

Refuse(n) == failed' = Rounded(n) /\ UNCHANGED <<tlsf, held, memory>>

\* malloc, and realloc of nothing to n > 0
Malloc(o, n) ==
    /\ held[o] = None
    /\ \E b \in Fitting(tlsf, n) :
        Give(Take(tlsf, b, SearchSize(Rounded(n))), o, [at |-> b + Overhead, size |-> n], 0)

MallocFails(o, n) ==
    /\ held[o] = None
    /\ Fitting(tlsf, n) = {}
    /\ Refuse(n)

\* free, and realloc to 0
FreeEx(o) ==
    /\ held[o] # None
    /\ Give(Free(tlsf, Block(o)), o, None, 0)

Keep(o, n) == [held[o] EXCEPT !.size = n]
Fits(o, n) == Rounded(n) <= tlsf.blocks[Block(o)].size

ReallocShrinks(o, n) ==
    /\ held[o] # None /\ n > 0
    /\ Fits(o, n)
    /\ Give(Shrink(tlsf, Block(o), Rounded(n)), o, Keep(o, n), Min({n, held[o].size}))

ReallocGrows(o, n) ==
    /\ held[o] # None
    /\ ~Fits(o, n)
    /\ CanGrow(tlsf, Block(o), Rounded(n))
    /\ Give(Grow(tlsf, Block(o), Rounded(n)), o, Keep(o, n), held[o].size)

\* The new block is taken before the old one is freed.
ReallocMoves(o, n) ==
    /\ held[o] # None
    /\ ~Fits(o, n) /\ ~CanGrow(tlsf, Block(o), Rounded(n))
    /\ \E b \in Fitting(tlsf, n) :
        LET taken == Take(tlsf, b, SearchSize(Rounded(n)))
        IN  Give(Free(taken, Block(o)), o, [at |-> b + Overhead, size |-> n], held[o].size)

ReallocFails(o, n) ==
    /\ held[o] # None
    /\ ~Fits(o, n) /\ ~CanGrow(tlsf, Block(o), Rounded(n))
    /\ Fitting(tlsf, n) = {}
    /\ Refuse(n)

-----------------------------------------------------------------------------
(* init_memory_pool *)

Empty == [blocks |-> [b \in {0, End} |->
                         [size |-> IF b = 0 THEN Area ELSE 0, free |-> FALSE,
                          prevFree |-> b = End, prev |-> 0]],
          matrix |-> [class \in Classes |-> <<>>], sl |-> {}, fl |-> {}]

Init ==
    /\ tlsf = Free(Empty, 0)
    /\ held = [o \in Owners |-> None]
    /\ memory = [w \in Words |-> Nobody]
    /\ failed = 0

\* The loader is started again: the pool still has its signature and stays as it
\* is, and nobody knows who held what.
Reinit ==
    /\ held' = [o \in Owners |-> None]
    /\ memory' = [w \in Words |-> Nobody]
    /\ failed' = 0
    /\ UNCHANGED tlsf

Next ==
    \/ \E o \in Owners :
        \/ \E n \in Requests : \/ Malloc(o, n) \/ MallocFails(o, n)
                               \/ ReallocShrinks(o, n) \/ ReallocGrows(o, n)
                               \/ ReallocMoves(o, n) \/ ReallocFails(o, n)
        \/ FreeEx(o)
    \/ Reinit

Spec == Init /\ [][Next]_vars

-----------------------------------------------------------------------------
(* Properties *)

BlockRecord == [size : 0 .. Area, free : BOOLEAN, prevFree : BOOLEAN, prev : Words]

TypeOK ==
    /\ tlsf.blocks \in [DOMAIN tlsf.blocks -> BlockRecord]
    /\ {0, End} \subseteq DOMAIN tlsf.blocks /\ DOMAIN tlsf.blocks \subseteq Words
    /\ DOMAIN tlsf.matrix = Classes
    /\ tlsf.sl \subseteq Classes /\ tlsf.fl \subseteq Levels
    /\ held \in [Owners -> [at : Words, size : Requests \union {0}]]
    /\ memory \in [Words -> Owners \union {Nobody}]
    /\ failed \in Nat

\* The blocks cover the area without gap or overlap, the tags at both ends of a
\* block agree, and no two free blocks touch.
BlocksTile(h) ==
    \A b \in DOMAIN h.blocks \ {End} :
        LET next == NextOf(h, b) IN
        /\ h.blocks[b].size >= MinSize
        /\ next \in DOMAIN h.blocks
        /\ \A c \in DOMAIN h.blocks : c <= b \/ c >= next
        /\ h.blocks[next].prevFree = h.blocks[b].free
        /\ h.blocks[b].free => /\ h.blocks[next].prev = b
                               /\ ~h.blocks[next].free

\* Every free block is in the list of its size, once, nothing else is in a list,
\* and the bitmaps say which lists and levels have blocks.
ListsMatch(h) ==
    /\ \A class \in Classes :
        /\ IsInjective(h.matrix[class])
        /\ ToSet(h.matrix[class]) =
              {b \in DOMAIN h.blocks : /\ h.blocks[b].free
                                       /\ MAPPING_INSERT(h.blocks[b].size) = class}
    /\ h.sl = {class \in Classes : h.matrix[class] # <<>>}
    /\ h.fl = {class[1] : class \in h.sl}

\* Every owner has a used block of its own that is large enough.
OwnersServed ==
    \A o \in Holding :
        /\ Block(o) \in DOMAIN tlsf.blocks /\ ~tlsf.blocks[Block(o)].free
        /\ held[o].size <= tlsf.blocks[Block(o)].size
        /\ \A p \in Holding \ {o} : held[p].at # held[o].at

\* malloc_ex, free_ex, realloc_ex: the blocks cover the area, the lists and the
\* two bitmaps are those of the free blocks, and every owner has a block of its
\* own that is large enough.
HeapSound == TypeOK /\ BlocksTile(tlsf) /\ ListsMatch(tlsf) /\ OwnersServed

\* A request is refused only when every free block is smaller than the request
\* and one in MAX_SLI of it: how much the search for a class rounds up.
RefusesOnlyWhenShort ==
    [][\A b \in DOMAIN tlsf.blocks :
           failed' > 0 /\ tlsf.blocks[b].free
           => tlsf.blocks[b].size < failed' + failed' \div MaxSli + 1]_vars

\* What an owner wrote stays until it frees it, also where realloc puts it.
Store == INSTANCE HeapStore WITH
    MaxSize <- Max(Requests),
    contents <- [o \in Owners |-> [i \in 1 .. held[o].size |-> memory[held[o].at + i - 1]]]
ImplementsStore == Store!Spec
=============================================================================
