------------------------------- MODULE Image3 -------------------------------
(***************************************************************************)
(* Looking for a tag in an Img3 file (lib/image3.c).  The file lies in     *)
(* memory with whatever was there before it behind its end: a header       *)
(* followed by tags, each of which says how long it is.                    *)
(*                                                                         *)
(* Memory is counted in words of the size of a tag's header.               *)
(***************************************************************************)
EXTENDS Integers, FiniteSets, FiniteSetsExt

CONSTANTS
    Magics,         \* kinds of tags
    MaxTags,        \* bound: of a file, and one tag behind it
    Sizes           \* the sizes of tags, their headers included

RootSize == 1       \* sizeof(Image3RootHeader)

VARIABLES
    memory,     \* the tag headers that can be read, at their offsets
    size,       \* the size the file's header says
    wanted,     \* find_tag
    off,        \* of the tag that is looked at, image3_off(root, tag)
    searching,  \* the loop runs
    found       \* the offset of the tag that is returned; {} for NULL

vars == <<memory, size, wanted, off, searching, found>>

Tags == [magic : Magics, size : Sizes]

\* Where tags begin that lie one behind the other, the first one behind the
\* header, and where the last one ends.
Behind(bounds, o) == CHOOSE b \in bounds : o < b /\ \A c \in bounds : o < c => b <= c

Begins(bounds) == {o \in bounds : \E b \in bounds : o < b}

Layouts ==
    {bounds \in SUBSET (RootSize .. RootSize + (MaxTags + 1) * Max(Sizes)) :
        /\ RootSize \in bounds
        /\ Cardinality(Begins(bounds)) <= MaxTags + 1
        /\ \A o \in Begins(bounds) : Behind(bounds, o) - o \in Sizes}

\* A file, and behind it tags that a longer one left there.
Init ==
    /\ \E bounds \in Layouts :
        /\ \E kinds \in [Begins(bounds) -> Magics] :
              memory = [o \in Begins(bounds) |->
                           [magic |-> kinds[o], size |-> Behind(bounds, o) - o]]
        /\ size \in bounds
    /\ wanted \in Magics
    /\ off = RootSize
    /\ searching = TRUE /\ found = {}

\* Any bytes are taken for a tag where none was.
TagAt(o) == IF o \in DOMAIN memory THEN {memory[o]} ELSE Tags

FindTagFound ==
    /\ searching
    /\ \E tag \in TagAt(off) : tag.magic = wanted
    /\ found' = {off} /\ searching' = FALSE
    /\ UNCHANGED <<memory, size, wanted, off>>

\* Mutant: a tag before the end is outside, too.
LeftEarly(o) == o + RootSize >= size

Left(o) == o > size

After(o, tag) == o + tag.size

FindTagNext ==
    /\ searching
    /\ \E tag \in TagAt(off) :
        /\ tag.magic # wanted
        /\ off' = After(off, tag)
        /\ searching' = ~ Left(off')
    /\ UNCHANGED <<memory, size, wanted, found>>

Next == FindTagFound \/ FindTagNext

Spec == Init /\ [][Next]_vars /\ WF_vars(Next)

-----------------------------------------------------------------------------
(* Properties *)

TypeOK ==
    /\ size \in Nat /\ wanted \in Magics
    /\ \E last \in Sizes : off \in RootSize .. size + last
    /\ searching \in BOOLEAN /\ found \subseteq Nat

\* The tags of the file itself that are looked for.
Own == {o \in DOMAIN memory : o < size /\ memory[o].magic = wanted}

\* image3_find_tag: the first tag of the kind is found if the file has one,
\* and what is looked at always is where a tag begins or the end of the file.
FindsFirst ==
    /\ off <= size => off \in DOMAIN memory \union {size}
    /\ ~ searching /\ Own # {} =>
           \E first \in Own : found = {first} /\ \A o \in Own : first <= o
=============================================================================
