------------------------------ MODULE XmlTags ------------------------------
(***************************************************************************)
(* The property list parser and its storage (lib/xml.c), driven as         *)
(* prepare_devicetree (boot/bootx.c) drives it.                            *)
(*                                                                         *)
(* The document is a stream of tags, chosen as the parser asks for them:   *)
(* an opening tag that the parser knows, with its text and whether its end *)
(* tag is found, or any other (end tags, comments, the prolog).  What      *)
(* FixDataMatchingTag skips is not a tag of its own.  A nested call of     *)
(* XMLParseNextTag is a frame; the recursion of XMLFreeTag is an order.    *)
(*                                                                         *)
(* <plist> leaves *tag as it was, so it may only stand where the loop of   *)
(* prepare_devicetree has set its tag to 0: right after the prolog.        *)
(***************************************************************************)
EXTENDS Integers, FiniteSets, FiniteSetsExt, SequencesExt

CONSTANTS
    ListTypes,       \* dict, array
    LeafTypes,       \* integer, data, date: elements whose text is dropped
    BoolTypes,       \* true, false: elements without an end tag
    Strings,         \* texts of keys and strings
    TagsPerBlock,    \* kTagsPerBlock
    MaxBlocks,       \* bound: how many blocks malloc yields
    MaxTags          \* bound: the tags of a document

PoolFits ==
    /\ TagsPerBlock \in Nat \ {0} /\ MaxBlocks \in Nat /\ MaxTags \in Nat
    /\ "no string" \notin Strings /\ "key" \notin ListTypes

Addr     == 1 .. TagsPerBlock * MaxBlocks
NoString == "no string"
Types    == ListTypes \union LeafTypes \union BoolTypes \union {"key", "string", "none"}

VARIABLES
    tags,        \* type, string, tag and tagNext of each tag; 0 is NULL
    free,        \* gTagsFree
    blocks,      \* how many blocks were allocated
    refCount,    \* the symbols: how often each string counts, 0 if it is not in the list
    frames,      \* the calls in progress: ParseTagList with its tagList, ParseTagKey
    mode,        \* "read": a call of XMLParseNextTag begins; "return": it returns
    result,      \* -1, or the tag it returns
    topTag,      \* prepare_devicetree's tag
    seen         \* how many tags of the document were read

vars == <<tags, free, blocks, refCount, frames, mode, result, topTag, seen>>
store == <<tags, free, blocks, refCount>>

FreeTag == [type |-> "none", string |-> NoString, tag |-> 0, next |-> 0]
Ref     == Addr \union {0}

TypeOK ==
    /\ tags \in [Addr -> [type : Types, string : Strings \union {NoString}, tag : Ref, next : Ref]]
    /\ free \in Ref /\ blocks \in 0 .. MaxBlocks
    /\ refCount \in [Strings -> Nat]
    /\ \A i \in DOMAIN frames : frames[i] \in [type : ListTypes \union {"key"}, head : Ref,
                                               string : Strings \union {NoString}]
    /\ mode \in {"read", "return", "panicked", "done"}
    /\ result \in Ref \union {-1} /\ topTag \in Ref \union {-1}
    /\ seen \in 0 .. MaxTags

Init ==
    /\ tags = [t \in Addr |-> FreeTag] /\ free = 0 /\ blocks = 0
    /\ refCount = [s \in Strings |-> 0]
    /\ frames = <<>> /\ mode = "read" /\ result = 0 /\ seen = 0
    /\ topTag = -1       \* not initialized

-----------------------------------------------------------------------------
(* Tags and symbols *)

\* The tags from t on, in the order in which XMLFreeTag puts them back.
FreeOrder(t) ==
    LET order[a \in Ref] ==
            IF a = 0 THEN <<>> ELSE order[tags[a].tag] \o order[tags[a].next] \o <<a>>
    IN  order[t]

\* Mutant: a symbol goes with its first user.
DroppedAtOnce(order) ==
    [s \in Strings |-> IF \E i \in DOMAIN order : tags[order[i]].string = s THEN 0 ELSE refCount[s]]

\* FreeSymbol, for every tag that has a string.
Dropped(order) ==
    [s \in Strings |-> refCount[s] - Cardinality({i \in DOMAIN order : tags[order[i]].string = s})]

XMLFreeTag(t) ==
    LET order == FreeOrder(t)
        at(a) == CHOOSE i \in DOMAIN order : order[i] = a
    IN  /\ refCount' = Dropped(order)
        /\ tags' = [a \in Addr |->
                       IF a \notin ToSet(order) THEN tags[a]
                       ELSE [FreeTag EXCEPT !.next = IF at(a) = 1 THEN free ELSE order[at(a) - 1]]]
        /\ free' = IF order = <<>> THEN free ELSE Last(order)
        /\ UNCHANGED blocks

\* A new block as a list of free tags.
Carved(first) ==
    [a \in Addr |-> IF a \in first .. first + TagsPerBlock - 1
                    THEN [FreeTag EXCEPT !.next = IF a = first + TagsPerBlock - 1 THEN 0 ELSE a + 1]
                    ELSE tags[a]]

\* NewTag followed by the assignments to the tag.  NewSymbol counts the string.
NewTag(type, string, sub) ==
    LET grow  == free = 0
        t     == IF grow THEN blocks * TagsPerBlock + 1 ELSE free
        pool  == IF grow THEN Carved(t) ELSE tags
    IN  /\ grow => blocks < MaxBlocks
        /\ blocks' = IF grow THEN blocks + 1 ELSE blocks
        /\ free' = pool[t].next
        /\ tags' = [pool EXCEPT ![t] = [type |-> type, string |-> string, tag |-> sub, next |-> 0]]
        /\ refCount' = [s \in Strings |-> refCount[s] + IF s = string THEN 1 ELSE 0]
        /\ result' = t

\* malloc returned 0 to NewTag.
NoTag == free = 0

-----------------------------------------------------------------------------
(* Reading a tag *)

Read == mode = "read" /\ seen < MaxTags /\ seen' = seen + 1

\* Returns -1, having freed what hangs on t.
ReturnFailure(t) == XMLFreeTag(t) /\ result' = -1

\* An element without elements inside.
Leaf(type, string) ==
    /\ mode' = "return"
    /\ \/ NewTag(type, string, 0)
       \/ NoTag /\ ReturnFailure(0)

ReadLeaf ==
    /\ Read
    /\ \/ \E type \in ListTypes \union BoolTypes \union LeafTypes : Leaf(type, NoString)
       \/ \E string \in Strings : Leaf("string", string)
    /\ UNCHANGED <<frames, topTag>>

Call(frame) == frames' = Append(frames, frame) /\ mode' = "read"

ReadList ==
    /\ Read
    /\ \E type \in ListTypes : Call([type |-> type, head |-> 0, string |-> NoString])
    /\ UNCHANGED <<store, result, topTag>>

ReadKey ==
    /\ Read
    /\ \E string \in Strings : Call([type |-> "key", head |-> 0, string |-> string])
    /\ UNCHANGED <<store, result, topTag>>

\* An end tag, a comment, the prolog.
ReadOther ==
    /\ Read
    /\ result' = 0 /\ mode' = "return"
    /\ UNCHANGED <<store, frames, topTag>>

ReadPlist ==
    /\ Read /\ frames = <<>> /\ topTag = 0
    /\ result' = topTag /\ mode' = "return"
    /\ UNCHANGED <<store, frames, topTag>>

\* The document ends, or an end tag is missing.
ReadEnd ==
    /\ mode = "read"
    /\ result' = -1 /\ mode' = "return"
    /\ UNCHANGED <<store, frames, topTag, seen>>

-----------------------------------------------------------------------------
(* Going on in the caller *)

Caller == Last(frames)
Returned(type) == mode = "return" /\ frames # <<>> /\ Caller.type \in type

Pop == frames' = Front(frames) /\ mode' = "return"

\* Mutant: a failed list leaks what it has.
ListFailsLeaking ==
    /\ Returned(ListTypes) /\ result = -1
    /\ Pop /\ UNCHANGED <<store, result>>
    /\ UNCHANGED <<topTag, seen>>

ListFails ==
    /\ Returned(ListTypes) /\ result = -1
    /\ Pop /\ ReturnFailure(Caller.head)
    /\ UNCHANGED <<topTag, seen>>

\* Mutant: the element replaces those before it.
ListAddForgets ==
    /\ Returned(ListTypes) /\ result > 0
    /\ tags' = [tags EXCEPT ![result].next = 0]
    /\ frames' = [frames EXCEPT ![Len(frames)].head = result]
    /\ mode' = "read"
    /\ UNCHANGED <<free, blocks, refCount, result, topTag, seen>>

\* An element goes to the front of the list.
ListAdd ==
    /\ Returned(ListTypes) /\ result > 0
    /\ tags' = [tags EXCEPT ![result].next = Caller.head]
    /\ frames' = [frames EXCEPT ![Len(frames)].head = result]
    /\ mode' = "read"
    /\ UNCHANGED <<free, blocks, refCount, result, topTag, seen>>

ListEnds ==
    /\ Returned(ListTypes) /\ result = 0
    /\ Pop
    /\ \/ NewTag(Caller.type, NoString, Caller.head)
       \/ NoTag /\ ReturnFailure(Caller.head)
    /\ UNCHANGED <<topTag, seen>>

KeyFails ==
    /\ Returned({"key"}) /\ result = -1
    /\ Pop /\ UNCHANGED <<store, result, topTag, seen>>

KeyEnds ==
    /\ Returned({"key"}) /\ result # -1
    /\ Pop
    /\ \/ NewTag("key", Caller.string, result)
       \/ NoTag /\ ReturnFailure(result)
    /\ UNCHANGED <<topTag, seen>>

\* NewSymbol panics when it cannot allocate.
SymbolPanic ==
    /\ \/ mode = "read" /\ seen < MaxTags
       \/ Returned({"key"}) /\ result # -1 /\ refCount[Caller.string] = 0
    /\ \E s \in Strings : refCount[s] = 0
    /\ mode' = "panicked"
    /\ UNCHANGED <<store, frames, result, topTag, seen>>

\* prepare_devicetree: an element that is no dictionary is dropped, the first
\* dictionary is used and freed.
TopGoesOn ==
    /\ mode = "return" /\ frames = <<>> /\ result # -1
    /\ topTag' = result
    /\ IF result = 0 THEN mode' = "read" /\ UNCHANGED store
       ELSE /\ mode' = IF tags[result].type = "dict" THEN "done" ELSE "read"
            /\ XMLFreeTag(result)
    /\ UNCHANGED <<frames, result, seen>>

TopFails ==
    /\ mode = "return" /\ frames = <<>> /\ result = -1
    /\ mode' = "done"
    /\ UNCHANGED <<store, frames, result, topTag, seen>>

Next ==
    \/ ReadLeaf \/ ReadList \/ ReadKey \/ ReadOther \/ ReadPlist \/ ReadEnd
    \/ ListFails \/ ListAdd \/ ListEnds \/ KeyFails \/ KeyEnds \/ SymbolPanic
    \/ TopGoesOn \/ TopFails

Spec == Init /\ [][Next]_vars

-----------------------------------------------------------------------------
(* Properties *)

\* Where what is in use begins: the free tags, the list of each call in progress,
\* and what the last call returned.
Roots ==
    [i \in 0 .. Len(frames) + 1 |->
        IF i = 0 THEN free
        ELSE IF i <= Len(frames) THEN frames[i].head
        ELSE IF mode = "return" /\ result > 0 THEN result ELSE 0]

Held(i) == ToSet(FreeOrder(Roots[i]))

\* Every tag ever allocated is free or held by one call, once, also after errors
\* in the middle of a document: none is lost, none is used twice.
TagsPartitioned ==
    mode # "panicked" =>
        /\ \A i \in DOMAIN Roots : IsInjective(FreeOrder(Roots[i]))
        /\ \A i, j \in DOMAIN Roots : i # j => Held(i) \cap Held(j) = {}
        /\ UNION {Held(i) : i \in DOMAIN Roots} = 1 .. blocks * TagsPerBlock
        /\ \A t \in Held(0) : tags[t].tag = 0

\* A symbol counts the tags that name it, so it is freed with the last of them.
SymbolsCounted ==
    mode # "panicked" =>
        \A s \in Strings :
            refCount[s] = Cardinality({t \in 1 .. blocks * TagsPerBlock \ Held(0) : tags[t].string = s})

\* What the parser returns has the structure of the document: the elements behind
\* a tag, whose list is backwards, and the value of a tag.
ItemsFrom(head) ==
    LET items[a \in Ref] ==
            IF a = 0 THEN <<>>
            ELSE Append(items[tags[a].next], [type |-> tags[a].type, string |-> tags[a].string,
                                              items |-> items[tags[a].tag]])
    IN  items[head]

ValueOf(t) == [type |-> tags[t].type, string |-> tags[t].string, items |-> ItemsFrom(tags[t].tag)]

OpenElements ==
    [i \in DOMAIN frames |-> [type |-> frames[i].type, string |-> frames[i].string,
                              items |-> ItemsFrom(frames[i].head)]]

LastRead ==
    IF mode = "return" /\ result > 0 THEN ValueOf(result)
    ELSE [is |-> IF mode = "read" THEN "pending" ELSE IF mode # "return" THEN "ended"
                 ELSE IF result = 0 THEN "null" ELSE "failure"]

Reader == INSTANCE PlistReader WITH
    LeafTypes <- LeafTypes \union BoolTypes, open <- OpenElements, last <- LastRead
ImplementsReader == Reader!Spec
=============================================================================
