------------------------------ MODULE MCTrees -------------------------------
(***************************************************************************)
(* From a property list to the flattened device tree, for model checking:  *)
(* the parser and its storage (XmlTags), the walk that makes a tree of     *)
(* what it returns (DtBuild) and the tree itself (DeviceTree).  Each is    *)
(* checked by itself against what the others promise, so a behaviour runs  *)
(* one of them, part, and the others rest.                                 *)
(***************************************************************************)
EXTENDS DeviceTree, TLC

CONSTANTS
    Parts,
    ListTypes, LeafTypes, BoolTypes, TagsPerBlock, MaxBlocks, MaxTags    \* of XmlTags

VARIABLE part

-----------------------------------------------------------------------------
(* DeviceTree: a path of two names.  "long" has 31 characters.               *)

MCStrLen == [s \in Strings \union {"/"} |->
                CASE s = "cpus" -> 4 [] s = "long" -> 31 [] s = "long30" -> 30 [] OTHER -> 1]
MCHead30 == "long" :> "long30"
MCRest30 == "long" :> "g"

ShortPaths == {<<"cpus", "a">>}

-----------------------------------------------------------------------------
(* XmlTags: documents of up to five tags, storage for four                    *)

VARIABLES tags, free, blocks, refCount, frames, readMode, result, topTag, seen

X == INSTANCE XmlTags WITH mode <- readMode

ASSUME PoolAssumption == X!PoolFits

-----------------------------------------------------------------------------
(* DtBuild: documents of two levels                                          *)

VARIABLES document, built, attrs, top, calls, mode, from

Item(type, string, items) == [type |-> type, string |-> string, items |-> items]

Str(s)      == Item("string", s, <<>>)
Number(n)   == Item("integer", n, <<>>)
Arr(items)  == Item("array", "", items)
Dict(items) == Item("dict", "", items)
Key(s, v)   == Item("key", s, <<v>>)

Seqs(S, n) == UNION {[1 .. k -> S] : k \in 0 .. n}

Scalars == {Str("cpus"), Number("7")}
Inner == {Dict(<<>>), Dict(<<Key("name", Str("chosen"))>>),
          Dict(<<Key("name", Str("cpus")), Key("reg", Arr(<<Number("7"), Str("cpus")>>))>>),
          Dict(<<Key("@children", Arr(<<Dict(<<>>)>>)), Key("reg", Number("7"))>>)}
Arrays == {Arr(s) : s \in Seqs(Scalars, 2)}
Entries == {Key("@children", Arr(s)) : s \in Seqs(Inner, 2)}
           \union {Key("@children", Arr(<<Str("cpus")>>)), Key("@children", Str("cpus")),
                   Key("reg", Item("true", "", <<>>)), Key("reg", Arr(<<Dict(<<>>)>>))}
           \union {Key("reg", a) : a \in Arrays \union Scalars}

D == INSTANCE DtBuild WITH
    Documents <- {Dict(s) : s \in Seqs(Entries, 2)}, ChildrenKeys <- {"@children"},
    MaxNodes <- 11, tree <- built

NoDocument ==
    /\ document = Dict(<<>>) /\ built = <<>> /\ attrs = <<>> /\ top = 0
    /\ calls = <<>> /\ mode = "none" /\ from = <<>>

-----------------------------------------------------------------------------

xml == <<tags, free, blocks, refCount, frames, readMode, result, topTag, seen>>
doc == <<document, built, attrs, top, calls, mode, from>>

MCInit ==
    /\ part \in Parts
    /\ Init
    /\ X!Init
    /\ IF part = "document" THEN D!Init ELSE NoDocument

MCNext ==
    /\ UNCHANGED part
    /\ \/ part = "tree"     /\ Next   /\ UNCHANGED <<xml, doc>>
       \/ part = "tags"     /\ X!Next /\ UNCHANGED <<vars, doc>>
       \/ part = "document" /\ D!Next /\ UNCHANGED <<vars, xml>>

MCSpec == MCInit /\ [][MCNext]_<<part, vars, xml, doc>>

-----------------------------------------------------------------------------

\* DT__AddChild, DT__AddProperty, DT__Finalize: no entry of a pool is lost or
\* used twice, also when memory runs out in the middle of a call.
EntriesAccounted == part = "tree" => TypeOK /\ PoolsPartitioned

\* DT__FlattenDeviceTree: the size it reserves is the size of what it writes, and
\* reading that by its counts gives the tree back.
FlattensTree == part = "tree" => FlatSizeExact /\ FlatReadsBack

\* XMLFreeTag, FreeSymbol: no tag is lost or used twice, and a symbol counts the
\* tags that name it, also after errors in the middle of a document.
SymbolsCounted == part = "tags" => X!TypeOK /\ X!TagsPartitioned /\ X!SymbolsCounted

\* Each pool of the two parts accounts for all its entries.
PoolsAccounted == EntriesAccounted /\ SymbolsCounted

\* XMLParseNextTag: what it returns has the structure of the document.
ImplementsReader == X!ImplementsReader

\* prepare_devicetree: every dictionary becomes a node in its place, every other
\* entry a property with its data, and the kernel finds /chosen/memory-map.
BuildsDocument ==
    part = "document" => D!TypeOK /\ D!BuildsDocument /\ D!DataComplete /\ D!MemoryMapFound

\* ArrayToDeviceTreeData: the value of a property is what the document says.
DataAsWritten == part = "document" => D!DataAsWritten
=============================================================================
