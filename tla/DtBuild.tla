------------------------------ MODULE DtBuild ------------------------------
(***************************************************************************)
(* From the property list to the device tree: prepare_devicetree and the   *)
(* first half of prepare_devicetree_stage2 (boot/bootx.c).                 *)
(*                                                                         *)
(* The document is a value as PlistReader delivers it; XmlTags keeps its   *)
(* lists newest first, so a walk along tagNext meets the elements from the *)
(* last to the first.  The tree is OrderedTree, which DeviceTree           *)
(* implements.  Memory is sufficient here; every dictionary entry is a key *)
(* with a value.                                                           *)
(***************************************************************************)
EXTENDS Integers, FiniteSets, SequencesExt, TLC

CONSTANTS
    Documents,     \* dictionaries
    ChildrenKeys,  \* keys that begin with '@'
    MaxNodes       \* bound: nodes of a tree

VARIABLES
    document,
    tree, attrs, top,   \* the tree, as in OrderedTree
    calls,              \* PopulateDeviceTreeNode and WalkDeviceTreeNodeChildren in progress
    mode,               \* "building", "built", "mapped", "panicked"
    from                \* ghost: the dictionary each node was made from

vars == <<document, tree, attrs, top, calls, mode, from>>

NoName == "no name"
Tree == INSTANCE OrderedTree WITH Nodes <- 1 .. MaxNodes, Names <- {}, Strings <- {}

Item(type, string, items) == [type |-> type, string |-> string, items |-> items]

\* A property's data: a sequence of integers and strings.
Text(string) == << <<"string", string>> >>

\* Mutant: the parser's lists in the order of the document.
ListForward(tag) == tag.items

\* What the walk along the list below a tag meets.
List(tag) == Reverse(tag.items)

TypeOK ==
    /\ document \in Documents
    /\ DOMAIN tree \subseteq 1 .. MaxNodes /\ DOMAIN attrs = DOMAIN tree
    /\ \A n \in DOMAIN attrs : \A p \in ToSet(attrs[n]) : p[2] # <<>>
    /\ \A n \in DOMAIN tree : ToSet(tree[n]) \subseteq DOMAIN tree
    /\ top \in DOMAIN tree \union {0}
    /\ \A i \in DOMAIN calls : calls[i].does \in {"populate", "walk"} /\ calls[i].node \in DOMAIN tree
    /\ mode \in {"building", "built", "mapped", "panicked"}
    /\ DOMAIN from \subseteq DOMAIN tree

Call(does, node, tag) == [does |-> does, node |-> node, todo |-> List(tag)]

\* DT__Initialize, then PopulateDeviceTreeNode of the document's dictionary.
Init ==
    /\ document \in Documents
    /\ tree = (1 :> <<>>) /\ attrs = (1 :> << <<"name", Text("/")>> >>) /\ top = 1
    /\ calls = <<Call("populate", 1, document)>>
    /\ from = (1 :> document)
    /\ mode = "building"

-----------------------------------------------------------------------------
Current == Last(calls)
Entry    == Head(Current.todo)
Advanced   == [calls EXCEPT ![Len(calls)].todo = Tail(@)]

Working(does) == mode = "building" /\ calls # <<>> /\ Current.does = does /\ Current.todo # <<>>

\* Strings keep their text; ParseTagInteger keeps nothing, so an integer is 0.
Datum(tag) == IF tag.type = "integer" THEN <<"integer", "0">> ELSE <<"string", tag.string>>

\* ArrayToDeviceTreeData takes integers and strings, and at least one.
GoodArray(tag) == tag.items # <<>> /\ \A i \in DOMAIN tag.items : tag.items[i].type \in {"integer", "string"}

Data(tag) ==
    IF tag.type = "array" THEN [i \in DOMAIN List(tag) |-> Datum(List(tag)[i])] ELSE <<Datum(tag)>>

Panic == mode' = "panicked" /\ UNCHANGED <<document, tree, attrs, top, calls, from>>

\* An array of children.
PopulateChildren ==
    /\ Working("populate")
    /\ LET value == Entry.items[1] IN
        /\ value.type = "array" /\ Entry.string \in ChildrenKeys
        /\ IF value.items = <<>> THEN Panic
           ELSE /\ calls' = Append(Advanced, Call("walk", Current.node, value))
                /\ UNCHANGED <<document, tree, attrs, top, mode, from>>

IsProperty(value) == value.type \in {"array", "integer", "string"}

\* A property.
PopulateProperty ==
    /\ Working("populate")
    /\ LET value == Entry.items[1] IN
        /\ IsProperty(value)
        /\ ~ (value.type = "array" /\ Entry.string \in ChildrenKeys)
        /\ IF value.type = "array" /\ ~GoodArray(value) THEN Panic
           ELSE /\ Tree!AddProperty(Current.node, Entry.string, Data(value))
                /\ calls' = Advanced
                /\ UNCHANGED <<document, mode, from>>

\* Other values are dropped.
PopulateNothing ==
    /\ Working("populate")
    /\ ~IsProperty(Entry.items[1])
    /\ calls' = Advanced
    /\ UNCHANGED <<document, tree, attrs, top, mode, from>>

NewNode == Cardinality(DOMAIN tree) + 1

\* The walk makes a node of each dictionary.
WalkChild ==
    /\ Working("walk")
    /\ NewNode <= MaxNodes
    /\ IF Entry.type # "dict" THEN Panic
       ELSE /\ Tree!AddChild(Current.node, NoName, NewNode)
            /\ calls' = Append(Advanced, Call("populate", NewNode, Entry))
            /\ from' = [n \in DOMAIN tree' |-> IF n = NewNode THEN Entry ELSE from[n]]
            /\ UNCHANGED <<document, mode>>

Return ==
    /\ mode = "building" /\ Current.todo = <<>>
    /\ calls' = Front(calls)
    /\ mode' = IF Len(calls) = 1 THEN "built" ELSE mode
    /\ UNCHANGED <<document, tree, attrs, top, from>>

-----------------------------------------------------------------------------
(* prepare_devicetree_stage2 *)

WithChosen(chosen) == <<chosen>> \o tree[top]

\* CreateMemoryMapNode makes /chosen/memory-map; a memory disk is entered there.
CreateMemoryMap(ramdisk) ==
    /\ mode = "built" /\ NewNode < MaxNodes
    /\ LET chosen == NewNode
           map    == NewNode + 1
           disk   == IF ramdisk THEN << <<"RAMDisk", Text("base and size")>> >> ELSE <<>>
       IN  /\ tree' = (map :> <<>>) @@ (chosen :> <<map>>) @@ (top :> WithChosen(chosen)) @@ tree
           /\ attrs' = (map :> << <<"name", Text("memory-map")>> >> \o disk)
                       @@ (chosen :> << <<"name", Text("chosen")>> >>) @@ attrs
    /\ mode' = "mapped"
    /\ UNCHANGED <<document, top, calls, from>>

Next ==
    \/ PopulateChildren \/ PopulateProperty \/ PopulateNothing
    \/ WalkChild \/ Return
    \/ \E ramdisk \in BOOLEAN : CreateMemoryMap(ramdisk)

Spec == Init /\ [][Next]_vars

-----------------------------------------------------------------------------
(* Properties *)

\* The dictionaries below a dictionary, and its other entries, as written.
IsChildren(entry) == entry.items[1].type = "array" /\ entry.string \in ChildrenKeys
SubDicts(dict) == FlattenSeq([i \in DOMAIN dict.items |->
                      IF IsChildren(dict.items[i]) THEN dict.items[i].items[1].items ELSE <<>>])
Entries(dict)  == SelectSeq(dict.items, LAMBDA e : ~IsChildren(e) /\ IsProperty(e.items[1]))

\* Two reversals cancel: nodes stand in the order of the document, however deep
\* and under however many keys.  Properties stand in the opposite order.
BuildsDocument ==
    mode = "built" =>
        /\ DOMAIN tree = DOMAIN from
        /\ \A n \in DOMAIN tree :
            /\ [i \in DOMAIN tree[n] |-> from[tree[n][i]]] = SubDicts(from[n])
            /\ LET own == IF n = top THEN Tail(attrs[n]) ELSE attrs[n]
                   written == Reverse(Entries(from[n]))
               IN  [i \in DOMAIN own |-> own[i][1]] = [i \in DOMAIN written |-> written[i].string]

\* Each property holds one datum for each element, in one order or the other.
Opposite(data, tag) ==
    IF tag.type = "array"
    THEN /\ Len(data) = Len(tag.items)
         /\ \A i \in DOMAIN data : data[i] = Datum(tag.items[Len(data) + 1 - i])
    ELSE data = <<Datum(tag)>>

DataComplete ==
    mode = "built" =>
        \A n \in DOMAIN tree : \A a \in DOMAIN attrs[n] :
            attrs[n][a] = <<"name", Text("/")>> \/
            \E e \in ToSet(Entries(from[n])) :
                e.string = attrs[n][a][1] /\ Opposite(attrs[n][a][2], e.items[1])

\* A kernel that looks for /chosen/memory-map by name gets the node made for it,
\* even when the document has a node of that name.
NameOf(n) ==
    LET names == SelectSeq(attrs[n], LAMBDA p : p[1] = "name")
    IN  IF names = <<>> THEN <<>> ELSE names[1][2]

FirstNamed(n, name) == SelectSeq(tree[n], LAMBDA k : NameOf(k) = Text(name))

MemoryMapFound ==
    mode = "mapped" =>
        /\ FirstNamed(top, "chosen") # <<>>
        /\ FirstNamed(FirstNamed(top, "chosen")[1], "memory-map") # <<>>

\* The value of a property is the value of its key, in the order of the document.
Written(tag) == IF tag.type = "integer" THEN <<"integer", tag.string>> ELSE <<"string", tag.string>>

DataAsWritten ==
    mode = "built" =>
        \A n \in DOMAIN tree : \A a \in DOMAIN attrs[n] :
            attrs[n][a] = <<"name", Text("/")>> \/
            \E e \in ToSet(Entries(from[n])) :
                /\ e.string = attrs[n][a][1]
                /\ attrs[n][a][2] = IF e.items[1].type = "array"
                                    THEN [i \in DOMAIN e.items[1].items |-> Written(e.items[1].items[i])]
                                    ELSE <<Written(e.items[1])>>
=============================================================================
