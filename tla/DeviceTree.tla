----------------------------- MODULE DeviceTree -----------------------------
(***************************************************************************)
(* The device tree under construction and its flattening                   *)
(* (lib/device_tree.c).                                                    *)
(*                                                                         *)
(* An entry of a pool is named by its place: block b holds the entries     *)
(* b * PerBlock + 1 .. (b + 1) * PerBlock; 0 is NULL.  A block is zeroed   *)
(* when it is allocated, so memory outside the pools is zero here.         *)
(* DT__FreeProperty and DT__FreeNode have no caller and are left out.      *)
(***************************************************************************)
EXTENDS Integers, FiniteSets, FiniteSetsExt, SequencesExt

CONSTANTS
    NodesPerBlock, PropsPerBlock,   \* kAllocSize over the size of an entry
    MaxNodeBlocks, MaxPropBlocks,   \* bounds: how many blocks malloc yields
    Names,                          \* property names
    Strings,                        \* node names and values of properties
    StrLen,                         \* their lengths
    Head30, Rest30,                 \* the two parts of a name of more than 30 characters
    Paths                           \* the paths that are looked for

ASSUME BlockAssumption ==
    /\ NodesPerBlock \in Nat \ {0, 1} /\ PropsPerBlock \in Nat \ {0, 1}
    /\ MaxNodeBlocks \in Nat /\ MaxPropBlocks \in Nat

ASSUME NameAssumption ==
    /\ "name" \in Names /\ StrLen \in [Strings \union {"/"} -> Nat]
    /\ \A path \in Paths : path \in Seq(Strings)
    /\ \A s \in Strings : StrLen[s] > 30 => Head30[s] \in Strings /\ Rest30[s] \in Strings

NodeAddr == 1 .. NodesPerBlock * MaxNodeBlocks
PropAddr == 1 .. PropsPerBlock * MaxPropBlocks
NoName   == "no name"
NoWalk   == <<>>

VARIABLES
    nodes,          \* the pool of nodes: blocks, free, alloced and each entry's next
    props,          \* the pool of properties
    root,           \* rootNode
    properties,     \* Node.properties
    lastProp,       \* Node.last_prop
    children,       \* Node.children
    content,        \* name and value of a property
    numNodes, numProperties, totalPropertySize,   \* DTInfo
    walk            \* DT__FindNode at work: where it is, what is left of the path

tree == <<root, properties, lastProp, children, content>>
info == <<numNodes, numProperties, totalPropertySize>>
vars == <<nodes, props, tree, info, walk>>

NoContent == <<>>
Empty(addr) == [blocks |-> {}, free |-> 0, alloced |-> 0, next |-> [a \in addr |-> 0]]
Zero(addr)  == [a \in addr |-> 0]

PoolType(addr) == [blocks : SUBSET Nat, free : addr \union {0}, alloced : addr \union {0},
                   next : [addr -> addr \union {0}]]

TypeOK ==
    /\ nodes \in PoolType(NodeAddr) /\ nodes.blocks \subseteq 0 .. MaxNodeBlocks - 1
    /\ props \in PoolType(PropAddr) /\ props.blocks \subseteq 0 .. MaxPropBlocks - 1
    /\ root \in NodeAddr \union {0}
    /\ properties \in [NodeAddr -> PropAddr \union {0}]
    /\ lastProp \in [NodeAddr -> PropAddr \union {0}]
    /\ children \in [NodeAddr -> NodeAddr \union {0}]
    /\ \A p \in PropAddr : content[p] = NoContent \/ content[p] \in Names \X (Strings \union {"/"})
    /\ numNodes \in Nat /\ numProperties \in Nat /\ totalPropertySize \in Nat
    /\ walk = NoWalk \/ /\ walk.at \in NodeAddr /\ ToSet(walk.path) \subseteq Strings
                        /\ walk.create \in BOOLEAN

Nothing ==
    /\ nodes = Empty(NodeAddr) /\ props = Empty(PropAddr)
    /\ root = 0 /\ properties = Zero(NodeAddr) /\ lastProp = Zero(NodeAddr)
    /\ children = Zero(NodeAddr) /\ content = [p \in PropAddr |-> NoContent]
    /\ numNodes = 0 /\ numProperties = 0 /\ totalPropertySize = 0

Init == Nothing /\ walk = NoWalk

-----------------------------------------------------------------------------
(* The pools *)

\* The new block's first entry records it, the others go onto the free list one
\* by one.
Grow(pool, perBlock, block) ==
    LET record == block * perBlock + 1
        last   == record + perBlock - 1
    IN  [blocks  |-> pool.blocks \union {block},
         free    |-> last,
         alloced |-> record,
         next    |-> [a \in DOMAIN pool.next |->
                         IF a = record THEN pool.alloced
                         ELSE IF a = record + 1 THEN 0
                         ELSE IF a \in record + 2 .. last THEN a - 1
                         ELSE pool.next[a]]]

\* The pool that an allocation finds: as it is, or grown by any block; the blocks
\* are alike.
Ready(pool, perBlock, maxBlocks) ==
    LET unused == (0 .. maxBlocks - 1) \ pool.blocks
    IN  IF pool.free # 0 THEN {pool}
        ELSE IF unused = {} THEN {}
        ELSE {Grow(pool, perBlock, Min(unused))}

\* Takes the first free entry off and sets its next and perhaps another's.
Taken(pool, next) == [pool EXCEPT !.free = pool.next[pool.free], !.next = next]

RoundToLong(length) == 4 * ((length + 3) \div 4)

Size(value) == StrLen[value] + 1

\* What a property adds to totalPropertySize.
Counted(value) == RoundToLong(Size(value))

\* Mutant: the new property keeps its place in the free list.
LinkedStale(next, node, prop) ==
    IF properties[node] = 0 THEN next ELSE [next EXCEPT ![lastProp[node]] = prop]

\* The links after prop was put at the end of the node's list.
Linked(next, node, prop) ==
    IF properties[node] = 0 THEN [next EXCEPT ![prop] = 0]
    ELSE [next EXCEPT ![lastProp[node]] = prop, ![prop] = 0]

\* DT__AddProperty
AppendProperty(node, name, value) ==
    \E pool \in Ready(props, PropsPerBlock, MaxPropBlocks) :
        LET prop == pool.free IN
        /\ props' = Taken(pool, Linked(pool.next, node, prop))
        /\ properties' = [properties EXCEPT ![node] = IF @ = 0 THEN prop ELSE @]
        /\ lastProp' = [lastProp EXCEPT ![node] = prop]
        /\ content' = [content EXCEPT ![prop] = <<name, value>>]
        /\ numProperties' = numProperties + 1
        /\ totalPropertySize' = totalPropertySize + Counted(value)

\* malloc returned 0, or there was nothing to append.
AppendNothing ==
    UNCHANGED <<props, properties, lastProp, content, numProperties, totalPropertySize>>

OutOfMemory(pool) == pool.free = 0

\* Mutant: the children before are dropped.
SiblingNone(parent) == 0

Sibling(parent) == IF parent = 0 THEN 0 ELSE children[parent]

\* DT__AddChild; the result of naming the node is not looked at.
LinkChild(parent, name) ==
    \E pool \in Ready(nodes, NodesPerBlock, MaxNodeBlocks) :
        LET node == pool.free IN
        /\ nodes' = Taken(pool, [pool.next EXCEPT ![node] = Sibling(parent)])
        /\ IF parent = 0 THEN root' = node /\ UNCHANGED children
                         ELSE children' = [children EXCEPT ![parent] = node] /\ UNCHANGED root
        /\ numNodes' = numNodes + 1
        /\ IF name = NoName THEN AppendNothing
           ELSE \/ AppendProperty(node, "name", name)
                \/ OutOfMemory(props) /\ AppendNothing

-----------------------------------------------------------------------------
(* Reading the tree *)

Chain(next, head) ==
    LET from[a \in DOMAIN next \union {0}] == IF a = 0 THEN <<>> ELSE <<a>> \o from[next[a]]
    IN  from[head]

Kids(node) == Chain(nodes.next, children[node])

PropertiesOf(node) ==
    LET chain == Chain(props.next, properties[node])
    IN  [i \in DOMAIN chain |-> content[chain[i]]]

\* The nodes of the tree: a caller has got them from DT__AddChild or DT__RootNode.
Members ==
    LET below[n \in NodeAddr] == {n} \union UNION {below[k] : k \in ToSet(Kids(n))}
    IN  IF root = 0 THEN {} ELSE below[root]

\* DT__GetName: the value of the first property called name.
GetName(node) ==
    LET named == {i \in DOMAIN PropertiesOf(node) : PropertiesOf(node)[i][1] = "name"}
    IN  IF named = {} THEN "(null)" ELSE PropertiesOf(node)[Min(named)][2]

\* Mutant: the children's count is written before they are counted.
FlattenCountsEarly ==
    LET flat[n \in NodeAddr] ==
            << <<"node", Len(PropertiesOf(n)), 0>> >>
            \o PropertiesOf(n)
            \o FlattenSeq([i \in DOMAIN Kids(n) |-> flat[Kids(n)[i]]])
    IN  IF root = 0 THEN <<>> ELSE flat[root]

\* FlattenNodes: what it writes, a triple with the counts for a node, a pair
\* for a property.
Flatten ==
    LET flat[n \in NodeAddr] ==
            << <<"node", Len(PropertiesOf(n)), Len(Kids(n))>> >>
            \o PropertiesOf(n)
            \o FlattenSeq([i \in DOMAIN Kids(n) |-> flat[Kids(n)[i]]])
    IN  IF root = 0 THEN <<>> ELSE flat[root]

\* sizeof DeviceTreeNode and DeviceTreeNodeProperty.
NodeSize == 8
PropSize == 36

\* DT__FlattenDeviceTree: the size it reserves.
TotalSize == numNodes * NodeSize + numProperties * PropSize + totalPropertySize

-----------------------------------------------------------------------------
(* The operations *)

Idle == walk = NoWalk

\* DT__Initialize.  What an earlier tree still holds is forgotten, not freed.
Initialize ==
    /\ Idle /\ root = 0
    /\ LinkChild(0, "/")
    /\ UNCHANGED walk

AddChild(parent, name) ==
    /\ Idle
    /\ LinkChild(parent, name)
    /\ UNCHANGED walk

AddProperty(node, name, value) ==
    /\ Idle
    /\ AppendProperty(node, name, value)
    /\ UNCHANGED <<nodes, root, children, numNodes, walk>>

\* The blocks that a walk along the recording entries frees.
Released(pool, perBlock) ==
    {b \in pool.blocks : b * perBlock + 1 \in ToSet(Chain(pool.next, pool.alloced))}

\* DT__Finalize; the links it follows are those of entries it has just freed,
\* which free() leaves as they are.
Finalize ==
    /\ Idle /\ root # 0
    /\ nodes' = [Empty(NodeAddr) EXCEPT !.blocks = nodes.blocks \ Released(nodes, NodesPerBlock)]
    /\ props' = [Empty(PropAddr) EXCEPT !.blocks = props.blocks \ Released(props, PropsPerBlock)]
    /\ root' = 0 /\ properties' = Zero(NodeAddr) /\ lastProp' = Zero(NodeAddr)
    /\ children' = Zero(NodeAddr) /\ content' = [p \in PropAddr |-> NoContent]
    /\ numNodes' = 0 /\ numProperties' = 0 /\ totalPropertySize' = 0
    /\ UNCHANGED walk

\* DT__FindNode starts at the root.
Find(path, create) ==
    /\ Idle /\ root # 0
    /\ walk' = [at |-> root, path |-> path, create |-> create, asked |-> path]
    /\ UNCHANGED <<nodes, props, tree, info>>

\* It takes up to kDTMaxEntryNameLength - 1 characters of a name at a time.
Long(name) == StrLen[name] > 30
NextName   == IF Long(Head(walk.path)) THEN Head30[Head(walk.path)] ELSE Head(walk.path)
RestOfPath == IF Long(Head(walk.path)) THEN <<Rest30[Head(walk.path)]>> \o Tail(walk.path)
                                       ELSE Tail(walk.path)

\* Mutant: takes the newest child.
NamedNewest(node, name) == DOMAIN Kids(node)

\* The children of that name, by their places.
Named(node, name) == {i \in DOMAIN Kids(node) : GetName(Kids(node)[i]) = name}

\* One round of its loop: the first child of that name,
FindStep ==
    /\ walk # NoWalk /\ walk.path # <<>>
    /\ Named(walk.at, NextName) # {}
    /\ walk' = [walk EXCEPT !.at = Kids(walk.at)[Min(Named(walk.at, NextName))],
                            !.path = RestOfPath]
    /\ UNCHANGED <<nodes, props, tree, info>>

\* or a new one,
FindCreate ==
    /\ walk # NoWalk /\ walk.path # <<>> /\ walk.create
    /\ Named(walk.at, NextName) = {}
    /\ LinkChild(walk.at, NextName)
    /\ walk' = [walk EXCEPT !.at = children'[walk.at], !.path = RestOfPath]

\* or none; the search ends there or at the end of the path.
FindEnd ==
    /\ walk # NoWalk
    /\ \/ walk.path = <<>>
       \/ /\ walk.path # <<>> /\ Named(walk.at, NextName) = {}
          /\ (~walk.create \/ OutOfMemory(nodes))
    /\ walk' = NoWalk
    /\ UNCHANGED <<nodes, props, tree, info>>

Next ==
    \/ Initialize
    \/ \E node \in Members :
           \/ \E name \in Strings \union {NoName} : AddChild(node, name)
           \/ \E name \in Names, value \in Strings : AddProperty(node, name, value)
    \/ \E path \in Paths, create \in BOOLEAN : Find(path, create)
    \/ FindStep \/ FindCreate \/ FindEnd
    \/ Finalize

Spec == Init /\ [][Next]_vars

-----------------------------------------------------------------------------
(* Properties *)

\* Every entry of every block is one of: the one that records the block, free,
\* in the tree.  Nothing leaks, also when the tree is finalized.
Partitioned(pool, perBlock, used) ==
    LET records == ToSet(Chain(pool.next, pool.alloced))
        free    == ToSet(Chain(pool.next, pool.free))
    IN  /\ records \union free \union used =
               UNION {b * perBlock + 1 .. (b + 1) * perBlock : b \in pool.blocks}
        /\ Cardinality(records) + Cardinality(free) + Cardinality(used) =
               perBlock * Cardinality(pool.blocks)

PoolsPartitioned ==
    /\ Partitioned(nodes, NodesPerBlock, Members)
    /\ Partitioned(props, PropsPerBlock,
                   UNION {ToSet(Chain(props.next, properties[n])) : n \in Members})

\* The size computed from the counters is the size of what the writer writes,
\* so the buffer reserved for the kernel is neither too small nor too large.
ItemSize(item) ==
    IF Len(item) = 3 THEN NodeSize ELSE PropSize + RoundToLong(Size(item[2]))

FlatSizeExact == TotalSize = FoldLeft(LAMBDA sum, item : sum + ItemSize(item), 0, Flatten)

\* Reading the flattened tree by its counts gives the tree back.
ReadBack(flat) ==
    LET node[i \in 1 .. Len(flat)] ==
            LET kids[k \in 0 .. flat[i][3]] ==
                    IF k = 0 THEN [seq |-> <<>>, at |-> i + 1 + flat[i][2]]
                    ELSE LET kid == node[kids[k - 1].at]
                         IN  [seq |-> Append(kids[k - 1].seq, kid.tree), at |-> kid.at]
            IN  [tree |-> [props |-> SubSeq(flat, i + 1, i + flat[i][2]),
                           kids  |-> kids[flat[i][3]].seq],
                 at |-> kids[flat[i][3]].at]
    IN  node[1].tree

FlatReadsBack ==
    LET shape[n \in NodeAddr] ==
            [props |-> PropertiesOf(n), kids |-> [i \in DOMAIN Kids(n) |-> shape[Kids(n)[i]]]]
    IN  root # 0 => ReadBack(Flatten) = shape[root]

\* The pools and lists implement an ordered tree.
Tree == INSTANCE OrderedTree WITH
            Nodes <- NodeAddr, top <- root,
            tree  <- [n \in Members |-> Kids(n)],
            attrs <- [n \in Members |-> PropertiesOf(n)]
ImplementsTree == Tree!Spec

\* The nodes that a path of names may mean.
Answering(path) ==
    LET at[i \in 0 .. Len(path)] ==
            IF i = 0 THEN {root}
            ELSE UNION {{k \in ToSet(Kids(n)) : GetName(k) = path[i]} : n \in at[i - 1]}
    IN  at[Len(path)]

Unambiguous(path) ==
    \A i \in 1 .. Len(path) : Cardinality(Answering(SubSeq(path, 1, i))) = 1

\* A search for names that are taken in one piece ends at the only node the path
\* means.
FindsNamed ==
    [][/\ walk # NoWalk /\ walk' = NoWalk
       /\ \A i \in DOMAIN walk.asked : ~ Long(walk.asked[i])
       /\ Unambiguous(walk.asked)
       => walk.path = <<>> /\ walk.at \in Answering(walk.asked)]_vars
=============================================================================
