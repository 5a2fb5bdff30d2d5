------------------------------ MODULE HfsBTree ------------------------------
(***************************************************************************)
(* Looking a key up in a B-tree of the volume (lib/hfs/hfs.c,              *)
(* ReadBTreeEntry): down from the root, with a binary search in each node. *)
(*                                                                         *)
(* A key is <<ID, rest>>: parent directory and name in the catalog, file   *)
(* and first block in the extents tree.  Nodes are read whole; how is the  *)
(* subject of HfsExtents and HfsCache.                                     *)
(***************************************************************************)
EXTENDS Integers, Sequences, Functions

CONSTANTS
    IDs, Rests,     \* the parts of keys
    IDBits,         \* 32: the width of an ID
    Trees           \* the nodes of a tree, and its root

VARIABLES
    tree,       \* the nodes: kind, keys, child (of an index node), fLink (0 for none)
    root,       \* BTHeaderRec.rootNode
    key,        \* what is looked up
    curNode, lowerBound, upperBound, index, result, \* locals of ReadBTreeEntry
    pc,         \* "read", "probe", "closest" or "done"
    found       \* returned: {} or {<<record's key, node and index after it>>}

vars == <<tree, root, key, curNode, lowerBound, upperBound, index, result, pc, found>>

Keys == IDs \X Rests

-----------------------------------------------------------------------------
(* Volumes.  HFS orders keys by unsigned ID, then by the rest. *)

Before(k, l) == k[1] < l[1] \/ (k[1] = l[1] /\ k[2] < l[2])

\* What every volume keeps: in a node the keys are in order; the node behind
\* another on its level (fLink) begins where that one's keys end; an index node
\* has the first key of each of its children, which are linked to each other and
\* on to the children of the next; the other leaves lie before a leaf or behind
\* it.
InOrder(node) ==
    /\ node.keys \in Seq(Keys) /\ node.keys # <<>>
    /\ \A i, j \in DOMAIN node.keys : i < j => Before(node.keys[i], node.keys[j])

LinkedOn(nodes, node) ==
    node.fLink # 0 =>
        /\ node.fLink \in DOMAIN nodes
        /\ nodes[node.fLink].kind = node.kind
        /\ \A k \in Range(node.keys) : Before(k, nodes[node.fLink].keys[1])

Indexes(nodes, node) ==
    node.kind = "index" =>
        \A i \in DOMAIN node.keys :
            /\ node.child[i] \in DOMAIN nodes
            /\ nodes[node.child[i]].keys[1] = node.keys[i]
            /\ nodes[node.child[i]].fLink = IF i < Len(node.keys) THEN node.child[i + 1]
                                            ELSE IF node.fLink = 0 THEN 0
                                            ELSE nodes[node.fLink].child[1]

LeafApart(nodes, node, other) ==
    node.kind = "leaf" /\ other.kind = "leaf" /\ node # other =>
        \/ \A k \in Range(other.keys) : Before(k, node.keys[1])
        \/ /\ node.fLink # 0
           /\ \A k \in Range(other.keys) : ~ Before(k, nodes[node.fLink].keys[1])

IsTree(nodes, top) ==
    /\ top \in DOMAIN nodes /\ nodes[top].fLink = 0 /\ 0 \notin DOMAIN nodes
    /\ \A n \in DOMAIN nodes :
          /\ nodes[n].kind \in {"leaf", "index"}
          /\ InOrder(nodes[n]) /\ LinkedOn(nodes, nodes[n]) /\ Indexes(nodes, nodes[n])
          /\ \A k \in Range(nodes[n].keys) : ~ Before(k, nodes[top].keys[1])
          /\ \A m \in DOMAIN nodes : LeafApart(nodes, nodes[n], nodes[m])

-----------------------------------------------------------------------------
(* ReadBTreeEntry *)

Signed(id) == IF id < 2 ^ (IDBits - 1) THEN id ELSE id - 2 ^ IDBits

\* CompareHFSCatalogKeys, CompareHFSPlusCatalogKeys: the IDs are signed.
Compare(k, l) ==
    IF Signed(k[1]) > Signed(l[1]) \/ (k[1] = l[1] /\ k[2] > l[2]) THEN 1
    ELSE IF k = l THEN 0
    ELSE -1

Node == tree[curNode]

StoredKeys == {k \in Keys : \E node \in DOMAIN tree :
                  tree[node].kind = "leaf" /\ k \in Range(tree[node].keys)}

\* No caller looks for a key before the first record: the catalog begins with
\* the root folder, and what a file has in the extents tree with its first record.
Init ==
    /\ \E t \in Trees : tree = t.nodes /\ root = t.root
    /\ key \in Keys /\ \E k \in StoredKeys : k = key \/ Before(k, key)
    /\ curNode = root
    /\ lowerBound = 0 /\ upperBound = 0 /\ index = 0 /\ result = 0
    /\ pc = "read" /\ found = {}

\* Mutant: leaves the last record out.
ReadNodeShort ==
    /\ pc = "read"
    /\ lowerBound' = 0
    /\ upperBound' = Len(Node.keys) - 2
    /\ pc' = "probe"
    /\ UNCHANGED <<tree, root, key, curNode, index, result, found>>

ReadNode ==
    /\ pc = "read"
    /\ lowerBound' = 0
    /\ upperBound' = Len(Node.keys) - 1
    /\ pc' = "probe"
    /\ UNCHANGED <<tree, root, key, curNode, index, result, found>>

Probe ==
    /\ pc = "probe" /\ lowerBound <= upperBound
    /\ index' = (lowerBound + upperBound) \div 2
    /\ result' = Compare(key, Node.keys[index' + 1])
    /\ upperBound' = IF result' < 0 THEN index' - 1 ELSE upperBound
    /\ lowerBound' = IF result' > 0 THEN index' + 1 ELSE lowerBound
    /\ pc' = IF result' = 0 THEN "closest" ELSE "probe"
    /\ UNCHANGED <<tree, root, key, curNode, found>>

\* The closest record is the one before the key.
ProbesEnd ==
    /\ pc = "probe" /\ lowerBound > upperBound
    /\ index' = IF result < 0 THEN upperBound ELSE index
    /\ pc' = "closest"
    /\ UNCHANGED <<tree, root, key, curNode, lowerBound, upperBound, result, found>>

Descend ==
    /\ pc = "closest" /\ Node.kind = "index"
    /\ curNode' = Node.child[index + 1]
    /\ pc' = "read"
    /\ UNCHANGED <<tree, root, key, lowerBound, upperBound, index, result, found>>

\* What dirIndex is set to
NextRecord == IF index + 1 = Len(Node.keys) THEN <<Node.fLink, 0>> ELSE <<curNode, index + 1>>

Return ==
    /\ pc = "closest" /\ Node.kind = "leaf"
    /\ found' = IF result # 0 THEN {} ELSE {<<Node.keys[index + 1], NextRecord>>}
    /\ pc' = "done"
    /\ UNCHANGED <<tree, root, key, curNode, lowerBound, upperBound, index, result>>

Next == ReadNode \/ Probe \/ ProbesEnd \/ Descend \/ Return

Spec == Init /\ [][Next]_vars

-----------------------------------------------------------------------------
(* Properties *)

\* The key of the record dirIndex stands for
KeyAt(position) == IF position[1] = 0 THEN <<>> ELSE tree[position[1]].keys[position[2] + 1]

KeyAfter(k, S) ==
    LET later == {l \in S : Before(k, l)}
    IN  IF later = {} THEN <<>>
        ELSE CHOOSE l \in later : \A other \in later : other = l \/ Before(l, other)

\* The record of the key is found exactly when the volume has it, and dirIndex
\* is the record after it in the order of the volume.
Lookup == INSTANCE HfsLookup WITH
    stored <- StoredKeys, wanted <- key, After <- KeyAfter,
    answer <- IF pc # "done" THEN {}
              ELSE IF found = {} THEN {<<>>}
              ELSE {<<f[1], KeyAt(f[2])>> : f \in found}
ImplementsLookup == Lookup!Spec
=============================================================================
