---------------------------- MODULE OrderedTree ----------------------------
(***************************************************************************)
(* What lib/device_tree.c promises while it builds a tree: a node's        *)
(* children stand newest first, its properties in the order in which they  *)
(* were added, and nothing disturbs what is already there.                 *)
(***************************************************************************)
EXTENDS Sequences

CONSTANTS Nodes, Names, Strings, NoName

VARIABLES
    tree,      \* the nodes in the tree, each with its children
    attrs,     \* the properties of each, as pairs of a name and a value
    top        \* the root, or 0

Init == tree = <<>> /\ attrs = <<>> /\ top = 0

AddProperty(node, name, value) ==
    /\ node \in DOMAIN tree
    /\ attrs' = [attrs EXCEPT ![node] = Append(@, <<name, value>>)]
    /\ UNCHANGED <<tree, top>>

\* Without memory for its name a node is added all the same.
AddChild(parent, name, node) ==
    /\ node \notin DOMAIN tree
    /\ tree' = [n \in DOMAIN tree \union {node} |->
                   IF n = node THEN <<>>
                   ELSE IF n = parent THEN <<node>> \o tree[n] ELSE tree[n]]
    /\ \E first \in {<<>>} \union (IF name = NoName THEN {} ELSE {<< <<"name", name>> >>}) :
           attrs' = [n \in DOMAIN tree' |-> IF n = node THEN first ELSE attrs[n]]
    /\ top' = IF parent = 0 THEN node ELSE top

Finalize == tree' = <<>> /\ attrs' = <<>> /\ top' = 0

Next ==
    \/ \E node \in DOMAIN tree, name \in Names, value \in Strings : AddProperty(node, name, value)
    \/ \E parent \in DOMAIN tree, name \in Strings \union {NoName}, node \in Nodes :
           AddChild(parent, name, node)
    \/ \E node \in Nodes : tree = <<>> /\ AddChild(0, "/", node)
    \/ Finalize

Spec == Init /\ [][Next]_<<tree, attrs, top>>
=============================================================================
