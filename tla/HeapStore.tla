----------------------------- MODULE HeapStore -----------------------------
(***************************************************************************)
(* What malloc, free and realloc promise their callers (lib/core/malloc.c).*)
(* Every owner holds at most one region; contents[o] is who wrote each     *)
(* word of it, and an owner fills what it is given.                        *)
(***************************************************************************)
EXTENDS Integers, Sequences

CONSTANTS
    Owners,
    MaxSize     \* no region is larger

VARIABLE contents   \* for every owner the words of its region, <<>> for none

Filled(o, n) == [i \in 1 .. n |-> o]

Init == contents = [o \in Owners |-> <<>>]

\* malloc, and realloc of what there is: nothing else changes.
Hold(o, n) == contents' = [contents EXCEPT ![o] = Filled(o, n)]

\* The loader is started again over the same memory.
Restart == Init'

Next == \/ \E o \in Owners, n \in 0 .. MaxSize : Hold(o, n)
        \/ Restart

Spec == Init /\ [][Next]_contents
=============================================================================
