----------------------------- MODULE HfsLookup -----------------------------
(***************************************************************************)
(* What ReadBTreeEntry promises (lib/hfs/hfs.c): the record of a key if    *)
(* there is one, and where the record after it in key order is.            *)
(***************************************************************************)
CONSTANT Keys

VARIABLES
    stored,     \* the keys of the records in the tree
    wanted,     \* the key being looked up
    answer      \* {}: none yet; {<<>>}: not there; {<<key, next>>}: next is the
                \* key of the record after it, <<>> after the last

CONSTANT After(_, _)    \* the key after k among those stored, <<>> for the last

Init == stored \subseteq Keys /\ wanted \in Keys /\ answer = {}

Reply == IF wanted \in stored THEN <<wanted, After(wanted, stored)>> ELSE <<>>

Answer == /\ answer = {}
          /\ answer' = {Reply}
          /\ UNCHANGED <<stored, wanted>>

Spec == Init /\ [][Answer]_<<stored, wanted, answer>>
=============================================================================
