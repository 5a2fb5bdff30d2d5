----------------------------- MODULE NvramStore -----------------------------
(***************************************************************************)
(* What the NVRAM variables promise the console: a dictionary that also    *)
(* remembers which variables were overridden and lists them in the order   *)
(* in which they were first set.                                           *)
(***************************************************************************)
EXTENDS SequencesExt

CONSTANTS Names, Settings, Missing

VARIABLES
    dict,       \* the setting of each name, or Missing
    modified,   \* the names set again since they were added
    listing     \* the names, in the order nvram_dump_list prints them

Init == /\ dict = [n \in Names |-> Missing]
        /\ modified = {}
        /\ listing = <<>>

Add(n, s) ==
    /\ dict[n] = Missing
    /\ dict' = [dict EXCEPT ![n] = s]
    /\ listing' = Append(listing, n)
    /\ UNCHANGED modified

Override(n, s) ==
    /\ dict[n] # Missing
    /\ dict' = [dict EXCEPT ![n] = s]
    /\ modified' = modified \union {n}
    /\ UNCHANGED listing

Unset(n) ==
    /\ dict[n] # Missing
    /\ dict' = [dict EXCEPT ![n] = Missing]
    /\ modified' = modified \ {n}
    /\ \E i \in DOMAIN listing : listing[i] = n /\ listing' = RemoveAt(listing, i)

Next == \E n \in Names :
            \/ \E s \in Settings : Add(n, s) \/ Override(n, s)
            \/ Unset(n)

Spec == Init /\ [][Next]_<<dict, modified, listing>>
=============================================================================
