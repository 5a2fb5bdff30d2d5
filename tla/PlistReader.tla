---------------------------- MODULE PlistReader ----------------------------
(***************************************************************************)
(* What the parser of lib/xml.c promises: the value of an element holds    *)
(* the values of the elements inside it, in the order of the document.     *)
(* A value is a record of a type, a string and the values inside; the      *)
(* elements that are open are the values still under construction.         *)
(***************************************************************************)
EXTENDS Integers, Sequences

CONSTANTS ListTypes, LeafTypes, Strings, NoString

VARIABLES
    open,      \* the open elements, the innermost last
    last       \* what was read last: a value, or one of the following

Pending == [is |-> "pending"]    \* nothing: the next tag is to be read
Null    == [is |-> "null"]       \* a tag that is no value
Failure == [is |-> "failure"]    \* the document ended, or memory did
Ended   == [is |-> "ended"]

Value(type, string, items) == [type |-> type, string |-> string, items |-> items]

Inner == open[Len(open)]
Outer == SubSeq(open, 1, Len(open) - 1)

Init == open = <<>> /\ last = Pending

Open == \/ \E type \in ListTypes : open' = Append(open, Value(type, NoString, <<>>))
        \/ \E string \in Strings : open' = Append(open, Value("key", string, <<>>))

Leaf == \/ \E type \in LeafTypes \union ListTypes : last' = Value(type, NoString, <<>>)
        \/ \E string \in Strings : last' = Value("string", string, <<>>)

Read == /\ last = Pending
        /\ \/ Open /\ UNCHANGED last
           \/ Leaf /\ UNCHANGED open
           \/ last' \in {Null, Failure} /\ UNCHANGED open

Fail == last # Pending /\ open # <<>> /\ open' = Outer /\ last' = Failure

IsValue == last \notin {Pending, Null, Failure, Ended}

\* A value inside a list, the end of a list, the value of a key.
Add == /\ open # <<>> /\ Inner.type \in ListTypes /\ IsValue
       /\ open' = [open EXCEPT ![Len(open)].items = Append(@, last)]
       /\ last' = Pending

Close == /\ open # <<>> /\ Inner.type \in ListTypes /\ last = Null
         /\ open' = Outer /\ last' = Inner

CloseKey == /\ open # <<>> /\ Inner.type = "key" /\ (last = Null \/ IsValue)
            /\ open' = Outer
            /\ last' = [Inner EXCEPT !.items = IF last = Null THEN <<>> ELSE <<last>>]

Deliver == /\ open = <<>> /\ last \notin {Pending, Ended}
           /\ last' \in {Pending, Ended} /\ UNCHANGED open

\* The machine panics.
Halt == last' = Ended /\ UNCHANGED open

Next == Halt \/ Read \/ Fail \/ Add \/ Close \/ CloseKey \/ Deliver

Spec == Init /\ [][Next]_<<open, last>>
=============================================================================
