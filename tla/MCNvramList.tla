---------------------------- MODULE MCNvramList ----------------------------
(* Constants for model checking NvramList. *)
EXTENDS NvramList, TLC

CONSTANTS bootdelay, filesize, custom, long

ConsoleNames == {bootdelay, filesize, custom}
AllNames     == {bootdelay, filesize, custom, long}
OneLong      == {long}
NoCut        == [n \in {} |-> n]
\* The first 63 characters of the long name are a name in use.
LongCut      == [n \in {long} |-> custom]
TwoDefaults  == <<<<bootdelay, 0>>, <<filesize, 1>>>>
=============================================================================
