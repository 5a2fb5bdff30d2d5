--------------------------- MODULE MCConsoleLine ---------------------------
(***************************************************************************)
(* A line of the console from its first key to the call of a command       *)
(* (boot/parser.c, command_prompt): LineEditor hands what it executes to   *)
(* CommandParse.  The string functions they and the commands use are       *)
(* checked beside them, on strings of their own: a behaviour is about      *)
(* either.                                                                 *)
(***************************************************************************)
EXTENDS LineEditor

VARIABLES part, array, called, argc,    \* of CommandParse
          s, t                          \* two strings

Keys == {"a", " ", ",", "\""}

Commands == << <<"a">>, <<"a", "a">> >>

Parser == INSTANCE CommandParse WITH
    LongBits <- 32, ArraySize <- 3, gDispatch <- Commands, str <- executing

NoCall == array = <<>> /\ called = 0 /\ argc = 0

\* safe_gets returns to command_prompt, which calls command_parse and goes on.
LineNext ==
    \/ /\ executing = NoCommand
       /\ Next
       /\ array' = <<>> /\ called' = 0 /\ argc' = 0
    \/ /\ executing # NoCommand
       /\ Parser!command_parse
       /\ UNCHANGED <<buffer, screen, typed, killed>>

-----------------------------------------------------------------------------
(* The string functions, with longs of six bits *)

C == INSTANCE CString WITH LongBits <- 6

Written    == {"0", "1", "3", "7", "a", "b", "B", "x", "-", " "}
Delimiting == {"b", " "}
MaxLength  == 4

StringNext ==
    \/ Len(s) < MaxLength /\ s' \in {Append(s, c) : c \in Written} /\ t' = t
    \/ Len(t) < 2 /\ t' \in {Append(t, c) : c \in Delimiting} /\ s' = s
    \/ Len(s) = MaxLength /\ s' = <<>> /\ t' = <<>>

-----------------------------------------------------------------------------

MCInit == part \in {"line", "strings"} /\ Init /\ NoCall /\ s = <<>> /\ t = <<>>

MCNext ==
    /\ part' = part
    /\ \/ part = "line" /\ LineNext /\ UNCHANGED <<s, t>>
       \/ part = "strings" /\ StringNext /\ UNCHANGED <<vars, array, called, argc>>

MCSpec == MCInit /\ [][MCNext]_<<part, vars, array, called, argc, s, t>>

-----------------------------------------------------------------------------

\* util_parse: the function that is called gets exactly the parts of the line
\* as arguments, as many as argc says and the array holds, each blank that was
\* quoted in its place.
ArgumentsMeant == Parser!ArgumentsMeant

\* What a string says as a number of this base
Meant(base) ==
    LET p == C!Prefix(s, base)
        value == FoldLeft(LAMBDA n, digit : n * p.base + digit, 0, C!NumberDigits(s, p))
    IN  IF p.neg THEN - value ELSE value

Clipped(value, least, most) == IF value > most THEN most ELSE IF value < least THEN least ELSE value

\* The number, or the end of the range that it is outside of; as unsigned,
\* negative ones modulo 2^32, and ULONG_MAX for those that have more bits.
NumbersRead ==
    \A base \in {0, 2, 8, 10, 16} :
        /\ C!strtol(s, base).value = Clipped(Meant(base), - C!LongMax - 1, C!LongMax)
        /\ C!strtoul(s, base).value =
              IF Meant(base) \in - C!ULongMax .. C!ULongMax THEN Meant(base) % (C!ULongMax + 1)
              ELSE C!ULongMax

\* Equal exactly when the beginnings of that length are, in lower case
CaseIgnored ==
    \A len \in 0 .. 3 :
        LET start(x) == [i \in 1 .. (IF Len(x) < len THEN Len(x) ELSE len) |-> C!tolower(x[i])]
        IN  C!strncasecmp(s, t, len) <=> start(s) = start(t)

Compare(a, b) == C!Position(a, C!Lower) - C!Position(b, C!Lower)

\* Of a sorted array, an element is found exactly if it is there.
SearchFinds ==
    LET letters == ToSet(C!Lower)
        sorted  == SortSeq(SelectSeq(s, LAMBDA c : c \in letters), LAMBDA a, b : Compare(a, b) < 0)
    IN  \A c \in Written \intersect letters :
            LET i == C!bsearch(c, sorted, Compare)
            IN  IF c \in ToSet(sorted) THEN C!At(sorted, i + 1) = c ELSE i = -1

\* strtol, strtoul, strncasecmp and bsearch (lib/crt/libc_stub.c) do what their
\* names promise: numbers at the ends of their range are read right, a string
\* is compared no further than its end, and a search neither misses nor invents.
StringContracts == NumbersRead /\ CaseIgnored /\ SearchFinds
=============================================================================
