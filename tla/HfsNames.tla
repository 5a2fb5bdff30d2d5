------------------------------ MODULE HfsNames ------------------------------
(***************************************************************************)
(* The names of a volume (lib/hfs/hfs_compare.c): the order of HFS names   *)
(* (FastRelString), of HFS+ names (FastUnicodeCompare) and of names on     *)
(* case-sensitive volumes (BinaryUnicodeCompare), and their form in paths  *)
(* (utf_encodestr, utf_decodestr).                                         *)
(*                                                                         *)
(* A name is a sequence of 16-bit characters, as a path or the volume      *)
(* gives it; the bytes of an HFS name are characters below 256.  On the    *)
(* volume the high byte is first, which the machine reads as the low one.  *)
(***************************************************************************)
EXTENDS Integers, SequencesExt

CONSTANTS
    Characters,     \* the characters of names
    MaxLength,      \* bound: of the names compared
    gLowerCaseTable,    \* the tables, as InitCompareTables unpacked them: that
    CompareTables,      \* of HFS names for each thing that may follow it
    BufferSizes     \* the sizes of the buffers names are encoded into

VARIABLES
    name1, name2,   \* two names
    beyond          \* which of the tables of HFS names there is

vars == <<name1, name2, beyond>>

gCompareTable == CompareTables[beyond]

Smaller(a, b) == IF a < b THEN a ELSE b
Sign(n) == IF n < 0 THEN -1 ELSE IF n > 0 THEN 1 ELSE 0
Swap16(c) == (c % 256) * 256 + c \div 256

-----------------------------------------------------------------------------
(* Order *)

\* Where two sequences of sort words first differ decides, else bestGuess.
FirstDifference(s, t, bestGuess) ==
    LET differ == {i \in 1 .. Smaller(Len(s), Len(t)) : s[i] # t[i]}
    IN  IF differ = {} THEN bestGuess
        ELSE LET i == CHOOSE i \in differ : \A j \in differ : i <= j
             IN  Sign(s[i] - t[i])

FastRelString(s, t, table) ==
    LET words(u) == [i \in DOMAIN u |-> table[u[i] + 1]]
    IN  FirstDifference(words(s), words(t), Sign(Len(s) - Len(t)))

FoldCase(c) ==
    LET temp == gLowerCaseTable[c \div 256 + 1]
    IN  IF temp = 0 THEN c ELSE gLowerCaseTable[temp + (c % 256) + 1]

\* Mutant: characters that are to be ignored end the name.
NextValidCharAny(s, i) == IF i > Len(s) THEN <<0, i>> ELSE <<FoldCase(s[i]), i + 1>>

\* The next character that is not ignored, 0 at the end, and where to go on
NextValidChar(s, i) ==
    LET valid == {j \in i .. Len(s) : FoldCase(s[j]) # 0}
    IN  IF valid = {} THEN <<0, Len(s) + 1>>
        ELSE LET j == CHOOSE j \in valid : \A k \in valid : j <= k
             IN  <<FoldCase(s[j]), j + 1>>

FastUnicodeCompare(s, t) ==
    LET from[i \in 1 .. Len(s) + 1, j \in 1 .. Len(t) + 1] ==
            LET c1 == NextValidChar(s, i)
                c2 == NextValidChar(t, j)
            IN  IF c1[1] # c2[1] THEN Sign(c1[1] - c2[1])
                ELSE IF c1[1] = 0 THEN 0
                ELSE from[c1[2], c2[2]]
    IN  from[1, 1]

\* The characters are compared as the machine reads them.
AsRead(s) == [i \in DOMAIN s |-> Swap16(s[i])]

BinaryUnicodeCompare(s, t) == FirstDifference(AsRead(s), AsRead(t), Sign(Len(s) - Len(t)))

-----------------------------------------------------------------------------
(* UTF-8 *)

Encoded(c) ==
    IF c = 0 THEN <<>>
    ELSE IF c < 128 THEN <<c>>
    ELSE IF c < 2048 THEN <<192 + c \div 64, 128 + (c % 64)>>
    ELSE <<224 + c \div 4096, 128 + ((c \div 64) % 64), 128 + (c % 64)>>

\* Mutant: looks at the first byte only.
FitsFirst(out, c, bufsize) == Len(out) < bufsize

\* A character is written in whole or not at all; 0 needs room for one, too.
Fits(out, c, bufsize) ==
    Len(out) + (IF c = 0 THEN 1 ELSE Len(Encoded(c))) <= bufsize

\* The bytes before the final 0
utf_encodestr(s, bufsize) ==
    FoldLeft(LAMBDA r, c : IF r.full \/ ~ Fits(r.out, c, bufsize) THEN [r EXCEPT !.full = TRUE]
                           ELSE [r EXCEPT !.out = @ \o Encoded(c)],
             [out |-> <<>>, full |-> FALSE], s).out

Continues(bytes, i) == i \in DOMAIN bytes /\ bytes[i] \in 128 .. 191

\* How many bytes a character has that begins with this one; 0 for none.
ByteCount(byte) ==
    IF byte < 128 THEN 1
    ELSE IF byte \in 192 .. 223 THEN 2
    ELSE IF byte \in 224 .. 239 THEN 3
    ELSE 0

Decoded(bytes, i) ==
    CASE ByteCount(bytes[i]) = 1 -> bytes[i]
      [] ByteCount(bytes[i]) = 2 -> (bytes[i] % 32) * 64 + (bytes[i + 1] % 64)
      [] OTHER -> (bytes[i] % 16) * 4096 + (bytes[i + 1] % 64) * 64 + (bytes[i + 2] % 64)

\* Until the end, the first byte that is wrong, or as many characters as the
\* buffer is told to hold.
utf_decodestr(bytes, bufsize) ==
    LET from[i \in 1 .. Len(bytes) + 3, n \in 0 .. Len(bytes)] ==
            IF i > Len(bytes) \/ 2 * n >= bufsize \/ ByteCount(bytes[i]) = 0
               \/ \E j \in 1 .. ByteCount(bytes[i]) - 1 : ~ Continues(bytes, i + j)
            THEN <<>>
            ELSE <<Decoded(bytes, i)>> \o from[i + ByteCount(bytes[i]), n + 1]
    IN  from[1, 0]

-----------------------------------------------------------------------------
(* Names *)

Init == name1 = <<>> /\ name2 = <<>> /\ beyond \in DOMAIN CompareTables

Longer(name) == {Append(name, c) : c \in IF Len(name) < MaxLength THEN Characters ELSE {}}

Next ==
    \/ name1' \in Longer(name1) /\ UNCHANGED <<name2, beyond>>
    \/ name2' \in Longer(name2) /\ UNCHANGED <<name1, beyond>>

Spec == Init /\ [][Next]_vars

-----------------------------------------------------------------------------
(* Properties *)

\* The order of sequences of numbers, and what a comparison says of it.
Below(s, t) == \/ IsStrictPrefix(s, t)
               \/ \E i \in 1 .. Smaller(Len(s), Len(t)) :
                      SubSeq(s, 1, i - 1) = SubSeq(t, 1, i - 1) /\ s[i] < t[i]
OrderOf(s, t) == IF Below(s, t) THEN -1 ELSE IF Below(t, s) THEN 1 ELSE 0

\* FastUnicodeCompare: "All ignorable characters are folded to the value zero."
\* HFS+ names are ordered as their folded characters without those are: a total
\* order, which the search in a sorted tree needs, and the same for names that
\* differ in case or in characters nobody sees.
UnicodeOrder ==
    LET folded(s) == SelectSeq([i \in DOMAIN s |-> FoldCase(s[i])], LAMBDA c : c # 0)
    IN  FastUnicodeCompare(name1, name2) = OrderOf(folded(name1), folded(name2))

\* FastRelString: HFS names are ordered by their sort words, and a name is
\* after its beginnings, whatever follows the table in memory.
MacOrder ==
    LET bytes1 == SelectSeq(name1, LAMBDA c : c < 256)
        bytes2 == SelectSeq(name2, LAMBDA c : c < 256)
        words(bytes) == [i \in DOMAIN bytes |-> gCompareTable[bytes[i] + 1]]
    IN  FastRelString(bytes1, bytes2, gCompareTable) = OrderOf(words(bytes1), words(bytes2))

\* BinaryUnicodeCompare: names that differ at all are different, and those of a
\* case-sensitive volume are ordered by their characters with the bytes exchanged.
BinaryOrder == BinaryUnicodeCompare(name1, name2) = OrderOf(AsRead(name1), AsRead(name2))

\* utf_encodestr, utf_decodestr: a name that is listed and then used in a path
\* is the name again; one that is too long for the buffer loses characters at
\* its end but none is cut in half, and the buffer is not overrun.
NameSurvives ==
    LET visible == SelectSeq(name1, LAMBDA c : c # 0)
    IN  \A size \in BufferSizes :
            LET bytes == utf_encodestr(name1, size)
                again == utf_decodestr(bytes, 2 * (Len(name1) + 1))
            IN  /\ Len(bytes) <= size
                /\ IsPrefix(again, visible)
                /\ size >= 3 * MaxLength => again = visible
=============================================================================
