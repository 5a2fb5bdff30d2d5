------------------------------ MODULE CString ------------------------------
(***************************************************************************)
(* The string functions of the boot loader that decide something           *)
(* (lib/crt/libc_stub.c).  A character is a string of length 1, a C string *)
(* the sequence of its characters without the final NUL.                   *)
(***************************************************************************)
EXTENDS Integers, SequencesExt

CONSTANT LongBits   \* 32: the width of a long

NUL == ""
Digits == <<"0", "1", "2", "3", "4", "5", "6", "7", "8", "9">>
Lower == <<"a", "b", "c", "d", "e", "f", "g", "h", "i", "j", "k", "l", "m",
           "n", "o", "p", "q", "r", "s", "t", "u", "v", "w", "x", "y", "z">>
Upper == <<"A", "B", "C", "D", "E", "F", "G", "H", "I", "J", "K", "L", "M",
           "N", "O", "P", "Q", "R", "S", "T", "U", "V", "W", "X", "Y", "Z">>

\* *(s + i - 1)
At(s, i) == IF i \in DOMAIN s THEN s[i] ELSE NUL

Position(c, s) == CHOOSE i \in DOMAIN s : s[i] = c

tolower(c) == IF c \in ToSet(Upper) THEN Lower[Position(c, Upper)] ELSE c

-----------------------------------------------------------------------------
(* strtol, strtoul *)

isspace(c) == c \in {" ", "\t", "\n"}

\* What a character counts as a digit
DigitValue(c) ==
    IF c \in ToSet(Digits) THEN Position(c, Digits) - 1
    ELSE IF tolower(c) \in ToSet(Lower) THEN 9 + Position(tolower(c), Lower)
    ELSE 99

\* The first position from i on that none of these characters is at.
Skip(s, i, Is(_)) ==
    CHOOSE j \in i .. Len(s) + 1 :
        ~ Is(At(s, j)) /\ \A k \in i .. j - 1 : Is(At(s, k))

\* The sign, the base and where the digits begin.
Prefix(s, base) ==
    LET i     == Skip(s, 1, isspace)
        first == IF At(s, i) \in {"-", "+"} THEN i + 1 ELSE i
        has(b, c) == base \in {0, b} /\ At(s, first) = "0" /\ tolower(At(s, first + 1)) = c
    IN  [neg   |-> At(s, i) = "-",
         base  |-> IF has(16, "x") THEN 16 ELSE IF has(2, "b") THEN 2
                   ELSE IF base # 0 THEN base ELSE IF At(s, first) = "0" THEN 8 ELSE 10,
         first |-> IF has(16, "x") \/ has(2, "b") THEN first + 2 ELSE first]

NumberEnd(s, p) == Skip(s, IF p.first <= Len(s) THEN p.first ELSE Len(s) + 1,
                        LAMBDA c : DigitValue(c) < p.base)

NumberDigits(s, p) ==
    [i \in 1 .. NumberEnd(s, p) - p.first |-> DigitValue(s[p.first + i - 1])]

\* Mutant: the remainder is taken after the division.
TooBigLate(acc, digit, limit, base) ==
    \/ acc > limit \div base
    \/ acc = limit \div base /\ digit > (limit \div base) % base

\* cutoff and cutlim
TooBig(acc, digit, limit, base) ==
    \/ acc > limit \div base
    \/ acc = limit \div base /\ digit > limit % base

\* The digits as far as they fit; any is -1 when they do not, 0 if there are none.
Accumulated(s, p, limit) ==
    FoldLeft(LAMBDA r, digit :
                 IF r.any < 0 \/ TooBig(r.acc, digit, limit, p.base) THEN [r EXCEPT !.any = -1]
                 ELSE [any |-> 1, acc |-> r.acc * p.base + digit],
             [any |-> 0, acc |-> 0], NumberDigits(s, p))

LongMax == 2 ^ (LongBits - 1) - 1
ULongMax == 2 ^ LongBits - 1

\* value, and where the number ends
strtol(s, base) ==
    LET p == Prefix(s, base)
        r == Accumulated(s, p, IF p.neg THEN LongMax + 1 ELSE LongMax)
    IN  [value |-> IF r.any < 0 THEN (IF p.neg THEN - LongMax - 1 ELSE LongMax)
                   ELSE IF p.neg THEN - r.acc ELSE r.acc,
         end   |-> IF r.any = 0 THEN 1 ELSE NumberEnd(s, p)]

strtoul(s, base) ==
    LET p == Prefix(s, base)
        r == Accumulated(s, p, ULongMax)
    IN  [value |-> IF r.any < 0 THEN ULongMax
                   ELSE IF p.neg THEN (- r.acc) % 2 ^ LongBits ELSE r.acc,
         end   |-> IF r.any = 0 THEN 1 ELSE NumberEnd(s, p)]

-----------------------------------------------------------------------------
(* strncasecmp, bsearch, strtok *)

\* Where the first len characters differ, up to the end of s.
CaseDifference(s, t, len) ==
    {i \in 1 .. len : i <= Len(s) + 1 /\ tolower(At(s, i)) # tolower(At(t, i))}

\* Whether it returns 0
strncasecmp(s, t, len) == CaseDifference(s, t, len) = {}

Narrowed(l, u, m, r) == IF r < 0 THEN <<l, m - 1>> ELSE <<m + 1, u>>

\* The index, from 0, of an element that compar finds equal, or -1.  Every
\* round narrows the range, so there are no more than elements.
bsearch(key, elements, compar(_, _)) ==
    LET round(r) ==
            LET l == r.range[1]
                u == r.range[2]
                m == (l + u) \div 2
                c == compar(key, elements[m + 1])
            IN  IF l > u \/ r.found # -1 THEN r
                ELSE IF c = 0 THEN [r EXCEPT !.found = m]
                ELSE [r EXCEPT !.range = Narrowed(l, u, m, c)]
        rounds[n \in 0 .. Len(elements)] ==
            IF n = 0 THEN [range |-> <<0, Len(elements) - 1>>, found |-> -1]
            ELSE round(rounds[n - 1])
    IN  rounds[Len(elements)].found

TokenStart(s, i, delim) == Skip(s, i, LAMBDA c : c \in delim)

\* The next token from position i (the static last) on, and where the call
\* after it begins; no token, and 0, when there is none left.
strtok(s, i, delim) ==
    IF i = 0 THEN [tokens |-> <<>>, last |-> 0]
    ELSE LET start == TokenStart(s, i, delim)
             end   == Skip(s, start, LAMBDA c : c \notin delim /\ c # NUL)
         IN  IF start > Len(s) THEN [tokens |-> <<>>, last |-> 0]
             ELSE [tokens |-> <<SubSeq(s, start, end - 1)>>,
                   last   |-> IF end > Len(s) THEN 0 ELSE end + 1]
=============================================================================
