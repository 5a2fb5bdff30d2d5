-------------------------------- MODULE Lzss --------------------------------
(***************************************************************************)
(* decompress_lzss (lib/lzss.c), a byte of the source at a time.  The      *)
(* sizes follow from that of a byte's half: a match is a position of three *)
(* halves of a byte and a length of one half.                              *)
(*                                                                         *)
(* The bytes of text_buf that the code does not set are Uninitialized.     *)
(***************************************************************************)
EXTENDS Integers, Sequences

CONSTANTS w,            \* 8: bits of a byte
          Half,         \* 16: values of half a byte
          THRESHOLD,    \* 2
          Blank,        \* ' '
          Uninitialized

Bytes == 0 .. Half * Half - 1
N == Half * Half * Half
F == Half + THRESHOLD

VARIABLES flags, next,   \* the flags that are left; what the next byte is: "flags", "byte", "low", "high"
          i,             \* a match's first byte
          text_buf, r,   \* the ring buffer, and where it goes on
          dst,           \* what was written
          srcend         \* whether the source is at its end

vars == <<flags, next, i, text_buf, r, dst, srcend>>

\* flags is the word c | 0xFF00 shifted right until bit 8 is clear: the items
\* that the byte has left, the next one first.
Flags(c) == [k \in 1 .. w |-> (c \div 2 ^ (k - 1)) % 2]

\* What comes after an item: the next one by its flag, or a byte of flags.
Following(left) ==
    IF left = <<>> THEN "flags" ELSE IF Head(left) = 1 THEN "byte" ELSE "low"

Init ==
    /\ flags = <<>> /\ next = "flags" /\ i = 0
    /\ text_buf = [p \in 0 .. N - 1 |-> IF p < N - F THEN Blank ELSE Uninitialized]
    /\ r = N - F
    /\ dst = <<>> /\ srcend = FALSE

ReadFlags(c) ==
    /\ next = "flags"
    /\ flags' = Flags(c) /\ next' = Following(flags')
    /\ UNCHANGED <<i, text_buf, r, dst, srcend>>

Literal(c) ==
    /\ next = "byte"
    /\ dst' = Append(dst, c)
    /\ text_buf' = [text_buf EXCEPT ![r] = c]
    /\ r' = (r + 1) % N
    /\ flags' = Tail(flags) /\ next' = Following(flags')
    /\ UNCHANGED <<i, srcend>>

MatchLow(c) ==
    /\ next = "low"
    /\ i' = c /\ next' = "high"
    /\ UNCHANGED <<flags, text_buf, r, dst, srcend>>

\* Mutant: all bytes are read before the first is written.
CopiedAtOnce(from, count) ==
    [buf |-> [p \in 0 .. N - 1 |-> IF (p - r) % N < count THEN text_buf[(from + ((p - r) % N)) % N] ELSE text_buf[p]],
     out |-> [k \in 1 .. count |-> text_buf[(from + k - 1) % N]]]

\* The bytes of a match, one after the other: it may overlap what it writes.
Copied(from, count) ==
    LET step[k \in 0 .. count] ==
            IF k = 0 THEN [buf |-> text_buf, out |-> <<>>]
            ELSE LET done == step[k - 1]
                     c    == done.buf[(from + k - 1) % N]
                 IN  [buf |-> [done.buf EXCEPT ![(r + k - 1) % N] = c], out |-> Append(done.out, c)]
    IN  step[count]

\* The first byte's bits and the upper half of the second are the position, the
\* lower half the length.
MatchHigh(c) ==
    /\ next = "high"
    /\ LET from   == i + (c \div Half) * (Half * Half)
           count  == (c % Half) + THRESHOLD + 1
           copied == Copied(from, count)
       IN  /\ text_buf' = copied.buf
           /\ dst' = dst \o copied.out
           /\ r' = (r + count) % N
    /\ flags' = Tail(flags) /\ next' = Following(flags')
    /\ UNCHANGED <<i, srcend>>

\* Wherever the next byte would be read.
EndOfSource == ~ srcend /\ srcend' = TRUE /\ UNCHANGED <<flags, next, i, text_buf, r, dst>>

ReadByte(c) == ~ srcend /\ (ReadFlags(c) \/ Literal(c) \/ MatchLow(c) \/ MatchHigh(c))

Next == EndOfSource \/ \E c \in Bytes : ReadByte(c)

Spec == Init /\ [][Next]_vars
=============================================================================
