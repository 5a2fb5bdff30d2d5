---------------------------- MODULE MemoryTester ----------------------------
(***************************************************************************)
(* The console command memorytester (lib/memorytester), on memory with a   *)
(* fault: a bit of one word, a data line or an address line that is stuck. *)
(* A word has w bits and starts at every fourth address; mem is what the   *)
(* cells hold.  A round writes one pattern and reads it back.              *)
(***************************************************************************)
EXTENDS Integers, Sequences, FiniteSets

CONSTANTS w,            \* 32: bits of a word
          Words,        \* words of the region
          PageWords,    \* words of a page
          HeapPages     \* pages that malloc can give

VARIABLES mem, fault,
          heap,              \* pages that malloc still gives
          want, bufsize,     \* words that were asked for, and that are tested
          loops, loop,
          test, j,           \* 0 is the stuck address test, then tests[]; its round
          exit_code, state   \* "prompt" between commands, "testing" within one

vars == <<mem, fault, heap, want, bufsize, loops, loop, test, j, exit_code, state>>

Cells == 0 .. Words - 1
Word == 0 .. 2 ^ w - 1
UL_ONEBITS == 2 ^ w - 1
Not1(v) == UL_ONEBITS - v

Lines == {k \in 0 .. Words : 2 ^ k < Words}

Faults ==
    [kind : {"none"}] \union [kind : {"bit"}, cell : Cells, line : 0 .. w - 1, at : {0, 1}]
    \union [kind : {"data"}, line : 0 .. w - 1, at : {0, 1}]
    \union [kind : {"address"}, line : Lines, at : {0, 1}]

Stuck(v, line, at) == v + (at - ((v \div 2 ^ line) % 2)) * 2 ^ line

\* The cell that an address reaches, and what it keeps of a value.
Cell(i) == IF fault.kind = "address" THEN Stuck(i, fault.line, fault.at) ELSE i

Kept(c, v) ==
    IF fault.kind = "data" \/ (fault.kind = "bit" /\ fault.cell = c)
    THEN Stuck(v, fault.line, fault.at) ELSE v

Write(m, i, v) == [m EXCEPT ![Cell(i)] = Kept(Cell(i), v)]
Read(m, i) == m[Cell(i)]

-----------------------------------------------------------------------------

\* Mutant: every other word the same.
Striped(round, i) == IF (round + i) % 2 = 0 THEN 0 ELSE UL_ONEBITS

\* A word's own address, or its complement.
OwnAddress(round, i) == IF (round + i) % 2 = 0 THEN 4 * i ELSE Not1(4 * i)

\* rand() is 4 for both halves of a word.
rand_ul == 4 + 4 * 2 ^ (w \div 2)

Bit(k) == IF k < w THEN 2 ^ k ELSE 0

\* Up and back down.
Walk(round) == IF round < w THEN round ELSE 2 * w - round - 1

Alternating(q, i) == IF i % 2 = 0 THEN q ELSE Not1(q)

tests ==
    <<"Random Value", "Compare XOR", "Compare SUB", "Compare MUL", "Compare DIV", "Compare OR",
      "Compare AND", "Sequential Increment", "Solid Bits", "Block Sequential", "Checkerboard",
      "Bit Spread", "Bit Flip", "Walking Ones", "Walking Zeroes">>

Compares ==
    {"Compare XOR", "Compare SUB", "Compare MUL", "Compare DIV", "Compare OR", "Compare AND"}

\* The word whose bits are op of the bits of v and of u.
Bits(op(_, _), v, u) ==
    LET bit(n, k) == (n \div 2 ^ k) % 2
        upTo[k \in 0 .. w] ==
            IF k = 0 THEN 0 ELSE upTo[k - 1] + op(bit(v, k - 1), bit(u, k - 1)) * 2 ^ (k - 1)
    IN  upTo[w]

\* A word after the operation of the test, on both halves alike.
Operated(name, v) ==
    CASE name = "Compare XOR" -> Bits(LAMBDA a, b : (a + b) % 2, v, rand_ul)
      [] name = "Compare SUB" -> (v - rand_ul) % (2 ^ w)
      [] name = "Compare MUL" -> (v * rand_ul) % (2 ^ w)
      [] name = "Compare DIV" -> v \div rand_ul
      [] name = "Compare OR"  -> Bits(LAMBDA a, b : IF a + b > 0 THEN 1 ELSE 0, v, rand_ul)
      [] name = "Compare AND" -> Bits(LAMBDA a, b : a * b, v, rand_ul)

\* What the test writes to the i-th word of both halves.
Pattern(name, round, i) ==
    CASE name = "Random Value"         -> rand_ul
      [] name = "Sequential Increment" -> (i + rand_ul) % (2 ^ w)
      [] name = "Solid Bits"           -> Alternating(IF round % 2 = 0 THEN UL_ONEBITS ELSE 0, i)
      [] name = "Checkerboard"         ->
            Alternating(IF round % 2 = 0 THEN UL_ONEBITS \div 3 ELSE Not1(UL_ONEBITS \div 3), i)
      [] name = "Block Sequential"     -> round * (UL_ONEBITS \div (2 ^ (w \div 4) - 1))
      [] name = "Bit Spread"           -> Alternating(Bit(Walk(round)) + Bit(Walk(round) + 2), i)
      [] name = "Bit Flip"             ->
            Alternating(IF round % 2 = 0 THEN Not1(Bit(round \div 8))
                        ELSE Bit(round \div 8), i)
      [] name = "Walking Ones"         -> UL_ONEBITS - Bit(Walk(round))
      [] name = "Walking Zeroes"       -> Bit(Walk(round))

Rounds(name) ==
    CASE name \in {"Solid Bits", "Checkerboard"} -> 64
      [] name = "Block Sequential"               -> 2 ^ (w \div 4)
      [] name \in {"Bit Spread", "Walking Ones", "Walking Zeroes"} -> 2 * w
      [] name = "Bit Flip"                       -> 8 * w
      [] OTHER                                   -> 1

-----------------------------------------------------------------------------

count == bufsize \div 2

\* The memory after f(m, i) was done for the first n words.
Done(n, f(_, _)) ==
    LET upTo[i \in 0 .. n] == IF i = 0 THEN mem ELSE f(upTo[i - 1], i - 1) IN upTo[n]

Written ==
    IF test = 0 THEN Done(bufsize, LAMBDA m, i : Write(m, i, OwnAddress(j, i)))
    ELSE IF tests[test] \in Compares
    THEN Done(count, LAMBDA m, i :
            LET first == Write(m, i, Operated(tests[test], Read(m, i)))
            IN  Write(first, count + i, Operated(tests[test], Read(first, count + i))))
    ELSE Done(count, LAMBDA m, i :
            Write(Write(m, count + i, Pattern(tests[test], j, i)), i, Pattern(tests[test], j, i)))

compare_regions(m) == \A i \in 0 .. count - 1 : Read(m, i) = Read(m, count + i)

Passes(m) ==
    IF test = 0 THEN \A i \in 0 .. bufsize - 1 : Read(m, i) = OwnAddress(j, i) ELSE compare_regions(m)

Init ==
    /\ mem = [c \in Cells |-> 0] /\ fault \in Faults /\ heap = HeapPages
    /\ want = 0 /\ bufsize = 0 /\ loops = 0 /\ loop = 0 /\ test = 0 /\ j = 0
    /\ exit_code = {} /\ state = "prompt"

\* command_memorytest up to its first test: argc does not count the command's
\* name.  malloc is asked for a page less until it gives; nothing is freed,
\* and the region is tested, not what malloc gave.
Start(argc, pages, third) ==
    /\ state = "prompt"
    /\ IF argc < 3 \/ pages = 0
       THEN exit_code' = {"NONSTARTER"} /\ UNCHANGED <<heap, want, bufsize, loops, loop, state>>
       ELSE /\ loops' = IF argc < 4 THEN 1 ELSE third
            /\ want' = pages * PageWords
            /\ LET given == IF pages <= heap THEN pages ELSE heap
               IN  bufsize' = given * PageWords /\ heap' = heap - given
            /\ loop' = 1 /\ exit_code' = {} /\ state' = "testing"
    /\ test' = 0 /\ j' = 0
    /\ UNCHANGED <<mem, fault>>

LastRound == IF test = 0 THEN 16 - 1 ELSE Rounds(tests[test]) - 1

\* One round; the test ends with its last one or when words differ.
Round ==
    /\ state = "testing"
    /\ mem' = Written
    /\ LET ends == ~ Passes(mem') \/ j = LastRound
           last == test = Len(tests)
       IN  /\ exit_code' = IF Passes(mem') THEN exit_code
                           ELSE exit_code \union {IF test = 0 THEN "ADDRESSLINES" ELSE "OTHERTEST"}
           /\ j' = IF ends THEN 0 ELSE j + 1
           /\ test' = IF ~ ends THEN test ELSE IF last THEN 0 ELSE test + 1
           /\ loop' = IF ends /\ last THEN loop + 1 ELSE loop
           /\ state' = IF ends /\ last /\ loops # 0 /\ loop' > loops THEN "prompt" ELSE "testing"
    /\ UNCHANGED <<fault, heap, want, bufsize, loops>>
=============================================================================
