------------------------------ MODULE Adler32 ------------------------------
(***************************************************************************)
(* The checksum of an unpacked kernel (lib/adler32.c).  The two sums grow  *)
(* without being reduced for 5000 bytes at a time, in unsigned longs: they *)
(* must not overflow in between.                                           *)
(***************************************************************************)
EXTENDS Integers

CONSTANTS Byte,      \* 256: a byte is below
          Modulus,   \* 65521
          Between,   \* 5000: bytes between two reductions
          Word       \* 2^32: an unsigned long is below

ASSUME AdlerAssumption ==
    /\ Byte \in Nat \ {0} /\ Modulus \in Nat \ {0}
    /\ Between \in Nat \ {0} /\ Word \in Nat \ {0}

VARIABLES cnt, lowHalf, highHalf,
          low, high   \* ghosts: the sums modulo Modulus, reduced at every byte

vars == <<cnt, lowHalf, highHalf, low, high>>

Init == cnt = 0 /\ lowHalf = 1 /\ highHalf = 0 /\ low = 1 % Modulus /\ high = 0

\* Mutant: one byte more between two reductions.
ReducedLate(sum) == IF cnt % (Between + 1) = 0 THEN sum % Modulus ELSE sum

Reduced(sum) == IF cnt % Between = 0 THEN sum % Modulus ELSE sum

\* One round of the loop, for the byte buffer[cnt].
Add(byte) ==
    /\ cnt' = cnt + 1
    /\ lowHalf' = (Reduced(lowHalf) + byte) % Word
    /\ highHalf' = (Reduced(highHalf) + lowHalf') % Word
    /\ low' = (low + byte) % Modulus
    /\ high' = (high + low') % Modulus

Next == \E byte \in 0 .. Byte - 1 : Add(byte)

Spec == Init /\ [][Next]_vars

\* The halves of the result after the last byte.
Result == [low |-> lowHalf % Modulus, high |-> highHalf % Modulus]

-----------------------------------------------------------------------------

AddsWhole ==
    \E byte \in 0 .. Byte - 1 :
        /\ lowHalf' = Reduced(lowHalf) + byte
        /\ highHalf' = Reduced(highHalf) + lowHalf'

\* Adler32: neither sum is ever cut off at the size of an unsigned long.
NeverWraps == [][AddsWhole]_vars

\* Adler32: after any number of bytes the result is that of sums which are
\* reduced at every byte; reducing them every 5000 bytes loses nothing.
IsAdler == Result = [low |-> low, high |-> high]
=============================================================================
