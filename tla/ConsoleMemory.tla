--------------------------- MODULE ConsoleMemory ---------------------------
(***************************************************************************)
(* The console commands that read and write memory (boot/commands.c) and   *)
(* the range they are let into (boot/permissions.c).  Memory is a function *)
(* from addresses to bytes.  A command has its arguments as numbers, a     *)
(* string as the sequence of its bytes; what strtoul makes of the text is  *)
(* in CString.                                                             *)
(***************************************************************************)
EXTENDS Integers, Sequences

CONSTANTS Byte,      \* 256: the number of values of a byte
          DramBase, Window,   \* DRAM_BASE, 32 MB
          End,       \* the addresses are 0 .. End
          Addresses, Numbers, Texts   \* bound: the arguments of commands

VARIABLES memory,
          shown,     \* the number that the last command printed, or 0
          put        \* ghost: what was written last, if it was a number

vars == <<memory, shown, put>>

gLowLimit == DramBase
gHighLimit == DramBase + Window

\* Mutant: the lower limit is forgotten.
permissions_range_high(address) == address <= gHighLimit

permissions_range_check(address) == gLowLimit <= address /\ address <= gHighLimit

NoNumber == [address |-> 0, size |-> 0, data |-> 0]

Init == memory = [a \in 0 .. End |-> 0] /\ shown = 0 /\ put = NoNumber

\* The bytes from address on, from the lowest.
Stored(address, bytes) ==
    [a \in DOMAIN memory |->
        IF a - address + 1 \in DOMAIN bytes THEN bytes[a - address + 1] ELSE memory[a]]

Half == Byte * Byte

\* Mutant: the highest byte first.
WordReversed(data) ==
    <<(data \div (Half * Byte)) % Byte, (data \div Half) % Byte, (data \div Byte) % Byte, data % Byte>>

Word(data) ==
    <<data % Byte, (data \div Byte) % Byte, (data \div Half) % Byte, (data \div (Half * Byte)) % Byte>>

Loaded(address, size) ==
    LET byte(i) == memory[address + i]
    IN  byte(0) + (IF size > 1 THEN Byte * byte(1) ELSE 0)
                + (IF size > 2 THEN Half * byte(2) + (Half * Byte) * byte(3) ELSE 0)

Write(address, bytes) ==
    /\ IF permissions_range_check(address) THEN memory' = Stored(address, bytes)
       ELSE UNCHANGED memory   \* Permission Denied
    /\ shown' = 0

WriteNumber(address, size, data) ==
    /\ Write(address, Word(data))
    /\ put' = [address |-> address, size |-> size, data |-> data]

Show(address, size) ==
    /\ IF permissions_range_check(address) THEN shown' = Loaded(address, size)
       ELSE shown' = 0
    /\ UNCHANGED <<memory, put>>

command_mws(address, string) == Write(address, Append(string, 0)) /\ put' = NoNumber
command_mwb(address, data) == WriteNumber(address, 1, data % Byte)
command_mwh(address, data) == WriteNumber(address, 2, data % Half)
command_mw(address, data) == WriteNumber(address, 4, data % (Half * Half))

command_mdb(address) == Show(address, 1)
command_mdh(address) == Show(address, 2)
command_md(address) == Show(address, 4)

\* A number is written and read at its own alignment.
Next ==
    \/ \E address \in Addresses, data \in Numbers :
          /\ address % 4 = 0
          /\ \/ command_mwb(address, data)
             \/ command_mwh(address, data)
             \/ command_mw(address, data)
    \/ \E address \in Addresses, string \in Texts : command_mws(address, string)
    \/ \E address \in Addresses :
          address % 4 = 0 /\ (command_mdb(address) \/ command_mdh(address) \/ command_md(address))

Spec == Init /\ [][Next]_vars

-----------------------------------------------------------------------------
(* Properties *)

\* Bytes have values, there is memory behind the permitted range, and strings
\* are made of bytes.
NumbersFit ==
    /\ Byte \in Nat \ {0} /\ DramBase \in Nat /\ Window \in Nat /\ End \in Nat
    /\ gHighLimit + 3 <= End
    /\ Addresses \subseteq Nat /\ Numbers \subseteq Nat
    /\ Texts \subseteq Seq(Nat)

\* permissions_range_check looks at the first address only: no command writes
\* below the range, and beyond its end it writes at most the rest of what
\* begins on its last address.
PokesConfined ==
    [][\A a \in DOMAIN memory :
          memory'[a] # memory[a] =>
             /\ gLowLimit <= a
             /\ IF put' # NoNumber THEN a <= gHighLimit + 3
                ELSE \E string \in Texts : a <= gHighLimit + Len(string)]_vars

\* mw and md, mwh and mdh, mwb and mdb agree on where a number's bytes are: what
\* was written last is what the command of the same width would show.
ReadsBack ==
    put # NoNumber /\ permissions_range_check(put.address)
        => Loaded(put.address, put.size) = put.data
=============================================================================
