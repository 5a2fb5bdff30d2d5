------------------------- MODULE MCConsoleCommands -------------------------
(***************************************************************************)
(* The commands of the recovery console that work on memory: those that    *)
(* load images (RecoveryConsole), those that read and write numbers        *)
(* (ConsoleMemory) and memorytester (MemoryTester).  Their memories are    *)
(* abstracted differently, in megabytes, bytes and faulty words, so a      *)
(* behaviour runs one of the three, part, and the others rest.             *)
(***************************************************************************)
EXTENDS RecoveryConsole, Sequences

CONSTANTS
    Parts,
    Byte, DramBase, Window, End, Addresses, Numbers, Texts     \* of ConsoleMemory

VARIABLE part

\* Images of each kind, whole and broken, with pictures of a megabyte, or with
\* one of the display's 1024 x 768 pixels of four bytes, three.
Image(type, payload, sound, checked, cells) ==
    [type |-> type, payload |-> payload, sound |-> sound, checked |-> checked, cells |-> cells]

Kernels == {Image("krnl", "kernel", TRUE, TRUE, 2), Image("krnl", "kernel", TRUE, FALSE, 2),
            Image("krnl", "kernel", TRUE, TRUE, 1), Image("krnl", "kernel", FALSE, TRUE, 1)}
Others == {Image("krnl", "picture", TRUE, TRUE, 1), Image("recm", "kernel", TRUE, TRUE, 2),
           Image("xmdt", "tree", TRUE, TRUE, 1), Image("xmdt", "none", TRUE, TRUE, 1)}

SmallImages == Kernels \union Others \union {Image("recm", "picture", TRUE, TRUE, 1)}
LargeImages == Others \union {Image("recm", "picture", TRUE, TRUE, 3)}

-----------------------------------------------------------------------------
(* ConsoleMemory: four bytes of three values are permitted, the first and    *)
(* the address behind the last included.                                     *)

VARIABLES bytes, shown, put

SmallAddresses == 0 .. 12
SmallTexts == {<<>>, <<1, 1>>}

M == INSTANCE ConsoleMemory WITH memory <- bytes

ASSUME NumbersAssumption == M!NumbersFit

-----------------------------------------------------------------------------
(* MemoryTester: up to three commands on a region of two pages of four words *)
(* of eight bits, with every fault, and a heap of three pages: a second      *)
(* command gets one of them, a third none.                                   *)

VARIABLES mem, fault, heap, want, bufsize, loops, loop, test, j, exit_code, state, commands

T == INSTANCE MemoryTester WITH w <- 8, Words <- 8, PageWords <- 4, HeapPages <- 3

NoMemory ==
    /\ mem = <<>> /\ fault = [kind |-> "none"] /\ heap = 0 /\ want = 0 /\ bufsize = 0
    /\ loops = 0 /\ loop = 0 /\ test = 0 /\ j = 0 /\ exit_code = {} /\ state = "prompt"

\* [loops] left out, given, or given behind one more argument.
TestNext ==
    \/ /\ commands < 3
       /\ \E argc \in 2 .. 4, third \in 1 .. 2, pages \in {0, 2} :
             (argc # 3 => third = argc \div 2) /\ T!Start(argc, pages, third)
       /\ commands' = commands + 1
    \/ T!Round /\ UNCHANGED commands

-----------------------------------------------------------------------------

numbers == <<bytes, shown, put>>
tester  == <<mem, fault, heap, want, bufsize, loops, loop, test, j, exit_code, state, commands>>

MCInit ==
    /\ part \in Parts
    /\ Init
    /\ M!Init
    /\ (IF part = "tester" THEN T!Init ELSE NoMemory) /\ commands = 0

MCNext ==
    /\ UNCHANGED part
    /\ \/ part = "images"  /\ Next       /\ UNCHANGED <<numbers, tester>>
       \/ part = "numbers" /\ M!Next     /\ UNCHANGED <<vars, tester>>
       \/ part = "tester"  /\ TestNext   /\ UNCHANGED <<vars, numbers>>

MCSpec == MCInit /\ [][MCNext]_<<part, vars, numbers, tester>>

-----------------------------------------------------------------------------

\* permissions_range_check looks at the first address only: no command writes
\* below the range, and beyond its end it writes at most the rest of what
\* begins on its last address.
PokesConfined == M!PokesConfined

\* mw and md, mwh and mdh, mwb and mdb agree on where a number's bytes are: what
\* was written last is what the command of the same width would show.
ReadsBack == M!ReadsBack

\* A command of memorytester that was not refused has ended.
Ended == state = "prompt" /\ exit_code # {"NONSTARTER"} /\ loop > 0

\* command_memorytest: memory without a fault is never reported, whatever it
\* held and whatever a test leaves for the next.  A stuck bit is found by
\* comparing the halves; they do not differ when the same line of both is
\* stuck: data lines, and address lines, are found by the stuck address test.
FaultsReported ==
    /\ fault.kind = "none" => exit_code \subseteq {"NONSTARTER"}
    /\ Ended /\ bufsize > 0 =>
          /\ fault.kind = "bit" /\ fault.cell < bufsize => "OTHERTEST" \in exit_code
          /\ fault.kind = "data" => "ADDRESSLINES" \in exit_code
          /\ fault.kind = "address" /\ 2 ^ fault.line < bufsize => "ADDRESSLINES" \in exit_code

=============================================================================
