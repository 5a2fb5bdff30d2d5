------------------------------ MODULE BootFlow ------------------------------
(***************************************************************************)
(* From the entry of the C code to the command prompt: corestart_main and  *)
(* machboot_main (boot/main.c) with the page table of mmu_init             *)
(* (arch/arm/pmap.c).  Memory is divided in sections of a megabyte.  The   *)
(* list of atags that the previous loader hands over is a sequence; what   *)
(* the threads, the heap and the variables do is in the modules about      *)
(* them.                                                                   *)
(***************************************************************************)
EXTENDS Integers, Sequences

CONSTANTS Sections,     \* 4096: the sections of the address space
          Booter,       \* the section the loader is in
          AtagLists,    \* the lists of atags, each ending with ATAG_NONE
          LineLength,   \* BOOT_LINE_LENGTH
          None          \* a page table entry that was never written

VARIABLES
    stage,       \* "reset", "mapped", "started", "atags", "prompt", "panicked", "halted"
    supported,   \* whether the machine is a Realview PBA8
    table,       \* the section that each section is mapped to
    atags, atag, tag,                    \* the list, the current element, its kind
    first_region, first_ramdisk,         \* the flags that each is taken once
    memory, ramdisk, commandLine         \* what the atags said

vars == <<stage, supported, table, atags, atag, tag, first_region, first_ramdisk,
          memory, ramdisk, commandLine>>
found == <<first_region, first_ramdisk, memory, ramdisk, commandLine>>

Init ==
    /\ stage = "reset" /\ supported \in BOOLEAN
    /\ table = [s \in 0 .. Sections - 1 |-> None]
    /\ atags \in AtagLists /\ atag = 1 /\ tag = "NONE"
    /\ first_region = 0 /\ first_ramdisk = 0
    /\ memory = None /\ ramdisk = None /\ commandLine = <<>>

\* The loader is linked to the beginning of a section, so that no address is
\* misaligned.  The section table with count sections from va on bound to those from pa on.
pmap_map_section(entries, pa, va, count) ==
    [s \in DOMAIN entries |-> IF s \in va .. va + count - 1 THEN pa + s - va ELSE entries[s]]

\* A size of 0xFFFFFFFF bytes is one section less than there are.
Everything == Sections - 1

mmu_init ==
    /\ stage = "reset"
    /\ table' = pmap_map_section(pmap_map_section(table, 0, 0, Everything), Booter, 0, 1)
    /\ stage' = "mapped"
    /\ UNCHANGED <<supported, atags, atag, tag, found>>

\* The machine is compared when the heap, the threads and the display are
\* initialised; the bootloader's thread runs on the supported one only.
corestart_main ==
    /\ stage = "mapped"
    /\ stage' = IF supported THEN "started" ELSE "halted"
    /\ UNCHANGED <<supported, table, atags, atag, tag, found>>

machboot_main ==
    /\ stage = "started"
    /\ stage' = "atags" /\ tag' = atags[atag].kind
    /\ UNCHANGED <<supported, table, atags, atag, found>>

\* Mutant: the flag is not looked at.
populate_last(flag, kept, value) == value

\* The first of its kind is kept.
populate_first(flag, kept, value) == IF flag = 1 THEN kept ELSE value

populate_memory_info(value) ==
    first_region' = 1 /\ memory' = populate_first(first_region, memory, value)

populate_ramdisk_info(value) ==
    first_ramdisk' = 1 /\ ramdisk' = populate_first(first_ramdisk, ramdisk, value)

strncpy(line, n) == IF Len(line) <= n THEN line ELSE SubSeq(line, 1, n)

populate_commandline_info(line) ==
    commandLine' = IF line = <<>> THEN commandLine ELSE strncpy(line, LineLength)

\* Mutant: tags of other kinds are not passed.
AfterKnown(a) == IF a.kind \in {"MEM", "CMDLINE", "INITRD2"} THEN atag + 1 ELSE atag

\* The tag's size is added; ATAG_NONE has none.
After(a) == IF a.kind = "NONE" THEN atag ELSE atag + 1

ReadAtag ==
    /\ stage = "atags" /\ tag # "NONE"
    /\ LET a == atags[atag] IN
        /\ tag' = a.kind
        /\ IF a.kind = "MEM" THEN populate_memory_info(a.value) ELSE UNCHANGED <<first_region, memory>>
        /\ IF a.kind = "INITRD2" THEN populate_ramdisk_info(a.value) ELSE UNCHANGED <<first_ramdisk, ramdisk>>
        /\ IF a.kind = "CMDLINE" THEN populate_commandline_info(a.value) ELSE UNCHANGED commandLine
        /\ atag' = After(a)
    /\ UNCHANGED <<stage, supported, table, atags>>

\* nvram_init and delay_boot, whose loop does nothing, lead to the prompt, which
\* does not return: start_darwin is reached by bootx only.
AtagsRead ==
    /\ stage = "atags" /\ tag = "NONE"
    /\ stage' = IF first_region = 1 THEN "prompt" ELSE "panicked"   \* is_malloc_inited
    /\ UNCHANGED <<supported, table, atags, atag, tag, found>>

Next == mmu_init \/ corestart_main \/ machboot_main \/ ReadAtag \/ AtagsRead

\* The boot is one thread that nothing stops.
Spec == Init /\ [][Next]_vars /\ WF_vars(Next)

-----------------------------------------------------------------------------

Ended == stage \in {"prompt", "panicked", "halted"}

TypeOK ==
    /\ stage \in {"reset", "mapped", "started", "atags", "prompt", "panicked", "halted"}
    /\ table \in [0 .. Sections - 1 -> 0 .. Sections - 1 \union {None}]
    /\ atag \in DOMAIN atags
    /\ {first_region, first_ramdisk} \subseteq {0, 1}
    /\ Len(commandLine) <= LineLength

\* mmu_init: from then on every section but the last is its own, and the first
\* one is the loader's, for the exception vectors.
MapsEverything ==
    stage # "reset" =>
        \A s \in 0 .. Sections - 2 : table[s] = IF s = 0 THEN Booter ELSE s

\* machboot_main: at the prompt the memory and the ramdisk are those of the
\* first tag of their kind, the command line is that of the last one that has
\* characters, wherever in the list they are.
First(n, kind) == atags[n].kind = kind /\ \A m \in 1 .. n - 1 : atags[m].kind # kind

Line(n) == atags[n].kind = "CMDLINE" /\ atags[n].value # <<>>

LastLine(n) == Line(n) /\ \A m \in n + 1 .. Len(atags) : ~ Line(m)

AtagsTaken ==
    stage = "prompt" =>
        /\ \E n \in DOMAIN atags : First(n, "MEM") /\ memory = atags[n].value
        /\ \/ \E n \in DOMAIN atags : First(n, "INITRD2") /\ ramdisk = atags[n].value
           \/ ramdisk = None /\ \A n \in DOMAIN atags : atags[n].kind # "INITRD2"
        /\ \/ \E n \in DOMAIN atags : LastLine(n) /\ commandLine = strncpy(atags[n].value, LineLength)
           \/ commandLine = <<>> /\ \A n \in DOMAIN atags : ~ Line(n)

=============================================================================
