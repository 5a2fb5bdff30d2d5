------------------------------- MODULE MCBoot -------------------------------
(***************************************************************************)
(* The boot for model checking: the way to the prompt (BootFlow), reading  *)
(* a kernelcache (Image3 for its tags, Lzss for its data, Adler32 for its  *)
(* checksum) and laying out memory for the kernel (KernelBoot).  They meet *)
(* in the console's commands only, so a behaviour runs one of them, part,  *)
(* and the others rest.                                                    *)
(*                                                                         *)
(* The checksum is scaled down so that its sums just do not overflow:      *)
(* bytes below 3, words of 5 bits.                                         *)
(***************************************************************************)
EXTENDS Adler32, Sequences, Functions

CONSTANTS
    Parts,
    Sections, Booter, AtagLists, LineLength,    \* of BootFlow
    Magics, MaxTags, Sizes,                     \* of Image3
    Bits, Half, THRESHOLD, Blank, Uninitialized,    \* of Lzss
    Page, ZeroSize, RamdiskAlign, ArgsAlign, TopAlign, ArgsSize, virtBase, KernelAt, End,
    Kernels, Ramdisks, TreeLength,              \* of KernelBoot
    MaxBytes,     \* bound: bytes of the buffer that is summed up
    MaxOut,       \* bound: bytes that are unpacked
    None

VARIABLE part

-----------------------------------------------------------------------------
(* BootFlow: every list of up to three atags before ATAG_NONE, with command  *)
(* lines of up to three characters where there is room for two.              *)

VARIABLES stage, supported, table, atags, atag, tag, first_region, first_ramdisk,
          memory, ramdisk, commandLine

SmallTags == [kind : {"CORE"}, value : {0}] \union [kind : {"MEM", "INITRD2"}, value : {1, 2}]
             \union [kind : {"CMDLINE"}, value : {<<>>, <<1>>, <<1, 2>>, <<2, 1, 1>>}]

SmallLists ==
    {Append(list, [kind |-> "NONE", value |-> 0]) : list \in UNION {[1 .. n -> SmallTags] : n \in 0 .. 3}}

ASSUME FlowAssumption ==
    /\ Sections \in Nat \ {0} /\ Booter \in 0 .. Sections - 1 /\ LineLength \in Nat
    /\ \A list \in AtagLists :
          /\ list \in Seq(Range(list)) /\ list # <<>>
          /\ \A n \in DOMAIN list :
                /\ list[n].kind = "NONE" <=> n = Len(list)
                /\ list[n].kind = "CMDLINE" => list[n].value \in Seq(Nat)

B == INSTANCE BootFlow

FlowAtRest ==
    /\ stage = "rest" /\ supported = FALSE /\ table = <<>> /\ atags = <<>> /\ atag = 0
    /\ tag = "NONE" /\ first_region = 0 /\ first_ramdisk = 0
    /\ memory = None /\ ramdisk = None /\ commandLine = <<>>

-----------------------------------------------------------------------------
(* Image3: files of up to three tags of two kinds                            *)

VARIABLES image, size, wanted, off, searching, found

ASSUME ImageAssumption == Sizes \subseteq Nat \ {0} /\ Sizes # {}

I == INSTANCE Image3 WITH memory <- image

ImageAtRest ==
    /\ image = <<>> /\ size = 0 /\ wanted = "none" /\ off = 0
    /\ searching = FALSE /\ found = {}

-----------------------------------------------------------------------------
(* Lzss: bytes of two bits, which make a ring of eight and matches of two or *)
(* three bytes.  byte is a ghost, the byte that was read.                    *)

VARIABLES flags, next, i, text_buf, r, dst, srcend, byte

ASSUME UnpackAssumption ==
    /\ Bits \in Nat /\ Half \in Nat \ {0} /\ THRESHOLD \in Nat
    /\ Half + THRESHOLD <= Half * Half * Half

L == INSTANCE Lzss WITH w <- Bits

UnpackNext ==
    /\ Len(dst) < MaxOut
    /\ \/ L!EndOfSource /\ UNCHANGED byte
       \/ \E c \in L!Bytes : L!ReadByte(c) /\ byte' = c

-----------------------------------------------------------------------------
(* KernelBoot: kernels of two segments that leave no gap, in both orders,    *)
(* and broken ones; ramdisks that lie apart from, or in, the memory they are *)
(* copied to.                                                                *)

VARIABLES kernel, disk, step, dram, pos, kernel_entrypoint, ranges,
          deviceTreeP, deviceTreeLength, topOfKernelData, args

Segment(vmaddr, vmsize, fileoff, filesize) ==
    [cmd |-> "segment", vmaddr |-> virtBase + Page + vmaddr, vmsize |-> vmsize,
     fileoff |-> fileoff, filesize |-> filesize]

Thread(pc) == [cmd |-> "thread", pc |-> virtBase + Page + pc]

Text(text, length) == Segment(0, text, 1, length)
Data(text, data, length) == Segment(text, data, text + 1, length)

Kernel(commands) == [executable |-> TRUE, commands |-> commands]

SmallKernels ==
    UNION {{Kernel(<<Text(text, text), Data(text, data, length), Thread(pc)>>),
            Kernel(<<Thread(pc), Data(text, data, length), Text(text, text - 1)>>)} :
           text \in 1 .. 3, data \in 1 .. 3, length \in 0 .. 1, pc \in 0 .. 1}
    \union {Kernel(<<Thread(0)>>), [Kernel(<<Text(1, 1), Thread(0)>>) EXCEPT !.executable = FALSE]}

SmallRamdisks == [base : {12, 16}, size : 1 .. 6] \union {[base |-> 0, size |-> 0]}

K == INSTANCE KernelBoot WITH ramdisk <- disk, stage <- step, memory <- dram

LoadCommands ==
    [cmd : {"segment"}, vmaddr : Nat, vmsize : Nat, fileoff : Nat, filesize : Nat]
    \union [cmd : {"thread"}, pc : Nat] \union [cmd : {"other"}]

ASSUME SizeAssumption ==
    /\ {Page, ZeroSize, ArgsSize, virtBase, KernelAt, End, TreeLength} \subseteq Nat
    /\ {RamdiskAlign, ArgsAlign, TopAlign} \subseteq Nat \ {0}
    /\ ZeroSize <= KernelAt

\* The segments of a kernel lie apart and leave no gap, with the thread's first
\* instruction in memory.
ASSUME KernelAssumption ==
    \A file \in Kernels :
        /\ file.executable \in BOOLEAN /\ file.commands \in Seq(LoadCommands)
        /\ \E n \in DOMAIN file.commands : file.commands[n].cmd = "thread"
        /\ \A n \in DOMAIN file.commands :
              file.commands[n].cmd = "thread" => file.commands[n].pc - virtBase \in 0 .. End
        /\ \A n \in DOMAIN file.commands :
              LET s == file.commands[n] IN
              s.cmd = "segment" =>
                 /\ s.filesize <= s.vmsize
                 /\ K!KERNEL_VMADDR <= s.vmaddr
                 /\ s.vmaddr + s.vmsize <= K!KERNEL_VMADDR + K!VmSize(file)
                 /\ KernelAt + s.fileoff + s.filesize <= End + 1
                 /\ \A m \in DOMAIN file.commands :
                       m # n /\ file.commands[m].cmd = "segment" =>
                          \/ s.vmaddr + s.vmsize <= file.commands[m].vmaddr
                          \/ file.commands[m].vmaddr + file.commands[m].vmsize <= s.vmaddr

\* Memory is large enough, the ramdisk is not in what is cleared or in the file.
ASSUME RoomAssumption ==
    \A file \in Kernels, d \in Ramdisks :
        /\ d.base \in Nat /\ d.size \in Nat
        /\ Page + K!VmSize(file) <= ZeroSize
        /\ Page + K!VmSize(file) + RamdiskAlign + d.size + TreeLength + 1 + ArgsAlign + ArgsSize <= End
        /\ d.base # 0 => /\ ZeroSize <= d.base /\ d.base + d.size <= End + 1
                         /\ \A k \in 0 .. d.size - 1 : ~ K!InFile(file, d.base + k - KernelAt)

KernelAtRest ==
    /\ kernel = Kernel(<<>>) /\ disk = [base |-> 0, size |-> 0] /\ step = "rest"
    /\ dram = <<>> /\ pos = 0 /\ kernel_entrypoint = 0 /\ ranges = <<>>
    /\ deviceTreeP = 0 /\ deviceTreeLength = 0 /\ topOfKernelData = 0 /\ args = 0

-----------------------------------------------------------------------------

flow   == <<stage, supported, table, atags, atag, tag, first_region, first_ramdisk,
            memory, ramdisk, commandLine>>
search == <<image, size, wanted, off, searching, found>>
unpack == <<flags, next, i, text_buf, r, dst, srcend, byte>>
layout == <<kernel, disk, step, dram, pos, kernel_entrypoint, ranges,
            deviceTreeP, deviceTreeLength, topOfKernelData, args>>
all    == <<part, vars, flow, search, unpack, layout>>

MCInit ==
    /\ part \in Parts
    /\ Init
    /\ IF part = "flow" THEN B!Init ELSE FlowAtRest
    /\ IF part = "search" THEN I!Init ELSE ImageAtRest
    /\ L!Init /\ byte = 0
    /\ IF part = "layout" THEN K!Init ELSE KernelAtRest

MCNext ==
    /\ UNCHANGED part
    /\ \/ part = "flow"   /\ B!Next     /\ UNCHANGED <<vars, search, unpack, layout>>
       \/ part = "search" /\ I!Next     /\ UNCHANGED <<vars, flow, unpack, layout>>
       \/ part = "unpack" /\ UnpackNext /\ UNCHANGED <<vars, flow, search, layout>>
       \/ part = "sum" /\ cnt < MaxBytes /\ Next /\ UNCHANGED <<flow, search, unpack, layout>>
       \/ part = "layout" /\ K!Next     /\ UNCHANGED <<vars, flow, search, unpack>>

\* All of it is one thread that nothing stops.
MCSpec == MCInit /\ [][MCNext]_all /\ WF_all(MCNext)

-----------------------------------------------------------------------------

\* machboot_main, image3_find_tag: the loop over the atags and the search for a
\* tag, which advance by what they read, come to an end.
LoopsEnd == <>((part = "flow" => B!Ended) /\ (part = "search" => ~ searching))

\* image3_find_tag: the first tag of the kind is found if the file has one.
FindsFirst == part = "search" => I!TypeOK /\ I!FindsFirst

\* What was written n bytes before the m-th: before the first byte there are
\* blanks, and F bytes that were never set.
Before(out, m, n) ==
    IF m - n >= 1 THEN out[m - n] ELSE IF m - n > L!F - L!N THEN Blank ELSE Uninitialized

\* decompress_lzss: a match is the bytes at a distance before it, however the
\* position wraps around the ring, and repeats itself when it is longer than
\* the distance.
MatchesCopied ==
    [][part = "unpack" /\ next = "high" /\ next' # "high" =>
          LET from     == i + (byte' \div Half) * (Half * Half)
              distance == ((r - from - 1) % L!N) + 1
          IN  /\ Len(dst') = Len(dst) + (byte' % Half) + THRESHOLD + 1
              /\ \A m \in Len(dst) + 1 .. Len(dst') :
                    dst'[m] = Before(dst', m, distance)]_all

\* What a loader hands to the next.  machboot_main: at the prompt the atags have
\* been taken, the first or the last of each kind, and memory is mapped.
\* prepare_kernel and everything after it: when the kernel is started its
\* segments, the ramdisk, the device tree and the boot arguments are whole and
\* where the kernel is told, below topOfKernelData.
HandedOver ==
    /\ part = "flow" => B!TypeOK /\ B!MapsEverything /\ B!AtagsTaken
    /\ part = "layout" => K!TypeOK /\ K!KernelWhole /\ K!HandedOver /\ K!TopAbove
=============================================================================
