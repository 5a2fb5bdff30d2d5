----------------------------- MODULE KernelBoot -----------------------------
(***************************************************************************)
(* start_darwin behind its first statement, a panic ("this is broken right *)
(* now"): how memory is laid out for the kernel (boot/bootx.c,             *)
(* lib/macho_loader.c, sys/memory_region.c).  No build that has the panic  *)
(* gets here; the module is about the functions that are kept for the day  *)
(* it is taken out.                                                        *)
(*                                                                         *)
(* Memory is a function from addresses, counted from physBase in units, to *)
(* contents.  The device tree is what DtBuild and DeviceTree make it; here *)
(* it has a length.                                                        *)
(***************************************************************************)
EXTENDS Integers, Sequences, Functions

CONSTANTS
    Page,            \* the kernel's distance from physBase: 0x1000 bytes
    ZeroSize,        \* what is cleared: 32 MB
    RamdiskAlign, ArgsAlign, TopAlign,   \* 4096, 1024, 1 MB
    ArgsSize,        \* sizeof(boot_args)
    virtBase,        \* 0x80000000
    KernelAt,        \* where gKernelImage is
    End,             \* the addresses are 0 .. End
    Kernels,         \* kernel files
    Ramdisks,        \* where a ramdisk may be, and its size; base 0 for none
    TreeLength       \* of the flattened tree without a ramdisk's range

VARIABLES
    kernel, ramdisk,     \* the file and the ramdisk of this boot
    stage,
    memory, pos,         \* kernel_region.pos; its base is Page
    kernel_entrypoint,
    ranges,              \* /chosen/memory-map: the ramdisk's address and size
    deviceTreeP, deviceTreeLength, topOfKernelData, args

vars == <<kernel, ramdisk, stage, memory, pos, kernel_entrypoint, ranges,
          deviceTreeP, deviceTreeLength, topOfKernelData, args>>

KERNEL_VMADDR == virtBase + Page

Up(p, s) == ((p + s - 1) \div s) * s

FileUnit(f) == <<"file", f>>
DiskUnit(k) == <<"disk", k>>
TreeUnit(k) == <<"tree", k>>
ArgsUnit == <<"args", 0>>
Zero == <<"zero", 0>>
Other == <<"other", 0>>

IsSegment(c) == c.cmd = "segment"

Segments(file) == {c \in Range(file.commands) : IsSegment(c)}

InFile(file, f) == \E s \in Segments(file) : f \in 0 .. s.fileoff + s.filesize - 1

InitialMemory(file, disk) ==
    [a \in 0 .. End |->
        IF InFile(file, a - KernelAt) THEN FileUnit(a - KernelAt)
        ELSE IF disk.base # 0 /\ a - disk.base \in 0 .. disk.size - 1 THEN DiskUnit(a - disk.base)
        ELSE Other]

Init ==
    /\ kernel \in Kernels /\ ramdisk \in Ramdisks
    /\ stage = "bootx" /\ memory = InitialMemory(kernel, ramdisk) /\ pos = 0
    /\ kernel_entrypoint = 0 /\ ranges = <<>>
    /\ deviceTreeP = 0 /\ deviceTreeLength = 0 /\ topOfKernelData = 0 /\ args = 0

\* memory_region_reserve: where a reservation begins, and pos after it.
Start(at, align) == IF align = 0 THEN at ELSE Up(at, align)

\* Mutant: the size is not added.
AfterStart(at, size, align) == Start(at, align)

After(at, size, align) == Start(at, align) + size

\* bcopy, which copies from the right end when the areas overlap.
Copied(m, from, to, size) ==
    [a \in DOMAIN m |-> IF a - to \in 0 .. size - 1 THEN m[a - to + from] ELSE m[a]]

Put(m, to, size, Unit(_)) ==
    [a \in DOMAIN m |-> IF a - to \in 0 .. size - 1 THEN Unit(a - to) ELSE m[a]]

Panic == stage' = "panicked" /\ UNCHANGED <<memory, pos, kernel_entrypoint>>

\* kernel_region at physBase + 0x1000, and the beginning of memory cleared.
start_darwin ==
    /\ stage = "bootx"
    /\ pos' = Page
    /\ memory' = Put(memory, 0, ZeroSize, LAMBDA k : Zero)
    /\ stage' = "cleared"
    /\ UNCHANGED <<kernel, ramdisk, kernel_entrypoint, ranges,
                   deviceTreeP, deviceTreeLength, topOfKernelData, args>>

\* macho_get_vmsize
VmSize(file) ==
    LET count[n \in 0 .. Len(file.commands)] ==
            IF n = 0 THEN 0
            ELSE IF IsSegment(file.commands[n]) THEN count[n - 1] + file.commands[n].vmsize
            ELSE count[n - 1]
    IN  count[Len(file.commands)]

\* macho_file_map, with vm_bias = KERNEL_VMADDR
SegmentMapped(m, s, loadaddr) ==
    Copied(m, KernelAt + s.fileoff, loadaddr + s.vmaddr - KERNEL_VMADDR, s.filesize)

FileMapped(m, file, loadaddr) ==
    LET mapped[n \in 0 .. Len(file.commands)] ==
            IF n = 0 THEN m
            ELSE IF IsSegment(file.commands[n])
            THEN SegmentMapped(mapped[n - 1], file.commands[n], loadaddr)
            ELSE mapped[n - 1]
    IN  mapped[Len(file.commands)]

\* The last thread command counts.
EntryPoint(file) ==
    LET threads == {n \in DOMAIN file.commands : file.commands[n].cmd = "thread"}
        last    == CHOOSE n \in threads : \A other \in threads : other <= n
    IN  file.commands[last].pc

vtophys(x) == x - KERNEL_VMADDR + Page

prepare_kernel ==
    /\ stage = "cleared"
    /\ \/ (~ kernel.executable \/ VmSize(kernel) = 0) /\ Panic
       \/ /\ kernel.executable /\ VmSize(kernel) > 0
          /\ memory' = FileMapped(memory, kernel, Start(pos, 0))
          /\ pos' = After(pos, VmSize(kernel), 0)
          /\ kernel_entrypoint' = vtophys(EntryPoint(kernel))
          /\ stage' = "kernel"
    /\ UNCHANGED <<kernel, ramdisk, ranges, deviceTreeP, deviceTreeLength, topOfKernelData, args>>

\* prepare_devicetree, and its failure
prepare_devicetree ==
    /\ stage = "kernel"
    /\ stage' \in {"tree", "panicked"}
    /\ UNCHANGED <<kernel, ramdisk, memory, pos, kernel_entrypoint, ranges,
                   deviceTreeP, deviceTreeLength, topOfKernelData, args>>

\* The new property of /chosen/memory-map.
AllocateMemoryRange(start, length) == Append(ranges, [start |-> start, length |-> length])

prepare_devicetree_stage2 ==
    /\ stage = "tree"
    /\ LET given    == ramdisk.base # 0
           disk     == Start(pos, RamdiskAlign)
           copied   == IF given THEN Copied(memory, ramdisk.base, disk, ramdisk.size) ELSE memory
           behind   == IF given THEN After(pos, ramdisk.size, RamdiskAlign) ELSE pos
           length   == TreeLength + (IF given THEN 1 ELSE 0)
       IN  /\ ranges' = IF given THEN AllocateMemoryRange(disk, ramdisk.size) ELSE ranges
           /\ memory' = Put(copied, Start(behind, 0), length, TreeUnit)
           /\ pos' = After(behind, length, 0)
           /\ deviceTreeLength' = length
           /\ deviceTreeP' = behind + virtBase
    /\ stage' = "stage2"
    /\ UNCHANGED <<kernel, ramdisk, kernel_entrypoint, topOfKernelData, args>>

prepare_finalized_boot_args ==
    /\ stage = "stage2"
    /\ topOfKernelData' = Up(pos, TopAlign)
    /\ args' = Start(pos, ArgsAlign)
    /\ pos' = After(pos, ArgsSize, ArgsAlign)
    /\ memory' = Put(memory, args', ArgsSize, LAMBDA k : ArgsUnit)
    /\ stage' = "jumped"
    /\ UNCHANGED <<kernel, ramdisk, kernel_entrypoint, ranges, deviceTreeP, deviceTreeLength>>

Next ==
    \/ start_darwin \/ prepare_kernel \/ prepare_devicetree
    \/ prepare_devicetree_stage2 \/ prepare_finalized_boot_args

Spec == Init /\ [][Next]_vars

-----------------------------------------------------------------------------

TypeOK ==
    /\ stage \in {"bootx", "cleared", "kernel", "tree", "stage2", "jumped", "panicked"}
    /\ memory \in [0 .. End -> Range(memory)] /\ pos \in 0 .. End
    /\ kernel_entrypoint \in 0 .. End

\* What a virtual address of the kernel is mapped to: virtBase to physBase.
Physical(x) == x - virtBase

\* prepare_kernel and everything after it: when the kernel is started, its
\* segments are in memory as in the file, what a segment has beyond its file is
\* zero, and the first instruction is the one that the thread command names;
\* nothing that was reserved later, a ramdisk that is copied over its own end
\* included, lies in them.
KernelWhole ==
    stage = "jumped" =>
        /\ \A s \in Segments(kernel), k \in 0 .. End :
              k < s.vmsize => memory[Physical(s.vmaddr) + k] =
                                 IF k < s.filesize THEN FileUnit(s.fileoff + k) ELSE Zero
        /\ kernel_entrypoint = Physical(EntryPoint(kernel))

\* prepare_devicetree_stage2, prepare_finalized_boot_args: the kernel finds the
\* ramdisk where the memory map says, the device tree and the boot arguments
\* where it is told, all of them whole.
HandedOver ==
    stage = "jumped" =>
        /\ ramdisk.base # 0 => \E r \in Range(ranges) :
              r.length = ramdisk.size
              /\ \A k \in 0 .. r.length - 1 : memory[r.start + k] = DiskUnit(k)
        /\ \A k \in 0 .. deviceTreeLength - 1 : memory[Physical(deviceTreeP) + k] = TreeUnit(k)
        /\ \A k \in 0 .. ArgsSize - 1 : memory[args + k] = ArgsUnit

\* prepare_finalized_boot_args: topOfKernelData, which is rounded before the
\* arguments are reserved, is above the kernel, the ramdisk and the tree.
TopAbove ==
    stage = "jumped" =>
        /\ topOfKernelData >= Physical(deviceTreeP) + deviceTreeLength
        /\ \A r \in Range(ranges) : topOfKernelData >= r.start + r.length
        /\ \A s \in Segments(kernel) : topOfKernelData >= Physical(s.vmaddr) + s.vmsize
=============================================================================
