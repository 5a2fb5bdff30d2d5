-------------------------- MODULE RecoveryConsole --------------------------
(***************************************************************************)
(* The image commands of the recovery console (boot/commands.c) with the   *)
(* functions they call (lib/image3.c, lib/kernelcache.c,                   *)
(* lib/iboot_image.c), over memory in cells of a megabyte: the cells that  *)
(* files are loaded to, the last of them at the limit of the permitted     *)
(* range, where pictures are unpacked too, then the device tree, then the  *)
(* kernel.  A cell holds nothing that matters (Junk), a whole image file,  *)
(* the beginning of one without its end, or a piece of what was unpacked   *)
(* from one.  A file fits in a cell.                                       *)
(***************************************************************************)
EXTENDS Integers, FiniteSets

CONSTANTS LoadCells,   \* 32: the cells below the limit
          KernelCells, \* 26: the cells of the kernel
          Images,      \* the files that may be loaded
          NULL

ASSUME AreaAssumption == LoadCells \in Nat \ {0} /\ KernelCells \in Nat \ {0}

ASSUME NULLAssumption == NULL \notin Nat

\* cells: how much is unpacked from it; sound: the signature and the compression
\* are right; checked: the size and the checksum are.
ASSUME ImagesAssumption ==
    Images \subseteq [type : {"krnl", "xmdt", "recm"},
                      payload : {"kernel", "tree", "picture", "none"},
                      sound : BOOLEAN, checked : BOOLEAN, cells : 1 .. KernelCells]

VARIABLES memory,            \* what the cells hold
          gKernelImage, gDeviceTreeImage, gKernelSize,
          machine            \* "prompt", "panicked" or "booting"

vars == <<memory, gKernelImage, gDeviceTreeImage, gKernelSize, machine>>

PICTURE == LoadCells
DEVICETREE == LoadCells + 1
KERNELCACHE == LoadCells + 2

Cells == 0 .. KERNELCACHE + KernelCells - 1
KernelArea == KERNELCACHE .. KERNELCACHE + KernelCells - 1

Junk == [of |-> NULL, what |-> "junk", piece |-> 0]
File(image) == [of |-> image, what |-> "file", piece |-> 0]
CutFile(image) == [of |-> image, what |-> "cut", piece |-> 0]
Piece(image, k) == [of |-> image, what |-> "unpacked", piece |-> k]

Contents == {Junk} \union {File(i) : i \in Images} \union {CutFile(i) : i \in Images}
            \union {Piece(i, k) : i \in Images, k \in 0 .. KernelCells - 1}

Init ==
    /\ memory = [c \in Cells |-> Junk]
    /\ gKernelImage = NULL /\ gDeviceTreeImage = NULL /\ gKernelSize = 0
    /\ machine = "prompt"

\* decompress_lzss to a cell and the cells behind it
Unpacked(image, at) ==
    [c \in Cells |-> IF c \in at .. at + image.cells - 1 THEN Piece(image, c - at) ELSE memory[c]]

\* permissions_range_check
Permitted(addr) == addr \in 0 .. LoadCells

\* A command that is given a permitted address of an image; the others return.
Given(addr) == machine = "prompt" /\ Permitted(addr) /\ memory[addr].what = "file"

\* The assertion that image3_get_tag_data found the data.
HasData(image) == image.payload # "none"
AssertFails(image) ==
    ~ HasData(image) /\ machine' = "panicked"
    /\ UNCHANGED <<memory, gKernelImage, gDeviceTreeImage, gKernelSize>>

-----------------------------------------------------------------------------

\* A file is loaded by the debugger; the loader has no command for it.
Load(addr, image) ==
    /\ machine = "prompt" /\ addr < LoadCells
    /\ memory' = [memory EXCEPT ![addr] = File(image)]
    /\ UNCHANGED <<gKernelImage, gDeviceTreeImage, gKernelSize, machine>>

\* mw, mws and the like, wherever they are permitted
Poke(addr) ==
    /\ machine = "prompt" /\ Permitted(addr)
    /\ memory' = [memory EXCEPT ![addr] = Junk]
    /\ UNCHANGED <<gKernelImage, gDeviceTreeImage, gKernelSize, machine>>

\* The type of the image is read but not compared.  What is drawn on the display
\* is not modelled.
load_iboot_image(image) ==
    \/ AssertFails(image)
    \/ /\ HasData(image)
       /\ memory' = IF image.payload = "picture" /\ image.sound THEN Unpacked(image, PICTURE) ELSE memory
       /\ UNCHANGED <<gKernelImage, gDeviceTreeImage, gKernelSize, machine>>

command_setpicture(addr) == Given(addr) /\ load_iboot_image(memory[addr].of)

\* Mutant: gDeviceTreeImage is set before the type is compared.
DeviceTreeStoredFirst(image) ==
    /\ memory' = IF image.type = "xmdt" THEN [memory EXCEPT ![DEVICETREE] = CutFile(image)] ELSE memory
    /\ gDeviceTreeImage' = DEVICETREE

\* As many bytes as the data has are copied, from the beginning of the file.
DeviceTreeStored(image) ==
    IF image.type = "xmdt"
    THEN memory' = [memory EXCEPT ![DEVICETREE] = CutFile(image)] /\ gDeviceTreeImage' = DEVICETREE
    ELSE UNCHANGED <<memory, gDeviceTreeImage>>

command_devicetree(addr) ==
    /\ Given(addr)
    /\ LET image == memory[addr].of IN
        \/ image.type = "xmdt" /\ AssertFails(image)
        \/ /\ image.type = "xmdt" => HasData(image)
           /\ DeviceTreeStored(image)
           /\ UNCHANGED <<gKernelImage, gKernelSize, machine>>

\* The header is right, so that the kernel is unpacked.
Unpacks(image) == image.payload = "kernel" /\ image.sound

\* Mutant: the checksum is not compared.
AcceptedUnchecked(image) == Unpacks(image)

\* decompress_kernel returns 0: the size and the checksum are what was promised.
Accepted(image) == Unpacks(image) /\ image.checked

decompress_kernel(image) ==
    /\ memory' = IF Unpacks(image) THEN Unpacked(image, KERNELCACHE) ELSE memory
    /\ IF Accepted(image) THEN gKernelSize' = image.cells /\ gKernelImage' = KERNELCACHE
       ELSE UNCHANGED <<gKernelSize, gKernelImage>>

\* start_darwin, which panics at once ("this is broken right now"), is "booting".
command_bootx(addr) ==
    /\ Given(addr)
    /\ LET image == memory[addr].of IN
        /\ image.type = "krnl"
        /\ \/ AssertFails(image)
           \/ /\ HasData(image)
              /\ decompress_kernel(image)
              /\ machine' = IF Accepted(image) /\ gDeviceTreeImage # NULL THEN "booting" ELSE "prompt"
              /\ UNCHANGED gDeviceTreeImage

\* go, wherever it is permitted; what runs then is not the loader.
command_go(addr) ==
    /\ machine = "prompt" /\ Permitted(addr)
    /\ machine' = "left"
    /\ UNCHANGED <<memory, gKernelImage, gDeviceTreeImage, gKernelSize>>

Next ==
    \/ \E addr \in 0 .. LoadCells - 1, image \in Images : Load(addr, image)
    \/ \E addr \in 0 .. LoadCells :
          \/ Poke(addr) \/ command_go(addr)
          \/ command_setpicture(addr) \/ command_devicetree(addr) \/ command_bootx(addr)

Spec == Init /\ [][Next]_vars

-----------------------------------------------------------------------------

TypeOK ==
    /\ memory \in [Cells -> Contents]
    /\ gKernelImage \in {NULL, KERNELCACHE} /\ gDeviceTreeImage \in {NULL, DEVICETREE}
    /\ gKernelSize \in 0 .. KernelCells
    /\ machine \in {"prompt", "panicked", "booting", "left"}

\* bootx: the kernel that is started is, in every cell, the one whose size and
\* checksum were compared, however many kernels were unpacked in its place
\* before and failed.
StartsChecked ==
    machine = "booting" =>
        \E image \in Images :
            /\ image.checked /\ image.sound /\ gKernelSize = image.cells
            /\ \A k \in 0 .. gKernelSize - 1 : memory[gKernelImage + k] = Piece(image, k)

\* devicetree, setpicture, bootx: once there is a device tree, its copy stays
\* where gDeviceTreeImage says, whatever pictures and kernels are unpacked next
\* to it.
DeviceTreeKept ==
    gDeviceTreeImage # NULL => \E image \in Images : image.type = "xmdt" /\ memory[gDeviceTreeImage] = CutFile(image)
=============================================================================
