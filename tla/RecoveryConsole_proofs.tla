----------------------- MODULE RecoveryConsole_proofs -----------------------
(***************************************************************************)
(* For areas of every size and every set of images: what the console       *)
(* starts was checked, and, as long as pictures take no more than a cell,  *)
(* the device tree stays where it was put.  For memory and numbers of      *)
(* every size (ConsoleMemory): they read back, in the permitted range.     *)
(***************************************************************************)
EXTENDS MCConsoleCommands, TLAPS

\* A picture of less than a megabyte, which leaves the device tree alone.
PicturesFit == \A image \in Images : image.payload = "picture" => image.cells = 1

USE AreaAssumption, NULLAssumption

\* The areas do not overlap.
LEMMA Areas ==
    /\ PICTURE \in Cells /\ DEVICETREE \in Cells /\ KERNELCACHE \in Cells
    /\ DEVICETREE # PICTURE /\ DEVICETREE \notin KernelArea
    /\ DEVICETREE # NULL /\ KERNELCACHE # NULL
    /\ \A addr \in 0 .. LoadCells : addr \in Cells /\ addr # DEVICETREE
  BY DEF PICTURE, DEVICETREE, KERNELCACHE, Cells, KernelArea

LEMMA ImageFields ==
    ASSUME NEW image \in Images
    PROVE  /\ image.cells \in 1 .. KernelCells
           /\ image.type \in {"krnl", "xmdt", "recm"}
           /\ image.payload \in {"kernel", "tree", "picture", "none"}
           /\ image.sound \in BOOLEAN /\ image.checked \in BOOLEAN
  BY ImagesAssumption

LEMMA ContentsKinds ==
    /\ Junk \in Contents
    /\ \A image \in Images : File(image) \in Contents /\ CutFile(image) \in Contents
  BY DEF Contents

\* A cell that holds a file holds one of the images.
LEMMA FileImage ==
    ASSUME TypeOK, NEW addr, Given(addr)
    PROVE  /\ addr \in 0 .. LoadCells /\ addr \in Cells
           /\ memory[addr].of \in Images
  <1>1. addr \in 0 .. LoadCells /\ addr \in Cells
    BY Areas DEF Given, Permitted
  <1>2. memory[addr] \in Contents /\ memory[addr].what = "file"
    BY <1>1 DEF TypeOK, Given
  <1> QED  BY <1>1, <1>2 DEF Contents, Junk, File, CutFile, Piece

\* What is unpacked is made of pieces, and only where it goes.
LEMMA UnpackedCells ==
    ASSUME TypeOK, NEW image \in Images, NEW at \in {PICTURE, KERNELCACHE}
    PROVE  /\ Unpacked(image, at) \in [Cells -> Contents]
           /\ \A c \in Cells :
                Unpacked(image, at)[c] =
                    IF c \in at .. at + image.cells - 1 THEN Piece(image, c - at) ELSE memory[c]
  <1>1. at \in Nat /\ Cells \subseteq Nat
    BY DEF PICTURE, KERNELCACHE, Cells
  <1>2. ASSUME NEW c \in Cells, c \in at .. at + image.cells - 1
        PROVE  Piece(image, c - at) \in Contents
    <2>1. c - at \in 0 .. KernelCells - 1
      BY <1>1, <1>2, ImageFields
    <2> QED  BY <2>1 DEF Contents
  <1>3. \A c \in Cells : memory[c] \in Contents
    BY DEF TypeOK
  <1> QED  BY <1>2, <1>3 DEF Unpacked

-----------------------------------------------------------------------------
(* Types *)

LEMMA InitTypes == Init => TypeOK
  BY DEF Init, TypeOK, Contents

\* Every command keeps the types.
LEMMA TypeStep == TypeOK /\ [Next]_vars => TypeOK'
  <1> SUFFICES ASSUME TypeOK, [Next]_vars PROVE TypeOK'
    OBVIOUS
  <1> USE DEF TypeOK
  <1>1. ASSUME NEW addr \in 0 .. LoadCells - 1, NEW image \in Images, Load(addr, image)
        PROVE  TypeOK'
    BY <1>1, Areas, ContentsKinds DEF Load
  <1>2. ASSUME NEW addr \in 0 .. LoadCells, Poke(addr)
        PROVE  TypeOK'
    BY <1>2, Areas, ContentsKinds DEF Poke
  <1>3. ASSUME NEW addr \in 0 .. LoadCells, command_go(addr)
        PROVE  TypeOK'
    BY <1>3 DEF command_go
  <1>4. ASSUME NEW addr \in 0 .. LoadCells, command_setpicture(addr)
        PROVE  TypeOK'
    <2> DEFINE image == memory[addr].of
    <2>1. image \in Images /\ load_iboot_image(image)
      BY <1>4, FileImage DEF command_setpicture
    <2>2. Unpacked(image, PICTURE) \in [Cells -> Contents]
      BY <2>1, UnpackedCells
    <2> QED  BY <2>1, <2>2 DEF load_iboot_image, AssertFails
  <1>5. ASSUME NEW addr \in 0 .. LoadCells, command_devicetree(addr)
        PROVE  TypeOK'
    <2> DEFINE image == memory[addr].of
    <2>1. image \in Images
      BY <1>5, FileImage DEF command_devicetree
    <2>2. CutFile(image) \in Contents
      BY <2>1, ContentsKinds
    <2> QED  BY <1>5, <2>2 DEF command_devicetree, AssertFails, DeviceTreeStored
  <1>6. ASSUME NEW addr \in 0 .. LoadCells, command_bootx(addr)
        PROVE  TypeOK'
    <2> DEFINE image == memory[addr].of
    <2>1. image \in Images
      BY <1>6, FileImage DEF command_bootx
    <2>2. /\ Unpacked(image, KERNELCACHE) \in [Cells -> Contents]
          /\ image.cells \in 0 .. KernelCells
      BY <2>1, UnpackedCells, ImageFields
    <2> QED  BY <1>6, <2>2 DEF command_bootx, AssertFails, decompress_kernel
  <1>7. CASE UNCHANGED vars
    BY <1>7 DEF vars
  <1> QED  BY <1>1, <1>2, <1>3, <1>4, <1>5, <1>6, <1>7 DEF Next

\* boot/commands.c: the areas hold whole files, cut ones or pieces, and the
\* globals name the areas.
THEOREM TypeCorrectness == Spec => []TypeOK
  BY InitTypes, TypeStep, PTL DEF Spec

-----------------------------------------------------------------------------
(* What is started *)

\* An accepted kernel fills its area with its own pieces.
LEMMA KernelUnpacked ==
    ASSUME TypeOK, NEW image \in Images, Accepted(image), decompress_kernel(image)
    PROVE  /\ gKernelImage' = KERNELCACHE /\ gKernelSize' = image.cells
           /\ image.checked /\ image.sound
           /\ \A k \in 0 .. image.cells - 1 : memory'[KERNELCACHE + k] = Piece(image, k)
  <1>1. /\ memory' = Unpacked(image, KERNELCACHE)
        /\ gKernelImage' = KERNELCACHE /\ gKernelSize' = image.cells
        /\ image.checked /\ image.sound
    BY DEF decompress_kernel, Accepted, Unpacks
  <1>2. ASSUME NEW k \in 0 .. image.cells - 1
        PROVE  memory'[KERNELCACHE + k] = Piece(image, k)
    <2>1. /\ KERNELCACHE + k \in Cells
          /\ KERNELCACHE + k \in KERNELCACHE .. KERNELCACHE + image.cells - 1
          /\ (KERNELCACHE + k) - KERNELCACHE = k
      BY ImageFields DEF KERNELCACHE, Cells
    <2> QED  BY <1>1, <2>1, UnpackedCells
  <1> QED  BY <1>1, <1>2

\* Only bootx starts a kernel, and nothing happens afterwards.
LEMMA StartStep == TypeOK /\ StartsChecked /\ [Next]_vars => StartsChecked'
  <1> SUFFICES ASSUME TypeOK, StartsChecked, [Next]_vars, machine' = "booting"
               PROVE  StartsChecked'
    BY DEF StartsChecked
  <1>1. CASE UNCHANGED vars
    BY <1>1 DEF vars, StartsChecked
  <1>2. CASE \E addr \in 0 .. LoadCells : command_bootx(addr)
    <2>1. PICK addr \in 0 .. LoadCells : command_bootx(addr)
      BY <1>2
    <2> DEFINE image == memory[addr].of
    <2>2. image \in Images
      BY <2>1, FileImage DEF command_bootx
    <2>3. Accepted(image) /\ decompress_kernel(image)
      BY <2>1 DEF command_bootx, AssertFails
    <2> QED  BY <2>2, <2>3, KernelUnpacked DEF StartsChecked
  <1> QED
    BY <1>1, <1>2 DEF Next, Load, Poke, command_go, command_setpicture, load_iboot_image,
       command_devicetree, AssertFails, Given

\* bootx (boot/commands.c, lib/kernelcache.c): the kernel that is started is in
\* every cell the one whose size and checksum were compared.
THEOREM OnlyCheckedKernels == Spec => []StartsChecked
  <1>1. Init => StartsChecked
    BY DEF Init, StartsChecked
  <1> QED  BY <1>1, StartStep, TypeCorrectness, PTL DEF Spec

-----------------------------------------------------------------------------
(* The device tree *)

\* The console writes to the device tree's cell only in devicetree.
LEMMA TreeStep ==
    ASSUME PicturesFit
    PROVE  TypeOK /\ DeviceTreeKept /\ [Next]_vars => DeviceTreeKept'
  <1> SUFFICES ASSUME TypeOK, DeviceTreeKept, [Next]_vars
               PROVE  DeviceTreeKept'
    OBVIOUS
  <1> DEFINE Untouched == memory'[DEVICETREE] = memory[DEVICETREE] /\ UNCHANGED gDeviceTreeImage
  <1>0. ASSUME Untouched PROVE DeviceTreeKept'
    BY <1>0 DEF DeviceTreeKept, TypeOK
  <1>1. ASSUME NEW addr \in 0 .. LoadCells - 1, NEW image \in Images, Load(addr, image)
        PROVE  Untouched
    BY <1>1, Areas DEF Load, TypeOK
  <1>2. ASSUME NEW addr \in 0 .. LoadCells, Poke(addr)
        PROVE  Untouched
    BY <1>2, Areas DEF Poke, TypeOK
  <1>3. ASSUME NEW addr \in 0 .. LoadCells, command_go(addr)
        PROVE  Untouched
    BY <1>3 DEF command_go
  <1>4. ASSUME NEW addr \in 0 .. LoadCells, command_setpicture(addr)
        PROVE  Untouched
    <2> DEFINE image == memory[addr].of
    <2>1. image \in Images /\ load_iboot_image(image)
      BY <1>4, FileImage DEF command_setpicture
    <2>2. ASSUME image.payload = "picture"
          PROVE  Unpacked(image, PICTURE)[DEVICETREE] = memory[DEVICETREE]
      <3>1. DEVICETREE \notin PICTURE .. PICTURE + image.cells - 1
        BY <2>1, <2>2 DEF PicturesFit, PICTURE, DEVICETREE
      <3> QED  BY <2>1, <3>1, Areas, UnpackedCells
    <2> QED  BY <2>1, <2>2 DEF load_iboot_image, AssertFails
  <1>5. ASSUME NEW addr \in 0 .. LoadCells, command_devicetree(addr)
        PROVE  DeviceTreeKept'
    <2> DEFINE image == memory[addr].of
    <2>1. image \in Images
      BY <1>5, FileImage DEF command_devicetree
    <2>2. CASE image.type = "xmdt" /\ HasData(image)
      <3>1. memory'[DEVICETREE] = CutFile(image) /\ gDeviceTreeImage' = DEVICETREE
        BY <1>5, <2>2, Areas DEF command_devicetree, AssertFails, DeviceTreeStored, TypeOK
      <3> QED  BY <2>1, <2>2, <3>1 DEF DeviceTreeKept
    <2>3. CASE ~ (image.type = "xmdt" /\ HasData(image))
      <3>1. Untouched
        BY <1>5, <2>3 DEF command_devicetree, AssertFails, DeviceTreeStored
      <3> QED  BY <3>1, <1>0
    <2> QED  BY <2>2, <2>3
  <1>6. ASSUME NEW addr \in 0 .. LoadCells, command_bootx(addr)
        PROVE  Untouched
    <2> DEFINE image == memory[addr].of
    <2>1. image \in Images
      BY <1>6, FileImage DEF command_bootx
    <2>2. Unpacked(image, KERNELCACHE)[DEVICETREE] = memory[DEVICETREE]
      <3>1. DEVICETREE \notin KERNELCACHE .. KERNELCACHE + image.cells - 1
        BY <2>1, ImageFields DEF DEVICETREE, KERNELCACHE
      <3> QED  BY <2>1, <3>1, Areas, UnpackedCells
    <2> QED  BY <1>6, <2>2 DEF command_bootx, AssertFails, decompress_kernel
  <1>7. CASE UNCHANGED vars
    BY <1>7, <1>0 DEF vars
  <1> QED  BY <1>0, <1>1, <1>2, <1>3, <1>4, <1>5, <1>6, <1>7 DEF Next

\* devicetree, setpicture, bootx: when every picture fits, no command overwrites
\* the device tree that was stored.
THEOREM DeviceTreeStays == ASSUME PicturesFit PROVE Spec => []DeviceTreeKept
  <1>1. Init => DeviceTreeKept
    BY DEF Init, DeviceTreeKept
  <1> QED  BY <1>1, TreeStep, TypeCorrectness, PTL DEF Spec

-----------------------------------------------------------------------------
(* ConsoleMemory: the numbers in memory *)

LEMMA Divided ==
    ASSUME NEW a \in Nat, NEW b \in Nat \ {0}
    PROVE  /\ a \div b \in Nat /\ a % b \in 0 .. b - 1
           /\ a = b * (a \div b) + (a % b)
  OBVIOUS

LEMMA Product == ASSUME NEW a \in Nat, NEW b \in Nat PROVE a * b \in Nat
  OBVIOUS

LEMMA DividedTwice ==
    ASSUME NEW a \in Nat, NEW b \in Nat \ {0}, NEW c \in Nat \ {0}
    PROVE  /\ c * b \in Nat \ {0}
           /\ (a \div c) \div b = a \div (c * b)
  <1> DEFINE q == a \div c
             p == q \div b
             r == a % c
             s == q % b
  <1>1. q \in Nat /\ r \in 0 .. c - 1 /\ a = c * q + r
    BY Divided
  <1>2. p \in Nat /\ s \in 0 .. b - 1 /\ q = b * p + s
    BY <1>1, Divided
  <1> HIDE DEF q, p, r, s
  <1>3. c * s \in Nat /\ c * s <= c * (b - 1) /\ c * b \in Nat \ {0}
    BY <1>2
  <1>4. a = c * (b * p + s) + r
    BY <1>1, <1>2
  <1>5. c * (b * p + s) = (c * b) * p + c * s
    BY <1>2
  <1>6. a = (c * b) * p + (c * s + r)
    BY <1>1, <1>2, <1>3, <1>4, <1>5
  <1>7. c * s + r \in 0 .. c * b - 1
    <2>1. c * (b - 1) = c * b - c
      OBVIOUS
    <2> DEFINE x == c * s
               y == c * b
               z == c * (b - 1)
    <2>2. x \in Nat /\ x <= z /\ z = y - c /\ y \in Nat
      BY <1>3, <2>1
    <2> HIDE DEF x, y, z
    <2>3. x + r \in 0 .. y - 1
      BY <1>1, <2>2
    <2> QED  BY <2>3 DEF x, y
  <1>8. a \div (c * b) = p
    <2> DEFINE d == c * b
               t == c * s + r
    <2>1. d \in Nat \ {0} /\ t \in 0 .. d - 1 /\ a = d * p + t
      BY <1>3, <1>6, <1>7
    <2> HIDE DEF d, t
    <2>2. a \div d = p
      BY <1>2, <2>1
    <2> QED  BY <2>2 DEF d
  <1> QED  BY <1>3, <1>8 DEF p, q

\* What a number's bytes are worth together
LEMMA WordWorth ==
    ASSUME Byte \in Nat \ {0}, NEW d \in Nat
    PROVE  LET w == M!Word(d) IN
           /\ w[1] = d % Byte
           /\ d < M!Half => d = w[1] + Byte * w[2]
           /\ d < M!Half * M!Half =>
                 d = w[1] + Byte * w[2] + (M!Half * w[3] + (M!Half * Byte) * w[4])
           /\ \A i \in 1 .. 4 : w[i] \in Nat
           /\ DOMAIN w = 1 .. 4
  <1> DEFINE h == M!Half
             p == d \div Byte
             q == d \div h
             u == d \div (h * Byte)
  <1>1. h \in Nat \ {0} /\ h = Byte * Byte
    BY DEF M!Half
  <1>2. p \in Nat /\ d % Byte \in Nat /\ d = Byte * p + (d % Byte)
    BY Divided
  <1>3. q = p \div Byte /\ u = q \div Byte
    BY <1>1, DividedTwice
  <1>4. q \in Nat /\ p % Byte \in Nat /\ p = Byte * q + (p % Byte)
    <2>1. q = p \div Byte
      BY <1>3
    <2>2. p \in Nat
      BY <1>2
    <2> HIDE DEF p, q
    <2>3. p \div Byte \in Nat /\ p % Byte \in 0 .. Byte - 1 /\ p = Byte * (p \div Byte) + (p % Byte)
      BY <2>2, Divided
    <2> QED  BY <2>1, <2>3
  <1>5. u \in Nat /\ q % Byte \in Nat /\ q = Byte * u + (q % Byte)
    <2>1. u = q \div Byte
      BY <1>3
    <2>2. q \in Nat
      BY <1>4
    <2> HIDE DEF u, q
    <2>3. q \div Byte \in Nat /\ q % Byte \in 0 .. Byte - 1 /\ q = Byte * (q \div Byte) + (q % Byte)
      BY <2>2, Divided
    <2> QED  BY <2>1, <2>3
  <1>6. u % Byte \in Nat
    BY <1>5, Divided
  <1>7. M!Word(d) = <<d % Byte, p % Byte, q % Byte, u % Byte>>
    BY DEF M!Word
  <1>8. ASSUME d < h PROVE p % Byte = p
    <2>1. p < Byte
      <3>1. ASSUME p >= Byte PROVE FALSE
        <4>1. Byte * p >= Byte * Byte
          BY <1>2, <3>1
        <4>2. d >= Byte * p
          <5> DEFINE x == Byte * p
          <5>1. x \in Nat /\ d = x + (d % Byte)
            BY <1>2
          <5> HIDE DEF x
          <5>2. d >= x
            BY <1>2, <5>1
          <5> QED  BY <5>2 DEF x
        <4> DEFINE x == Byte * p
        <4>3. x \in Nat /\ d >= x /\ x >= h /\ h \in Nat /\ d < h
          BY <1>1, <1>2, <1>8, <4>1, <4>2
        <4> HIDE DEF x, h
        <4> QED  BY <4>3
      <3> QED  BY <1>2, <3>1
    <2> HIDE DEF p
    <2> QED  BY <1>2, <2>1
  <1>9. ASSUME d < h * h PROVE u % Byte = u
    <2>1. d = (h * Byte) * u + (d % (h * Byte)) /\ d % (h * Byte) \in Nat /\ h * Byte \in Nat \ {0}
      <3>1. h * Byte \in Nat \ {0}
        BY <1>1, DividedTwice
      <3> DEFINE n == h * Byte
      <3>2. n \in Nat \ {0} /\ u = d \div n
        BY <3>1
      <3> HIDE DEF n, u
      <3>3. d = n * (d \div n) + (d % n) /\ d % n \in 0 .. n - 1
        BY <3>2, Divided
      <3>4. d = n * u + (d % n) /\ d % n \in Nat
        BY <3>2, <3>3
      <3> QED  BY <3>1, <3>4 DEF n
    <2>2. u < Byte
      <3>1. ASSUME u >= Byte PROVE FALSE
        <4> HIDE DEF u, h
        <4>1. (h * Byte) * u >= (h * Byte) * Byte
          BY <1>1, <1>5, <2>1, <3>1
        <4>2. (h * Byte) * Byte = h * h
          BY <1>1
        <4>3. (h * Byte) * u \in Nat /\ h * h \in Nat
          BY <1>1, <1>5
        <4>4. d >= (h * Byte) * u
          BY <2>1, <4>3
        <4> QED  BY <1>9, <4>1, <4>2, <4>3, <4>4
      <3> QED  BY <1>5, <3>1
    <2> HIDE DEF u
    <2> QED  BY <1>5, <2>2
  <1> HIDE DEF p, q, u, h
  <1>10. Byte * p = h * q + Byte * (p % Byte)
    <2>1. Byte * p = Byte * (Byte * q + (p % Byte))
      BY <1>4
    <2>2. Byte * (Byte * q + (p % Byte)) = (Byte * Byte) * q + Byte * (p % Byte)
      BY <1>4
    <2> QED  BY <1>1, <2>1, <2>2
  <1>11. h * q = (h * Byte) * u + h * (q % Byte)
    <2>1. h * q = h * (Byte * u + (q % Byte))
      BY <1>5
    <2>2. h * (Byte * u + (q % Byte)) = (h * Byte) * u + h * (q % Byte)
      BY <1>1, <1>5
    <2> QED  BY <2>1, <2>2
  <1>12. d < h * h => d = (d % Byte) + Byte * (p % Byte) + (h * (q % Byte) + (h * Byte) * (u % Byte))
    <2> DEFINE a == d % Byte
               b == Byte * (p % Byte)
               c == h * (q % Byte)
               e == (h * Byte) * u
    <2>1. a \in Nat /\ b \in Nat /\ c \in Nat /\ e \in Nat
      BY <1>1, <1>2, <1>4, <1>5
    <2>2. d = (e + c + b) + a
      <3> DEFINE x == Byte * p
                 y == h * q
      <3>1. x \in Nat /\ y \in Nat /\ d = x + a /\ x = y + b /\ y = e + c
        BY <1>1, <1>2, <1>4, <1>10, <1>11
      <3> HIDE DEF x, y, a, b, c, e
      <3> QED  BY <2>1, <3>1
    <2>3. d < h * h => d = a + b + (c + (h * Byte) * (u % Byte))
      <3> SUFFICES ASSUME d < h * h PROVE d = a + b + (c + (h * Byte) * (u % Byte))
        OBVIOUS
      <3>1. (h * Byte) * (u % Byte) = e
        BY <1>9
      <3>2. d = a + b + (c + e)
        <4> HIDE DEF a, b, c, e
        <4> QED  BY <2>1, <2>2
      <3> QED  BY <3>1, <3>2
    <2> QED  BY <2>3
  <1>13. d < h => d = (d % Byte) + Byte * (p % Byte)
    BY <1>2, <1>8
  <1> QED  BY <1>1, <1>2, <1>4, <1>5, <1>6, <1>7, <1>12, <1>13 DEF h

NumInv ==
    /\ bytes \in [0 .. End -> Nat]
    /\ put # M!NoNumber => put.address \in Nat
    /\ M!ReadsBack

\* The command that writes a number, as it is
LEMMA NumberStep ==
    ASSUME M!NumbersFit, bytes \in [0 .. End -> Nat], NEW address \in Nat, NEW size \in {1, 2, 4}, NEW d \in Nat,
           d < (IF size = 1 THEN Byte ELSE IF size = 2 THEN M!Half ELSE M!Half * M!Half),
           M!WriteNumber(address, size, d)
    PROVE  /\ bytes' \in [0 .. End -> Nat]
           /\ put'.address = address
           /\ M!permissions_range_check(address) => M!Loaded(address, size)' = d
           /\ \A a \in 0 .. End :
                 bytes'[a] # bytes[a] => M!permissions_range_check(address) /\ a \in address .. address + 3
  <1> DEFINE w == M!Word(d)
  <1>1. /\ put' = [address |-> address, size |-> size, data |-> d]
        /\ IF M!permissions_range_check(address) THEN bytes' = M!Stored(address, w) ELSE bytes' = bytes
    BY DEF M!WriteNumber, M!Write
  <1>2. DOMAIN w = 1 .. 4 /\ \A i \in 1 .. 4 : w[i] \in Nat
    BY WordWorth DEF M!NumbersFit
  <1>3. /\ w[1] = d % Byte
        /\ d < M!Half => d = w[1] + Byte * w[2]
        /\ d < M!Half * M!Half =>
              d = w[1] + Byte * w[2] + (M!Half * w[3] + (M!Half * Byte) * w[4])
    BY WordWorth DEF M!NumbersFit
  <1>4. Byte \in Nat \ {0} /\ End \in Nat /\ M!Half \in Nat
    BY DEF M!NumbersFit, M!Half
  <1> HIDE DEF w
  <1>5. CASE ~ M!permissions_range_check(address)
    BY <1>1, <1>5
  <1>6. CASE M!permissions_range_check(address)
    <2>1. bytes' = [a \in 0 .. End |-> IF a - address + 1 \in 1 .. 4 THEN w[a - address + 1] ELSE bytes[a]]
      BY <1>1, <1>2, <1>6 DEF M!Stored
    <2>2. bytes' \in [0 .. End -> Nat]
      BY <1>2, <2>1
    <2>3. \A a \in 0 .. End : bytes'[a] # bytes[a] => a \in address .. address + 3
      BY <2>1
    <2>4. /\ address + 0 \in 0 .. End /\ address + 1 \in 0 .. End
          /\ address + 2 \in 0 .. End /\ address + 3 \in 0 .. End
      BY <1>4, <1>6 DEF M!permissions_range_check, M!NumbersFit, M!gHighLimit
    <2>5. /\ bytes'[address + 0] = w[1] /\ bytes'[address + 1] = w[2]
          /\ bytes'[address + 2] = w[3] /\ bytes'[address + 3] = w[4]
      BY <2>1, <2>4
    <2>6. M!Loaded(address, size)' =
            w[1] + (IF size > 1 THEN Byte * w[2] ELSE 0)
                 + (IF size > 2 THEN M!Half * w[3] + (M!Half * Byte) * w[4] ELSE 0)
      BY <2>5 DEF M!Loaded, M!Half
    <2> DEFINE x == Byte * w[2]
               y == M!Half * w[3] + (M!Half * Byte) * w[4]
    <2>7. x \in Nat /\ y \in Nat /\ w[1] \in Nat
      <3>1. w[1] \in Nat /\ w[2] \in Nat /\ w[3] \in Nat /\ w[4] \in Nat
        BY <1>2
      <3>2. x \in Nat /\ M!Half * w[3] \in Nat /\ M!Half * Byte \in Nat
        BY <1>4, <3>1, Product
      <3>3. (M!Half * Byte) * w[4] \in Nat
        BY <3>1, <3>2, Product
      <3> QED  BY <3>1, <3>2, <3>3
    <2>8. /\ d < M!Half => d = w[1] + x
          /\ d < M!Half * M!Half => d = w[1] + x + y
          /\ M!Loaded(address, size)' = w[1] + (IF size > 1 THEN x ELSE 0) + (IF size > 2 THEN y ELSE 0)
      BY <1>3, <2>6
    <2>9. d < Byte => d = w[1]
      BY <1>3, <1>4
    <2> HIDE DEF x, y
    <2>10. M!Loaded(address, size)' = d
      <3>1. CASE size = 1
        BY <2>7, <2>8, <2>9, <3>1
      <3>2. CASE size = 2
        BY <2>7, <2>8, <3>2
      <3>3. CASE size = 4
        BY <2>7, <2>8, <3>3
      <3> QED  BY <3>1, <3>2, <3>3
    <2> QED  BY <1>1, <1>6, <2>2, <2>3, <2>10
  <1> QED  BY <1>5, <1>6

\* What a step may write
Confines ==
    \A a \in DOMAIN bytes :
        bytes'[a] # bytes[a] =>
            /\ M!gLowLimit <= a
            /\ IF put' # M!NoNumber THEN a <= M!gHighLimit + 3
               ELSE \E string \in Texts : a <= M!gHighLimit + Len(string)

LEMMA NumbersStep ==
    ASSUME M!NumbersFit, NumInv, NEW address \in Addresses, NEW data \in Numbers,
           M!command_mwb(address, data) \/ M!command_mwh(address, data) \/ M!command_mw(address, data)
    PROVE  NumInv' /\ Confines
  <1>1. PICK size \in {1, 2, 4}, d \in Nat :
            /\ d < (IF size = 1 THEN Byte ELSE IF size = 2 THEN M!Half ELSE M!Half * M!Half)
            /\ M!WriteNumber(address, size, d)
    <2>1. data \in Nat /\ Byte \in Nat \ {0}
      BY DEF M!NumbersFit
    <2>2. M!Half \in Nat \ {0}
      BY <2>1, DividedTwice DEF M!Half
    <2> DEFINE full == M!Half * M!Half
    <2>3. full \in Nat \ {0}
      BY <2>2, DividedTwice
    <2>4. data % Byte \in 0 .. Byte - 1 /\ data % M!Half \in 0 .. M!Half - 1
      BY <2>1, <2>2, Divided
    <2> HIDE DEF full
    <2>5. data % full \in 0 .. full - 1
      BY <2>1, <2>3, Divided
    <2>6. CASE M!command_mwb(address, data)
      <3>1. M!WriteNumber(address, 1, data % Byte) /\ data % Byte \in Nat /\ data % Byte < Byte
        BY <2>1, <2>4, <2>6 DEF M!command_mwb
      <3> QED  BY <3>1
    <2>7. CASE M!command_mwh(address, data)
      <3>1. M!WriteNumber(address, 2, data % M!Half) /\ data % M!Half \in Nat /\ data % M!Half < M!Half
        BY <2>2, <2>4, <2>7 DEF M!command_mwh
      <3> QED  BY <3>1
    <2>8. CASE M!command_mw(address, data)
      <3>1. M!WriteNumber(address, 4, data % full) /\ data % full \in Nat /\ data % full < full
        BY <2>3, <2>5, <2>8 DEF M!command_mw, full
      <3> QED  BY <3>1 DEF full
    <2> QED  BY <2>6, <2>7, <2>8
  <1>2. address \in Nat /\ bytes \in [0 .. End -> Nat]
    BY DEF M!NumbersFit, NumInv
  <1>3. put' = [address |-> address, size |-> size, data |-> d] /\ put' # M!NoNumber
    BY <1>1 DEF M!WriteNumber, M!NoNumber
  <1>4. /\ bytes' \in [0 .. End -> Nat]
        /\ M!permissions_range_check(address) => M!Loaded(address, size)' = d
        /\ \A a \in 0 .. End :
              bytes'[a] # bytes[a] => M!permissions_range_check(address) /\ a \in address .. address + 3
    BY <1>1, <1>2, NumberStep
  <1>5. M!ReadsBack'
    BY <1>3, <1>4 DEF M!ReadsBack, M!Loaded, M!permissions_range_check, M!gLowLimit, M!gHighLimit
  <1>6. Confines
    <2> SUFFICES ASSUME NEW a \in 0 .. End, bytes'[a] # bytes[a]
                 PROVE  M!gLowLimit <= a /\ a <= M!gHighLimit + 3
      BY <1>2, <1>3 DEF Confines
    <2>1. M!permissions_range_check(address) /\ a \in address .. address + 3
      BY <1>4
    <2>2. M!gLowLimit \in Nat /\ M!gHighLimit \in Nat
      BY DEF M!NumbersFit, M!gLowLimit, M!gHighLimit
    <2> QED  BY <1>2, <2>1, <2>2 DEF M!permissions_range_check
  <1> QED  BY <1>2, <1>3, <1>4, <1>5, <1>6 DEF NumInv

LEMMA StringStep ==
    ASSUME M!NumbersFit, NumInv, NEW address \in Addresses, NEW string \in Texts, M!command_mws(address, string)
    PROVE  NumInv' /\ Confines
  <1> DEFINE w == Append(string, 0)
             n == Len(string)
  <1>1. address \in Nat /\ string \in Seq(Nat) /\ bytes \in [0 .. End -> Nat] /\ End \in Nat
    BY DEF M!NumbersFit, NumInv
  <1>2. n \in Nat /\ DOMAIN w = 1 .. n + 1 /\ \A i \in 1 .. n + 1 : w[i] \in Nat
    BY <1>1
  <1>3. /\ put' = M!NoNumber
        /\ IF M!permissions_range_check(address) THEN bytes' = M!Stored(address, w) ELSE bytes' = bytes
    BY DEF M!command_mws, M!Write
  <1> HIDE DEF w, n
  <1>4. CASE M!permissions_range_check(address)
    <2>1. bytes' = [a \in 0 .. End |-> IF a - address + 1 \in 1 .. n + 1 THEN w[a - address + 1] ELSE bytes[a]]
      BY <1>1, <1>2, <1>3, <1>4 DEF M!Stored
    <2>2. bytes' \in [0 .. End -> Nat]
      BY <1>1, <1>2, <2>1
    <2>3. Confines
      <3> SUFFICES ASSUME NEW a \in 0 .. End, bytes'[a] # bytes[a]
                   PROVE  M!gLowLimit <= a /\ a <= M!gHighLimit + n
        BY <1>1, <1>3 DEF Confines, n
      <3>1. a - address + 1 \in 1 .. n + 1
        BY <2>1
      <3>2. M!gLowLimit \in Nat /\ M!gHighLimit \in Nat
        BY DEF M!NumbersFit, M!gLowLimit, M!gHighLimit
      <3> QED  BY <1>1, <1>2, <1>4, <3>1, <3>2 DEF M!permissions_range_check
    <2> QED  BY <1>3, <2>2, <2>3 DEF NumInv, M!ReadsBack
  <1>5. CASE ~ M!permissions_range_check(address)
    BY <1>1, <1>3, <1>5 DEF NumInv, M!ReadsBack, Confines
  <1> QED  BY <1>4, <1>5

LEMMA NumbersRest ==
    ASSUME NumInv, bytes' = bytes, put' = put
    PROVE  NumInv' /\ Confines
  BY DEF NumInv, M!ReadsBack, Confines, M!Loaded, M!permissions_range_check, M!gLowLimit, M!gHighLimit

LEMMA NumStep == M!NumbersFit /\ NumInv /\ [M!Next]_M!vars => NumInv' /\ Confines
  <1> SUFFICES ASSUME M!NumbersFit, NumInv, [M!Next]_M!vars PROVE NumInv' /\ Confines
    OBVIOUS
  <1>1. CASE UNCHANGED M!vars
    BY <1>1, NumbersRest DEF M!vars
  <1>2. ASSUME NEW address \in Addresses,
               M!command_mdb(address) \/ M!command_mdh(address) \/ M!command_md(address)
        PROVE  NumInv' /\ Confines
    BY <1>2, NumbersRest DEF M!command_mdb, M!command_mdh, M!command_md, M!Show
  <1> QED  BY <1>1, <1>2, NumbersStep, StringStep DEF M!Next

LEMMA NumInit == M!NumbersFit /\ M!Init => NumInv
  BY DEF M!NumbersFit, M!Init, NumInv, M!ReadsBack, M!NoNumber

\* mw and md, mwh and mdh, mwb and mdb: for numbers of every size below four
\* bytes, what was written last is what the command of the same width would show.
THEOREM NumbersReadBack == M!Spec => []ReadsBack
  <1>1. NumInv => M!ReadsBack
    BY DEF NumInv
  <1>2. M!NumbersFit
    BY NumbersAssumption
  <1>3. M!Init => NumInv
    BY <1>2, NumInit
  <1>4. NumInv /\ [M!Next]_M!vars => NumInv'
    BY <1>2, NumStep
  <1> QED  BY <1>1, <1>3, <1>4, PTL DEF M!Spec, ReadsBack

\* mw, mwh, mwb, mws: no command writes below the permitted range, or beyond its
\* end more than the rest of what begins on its last address.
THEOREM PokesStayConfined == M!Spec => PokesConfined
  <1>1. NumInv /\ [M!Next]_M!vars => NumInv' /\ [Confines]_M!vars
    BY NumbersAssumption, NumStep
  <1>2. M!Init => NumInv
    BY NumbersAssumption, NumInit
  <1>3. Confines <=>
          \A a \in DOMAIN bytes :
              bytes'[a] # bytes[a] =>
                 /\ M!gLowLimit <= a
                 /\ IF put' # M!NoNumber THEN a <= M!gHighLimit + 3
                    ELSE \E string \in Texts : a <= M!gHighLimit + Len(string)
    BY DEF Confines
  <1> QED  BY <1>1, <1>2, <1>3, PTL DEF M!Spec, PokesConfined, M!PokesConfined
=============================================================================
