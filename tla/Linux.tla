------------------------------- MODULE Linux --------------------------------
(***************************************************************************)
(* Booting Linux through the EFI handover protocol (src/linux.rs): the      *)
(* bzImage is read and checked, the kernel, the boot_params page, the       *)
(* command line and the initrd are placed in pages the firmware gives, and  *)
(* the entry the header names is called.                                    *)
(*                                                                         *)
(* Memory is kept byte by byte: a byte is <<what, index>>.  An image is     *)
(* what its setup header says, how long it is, and how much of it can be    *)
(* read (avail); the header's text in boot_params is left out.              *)
(***************************************************************************)
EXTENDS Integers, FiniteSets, FiniteSetsExt

CONSTANTS
  PageSize,      \* 4096
  NumPages,      \* pages of memory
  Line32,        \* 2^32, a multiple of PageSize
  MinImage,      \* 0x1000, the least a bzImage has
  Sector,        \* 512
  Boots,         \* images, command lines and initrds to consider
  FreeSets       \* the sets of pages the firmware may have free at first

Pages     == 0..(NumPages - 1)
Addresses == 0..(NumPages * PageSize - 1)

NoInitrd == [len |-> 0, avail |-> 0, given |-> FALSE]

(* cmdline.ends are the lengths at which a character of the command line    *)
(* ends; an initrd is asked for if given.                                   *)
ASSUME LinuxConstants ==
  /\ PageSize \in Nat \ {0} /\ NumPages \in Nat /\ Line32 \in Nat \ {0} /\ Line32 % PageSize = 0
  /\ MinImage \in Nat /\ Sector \in Nat
  /\ FreeSets \subseteq SUBSET Pages
  /\ \A b \in Boots :
       /\ b.image.len \in Nat /\ b.image.avail \in 0..b.image.len
       /\ b.image.magic \in BOOLEAN /\ b.image.recent \in BOOLEAN /\ b.image.handover \in BOOLEAN
       /\ {b.image.setup_sects, b.image.init_size, b.image.alignment, b.image.pref_address,
           b.image.handover_offset, b.image.cmdline_size} \subseteq Nat
       /\ b.image.relocatable \in BOOLEAN
       /\ b.cmdline.len \in Nat /\ {0, b.cmdline.len} \subseteq b.cmdline.ends
       /\ b.initrd.len \in Nat /\ b.initrd.avail \in 0..b.initrd.len

VARIABLES
  pc,
  image, cmdline, initrd,   \* what is booted
  had,        \* history: the pages that were free at first
  free,       \* those that still are
  mem,        \* what each byte of memory holds
  done,       \* bytes read_file has read
  kernel_mem, params,
  bp,         \* the fields of boot_params that are set
  status      \* what boot returned

inputs == <<image, cmdline, initrd, had>>
vars   == <<pc, inputs, free, mem, done, kernel_mem, params, bp, status>>

Old  == <<"old", 0>>
Zero == <<"zero", 0>>

-----------------------------------------------------------------------------
Init ==
  /\ pc = "open_image"
  /\ \E b \in Boots : image = b.image /\ cmdline = b.cmdline /\ initrd = b.initrd
  /\ free \in FreeSets /\ had = free
  /\ mem = [a \in Addresses |-> Old]
  /\ done = 0 /\ kernel_mem = 0 /\ params = 0
  /\ bp = [cmd_line_ptr |-> 0, ramdisk_image |-> 0, ramdisk_size |-> 0, code32_start |-> 0]
  /\ status = "none"

Return(s) ==
  /\ pc' = "returned" /\ status' = s
  /\ UNCHANGED <<inputs, free, mem, done, kernel_mem, params, bp>>

(* The file read_file has in hand. *)
Reading == IF pc \in {"open_image", "read_image"} THEN image ELSE initrd

(* It is open, and the heap has room for all of it. *)
OpenFile ==
  /\ pc \in {"open_image", "open_initrd"}
  /\ pc' = IF pc = "open_image" THEN "read_image" ELSE "read_initrd"
  /\ UNCHANGED <<inputs, free, mem, done, kernel_mem, params, bp, status>>

(* vec![0; size] for the file, or the copy of the command line: the heap    *)
(* has no room for it, and the allocator's answer to that is a panic.       *)
HeapExhausted ==
  /\ \/ pc \in {"open_image", "open_initrd"} /\ Reading.len > 0
     \/ pc = "cmdline" /\ cmdline.len > 0
  /\ pc' = "panic"
  /\ UNCHANGED <<inputs, free, mem, done, kernel_mem, params, bp, status>>

(* One call of read: as much as it likes of what is left. *)
ReadSome ==
  /\ pc \in {"read_image", "read_initrd"} /\ done < Reading.len
  /\ \E n \in 1..(Reading.avail - done) : done' = done + n
  /\ UNCHANGED <<pc, inputs, free, mem, kernel_mem, params, bp, status>>

(* The file cannot be opened, or a read fails or gives nothing. *)
NotRead == pc \in {"open_image", "open_initrd"} \/ done < Reading.len

ImageUnread == pc \in {"open_image", "read_image"} /\ NotRead /\ Return("NOT_FOUND")

KernelOffset == ((IF image.setup_sects = 0 THEN 4 ELSE image.setup_sects) + 1) * Sector

(* What boot returns for the image, in the order of its checks. *)
Refusal ==
  CASE image.len < MinImage \/ ~image.magic -> "LOAD_ERROR"
    [] ~image.recent \/ ~image.handover     -> "UNSUPPORTED"
    [] KernelOffset >= image.len            -> "LOAD_ERROR"
    [] OTHER                                -> "none"

ImageRead == pc = "read_image" /\ done = image.len

Refuse == ImageRead /\ Refusal # "none" /\ Return(Refusal)

-----------------------------------------------------------------------------
KernelLen == image.len - KernelOffset
Need      == Max({image.init_size, KernelLen})

DivCeil(n) == (n + PageSize - 1) \div PageSize
Run(a, n)  == (a \div PageSize)..(a \div PageSize + n - 1)

(* Where AllocatePages can find n pages. *)
Room(n) == {a \in Addresses : a % PageSize = 0 /\ Run(a, n) \subseteq free}

(* alloc_low: at least a page, below the line. *)
LowPages(bytes) == Max({DivCeil(bytes), 1})
LowRoom(bytes)  == {a \in Room(LowPages(bytes)) : a + LowPages(bytes) * PageSize <= Line32}

Take(a, n) == free' = free \ Run(a, n)

(* n bytes at address a are written, the i-th being f(i). *)
Put(m, a, n, f(_)) == [b \in Addresses |-> IF b \in a..(a + n - 1) THEN f(b - a) ELSE m[b]]

(* The image in file_buf, zeros where it was not read; zeros to its end. *)
KernelByte(i) ==
  IF i < KernelLen /\ KernelOffset + i < done THEN <<"kernel", KernelOffset + i>> ELSE Zero

PlaceKernel(a) ==
  /\ kernel_mem' = a
  /\ mem' = Put(mem, a, Need, KernelByte)
  /\ pc' = "params" /\ done' = 0
  /\ UNCHANGED <<inputs, params, bp, status>>

WithoutPadding == Need
Padded         == Need + image.alignment

Unaligned(a) == a
Aligned(a) ==
  IF image.alignment > 1
    THEN image.alignment * ((a + image.alignment - 1) \div image.alignment) ELSE a

Accepted == ImageRead /\ Refusal = "none"

PlaceRelocatable ==
  /\ Accepted /\ image.relocatable
  /\ \E a \in LowRoom(Padded) :
       Take(a, LowPages(Padded)) /\ PlaceKernel(Aligned(a))

(* AllocateType::Address: an address that is no page's is refused. *)
PlaceFixed ==
  /\ Accepted /\ ~image.relocatable
  /\ image.pref_address \in Room(DivCeil(Need))
  /\ Take(image.pref_address, DivCeil(Need))
  /\ PlaceKernel(image.pref_address)

NoRoomForKernel ==
  /\ Accepted
  /\ IF image.relocatable THEN LowRoom(Padded) = {}
     ELSE image.pref_address \notin Room(DivCeil(Need))
  /\ Return("OUT_OF_RESOURCES")

-----------------------------------------------------------------------------
(* A zeroed page, and the header at the offsets it had in the file. *)
AllocateParams ==
  /\ pc = "params"
  /\ \E a \in LowRoom(PageSize) :
       /\ Take(a, 1)
       /\ params' = a
       /\ mem' = Put(mem, a, PageSize, LAMBDA i : <<"params", i>>)
  /\ pc' = "cmdline"
  /\ UNCHANGED <<inputs, done, kernel_mem, bp, status>>

NoRoomForParams == pc = "params" /\ LowRoom(PageSize) = {} /\ Return("OUT_OF_RESOURCES")

TooLong    == image.cmdline_size > 0 /\ cmdline.len > image.cmdline_size
CmdlineLen == IF TooLong THEN image.cmdline_size ELSE cmdline.len

(* String::truncate panics inside a character. *)
TruncatePanics ==
  /\ pc = "cmdline" /\ TooLong /\ image.cmdline_size \notin cmdline.ends
  /\ pc' = "panic"
  /\ UNCHANGED <<inputs, free, mem, done, kernel_mem, params, bp, status>>

CmdlineWhole == ~TooLong \/ image.cmdline_size \in cmdline.ends

PlaceCmdline ==
  /\ pc = "cmdline" /\ CmdlineWhole
  /\ \E a \in LowRoom(CmdlineLen + 1) :
       /\ Take(a, LowPages(CmdlineLen + 1))
       /\ mem' = Put(mem, a, CmdlineLen + 1,
                     LAMBDA i : IF i < CmdlineLen THEN <<"cmdline", i>> ELSE Zero)
       /\ bp' = [bp EXCEPT !.cmd_line_ptr = a % Line32]
  /\ pc' = IF initrd.given THEN "open_initrd" ELSE "finish"
  /\ UNCHANGED <<inputs, done, kernel_mem, params, status>>

NoRoomForCmdline ==
  /\ pc = "cmdline" /\ CmdlineWhole /\ LowRoom(CmdlineLen + 1) = {}
  /\ Return("OUT_OF_RESOURCES")

InitrdMissing == NotRead \/ LowRoom(initrd.len) = {}

AtInitrd == pc \in {"open_initrd", "read_initrd"}

InitrdRefused == AtInitrd /\ InitrdMissing /\ Return("NOT_FOUND")

InitrdToldAnyway ==
  /\ AtInitrd /\ InitrdMissing
  /\ bp' = [bp EXCEPT !.ramdisk_size = initrd.len]
  /\ pc' = "finish"
  /\ UNCHANGED <<inputs, free, mem, done, kernel_mem, params, status>>

(* It could not be read, or there is no room: booting goes on without it. *)
WithoutInitrd ==
  /\ AtInitrd /\ InitrdMissing
  /\ pc' = "finish"
  /\ UNCHANGED <<inputs, free, mem, done, kernel_mem, params, bp, status>>

PlaceInitrd ==
  /\ pc = "read_initrd" /\ done = initrd.len
  /\ \E a \in LowRoom(initrd.len) :
       /\ Take(a, LowPages(initrd.len))
       /\ mem' = Put(mem, a, initrd.len, LAMBDA i : <<"initrd", i>>)
       /\ bp' = [bp EXCEPT !.ramdisk_image = a % Line32, !.ramdisk_size = initrd.len % Line32]
  /\ pc' = "finish"
  /\ UNCHANGED <<inputs, done, kernel_mem, params, status>>

(* The last fields, and the call of the entry. *)
HandOver ==
  /\ pc = "finish"
  /\ bp' = [bp EXCEPT !.code32_start = kernel_mem % Line32]
  /\ pc' = "linux"
  /\ UNCHANGED <<inputs, free, mem, done, kernel_mem, params, status>>

(* One sector past the 32-bit entry, counted from the loaded kernel. *)
EntryAt == kernel_mem + image.handover_offset + Sector

Next ==
  \/ OpenFile \/ HeapExhausted \/ ReadSome \/ ImageUnread \/ Refuse
  \/ PlaceRelocatable \/ PlaceFixed \/ NoRoomForKernel
  \/ AllocateParams \/ NoRoomForParams
  \/ TruncatePanics \/ PlaceCmdline \/ NoRoomForCmdline
  \/ WithoutInitrd \/ PlaceInitrd \/ HandOver

(* Nothing waits; the firmware answers every call. *)
Spec == Init /\ [][Next]_vars /\ WF_vars(Next)

-----------------------------------------------------------------------------
(* The variables keep their types, and no more is read than there is. *)
TypeOK ==
  /\ pc \in {"open_image", "read_image", "params", "cmdline", "open_initrd", "read_initrd",
             "finish", "linux", "returned", "panic"}
  /\ free \subseteq had /\ had \subseteq Pages
  /\ DOMAIN mem = Addresses
  /\ pc \in {"read_image", "read_initrd"} => done \in 0..Reading.len
  /\ kernel_mem \in Nat /\ params \in Nat
  /\ \A f \in DOMAIN bp : bp[f] \in 0..(Line32 - 1)
  /\ status \in {"none", "NOT_FOUND", "LOAD_ERROR", "UNSUPPORTED", "OUT_OF_RESOURCES"}

(* Only memory the firmware gave is written: the kernel rounded up to its   *)
(* alignment, the terminator of a command line that fills its pages and an  *)
(* image smaller than it needs stay in what was asked for.                  *)
WritesOwned ==
  /\ \A a \in Addresses : mem[a] # Old => a \div PageSize \in had \ free
  /\ pc \notin {"open_image", "read_image", "returned", "panic"} =>
       kernel_mem + Need - 1 \in Addresses

(* When Linux is called, its kernel is where it may be, whole, with zeros   *)
(* up to what it needs, whatever was placed after it; and the entry is the  *)
(* byte of the file that the header means.                                  *)
KernelIntact ==
  pc = "linux" =>
    /\ \A i \in 0..(Need - 1) :
         mem[kernel_mem + i] =
           IF i < KernelLen THEN <<"kernel", KernelOffset + i>> ELSE Zero
    /\ IF image.relocatable
         THEN image.alignment > 1 => kernel_mem % image.alignment = 0
         ELSE kernel_mem = image.pref_address
    /\ image.handover_offset + Sector < KernelLen =>
         mem[EntryAt] = <<"kernel", KernelOffset + image.handover_offset + Sector>>

(* What boot_params says is so: the page is as it was filled, the command   *)
(* line is at its address, whole or cut to what the kernel takes, and       *)
(* terminated; an initrd is told of only when all of it is where it is told *)
(* to be; and the addresses lost nothing to their 32 bits.  Of code32_start *)
(* this is said for a relocatable kernel only: one that is not, and asks to *)
(* be above the line, is told an address that lost its top.                 *)
ParamsTrue ==
  pc = "linux" =>
    /\ \A i \in 0..(PageSize - 1) : mem[params + i] = <<"params", i>>
    /\ \A i \in 0..(CmdlineLen - 1) : mem[bp.cmd_line_ptr + i] = <<"cmdline", i>>
    /\ mem[bp.cmd_line_ptr + CmdlineLen] = Zero
    /\ bp.ramdisk_size # 0 =>
         /\ bp.ramdisk_size = initrd.len
         /\ \A i \in 0..(initrd.len - 1) : mem[bp.ramdisk_image + i] = <<"initrd", i>>
    /\ image.relocatable => bp.code32_start = kernel_mem

(* An initrd that cannot be read to its end or placed never stops the boot: *)
(* once the heap has room for it, Linux is called.  ("Booting without it is *)
(* worth trying".)  One the heap has no room for does stop it.              *)
InitrdNeverStops == (pc \in {"read_initrd", "finish"}) ~> (pc = "linux")

=============================================================================
