----------------------------- MODULE LinuxProofs -----------------------------
(***************************************************************************)
(* What Linux finds when its entry is called, for any image, command line   *)
(* and initrd, any memory and any size of a page.                           *)
(*                                                                         *)
(* Whatever is placed lies in pages that were free and are no longer, so    *)
(* that what is placed later does not reach it.  LinuxInv says so of the    *)
(* kernel, the boot_params page, the command line and the initrd, each from *)
(* the step that places it on.                                              *)
(***************************************************************************)
EXTENDS Linux, TLAPS

(* What the assumption on the inputs says of those of this boot. *)
InputsOK ==
  /\ image.len \in Nat /\ image.avail \in 0..image.len
  /\ image.setup_sects \in Nat /\ image.init_size \in Nat /\ image.alignment \in Nat
  /\ image.pref_address \in Nat /\ image.handover_offset \in Nat /\ image.cmdline_size \in Nat
  /\ cmdline.len \in Nat /\ initrd.len \in Nat /\ initrd.avail \in 0..initrd.len

Params32 == 0..(Line32 - 1)

Types ==
  /\ TypeOK /\ InputsOK
  /\ mem = [a \in Addresses |-> mem[a]]
  /\ bp \in [cmd_line_ptr : Params32, ramdisk_image : Params32, ramdisk_size : Params32,
             code32_start : Params32]
  /\ pc \in {"open_image", "params", "cmdline", "open_initrd"} => done = 0
  /\ pc \in {"open_image", "read_image", "params", "cmdline", "open_initrd", "read_initrd"} =>
       bp.ramdisk_size = 0

(* From the kernel, the page, the command line and the initrd on. *)
HasCmdline == {"open_initrd", "read_initrd", "finish", "linux"}
HasParams  == {"cmdline"} \cup HasCmdline
HasKernel  == {"params"} \cup HasParams

(* The addresses from a to a + n - 1 are in pages the firmware gave. *)
Own(a, n) == \A i \in 0..(n - 1) : a + i \in Addresses /\ (a + i) \div PageSize \in had \ free

Written == \A a \in Addresses : mem[a] # Old => a \div PageSize \in had \ free

KernelThere ==
  /\ 0 < KernelLen /\ Own(kernel_mem, Need)
  /\ \A i \in 0..(Need - 1) :
       mem[kernel_mem + i] = IF i < KernelLen THEN <<"kernel", KernelOffset + i>> ELSE Zero
  /\ IF image.relocatable
       THEN /\ kernel_mem < Line32
            /\ image.alignment > 1 => kernel_mem % image.alignment = 0
       ELSE kernel_mem = image.pref_address

ParamsThere ==
  /\ Own(params, PageSize)
  /\ \A i \in 0..(PageSize - 1) : mem[params + i] = <<"params", i>>

CmdlineThere ==
  /\ Own(bp.cmd_line_ptr, CmdlineLen + 1)
  /\ \A i \in 0..(CmdlineLen - 1) : mem[bp.cmd_line_ptr + i] = <<"cmdline", i>>
  /\ mem[bp.cmd_line_ptr + CmdlineLen] = Zero

InitrdThere ==
  bp.ramdisk_size # 0 =>
    /\ bp.ramdisk_size = initrd.len /\ Own(bp.ramdisk_image, initrd.len)
    /\ \A i \in 0..(initrd.len - 1) : mem[bp.ramdisk_image + i] = <<"initrd", i>>

Placed ==
  /\ pc \in HasKernel => KernelThere
  /\ pc \in HasParams => ParamsThere
  /\ pc \in HasCmdline => CmdlineThere
  /\ InitrdThere

Told == pc = "linux" /\ image.relocatable => bp.code32_start = kernel_mem

LinuxInv == Types /\ Written /\ Placed /\ Told

-----------------------------------------------------------------------------
(* The quotient and the remainder. *)
LEMMA DivBounds ==
  ASSUME NEW a \in Nat, NEW p \in Nat \ {0}
  PROVE  /\ a \div p \in Nat
         /\ a % p \in 0..(p - 1)
         /\ a = p * (a \div p) + (a % p)
         /\ p * (a \div p) <= a
         /\ a < p * (a \div p) + p
  OBVIOUS

(* Below the modulus the remainder is the number itself. *)
LEMMA ModSmall ==
  ASSUME NEW a \in Nat, NEW m \in Nat \ {0}, a < m
  PROVE  a % m = a
  OBVIOUS

(* A multiple leaves no remainder. *)
LEMMA MultipleOf ==
  ASSUME NEW p \in Nat \ {0}, NEW q \in Nat
  PROVE  (p * q) % p = 0
  OBVIOUS

(* Multiplying by a size keeps the order. *)
LEMMA MulMono ==
  ASSUME NEW p \in Nat \ {0}, NEW x \in Int, NEW y \in Int
  PROVE  p * x < p * y <=> x < y
  OBVIOUS

(* A number below (not below) n pages is in one of them (in none).          *)
LEMMA DivBelow ==
  ASSUME NEW a \in Nat, NEW p \in Nat \ {0}, NEW n \in Nat
  PROVE  /\ a < p * n => a \div p < n
         /\ p * n <= a => n <= a \div p
  <1>1. a \div p \in Nat /\ p * (a \div p) <= a /\ a < p * (a \div p) + p
    BY DivBounds
  <1>2. ASSUME a < p * n PROVE a \div p < n
    <2>1. p * (a \div p) < p * n
      BY <1>1, <1>2
    <2> QED
      BY <1>1, <2>1, MulMono
  <1>3. ASSUME p * n <= a PROVE n <= a \div p
    <2>1. p * n < p * (a \div p) + p
      BY <1>1, <1>3
    <2>2. p * (a \div p) + p = p * ((a \div p) + 1)
      BY <1>1
    <2>3. n < (a \div p) + 1
      BY <1>1, <2>1, <2>2, MulMono
    <2> QED
      BY <1>1, <2>3
  <1> QED
    BY <1>2, <1>3

(* The larger of two numbers. *)
LEMMA MaxOfTwo ==
  ASSUME NEW a \in Int, NEW b \in Int
  PROVE  Max({a, b}) \in {a, b} /\ a <= Max({a, b}) /\ b <= Max({a, b})
  <1>1. \E x \in {a, b} : \A y \in {a, b} : x >= y
    <2>1. CASE a >= b
      BY <2>1
    <2>2. CASE b >= a
      BY <2>2
    <2> QED
      BY <2>1, <2>2
  <1>2. Max({a, b}) \in {a, b} /\ \A y \in {a, b} : Max({a, b}) >= y
    BY <1>1, Zenon DEF Max
  <1> QED
    BY <1>2

(* Rounded up, n bytes fit in their pages. *)
LEMMA CeilCovers ==
  ASSUME NEW n \in Nat
  PROVE  DivCeil(n) \in Nat /\ n <= PageSize * DivCeil(n)
  <1> DEFINE m == n + PageSize - 1
  <1>1. PageSize \in Nat \ {0} /\ m \in Nat
    BY LinuxConstants
  <1>2. m \div PageSize \in Nat /\ m < PageSize * (m \div PageSize) + PageSize
    BY <1>1, DivBounds
  <1>3. n <= PageSize * (m \div PageSize)
    BY <1>1, <1>2
  <1> QED
    BY <1>2, <1>3 DEF DivCeil

(* What alloc_low asks for is never nothing, and enough. *)
LEMMA LowCovers ==
  ASSUME NEW n \in Nat
  PROVE  LowPages(n) \in Nat \ {0} /\ n <= PageSize * LowPages(n)
  <1>1. DivCeil(n) \in Nat /\ n <= PageSize * DivCeil(n)
    BY CeilCovers
  <1>2. LowPages(n) \in {DivCeil(n), 1} /\ DivCeil(n) <= LowPages(n) /\ 1 <= LowPages(n)
    <2>1. DivCeil(n) \in Int /\ 1 \in Int
      BY <1>1
    <2> QED
      BY <2>1, MaxOfTwo, Zenon DEF LowPages
  <1>3. PageSize \in Nat \ {0}
    BY LinuxConstants
  <1>4. CASE LowPages(n) = DivCeil(n)
    BY <1>1, <1>2, <1>4
  <1>5. CASE LowPages(n) = 1
    <2>1. DivCeil(n) = 0 \/ DivCeil(n) = 1
      BY <1>1, <1>2, <1>5
    <2> QED
      BY <1>1, <1>3, <1>5, <2>1
  <1> QED
    BY <1>2, <1>4, <1>5

(* Every byte inside a run of pages of the memory is in one of them.        *)
LEMMA RunCovers ==
  ASSUME NEW a \in Nat, a % PageSize = 0, NEW n \in Nat, Run(a, n) \subseteq Pages,
         NEW b \in Nat, a <= b, b < a + PageSize * n
  PROVE  b \div PageSize \in Run(a, n) /\ b \in Addresses
  <1> DEFINE q == a \div PageSize
  <1>1. PageSize \in Nat \ {0} /\ NumPages \in Nat
    BY LinuxConstants
  <1>2. q \in Nat /\ a = PageSize * q
    BY <1>1, DivBounds
  <1>3. b < PageSize * (q + n)
    BY <1>1, <1>2
  <1>4. b \div PageSize \in Nat /\ b \div PageSize < q + n /\ q <= b \div PageSize
    BY <1>1, <1>2, <1>3, DivBounds, DivBelow
  <1>5. b \div PageSize \in Run(a, n)
    BY <1>2, <1>4 DEF Run
  <1>6. b \div PageSize < NumPages
    BY <1>1, <1>5 DEF Pages
  <1>7. b < NumPages * PageSize
    <2>1. ~(PageSize * NumPages <= b)
      BY <1>1, <1>4, <1>6, DivBelow
    <2> QED
      BY <1>1, <2>1
  <1> QED
    BY <1>1, <1>5, <1>7 DEF Addresses

(* The sizes of the kernel. *)
LEMMA NeedFacts ==
  ASSUME InputsOK
  PROVE  /\ KernelOffset \in Nat /\ KernelLen \in Int /\ Need \in Nat
         /\ KernelLen <= Need /\ CmdlineLen \in Nat
  <1>1. KernelOffset \in Nat /\ KernelLen \in Int
    <2>1. Sector \in Nat
      BY LinuxConstants
    <2>2. image.setup_sects \in Nat /\ image.len \in Nat
      BY DEF InputsOK
    <2>3. ((IF image.setup_sects = 0 THEN 4 ELSE image.setup_sects) + 1) \in Nat
      BY <2>2
    <2> QED
      BY <2>1, <2>2, <2>3 DEF KernelOffset, KernelLen
  <1>2. image.init_size \in Nat /\ image.init_size <= Need /\ KernelLen <= Need
        /\ Need \in {image.init_size, KernelLen}
    <2>1. image.init_size \in Nat /\ image.init_size \in Int
      BY DEF InputsOK
    <2> QED
      BY <1>1, <2>1, MaxOfTwo, Zenon DEF Need
  <1>3. CmdlineLen \in Nat
    BY DEF CmdlineLen, InputsOK
  <1> QED
    BY <1>1, <1>2, <1>3

(* Rounding up to the alignment keeps inside the padding and, if the        *)
(* alignment is more than one, gives a multiple.                            *)
LEMMA AlignedFacts ==
  ASSUME InputsOK, NEW a \in Nat
  PROVE  /\ Aligned(a) \in Nat /\ a <= Aligned(a)
         /\ Aligned(a) + Need <= a + Padded
         /\ 0 < Need => Aligned(a) < a + Padded
         /\ image.alignment > 1 => Aligned(a) % image.alignment = 0
  <1>1. Need \in Nat /\ image.alignment \in Nat
    BY NeedFacts DEF InputsOK
  <1>2. CASE image.alignment > 1
    <2> DEFINE m == a + image.alignment - 1
               q == m \div image.alignment
    <2>1. image.alignment \in Nat \ {0} /\ m \in Nat
      BY <1>1, <1>2
    <2>2. /\ q \in Nat /\ image.alignment * q <= m
          /\ m < image.alignment * q + image.alignment
      BY <2>1, DivBounds
    <2>3. image.alignment * q \in Nat
      BY <2>1, <2>2
    <2>4. Aligned(a) = image.alignment * q
      BY <1>2 DEF Aligned
    <2>5. (image.alignment * q) % image.alignment = 0
      BY <2>1, <2>2, MultipleOf
    <2>6. a <= image.alignment * q /\ image.alignment * q < a + image.alignment
      BY <1>1, <2>1, <2>2, <2>3
    <2> QED
      BY <1>1, <2>3, <2>4, <2>5, <2>6 DEF Padded
  <1>3. CASE ~(image.alignment > 1)
    BY <1>1, <1>3 DEF Aligned, Padded
  <1> QED
    BY <1>2, <1>3

-----------------------------------------------------------------------------
(* The bytes in pages that have been given are left alone, and the pages    *)
(* are not given back.                                                      *)
Survives ==
  \A b \in Addresses :
    b \div PageSize \in had \ free => mem'[b] = mem[b] /\ b \div PageSize \in had' \ free'

(* Whatever has been placed is there still. *)
LEMMA Stays ==
  ASSUME InputsOK, Survives, UNCHANGED inputs
  PROVE  /\ KernelThere /\ UNCHANGED kernel_mem => KernelThere'
         /\ ParamsThere /\ UNCHANGED params => ParamsThere'
         /\ CmdlineThere /\ bp'.cmd_line_ptr = bp.cmd_line_ptr => CmdlineThere'
         /\ InitrdThere /\ bp'.ramdisk_image = bp.ramdisk_image
                        /\ bp'.ramdisk_size = bp.ramdisk_size => InitrdThere'
  <1>0. /\ Need' = Need /\ KernelLen' = KernelLen /\ KernelOffset' = KernelOffset
        /\ CmdlineLen' = CmdlineLen /\ CmdlineLen \in Nat
        /\ image' = image /\ initrd' = initrd
    BY NeedFacts DEF inputs, Need, KernelLen, KernelOffset, CmdlineLen, TooLong
  <1>1. ASSUME KernelThere, UNCHANGED kernel_mem PROVE KernelThere'
    <2>1. \A i \in 0..(Need - 1) :
            /\ mem'[kernel_mem + i] = mem[kernel_mem + i]
            /\ kernel_mem + i \in Addresses /\ (kernel_mem + i) \div PageSize \in had' \ free'
      BY <1>1 DEF KernelThere, Own, Survives
    <2> QED
      BY <1>0, <1>1, <2>1 DEF KernelThere, Own
  <1>2. ASSUME ParamsThere, UNCHANGED params PROVE ParamsThere'
    <2>1. \A i \in 0..(PageSize - 1) :
            /\ mem'[params + i] = mem[params + i]
            /\ params + i \in Addresses /\ (params + i) \div PageSize \in had' \ free'
      BY <1>2 DEF ParamsThere, Own, Survives
    <2> QED
      BY <1>2, <2>1 DEF ParamsThere, Own
  <1>3. ASSUME CmdlineThere, bp'.cmd_line_ptr = bp.cmd_line_ptr PROVE CmdlineThere'
    <2> DEFINE at == bp.cmd_line_ptr
               n  == CmdlineLen + 1
    <2>1. /\ Own(at, n) /\ mem[at + CmdlineLen] = Zero
          /\ \A i \in 0..(CmdlineLen - 1) : mem[at + i] = <<"cmdline", i>>
      BY <1>3 DEF CmdlineThere
    <2>2. \A i \in 0..(n - 1) :
            /\ mem'[at + i] = mem[at + i]
            /\ at + i \in Addresses /\ (at + i) \div PageSize \in had' \ free'
      <3> HIDE DEF n
      <3> QED
        BY <2>1 DEF Own, Survives
    <2>3. CmdlineLen \in 0..(n - 1) /\ \A i \in 0..(CmdlineLen - 1) : i \in 0..(n - 1)
      BY <1>0
    <2>4. /\ mem'[at + CmdlineLen] = Zero
          /\ \A i \in 0..(CmdlineLen - 1) : mem'[at + i] = <<"cmdline", i>>
      <3> HIDE DEF n
      <3> QED
        BY <2>1, <2>2, <2>3
    <2>5. n' = n /\ at' = at
      BY <1>0, <1>3
    <2>6. Own(at, n)'
      <3> HIDE DEF n, at
      <3> QED
        BY <2>2, <2>5 DEF Own
    <2> QED
      BY <1>0, <1>3, <2>4, <2>6 DEF CmdlineThere
  <1>4. ASSUME InitrdThere, bp'.ramdisk_image = bp.ramdisk_image, bp'.ramdisk_size = bp.ramdisk_size
        PROVE  InitrdThere'
    <2> DEFINE at == bp.ramdisk_image
    <2>1. bp.ramdisk_size # 0 =>
            \A i \in 0..(initrd.len - 1) :
              /\ mem'[at + i] = mem[at + i]
              /\ at + i \in Addresses /\ (at + i) \div PageSize \in had' \ free'
      BY <1>4 DEF InitrdThere, Own, Survives
    <2> QED
      BY <1>0, <1>4, <2>1 DEF InitrdThere, Own
  <1> QED
    BY <1>1, <1>2, <1>3, <1>4

(* What is put into pages taken from the free ones disturbs nothing, and is *)
(* in memory the firmware gave.                                             *)
LEMMA Taken ==
  ASSUME Types, Written, UNCHANGED had,
         NEW a \in Nat, a % PageSize = 0, NEW n \in Nat, Run(a, n) \subseteq free, Take(a, n),
         NEW x \in Nat, NEW m \in Nat, a <= x, x + m <= a + PageSize * n,
         \A b \in Addresses : b \notin x..(x + m - 1) => mem'[b] = mem[b]
  PROVE  /\ Survives /\ Written' /\ free' \subseteq free
         /\ \A i \in 0..(m - 1) : x + i \in Addresses /\ (x + i) \div PageSize \in had' \ free'
  <1>1. /\ free \subseteq had /\ had \subseteq Pages /\ had' = had /\ free' = free \ Run(a, n)
        /\ PageSize \in Nat \ {0}
    BY LinuxConstants DEF Types, TypeOK, Take
  <1>2. ASSUME NEW b \in x..(x + m - 1)
        PROVE  b \in Addresses /\ b \div PageSize \in Run(a, n)
    <2>1. b \in Nat /\ a <= b /\ b < a + PageSize * n
      BY <1>1, <1>2
    <2>2. Run(a, n) \subseteq Pages
      BY <1>1
    <2> QED
      BY <2>1, <2>2, RunCovers
  <1>3. \A b \in x..(x + m - 1) : b \div PageSize \in free /\ b \div PageSize \in had' \ free'
    BY <1>1, <1>2
  <1>4. Survives
    BY <1>1, <1>3 DEF Survives
  <1>5. Written'
    <2> SUFFICES ASSUME NEW b \in Addresses, mem'[b] # Old
                 PROVE  b \div PageSize \in had' \ free'
      BY DEF Written
    <2>1. CASE b \in x..(x + m - 1)
      BY <1>3, <2>1
    <2>2. CASE b \notin x..(x + m - 1)
      BY <1>1, <2>2 DEF Written
    <2> QED
      BY <2>1, <2>2
  <1>6. \A i \in 0..(m - 1) : x + i \in x..(x + m - 1)
    OBVIOUS
  <1> QED
    BY <1>1, <1>2, <1>3, <1>4, <1>5, <1>6

-----------------------------------------------------------------------------
(* At first nothing is written, and nothing is placed.                      *)
LEMMA LinuxInit == Init => LinuxInv
  <1> SUFFICES ASSUME Init PROVE LinuxInv
    OBVIOUS
  <1>1. PICK b \in Boots : image = b.image /\ cmdline = b.cmdline /\ initrd = b.initrd
    BY DEF Init
  <1>2. InputsOK
    BY <1>1, LinuxConstants DEF InputsOK
  <1>3. Line32 \in Nat \ {0} /\ 0 \in Params32
    BY LinuxConstants DEF Params32
  <1>4. free \subseteq had /\ had \subseteq Pages
    BY LinuxConstants DEF Init
  <1>5. mem = [a \in Addresses |-> Old]
    BY DEF Init
  <1>6. DOMAIN mem = Addresses /\ mem = [a \in Addresses |-> mem[a]] /\ \A a \in Addresses : mem[a] = Old
    BY <1>5
  <1>7. bp \in [cmd_line_ptr : Params32, ramdisk_image : Params32, ramdisk_size : Params32,
                code32_start : Params32] /\ bp.ramdisk_size = 0
    BY <1>3 DEF Init
  <1>8. \A f \in DOMAIN bp : bp[f] \in 0..(Line32 - 1)
    BY <1>7 DEF Params32
  <1>9. pc = "open_image" /\ done = 0 /\ kernel_mem = 0 /\ params = 0 /\ status = "none"
    BY DEF Init
  <1>10. done \in 0..Reading.len
    BY <1>2, <1>9 DEF Reading, InputsOK
  <1>11. Types
    BY <1>2, <1>4, <1>6, <1>7, <1>8, <1>9, <1>10 DEF Types, TypeOK
  <1>12. Written
    BY <1>6 DEF Written
  <1>13. Placed
    BY <1>7, <1>9 DEF Placed, InitrdThere, HasKernel, HasParams, HasCmdline
  <1> QED
    BY <1>9, <1>11, <1>12, <1>13 DEF LinuxInv, Told

(* A step that places nothing: it ends the call or leaves the initrd out,   *)
(* or only reads.                                                           *)
Quiet ==
  /\ UNCHANGED <<inputs, free, mem, kernel_mem, params, bp>>
  /\ \/ pc' = pc
     \/ pc' \in {"returned", "panic"}
     \/ pc = "open_image" /\ pc' = "read_image"
     \/ pc = "open_initrd" /\ pc' \in {"read_initrd", "finish"}
     \/ pc = "read_initrd" /\ pc' = "finish"
  /\ pc' \in {"read_image", "read_initrd"} => done' \in 0..Reading'.len
  /\ pc' \in {"open_image", "params", "cmdline", "open_initrd"} => done' = done
  /\ status' \in {"none", "NOT_FOUND", "LOAD_ERROR", "UNSUPPORTED", "OUT_OF_RESOURCES"}

(* Such a step keeps the invariant.                                         *)
LEMMA QuietKeeps == LinuxInv /\ Quiet => LinuxInv'
  <1> SUFFICES ASSUME LinuxInv, Quiet PROVE LinuxInv'
    OBVIOUS
  <1>1. /\ image' = image /\ cmdline' = cmdline /\ initrd' = initrd /\ had' = had
        /\ free' = free /\ mem' = mem /\ kernel_mem' = kernel_mem /\ params' = params
        /\ bp' = bp
    BY DEF Quiet, inputs
  <1>2. Types /\ Written /\ Placed /\ Told
    BY DEF LinuxInv
  <1>3. InputsOK /\ InputsOK'
    BY <1>1, <1>2 DEF Types, InputsOK
  <1>4. Types'
    <2>1. TypeOK'
      BY <1>1, <1>2 DEF Types, TypeOK, Quiet
    <2>2. /\ mem' = [a \in Addresses |-> mem'[a]]
          /\ bp' \in [cmd_line_ptr : Params32, ramdisk_image : Params32,
                      ramdisk_size : Params32, code32_start : Params32]
      BY <1>1, <1>2 DEF Types
    <2>3. /\ pc' \in {"open_image", "params", "cmdline", "open_initrd"} => done' = 0
          /\ pc' \in {"open_image", "read_image", "params", "cmdline", "open_initrd",
                     "read_initrd"} => bp'.ramdisk_size = 0
      BY <1>1, <1>2 DEF Types, Quiet
    <2> QED
      BY <1>3, <2>1, <2>2, <2>3 DEF Types
  <1>5. Written'
    BY <1>1, <1>2 DEF Written
  <1>6. Survives
    BY <1>1 DEF Survives
  <1>7. Placed'
    <2>1. /\ KernelThere => KernelThere'
          /\ ParamsThere => ParamsThere'
          /\ CmdlineThere => CmdlineThere'
          /\ InitrdThere => InitrdThere'
      BY <1>1, <1>3, <1>6, Stays DEF Quiet
    <2>2. /\ pc' \in HasKernel => pc \in HasKernel
          /\ pc' \in HasParams => pc \in HasParams
          /\ pc' \in HasCmdline => pc \in HasCmdline
      BY DEF Quiet, HasKernel, HasParams, HasCmdline
    <2>3. HasKernel' = HasKernel /\ HasParams' = HasParams /\ HasCmdline' = HasCmdline
      BY DEF HasKernel, HasParams, HasCmdline
    <2> QED
      BY <1>2, <2>1, <2>2, <2>3 DEF Placed
  <1>8. Told'
    BY <1>1, <1>2 DEF Told, Quiet
  <1> QED
    BY <1>4, <1>5, <1>7, <1>8 DEF LinuxInv

(* The steps that place nothing.                                            *)
LEMMA QuietSteps ==
  ASSUME LinuxInv,
         \/ OpenFile \/ HeapExhausted
         \/ ReadSome \/ ImageUnread \/ Refuse \/ NoRoomForKernel \/ NoRoomForParams
         \/ TruncatePanics \/ NoRoomForCmdline \/ WithoutInitrd
  PROVE  LinuxInv'
  <1>1. /\ status \in {"none", "NOT_FOUND", "LOAD_ERROR", "UNSUPPORTED", "OUT_OF_RESOURCES"}
        /\ pc \in {"read_image", "read_initrd"} => done \in 0..Reading.len
        /\ InputsOK
    BY DEF LinuxInv, Types, TypeOK
  <1>2. CASE ReadSome
    <2>1. /\ pc' = pc /\ UNCHANGED <<inputs, free, mem, kernel_mem, params, bp, status>>
          /\ pc \in {"read_image", "read_initrd"}
      BY <1>2 DEF ReadSome
    <2>2. PICK n \in 1..(Reading.avail - done) : done' = done + n
      BY <1>2 DEF ReadSome
    <2>3. Reading.len \in Nat /\ Reading.avail \in 0..Reading.len
      BY <1>1, <2>1 DEF Reading, InputsOK
    <2>4. done' \in 0..Reading.len
      BY <1>1, <2>1, <2>2, <2>3
    <2>5. Reading' = Reading
      BY <2>1 DEF Reading, inputs
    <2> QED
      BY <1>1, <2>1, <2>4, <2>5, QuietKeeps DEF Quiet
  <1>3. CASE ImageUnread \/ Refuse \/ NoRoomForKernel \/ NoRoomForParams \/ NoRoomForCmdline
    <2>1. PICK s \in {"NOT_FOUND", "LOAD_ERROR", "UNSUPPORTED", "OUT_OF_RESOURCES"} : Return(s)
      <3>1. Refuse => Refusal \in {"LOAD_ERROR", "UNSUPPORTED"}
        BY DEF Refuse, Refusal
      <3> QED
        BY <1>3, <3>1 DEF ImageUnread, Refuse, NoRoomForKernel, NoRoomForParams, NoRoomForCmdline
    <2> QED
      BY <2>1, QuietKeeps DEF Return, Quiet
  <1>4. CASE TruncatePanics
    BY <1>1, <1>4, QuietKeeps DEF TruncatePanics, Quiet
  <1>5. CASE WithoutInitrd
    BY <1>1, <1>5, QuietKeeps DEF WithoutInitrd, AtInitrd, Quiet
  <1>6. CASE OpenFile
    <2>1. done = 0 /\ done' = done /\ pc \in {"open_image", "open_initrd"}
      BY <1>6 DEF OpenFile, LinuxInv, Types
    <2>2. Reading'.len \in Nat
      BY <1>1, <1>6 DEF OpenFile, Reading, inputs, InputsOK
    <2>3. done' \in 0..Reading'.len
      BY <2>1, <2>2
    <2> QED
      BY <1>1, <1>6, <2>1, <2>3, QuietKeeps DEF OpenFile, Quiet
  <1>7. CASE HeapExhausted
    BY <1>1, <1>7, QuietKeeps DEF HeapExhausted, Quiet
  <1> QED
    BY <1>2, <1>3, <1>4, <1>5, <1>6, <1>7

-----------------------------------------------------------------------------
(* The kernel, put at x in the n pages from a on.                           *)
LEMMA KernelPut ==
  ASSUME LinuxInv, Accepted,
         NEW a \in Nat, a % PageSize = 0, NEW n \in Nat, Run(a, n) \subseteq free, Take(a, n),
         NEW x \in Nat, a <= x, x + Need <= a + PageSize * n, PlaceKernel(x),
         IF image.relocatable
           THEN x < Line32 /\ (image.alignment > 1 => x % image.alignment = 0)
           ELSE x = image.pref_address
  PROVE  LinuxInv'
  <1>1. /\ image' = image /\ cmdline' = cmdline /\ initrd' = initrd /\ had' = had
        /\ params' = params /\ bp' = bp /\ status' = status /\ done' = 0 /\ kernel_mem' = x
        /\ pc' = "params" /\ pc = "read_image" /\ done = image.len
    BY DEF PlaceKernel, inputs, Accepted, ImageRead
  <1>2. Types /\ Written /\ Placed
    BY DEF LinuxInv
  <1>3. InputsOK /\ InputsOK'
    BY <1>1, <1>2 DEF Types, InputsOK
  <1>4. /\ Need \in Nat /\ KernelLen \in Int /\ KernelOffset \in Nat /\ 0 < KernelLen
        /\ KernelOffset + KernelLen = image.len
    <2>1. ~(KernelOffset >= image.len)
      BY DEF Accepted, Refusal
    <2> QED
      BY <1>3, <2>1, NeedFacts DEF KernelLen, InputsOK
  <1>5. mem' = [b \in Addresses |-> IF b \in x..(x + Need - 1) THEN KernelByte(b - x) ELSE mem[b]]
    BY DEF PlaceKernel, Put
  <1>6. \A b \in Addresses : b \notin x..(x + Need - 1) => mem'[b] = mem[b]
    BY <1>5
  <1>7. /\ Survives /\ Written' /\ free' \subseteq free
        /\ \A i \in 0..(Need - 1) : x + i \in Addresses /\ (x + i) \div PageSize \in had' \ free'
    BY <1>1, <1>2, <1>4, <1>6, Taken
  <1>8. \A i \in 0..(Need - 1) :
          mem'[x + i] = IF i < KernelLen THEN <<"kernel", KernelOffset + i>> ELSE Zero
    <2> SUFFICES ASSUME NEW i \in 0..(Need - 1)
                 PROVE  mem'[x + i] = IF i < KernelLen THEN <<"kernel", KernelOffset + i>> ELSE Zero
      OBVIOUS
    <2>1. x + i \in Addresses /\ x + i \in x..(x + Need - 1) /\ (x + i) - x = i
      BY <1>4, <1>7
    <2>2. mem'[x + i] = KernelByte(i)
      BY <1>5, <2>1
    <2>3. i < KernelLen => KernelOffset + i < done
      BY <1>1, <1>4
    <2> QED
      BY <2>2, <2>3 DEF KernelByte
  <1>9. Types'
    <2>1. free' \subseteq had' /\ had' \subseteq Pages
      BY <1>1, <1>2, <1>7 DEF Types, TypeOK
    <2>2. DOMAIN mem' = Addresses /\ mem' = [b \in Addresses |-> mem'[b]]
      BY <1>5
    <2>3. TypeOK'
      BY <1>1, <1>2, <2>1, <2>2 DEF Types, TypeOK
    <2> QED
      BY <1>1, <1>2, <1>3, <2>2, <2>3 DEF Types
  <1>10. Placed'
    <2>1. /\ Need' = Need /\ KernelLen' = KernelLen /\ KernelOffset' = KernelOffset
      BY <1>1 DEF Need, KernelLen, KernelOffset
    <2>2. KernelThere'
      BY <1>1, <1>4, <1>7, <1>8, <2>1 DEF KernelThere, Own
    <2>3. InitrdThere'
      BY <1>1, <1>2 DEF InitrdThere, Types
    <2> QED
      BY <1>1, <2>2, <2>3 DEF Placed, HasParams, HasCmdline
  <1>11. Told'
    BY <1>1 DEF Told
  <1> QED
    BY <1>7, <1>9, <1>10, <1>11 DEF LinuxInv

(* Where alloc_low places: in free pages that are enough, below the line,   *)
(* so that the address keeps its value in 32 bits.                          *)
LEMMA LowRoomFacts ==
  ASSUME NEW bytes \in Nat, NEW a \in LowRoom(bytes)
  PROVE  /\ a \in Nat /\ a % PageSize = 0 /\ LowPages(bytes) \in Nat \ {0}
         /\ Run(a, LowPages(bytes)) \subseteq free /\ Run(a, 1) \subseteq free
         /\ bytes <= PageSize * LowPages(bytes)
         /\ a + PageSize * LowPages(bytes) <= Line32
         /\ a < Line32 /\ a % Line32 = a /\ a \in Params32
         /\ bytes <= Line32
  <1> DEFINE n == LowPages(bytes)
             m == PageSize * n
  <1>1. /\ a \in Addresses /\ a % PageSize = 0 /\ Run(a, n) \subseteq free
        /\ a + n * PageSize <= Line32
    BY DEF LowRoom, Room
  <1>2. PageSize \in Nat \ {0} /\ Line32 \in Nat \ {0} /\ a \in Nat
    BY <1>1, LinuxConstants DEF Addresses
  <1>3. n \in Nat \ {0} /\ bytes <= m
    BY LowCovers
  <1>4. m \in Nat \ {0} /\ m = n * PageSize
    BY <1>2, <1>3
  <1>5. Run(a, 1) \subseteq Run(a, n)
    <2> HIDE DEF n
    <2>1. a \div PageSize \in Nat
      BY <1>2, DivBounds
    <2> QED
      BY <1>3, <2>1 DEF Run
  <1>6. a < Line32 /\ bytes <= Line32 /\ a + m <= Line32
    <2> HIDE DEF m, n
    <2> QED
      BY <1>1, <1>2, <1>3, <1>4
  <1>7. a % Line32 = a /\ a \in Params32
    BY <1>2, <1>6, ModSmall DEF Params32
  <1> QED
    BY <1>1, <1>2, <1>3, <1>5, <1>6, <1>7

(* A kernel that may be moved is rounded up inside the padding it was given. *)
LEMMA KernelMoved == LinuxInv /\ PlaceRelocatable => LinuxInv'
  <1> SUFFICES ASSUME LinuxInv, PlaceRelocatable PROVE LinuxInv'
    OBVIOUS
  <1>1. InputsOK /\ Accepted /\ image.relocatable
    BY DEF LinuxInv, Types, PlaceRelocatable
  <1>2. PICK a \in LowRoom(Padded) : Take(a, LowPages(Padded)) /\ PlaceKernel(Aligned(a))
    BY DEF PlaceRelocatable
  <1>3. /\ Need \in Nat /\ KernelLen \in Int /\ KernelOffset \in Nat /\ 0 < Need
    <2>1. ~(KernelOffset >= image.len) /\ image.len \in Nat
      BY <1>1 DEF Accepted, Refusal, InputsOK
    <2>2. 0 < KernelLen
      BY <1>1, <2>1, NeedFacts DEF KernelLen
    <2> QED
      BY <1>1, <2>2, NeedFacts
  <1>4. Padded \in Nat
    BY <1>1, <1>3 DEF Padded, InputsOK
  <1> DEFINE n == LowPages(Padded)
             m == PageSize * n
  <1>5. /\ a \in Nat /\ a % PageSize = 0 /\ n \in Nat /\ Run(a, n) \subseteq free
        /\ Padded <= m /\ a + m <= Line32
    BY <1>4, LowRoomFacts
  <1>6. PageSize \in Nat /\ Line32 \in Nat /\ m \in Nat
    BY <1>5, LinuxConstants
  <1>7. /\ Aligned(a) \in Nat /\ a <= Aligned(a)
        /\ Aligned(a) + Need <= a + Padded /\ Aligned(a) < a + Padded
        /\ image.alignment > 1 => Aligned(a) % image.alignment = 0
    BY <1>1, <1>3, <1>5, AlignedFacts
  <1>8. Aligned(a) + Need <= a + m /\ Aligned(a) < Line32
    <2> HIDE DEF m
    <2> QED
      BY <1>3, <1>4, <1>5, <1>6, <1>7
  <1> HIDE DEF n
  <1>9. Take(a, n)
    BY <1>2 DEF n
  <1> QED
    BY <1>1, <1>2, <1>5, <1>7, <1>8, <1>9, KernelPut

(* A kernel that may not is put where it must be.                           *)
LEMMA KernelFixed == LinuxInv /\ PlaceFixed => LinuxInv'
  <1> SUFFICES ASSUME LinuxInv, PlaceFixed PROVE LinuxInv'
    OBVIOUS
  <1> DEFINE a == image.pref_address
             n == DivCeil(Need)
  <1>1. /\ InputsOK /\ Accepted /\ ~image.relocatable
        /\ a \in Room(n) /\ Take(a, n) /\ PlaceKernel(a)
    BY DEF LinuxInv, Types, PlaceFixed
  <1>2. n \in Nat /\ Need \in Nat /\ Need <= PageSize * n /\ a \in Nat
    BY <1>1, NeedFacts, CeilCovers DEF InputsOK
  <1>3. a % PageSize = 0 /\ Run(a, n) \subseteq free
    BY <1>1 DEF Room
  <1>4. a + Need <= a + PageSize * n
    <2>1. PageSize * n \in Nat
      BY <1>2, LinuxConstants
    <2> QED
      BY <1>2, <2>1
  <1> HIDE DEF a, n
  <1>5. a = image.pref_address /\ a <= a
    BY <1>2 DEF a
  <1> QED
    BY <1>1, <1>2, <1>3, <1>4, <1>5, KernelPut

(* The boot_params page.                                                    *)
LEMMA ParamsPut == LinuxInv /\ AllocateParams => LinuxInv'
  <1> SUFFICES ASSUME LinuxInv, AllocateParams PROVE LinuxInv'
    OBVIOUS
  <1>1. Types /\ Written /\ Placed /\ InputsOK
    BY DEF LinuxInv, Types
  <1>2. PICK a \in LowRoom(PageSize) :
          /\ Take(a, 1) /\ params' = a
          /\ mem' = Put(mem, a, PageSize, LAMBDA i : <<"params", i>>)
    BY DEF AllocateParams
  <1>3. /\ image' = image /\ cmdline' = cmdline /\ initrd' = initrd /\ had' = had
        /\ kernel_mem' = kernel_mem /\ bp' = bp /\ status' = status /\ done' = done
        /\ pc' = "cmdline" /\ pc = "params"
    BY DEF AllocateParams, inputs
  <1>4. /\ PageSize \in Nat \ {0} /\ a \in Nat /\ a % PageSize = 0 /\ Run(a, 1) \subseteq free
    BY LowRoomFacts, LinuxConstants
  <1>5. mem' = [b \in Addresses |-> IF b \in a..(a + PageSize - 1) THEN <<"params", b - a>> ELSE mem[b]]
    BY <1>2 DEF Put
  <1>6. /\ Survives /\ Written' /\ free' \subseteq free
        /\ \A i \in 0..(PageSize - 1) : a + i \in Addresses /\ (a + i) \div PageSize \in had' \ free'
    <2>1. \A b \in Addresses : b \notin a..(a + PageSize - 1) => mem'[b] = mem[b]
      BY <1>5
    <2>2. a <= a /\ a + PageSize <= a + PageSize * 1 /\ 1 \in Nat
      BY <1>4
    <2> QED
      BY <1>1, <1>2, <1>3, <1>4, <2>1, <2>2, Taken
  <1>7. Types'
    <2>1. InputsOK'
      BY <1>1, <1>3 DEF InputsOK
    <2>2. free' \subseteq had' /\ had' \subseteq Pages
      BY <1>1, <1>3, <1>6 DEF Types, TypeOK
    <2>3. DOMAIN mem' = Addresses /\ mem' = [b \in Addresses |-> mem'[b]]
      BY <1>5
    <2>4. TypeOK'
      BY <1>1, <1>2, <1>3, <1>4, <2>2, <2>3 DEF Types, TypeOK
    <2> QED
      BY <1>1, <1>3, <2>1, <2>3, <2>4 DEF Types
  <1>8. Placed'
    <2>1. KernelThere'
      BY <1>1, <1>3, <1>6, Stays DEF Placed, HasKernel, inputs
    <2>2. ParamsThere'
      <3>1. \A i \in 0..(PageSize - 1) : mem'[a + i] = <<"params", i>>
        BY <1>4, <1>5, <1>6
      <3> QED
        BY <1>2, <1>6, <3>1 DEF ParamsThere, Own
    <2>3. InitrdThere'
      BY <1>1, <1>3 DEF InitrdThere, Types
    <2> QED
      BY <1>3, <2>1, <2>2, <2>3 DEF Placed, HasCmdline
  <1>9. Told'
    BY <1>3 DEF Told
  <1> QED
    BY <1>6, <1>7, <1>8, <1>9 DEF LinuxInv

(* The command line, whole or cut, and the byte that ends it.               *)
LEMMA CmdlinePut == LinuxInv /\ PlaceCmdline => LinuxInv'
  <1> SUFFICES ASSUME LinuxInv, PlaceCmdline PROVE LinuxInv'
    OBVIOUS
  <1> DEFINE m == CmdlineLen + 1
             n == LowPages(m)
  <1>1. Types /\ Written /\ Placed /\ InputsOK
    BY DEF LinuxInv, Types
  <1>2. PICK a \in LowRoom(m) :
          /\ Take(a, n)
          /\ mem' = Put(mem, a, m,
                        LAMBDA i : IF i < CmdlineLen THEN <<"cmdline", i>> ELSE Zero)
          /\ bp' = [bp EXCEPT !.cmd_line_ptr = a % Line32]
    BY DEF PlaceCmdline
  <1>3. /\ image' = image /\ cmdline' = cmdline /\ initrd' = initrd /\ had' = had
        /\ kernel_mem' = kernel_mem /\ params' = params /\ status' = status /\ done' = done
        /\ pc' \in {"open_initrd", "finish"} /\ pc = "cmdline"
    BY DEF PlaceCmdline, inputs
  <1>4. CmdlineLen \in Nat /\ m \in Nat
    BY <1>1, NeedFacts
  <1>5. /\ PageSize \in Nat \ {0} /\ a \in Nat /\ a % PageSize = 0 /\ Run(a, n) \subseteq free
        /\ n \in Nat /\ m <= PageSize * n /\ a % Line32 = a /\ a \in Params32
    BY <1>4, LowRoomFacts, LinuxConstants
  <1>6. mem' = [b \in Addresses |->
                  IF b \in a..(a + m - 1)
                    THEN IF b - a < CmdlineLen THEN <<"cmdline", b - a>> ELSE Zero ELSE mem[b]]
    BY <1>2 DEF Put
  <1>7. /\ bp'.cmd_line_ptr = a /\ bp'.ramdisk_size = 0 /\ bp.ramdisk_size = 0
        /\ bp' \in [cmd_line_ptr : Params32, ramdisk_image : Params32, ramdisk_size : Params32,
                    code32_start : Params32]
    BY <1>1, <1>2, <1>3, <1>5 DEF Types
  <1>8. /\ Survives /\ Written' /\ free' \subseteq free
        /\ \A i \in 0..(m - 1) : a + i \in Addresses /\ (a + i) \div PageSize \in had' \ free'
    <2> HIDE DEF m, n
    <2>1. \A b \in Addresses : b \notin a..(a + m - 1) => mem'[b] = mem[b]
      BY <1>6
    <2>2. PageSize * n \in Nat
      BY <1>5
    <2>3. a <= a /\ a + m <= a + PageSize * n
      BY <1>4, <1>5, <2>2
    <2> QED
      BY <1>1, <1>2, <1>3, <1>4, <1>5, <2>1, <2>3, Taken
  <1>9. Types'
    <2>1. InputsOK'
      BY <1>1, <1>3 DEF InputsOK
    <2>2. free' \subseteq had' /\ had' \subseteq Pages
      BY <1>1, <1>3, <1>8 DEF Types, TypeOK
    <2>3. DOMAIN mem' = Addresses /\ mem' = [b \in Addresses |-> mem'[b]]
      BY <1>6
    <2>4. \A f \in DOMAIN bp' : bp'[f] \in 0..(Line32 - 1)
      BY <1>7 DEF Params32
    <2>5. pc' \in {"read_image", "read_initrd"} => done' \in 0..Reading'.len
      BY <1>1, <1>3 DEF Types, Reading, InputsOK
    <2>6. TypeOK'
      BY <1>1, <1>3, <2>2, <2>3, <2>4, <2>5 DEF Types, TypeOK
    <2>7. /\ pc' \in {"open_image", "params", "cmdline", "open_initrd"} => done' = 0
          /\ bp'.ramdisk_size = 0
      BY <1>1, <1>3, <1>7 DEF Types
    <2> QED
      BY <1>3, <1>7, <2>1, <2>3, <2>6, <2>7 DEF Types, Params32
  <1>10. Placed'
    <2>1. KernelThere' /\ ParamsThere'
      BY <1>1, <1>3, <1>8, Stays DEF Placed, HasKernel, HasParams, inputs
    <2>2. CmdlineThere'
      <3>1. CmdlineLen' = CmdlineLen
        BY <1>3 DEF CmdlineLen, TooLong
      <3>2. \A i \in 0..(m - 1) :
              mem'[a + i] = IF i < CmdlineLen THEN <<"cmdline", i>> ELSE Zero
        <4> HIDE DEF m
        <4> SUFFICES ASSUME NEW i \in 0..(m - 1)
                     PROVE  mem'[a + i] = IF i < CmdlineLen THEN <<"cmdline", i>> ELSE Zero
          OBVIOUS
        <4>0. i \in Nat /\ a \in Nat /\ m \in Nat /\ i < m
          BY <1>4, <1>5
        <4>1. /\ a + i \in a..(a + m - 1) /\ (a + i) - a = i
          BY <4>0
        <4>2. a + i \in Addresses
          BY <1>8, <4>1
        <4> QED
          BY <1>6, <4>1, <4>2
      <3>3. CmdlineLen \in 0..(m - 1) /\ \A i \in 0..(CmdlineLen - 1) : i \in 0..(m - 1) /\ i < CmdlineLen
        BY <1>4
      <3>4. /\ mem'[a + CmdlineLen] = Zero
            /\ \A i \in 0..(CmdlineLen - 1) : mem'[a + i] = <<"cmdline", i>>
        <4> HIDE DEF m
        <4>1. ~(CmdlineLen < CmdlineLen)
          BY <1>4
        <4>2. mem'[a + CmdlineLen] = Zero
          BY <3>2, <3>3, <4>1
        <4>3. \A i \in 0..(CmdlineLen - 1) : mem'[a + i] = <<"cmdline", i>>
          BY <3>2, <3>3
        <4> QED
          BY <4>2, <4>3
      <3>5. Own(bp.cmd_line_ptr, CmdlineLen + 1)'
        BY <1>7, <1>8, <3>1 DEF Own
      <3> QED
        BY <1>7, <3>1, <3>4, <3>5 DEF CmdlineThere
    <2>3. InitrdThere'
      BY <1>7 DEF InitrdThere
    <2> QED
      BY <2>1, <2>2, <2>3 DEF Placed
  <1>11. Told'
    BY <1>3 DEF Told
  <1> QED
    BY <1>8, <1>9, <1>10, <1>11 DEF LinuxInv

(* The initrd, told of when it is all there.                                *)
LEMMA InitrdPut == LinuxInv /\ PlaceInitrd => LinuxInv'
  <1> SUFFICES ASSUME LinuxInv, PlaceInitrd PROVE LinuxInv'
    OBVIOUS
  <1> DEFINE m == initrd.len
             n == LowPages(m)
  <1>1. Types /\ Written /\ Placed /\ InputsOK
    BY DEF LinuxInv, Types
  <1>2. PICK a \in LowRoom(m) :
          /\ Take(a, n)
          /\ mem' = Put(mem, a, m, LAMBDA i : <<"initrd", i>>)
          /\ bp' = [bp EXCEPT !.ramdisk_image = a % Line32, !.ramdisk_size = m % Line32]
    BY DEF PlaceInitrd
  <1>3. /\ image' = image /\ cmdline' = cmdline /\ initrd' = initrd /\ had' = had
        /\ kernel_mem' = kernel_mem /\ params' = params /\ status' = status /\ done' = done
        /\ pc' = "finish" /\ pc = "read_initrd"
    BY DEF PlaceInitrd, inputs
  <1>4. m \in Nat /\ Line32 \in Nat \ {0}
    BY <1>1, LinuxConstants DEF InputsOK
  <1>5. /\ PageSize \in Nat \ {0} /\ a \in Nat /\ a % PageSize = 0 /\ Run(a, n) \subseteq free
        /\ n \in Nat /\ m <= PageSize * n /\ a % Line32 = a /\ a \in Params32
    BY <1>4, LowRoomFacts, LinuxConstants
  <1>6. mem' = [b \in Addresses |->
                  IF b \in a..(a + m - 1) THEN <<"initrd", b - a>> ELSE mem[b]]
    BY <1>2 DEF Put
  <1>7. a + PageSize * n <= Line32
    BY <1>4, LowRoomFacts
  <1>8. m % Line32 \in Params32 /\ (m % Line32 # 0 => m % Line32 = m)
    <2>1. m <= Line32
      BY <1>4, LowRoomFacts
    <2>2. CASE m = Line32
      <3>1. Line32 = Line32 * 1 /\ (Line32 * 1) % Line32 = 0
        BY <1>4, MultipleOf
      <3> QED
        BY <1>4, <2>2, <3>1 DEF Params32
    <2>3. CASE m < Line32
      BY <1>4, <2>3, ModSmall DEF Params32
    <2> QED
      BY <1>4, <2>1, <2>2, <2>3
  <1>9. /\ bp'.ramdisk_image = a /\ bp'.ramdisk_size = m % Line32
        /\ bp'.cmd_line_ptr = bp.cmd_line_ptr
        /\ bp' \in [cmd_line_ptr : Params32, ramdisk_image : Params32, ramdisk_size : Params32,
                    code32_start : Params32]
    BY <1>1, <1>2, <1>5, <1>8 DEF Types
  <1>10. /\ Survives /\ Written' /\ free' \subseteq free
         /\ \A i \in 0..(m - 1) : a + i \in Addresses /\ (a + i) \div PageSize \in had' \ free'
    <2> HIDE DEF m, n
    <2>1. \A b \in Addresses : b \notin a..(a + m - 1) => mem'[b] = mem[b]
      BY <1>6
    <2>2. PageSize * n \in Nat
      BY <1>5
    <2>3. a <= a /\ a + m <= a + PageSize * n
      BY <1>4, <1>5, <2>2
    <2> QED
      BY <1>1, <1>2, <1>3, <1>4, <1>5, <2>1, <2>3, Taken
  <1>11. Types'
    <2>1. InputsOK'
      BY <1>1, <1>3 DEF InputsOK
    <2>2. free' \subseteq had' /\ had' \subseteq Pages
      BY <1>1, <1>3, <1>10 DEF Types, TypeOK
    <2>3. DOMAIN mem' = Addresses /\ mem' = [b \in Addresses |-> mem'[b]]
      BY <1>6
    <2>4. \A f \in DOMAIN bp' : bp'[f] \in 0..(Line32 - 1)
      BY <1>9 DEF Params32
    <2>5. TypeOK'
      BY <1>1, <1>3, <2>2, <2>3, <2>4 DEF Types, TypeOK
    <2> QED
      BY <1>3, <1>9, <2>1, <2>3, <2>5 DEF Types, Params32
  <1>12. Placed'
    <2>1. KernelThere' /\ ParamsThere' /\ CmdlineThere'
      BY <1>1, <1>3, <1>9, <1>10, Stays DEF Placed, HasKernel, HasParams, HasCmdline, inputs
    <2>2. InitrdThere'
      <3>1. \A i \in 0..(m - 1) : mem'[a + i] = <<"initrd", i>>
        <4> SUFFICES ASSUME NEW i \in 0..(m - 1) PROVE mem'[a + i] = <<"initrd", i>>
          OBVIOUS
        <4> HIDE DEF m
        <4>1. a + i \in Addresses /\ a + i \in a..(a + m - 1) /\ (a + i) - a = i
          BY <1>4, <1>5, <1>10
        <4> QED
          BY <1>6, <4>1
      <3>2. bp'.ramdisk_size # 0 => bp'.ramdisk_size = initrd'.len
        BY <1>3, <1>8, <1>9
      <3>3. Own(bp.ramdisk_image, initrd.len)'
        BY <1>3, <1>9, <1>10 DEF Own
      <3> QED
        BY <1>3, <1>9, <3>1, <3>2, <3>3 DEF InitrdThere
    <2> QED
      BY <2>1, <2>2 DEF Placed
  <1>13. Told'
    BY <1>3 DEF Told
  <1> QED
    BY <1>10, <1>11, <1>12, <1>13 DEF LinuxInv

(* The last fields: where the kernel is.                                    *)
LEMMA HandOverKeeps == LinuxInv /\ HandOver => LinuxInv'
  <1> SUFFICES ASSUME LinuxInv, HandOver PROVE LinuxInv'
    OBVIOUS
  <1>1. Types /\ Written /\ Placed /\ InputsOK
    BY DEF LinuxInv, Types
  <1>2. /\ image' = image /\ cmdline' = cmdline /\ initrd' = initrd /\ had' = had
        /\ free' = free /\ mem' = mem /\ kernel_mem' = kernel_mem /\ params' = params
        /\ status' = status /\ pc' = "linux" /\ pc = "finish"
        /\ bp' = [bp EXCEPT !.code32_start = kernel_mem % Line32]
    BY DEF HandOver, inputs
  <1>3. Line32 \in Nat \ {0} /\ kernel_mem \in Nat
    BY <1>1, LinuxConstants DEF Types, TypeOK
  <1>4. kernel_mem % Line32 \in Params32
    BY <1>3, DivBounds DEF Params32
  <1>5. /\ bp'.code32_start = kernel_mem % Line32 /\ bp'.cmd_line_ptr = bp.cmd_line_ptr
        /\ bp'.ramdisk_image = bp.ramdisk_image /\ bp'.ramdisk_size = bp.ramdisk_size
        /\ bp' \in [cmd_line_ptr : Params32, ramdisk_image : Params32, ramdisk_size : Params32,
                    code32_start : Params32]
    BY <1>1, <1>2, <1>4 DEF Types
  <1>6. Types'
    <2>1. InputsOK'
      BY <1>1, <1>2 DEF InputsOK
    <2>2. \A f \in DOMAIN bp' : bp'[f] \in 0..(Line32 - 1)
      BY <1>5 DEF Params32
    <2>3. TypeOK'
      BY <1>1, <1>2, <2>2 DEF Types, TypeOK
    <2> QED
      BY <1>1, <1>2, <1>5, <2>1, <2>3 DEF Types, Params32
  <1>7. Survives /\ Written'
    BY <1>1, <1>2 DEF Survives, Written
  <1>8. Placed'
    <2>1. KernelThere' /\ ParamsThere' /\ CmdlineThere' /\ InitrdThere'
      BY <1>1, <1>2, <1>5, <1>7, Stays DEF Placed, HasKernel, HasParams, HasCmdline, inputs
    <2> QED
      BY <2>1 DEF Placed
  <1>9. Told'
    <2>1. image.relocatable => kernel_mem < Line32
      BY <1>1, <1>2 DEF Placed, KernelThere, HasKernel, HasParams, HasCmdline
    <2> QED
      BY <1>2, <1>3, <1>5, <2>1, ModSmall DEF Told
  <1> QED
    BY <1>6, <1>7, <1>8, <1>9 DEF LinuxInv

-----------------------------------------------------------------------------
(* Every step keeps the invariant.                                          *)
LEMMA LinuxStep == LinuxInv /\ [Next]_vars => LinuxInv'
  <1> SUFFICES ASSUME LinuxInv, [Next]_vars PROVE LinuxInv'
    OBVIOUS
  <1>1. CASE \/ OpenFile \/ HeapExhausted
             \/ ReadSome \/ ImageUnread \/ Refuse \/ NoRoomForKernel \/ NoRoomForParams
             \/ TruncatePanics \/ NoRoomForCmdline \/ WithoutInitrd
    BY <1>1, QuietSteps
  <1>2. CASE PlaceRelocatable
    BY <1>2, KernelMoved
  <1>3. CASE PlaceFixed
    BY <1>3, KernelFixed
  <1>4. CASE AllocateParams
    BY <1>4, ParamsPut
  <1>5. CASE PlaceCmdline
    BY <1>5, CmdlinePut
  <1>6. CASE PlaceInitrd
    BY <1>6, InitrdPut
  <1>7. CASE HandOver
    BY <1>7, HandOverKeeps
  <1>8. CASE UNCHANGED vars
    <2>1. /\ pc' = pc /\ status' = status /\ done' = done
          /\ UNCHANGED <<inputs, free, mem, kernel_mem, params, bp>> /\ Reading' = Reading
      BY <1>8 DEF vars, inputs, Reading
    <2>2. Quiet
      BY <2>1 DEF Quiet, LinuxInv, Types, TypeOK
    <2> QED
      BY <2>2, QuietKeeps
  <1> QED
    BY <1>1, <1>2, <1>3, <1>4, <1>5, <1>6, <1>7, <1>8 DEF Next

(* LinuxInv holds in every state.                                           *)
THEOREM LinuxInvariant == Spec => []LinuxInv
  BY LinuxInit, LinuxStep, PTL DEF Spec

(* The variables keep their types: above all, no more of a file is read     *)
(* than there is, and pages once given stay given.                          *)
THEOREM TypeCorrect == Spec => []TypeOK
  <1>1. LinuxInv => TypeOK
    BY DEF LinuxInv, Types
  <1> QED
    BY <1>1, LinuxInvariant, PTL

(* Nothing but memory the firmware gave is written, and all of what the     *)
(* kernel needs is inside the memory, whatever the alignment, the lengths   *)
(* and the size of a page.                                                  *)
THEOREM WritesSafe == Spec => []WritesOwned
  <1>1. LinuxInv => WritesOwned
    <2> SUFFICES ASSUME LinuxInv PROVE WritesOwned
      OBVIOUS
    <2>1. Types /\ Written /\ Placed /\ InputsOK
      BY DEF LinuxInv, Types
    <2>2. ASSUME pc \notin {"open_image", "read_image", "returned", "panic"}
          PROVE  kernel_mem + Need - 1 \in Addresses
      <3>1. KernelThere
        BY <2>1, <2>2 DEF Types, TypeOK, Placed, HasKernel, HasParams, HasCmdline
      <3>2. Need \in Nat /\ 0 < Need /\ kernel_mem \in Nat
        BY <2>1, <3>1, NeedFacts DEF KernelThere, Types, TypeOK
      <3>3. Need - 1 \in 0..(Need - 1) /\ kernel_mem + (Need - 1) = kernel_mem + Need - 1
        BY <3>2
      <3>4. kernel_mem + (Need - 1) \in Addresses
        BY <3>1, <3>3 DEF KernelThere, Own
      <3> QED
        BY <3>3, <3>4
    <2> QED
      BY <2>1, <2>2 DEF WritesOwned, Written
  <1> QED
    BY <1>1, LinuxInvariant, PTL

(* When Linux is called its kernel is where it may be and whole, zeros      *)
(* after it, and the entry is the byte of the file its header means.        *)
THEOREM KernelSafe == Spec => []KernelIntact
  <1>1. LinuxInv => KernelIntact
    <2> SUFFICES ASSUME LinuxInv, pc = "linux" PROVE KernelIntact
      BY DEF KernelIntact
    <2>1. KernelThere /\ InputsOK
      BY DEF LinuxInv, Types, Placed, HasKernel, HasParams, HasCmdline
    <2>2. /\ Need \in Nat /\ KernelLen \in Int /\ KernelLen <= Need
          /\ image.handover_offset \in Nat /\ Sector \in Nat
          /\ KernelOffset \in Nat /\ kernel_mem \in Nat
      BY <2>1, NeedFacts, LinuxConstants DEF InputsOK, LinuxInv, Types, TypeOK
    <2>3. ASSUME image.handover_offset + Sector < KernelLen
          PROVE  mem[EntryAt] = <<"kernel", KernelOffset + image.handover_offset + Sector>>
      <3> DEFINE i == image.handover_offset + Sector
      <3>1. i \in 0..(Need - 1) /\ i < KernelLen
        BY <2>2, <2>3
      <3>2. EntryAt = kernel_mem + i
            /\ KernelOffset + i = KernelOffset + image.handover_offset + Sector
        BY <2>2 DEF EntryAt
      <3>3. mem[kernel_mem + i] = <<"kernel", KernelOffset + i>>
        BY <2>1, <3>1 DEF KernelThere
      <3> QED
        BY <3>2, <3>3
    <2> QED
      BY <2>1, <2>3 DEF KernelIntact, KernelThere
  <1> QED
    BY <1>1, LinuxInvariant, PTL

(* What boot_params tells Linux is true when it is called: the command line *)
(* is there and ends, and an initrd told of is there to its last byte.      *)
THEOREM ParamsSafe == Spec => []ParamsTrue
  <1>1. LinuxInv => ParamsTrue
    <2> SUFFICES ASSUME LinuxInv, pc = "linux" PROVE ParamsTrue
      BY DEF ParamsTrue
    <2>1. ParamsThere /\ CmdlineThere /\ InitrdThere /\ Told
      BY DEF LinuxInv, Placed, HasParams, HasCmdline
    <2> QED
      BY <2>1 DEF ParamsTrue, ParamsThere, CmdlineThere, InitrdThere, Told
  <1> QED
    BY <1>1, LinuxInvariant, PTL

-----------------------------------------------------------------------------
(* Booting ends, and once the initrd can be read it ends in Linux. *)

(* How far boot is from its end: the steps to come, the bytes of the file   *)
(* at hand that are still to be read.                                       *)
Distance ==
  <<CASE pc = "open_image" -> 7 [] pc = "read_image" -> 6 [] pc = "params" -> 5
      [] pc = "cmdline" -> 4 [] pc = "open_initrd" -> 3 [] pc = "read_initrd" -> 2
      [] pc = "finish" -> 1 [] pc \in {"linux", "returned", "panic"} -> 0,
    IF pc \in {"read_image", "read_initrd"} THEN Reading.len - done ELSE 0>>

Closer(r, s) == r[1] < s[1] \/ (r[1] = s[1] /\ r[2] < s[2])

BootAdvances == Distance \in Nat \X Nat /\ Closer(Distance', Distance)

(* Every step brings boot nearer its end: above all, a file that is read a  *)
(* little at a time is read to its end, and none is read again.             *)
THEOREM BootHalts == Spec => [][BootAdvances]_vars
  <1>1. ASSUME TypeOK, InputsOK, Next PROVE BootAdvances
    <2> DEFINE d == Distance
               e == Distance'
    <2>1. /\ d[1] = (CASE pc = "open_image" -> 7 [] pc = "read_image" -> 6 [] pc = "params" -> 5
                       [] pc = "cmdline" -> 4 [] pc = "open_initrd" -> 3 [] pc = "read_initrd" -> 2
                       [] pc = "finish" -> 1 [] pc \in {"linux", "returned", "panic"} -> 0)
          /\ e[1] = (CASE pc' = "open_image" -> 7 [] pc' = "read_image" -> 6 [] pc' = "params" -> 5
                       [] pc' = "cmdline" -> 4 [] pc' = "open_initrd" -> 3 [] pc' = "read_initrd" -> 2
                       [] pc' = "finish" -> 1 [] pc' \in {"linux", "returned", "panic"} -> 0)
          /\ d[2] = (IF pc \in {"read_image", "read_initrd"} THEN Reading.len - done ELSE 0)
          /\ e[2] = (IF pc' \in {"read_image", "read_initrd"} THEN Reading'.len - done' ELSE 0)
      BY DEF Distance
    <2>2. /\ pc \in {"open_image", "read_image", "params", "cmdline", "open_initrd",
                     "read_initrd", "finish", "linux", "returned", "panic"}
          /\ pc \in {"read_image", "read_initrd"} =>
               /\ Reading.len \in Nat /\ done \in 0..Reading.len
               /\ Reading.avail \in 0..Reading.len
      BY <1>1 DEF TypeOK, InputsOK, Reading
    <2>3. d \in Nat \X Nat
      BY <2>2 DEF Distance
    <2> HIDE DEF d, e
    <2> SUFFICES Closer(e, d)
      BY <2>3 DEF BootAdvances, d, e
    <2>4. CASE ReadSome
      <3>1. /\ pc \in {"read_image", "read_initrd"} /\ pc' = pc /\ Reading' = Reading
            /\ \E n \in 1..(Reading.avail - done) : done' = done + n
        BY <2>4 DEF ReadSome, Reading, inputs
      <3>2. done' \in Nat /\ done' > done /\ done' <= Reading.len
        BY <2>2, <3>1
      <3>3. e[1] = d[1] /\ e[2] < d[2]
        BY <2>1, <2>2, <3>1, <3>2
      <3> QED
        BY <3>3 DEF Closer
    <2>5. ASSUME \/ pc = "open_image" /\ pc' \in {"read_image", "returned", "panic"}
                 \/ pc = "read_image" /\ pc' \in {"params", "returned"}
                 \/ pc = "params" /\ pc' \in {"cmdline", "returned"}
                 \/ pc = "cmdline" /\ pc' \in {"open_initrd", "finish", "returned", "panic"}
                 \/ pc = "open_initrd" /\ pc' \in {"read_initrd", "finish", "panic"}
                 \/ pc = "read_initrd" /\ pc' = "finish"
                 \/ pc = "finish" /\ pc' = "linux"
          PROVE  Closer(e, d)
      BY <2>1, <2>5 DEF Closer
    <2>6. CASE ImageUnread \/ Refuse \/ NoRoomForKernel \/ PlaceRelocatable \/ PlaceFixed
      BY <2>5, <2>6 DEF ImageUnread, Refuse, NoRoomForKernel, PlaceRelocatable, PlaceFixed,
                        PlaceKernel, Return, Accepted, ImageRead
    <2>7. CASE AllocateParams \/ NoRoomForParams
      BY <2>5, <2>7 DEF AllocateParams, NoRoomForParams, Return
    <2>8. CASE TruncatePanics \/ PlaceCmdline \/ NoRoomForCmdline
      BY <2>5, <2>8 DEF TruncatePanics, PlaceCmdline, NoRoomForCmdline, Return
    <2>9. CASE WithoutInitrd \/ PlaceInitrd
      BY <2>5, <2>9 DEF WithoutInitrd, AtInitrd, PlaceInitrd
    <2>10. CASE HandOver
      BY <2>5, <2>10 DEF HandOver
    <2>11. CASE OpenFile \/ HeapExhausted
      BY <2>5, <2>11 DEF OpenFile, HeapExhausted
    <2> QED
      BY <1>1, <2>4, <2>6, <2>7, <2>8, <2>9, <2>10, <2>11 DEF Next
  <1>2. LinuxInv => TypeOK /\ InputsOK
    BY DEF LinuxInv, Types
  <1>3. TypeOK /\ InputsOK /\ [Next]_vars => [BootAdvances]_vars
    BY <1>1
  <1> QED
    BY <1>2, <1>3, LinuxInvariant, PTL DEF Spec

(* Once the heap has room for the initrd, the only way out is into Linux;   *)
(* where it has none, and only there, boot stops.                           *)
GoesOn ==
  /\ pc \in {"read_initrd", "finish"} => pc' \in {"read_initrd", "finish", "linux"}
  /\ pc = "open_initrd" =>
       pc' \in {"read_initrd", "finish"} \/ (pc' = "panic" /\ initrd.len > 0)

(* Nothing that goes wrong with the initrd is an error of boot's, unless    *)
(* the heap has no room for it.                                             *)
THEOREM InitrdHarmless == Spec => [][GoesOn]_vars
  <1>1. Next => GoesOn
    BY DEF Next, GoesOn, OpenFile, HeapExhausted, Reading, ReadSome, ImageUnread, Refuse,
           ImageRead, PlaceRelocatable, PlaceFixed, Accepted, NoRoomForKernel, AllocateParams,
           NoRoomForParams, TruncatePanics, PlaceCmdline, NoRoomForCmdline, WithoutInitrd,
           PlaceInitrd, HandOver
  <1>2. [Next]_vars => [GoesOn]_vars
    BY <1>1
  <1> QED
    BY <1>2, PTL DEF Spec

=============================================================================
