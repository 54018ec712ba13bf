----------------------------- MODULE BootProofs -----------------------------
(***************************************************************************)
(* What a kernel finds when it begins, for any file, any pages and any      *)
(* events of the firmware's.                                                *)
(*                                                                         *)
(* None of it is inductive by itself.  BootInv adds Stages, which kernel    *)
(* may be at which step; CpuAt and RegsAt, what the processor and its       *)
(* registers are at every label of the last instructions; Told, Apart and   *)
(* Held, what the pages hold and that each has one use.                     *)
(***************************************************************************)
EXTENDS Boot, TLAPS, FiniteSetTheorems

Contents  == {"old", "kernel", "module", "unread", "mb1", "mb2", "trampoline"}
Unloaded  == {"open", "mb2", "mb1", "header", "segments"}
Preparing == {"modules", "ask", "reserve", "exit", "exiting", "build"}
Reserved  == {"exit", "exiting", "build", "running"} \cup Labels
Leaving32 == Labels \ {"handoff"}
Copied    == Leaving32 \ {"trampoline", "copy"}

Is32   == kernel.boot_mode = "Protected32"
Format == IF kernel.mb_version = 1 THEN "mb1" ELSE "mb2"
Magic  == IF kernel.mb_version = 1 THEN MB1_BOOT_MAGIC ELSE MB2_BOOT_MAGIC

Types ==
  /\ TypeOK
  /\ pc \in Unloaded \ {"open"} => file \in Files
  /\ kernel \in [entry_point : Nat, mb_version : {0, 1, 2},
                 boot_mode : {"none", "Protected32", "Long64"}, pages : SUBSET Pages]
  /\ mem \in [Pages -> Contents]
  /\ modules \in Seq(SUBSET Pages)
  /\ regs \in [CPU!RegNames -> Int]
  /\ slots \in [entry : Int, mbi : Int, magic : Int, gdt_base : {"zero", "copy"}]
  /\ info \in Nat

(* Which kernel may be where. *)
Stages ==
  /\ pc \in Unloaded => kernel.pages = {} /\ kernel.boot_mode = "none" /\ modules = <<>>
  /\ pc \in Preparing \cup {"running"} => kernel.boot_mode # "none"
  /\ pc \in Leaving32 => Is32
  /\ pc = "handoff" => kernel.boot_mode = "Long64"
  /\ kernel.boot_mode = "Long64" => kernel.mb_version = 0

(* The processor at every label: code and data, its GDT, paging, long mode, *)
(* interrupts.                                                              *)
Mode(code, data, gdt, paging, lme, interrupts) ==
  [code |-> code, data |-> data, gdt |-> gdt, paging |-> paging, lme |-> lme,
   interrupts |-> interrupts]

CpuAt ==
  /\ pc # "fault"
  /\ pc \in Unloaded \cup Preparing \cup {"trampoline", "handoff"}
       => cpu = Mode(64, 64, "firmware", TRUE, TRUE, TRUE)
  /\ pc \in {"copy", "slots", "gdt"} => cpu = Mode(64, 64, "firmware", TRUE, TRUE, FALSE)
  /\ pc = "far_return"               => cpu = Mode(64, 64, "copy", TRUE, TRUE, FALSE)
  /\ pc = "selectors"                => cpu = Mode(32, 64, "copy", TRUE, TRUE, FALSE)
  /\ pc = "paging"                   => cpu = Mode(32, 32, "copy", TRUE, TRUE, FALSE)
  /\ pc \in {"tlb", "lme"}           => cpu = Mode(32, 32, "copy", FALSE, TRUE, FALSE)
  /\ pc \in {"far_jump", "pm32", "jump"} \/ Running("Protected32")
       => cpu = Mode(32, 32, "copy", FALSE, FALSE, FALSE)
  /\ Running("Long64") => cpu = Mode(64, 64, "firmware", TRUE, TRUE, FALSE)
  /\ pc \in Copied => mem[TrampPage] = "trampoline"

(* Where the arguments are at every label. *)
Entry32 == Low32(kernel.entry_point)

RegsAt ==
  /\ pc = "trampoline" => regs["ecx"] = Entry32 /\ regs["edx"] = info /\ regs["r8"] = Magic
  /\ pc \in {"copy", "slots"} =>
       regs["r10"] = Entry32 /\ regs["r11"] = info /\ regs["r8"] = Magic
  /\ pc \in Copied \ {"slots", "jump"} =>
       slots.entry = Entry32 /\ slots.mbi = info /\ slots.magic = Magic
  /\ pc = "jump" => regs["ecx"] = Entry32
  /\ pc = "jump" \/ Running("Protected32") =>
       regs["eax"] = Magic /\ regs["ebx"] = info /\ regs["esp"] = CPU!StackTop
  /\ Running("Protected32") => regs["eip"] = Entry32
  /\ pc = "handoff" => regs["ecx"] = kernel.entry_point /\ regs["edx"] = 0
  /\ Running("Long64") =>
       /\ regs["edi"] = CPU!BANG_HANDOFF_MAGIC /\ regs["esi"] = 0
       /\ regs["esp"] = CPU!StackTop /\ regs["eip"] = kernel.entry_point

(* The information's pages can be addressed in 32 bits. *)
InfoBelow == pc \in Reserved => info < Line32 /\ Run(info, InfoPages) \subseteq Pages

(* The information's pages hold what they are to hold. *)
Told ==
  pc \in Leaving32 \/ Running("Protected32") =>
    \A p \in Run(info, InfoPages) \ {TrampPage} : mem[p] = Format

(* Whatever is placed has pages of its own ... *)
Apart ==
  /\ kernel.pages \cap free = {}
  /\ \A k \in DOMAIN modules : modules[k] \cap free = {} /\ modules[k] \cap kernel.pages = {}
  /\ \A k, l \in DOMAIN modules : k # l => modules[k] \cap modules[l] = {}
  /\ pc \in Reserved =>
       /\ Run(info, InfoPages) \cap (free \cup kernel.pages) = {}
       /\ \A k \in DOMAIN modules : Run(info, InfoPages) \cap modules[k] = {}

(* ... and stays there, but for the page the trampoline takes. *)
Taken == IF Is32 THEN {TrampPage} ELSE {}

Held ==
  /\ \A p \in kernel.pages \ Taken : mem[p] = "kernel"
  /\ \A k \in DOMAIN modules : \A p \in modules[k] \ Taken : mem[p] = "module"

(* The map is the firmware's as long as its key is. *)
MapInv == (pc = "exiting" /\ fresh => map = free) /\ MapIsFinal

(* The memory map the kernel is told is that of the moment boot services    *)
(* are exited: a stale key sends exit_boot_services back for another.       *)
THEOREM MapFinal == Spec => []MapIsFinal
  <1>1. Init => MapInv
    BY DEF Init, FileInit, MapInv, MapIsFinal, Labels
  <1>2. MapInv /\ [Next]_vars => MapInv'
    <2> SUFFICES ASSUME MapInv, [Next]_vars PROVE MapInv'
      OBVIOUS
    <2>1. CASE LoadKernel
      BY <2>1 DEF MapInv, MapIsFinal, Labels, LoadKernel, FileNext, bootVars, KernelUnreadable,
         ReadKernel, DetectMb2, DetectMb1, CheckHeader, PlaceSegments, SegmentsRefused
    <2>2. CASE LoadModules \/ AskFirmware \/ Reserve \/ NoReserve
      BY <2>2 DEF MapInv, MapIsFinal, Labels, LoadModules, ModulesNext, LoadModule, ModuleUnread,
         ModulesPanic, ModulesLoaded, AskFirmware, Reserve, NoReserve, bootVars
    <2>3. CASE TakeMap \/ FirmwareEvent \/ StaleKey \/ Exit \/ BuildFor32 \/ BuildFor64
      BY <2>3 DEF MapInv, MapIsFinal, Labels, TakeMap, FirmwareEvent, StaleKey, Exit,
         BuildFor32, BuildFor64, bootVars
    <2>4. CASE HandOver
      BY <2>4 DEF MapInv, MapIsFinal, Labels, HandOver, bootVars, CPU!CpuNext,
         CPU!SaveArguments, CPU!CopyBlob, CPU!WriteSlots, CPU!LoadGdt, CPU!FarReturn,
         CPU!LoadSegments, CPU!DisablePaging, CPU!FlushTlb, CPU!DisableLongMode, CPU!FarJump,
         CPU!LoadParameters, CPU!JumpToKernel, CPU!Handoff64, CPU!GoTo
    <2>5. CASE UNCHANGED vars
      BY <2>5 DEF MapInv, MapIsFinal, vars, fileVars, bootVars
    <2> QED
      BY <2>1, <2>2, <2>3, <2>4, <2>5 DEF Next
  <1>3. MapInv => MapIsFinal
    BY DEF MapInv
  <1> QED
    BY <1>1, <1>2, <1>3, PTL DEF Spec

-----------------------------------------------------------------------------
(* What the assumption on files says of one of them. *)
LEMMA FileFacts ==
  ASSUME NEW f \in Files
  PROVE  f.pages \subseteq Pages /\ f.entry \in Nat
  BY KernelFileConstants

(* The registers that carry a page below the line carry it whole. *)
LEMMA Low32Facts ==
  ASSUME NEW a \in Nat
  PROVE  /\ Low32(a) \in Nat /\ Low32(a) < Line32
         /\ a < Line32 => Low32(a) = a
  <1>1. Line32 \in Nat \ {0}
    BY ModuleLoadingConstants
  <1>2. a % Line32 \in 0..(Line32 - 1)
    BY <1>1
  <1>3. a < Line32 => a % Line32 = a
    BY <1>1
  <1> QED
    BY <1>1, <1>2, <1>3 DEF Low32

(* The types hold, and no kernel is anywhere, when the boot begins.         *)
LEMMA TypesInit == Init => Types /\ Stages
  <1> SUFFICES ASSUME Init PROVE Types /\ Stages
    OBVIOUS
  <1> USE KernelFileConstants, ModuleLoadingConstants, BootConstants
      DEF Init, FileInit, NoKernel, CPU!CpuInit, CPU!BlankSlots
  <1>1. TypeOK
    BY DEF TypeOK, Ends, Labels
  <1>2. Types
    BY <1>1 DEF Types, Unloaded, Contents
  <1>3. Stages
    BY DEF Stages, Unloaded, Preparing, Leaving32, Labels
  <1> QED
    BY <1>2, <1>3

(* They hold on while the kernel is detected and placed ...                 *)
LEMMA TypesFile ==
  ASSUME Types, Stages, LoadKernel
  PROVE  Types' /\ Stages'
  <1> USE DEF LoadKernel, bootVars, Is32
  <1>1. CASE KernelUnreadable \/ CheckHeader \/ SegmentsRefused
    BY <1>1 DEF KernelUnreadable, CheckHeader, SegmentsRefused, Types, TypeOK, Stages,
       Unloaded, Preparing, Leaving32, Labels, Ends
  <1>2. CASE ReadKernel
    BY <1>2 DEF ReadKernel, Types, TypeOK, Stages, Unloaded, Preparing, Leaving32, Labels, Ends
  <1>3. CASE DetectMb2
    BY <1>3 DEF DetectMb2, Types, TypeOK, Stages, Unloaded, Preparing, Leaving32, Labels, Ends
  <1>4. CASE DetectMb1
    BY <1>4 DEF DetectMb1, Types, TypeOK, Stages, Unloaded, Preparing, Leaving32, Labels, Ends
  <1>5. CASE PlaceSegments
    <2>1. file.pages \subseteq Pages /\ file.entry \in Nat
      BY <1>5, FileFacts DEF PlaceSegments, Types, Unloaded
    <2>2. BootMode \in {"Protected32", "Long64"} /\ (BootMode = "Long64" => kernel.mb_version = 0)
      BY DEF BootMode
    <2> QED
      BY <1>5, <2>1, <2>2 DEF PlaceSegments, Types, TypeOK, Stages, Contents, Unloaded,
         Preparing, Leaving32, Labels, Ends
  <1> QED
    BY <1>1, <1>2, <1>3, <1>4, <1>5 DEF FileNext

(* ... while its modules are loaded and boot services exited ...            *)
LEMMA TypesPrepare ==
  ASSUME Types, Stages,
         LoadModules \/ AskFirmware \/ Reserve \/ NoReserve
         \/ TakeMap \/ FirmwareEvent \/ StaleKey \/ Exit
  PROVE  Types' /\ Stages'
  <1> USE DEF bootVars, Is32
  <1>1. CASE LoadModules /\ (LoadModule \/ ModuleUnread)
    <2>1. PICK run : /\ run \subseteq free /\ free' = free \ run
                     /\ modules' = Append(modules, run) \/ modules' = modules
                     /\ \E what \in {"module", "unread"} :
                          mem' = [q \in Pages |-> IF q \in run THEN what ELSE mem[q]]
      BY <1>1 DEF LoadModule, ModuleUnread, TakeRun
    <2>2. run \in SUBSET Pages
      BY <2>1 DEF Types, TypeOK
    <2>3. modules' \in Seq(SUBSET Pages)
      <3>1. modules \in Seq(SUBSET Pages)
        BY DEF Types
      <3>2. Append(modules, run) \in Seq(SUBSET Pages)
        BY <2>2, <3>1
      <3> QED
        BY <2>1, <3>1, <3>2
    <2>4. \A k \in DOMAIN modules' : modules'[k] \subseteq Pages
      BY <2>3
    <2>5. mem' \in [Pages -> Contents]
      BY <2>1 DEF Types, Contents
    <2>6. /\ pc = "modules" /\ pc' \in {"modules", "panic"}
          /\ UNCHANGED <<file, off, kernel, fb, rsdp, info, map, fresh, attempts, cpu, regs, slots>>
      BY <1>1 DEF LoadModules, LoadModule, ModuleUnread
    <2> QED
      BY <2>1, <2>3, <2>4, <2>5, <2>6 DEF Types, TypeOK, Stages, Unloaded,
         Preparing, Leaving32, Labels, Ends
  <1>2. CASE \/ LoadModules /\ (ModulesPanic \/ ModulesLoaded)
             \/ NoReserve \/ StaleKey \/ Exit
    <2>1. /\ UNCHANGED <<file, off, kernel, free, mem, bootVars, cpu, regs, slots>>
          /\ pc \in Preparing /\ pc' \in {"ask", "exit", "build", "panic", "exited", "reset"}
      BY <1>2 DEF LoadModules, ModulesPanic, ModulesLoaded, NoReserve, StaleKey, Exit, Preparing
    <2>2. TypeOK'
      BY <2>1 DEF Types, TypeOK, Ends, Labels
    <2>3. Types'
      BY <2>1, <2>2 DEF Types, Unloaded
    <2>4. Stages'
      BY <2>1 DEF Stages, Unloaded, Preparing, Leaving32, Labels
    <2> QED
      BY <2>3, <2>4
  <1>3. CASE AskFirmware
    <2>1. fb' \in {None, 0, 16}
      BY <1>3 DEF AskFirmware, RedPos, Types, TypeOK
    <2>2. \A a, b \in Tables : RsdpLen(a, b) \in {0, 20, 36}
      BY DEF Tables, RsdpLen
    <2>3. rsdp' \in {0, 20, 36}
      BY <1>3, <2>2 DEF AskFirmware, Types, TypeOK
    <2> QED
      BY <1>3, <2>1, <2>3 DEF AskFirmware, Types, TypeOK, Stages, Unloaded, Preparing,
         Leaving32, Labels
  <1>4. CASE Reserve
    <2>1. info' \in Nat
      BY <1>4, KernelFileConstants DEF Reserve, InfoRuns, Types, TypeOK
    <2> QED
      BY <1>4, <2>1 DEF Reserve, Types, TypeOK, Stages, Unloaded, Preparing, Leaving32, Labels
  <1>5. CASE TakeMap
    BY <1>5 DEF TakeMap, Types, TypeOK, Stages, Unloaded, Preparing, Leaving32, Labels
  <1>6. CASE FirmwareEvent
    BY <1>6 DEF FirmwareEvent, Types, TypeOK, Stages, Unloaded, Preparing, Leaving32, Labels
  <1> QED
    BY <1>1, <1>2, <1>3, <1>4, <1>5, <1>6 DEF LoadModules, ModulesNext

(* A register holds a number. *)
LEMMA RegValues ==
  ASSUME Types
  PROVE  \A r \in {"eax", "ecx", "edx", "r8", "r10", "r11"} : regs[r] \in Int
  BY DEF Types, CPU!RegNames

(* A register that is set to a number leaves the registers numbers. *)
LEMMA RegSet ==
  ASSUME NEW f \in [CPU!RegNames -> Int], NEW r, NEW v \in Int
  PROVE  [f EXCEPT ![r] = v] \in [CPU!RegNames -> Int]
  OBVIOUS

(* ... when the registers are set, with numbers that fit where they are     *)
(* 32 bits wide ...                                                         *)
LEMMA TypesBuild ==
  ASSUME Types, Stages, BuildFor32 \/ BuildFor64
  PROVE  Types' /\ Stages'
  <1>1. CASE BuildFor32
    <2>1. /\ Low32(kernel.entry_point) \in Nat /\ Low32(kernel.entry_point) < Line32
          /\ Low32(info) \in Nat /\ Low32(info) < Line32
      BY Low32Facts DEF Types
    <2>2. mem' \in [Pages -> Contents]
      BY <1>1 DEF BuildFor32, Written, Types, Contents
    <2>3. /\ regs' \in [CPU!RegNames -> Int]
          /\ regs'["ecx"] = Low32(kernel.entry_point) /\ regs'["edx"] = Low32(info)
      <3>1. PICK v \in {MB1_BOOT_MAGIC, MB2_BOOT_MAGIC} :
              regs' = [regs EXCEPT !["ecx"] = Low32(kernel.entry_point), !["edx"] = Low32(info),
                                   !["r8"] = v]
        BY <1>1 DEF BuildFor32
      <3>2. v \in Int /\ regs \in [CPU!RegNames -> Int]
        BY DEF MB1_BOOT_MAGIC, MB2_BOOT_MAGIC, Types
      <3> QED
        BY <2>1, <3>1, <3>2 DEF CPU!RegNames
    <2> QED
      BY <1>1, <2>1, <2>2, <2>3 DEF BuildFor32, Types, TypeOK, Stages, Unloaded, Preparing,
         Leaving32, Labels, bootVars, Is32
  <1>2. CASE BuildFor64
    <2>0. kernel.boot_mode = "Long64" /\ kernel.mb_version = 0
      BY <1>2 DEF BuildFor64, Stages
    <2>1. mem' = mem
      BY <1>2, <2>0 DEF BuildFor64
    <2>2. regs' = [regs EXCEPT !["ecx"] = kernel.entry_point, !["edx"] = 0]
      BY <1>2, <2>0 DEF BuildFor64
    <2>3. regs' \in [CPU!RegNames -> Int]
      <3>1. kernel.entry_point \in Int /\ 0 \in Int /\ regs \in [CPU!RegNames -> Int]
        BY DEF Types
      <3>2. regs' = [[regs EXCEPT !["ecx"] = kernel.entry_point] EXCEPT !["edx"] = 0]
        BY <2>2
      <3> QED
        BY <3>1, <3>2, RegSet
    <2>4. pc' = "handoff" /\ UNCHANGED <<kernel, free, slots, bootVars>>
      BY <1>2 DEF BuildFor64
    <2>5. TypeOK'
      BY <2>1, <2>4 DEF Types, TypeOK, Labels, bootVars
    <2>6. Types'
      BY <2>1, <2>3, <2>4, <2>5 DEF Types, Unloaded, bootVars
    <2>7. Stages'
      BY <2>0, <2>4 DEF Stages, Unloaded, Preparing, Leaving32, Labels, bootVars, Is32
    <2> QED
      BY <2>6, <2>7
  <1> QED
    BY <1>1, <1>2

(* The last instructions go from label to label and touch only memory, the  *)
(* registers and the mode.                                                  *)
LEMMA HandOverSteps ==
  ASSUME HandOver
  PROVE  /\ pc \in Labels /\ UNCHANGED <<file, off, kernel, free, bootVars>>
         /\ pc' \in (Leaving32 \ {"trampoline"}) \cup {"running", "fault"}
         /\ pc' \in Leaving32 => pc \in Leaving32
         /\ mem' = mem \/ mem' = [mem EXCEPT ![TrampPage] = "trampoline"]
  BY DEF HandOver, Labels, Leaving32, CPU!CpuNext,
     CPU!SaveArguments, CPU!CopyBlob, CPU!WriteSlots, CPU!LoadGdt, CPU!FarReturn,
     CPU!LoadSegments, CPU!DisablePaging, CPU!FlushTlb, CPU!DisableLongMode, CPU!FarJump,
     CPU!LoadParameters, CPU!JumpToKernel, CPU!Handoff64, CPU!GoTo

(* Every register keeps holding a number. *)
LEMMA RegsTyped ==
  ASSUME Types, HandOver
  PROVE  regs' \in [CPU!RegNames -> Int]
  <1>1. /\ regs \in [CPU!RegNames -> Int]
        /\ \A r \in {"eax", "ecx", "edx", "r8", "r10", "r11"} : regs[r] \in Int
    BY RegValues DEF Types
  <1>2. CPU!StackTop \in Int /\ CPU!BANG_HANDOFF_MAGIC \in Int /\ TrampPage \in Int
    BY KernelFileConstants, BootConstants DEF CPU!StackTop, CPU!BANG_HANDOFF_MAGIC
  <1>3. slots.magic \in Int /\ slots.mbi \in Int /\ slots.entry \in Int
    BY DEF Types
  <1>4. CASE CPU!WriteSlots \/ CPU!FarReturn \/ CPU!LoadSegments
    BY <1>1, <1>4 DEF CPU!WriteSlots, CPU!FarReturn, CPU!LoadSegments
  <1>5. CASE CPU!SaveArguments
    BY <1>1, <1>5, RegSet DEF CPU!SaveArguments
  <1>6. CASE CPU!CopyBlob \/ CPU!DisablePaging \/ CPU!FlushTlb \/ CPU!FarJump
    <2>1. PICK r \in {"eax", "ecx"}, v \in {0, 1} : regs' = [regs EXCEPT ![r] = v]
      BY <1>6 DEF CPU!CopyBlob, CPU!DisablePaging, CPU!FlushTlb, CPU!FarJump
    <2> QED
      BY <1>1, <2>1, RegSet
  <1>7. CASE CPU!LoadGdt
    BY <1>1, <1>2, <1>7, RegSet DEF CPU!LoadGdt
  <1>8. CASE CPU!DisableLongMode
    BY <1>1, <1>8, RegSet DEF CPU!DisableLongMode
  <1>9. CASE CPU!LoadParameters
    BY <1>1, <1>2, <1>3, <1>9, RegSet DEF CPU!LoadParameters
  <1>10. CASE CPU!JumpToKernel
    BY <1>1, <1>10, RegSet DEF CPU!JumpToKernel
  <1>11. CASE CPU!Handoff64
    BY <1>1, <1>2, <1>11, RegSet DEF CPU!Handoff64
  <1> QED
    BY <1>4, <1>5, <1>6, <1>7, <1>8, <1>9, <1>10, <1>11 DEF HandOver, CPU!CpuNext

(* The slots are written from registers, and no more. *)
LEMMA SlotsTyped ==
  ASSUME Types, HandOver
  PROVE  slots' \in [entry : Int, mbi : Int, magic : Int, gdt_base : {"zero", "copy"}]
  <1>1. \A r \in {"eax", "ecx", "edx", "r8", "r10", "r11"} : regs[r] \in Int
    BY RegValues
  <1>2. CASE CPU!WriteSlots
    BY <1>1, <1>2 DEF CPU!WriteSlots, Types
  <1>3. CASE CPU!LoadGdt
    BY <1>3 DEF CPU!LoadGdt, Types
  <1>4. CASE CPU!CopyBlob
    BY <1>4 DEF CPU!CopyBlob, CPU!BlankSlots
  <1>5. CASE UNCHANGED slots
    BY <1>5 DEF Types
  <1> QED
    BY <1>2, <1>3, <1>4, <1>5 DEF HandOver, CPU!CpuNext,
       CPU!SaveArguments, CPU!FarReturn, CPU!LoadSegments, CPU!DisablePaging, CPU!FlushTlb,
       CPU!DisableLongMode, CPU!FarJump, CPU!LoadParameters, CPU!JumpToKernel, CPU!Handoff64

(* ... and while the processor is handed over.                              *)
LEMMA TypesHandOver ==
  ASSUME Types, Stages, HandOver
  PROVE  Types' /\ Stages'
  <1>1. /\ UNCHANGED <<file, off, kernel, free, bootVars>>
        /\ pc' \in (Leaving32 \ {"trampoline"}) \cup {"running", "fault"}
        /\ pc' \in Leaving32 => pc \in Leaving32
        /\ pc \in Labels
    BY HandOverSteps
  <1>2. mem' \in [Pages -> Contents]
    <2>1. mem \in [Pages -> Contents] /\ "trampoline" \in Contents
      BY DEF Types, Contents
    <2>2. mem' = mem \/ mem' = [mem EXCEPT ![TrampPage] = "trampoline"]
      BY HandOverSteps
    <2> QED
      BY <2>1, <2>2
  <1>3. TypeOK'
    BY <1>1, <1>2 DEF Types, TypeOK, Leaving32, Labels, Ends, bootVars
  <1>4. Types'
    BY <1>1, <1>2, <1>3, RegsTyped, SlotsTyped DEF Types, Unloaded, Leaving32, Labels, bootVars
  <1>5. Stages'
    BY <1>1 DEF Stages, Unloaded, Preparing, Leaving32, Labels, bootVars, Is32
  <1> QED
    BY <1>4, <1>5

-----------------------------------------------------------------------------
(* Where control goes before the last instructions, and what it leaves      *)
(* alone.                                                                   *)
Prepare ==
  \/ LoadModules \/ AskFirmware \/ Reserve \/ NoReserve
  \/ TakeMap \/ FirmwareEvent \/ StaleKey \/ Exit

(* The kernel file is read before anything else is touched.                 *)
LEMMA FileSteps ==
  ASSUME LoadKernel
  PROVE  /\ pc \in Unloaded /\ pc' \in Unloaded \cup {"panic", "modules"}
         /\ UNCHANGED <<bootVars, cpu, regs, slots>>
  BY DEF LoadKernel, FileNext, Unloaded, KernelUnreadable, ReadKernel, DetectMb2, DetectMb1,
     CheckHeader, PlaceSegments, SegmentsRefused

(* Only Reserve gives the information its place; the processor is left      *)
(* alone until it is written.                                               *)
LEMMA PrepareSteps ==
  ASSUME Prepare
  PROVE  /\ pc \in Preparing /\ pc' \in Preparing \cup {"panic", "exited", "reset"}
         /\ UNCHANGED <<file, off, kernel, cpu, regs, slots>>
         /\ pc' \in Reserved => pc \in Reserved \/ Reserve
         /\ Reserve \/ UNCHANGED info
  BY DEF Prepare, Preparing, Reserved, Labels, LoadModules, ModulesNext, LoadModule,
     ModuleUnread, ModulesPanic, ModulesLoaded, AskFirmware, Reserve, NoReserve, TakeMap, FirmwareEvent, StaleKey, Exit, bootVars

(* A run of pages begins with its first. *)
LEMMA RunHead ==
  ASSUME NEW p \in Nat, NEW n \in Nat \ {0}
  PROVE  p \in Run(p, n)
  BY DEF Run

(* The information is where a 32-bit register can point.                    *)
LEMMA InfoFacts ==
  ASSUME Types, InfoBelow, [Next]_vars
  PROVE  InfoBelow'
  <1>1. CASE LoadKernel
    BY <1>1, FileSteps DEF InfoBelow, Reserved, Labels, Unloaded
  <1>2. CASE Reserve
    <2>1. info' \in InfoRuns /\ free \subseteq Pages
      BY <1>2 DEF Reserve, Types, TypeOK
    <2>2. /\ info' \in Nat /\ Run(info', InfoPages) \subseteq Pages
          /\ \A p \in Run(info', InfoPages) : p < Line32
      BY <2>1, KernelFileConstants DEF InfoRuns, Below32
    <2>3. InfoPages \in Nat \ {0}
      BY BootConstants
    <2>4. info' \in Run(info', InfoPages)
      BY <2>2, <2>3, RunHead
    <2> QED
      BY <2>2, <2>4 DEF InfoBelow
  <1>3. CASE Prepare /\ ~Reserve
    BY <1>3, PrepareSteps DEF InfoBelow
  <1>4. CASE BuildFor32 \/ BuildFor64
    BY <1>4 DEF BuildFor32, BuildFor64, InfoBelow, Reserved, bootVars
  <1>5. CASE HandOver
    BY <1>5, HandOverSteps DEF InfoBelow, Reserved, bootVars
  <1>6. CASE UNCHANGED vars
    BY <1>6 DEF vars, fileVars, bootVars, InfoBelow
  <1> QED
    BY <1>1, <1>2, <1>3, <1>4, <1>5, <1>6 DEF Next, Prepare

(* The processor is in the mode that the next instruction needs.            *)
LEMMA ModeFacts ==
  ASSUME Types, Stages, CpuAt, [Next]_vars
  PROVE  CpuAt'
  <1>1. CASE LoadKernel
    BY <1>1, FileSteps DEF CpuAt, Unloaded, Preparing, Copied, Leaving32, Labels, Running
  <1>2. CASE Prepare
    BY <1>2, PrepareSteps DEF CpuAt, Unloaded, Preparing, Copied, Leaving32, Labels, Running
  <1>3. CASE BuildFor32 \/ BuildFor64
    BY <1>3 DEF BuildFor32, BuildFor64, CpuAt, Unloaded, Preparing, Copied, Leaving32, Labels,
       Running
  <1>4. CASE HandOver
    <2> USE DEF HandOver, CPU!GoTo, CpuAt, Mode, Running, Copied, Leaving32, Labels, Unloaded,
            Preparing
    <2>0. UNCHANGED kernel
      BY <1>4
    <2>1. CASE CPU!SaveArguments
      <3>1. cpu = Mode(64, 64, "firmware", TRUE, TRUE, TRUE) /\ pc' = "copy"
        BY <2>1 DEF CPU!SaveArguments
      <3>2. cpu' = Mode(64, 64, "firmware", TRUE, TRUE, FALSE)
        BY <2>1, <3>1 DEF CPU!SaveArguments
      <3> QED
        BY <3>1, <3>2
    <2>2. CASE CPU!CopyBlob
      <3>1. mem' = [mem EXCEPT ![TrampPage] = "trampoline"] /\ TrampPage \in DOMAIN mem
        BY <2>2, BootConstants DEF CPU!CopyBlob, Types
      <3>2. mem'[TrampPage] = "trampoline"
        BY <3>1
      <3> QED
        BY <1>4, <2>2, <3>2 DEF CPU!CopyBlob
    <2>3. CASE CPU!WriteSlots \/ CPU!LoadGdt
      BY <1>4, <2>3 DEF CPU!WriteSlots, CPU!LoadGdt
    <2>4. CASE CPU!FarReturn \/ CPU!LoadSegments \/ CPU!DisablePaging
      BY <1>4, <2>4 DEF CPU!FarReturn, CPU!LoadSegments, CPU!DisablePaging
    <2>5. CASE CPU!FlushTlb \/ CPU!DisableLongMode \/ CPU!FarJump
      BY <1>4, <2>5 DEF CPU!FlushTlb, CPU!DisableLongMode, CPU!FarJump
    <2>6. CASE CPU!LoadParameters \/ CPU!JumpToKernel
      BY <1>4, <2>6 DEF CPU!LoadParameters, CPU!JumpToKernel, Stages, Is32
    <2>7. CASE CPU!Handoff64
      <3>1. kernel.boot_mode = "Long64" /\ cpu = Mode(64, 64, "firmware", TRUE, TRUE, TRUE)
        BY <2>7 DEF CPU!Handoff64, Stages
      <3>2. cpu' = Mode(64, 64, "firmware", TRUE, TRUE, FALSE) /\ pc' = "running"
        BY <2>7, <3>1 DEF CPU!Handoff64
      <3> QED
        BY <2>0, <3>1, <3>2
    <2> QED
      BY <1>4, <2>1, <2>2, <2>3, <2>4, <2>5, <2>6, <2>7 DEF CPU!CpuNext
  <1>5. CASE UNCHANGED vars
    <2>1. UNCHANGED <<pc, cpu, mem, kernel>>
      BY <1>5 DEF vars, fileVars
    <2> QED
      BY <2>1 DEF CpuAt, Running, Mode
  <1> QED
    BY <1>1, <1>2, <1>3, <1>4, <1>5 DEF Next, Prepare

(* The arguments reach the registers the kernel looks for them in. *)
LEMMA ArgumentFacts ==
  ASSUME Types, Stages, InfoBelow, RegsAt, [Next]_vars
  PROVE  RegsAt'
  <1> USE DEF Copied, Leaving32, Labels, Unloaded, Preparing
  <1>1. CASE LoadKernel
    BY <1>1, FileSteps DEF RegsAt, Running
  <1>2. CASE Prepare
    BY <1>2, PrepareSteps DEF RegsAt, Running
  <1>3. CASE BuildFor32
    <2>1. Low32(info) = info
      BY <1>3, Low32Facts DEF BuildFor32, InfoBelow, Reserved, Types
    <2>2. regs \in [CPU!RegNames -> Int]
      BY DEF Types
    <2>3. /\ pc' = "trampoline" /\ UNCHANGED <<kernel, info>>
          /\ regs'["ecx"] = Entry32 /\ regs'["edx"] = info /\ regs'["r8"] = Magic
      BY <1>3, <2>1, <2>2 DEF BuildFor32, Entry32, Magic, CPU!RegNames, bootVars
    <2> QED
      BY <2>3 DEF RegsAt, Entry32, Magic, Running
  <1>4. CASE BuildFor64
    <2>1. kernel.mb_version = 0 /\ regs \in [CPU!RegNames -> Int]
      BY <1>4 DEF BuildFor64, Stages, Types
    <2>2. /\ pc' = "handoff" /\ UNCHANGED kernel
          /\ regs'["ecx"] = kernel.entry_point /\ regs'["edx"] = 0
      BY <1>4, <2>1 DEF BuildFor64, CPU!RegNames
    <2> QED
      BY <2>2 DEF RegsAt, Running
  <1>5. CASE HandOver
    <2>0. /\ UNCHANGED <<kernel, info>> /\ Entry32' = Entry32 /\ Magic' = Magic
          /\ regs \in [CPU!RegNames -> Int]
          /\ slots \in [entry : Int, mbi : Int, magic : Int, gdt_base : {"zero", "copy"}]
      BY <1>5, HandOverSteps DEF bootVars, Entry32, Magic, Types
    <2> USE DEF CPU!GoTo, CPU!RegNames, Running
    <2>1. CASE CPU!SaveArguments
      <3>1. /\ pc' \in {"copy", "fault"} /\ regs'["r10"] = Entry32 /\ regs'["r11"] = info
            /\ regs'["r8"] = Magic
        BY <2>0, <2>1 DEF CPU!SaveArguments, RegsAt
      <3> QED
        BY <2>0, <3>1 DEF RegsAt
    <2>2. CASE CPU!CopyBlob
      <3>1. /\ pc' \in {"slots", "fault"} /\ regs'["r10"] = Entry32 /\ regs'["r11"] = info
            /\ regs'["r8"] = Magic
        BY <2>0, <2>2 DEF CPU!CopyBlob, RegsAt
      <3> QED
        BY <2>0, <3>1 DEF RegsAt
    <2>3. CASE CPU!WriteSlots
      <3>1. /\ pc' \in {"gdt", "fault"} /\ slots'.entry = Entry32 /\ slots'.mbi = info
            /\ slots'.magic = Magic
        BY <2>0, <2>3 DEF CPU!WriteSlots, RegsAt
      <3> QED
        BY <2>0, <3>1 DEF RegsAt
    <2>4. CASE \/ CPU!LoadGdt \/ CPU!FarReturn \/ CPU!LoadSegments \/ CPU!DisablePaging
               \/ CPU!FlushTlb \/ CPU!DisableLongMode \/ CPU!FarJump
      <3>1. /\ pc \in Copied \ {"slots", "pm32", "jump"}
            /\ pc' \in (Copied \ {"slots", "jump"}) \cup {"fault"}
            /\ slots'.entry = slots.entry /\ slots'.mbi = slots.mbi
            /\ slots'.magic = slots.magic
        BY <2>0, <2>4 DEF CPU!LoadGdt, CPU!FarReturn, CPU!LoadSegments, CPU!DisablePaging,
           CPU!FlushTlb, CPU!DisableLongMode, CPU!FarJump
      <3> QED
        BY <2>0, <3>1 DEF RegsAt
    <2>5. CASE CPU!LoadParameters
      <3>1. /\ pc' \in {"jump", "fault"} /\ regs'["ecx"] = Entry32 /\ regs'["eax"] = Magic
            /\ regs'["ebx"] = info /\ regs'["esp"] = CPU!StackTop
        BY <2>0, <2>5 DEF CPU!LoadParameters, RegsAt
      <3> QED
        BY <2>0, <3>1 DEF RegsAt
    <2>6. CASE CPU!JumpToKernel
      <3>1. /\ pc' \in {"running", "fault"} /\ regs'["eip"] = Entry32 /\ regs'["eax"] = Magic
            /\ regs'["ebx"] = info /\ regs'["esp"] = CPU!StackTop /\ Is32
        BY <2>0, <2>6 DEF CPU!JumpToKernel, RegsAt, Stages
      <3> QED
        BY <2>0, <3>1 DEF RegsAt, Is32
    <2>7. CASE CPU!Handoff64
      <3>1. /\ pc' \in {"running", "fault"} /\ kernel.boot_mode = "Long64"
            /\ regs'["eip"] = kernel.entry_point /\ regs'["edi"] = CPU!BANG_HANDOFF_MAGIC
            /\ regs'["esi"] = 0 /\ regs'["esp"] = CPU!StackTop
        BY <2>0, <2>7 DEF CPU!Handoff64, RegsAt, Stages
      <3> QED
        BY <2>0, <3>1 DEF RegsAt
    <2> QED
      BY <1>5, <2>1, <2>2, <2>3, <2>4, <2>5, <2>6, <2>7 DEF HandOver, CPU!CpuNext
  <1>6. CASE UNCHANGED vars
    BY <1>6 DEF vars, fileVars, bootVars, RegsAt, Entry32, Magic, Running
  <1> QED
    BY <1>1, <1>2, <1>3, <1>4, <1>5, <1>6 DEF Next, Prepare

-----------------------------------------------------------------------------
(* What the kernel is told is where it is told to look. *)
LEMMA ToldFacts ==
  ASSUME Types, Stages, InfoBelow, Told, [Next]_vars
  PROVE  Told'
  <1> USE DEF Told, Running, Leaving32, Labels
  <1>1. CASE LoadKernel
    BY <1>1, FileSteps DEF Unloaded
  <1>2. CASE Prepare
    BY <1>2, PrepareSteps DEF Preparing
  <1>3. CASE BuildFor32
    <2>1. /\ mem' = Written(Format) /\ UNCHANGED <<kernel, info>>
          /\ Run(info, InfoPages) \subseteq Pages
      BY <1>3 DEF BuildFor32, Format, InfoBelow, Reserved, bootVars
    <2>2. \A p \in Run(info', InfoPages) : mem'[p] = Format'
      BY <2>1 DEF Written, Format
    <2> QED
      BY <2>2
  <1>4. CASE BuildFor64
    BY <1>4 DEF BuildFor64, Stages
  <1>5. CASE HandOver
    <2>1. /\ UNCHANGED <<kernel, info>> /\ Format' = Format
          /\ \A p \in Pages \ {TrampPage} : mem'[p] = mem[p]
      BY <1>5, HandOverSteps DEF bootVars, Format, Types
    <2>3. Run(info, InfoPages) \subseteq Pages
      BY <1>5, HandOverSteps DEF InfoBelow, Reserved
    <2>2. (pc' \in Leaving32 \/ Running("Protected32")') => pc \in Leaving32
      BY <1>5, <2>1, HandOverSteps DEF Stages
    <2> QED
      BY <2>1, <2>2, <2>3
  <1>6. CASE UNCHANGED vars
    BY <1>6 DEF vars, fileVars, bootVars, Format
  <1> QED
    BY <1>1, <1>2, <1>3, <1>4, <1>5, <1>6 DEF Next, Prepare

(* A page is given to one use only, and goes on holding what was put there. *)
LEMMA PlacedFacts ==
  ASSUME Types, Stages, InfoBelow, Apart, Held, [Next]_vars
  PROVE  Apart' /\ Held'
  <1> USE DEF Apart, Held, Taken, Is32
  <1>1. CASE LoadKernel
    <2>0. /\ pc \in Unloaded /\ pc' \notin Reserved /\ modules = <<>> /\ modules' = <<>>
      BY <1>1, FileSteps DEF Stages, Unloaded, Reserved, Labels, bootVars
    <2>1. CASE PlaceSegments
      <3>1. /\ kernel'.pages = file.pages /\ free' = free \ file.pages
            /\ file.pages \subseteq Pages
            /\ \A p \in file.pages : mem'[p] = "kernel"
        BY <2>1, FileFacts DEF PlaceSegments, Types, Unloaded
      <3> QED
        BY <2>0, <3>1
    <2>2. CASE ~PlaceSegments
      <3>1. kernel'.pages = {}
        BY <1>1, <2>0, <2>2 DEF LoadKernel, FileNext, KernelUnreadable, ReadKernel, DetectMb2,
           DetectMb1, CheckHeader, SegmentsRefused, Stages, Types
      <3> QED
        BY <2>0, <3>1
    <2> QED
      BY <2>1, <2>2
  <1>2. CASE LoadModules /\ LoadModule
    <2>1. PICK p \in free, n \in ModuleSizes :
            /\ Run(p, n) \subseteq free
            /\ modules' = Append(modules, Run(p, n))
            /\ free' = free \ Run(p, n)
            /\ mem' = [q \in Pages |-> IF q \in Run(p, n) THEN "module" ELSE mem[q]]
      BY <1>2 DEF LoadModule, TakeRun
    <2>2. /\ modules \in Seq(SUBSET Pages) /\ free \subseteq Pages /\ kernel.pages \subseteq Pages
          /\ UNCHANGED <<kernel, pc, info>> /\ pc \notin Reserved
      BY <1>2 DEF LoadModules, LoadModule, Types, TypeOK, Reserved, Labels
    <2>3. /\ DOMAIN modules = 1..Len(modules) /\ Len(modules) \in Nat
          /\ DOMAIN modules' = 1..(Len(modules) + 1)
          /\ \A k \in DOMAIN modules : modules[k] \subseteq Pages /\ modules'[k] = modules[k]
          /\ modules'[Len(modules) + 1] = Run(p, n)
      BY <2>1, <2>2
    <2>4. \A k \in DOMAIN modules' : k \in DOMAIN modules \/ modules'[k] = Run(p, n)
      BY <2>3
    <2>5. Apart'
      <3>1. kernel'.pages \cap free' = {}
        BY <2>1, <2>2
      <3>2. \A k \in DOMAIN modules' :
              modules'[k] \cap free' = {} /\ modules'[k] \cap kernel'.pages = {}
        BY <2>1, <2>2, <2>3, <2>4
      <3>3. \A k, l \in DOMAIN modules' : k # l => modules'[k] \cap modules'[l] = {}
        <4> SUFFICES ASSUME NEW k \in DOMAIN modules', NEW l \in DOMAIN modules', k # l
                     PROVE  modules'[k] \cap modules'[l] = {}
          OBVIOUS
        <4>1. CASE k \in DOMAIN modules /\ l \in DOMAIN modules
          BY <2>3, <4>1
        <4>2. CASE k \notin DOMAIN modules
          <5>1. k = Len(modules) + 1 /\ l \in DOMAIN modules
            BY <2>3, <4>2
          <5> QED
            BY <2>1, <2>3, <5>1
        <4>3. CASE l \notin DOMAIN modules
          <5>1. l = Len(modules) + 1 /\ k \in DOMAIN modules
            BY <2>3, <4>3
          <5> QED
            BY <2>1, <2>3, <5>1
        <4> QED
          BY <4>1, <4>2, <4>3
      <3> QED
        BY <2>2, <3>1, <3>2, <3>3
    <2>6. Held'
      <3>1. \A q \in kernel.pages \ Taken : mem'[q] = "kernel"
        BY <2>1, <2>2
      <3>2. \A k \in DOMAIN modules' : \A q \in modules'[k] \ Taken : mem'[q] = "module"
        BY <2>1, <2>2, <2>3, <2>4
      <3> QED
        BY <2>2, <3>1, <3>2
    <2> QED
      BY <2>5, <2>6
  <1>3. CASE LoadModules /\ ModuleUnread
    <2>1. PICK run : /\ run \subseteq free /\ free' = free \ run
                     /\ mem' = [q \in Pages |-> IF q \in run THEN "unread" ELSE mem[q]]
      BY <1>3 DEF ModuleUnread, TakeRun
    <2>2. /\ UNCHANGED <<kernel, modules>> /\ pc' \notin Reserved
          /\ kernel.pages \subseteq Pages /\ \A k \in DOMAIN modules : modules[k] \subseteq Pages
      BY <1>3 DEF ModuleUnread, Types, TypeOK, Reserved, Labels
    <2>3. \A q \in Pages \ free : mem'[q] = mem[q]
      BY <2>1
    <2> QED
      BY <2>1, <2>2, <2>3
  <1>4. CASE Reserve
    <2>1. Run(info', InfoPages) \subseteq free /\ free' = free \ Run(info', InfoPages)
      BY <1>4 DEF Reserve, InfoRuns
    <2>2. UNCHANGED <<kernel, modules, mem>>
      BY <1>4 DEF Reserve
    <2> QED
      BY <2>1, <2>2
  <1>5. CASE Prepare /\ ~(LoadModules /\ (LoadModule \/ ModuleUnread)) /\ ~Reserve
    <2>1. /\ UNCHANGED <<kernel, modules, mem, info>> /\ free' \subseteq free
          /\ pc' \in Reserved => pc \in Reserved
      <3>1. CASE LoadModules \/ AskFirmware \/ NoReserve
        BY <1>5, <3>1 DEF LoadModules, ModulesNext, ModulesPanic, ModulesLoaded, AskFirmware,
                          NoReserve, bootVars, Reserved, Labels
      <3>2. CASE TakeMap \/ FirmwareEvent \/ StaleKey \/ Exit
        BY <3>2 DEF TakeMap, FirmwareEvent, StaleKey, Exit, bootVars, Reserved, Types, TypeOK
      <3> QED
        BY <1>5, <3>1, <3>2 DEF Prepare
    <2> QED
      BY <2>1
  <1>6. CASE BuildFor32 \/ BuildFor64
    <2>1. /\ UNCHANGED <<kernel, modules, info, free>> /\ pc \in Reserved
          /\ kernel.pages \subseteq Pages /\ \A k \in DOMAIN modules : modules[k] \subseteq Pages
      BY <1>6 DEF BuildFor32, BuildFor64, Reserved, bootVars, Types, TypeOK
    <2>2. \A p \in Pages \ Run(info, InfoPages) : mem'[p] = mem[p]
      BY <1>6 DEF BuildFor32, BuildFor64, Written, Types
    <2> QED
      BY <2>1, <2>2
  <1>7. CASE HandOver
    <2>1. /\ UNCHANGED <<kernel, modules, info, free>> /\ pc \in Reserved
      BY <1>7, HandOverSteps DEF Reserved, bootVars
    <2>2. mem' = mem \/ (Is32 /\ mem' = [mem EXCEPT ![TrampPage] = "trampoline"])
      BY <1>7 DEF HandOver, CPU!CpuNext, Stages, Leaving32, Labels,
         CPU!SaveArguments, CPU!CopyBlob, CPU!WriteSlots, CPU!LoadGdt, CPU!FarReturn,
         CPU!LoadSegments, CPU!DisablePaging, CPU!FlushTlb, CPU!DisableLongMode, CPU!FarJump,
         CPU!LoadParameters, CPU!JumpToKernel, CPU!Handoff64
    <2>3. \A p \in Pages \ Taken : mem'[p] = mem[p]
      BY <2>2 DEF Types
    <2>4. kernel.pages \subseteq Pages /\ \A k \in DOMAIN modules : modules[k] \subseteq Pages
      BY DEF Types, TypeOK
    <2> QED
      BY <2>1, <2>3, <2>4
  <1>8. CASE UNCHANGED vars
    BY <1>8 DEF vars, fileVars, bootVars, Is32
  <1> QED
    BY <1>1, <1>2, <1>3, <1>4, <1>5, <1>6, <1>7, <1>8 DEF Next, Prepare

-----------------------------------------------------------------------------
BootInv == Types /\ Stages /\ InfoBelow /\ CpuAt /\ RegsAt /\ Told /\ Apart /\ Held

(* The boot begins so ...                                                   *)
LEMMA BootInvInit == Init => BootInv
  <1> SUFFICES ASSUME Init PROVE BootInv
    OBVIOUS
  <1>1. pc = "open" /\ kernel = NoKernel /\ modules = <<>>
    BY DEF Init, FileInit
  <1>2. CpuAt
    BY <1>1 DEF Init, CPU!CpuInit, CpuAt, Mode, Unloaded, Preparing, Copied, Leaving32, Labels,
       Running
  <1>3. InfoBelow /\ RegsAt /\ Told
    BY <1>1 DEF InfoBelow, RegsAt, Told, Reserved, Copied, Leaving32, Labels, Running
  <1>4. Apart /\ Held
    BY <1>1 DEF Apart, Held, NoKernel, Reserved, Labels
  <1> QED
    BY <1>2, <1>3, <1>4, TypesInit DEF BootInv

(* ... every step keeps it ...                                              *)
LEMMA BootInvNext == BootInv /\ [Next]_vars => BootInv'
  <1> SUFFICES ASSUME BootInv, [Next]_vars PROVE BootInv'
    OBVIOUS
  <1>1. Types' /\ Stages'
    <2>1. CASE UNCHANGED vars
      BY <2>1 DEF BootInv, Types, TypeOK, Stages, vars, fileVars, bootVars, Is32
    <2> QED
      BY <2>1, TypesFile, TypesPrepare, TypesBuild, TypesHandOver DEF BootInv, Next
  <1> QED
    BY <1>1, InfoFacts, ModeFacts, ArgumentFacts, ToldFacts, PlacedFacts DEF BootInv

(* ... and it always holds.                                                 *)
LEMMA BootInvAlways == Spec => []BootInv
  BY BootInvInit, BootInvNext, PTL DEF Spec

(* The variables keep their types, and what BuildFor32 puts into 32-bit     *)
(* registers fits in them.                                                  *)
THEOREM TypeCorrect == Spec => []TypeOK
  <1>1. BootInv => TypeOK
    BY DEF BootInv, Types
  <1> QED
    BY <1>1, BootInvAlways, PTL

(* No instruction of the trampoline or the handoff is executed in a mode    *)
(* that forbids it, and the kernel gets the machine it was built for.       *)
THEOREM EnteredRight == Spec => []EnteredAsBuilt
  <1>1. BootInv => EnteredAsBuilt
    <2> SUFFICES ASSUME BootInv PROVE EnteredAsBuilt
      OBVIOUS
    <2> USE DEF BootInv, Running, Mode
    <2>1. pc # "fault"
      BY DEF CpuAt
    <2>2. pc = "running" => Running("Protected32") \/ Running("Long64")
      BY DEF Stages, Types
    <2>3. CASE Running("Protected32")
      <3>1. cpu = Mode(32, 32, "copy", FALSE, FALSE, FALSE)
        BY <2>3 DEF CpuAt
      <3>2. regs["esp"] = CPU!StackTop /\ regs["eip"] = Entry32
        BY <2>3 DEF RegsAt
      <3>3. kernel.entry_point < Line32 => Entry32 = kernel.entry_point
        BY Low32Facts DEF Types, Entry32
      <3> QED
        BY <2>3, <3>1, <3>2, <3>3 DEF EnteredAsBuilt
    <2>4. CASE Running("Long64")
      <3>1. cpu = Mode(64, 64, "firmware", TRUE, TRUE, FALSE)
        BY <2>4 DEF CpuAt
      <3>2. regs["esp"] = CPU!StackTop /\ regs["eip"] = kernel.entry_point
        BY <2>4 DEF RegsAt
      <3> QED
        BY <2>4, <3>1, <3>2 DEF EnteredAsBuilt
    <2>5. CASE pc # "running"
      BY <2>1, <2>5 DEF EnteredAsBuilt
    <2> QED
      BY <2>2, <2>3, <2>4, <2>5
  <1> QED
    BY <1>1, BootInvAlways, PTL

(* The kernel is told in the format its header asks for, at the address in  *)
(* ebx, and a direct handoff says so and points at nothing.                 *)
THEOREM ToldRight == Spec => []ToldInItsFormat
  <1>1. BootInv => ToldInItsFormat
    <2> SUFFICES ASSUME BootInv PROVE ToldInItsFormat
      OBVIOUS
    <2> USE DEF BootInv, Running
    <2>1. Running("Protected32") => Run(info, InfoPages) \subseteq Pages /\ regs["ebx"] = info
      BY DEF InfoBelow, Reserved, RegsAt
    <2>2. Running("Protected32") => regs["eax"] = Magic
      BY DEF RegsAt
    <2>3. Running("Protected32") => \A p \in Run(info, InfoPages) \ {TrampPage} : mem[p] = Format
      BY DEF Told
    <2>4. Running("Long64") => regs["edi"] = CPU!BANG_HANDOFF_MAGIC /\ regs["esi"] = 0
      BY DEF RegsAt
    <2> QED
      BY <2>1, <2>2, <2>3, <2>4 DEF ToldInItsFormat, Magic, Format
  <1> QED
    BY <1>1, BootInvAlways, PTL

(* Segments, modules and information have pages of their own and hold what  *)
(* was put there when the kernel runs.                                      *)
THEOREM PlacedRight == Spec => []PlacedIntact
  <1>1. BootInv => PlacedIntact
    <2> SUFFICES ASSUME BootInv, pc = "running" PROVE PlacedIntact
      BY DEF PlacedIntact
    <2> DEFINE mods == UNION {modules[k] : k \in DOMAIN modules}
    <2> USE DEF BootInv, Taken, Is32
    <2>1. /\ kernel.pages \cap free = {} /\ mods \cap free = {} /\ kernel.pages \cap mods = {}
          /\ \A k, l \in DOMAIN modules : k # l => modules[k] \cap modules[l] = {}
      BY DEF Apart
    <2>2. (kernel.pages \cup mods \cup free) \cap Run(info, InfoPages) = {}
      BY DEF Apart, Reserved
    <2>3. /\ \A p \in kernel.pages \ Taken : mem[p] = "kernel"
          /\ \A p \in mods \ Taken : mem[p] = "module"
      BY DEF Held
    <2> QED
      BY <2>1, <2>2, <2>3 DEF PlacedIntact
  <1> QED
    BY <1>1, BootInvAlways, PTL

-----------------------------------------------------------------------------
(* Looking for a header: none was where detect_multiboot_version has        *)
(* already looked.                                                          *)
HeaderAt(o, magic, align, words) ==
  o % align = 0 /\ WordAt(o) = magic /\ SumsTo0(o, words)

NoneBefore(magic, align, words) ==
  \A o \in 0..(off - 1) : ~HeaderAt(o, magic, align, words)

HasMb2 == HasHeader(MB2_HEADER_MAGIC, 8, 4, Mb2Limit)
HasMb1 == HasHeader(MB1_HEADER_MAGIC, 4, 3, Mb1Limit)

ScanInv ==
  /\ pc = "open" => off = 0
  /\ pc \in {"open", "mb2", "mb1"} => kernel.mb_version = 0
  /\ pc = "mb2" => off \in Nat /\ off % 8 = 0 /\ NoneBefore(MB2_HEADER_MAGIC, 8, 4)
  /\ pc = "mb1" => off \in Nat /\ off % 4 = 0 /\ ~HasMb2 /\ NoneBefore(MB1_HEADER_MAGIC, 4, 3)
  /\ DetectedRight

(* The part of the file that is looked at. *)
LEMMA MinOfTwo ==
  ASSUME NEW a \in Int, NEW b \in Int
  PROVE  Min({a, b}) \in Int /\ Min({a, b}) <= a /\ Min({a, b}) <= b
  <1>1. \E x \in {a, b} : \A y \in {a, b} : x <= y
    <2>1. CASE a <= b
      BY <2>1
    <2>2. CASE b <= a
      BY <2>2
    <2> QED
      BY <2>1, <2>2
  <1>2. Min({a, b}) \in {a, b} /\ \A y \in {a, b} : Min({a, b}) <= y
    BY <1>1, Zenon DEF Min
  <1> QED
    BY <1>2

(* How far is looked for a header of either version. *)
LEMMA LookedAt ==
  ASSUME NEW f \in Files
  PROVE  Min({f.len, Mb2Limit}) \in Int /\ Min({f.len, Mb1Limit}) \in Int
  <1>1. f.len \in Int /\ Mb2Limit \in Int /\ Mb1Limit \in Int
    BY KernelFileConstants
  <1> QED
    BY <1>1, MinOfTwo

(* Multiboot2 is looked for on every eighth byte, and found if it is there. *)
LEMMA ScanMb2 ==
  ASSUME Types, ScanInv, DetectMb2
  PROVE  ScanInv'
  <1> DEFINE m == Min({file.len, Mb2Limit})
  <1>1. /\ pc = "mb2" /\ file' = file /\ file \in Files /\ off \in Nat /\ off % 8 = 0
        /\ kernel.mb_version = 0 /\ NoneBefore(MB2_HEADER_MAGIC, 8, 4)
    BY DEF DetectMb2, Types, ScanInv, Unloaded
  <1>2. m \in Int /\ (HasMb2 <=> \E o \in 0..(m - 16) : HeaderAt(o, MB2_HEADER_MAGIC, 8, 4))
    <2>1. m \in Int
      BY <1>1, LookedAt
    <2> HIDE DEF m
    <2>2. m - 4 * 4 = m - 16
      BY <2>1
    <2>3. HasMb2 <=> \E o \in 0..(m - 4 * 4) : HeaderAt(o, MB2_HEADER_MAGIC, 8, 4)
      BY DEF HasMb2, HasHeader, HeaderAt, m
    <2> QED
      BY <2>1, <2>2, <2>3
  <1>3. /\ HasMb2' = HasMb2 /\ HasMb1' = HasMb1
        /\ \A o : WordAt(o)' = WordAt(o) /\ SumsTo0(o, 4)' = SumsTo0(o, 4)
    BY <1>1 DEF HasMb2, HasMb1, HasHeader, WordAt, SumsTo0
  <1>4. CASE off + 16 > m
    <2>1. pc' = "mb1" /\ off' = 0 /\ kernel' = kernel
      BY <1>4 DEF DetectMb2
    <2>2. ~HasMb2
      <3>1. \A o \in 0..(m - 16) : o \in 0..(off - 1)
        BY <1>1, <1>2, <1>4
      <3> QED
        BY <1>1, <1>2, <3>1, Zenon DEF NoneBefore
    <2> QED
      BY <1>1, <1>3, <2>1, <2>2 DEF ScanInv, NoneBefore, DetectedRight
  <1>5. CASE ~(off + 16 > m) /\ Mb2HeaderHere
    <2>1. pc' = "header" /\ kernel' = [kernel EXCEPT !.mb_version = 2]
      BY <1>5 DEF DetectMb2
    <2>2. kernel'.mb_version = 2
      BY <2>1 DEF Types
    <2>3. HasMb2
      <3>1. off \in 0..(m - 16)
        BY <1>1, <1>2, <1>5
      <3>2. HeaderAt(off, MB2_HEADER_MAGIC, 8, 4)
        BY <1>1, <1>5 DEF HeaderAt, Mb2HeaderHere
      <3> QED
        BY <1>2, <3>1, <3>2
    <2> QED
      BY <1>3, <2>1, <2>2, <2>3 DEF ScanInv, DetectedRight, HasMb2
  <1>6. CASE ~(off + 16 > m) /\ ~Mb2HeaderHere
    <2>1. pc' = "mb2" /\ off' = off + 8 /\ kernel' = kernel
      BY <1>1, <1>6 DEF DetectMb2, Mb2Stride
    <2>2. \A o \in 0..(off' - 1) : ~HeaderAt(o, MB2_HEADER_MAGIC, 8, 4)
      <3> SUFFICES ASSUME NEW o \in 0..(off' - 1), HeaderAt(o, MB2_HEADER_MAGIC, 8, 4)
                   PROVE  FALSE
        OBVIOUS
      <3>1. o % 8 = 0
        BY DEF HeaderAt
      <3>2. o \in 0..(off - 1) \/ o = off
        BY <1>1, <2>1, <3>1
      <3>3. CASE o = off
        BY <1>6, <3>3 DEF HeaderAt, Mb2HeaderHere
      <3> QED
        BY <1>1, <3>2, <3>3 DEF NoneBefore
    <2>3. NoneBefore(MB2_HEADER_MAGIC, 8, 4)'
      BY <1>3, <2>2 DEF NoneBefore, HeaderAt
    <2>4. off' \in Nat /\ off' % 8 = 0
      BY <1>1, <2>1
    <2> QED
      BY <1>1, <2>1, <2>3, <2>4 DEF ScanInv, DetectedRight
  <1> QED
    BY <1>4, <1>5, <1>6

(* Multiboot1 is looked for on every fourth, where there is no Multiboot2.  *)
LEMMA ScanMb1 ==
  ASSUME Types, ScanInv, DetectMb1
  PROVE  ScanInv'
  <1> DEFINE m == Min({file.len, Mb1Limit})
  <1>1. /\ pc = "mb1" /\ file' = file /\ file \in Files /\ off \in Nat /\ off % 4 = 0
        /\ kernel.mb_version = 0 /\ NoneBefore(MB1_HEADER_MAGIC, 4, 3) /\ ~HasMb2
    BY DEF DetectMb1, Types, ScanInv, Unloaded
  <1>2. m \in Int /\ (HasMb1 <=> \E o \in 0..(m - 12) : HeaderAt(o, MB1_HEADER_MAGIC, 4, 3))
    <2>1. m \in Int
      BY <1>1, LookedAt
    <2> HIDE DEF m
    <2>2. m - 4 * 3 = m - 12
      BY <2>1
    <2>3. HasMb1 <=> \E o \in 0..(m - 4 * 3) : HeaderAt(o, MB1_HEADER_MAGIC, 4, 3)
      BY DEF HasMb1, HasHeader, HeaderAt, m
    <2> QED
      BY <2>1, <2>2, <2>3
  <1>3. /\ HasMb2' = HasMb2 /\ HasMb1' = HasMb1
        /\ \A o : WordAt(o)' = WordAt(o) /\ SumsTo0(o, 3)' = SumsTo0(o, 3)
    BY <1>1 DEF HasMb2, HasMb1, HasHeader, WordAt, SumsTo0
  <1>4. CASE off + 12 > m
    <2>1. pc' = "header" /\ kernel' = kernel
      BY <1>4 DEF DetectMb1
    <2>2. ~HasMb1
      <3>1. \A o \in 0..(m - 12) : o \in 0..(off - 1)
        BY <1>1, <1>2, <1>4
      <3> QED
        BY <1>1, <1>2, <3>1, Zenon DEF NoneBefore
    <2> QED
      BY <1>1, <1>3, <2>1, <2>2 DEF ScanInv, DetectedRight, HasMb2, HasMb1
  <1>5. CASE ~(off + 12 > m) /\ Mb1HeaderHere
    <2>1. pc' = "header" /\ kernel' = [kernel EXCEPT !.mb_version = 1]
      BY <1>5 DEF DetectMb1
    <2>2. kernel'.mb_version = 1
      BY <2>1 DEF Types
    <2>3. HasMb1
      <3>1. off \in 0..(m - 12)
        BY <1>1, <1>2, <1>5
      <3>2. HeaderAt(off, MB1_HEADER_MAGIC, 4, 3)
        BY <1>1, <1>5 DEF HeaderAt, Mb1HeaderHere
      <3> QED
        BY <1>2, <3>1, <3>2
    <2> QED
      BY <1>1, <1>3, <2>1, <2>2, <2>3 DEF ScanInv, DetectedRight, HasMb2, HasMb1
  <1>6. CASE ~(off + 12 > m) /\ ~Mb1HeaderHere
    <2>1. pc' = "mb1" /\ off' = off + 4 /\ kernel' = kernel
      BY <1>1, <1>6 DEF DetectMb1
    <2>2. \A o \in 0..(off' - 1) : ~HeaderAt(o, MB1_HEADER_MAGIC, 4, 3)
      <3> SUFFICES ASSUME NEW o \in 0..(off' - 1), HeaderAt(o, MB1_HEADER_MAGIC, 4, 3)
                   PROVE  FALSE
        OBVIOUS
      <3>1. o % 4 = 0
        BY DEF HeaderAt
      <3>2. o \in 0..(off - 1) \/ o = off
        BY <1>1, <2>1, <3>1
      <3>3. CASE o = off
        BY <1>6, <3>3 DEF HeaderAt, Mb1HeaderHere
      <3> QED
        BY <1>1, <3>2, <3>3 DEF NoneBefore
    <2>3. NoneBefore(MB1_HEADER_MAGIC, 4, 3)'
      BY <1>3, <2>2 DEF NoneBefore, HeaderAt
    <2>4. off' \in Nat /\ off' % 4 = 0
      BY <1>1, <2>1
    <2> QED
      BY <1>1, <1>3, <2>1, <2>3, <2>4 DEF ScanInv, DetectedRight
  <1> QED
    BY <1>4, <1>5, <1>6

(* None is overlooked where has been looked, at every step. *)
LEMMA HeadersSearched == Spec => []ScanInv
  <1>1. Init => ScanInv
    BY DEF Init, FileInit, NoKernel, ScanInv, DetectedRight
  <1>2. BootInv /\ ScanInv /\ [Next]_vars => ScanInv'
    <2> SUFFICES ASSUME BootInv, ScanInv, [Next]_vars PROVE ScanInv'
      OBVIOUS
    <2>1. ASSUME pc' \notin {"open", "mb2", "mb1", "header"} PROVE ScanInv'
      BY <2>1 DEF ScanInv, DetectedRight
    <2>2. CASE LoadKernel
      <3>1. CASE DetectMb2
        BY <3>1, ScanMb2 DEF BootInv
      <3>2. CASE DetectMb1
        BY <3>2, ScanMb1 DEF BootInv
      <3>3. CASE ReadKernel
        <4>1. pc' \in {"mb2", "panic"} /\ off' = 0 /\ kernel' = kernel /\ kernel.mb_version = 0
          BY <3>3 DEF ReadKernel, ScanInv
        <4> QED
          BY <4>1 DEF ScanInv, DetectedRight, NoneBefore
      <3>4. CASE KernelUnreadable \/ CheckHeader \/ PlaceSegments \/ SegmentsRefused
        BY <2>1, <3>4 DEF KernelUnreadable, CheckHeader, PlaceSegments, SegmentsRefused
      <3> QED
        BY <2>2, <3>1, <3>2, <3>3, <3>4 DEF LoadKernel, FileNext
    <2>3. CASE Prepare
      BY <2>1, <2>3, PrepareSteps DEF Preparing
    <2>4. CASE BuildFor32 \/ BuildFor64
      BY <2>1, <2>4 DEF BuildFor32, BuildFor64
    <2>5. CASE HandOver
      BY <2>1, <2>5, HandOverSteps DEF Leaving32, Labels
    <2>6. CASE UNCHANGED vars
      BY <2>6 DEF vars, fileVars, ScanInv, DetectedRight, NoneBefore, HeaderAt, HasMb2,
         HasHeader, WordAt, SumsTo0
    <2> QED
      BY <2>2, <2>3, <2>4, <2>5, <2>6 DEF Next, Prepare
  <1> QED
    BY <1>1, <1>2, BootInvAlways, PTL DEF Spec

(* The version a kernel is booted by is that of its header: whatever the    *)
(* file, none is overlooked, none is made up and Multiboot2 comes first.    *)
THEOREM DetectionRight == Spec => []DetectedRight
  <1>1. ScanInv => DetectedRight
    BY DEF ScanInv
  <1> QED
    BY <1>1, HeadersSearched, PTL

-----------------------------------------------------------------------------
(* Booting ends: every step brings it nearer, and it is never without one.  *)

(* The steps still to come on the longest way from a label. *)
Rank(l) ==
  CASE l = "open"       -> 22 [] l = "mb2"       -> 21 [] l = "mb1"       -> 20
    [] l = "header"     -> 19 [] l = "segments"  -> 18 [] l = "modules"   -> 17
    [] l = "ask"        -> 16 [] l = "reserve"   -> 15
    [] l \in {"exit", "exiting"}                 -> 14 [] l = "build"     -> 13
    [] l = "trampoline" -> 12 [] l = "copy"      -> 11 [] l = "slots"     -> 10
    [] l = "gdt"        -> 9  [] l = "far_return" -> 8 [] l = "selectors" -> 7
    [] l = "paging"     -> 6  [] l = "tlb"       -> 5  [] l = "lme"       -> 4
    [] l = "far_jump"   -> 3  [] l = "pm32"      -> 2
    [] l \in {"jump", "handoff"}                 -> 1
    [] l \in Ends                                -> 0

(* What goes round: the attempts to exit boot services that are left; the   *)
(* file behind the place that is searched for a header; and the pages that  *)
(* a module or an event of the firmware can still take.                     *)
Attempts ==
  IF pc = "exit" THEN 2 * (2 - attempts) ELSE IF pc = "exiting" THEN 2 * (2 - attempts) + 1 ELSE 0

Left ==
  IF pc \in {"mb2", "mb1"} THEN IF off < file.len THEN file.len - off ELSE 0
  ELSE IF pc \in {"modules", "exiting"} THEN Cardinality(free) ELSE 0

Distance == <<Rank(pc), Attempts, Left>>

(* The lexicographic order. *)
Closer(r, s) ==
  \/ r[1] < s[1]
  \/ r[1] = s[1] /\ r[2] < s[2]
  \/ r[1] = s[1] /\ r[2] = s[2] /\ r[3] < s[3]

BootAdvances == Distance \in Nat \X Nat \X Nat /\ Closer(Distance', Distance)

(* A page fewer is free. *)
LEMMA FewerFree ==
  ASSUME TypeOK, NEW S \in SUBSET free, S # {}, free' = free \ S
  PROVE  /\ Cardinality(free) \in Nat /\ Cardinality(free') \in Nat
         /\ Cardinality(free') < Cardinality(free)
  <1>1. IsFiniteSet(Pages) /\ free \in SUBSET Pages
    BY KernelFileConstants DEF TypeOK
  <1>2. IsFiniteSet(free)
    BY <1>1, FS_Subset
  <1>3. free' \in SUBSET free /\ free' # free
    OBVIOUS
  <1>4. IsFiniteSet(free') /\ Cardinality(free') <= Cardinality(free)
        /\ Cardinality(free) # Cardinality(free')
    BY <1>2, <1>3, FS_Subset
  <1> QED
    BY <1>2, <1>4, FS_CardinalityType

(* Each part of the distance is a number. *)
LEMMA DistanceNat ==
  ASSUME Types, ScanInv
  PROVE  Rank(pc) \in 0..22 /\ Attempts \in Nat /\ Left \in Nat
  <1>1. TypeOK /\ attempts \in {0, 1, 2}
    BY DEF Types, TypeOK
  <1>2. Rank(pc) \in 0..22
    BY <1>1 DEF TypeOK, Rank, Labels, Ends
  <1>3. Attempts \in Nat
    BY <1>1 DEF Attempts
  <1>4. pc \in {"mb2", "mb1"} => off \in Nat /\ file.len \in Nat
    BY KernelFileConstants DEF ScanInv, Types, Unloaded
  <1>5. Cardinality(free) \in Nat
    <2>1. IsFiniteSet(Pages) /\ free \in SUBSET Pages
      BY <1>1, KernelFileConstants DEF TypeOK
    <2>2. IsFiniteSet(free)
      BY <2>1, FS_Subset
    <2> QED
      BY <2>2, FS_CardinalityType
  <1>6. Left \in Nat
    BY <1>4, <1>5 DEF Left
  <1> QED
    BY <1>2, <1>3, <1>6

(* From label to label the rank falls. *)
LEMMA RankFalls ==
  ASSUME LoadKernel \/ Prepare \/ BuildFor32 \/ BuildFor64 \/ HandOver,
         pc' # pc, {pc, pc'} # {"exit", "exiting"}
  PROVE  Rank(pc') < Rank(pc)
  <1>1. CASE LoadKernel
    <2>1. \/ pc = "open" /\ pc' \in {"panic", "mb2"}
          \/ pc = "mb2" /\ pc' \in {"mb1", "header"}
          \/ pc = "mb1" /\ pc' = "header"
          \/ pc = "header" /\ pc' \in {"segments", "panic"}
          \/ pc = "segments" /\ pc' \in {"modules", "panic"}
      BY <1>1 DEF LoadKernel, FileNext, KernelUnreadable, ReadKernel, DetectMb2, DetectMb1,
                  CheckHeader, PlaceSegments, SegmentsRefused
    <2> QED
      BY <2>1 DEF Rank, Ends
  <1>2. CASE Prepare
    <2>1. \/ pc = "modules" /\ pc' \in {"panic", "ask"}
          \/ pc = "ask" /\ pc' = "reserve"
          \/ pc = "reserve" /\ pc' \in {"exit", "exited"}
          \/ pc = "exiting" /\ pc' \in {"reset", "build"}
      BY <1>2 DEF Prepare, LoadModules, ModulesNext, LoadModule, ModuleUnread, ModulesPanic,
                  ModulesLoaded, AskFirmware, Reserve, NoReserve, TakeMap, FirmwareEvent, StaleKey, Exit
    <2> QED
      BY <2>1 DEF Rank, Ends
  <1>3. CASE BuildFor32 \/ BuildFor64
    <2>1. pc = "build" /\ pc' \in {"trampoline", "handoff"}
      BY <1>3 DEF BuildFor32, BuildFor64
    <2> QED
      BY <2>1 DEF Rank, Ends
  <1>4. CASE HandOver
    <2>1. \/ pc = "trampoline" /\ pc' \in {"copy", "fault"}
          \/ pc = "copy" /\ pc' \in {"slots", "fault"}
          \/ pc = "slots" /\ pc' \in {"gdt", "fault"}
          \/ pc = "gdt" /\ pc' \in {"far_return", "fault"}
          \/ pc = "far_return" /\ pc' \in {"selectors", "fault"}
          \/ pc = "selectors" /\ pc' \in {"paging", "fault"}
          \/ pc = "paging" /\ pc' \in {"tlb", "fault"}
          \/ pc = "tlb" /\ pc' \in {"lme", "fault"}
          \/ pc = "lme" /\ pc' \in {"far_jump", "fault"}
          \/ pc = "far_jump" /\ pc' \in {"pm32", "fault"}
          \/ pc = "pm32" /\ pc' \in {"jump", "fault"}
          \/ pc \in {"jump", "handoff"} /\ pc' \in {"running", "fault"}
      BY <1>4 DEF HandOver, CPU!CpuNext, CPU!SaveArguments, CPU!CopyBlob, CPU!WriteSlots,
         CPU!LoadGdt, CPU!FarReturn, CPU!LoadSegments, CPU!DisablePaging, CPU!FlushTlb,
         CPU!DisableLongMode, CPU!FarJump, CPU!LoadParameters, CPU!JumpToKernel,
         CPU!Handoff64, CPU!GoTo
    <2> QED
      BY <2>1 DEF Rank, Ends
  <1> QED
    BY <1>1, <1>2, <1>3, <1>4

(* A step that stays where it is, or goes round, uses something up. *)
LEMMA RoundsEnd ==
  ASSUME Types, ScanInv, LoadKernel \/ Prepare,
         pc' = pc \/ {pc, pc'} = {"exit", "exiting"}
  PROVE  /\ Rank(pc') = Rank(pc)
         /\ Attempts' < Attempts \/ (Attempts' = Attempts /\ Left' < Left)
  <1>1. Rank(pc') = Rank(pc)
    <2>1. CASE pc' = pc
      BY <2>1
    <2>2. CASE {pc, pc'} = {"exit", "exiting"}
      <3>1. pc \in {"exit", "exiting"} /\ pc' \in {"exit", "exiting"}
        BY <2>2
      <3> QED
        BY <3>1 DEF Rank, Ends
    <2> QED
      BY <2>1, <2>2
  <1>2. TypeOK /\ attempts \in {0, 1, 2}
    BY DEF Types, TypeOK
  <1>3. CASE LoadKernel
    <2>1. CASE DetectMb2
      <3>1. file \in Files /\ file.len \in Nat /\ off \in Nat
        BY <2>1, KernelFileConstants DEF ScanInv, Types, Unloaded, DetectMb2
      <3>2. /\ pc = "mb2" /\ pc' = pc /\ file' = file /\ off' = off + 8
            /\ ~(off + 16 > Min({file.len, Mb2Limit}))
        BY <1>3, <2>1 DEF DetectMb2, Mb2Stride
      <3>3. off + 16 <= file.len
        <4>1. file.len \in Int /\ Mb2Limit \in Int
          BY <3>1, KernelFileConstants
        <4>2. /\ Min({file.len, Mb2Limit}) \in Int
              /\ Min({file.len, Mb2Limit}) <= file.len
          BY <4>1, MinOfTwo
        <4> QED
          BY <3>1, <3>2, <4>2
      <3> QED
        BY <1>1, <3>1, <3>2, <3>3 DEF Attempts, Left
    <2>2. CASE DetectMb1
      <3>1. file \in Files /\ file.len \in Nat /\ off \in Nat
        BY <2>2, KernelFileConstants DEF ScanInv, Types, Unloaded, DetectMb1
      <3>2. /\ pc = "mb1" /\ pc' = pc /\ file' = file /\ off' = off + 4
            /\ ~(off + 12 > Min({file.len, Mb1Limit}))
        BY <1>3, <2>2 DEF DetectMb1
      <3>3. off + 12 <= file.len
        <4>1. file.len \in Int /\ Mb1Limit \in Int
          BY <3>1, KernelFileConstants
        <4>2. /\ Min({file.len, Mb1Limit}) \in Int
              /\ Min({file.len, Mb1Limit}) <= file.len
          BY <4>1, MinOfTwo
        <4> QED
          BY <3>1, <3>2, <4>2
      <3> QED
        BY <1>1, <3>1, <3>2, <3>3 DEF Attempts, Left
    <2>3. ~(KernelUnreadable \/ ReadKernel \/ CheckHeader \/ PlaceSegments \/ SegmentsRefused)
      BY DEF KernelUnreadable, ReadKernel, CheckHeader, PlaceSegments, SegmentsRefused
    <2> QED
      BY <1>3, <2>1, <2>2, <2>3 DEF LoadKernel, FileNext
  <1>4. CASE LoadModules
    <2>0. LoadModule \/ ModuleUnread
      BY <1>4 DEF LoadModules, ModulesNext, ModulesPanic, ModulesLoaded
    <2>1. PICK p \in free, n \in ModuleSizes : Run(p, n) \subseteq free /\ free' = free \ Run(p, n)
      BY <2>0 DEF LoadModule, ModuleUnread, TakeRun
    <2>2. p \in Nat /\ n \in Nat \ {0}
      BY <1>2, <2>1, KernelFileConstants, ModuleLoadingConstants DEF TypeOK
    <2>3. Run(p, n) # {}
      BY <2>2, RunHead
    <2>4. Cardinality(free') < Cardinality(free)
      BY <1>2, <2>1, <2>3, FewerFree
    <2>5. pc = "modules" /\ pc' = pc
      BY <2>0 DEF LoadModule, ModuleUnread
    <2> QED
      BY <1>1, <2>4, <2>5 DEF Attempts, Left
  <1>5. CASE FirmwareEvent
    <2>1. PICK p \in free : free' = free \ {p}
      BY <1>5 DEF FirmwareEvent
    <2>2. Cardinality(free') < Cardinality(free)
      <3>1. {p} \in SUBSET free /\ {p} # {}
        BY <2>1
      <3> QED
        BY <1>2, <2>1, <3>1, FewerFree
    <2>3. pc = "exiting" /\ pc' = pc /\ attempts' = attempts
      BY <1>5 DEF FirmwareEvent
    <2> QED
      BY <1>1, <2>2, <2>3 DEF Attempts, Left
  <1>6. CASE TakeMap
    <2>1. pc = "exit" /\ pc' = "exiting" /\ attempts' = attempts + 1
      BY <1>6 DEF TakeMap
    <2>2. Attempts' < Attempts
      BY <1>2, <2>1 DEF Attempts
    <2> QED
      BY <1>1, <2>2
  <1>7. CASE StaleKey
    <2>1. pc = "exiting" /\ pc' = "exit" /\ attempts' = attempts
      BY <1>7 DEF StaleKey, bootVars
    <2>2. Attempts' < Attempts
      BY <1>2, <2>1 DEF Attempts
    <2> QED
      BY <1>1, <2>2
  <1>8. ~(AskFirmware \/ Reserve \/ NoReserve \/ Exit)
    BY DEF AskFirmware, Reserve, NoReserve, Exit
  <1> QED
    BY <1>3, <1>4, <1>5, <1>6, <1>7, <1>8 DEF Prepare

(* Every step of the boot brings it nearer its end: the searches for a      *)
(* header, the modules, the firmware's events while boot services are being *)
(* exited and the second attempt at that, whatever the files and the        *)
(* firmware do.                                                             *)
THEOREM BootHalts == Spec => [][BootAdvances]_vars
  <1>1. ASSUME Types, ScanInv, Next PROVE BootAdvances
    <2>1. LoadKernel \/ Prepare \/ BuildFor32 \/ BuildFor64 \/ HandOver
      BY <1>1 DEF Next, Prepare
    <2>2. Distance \in Nat \X Nat \X Nat
      BY <1>1, DistanceNat DEF Distance
    <2>3. CASE pc' # pc /\ {pc, pc'} # {"exit", "exiting"}
      BY <2>1, <2>2, <2>3, RankFalls DEF BootAdvances, Closer, Distance
    <2>4. CASE pc' = pc \/ {pc, pc'} = {"exit", "exiting"}
      <3>1. LoadKernel \/ Prepare
        <4>1. ~(BuildFor32 \/ BuildFor64)
          BY <2>4 DEF BuildFor32, BuildFor64
        <4>2. ~HandOver
          BY <2>4 DEF HandOver, CPU!CpuNext, CPU!SaveArguments, CPU!CopyBlob, CPU!WriteSlots,
             CPU!LoadGdt, CPU!FarReturn, CPU!LoadSegments, CPU!DisablePaging, CPU!FlushTlb,
             CPU!DisableLongMode, CPU!FarJump, CPU!LoadParameters, CPU!JumpToKernel,
             CPU!Handoff64, CPU!GoTo
        <4> QED
          BY <2>1, <4>1, <4>2
      <3>2. /\ Rank(pc') = Rank(pc)
            /\ Attempts' < Attempts \/ (Attempts' = Attempts /\ Left' < Left)
        BY <1>1, <2>4, <3>1, RoundsEnd
      <3> QED
        BY <2>2, <3>2 DEF BootAdvances, Closer, Distance
    <2> QED
      BY <2>3, <2>4
  <1>2. BootInv => Types
    BY DEF BootInv
  <1>3. Types /\ ScanInv /\ [Next]_vars => [BootAdvances]_vars
    BY <1>1
  <1> QED
    BY <1>2, <1>3, BootInvAlways, HeadersSearched, PTL DEF Spec

(* Two attempts are enough never to be asked for a third, and a kernel that *)
(* is to be told something is one of the two kinds that can be.             *)
WayOn ==
  /\ pc = "exit" => attempts < 2
  /\ pc = "build" => kernel.boot_mode \in {"Protected32", "Long64"}

(* Every attempt that is begun is allowed. *)
AttemptsLeft ==
  /\ pc \in Unloaded \cup {"modules", "ask", "reserve"} => attempts = 0
  /\ pc = "exit" => attempts < 2

(* exit_boot_services always has something to do, and so has what follows   *)
(* it; elsewhere each label has a step of its own.                          *)
THEOREM NeverStuck == Spec => []WayOn
  <1>1. Init => AttemptsLeft
    BY DEF Init, FileInit, AttemptsLeft
  <1>2. AttemptsLeft /\ [Next]_vars => AttemptsLeft'
    <2> SUFFICES ASSUME AttemptsLeft, [Next]_vars PROVE AttemptsLeft'
      OBVIOUS
    <2>1. CASE LoadKernel
      BY <2>1, FileSteps DEF AttemptsLeft, Unloaded, bootVars
    <2>2. CASE Prepare
      BY <2>2 DEF AttemptsLeft, Unloaded, bootVars, Prepare, LoadModules, ModulesNext,
                  LoadModule, ModuleUnread, ModulesPanic, ModulesLoaded, AskFirmware, Reserve,
                  NoReserve, TakeMap, FirmwareEvent, StaleKey, Exit
    <2>3. CASE BuildFor32 \/ BuildFor64
      BY <2>3 DEF AttemptsLeft, Unloaded, BuildFor32, BuildFor64
    <2>4. CASE HandOver
      BY <2>4, HandOverSteps DEF AttemptsLeft, Unloaded, Leaving32, Labels
    <2>5. CASE UNCHANGED vars
      BY <2>5 DEF AttemptsLeft, vars, fileVars, bootVars
    <2> QED
      BY <2>1, <2>2, <2>3, <2>4, <2>5 DEF Next, Prepare
  <1>3. BootInv /\ AttemptsLeft => WayOn
    BY DEF BootInv, Types, TypeOK, Stages, Preparing, AttemptsLeft, WayOn
  <1> QED
    BY <1>1, <1>2, <1>3, BootInvAlways, PTL DEF Spec

=============================================================================
