-------------------------------- MODULE Boot --------------------------------
(***************************************************************************)
(* From the choice of a Multiboot entry to the kernel's first instruction   *)
(* (src/main.rs from load_kernel on): the kernel is loaded (KernelFile),    *)
(* then its modules (ModuleLoading); the firmware is asked for the          *)
(* framebuffer and the ACPI root pointer (src/gop.rs, find_rsdp), memory is *)
(* reserved for what the kernel is told (reserve), boot services are        *)
(* exited, the information is written, and the processor is handed over     *)
(* (Trampoline).                                                            *)
(*                                                                         *)
(* Addresses are told in pages.  What the information holds is modelled by  *)
(* Mb1Info and Mb2Info; here it is the format its pages are written in.     *)
(***************************************************************************)
EXTENDS ModuleLoading

CONSTANTS
  TrampPage,
  InfoPages     \* INFO_PAGES

ASSUME BootConstants ==
  /\ TrampPage \in Pages /\ TrampPage < Line32 /\ 0 \notin Pages
  /\ InfoPages \in Nat \ {0}

VARIABLES
  fb, rsdp,       \* what the firmware said: red_pos or None, the pointer's length or 0
  info,           \* INFO_AT, 0 before
  map,            \* the memory map: the pages told to be free
  fresh,          \* the map's key is still the firmware's
  attempts,       \* attempts to exit boot services
  cpu, regs, slots

bootVars == <<modules, fb, rsdp, info, map, fresh, attempts>>
vars     == <<fileVars, bootVars, cpu, regs, slots>>

CPU == INSTANCE Trampoline

None == -1
MB1_BOOT_MAGIC == 732803074
MB2_BOOT_MAGIC == 920085129

-----------------------------------------------------------------------------
Init ==
  /\ FileInit
  /\ modules = <<>> /\ fb = None /\ rsdp = 0
  /\ info = 0 /\ map = {} /\ fresh = FALSE /\ attempts = 0
  /\ CPU!CpuInit

LoadKernel == FileNext /\ UNCHANGED <<bootVars, cpu, regs, slots>>

LoadModules ==
  /\ ModulesNext
  /\ UNCHANGED <<fb, rsdp, info, map, fresh, attempts, cpu, regs, slots>>

(* query_gop: None without a display or without a framebuffer; the position *)
(* of red otherwise, a bitmask taken for RGB.                               *)
RedPos(display) ==
  CASE display \in {"none", "BltOnly"} -> None
    [] display = "Bgr" -> 16
    [] OTHER -> 0

(* find_rsdp: the entry of the second revision before that of the first;    *)
(* 36 bytes are read only where the table says it has them.                 *)
RsdpLen(acpi2, acpi1) ==
  LET t == IF acpi2 # "absent" THEN acpi2 ELSE acpi1
  IN  CASE t \in {"absent", "null", "unsigned"} -> 0
        [] t = "second" -> 36
        [] t \in {"first", "second_short"} -> 20

Tables == {"absent", "null", "unsigned", "first", "second", "second_short"}

(* Only a Multiboot2 kernel is told of these. *)
AskFirmware ==
  /\ pc = "ask"
  /\ pc' = "reserve"
  /\ IF kernel.mb_version = 2
       THEN /\ fb' \in {RedPos(d) : d \in {"none", "BltOnly", "Rgb", "Bgr", "Bitmask"}}
            /\ rsdp' \in {RsdpLen(a, b) : a \in Tables, b \in Tables}
       ELSE UNCHANGED <<fb, rsdp>>
  /\ UNCHANGED <<file, off, kernel, free, mem, modules, info, map, fresh, attempts,
                 cpu, regs, slots>>

InfoRunsTaken ==
  {p \in Pages : Run(p, InfoPages) \subseteq Pages /\ Below32(Run(p, InfoPages))}
InfoRunsAnywhere ==
  {p \in free : Run(p, InfoPages) \subseteq free}

(* Where the firmware can reserve the information's pages. *)
InfoRuns ==
  {p \in free : Run(p, InfoPages) \subseteq free /\ Below32(Run(p, InfoPages))}

Reserve ==
  /\ pc = "reserve"
  /\ info' \in InfoRuns
  /\ free' = free \ Run(info', InfoPages)
  /\ pc' = "exit"
  /\ UNCHANGED <<file, off, kernel, mem, modules, fb, rsdp, map, fresh, attempts,
                 cpu, regs, slots>>

(* OUT_OF_RESOURCES *)
NoReserve ==
  /\ pc = "reserve" /\ InfoRuns = {}
  /\ pc' = "exited"
  /\ UNCHANGED <<file, off, kernel, free, mem, bootVars, cpu, regs, slots>>

TakeMapOnce ==
  /\ pc = "exit" /\ attempts < 2
  /\ map' = IF attempts = 0 THEN free ELSE map
  /\ fresh' = TRUE /\ attempts' = attempts + 1 /\ pc' = "exiting"
  /\ UNCHANGED <<file, off, kernel, free, mem, modules, fb, rsdp, info, cpu, regs, slots>>

(* exit_boot_services: the map is read, and boot services exited with its   *)
(* key, twice at most.                                                      *)
TakeMap ==
  /\ pc = "exit" /\ attempts < 2
  /\ map' = free
  /\ fresh' = TRUE /\ attempts' = attempts + 1 /\ pc' = "exiting"
  /\ UNCHANGED <<file, off, kernel, free, mem, modules, fb, rsdp, info, cpu, regs, slots>>

(* An event of the firmware's takes a page in between. *)
FirmwareEvent ==
  /\ pc = "exiting"
  /\ \E p \in free : free' = free \ {p}
  /\ fresh' = FALSE
  /\ UNCHANGED <<pc, file, off, kernel, mem, modules, fb, rsdp, info, map, attempts,
                 cpu, regs, slots>>

StaleKey ==
  /\ pc = "exiting" /\ ~fresh
  /\ pc' = IF attempts < 2 THEN "exit" ELSE "reset"
  /\ UNCHANGED <<file, off, kernel, free, mem, bootVars, cpu, regs, slots>>

Exit ==
  /\ pc = "exiting" /\ fresh
  /\ pc' = "build"
  /\ UNCHANGED <<file, off, kernel, free, mem, bootVars, cpu, regs, slots>>

(* as u32, in pages *)
Low32(a)      == a % Line32

Written(format) ==
  [p \in Pages |-> IF p \in Run(info, InfoPages) THEN format ELSE mem[p]]

(* A kernel without a header takes the else branch and is told in           *)
(* Multiboot2's format.                                                     *)
BuildFor32 ==
  /\ pc = "build" /\ kernel.boot_mode = "Protected32"
  /\ LET mb1 == kernel.mb_version = 1
     IN  /\ mem' = Written(IF mb1 THEN "mb1" ELSE "mb2")
         /\ regs' = [regs EXCEPT !["ecx"] = Low32(kernel.entry_point), !["edx"] = Low32(info),
                                 !["r8"]  = IF mb1 THEN MB1_BOOT_MAGIC ELSE MB2_BOOT_MAGIC]
  /\ pc' = "trampoline"
  /\ UNCHANGED <<file, off, kernel, free, bootVars, cpu, slots>>

(* Information is handed over only to a Multiboot2 kernel, and none is      *)
(* booted this way: mb_version is zero here.                                *)
BuildFor64 ==
  /\ pc = "build" /\ kernel.boot_mode = "Long64"
  /\ mem' = IF kernel.mb_version = 2 THEN Written("mb2") ELSE mem
  /\ regs' = [regs EXCEPT !["ecx"] = kernel.entry_point,
                          !["edx"] = IF kernel.mb_version = 2 THEN Low32(info) ELSE 0]
  /\ pc' = "handoff"
  /\ UNCHANGED <<file, off, kernel, free, bootVars, cpu, slots>>

HandOver == CPU!CpuNext /\ UNCHANGED <<file, off, kernel, free, bootVars>>

Next ==
  \/ LoadKernel \/ LoadModules \/ AskFirmware
  \/ Reserve \/ NoReserve \/ TakeMap \/ FirmwareEvent \/ StaleKey \/ Exit
  \/ BuildFor32 \/ BuildFor64 \/ HandOver

(* Nothing waits: every step of the boot is taken once it can be. *)
Spec == Init /\ [][Next]_vars /\ WF_vars(Next)

-----------------------------------------------------------------------------
Ends   == {"panic", "exited", "reset", "fault", "running"}
Labels == {"trampoline", "copy", "slots", "gdt", "far_return", "selectors", "paging", "tlb",
           "lme", "far_jump", "pm32", "jump", "handoff"}

(* The variables keep their types, and what goes into 32-bit registers is   *)
(* no wider.                                                                *)
TypeOK ==
  /\ pc \in {"open", "mb2", "mb1", "header", "segments", "modules", "ask", "reserve",
             "exit", "exiting", "build"} \cup Labels \cup Ends
  /\ kernel.mb_version \in {0, 1, 2} /\ kernel.boot_mode \in {"none", "Protected32", "Long64"}
  /\ free \subseteq Pages /\ DOMAIN mem = Pages
  /\ \A k \in DOMAIN modules : modules[k] \subseteq Pages
  /\ fb \in {None, 0, 16} /\ rsdp \in {0, 20, 36} /\ map \subseteq Pages /\ attempts \in 0..2
  /\ pc = "trampoline" => regs["ecx"] < Line32 /\ regs["edx"] < Line32

Running(mode) == pc = "running" /\ kernel.boot_mode = mode

(* The processor is never asked for what its mode forbids on the way, and   *)
(* the kernel is entered as it was built to be: at its entry point, where a *)
(* 32-bit jump can reach it, with interrupts off, on a stack; a 32-bit one  *)
(* without paging, a 64-bit one in long mode.  The registers that carry the *)
(* arguments are not lost on the way.                                       *)
EnteredAsBuilt ==
  /\ pc # "fault"
  /\ pc = "running" => /\ ~cpu.interrupts /\ regs["esp"] = CPU!StackTop
                       /\ cpu.lme = cpu.paging
  /\ Running("Protected32") =>
       /\ cpu.code = 32 /\ cpu.data = 32 /\ ~cpu.paging
       /\ kernel.entry_point < Line32 => regs["eip"] = kernel.entry_point
  /\ Running("Long64") =>
       /\ cpu.code = 64 /\ cpu.paging
       /\ regs["eip"] = kernel.entry_point

(* A kernel with a Multiboot header finds, at the address in ebx,           *)
(* information in the format that the magic in eax announces and its header *)
(* asks for, whole unless the trampoline's page was among those it was      *)
(* given; a direct handoff says BANG and points at nothing.  Of a 32-bit    *)
(* kernel without a header nothing is said: the comment on the choice of    *)
(* the boot mode has it get no information, and BuildFor32 tells it in      *)
(* Multiboot2's format, with Multiboot2's magic.                            *)
ToldInItsFormat ==
  /\ Running("Protected32") /\ kernel.mb_version # 0 =>
       /\ regs["eax"] = IF kernel.mb_version = 1 THEN MB1_BOOT_MAGIC ELSE MB2_BOOT_MAGIC
       /\ \A p \in Run(regs["ebx"], InfoPages) \ {TrampPage} :
            p \in Pages /\ mem[p] = IF kernel.mb_version = 1 THEN "mb1" ELSE "mb2"
  /\ Running("Long64") => regs["edi"] = CPU!BANG_HANDOFF_MAGIC /\ regs["esi"] = 0

(* Nothing that was placed for the kernel is disturbed before it runs: its  *)
(* segments, its modules and its information have pages of their own and    *)
(* hold what was put there, but for a page that the trampoline is copied    *)
(* over without asking for it.                                              *)
PlacedIntact ==
  pc = "running" =>
    LET infos   == IF kernel.boot_mode = "Protected32" THEN Run(info, InfoPages) ELSE {}
        mods    == UNION {modules[k] : k \in DOMAIN modules}
        covered == IF kernel.boot_mode = "Protected32" THEN {TrampPage} ELSE {}
    IN  /\ \A p \in kernel.pages \ covered : mem[p] = "kernel"
        /\ \A p \in mods \ covered : mem[p] = "module"
        /\ \A k, l \in DOMAIN modules : k # l => modules[k] \cap modules[l] = {}
        /\ kernel.pages \cap mods = {} /\ (kernel.pages \cup mods) \cap infos = {}
        /\ (kernel.pages \cup mods \cup infos) \cap free = {}

(* The memory map that the kernel is told is that of the moment it takes    *)
(* the machine over: nothing is asked of the firmware after it is read.     *)
MapIsFinal == pc \in {"build", "running"} \cup Labels => map = free

(* Booting comes to an end: the kernel runs, or the firmware or the user    *)
(* has the machine back.                                                    *)
BootEnds == <>(pc \in Ends)

=============================================================================
