----------------------------- MODULE Trampoline -----------------------------
(***************************************************************************)
(* The last instructions of Bang: the trampoline that takes the processor   *)
(* from long mode to 32-bit protected mode (src/trampoline.rs) and the      *)
(* direct handoff that leaves it in long mode (src/handoff.rs).             *)
(*                                                                         *)
(* An action is a run of instructions between two that depend on the        *)
(* processor's mode.  The processor is modelled by what these instructions  *)
(* need of it: one that is executed in a mode that forbids it faults.       *)
(***************************************************************************)
EXTENDS Integers

CONSTANTS
  TrampPage     \* the page of TRAMP_ADDR, 0x1000

VARIABLES
  pc,
  mem,     \* what each page holds
  cpu,     \* the processor's mode
  regs,    \* the registers, and eip once the kernel runs
  slots    \* the words and the GDT base in the copied blob

cpuVars == <<pc, mem, cpu, regs, slots>>

StackTop == 31744   \* 0x7C00
BANG_HANDOFF_MAGIC == 1111576135

RegNames == {"eax", "ebx", "ecx", "edx", "r8", "r10", "r11", "esp", "edi", "esi", "eip"}

(* The slots as they are assembled. *)
BlankSlots == [entry |-> 0, mbi |-> 0, magic |-> 0, gdt_base |-> "zero"]

(* What the firmware leaves: 64-bit code, paging, interrupts. *)
CpuInit ==
  /\ cpu = [code |-> 64, data |-> 64, gdt |-> "firmware", paging |-> TRUE,
            lme |-> TRUE, interrupts |-> TRUE]
  /\ regs = [r \in RegNames |-> 0]
  /\ slots = BlankSlots

(* Control goes on at label, with these registers changed; a step the mode  *)
(* does not allow faults instead.                                           *)
GoTo(label, allowed) == pc' = IF allowed THEN label ELSE "fault"

-----------------------------------------------------------------------------
(* cli; the arguments are taken out of the way of the copy. *)
SaveArguments ==
  /\ pc = "trampoline"
  /\ GoTo("copy", TRUE)
  /\ cpu' = [cpu EXCEPT !.interrupts = FALSE]
  /\ regs' = [regs EXCEPT !["r10"] = regs["ecx"], !["r11"] = regs["edx"]]
  /\ UNCHANGED <<mem, slots>>

(* rep movsb counts rcx down to zero. *)
CopyBlob ==
  /\ pc = "copy"
  /\ GoTo("slots", TRUE)
  /\ mem' = [mem EXCEPT ![TrampPage] = "trampoline"]
  /\ regs' = [regs EXCEPT !["ecx"] = 0]
  /\ slots' = BlankSlots
  /\ UNCHANGED cpu

WriteSlotsUnsaved ==
  /\ pc = "slots"
  /\ GoTo("gdt", TRUE)
  /\ slots' = [slots EXCEPT !.entry = regs["ecx"], !.mbi = regs["edx"], !.magic = regs["r8"]]
  /\ UNCHANGED <<mem, cpu, regs>>

WriteSlots ==
  /\ pc = "slots"
  /\ GoTo("gdt", TRUE)
  /\ slots' = [slots EXCEPT !.entry = regs["r10"], !.mbi = regs["r11"], !.magic = regs["r8"]]
  /\ UNCHANGED <<mem, cpu, regs>>

LoadGdtUnfixed ==
  /\ pc = "gdt"
  /\ GoTo("far_return", TRUE)
  /\ cpu' = [cpu EXCEPT !.gdt = slots.gdt_base]
  /\ UNCHANGED <<mem, regs, slots>>

(* The base of the GDT in the copy is written, by way of rdx, and loaded. *)
LoadGdt ==
  /\ pc = "gdt"
  /\ GoTo("far_return", TRUE)
  /\ slots' = [slots EXCEPT !.gdt_base = "copy"]
  /\ cpu' = [cpu EXCEPT !.gdt = "copy"]
  /\ regs' = [regs EXCEPT !["edx"] = TrampPage]
  /\ UNCHANGED mem

(* retfq to selector 0x08: 32-bit code, still in long mode. *)
FarReturn ==
  /\ pc = "far_return"
  /\ GoTo("selectors", cpu.gdt = "copy" /\ mem[TrampPage] = "trampoline")
  /\ cpu' = [cpu EXCEPT !.code = 32]
  /\ UNCHANGED <<mem, regs, slots>>

LoadSegments ==
  /\ pc = "selectors"
  /\ GoTo("paging", cpu.gdt = "copy")
  /\ cpu' = [cpu EXCEPT !.data = 32]
  /\ UNCHANGED <<mem, regs, slots>>

(* Paging may be turned off in compatibility mode, not in 64-bit code. *)
DisablePaging ==
  /\ pc = "paging"
  /\ GoTo("tlb", cpu.code = 32)
  /\ cpu' = [cpu EXCEPT !.paging = FALSE]
  /\ regs' = [regs EXCEPT !["eax"] = 1]
  /\ UNCHANGED <<mem, slots>>

(* cr3 is zeroed: no page table is there. *)
FlushTlb ==
  /\ pc = "tlb"
  /\ GoTo("lme", ~cpu.paging)
  /\ regs' = [regs EXCEPT !["eax"] = 0]
  /\ UNCHANGED <<mem, cpu, slots>>

(* EFER.LME may be changed only while paging is off.  rdmsr and wrmsr use   *)
(* eax, ecx and edx.                                                        *)
DisableLongMode ==
  /\ pc = "lme"
  /\ GoTo("far_jump", ~cpu.paging)
  /\ cpu' = [cpu EXCEPT !.lme = FALSE]
  /\ regs' = [regs EXCEPT !["eax"] = 0, !["ecx"] = 0, !["edx"] = 0]
  /\ UNCHANGED <<mem, slots>>

(* PE is set, as it was; the jump is to selector 0x08 again. *)
FarJump ==
  /\ pc = "far_jump"
  /\ GoTo("pm32", cpu.gdt = "copy" /\ mem[TrampPage] = "trampoline")
  /\ regs' = [regs EXCEPT !["eax"] = 1]
  /\ UNCHANGED <<mem, cpu, slots>>

(* The segments again, a stack, and the arguments from their slots. *)
LoadParameters ==
  /\ pc = "pm32"
  /\ GoTo("jump", TRUE)
  /\ cpu' = [cpu EXCEPT !.data = 32]
  /\ regs' = [regs EXCEPT !["esp"] = StackTop, !["eax"] = slots.magic,
                          !["ebx"] = slots.mbi, !["ecx"] = slots.entry]
  /\ UNCHANGED <<mem, slots>>

JumpToKernel ==
  /\ pc = "jump"
  /\ GoTo("running", TRUE)
  /\ regs' = [regs EXCEPT !["eip"] = regs["ecx"]]
  /\ UNCHANGED <<mem, cpu, slots>>

(* boot_handoff_64, whole: rcx and rdx are read where they were passed. *)
Handoff64 ==
  /\ pc = "handoff"
  /\ GoTo("running", cpu.code = 64)
  /\ cpu' = [cpu EXCEPT !.interrupts = FALSE]
  /\ regs' = [regs EXCEPT !["esp"] = StackTop, !["edi"] = BANG_HANDOFF_MAGIC,
                          !["esi"] = regs["edx"], !["eip"] = regs["ecx"]]
  /\ UNCHANGED <<mem, slots>>

CpuNext ==
  \/ SaveArguments \/ CopyBlob \/ WriteSlots \/ LoadGdt \/ FarReturn \/ LoadSegments
  \/ DisablePaging \/ FlushTlb \/ DisableLongMode \/ FarJump \/ LoadParameters
  \/ JumpToKernel \/ Handoff64

=============================================================================
