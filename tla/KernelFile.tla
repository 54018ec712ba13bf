----------------------------- MODULE KernelFile -----------------------------
(***************************************************************************)
(* load_kernel in src/elf.rs, but for what Elf models: reading the file,    *)
(* looking for a Multiboot header in it, checking the ELF header and        *)
(* choosing the boot mode.  Every assert and expect is a panic.             *)
(*                                                                         *)
(* A file is its length in bytes, its 32-bit words (as remainders of Word), *)
(* and what the ELF header says.  Where the kernel goes is told in pages:   *)
(* placing the segments is what Elf promises, every page or a panic, and    *)
(* the pages it writes over without asking where a segment's end wraps.     *)
(* Whatever of the firmware's or Bang's own is there, the boot goes on as   *)
(* though it were not needed.                                               *)
(***************************************************************************)
EXTENDS Integers, FiniteSets, FiniteSetsExt

CONSTANTS
  Word,              \* 2^32, in which the checksums are added up
  MB1_HEADER_MAGIC,
  MB2_HEADER_MAGIC,
  Mb1Limit,          \* 8192
  Mb2Limit,          \* 32768
  Files,             \* files to consider
  Pages,             \* physical pages
  FreeSets           \* the sets of them the firmware may have free at first

EI_NIDENT   == 16
EhdrSize(c) == IF c = 32 THEN 52 ELSE 64

ASSUME KernelFileConstants ==
  /\ Word \in Nat \ {0} /\ Mb1Limit \in Nat /\ Mb2Limit \in Nat
  /\ MB1_HEADER_MAGIC \in 1..(Word - 1) /\ MB2_HEADER_MAGIC \in 1..(Word - 1)
  /\ Pages \subseteq Nat /\ IsFiniteSet(Pages) /\ FreeSets \subseteq SUBSET Pages
  /\ \A f \in Files :
       /\ f.len \in Nat /\ f.words \in [0..(f.len \div 4 - 1) -> 0..(Word - 1)]
       /\ f.elf \in BOOLEAN /\ f.exec \in BOOLEAN /\ f.class \in {0, 32, 64}
       /\ f.pages \subseteq Pages /\ f.over \subseteq Pages /\ f.entry \in Pages

VARIABLES
  pc,
  file,      \* file_buf
  off,       \* where detect_multiboot_version is looking
  kernel,    \* the KernelInfo, and as history the pages the kernel was given
  free,      \* the pages the firmware has not given out
  mem        \* what each page holds

fileVars == <<pc, file, off, kernel, free, mem>>

NoFile   == [len |-> 0]
NoKernel == [entry_point |-> 0, mb_version |-> 0, boot_mode |-> "none", pages |-> {}]

FileInit ==
  /\ pc = "open"
  /\ file = NoFile /\ off = 0 /\ kernel = NoKernel
  /\ free \in FreeSets
  /\ mem = [p \in Pages |-> "old"]

-----------------------------------------------------------------------------
(* No volume, no file, no memory for it, an error or a short read. *)
KernelUnreadable ==
  /\ pc = "open"
  /\ pc' = "panic"
  /\ UNCHANGED <<file, off, kernel, free, mem>>

ReadKernel ==
  /\ pc = "open"
  /\ file' \in Files
  /\ pc' = IF file'.len >= EI_NIDENT /\ file'.elf THEN "mb2" ELSE "panic"
  /\ UNCHANGED <<off, kernel, free, mem>>

WordAt(o) == file.words[o \div 4]

(* wrapping_add over the magic, the fields and the checksum gives zero. *)
SumsTo0(o, words) ==
  (WordAt(o) + WordAt(o + 4) + WordAt(o + 8) + (IF words = 4 THEN WordAt(o + 12) ELSE 0)) % Word = 0

(* The alignment of a Multiboot2 header. *)
Mb2Stride4 == 4
Mb2Stride  == 8

Mb2HeaderHere == WordAt(off) = MB2_HEADER_MAGIC /\ SumsTo0(off, 4)
Mb1HeaderHere == WordAt(off) = MB1_HEADER_MAGIC /\ SumsTo0(off, 3)

(* detect_multiboot_version, one offset at a time: Multiboot2 first. *)
DetectMb2 ==
  /\ pc = "mb2"
  /\ UNCHANGED <<file, free, mem>>
  /\ IF off + 16 > Min({file.len, Mb2Limit})
       THEN pc' = "mb1" /\ off' = 0 /\ UNCHANGED kernel
     ELSE IF Mb2HeaderHere
       THEN pc' = "header" /\ kernel' = [kernel EXCEPT !.mb_version = 2] /\ UNCHANGED off
     ELSE off' = off + Mb2Stride /\ UNCHANGED <<pc, kernel>>

DetectMb1InPlace ==
  /\ pc = "mb1"
  /\ UNCHANGED <<file, free, mem>>
  /\ IF off + 12 > Min({file.len, Mb1Limit})
       THEN pc' = "header" /\ UNCHANGED <<off, kernel>>
     ELSE IF Mb1HeaderHere
       THEN pc' = "header" /\ kernel' = [kernel EXCEPT !.mb_version = 1] /\ UNCHANGED off
     ELSE UNCHANGED <<off, pc, kernel>>

DetectMb1 ==
  /\ pc = "mb1"
  /\ UNCHANGED <<file, free, mem>>
  /\ IF off + 12 > Min({file.len, Mb1Limit})
       THEN pc' = "header" /\ UNCHANGED <<off, kernel>>
     ELSE IF Mb1HeaderHere
       THEN pc' = "header" /\ kernel' = [kernel EXCEPT !.mb_version = 1] /\ UNCHANGED off
     ELSE off' = off + 4 /\ UNCHANGED <<pc, kernel>>

CheckHeader ==
  /\ pc = "header"
  /\ pc' = IF /\ file.class \in {32, 64} /\ file.len >= EhdrSize(file.class)
              /\ file.exec
             THEN "segments" ELSE "panic"
  /\ UNCHANGED <<file, off, kernel, free, mem>>

(* A 32-bit ELF goes through the trampoline, header or not. *)
BootMode ==
  IF kernel.mb_version = 0 /\ file.class = 64 THEN "Long64" ELSE "Protected32"

(* The segments are in their pages; file_buf is dropped on return. *)
PlaceSegments ==
  /\ pc = "segments" /\ file.pages \subseteq free
  /\ pc' = "modules"
  /\ free' = free \ file.pages
  /\ mem' = [p \in Pages |-> IF p \in file.pages \cup file.over THEN "kernel" ELSE mem[p]]
  /\ kernel' = [kernel EXCEPT !.entry_point = file.entry, !.boot_mode = BootMode,
                              !.pages = file.pages]
  /\ file' = NoFile /\ off' = 0

(* A malformed segment, or a page the firmware will not give. *)
SegmentsRefused ==
  /\ pc = "segments"
  /\ pc' = "panic"
  /\ UNCHANGED <<file, off, kernel, free, mem>>

FileNext ==
  \/ KernelUnreadable \/ ReadKernel \/ DetectMb2 \/ DetectMb1
  \/ CheckHeader \/ PlaceSegments \/ SegmentsRefused

-----------------------------------------------------------------------------
(* A valid header of n words with this magic, aligned, inside the part of   *)
(* the file that is looked at.                                              *)
HasHeader(magic, align, words, limit) ==
  \E o \in 0..(Min({file.len, limit}) - 4 * words) :
    /\ o % align = 0
    /\ WordAt(o) = magic
    /\ SumsTo0(o, words)

(* The version the kernel is booted by is the one its file has: a header is *)
(* found wherever the specification allows it, Multiboot2 is preferred, and *)
(* a magic number without its checksum or off its alignment is no header.   *)
DetectedRight ==
  pc = "header" =>
    kernel.mb_version =
      IF HasHeader(MB2_HEADER_MAGIC, 8, 4, Mb2Limit) THEN 2
      ELSE IF HasHeader(MB1_HEADER_MAGIC, 4, 3, Mb1Limit) THEN 1
      ELSE 0

=============================================================================
