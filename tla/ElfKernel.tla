----------------------------- MODULE ElfKernel ------------------------------
(***************************************************************************)
(* What load_kernel's placing of the segments (Elf, byte by byte and one    *)
(* allocation at a time) is to the rest of the boot: the one step           *)
(* PlaceSegments of KernelFile, which takes every page of the kernel and    *)
(* fills it, or a panic (src/elf.rs).                                       *)
(***************************************************************************)
EXTENDS Elf

CONSTANTS
  Entry,      \* the page of e_entry
  Class,      \* EI_CLASS: 32 or 64
  Version     \* what detect_multiboot_version returned

Loaded == pc = "loaded"

(* The bytes of page p. *)
BytesOf(p) == p * PageSize .. (p * PageSize + PageSize - 1)

(* The pages of a segment: those of its bytes, from the start of the page   *)
(* it begins in.                                                            *)
PagesOf(s) ==
  {p \in Page : \E a \in BytesOf(p) : a < s.paddr + s.memsz /\ s.paddr \div PageSize <= p}

(* The segments whose headers are in the file; their pages, and those that  *)
(* segments whose end wraps are copied over without asking for any.         *)
Segments == {phdrs[k] : k \in {l \in 1..readable : phdrs[l].load}}

KernelPages == UNION {PagesOf(s) : s \in {t \in Segments : FitsBelowTop(t)}}
OverPages ==
  {p \in Page : \E s \in Segments : ~FitsBelowTop(s) /\ BytesOf(p) \cap Bytes(s) # {}}

(* A page has the kernel once every byte of it is what the last segment     *)
(* over it says; until loading ends nobody looks at memory, and what has    *)
(* been taken is not yet anybody's.                                         *)
HasKernel(p) ==
  p \in given \cup OverPages /\ \A a \in BytesOf(p) : ByteOf(readable, a, mem[a])
PageHolds(p) ==
  CASE Loaded /\ HasKernel(p) -> "kernel"
    [] ~Loaded \/ (p \notin given \cup OverPages /\ \A a \in BytesOf(p) : mem[a] = Junk) -> "old"
    [] OTHER -> "other"

(* The KernelInfo before and after. *)
Mode == IF Version = 0 /\ Class = 64 THEN "Long64" ELSE "Protected32"
Unplaced == [entry_point |-> 0, mb_version |-> Version, boot_mode |-> "none", pages |-> {}]
InPlace == [entry_point |-> Entry, mb_version |-> Version, boot_mode |-> Mode, pages |-> given]

(* The header search is over: its constants stand for nothing here.         *)
KF == INSTANCE KernelFile WITH
  Word <- 2, MB1_HEADER_MAGIC <- 1, MB2_HEADER_MAGIC <- 1, Mb1Limit <- 0, Mb2Limit <- 0,
  Files <- {},
  Pages <- Page,
  pc <- CASE Loaded -> "modules" [] pc = "panic" -> "panic" [] OTHER -> "segments",
  file <- IF Loaded THEN [len |-> 0] ELSE [class |-> Class, entry |-> Entry,
                                         pages |-> KernelPages, over |-> OverPages],
  off <- 0,
  kernel <- IF Loaded THEN InPlace ELSE Unplaced,
  free <- IF Loaded THEN free ELSE free \cup given,
  mem <- [p \in Page |-> PageHolds(p)]

(* Placing the segments is the step PlaceSegments of KernelFile, or its     *)
(* refusal: a kernel that is loaded has been given each page of the         *)
(* segments that do not wrap and not one more, they hold it, and no other   *)
(* page but those a segment that wraps covers has lost anything.            *)
ImplementsPlaceSegments == [][KF!PlaceSegments \/ KF!SegmentsRefused]_(KF!fileVars)
=============================================================================
