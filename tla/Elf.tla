-------------------------------- MODULE Elf ---------------------------------
(***************************************************************************)
(* Placing a kernel's PT_LOAD segments: load_segment, page_allocated,       *)
(* record_allocation and the program-header loops of load_kernel, in        *)
(* src/elf.rs.  The ELF32 and the ELF64 loop are the same code over         *)
(* different header layouts, and are one loop here.                         *)
(*                                                                         *)
(* Addresses are bytes of an address space of WordSize = PageSize * Pages   *)
(* bytes (2^64 in the code, where PageSize is 4096); a page is named by its *)
(* number.  The release build does not check arithmetic, so a sum that the  *)
(* code does not check wraps.  There is memory at every address, so a write *)
(* that no page was asked for goes through; on a machine it may fault.  The *)
(* file's bytes are named by their offset.                                  *)
(***************************************************************************)
EXTENDS Integers, Sequences

CONSTANTS
  PageSize,     \* 4096
  Pages,        \* 2^52: pages in the address space
  MaxRecords,   \* 32: length of ALLOC_PAGES
  FileLen,      \* file_buf.len()
  Phdrs,        \* program headers to consider
  MaxPhdrs,     \* bound on e_phnum
  FreeSets      \* what the firmware may have free when the kernel is loaded

WordSize == PageSize * Pages
Address  == 0..(WordSize - 1)
Page     == 0..(Pages - 1)

Phdr == [load : BOOLEAN, paddr : Address, memsz : Address, offset : Address, filesz : Address]

ASSUME ElfConstants ==
  /\ PageSize \in Nat \ {0} /\ Pages \in Nat \ {0}
  /\ MaxRecords \in Nat /\ FileLen \in Nat /\ MaxPhdrs \in Nat
  /\ Phdrs \subseteq Phdr
  /\ FreeSets \subseteq SUBSET Page

VARIABLES
  phdrs,      \* the program header table the ELF header describes
  readable,   \* how many of its headers lie inside the file
  i,          \* the header at hand
  pc,         \* "phdr", "alloc", "loaded" or "panic"
  page,       \* load_segment's page
  records,    \* ALLOC_PAGES[0..ALLOC_COUNT]
  free,       \* external: the pages the firmware has to give
  given,      \* history: the pages it has given to this loader
  mem         \* external: what each byte of memory holds

vars == <<phdrs, readable, i, pc, page, records, free, given, mem>>

Junk == -2      \* whatever was there
Zero == -1
Contents == {Junk, Zero} \cup 0..(FileLen - 1)

-----------------------------------------------------------------------------
(* load_segment's refusals.  Its two checked_adds fail at WordSize. *)
Malformed(s) ==
  \/ s.filesz > s.memsz
  \/ s.offset + s.filesz > FileLen
  \/ s.paddr + s.memsz >= WordSize

PageBase(s)   == s.paddr \div PageSize
PageOffset(s) == s.paddr % PageSize
TotalSize(s)  == PageOffset(s) + s.memsz

NumPagesAligned(s) == (s.memsz + PageSize - 1) \div PageSize
NumPages(s) == ((TotalSize(s) + PageSize - 1) % WordSize) \div PageSize
PageEnd(s)  == (PageBase(s) + NumPages(s)) % Pages

(* The bytes a segment is to take. *)
Bytes(s) == s.paddr .. (s.paddr + s.memsz - 1)

(* Some earlier record covers p. *)
PageAllocated(p) ==
  \E k \in DOMAIN records :
    /\ records[k].pages # 0
    /\ records[k].base <= p
    /\ p < (records[k].base + records[k].pages) % Pages

(* A full table is silently not added to. *)
RecordAnyway(base, n) == Append(records, [base |-> base, pages |-> n])
RecordAllocation(base, n) ==
  IF Len(records) < MaxRecords THEN Append(records, [base |-> base, pages |-> n]) ELSE records

(* The run of pages p..(q - 1) that no record covers, as long as it gets    *)
(* before the segment's end.                                                *)
IsRunToEnd(p, q, end) == p < q /\ q = end

IsRun(p, q, end) ==
  /\ p < q /\ q <= end
  /\ \A r \in p..(q - 1) : ~PageAllocated(r)
  /\ q = end \/ PageAllocated(q)

(* What copy_nonoverlapping and write_bytes leave in memory. *)
SegmentByte(s, a) == IF a < s.paddr + s.filesz THEN s.offset + (a - s.paddr) ELSE Zero
AfterCopyNoBss(s) ==
  [a \in Address |-> IF a \in Bytes(s) /\ a < s.paddr + s.filesz THEN SegmentByte(s, a) ELSE mem[a]]
AfterCopy(s) == [a \in Address |-> IF a \in Bytes(s) THEN SegmentByte(s, a) ELSE mem[a]]

(* The extent does not reach into the last page of the address space; where *)
(* it does, rounding it up to a page wraps and PageEnd is 0.                *)
FitsBelowTop(s) == s.paddr + s.memsz + PageSize <= WordSize

-----------------------------------------------------------------------------
Init ==
  /\ phdrs \in UNION {[1..n -> Phdrs] : n \in 0..MaxPhdrs}
  /\ readable \in 0..Len(phdrs)
  /\ i = 1 /\ pc = "phdr" /\ page = 0
  /\ records = <<>>
  /\ free \in FreeSets
  /\ given = {}
  /\ mem = [a \in Address |-> Junk]

(* Past the last header, or past the last one inside the file. *)
Finish ==
  /\ pc = "phdr"
  /\ i > readable
  /\ pc' = "loaded"
  /\ UNCHANGED <<phdrs, readable, i, page, records, free, given, mem>>

SkipHeader ==
  /\ pc = "phdr" /\ i <= readable
  /\ ~phdrs[i].load
  /\ i' = i + 1
  /\ UNCHANGED <<phdrs, readable, pc, page, records, free, given, mem>>

(* load_segment returns false and the assertion on it fails. *)
RefuseSegment ==
  /\ pc = "phdr" /\ i <= readable
  /\ phdrs[i].load /\ Malformed(phdrs[i])
  /\ pc' = "panic"
  /\ UNCHANGED <<phdrs, readable, i, page, records, free, given, mem>>

BeginSegment ==
  /\ pc = "phdr" /\ i <= readable
  /\ phdrs[i].load /\ ~Malformed(phdrs[i])
  /\ pc' = "alloc"
  /\ page' = PageBase(phdrs[i])
  /\ UNCHANGED <<phdrs, readable, i, records, free, given, mem>>

(* One turn of load_segment's loop on a page an earlier segment claimed. *)
Stay(p)      == p
Following(p) == (p + 1) % Pages

SkipPage ==
  /\ pc = "alloc" /\ page < PageEnd(phdrs[i])
  /\ PageAllocated(page)
  /\ page' = Following(page)
  /\ UNCHANGED <<phdrs, readable, i, pc, records, free, given, mem>>

(* One turn on a page none has: AllocatePages(Address) for the whole run,   *)
(* which the firmware grants if every page of it is free.                   *)
AllocateRun ==
  /\ pc = "alloc" /\ page < PageEnd(phdrs[i])
  /\ \E q \in Page :
       /\ IsRun(page, q, PageEnd(phdrs[i]))
       /\ page..(q - 1) \subseteq free
       /\ free' = free \ (page..(q - 1))
       /\ given' = given \cup page..(q - 1)
       /\ records' = RecordAllocation(page, q - page)
       /\ page' = q
  /\ UNCHANGED <<phdrs, readable, i, pc, mem>>

AllocateFails ==
  /\ pc = "alloc" /\ page < PageEnd(phdrs[i])
  /\ \E q \in Page :
       /\ IsRun(page, q, PageEnd(phdrs[i]))
       /\ ~(page..(q - 1) \subseteq free)
  /\ pc' = "panic"
  /\ UNCHANGED <<phdrs, readable, i, page, records, free, given, mem>>

CopySegment ==
  /\ pc = "alloc" /\ page >= PageEnd(phdrs[i])
  /\ mem' = AfterCopy(phdrs[i])
  /\ pc' = "phdr"
  /\ i' = i + 1
  /\ UNCHANGED <<phdrs, readable, page, records, free, given>>

Next ==
  \/ Finish \/ SkipHeader \/ RefuseSegment \/ BeginSegment
  \/ SkipPage \/ AllocateRun \/ AllocateFails \/ CopySegment

Spec == Init /\ [][Next]_vars

(* The loader is one thread and nothing it calls blocks. *)
FairSpec == Spec /\ WF_vars(Next)

-----------------------------------------------------------------------------
(* Every variable keeps its type; the table of records never outgrows its   *)
(* array.                                                                   *)
TypeOK ==
  /\ phdrs \in Seq(Phdrs)
  /\ readable \in 0..Len(phdrs)
  /\ i \in 1..(readable + 1)
  /\ pc \in {"phdr", "alloc", "loaded", "panic"}
  /\ pc = "alloc" => i <= readable
  /\ page \in Page
  /\ records \in Seq([base : Page, pages : Nat])
  /\ Len(records) <= MaxRecords
  /\ free \subseteq Page
  /\ given \subseteq Page
  /\ mem \in [Address -> Contents]

(* The k-th header loads a segment over byte a; v is what the first n       *)
(* headers leave in byte a; the first n segments are in memory.             *)
Loads(k, a) == phdrs[k].load /\ a \in Bytes(phdrs[k])

(* load_segment writes only into pages the firmware has given it, however   *)
(* its segments share pages with earlier ones, but for one thing: a segment *)
(* that passes the checks and whose end, rounded up to a page, wraps to 0   *)
(* (any p_paddr with a large enough p_memsz) is copied without its loop     *)
(* having asked for anything, though load_segment's comment has extents     *)
(* that overflow refused.                                                   *)
WritesOwnedUnlessWrapped ==
  \A a \in Address : mem[a] # Junk =>
    \/ a \div PageSize \in given
    \/ \E k \in 1..readable : ~FitsBelowTop(phdrs[k]) /\ Loads(k, a)

ByteOf(n, a, v) ==
  \/ v = Junk /\ ~\E k \in 1..n : Loads(k, a)
  \/ \E k \in 1..n :
       /\ Loads(k, a) /\ ~\E l \in (k + 1)..n : Loads(l, a)
       /\ v = SegmentByte(phdrs[k], a)

Placed(n) == \A a \in Address : ByteOf(n, a, mem[a])

(* When load_kernel has read the table, memory holds exactly the segments:  *)
(* every byte has what the last segment that covers it put there (its file  *)
(* data, then zeros), a later segment on a shared page spares the earlier   *)
(* one's bytes, and no other byte is touched.                               *)
SegmentsPlaced == pc = "loaded" => Placed(readable)

HasCause ==
  \/ Malformed(phdrs[i])
  \/ ~(PageBase(phdrs[i])..(PageEnd(phdrs[i]) - 1) \subseteq free \cup given)

(* Loading fails only over a header that is malformed or a page that was    *)
(* somebody else's from the start, as long as the table of records has      *)
(* room: a page two segments share is never asked for twice.                *)
FailsOnlyForCause ==
  pc = "panic" /\ Len(records) < MaxRecords => HasCause

(* Loading ends, one way or the other. *)
LoadingEnds == <>(pc \in {"loaded", "panic"})
=============================================================================
