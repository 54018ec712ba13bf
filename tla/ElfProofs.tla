----------------------------- MODULE ElfProofs ------------------------------
(***************************************************************************)
(* Placing segments, for a page and an address space of any size, a table   *)
(* of records of any length and any number of program headers.              *)
(***************************************************************************)
EXTENDS ElfKernel, TLAPS, NaturalsInduction, WellFoundedInduction

(* What every state satisfies.  A segment is being placed only once it has  *)
(* passed load_segment's checks, and memory always holds the segments       *)
(* before the header at hand.                                               *)
Checked == pc = "alloc" => phdrs[i].load /\ ~Malformed(phdrs[i])

PlacedSoFar ==
  /\ Placed(i - 1)
  /\ pc = "loaded" => i = readable + 1

PlacingInv == TypeOK /\ Checked /\ PlacedSoFar

(* What holds besides.  Every record is of pages that were given; the       *)
(* segment at hand, unless its end wraps, has been given its pages up to    *)
(* page; and while the table has room its records are all the pages that    *)
(* were given.                                                              *)
RecordsGiven ==
  \A k \in DOMAIN records :
    /\ records[k].base + records[k].pages <= Pages - 1
    /\ records[k].base..(records[k].base + records[k].pages - 1) \subseteq given

SegmentGiven ==
  pc = "alloc" /\ FitsBelowTop(phdrs[i]) =>
    /\ PageBase(phdrs[i]) <= page /\ page <= PageEnd(phdrs[i])
    /\ PageBase(phdrs[i])..(page - 1) \subseteq given

GivenRecorded == Len(records) < MaxRecords => \A p \in given : PageAllocated(p)

OwnershipInv ==
  /\ PlacingInv
  /\ RecordsGiven /\ SegmentGiven /\ GivenRecorded
  /\ WritesOwnedUnlessWrapped /\ FailsOnlyForCause

-----------------------------------------------------------------------------
(* The quotient and the remainder. *)
LEMMA DivBounds ==
  ASSUME NEW a \in Nat, NEW p \in Nat \ {0}
  PROVE  /\ a \div p \in Nat
         /\ a % p \in 0..(p - 1)
         /\ a = p * (a \div p) + (a % p)
         /\ p * (a \div p) <= a
         /\ a < p * (a \div p) + p
  OBVIOUS

(* Below the modulus the remainder is the number itself. *)
LEMMA ModSmall ==
  ASSUME NEW a \in Nat, NEW m \in Nat \ {0}, a < m
  PROVE  a % m = a
  OBVIOUS

(* Multiplying by a size keeps the order. *)
LEMMA MulMono ==
  ASSUME NEW p \in Nat \ {0}, NEW x \in Int, NEW y \in Int
  PROVE  p * x < p * y <=> x < y
  OBVIOUS

(* A number below (not below) n pages is in one of them (in none).          *)
LEMMA DivBelow ==
  ASSUME NEW a \in Nat, NEW p \in Nat \ {0}, NEW n \in Nat
  PROVE  /\ a < p * n => a \div p < n
         /\ p * n <= a => n <= a \div p
  <1>1. a \div p \in Nat /\ p * (a \div p) <= a /\ a < p * (a \div p) + p
    BY DivBounds
  <1>2. ASSUME a < p * n PROVE a \div p < n
    <2>1. p * (a \div p) < p * n
      BY <1>1, <1>2
    <2> QED
      BY <1>1, <2>1, MulMono
  <1>3. ASSUME p * n <= a PROVE n <= a \div p
    <2>1. p * n < p * (a \div p) + p
      BY <1>1, <1>3
    <2>2. p * (a \div p) + p = p * ((a \div p) + 1)
      BY <1>1
    <2>3. n < (a \div p) + 1
      BY <1>1, <2>1, <2>2, MulMono
    <2> QED
      BY <1>1, <2>3
  <1> QED
    BY <1>2, <1>3

(* The size of the address space is a positive natural number.            *)
LEMMA WordFacts ==
  /\ PageSize \in Nat \ {0} /\ Pages \in Nat \ {0}
  /\ WordSize \in Nat \ {0} /\ WordSize = PageSize * Pages
  BY ElfConstants DEF WordSize

(* The fields of a header are addresses, hence natural numbers.           *)
LEMMA PhdrFacts ==
  ASSUME NEW s \in Phdrs
  PROVE  /\ s.paddr \in Nat /\ s.memsz \in Nat /\ s.offset \in Nat /\ s.filesz \in Nat
         /\ s.load \in BOOLEAN /\ s.paddr < WordSize
  <1>1. s \in Phdr
    BY ElfConstants
  <1>2. s.paddr \in Address /\ s.memsz \in Address /\ s.offset \in Address
        /\ s.filesz \in Address /\ s.load \in BOOLEAN
    BY <1>1 DEF Phdr
  <1> QED
    BY <1>2, WordFacts DEF Address

(* A segment that stays clear of the last page ends in the page before      *)
(* PageEnd: rounding up does not wrap.                                      *)
LEMMA SegmentEnd ==
  ASSUME NEW s \in Phdrs, FitsBelowTop(s)
  PROVE  /\ PageBase(s) \in Nat /\ PageEnd(s) \in Nat
         /\ PageBase(s) <= PageEnd(s) /\ PageEnd(s) <= Pages - 1
         /\ PageSize * PageBase(s) \in Nat /\ PageSize * PageBase(s) <= s.paddr
         /\ PageSize * PageEnd(s) \in Nat
         /\ s.paddr + s.memsz <= PageSize * PageEnd(s)
         /\ PageSize * PageEnd(s) < s.paddr + s.memsz + PageSize
  <1> DEFINE P == PageSize
             b == PageBase(s)
             o == PageOffset(s)
             t == TotalSize(s)
             n == (t + P - 1) \div P
  <1>1. P \in Nat \ {0} /\ Pages \in Nat \ {0} /\ WordSize = P * Pages /\ WordSize \in Nat \ {0}
    BY WordFacts
  <1>2. s.paddr \in Nat /\ s.memsz \in Nat
    BY PhdrFacts
  <1>3. b \in Nat /\ o \in 0..(P - 1) /\ s.paddr = P * b + o
    BY <1>1, <1>2, DivBounds DEF PageBase, PageOffset
  <1>4. t \in Nat /\ t = o + s.memsz /\ P * b + t = s.paddr + s.memsz
    BY <1>1, <1>2, <1>3 DEF TotalSize
  <1>5. P * b \in Nat
    BY <1>1, <1>3
  <1>6. P * b + t + P <= WordSize
    BY <1>4 DEF FitsBelowTop
  <1>7. t + P - 1 \in Nat /\ t + P - 1 < WordSize
    BY <1>1, <1>4, <1>5, <1>6
  <1>8. (t + P - 1) % WordSize = t + P - 1
    BY <1>1, <1>7, ModSmall
  <1>9. NumPages(s) = n
    BY <1>8 DEF NumPages
  <1>10. n \in Nat /\ P * n <= t + P - 1 /\ t + P - 1 < P * n + P
    BY <1>1, <1>7, DivBounds
  <1>11. P * n \in Nat /\ t <= P * n
    <2>1. P * n \in Nat
      BY <1>1, <1>10
    <2> QED
      BY <1>1, <1>4, <1>10, <2>1
  <1>12. P * (b + n) = P * b + P * n /\ P * (b + n) < P * Pages
    <2>1. P * n \in Nat /\ P * (b + n) = P * b + P * n
      BY <1>1, <1>3, <1>10
    <2> QED
      BY <1>1, <1>4, <1>5, <1>6, <1>10, <2>1
  <1>13. b + n \in Nat /\ b + n < Pages
    BY <1>1, <1>3, <1>10, <1>12, MulMono
  <1>14. PageEnd(s) = b + n
    <2>1. (b + n) % Pages = b + n
      BY <1>1, <1>13, ModSmall
    <2> QED
      BY <1>9, <2>1 DEF PageEnd
  <1>15. P * b + P * n \in Nat /\ P * b + t <= P * b + P * n /\ P * b + P * n < P * b + t + P
    <2> HIDE DEF b, n, t
    <2> QED
      BY <1>1, <1>4, <1>5, <1>10, <1>11
  <1>16. P * b <= s.paddr /\ b <= b + n /\ b + n <= Pages - 1
    BY <1>1, <1>3, <1>5, <1>10, <1>13
  <1> HIDE DEF P, b, o, t, n
  <1> QED
    BY <1>3, <1>4, <1>5, <1>12, <1>13, <1>14, <1>15, <1>16 DEF P, b

(* It has exactly the pages from PageBase to PageEnd, and every byte of it  *)
(* is in one of them.                                                       *)
LEMMA SegmentPages ==
  ASSUME NEW s \in Phdrs, FitsBelowTop(s)
  PROVE  /\ PageBase(s) \in Nat /\ PageEnd(s) \in Nat
         /\ PageBase(s) <= PageEnd(s) /\ PageEnd(s) <= Pages - 1
         /\ \A a \in Bytes(s) : a \div PageSize \in PageBase(s)..(PageEnd(s) - 1)
  <1> DEFINE P == PageSize
             b == PageBase(s)
             e == PageEnd(s)
  <1>1. P \in Nat \ {0} /\ s.paddr \in Nat /\ s.memsz \in Nat
    BY WordFacts, PhdrFacts
  <1>2. /\ b \in Nat /\ e \in Nat /\ b <= e /\ e <= Pages - 1
        /\ P * b \in Nat /\ P * b <= s.paddr /\ P * e \in Nat /\ s.paddr + s.memsz <= P * e
    BY SegmentEnd
  <1>3. ASSUME NEW a \in Bytes(s)
        PROVE  a \div P \in b..(e - 1)
    <2> HIDE DEF b, e, P
    <2>1. a \in Nat /\ P * b <= a /\ a < P * e
      BY <1>1, <1>2 DEF Bytes
    <2>2. b <= a \div P /\ a \div P < e
      BY <1>1, <1>2, <2>1, DivBelow
    <2>3. a \div P \in Nat
      BY <1>1, <2>1, DivBounds
    <2> QED
      BY <1>2, <2>2, <2>3
  <1> QED
    BY <1>2, <1>3

(* Where a segment reaches into the last page, rounding its end up wraps,   *)
(* in NumPages or in PageEnd, and its loop ends where it begins.            *)
LEMMA WrappedEnd ==
  ASSUME NEW s \in Phdrs, ~FitsBelowTop(s), ~Malformed(s)
  PROVE  PageEnd(s) = 0
  <1> DEFINE P == PageSize
             b == PageBase(s)
             o == PageOffset(s)
             t == TotalSize(s)
             n == (t + P - 1) \div P
  <1>1. P \in Nat \ {0} /\ Pages \in Nat \ {0} /\ WordSize = P * Pages /\ WordSize \in Nat \ {0}
    BY WordFacts
  <1>2. s.paddr \in Nat /\ s.memsz \in Nat
    BY PhdrFacts
  <1>3. b \in Nat /\ o \in 0..(P - 1) /\ s.paddr = P * b + o /\ P * b \in Nat
    <2>1. b \in Nat /\ o \in 0..(P - 1) /\ s.paddr = P * b + o
      BY <1>1, <1>2, DivBounds DEF PageBase, PageOffset
    <2> QED
      BY <1>1, <2>1
  <1>4. t \in Nat /\ P * b + t = s.paddr + s.memsz
    BY <1>1, <1>2, <1>3 DEF TotalSize
  <1>5. P * b + t < WordSize /\ WordSize < P * b + t + P
    BY <1>1, <1>2, <1>4 DEF FitsBelowTop, Malformed
  <1> HIDE DEF b, o, t
  <1>6. CASE t + P - 1 < WordSize
    <2>1. t + P - 1 \in Nat /\ (t + P - 1) % WordSize = t + P - 1
      <3>1. t + P - 1 \in Nat
        BY <1>1, <1>4
      <3> QED
        BY <1>1, <1>6, <3>1, ModSmall
    <2>2. NumPages(s) = n
      BY <2>1 DEF NumPages, t
    <2>3. n \in Nat /\ P * n <= t + P - 1 /\ t + P - 1 < P * n + P /\ P * n \in Nat
      <3>1. n \in Nat /\ P * n <= t + P - 1 /\ t + P - 1 < P * n + P
        BY <1>1, <2>1, DivBounds
      <3> HIDE DEF n
      <3> QED
        BY <1>1, <3>1
    <2> HIDE DEF n
    <2>4. /\ P * (b + n) = P * b + P * n
          /\ P * (Pages - 1) = WordSize - P /\ P * (Pages + 1) = WordSize + P
      BY <1>1, <1>3, <2>3
    <2>5. P * (Pages - 1) < P * (b + n) /\ P * (b + n) < P * (Pages + 1)
      BY <1>1, <1>3, <1>4, <1>5, <2>3, <2>4
    <2>6. Pages - 1 < b + n /\ b + n < Pages + 1
      BY <1>1, <1>3, <2>3, <2>5, MulMono
    <2>7. b + n = Pages /\ Pages % Pages = 0
      BY <1>1, <1>3, <2>3, <2>6
    <2> QED
      BY <2>2, <2>7 DEF PageEnd, b
  <1>7. CASE WordSize <= t + P - 1
    <2>1. P * b < P * 1
      BY <1>1, <1>3, <1>4, <1>5, <1>7
    <2>2. b = 0
      BY <1>1, <1>3, <2>1, MulMono
    <2> DEFINE w == t + P - 1 - WordSize
    <2>3. w \in Nat /\ w < P /\ w < WordSize
      <3>1. w \in Nat /\ w < P - 1
        BY <1>1, <1>3, <1>4, <1>5, <1>7
      <3>2. P * 1 <= P * Pages
        BY <1>1, MulMono
      <3> QED
        BY <1>1, <3>1, <3>2
    <2>4. (t + P - 1) % WordSize = w
      <3>1. t + P - 1 = w + WordSize
        BY <1>1, <1>4
      <3> HIDE DEF w
      <3>2. (w + WordSize) % WordSize = w
        BY <1>1, <2>3
      <3> QED
        BY <3>1, <3>2
    <2> HIDE DEF w
    <2>5. w \div P = 0
      BY <1>1, <2>3, DivBounds, DivBelow
    <2>6. NumPages(s) = 0
      BY <2>4, <2>5 DEF NumPages, t
    <2>7. 0 % Pages = 0
      BY <1>1, ModSmall
    <2> QED
      BY <2>2, <2>6, <2>7 DEF PageEnd, b
  <1> QED
    BY <1>1, <1>4, <1>6, <1>7

-----------------------------------------------------------------------------
(* Types and placement, for any headers. *)
LEMMA PlacingInit == Init => PlacingInv
  <1> SUFFICES ASSUME Init PROVE PlacingInv
    OBVIOUS
  <1>1. phdrs \in Seq(Phdrs)
    <2>1. PICK n \in 0..MaxPhdrs : phdrs \in [1..n -> Phdrs]
      BY DEF Init
    <2>2. n \in Nat
      BY ElfConstants
    <2> QED
      BY <2>1, <2>2
  <1>2. Len(phdrs) \in Nat /\ readable \in 0..Len(phdrs)
    BY <1>1 DEF Init
  <1>3. 0 \in Page /\ free \subseteq Page
    BY ElfConstants DEF Init, Page
  <1>4. records \in Seq([base : Page, pages : Nat]) /\ Len(records) <= MaxRecords
    BY ElfConstants DEF Init
  <1>5. mem \in [Address -> Contents]
    BY DEF Init, Contents
  <1>6. TypeOK
    BY <1>1, <1>2, <1>3, <1>4, <1>5 DEF Init, TypeOK
  <1>7. PlacedSoFar
    BY DEF Init, PlacedSoFar, Placed, ByteOf
  <1> QED
    BY <1>6, <1>7 DEF PlacingInv, Checked, Init

(* The header at hand leaves a byte it does not load as it was. *)
LEMMA ByteKept ==
  ASSUME NEW n \in Nat, NEW a, NEW v, ByteOf(n, a, v), ~Loads(n + 1, a)
  PROVE  ByteOf(n + 1, a, v)
  <1>1. CASE v = Junk /\ ~\E k \in 1..n : Loads(k, a)
    <2>1. ~\E k \in 1..(n + 1) : Loads(k, a)
      BY <1>1
    <2> QED
      BY <1>1, <2>1 DEF ByteOf
  <1>2. CASE \E k \in 1..n : /\ Loads(k, a) /\ ~\E l \in (k + 1)..n : Loads(l, a)
                            /\ v = SegmentByte(phdrs[k], a)
    <2>1. PICK k \in 1..n : /\ Loads(k, a) /\ ~\E l \in (k + 1)..n : Loads(l, a)
                            /\ v = SegmentByte(phdrs[k], a)
      BY <1>2
    <2>2. ~\E l \in (k + 1)..(n + 1) : Loads(l, a)
      BY <2>1
    <2>3. k \in 1..(n + 1)
      OBVIOUS
    <2> QED
      BY <2>1, <2>2, <2>3 DEF ByteOf
  <1> QED
    BY <1>1, <1>2 DEF ByteOf

(* The header at hand, while there is one. *)
LEMMA HeaderAtHand ==
  ASSUME TypeOK, i <= readable
  PROVE  i \in 1..Len(phdrs) /\ phdrs[i] \in Phdrs /\ i - 1 \in Nat /\ i + 1 \in 1..(readable + 1)
  BY DEF TypeOK

(* record_allocation keeps the table a table, and within its array.       *)
LEMMA RecordsType ==
  ASSUME TypeOK, NEW q \in Page, page < q
  PROVE  /\ RecordAllocation(page, q - page) \in Seq([base : Page, pages : Nat])
         /\ Len(RecordAllocation(page, q - page)) <= MaxRecords
  <1>1. [base |-> page, pages |-> q - page] \in [base : Page, pages : Nat]
    BY WordFacts DEF TypeOK, Page
  <1>2. records \in Seq([base : Page, pages : Nat]) /\ Len(records) <= MaxRecords
    BY DEF TypeOK
  <1>3. MaxRecords \in Nat
    BY ElfConstants
  <1> DEFINE R == [base : Page, pages : Nat]
             r == [base |-> page, pages |-> q - page]
  <1>4. Append(records, r) \in Seq(R) /\ Len(Append(records, r)) = Len(records) + 1
    <2> HIDE DEF R, r
    <2> QED
      BY <1>1, <1>2 DEF R, r
  <1>5. CASE Len(records) < MaxRecords
    <2>1. Len(records) + 1 <= MaxRecords
      BY <1>2, <1>3, <1>5
    <2> QED
      BY <1>4, <1>5, <2>1 DEF RecordAllocation
  <1>6. CASE ~(Len(records) < MaxRecords)
    BY <1>2, <1>6 DEF RecordAllocation
  <1> QED
    BY <1>5, <1>6

(* Copying a segment leaves every byte of memory with a value it may have. *)
LEMMA CopyType ==
  ASSUME TypeOK, NEW s \in Phdrs, ~Malformed(s)
  PROVE  AfterCopy(s) \in [Address -> Contents]
  <1> SUFFICES ASSUME NEW a \in Address, a \in Bytes(s), a < s.paddr + s.filesz
               PROVE  s.offset + (a - s.paddr) \in Contents
    BY DEF AfterCopy, SegmentByte, Contents, TypeOK
  <1>1. s.paddr \in Nat /\ s.memsz \in Nat /\ s.offset \in Nat /\ s.filesz \in Nat
    BY PhdrFacts
  <1>2. s.offset + s.filesz <= FileLen /\ FileLen \in Nat
    BY <1>1, ElfConstants DEF Malformed
  <1>3. a \in Nat /\ s.paddr <= a
    BY <1>1 DEF Bytes
  <1> QED
    BY <1>1, <1>2, <1>3 DEF Contents

(* Every step of load_kernel keeps PlacingInv.                            *)
LEMMA PlacingStep == PlacingInv /\ [Next]_vars => PlacingInv'
  <1> SUFFICES ASSUME PlacingInv, [Next]_vars PROVE PlacingInv'
    OBVIOUS
  <1>0. TypeOK /\ Checked /\ Placed(i - 1) /\ (pc = "loaded" => i = readable + 1)
    BY DEF PlacingInv, PlacedSoFar
  <1>1. CASE Finish
    <2>1. TypeOK' /\ i = readable + 1
      BY <1>0, <1>1 DEF Finish, TypeOK
    <2> QED
      BY <1>0, <1>1, <2>1 DEF Finish, PlacingInv, Checked, PlacedSoFar, Placed, ByteOf, Loads
  <1>2. CASE SkipHeader
    <2>1. i \in 1..Len(phdrs) /\ i - 1 \in Nat /\ i + 1 \in 1..(readable + 1)
      BY <1>0, <1>2, HeaderAtHand DEF SkipHeader
    <2>2. TypeOK'
      BY <1>0, <1>2, <2>1 DEF SkipHeader, TypeOK
    <2>3. ASSUME NEW a \in Address PROVE ByteOf((i - 1) + 1, a, mem[a])
      BY <1>0, <1>2, <2>1, ByteKept DEF SkipHeader, Placed, Loads
    <2>4. (i - 1) + 1 = i' - 1
      BY <1>2, <2>1 DEF SkipHeader
    <2>5. Placed(i - 1)'
      BY <1>2, <2>3, <2>4 DEF SkipHeader, Placed, ByteOf, Loads
    <2> QED
      BY <1>2, <2>2, <2>5 DEF SkipHeader, PlacingInv, Checked, PlacedSoFar
  <1>3. CASE RefuseSegment
    <2>1. TypeOK'
      BY <1>0, <1>3 DEF RefuseSegment, TypeOK
    <2> QED
      BY <1>0, <1>3, <2>1 DEF RefuseSegment, PlacingInv, Checked, PlacedSoFar, Placed, ByteOf, Loads
  <1>4. CASE BeginSegment
    <2>1. phdrs[i] \in Phdrs
      BY <1>0, <1>4, HeaderAtHand DEF BeginSegment
    <2>2. PageBase(phdrs[i]) \in Page
      <3>1. phdrs[i].paddr \in Nat /\ phdrs[i].paddr < PageSize * Pages
        BY <2>1, WordFacts, PhdrFacts
      <3>2. PageBase(phdrs[i]) \in Nat /\ PageBase(phdrs[i]) < Pages
        BY <3>1, WordFacts, DivBounds, DivBelow DEF PageBase
      <3> QED
        BY <3>2, WordFacts DEF Page
    <2>3. TypeOK'
      BY <1>0, <1>4, <2>2 DEF BeginSegment, TypeOK
    <2>4. Checked'
      BY <1>4 DEF BeginSegment, Checked, Malformed
    <2> QED
      BY <1>0, <1>4, <2>3, <2>4 DEF BeginSegment, PlacingInv, PlacedSoFar, Placed, ByteOf, Loads
  <1>5. CASE SkipPage
    <2>1. Following(page) \in Page
      BY <1>0, WordFacts DEF Following, Page, TypeOK
    <2>2. TypeOK'
      BY <1>0, <1>5, <2>1 DEF SkipPage, TypeOK
    <2>3. Checked'
      BY <1>0, <1>5 DEF SkipPage, Checked, Malformed
    <2> QED
      BY <1>0, <1>5, <2>2, <2>3 DEF SkipPage, PlacingInv, PlacedSoFar, Placed, ByteOf, Loads
  <1>6. CASE AllocateRun
    <2>1. PICK q \in Page :
            /\ IsRun(page, q, PageEnd(phdrs[i])) /\ page..(q - 1) \subseteq free
            /\ free' = free \ (page..(q - 1)) /\ given' = given \cup page..(q - 1)
            /\ records' = RecordAllocation(page, q - page) /\ page' = q
      BY <1>6 DEF AllocateRun
    <2>2. page < q
      BY <2>1 DEF IsRun
    <2>3. records' \in Seq([base : Page, pages : Nat]) /\ Len(records') <= MaxRecords
      BY <1>0, <2>1, <2>2, RecordsType
    <2>4. free' \subseteq Page /\ given' \subseteq Page
      BY <1>0, <2>1 DEF TypeOK
    <2>5. TypeOK'
      BY <1>0, <1>6, <2>1, <2>3, <2>4 DEF AllocateRun, TypeOK
    <2>6. Checked'
      BY <1>0, <1>6 DEF AllocateRun, Checked, Malformed
    <2> QED
      BY <1>0, <1>6, <2>5, <2>6 DEF AllocateRun, PlacingInv, PlacedSoFar, Placed, ByteOf, Loads
  <1>7. CASE AllocateFails
    <2>1. TypeOK'
      BY <1>0, <1>7 DEF AllocateFails, TypeOK
    <2> QED
      BY <1>0, <1>7, <2>1 DEF AllocateFails, PlacingInv, Checked, PlacedSoFar, Placed, ByteOf, Loads
  <1>8. CASE CopySegment
    <2>1. /\ i \in 1..Len(phdrs) /\ phdrs[i] \in Phdrs /\ i - 1 \in Nat
          /\ i + 1 \in 1..(readable + 1)
      BY <1>0, <1>8, HeaderAtHand DEF CopySegment, TypeOK
    <2>2. phdrs[i].load /\ ~Malformed(phdrs[i])
      BY <1>0, <1>8 DEF CopySegment, Checked
    <2>3. mem' \in [Address -> Contents]
      BY <1>0, <1>8, <2>1, <2>2, CopyType DEF CopySegment
    <2>4. TypeOK'
      BY <1>0, <1>8, <2>1, <2>3 DEF CopySegment, TypeOK
    <2>5. ASSUME NEW a \in Address PROVE ByteOf(i, a, mem'[a])
      <3>1. CASE a \in Bytes(phdrs[i])
        <4>1. mem'[a] = SegmentByte(phdrs[i], a) /\ Loads(i, a)
          BY <1>8, <2>2, <3>1 DEF CopySegment, AfterCopy, Loads
        <4>2. i \in 1..i /\ ~\E l \in (i + 1)..i : Loads(l, a)
          BY <2>1
        <4> QED
          BY <4>1, <4>2 DEF ByteOf
      <3>2. CASE a \notin Bytes(phdrs[i])
        <4>1. mem'[a] = mem[a] /\ (i - 1) + 1 = i
          BY <1>8, <2>1, <3>2 DEF CopySegment, AfterCopy
        <4>2. ~Loads((i - 1) + 1, a)
          BY <3>2, <4>1 DEF Loads
        <4>3. ByteOf((i - 1) + 1, a, mem[a])
          BY <1>0, <2>1, <4>2, ByteKept DEF Placed
        <4> QED
          BY <4>1, <4>3
      <3> QED
        BY <3>1, <3>2
    <2>6. i' - 1 = i
      BY <1>8, <2>1 DEF CopySegment
    <2>7. Placed(i - 1)'
      BY <1>8, <2>5, <2>6 DEF CopySegment, Placed, ByteOf, Loads
    <2> QED
      BY <1>8, <2>4, <2>7 DEF CopySegment, PlacingInv, Checked, PlacedSoFar
  <1>9. CASE UNCHANGED vars
    BY <1>0, <1>9 DEF vars, PlacingInv, TypeOK, Checked, Malformed, PlacedSoFar, Placed, ByteOf, Loads
  <1> QED
    BY <1>1, <1>2, <1>3, <1>4, <1>5, <1>6, <1>7, <1>8, <1>9 DEF Next

(* At every step, memory holds exactly the segments load_kernel has copied. *)
THEOREM PlacingInvariance == Spec => []PlacingInv
  BY PlacingInit, PlacingStep, PTL DEF Spec

(* Every variable of the loader keeps its type: the table of records never  *)
(* outgrows its array, and only bytes of the file and zeros are written.    *)
THEOREM TypeCorrect == Spec => []TypeOK
  <1>1. PlacingInv => TypeOK
    BY DEF PlacingInv
  <1> QED
    BY PlacingInvariance, <1>1, PTL

(* Whatever the headers, a kernel reported as loaded has in memory what its *)
(* readable headers ask for, and nothing else was touched.                  *)
THEOREM PlacementCorrect == Spec => []SegmentsPlaced
  <1>1. PlacingInv => SegmentsPlaced
    <2> SUFFICES ASSUME PlacingInv, pc = "loaded" PROVE Placed(readable)
      BY DEF SegmentsPlaced
    <2>1. Placed(i - 1) /\ i = readable + 1 /\ readable \in Nat
      BY DEF PlacingInv, PlacedSoFar, TypeOK
    <2>2. i - 1 = readable
      BY <2>1
    <2> QED
      BY <2>1, <2>2
  <1> QED
    BY PlacingInvariance, <1>1, PTL

-----------------------------------------------------------------------------
(* Ownership. *)
LEMMA OwnershipInit == Init => OwnershipInv
  <1> SUFFICES ASSUME Init PROVE OwnershipInv
    OBVIOUS
  <1>1. PlacingInv
    BY PlacingInit
  <1>2. WritesOwnedUnlessWrapped
    BY DEF Init, WritesOwnedUnlessWrapped
  <1> QED
    BY <1>1, <1>2 DEF Init, OwnershipInv, RecordsGiven, SegmentGiven, GivenRecorded, FailsOnlyForCause

(* A record's base and its length are natural numbers.                     *)
LEMMA RecordFacts ==
  ASSUME TypeOK, NEW k \in DOMAIN records
  PROVE  records[k].base \in Nat /\ records[k].pages \in Nat
  <1> DEFINE R == [base : Page, pages : Nat]
  <1>1. records \in Seq(R)
    BY DEF TypeOK
  <1>2. records[k] \in R
    <2> HIDE DEF R
    <2>1. DOMAIN records = 1..Len(records)
      BY <1>1
    <2> QED
      BY <1>1, <2>1
  <1>3. records[k].base \in Page /\ records[k].pages \in Nat
    BY <1>2
  <1> QED
    BY <1>3, WordFacts DEF Page

(* A record's range does not wrap, so a page it covers was given. *)
LEMMA AllocatedIsGiven ==
  ASSUME TypeOK, RecordsGiven, NEW p \in Page, PageAllocated(p)
  PROVE  p \in given
  <1>1. PICK k \in DOMAIN records :
          /\ records[k].pages # 0 /\ records[k].base <= p
          /\ p < (records[k].base + records[k].pages) % Pages
    BY DEF PageAllocated
  <1>2. records[k].base \in Nat /\ records[k].pages \in Nat /\ p \in Nat /\ Pages \in Nat \ {0}
    BY WordFacts, RecordFacts DEF Page
  <1>3. /\ records[k].base + records[k].pages <= Pages - 1
        /\ records[k].base..(records[k].base + records[k].pages - 1) \subseteq given
    BY DEF RecordsGiven
  <1> DEFINE e == records[k].base + records[k].pages
  <1>4. e % Pages = e
    <2>1. e \in Nat /\ e < Pages
      BY <1>2, <1>3
    <2> HIDE DEF e
    <2> QED
      BY <1>2, <2>1, ModSmall
  <1> QED
    BY <1>1, <1>2, <1>3, <1>4

(* load_segment's loop makes a turn only for a segment that does not wrap.  *)
LEMMA LoopFits ==
  ASSUME PlacingInv, pc = "alloc", page < PageEnd(phdrs[i])
  PROVE  FitsBelowTop(phdrs[i])
  <1>1. phdrs[i] \in Phdrs /\ ~Malformed(phdrs[i]) /\ page \in Nat
    BY HeaderAtHand DEF PlacingInv, TypeOK, Checked, Page
  <1>2. PageEnd(phdrs[i]) # 0
    BY <1>1
  <1> QED
    BY <1>1, <1>2, WrappedEnd

(* What was written stays accounted for while nothing is written.           *)
LEMMA WritesKept ==
  ASSUME WritesOwnedUnlessWrapped, UNCHANGED <<phdrs, readable, mem>>, given \subseteq given'
  PROVE  WritesOwnedUnlessWrapped'
  <1>1. \A a \in Address, k \in 1..readable :
          ~FitsBelowTop(phdrs[k]) /\ Loads(k, a) => (~FitsBelowTop(phdrs[k]) /\ Loads(k, a))'
    BY DEF FitsBelowTop, Loads, Bytes
  <1> QED
    BY <1>1 DEF WritesOwnedUnlessWrapped

(* A step that neither allocates nor writes, and does not fail. *)
LEMMA NothingTaken ==
  ASSUME OwnershipInv, PlacingInv', pc' \in {"phdr", "loaded"},
         UNCHANGED <<phdrs, readable, records, given, mem>>
  PROVE  OwnershipInv'
  BY WritesKept
     DEF OwnershipInv, RecordsGiven, SegmentGiven, GivenRecorded, PageAllocated, FailsOnlyForCause

(* A step that fails, with cause unless the table is full. *)
LEMMA FailsWithCause ==
  ASSUME OwnershipInv, PlacingInv', pc' = "panic",
         UNCHANGED <<phdrs, readable, i, records, free, given, mem>>,
         Len(records) < MaxRecords => HasCause
  PROVE  OwnershipInv'
  <1>1. FailsOnlyForCause'
    BY DEF FailsOnlyForCause, HasCause, Malformed
  <1> QED
    BY <1>1, WritesKept DEF OwnershipInv, RecordsGiven, SegmentGiven, GivenRecorded, PageAllocated

(* Turning to a segment keeps OwnershipInv: none of its pages is passed yet. *)
LEMMA OwnershipBegin ==
  ASSUME OwnershipInv, PlacingInv', BeginSegment
  PROVE  OwnershipInv'
  <1>1. phdrs[i] \in Phdrs
    BY HeaderAtHand DEF BeginSegment, OwnershipInv, PlacingInv
  <1>2. FitsBelowTop(phdrs[i]) =>
          PageBase(phdrs[i]) \in Nat /\ PageBase(phdrs[i]) <= PageEnd(phdrs[i])
    BY <1>1, SegmentPages
  <1>3. SegmentGiven'
    BY <1>2 DEF BeginSegment, SegmentGiven, FitsBelowTop, PageBase, PageEnd
  <1> QED
    BY <1>3, WritesKept DEF BeginSegment, OwnershipInv, RecordsGiven, GivenRecorded,
                            PageAllocated, FailsOnlyForCause

(* Passing a page some record covers keeps OwnershipInv: it was given.    *)
LEMMA OwnershipSkip ==
  ASSUME OwnershipInv, PlacingInv', SkipPage
  PROVE  OwnershipInv'
  <1>1. phdrs[i] \in Phdrs /\ page \in Page /\ TypeOK /\ FitsBelowTop(phdrs[i])
    BY HeaderAtHand, LoopFits DEF SkipPage, OwnershipInv, PlacingInv, TypeOK
  <1>2. /\ PageBase(phdrs[i]) \in Nat /\ PageEnd(phdrs[i]) \in Nat
        /\ PageEnd(phdrs[i]) <= Pages - 1
    BY <1>1, SegmentPages
  <1>3. page \in Nat /\ page < PageEnd(phdrs[i]) /\ PageBase(phdrs[i]) <= page
    BY <1>1, WordFacts DEF SkipPage, OwnershipInv, SegmentGiven, Page
  <1>4. page' = page + 1
    <2>1. (page + 1) % Pages = page + 1
      BY <1>2, <1>3, WordFacts, ModSmall
    <2> QED
      BY <2>1 DEF SkipPage, Following
  <1>5. page \in given
    BY <1>1, AllocatedIsGiven DEF SkipPage, OwnershipInv
  <1>6. PageBase(phdrs[i])..(page - 1) \subseteq given
    BY <1>1 DEF SkipPage, OwnershipInv, SegmentGiven
  <1>7. PageBase(phdrs[i])..(page' - 1) \subseteq given
    BY <1>2, <1>3, <1>4, <1>5, <1>6
  <1>8. SegmentGiven'
    BY <1>2, <1>3, <1>4, <1>7 DEF SkipPage, SegmentGiven
  <1> QED
    BY <1>8, WritesKept DEF SkipPage, OwnershipInv, RecordsGiven, GivenRecorded,
                            PageAllocated, FailsOnlyForCause

(* The copy keeps OwnershipInv: every page of the segment has been passed,  *)
(* unless its end wraps.                                                    *)
LEMMA OwnershipCopy ==
  ASSUME OwnershipInv, PlacingInv', CopySegment
  PROVE  OwnershipInv'
  <1>1. /\ phdrs[i] \in Phdrs /\ page \in Page /\ TypeOK
        /\ i \in 1..readable /\ phdrs[i].load
    BY HeaderAtHand DEF CopySegment, OwnershipInv, PlacingInv, TypeOK, Checked
  <1>2. ASSUME FitsBelowTop(phdrs[i])
        PROVE  \A a \in Bytes(phdrs[i]) : a \div PageSize \in given
    <2>1. /\ PageEnd(phdrs[i]) \in Nat
          /\ \A a \in Bytes(phdrs[i]) : a \div PageSize \in PageBase(phdrs[i])..(PageEnd(phdrs[i]) - 1)
      BY <1>1, <1>2, SegmentPages
    <2>2. page = PageEnd(phdrs[i])
      BY <1>1, <1>2, <2>1, WordFacts DEF CopySegment, OwnershipInv, SegmentGiven, Page
    <2> QED
      BY <1>2, <2>1, <2>2 DEF CopySegment, OwnershipInv, SegmentGiven
  <1>3. WritesOwnedUnlessWrapped'
    <2> SUFFICES ASSUME NEW a \in Address, mem'[a] # Junk
                 PROVE  \/ a \div PageSize \in given
                        \/ \E k \in 1..readable : ~FitsBelowTop(phdrs[k]) /\ Loads(k, a)
      BY DEF CopySegment, WritesOwnedUnlessWrapped, FitsBelowTop, Loads, Bytes
    <2>1. CASE a \in Bytes(phdrs[i])
      BY <1>1, <1>2, <2>1 DEF Loads
    <2>2. CASE a \notin Bytes(phdrs[i])
      BY <2>2 DEF CopySegment, AfterCopy, OwnershipInv, WritesOwnedUnlessWrapped
    <2> QED
      BY <2>1, <2>2
  <1> QED
    BY <1>3 DEF CopySegment, OwnershipInv, RecordsGiven, SegmentGiven, GivenRecorded,
                PageAllocated, FailsOnlyForCause

(* A granted run keeps OwnershipInv: its pages are given and recorded.    *)
LEMMA OwnershipAllocate ==
  ASSUME OwnershipInv, PlacingInv', AllocateRun
  PROVE  OwnershipInv'
  <1>1. /\ phdrs[i] \in Phdrs /\ page \in Page /\ TypeOK /\ pc = "alloc"
        /\ FitsBelowTop(phdrs[i])
    BY HeaderAtHand, LoopFits DEF AllocateRun, OwnershipInv, PlacingInv, TypeOK
  <1>2. PICK q \in Page :
          /\ IsRun(page, q, PageEnd(phdrs[i]))
          /\ given' = given \cup page..(q - 1)
          /\ records' = RecordAllocation(page, q - page) /\ page' = q
    BY DEF AllocateRun
  <1>3. /\ PageBase(phdrs[i]) \in Nat /\ PageEnd(phdrs[i]) \in Nat
        /\ PageEnd(phdrs[i]) <= Pages - 1 /\ Pages \in Nat \ {0}
    BY <1>1, SegmentPages, WordFacts
  <1>4. /\ page \in Nat /\ q \in Nat /\ page < q /\ q <= PageEnd(phdrs[i])
        /\ PageBase(phdrs[i]) <= page
    BY <1>1, <1>2, <1>3 DEF IsRun, OwnershipInv, SegmentGiven, Page
  <1>5. SegmentGiven'
    <2>1. PageBase(phdrs[i])..(page - 1) \subseteq given
      BY <1>1 DEF OwnershipInv, SegmentGiven
    <2>2. PageBase(phdrs[i])..(q - 1) \subseteq given'
      BY <1>2, <1>3, <1>4, <2>1
    <2> QED
      BY <1>2, <1>3, <1>4, <2>2 DEF AllocateRun, SegmentGiven, PageBase, PageEnd
  <1> DEFINE r == [base |-> page, pages |-> q - page]
             n == Len(records)
  <1>6. n \in Nat /\ DOMAIN records = 1..n /\ MaxRecords \in Nat
    BY <1>1, ElfConstants DEF TypeOK
  <1>7. \/ ~(n < MaxRecords) /\ records' = records
        \/ n < MaxRecords /\ records' = Append(records, r)
    BY <1>2 DEF RecordAllocation
  <1>8. n < MaxRecords =>
          /\ Len(records') = n + 1 /\ DOMAIN records' = 1..(n + 1)
          /\ records'[n + 1] = r /\ \A k \in 1..n : records'[k] = records[k]
    <2> HIDE DEF r
    <2>1. records \in Seq([base : Page, pages : Nat])
      BY <1>1 DEF TypeOK
    <2> QED
      BY <1>6, <1>7, <2>1
  <1>9. r.base = page /\ r.pages = q - page /\ r.base + r.pages = q
    BY <1>4
  <1>10. RecordsGiven'
    <2> SUFFICES ASSUME NEW k \in DOMAIN records'
                 PROVE  /\ records'[k].base + records'[k].pages <= Pages - 1
                        /\ records'[k].base..(records'[k].base + records'[k].pages - 1) \subseteq given'
      BY DEF RecordsGiven
    <2>1. CASE k \in DOMAIN records /\ records'[k] = records[k]
      BY <1>2, <2>1 DEF OwnershipInv, RecordsGiven
    <2>2. CASE records'[k] = r
      BY <1>2, <1>3, <1>4, <1>9, <2>2
    <2> QED
      <3> HIDE DEF r
      <3> QED
        BY <1>6, <1>7, <1>8, <2>1, <2>2
  <1>11. GivenRecorded'
    <2> SUFFICES ASSUME Len(records') < MaxRecords, NEW p \in given'
                 PROVE  PageAllocated(p)'
      BY DEF GivenRecorded
    <2>1. n < MaxRecords
      BY <1>6, <1>7
    <2>2. CASE p \in given
      <3>1. PICK k \in 1..n :
              /\ records[k].pages # 0 /\ records[k].base <= p
              /\ p < (records[k].base + records[k].pages) % Pages
        BY <1>6, <2>1, <2>2 DEF OwnershipInv, GivenRecorded, PageAllocated
      <3>2. k \in DOMAIN records' /\ records'[k] = records[k]
        BY <1>6, <1>8, <2>1
      <3> QED
        BY <3>1, <3>2 DEF PageAllocated
    <2>3. CASE p \in page..(q - 1)
      <3>1. q % Pages = q
        BY <1>3, <1>4, ModSmall
      <3>2. r.pages # 0 /\ r.base <= p /\ p < (r.base + r.pages) % Pages
        BY <1>4, <1>9, <2>3, <3>1
      <3>3. n + 1 \in DOMAIN records' /\ records'[n + 1] = r
        BY <1>6, <1>8, <2>1
      <3> QED
        BY <3>2, <3>3 DEF PageAllocated
    <2> QED
      BY <1>2, <2>2, <2>3
  <1>12. WritesOwnedUnlessWrapped'
    BY <1>2, WritesKept DEF AllocateRun, OwnershipInv
  <1>13. FailsOnlyForCause'
    BY <1>1 DEF AllocateRun, FailsOnlyForCause
  <1> QED
    BY <1>5, <1>10, <1>11, <1>12, <1>13 DEF OwnershipInv

(* A refused run keeps OwnershipInv: a page of it was never free or ours.  *)
LEMMA OwnershipFail ==
  ASSUME OwnershipInv, PlacingInv', AllocateFails
  PROVE  OwnershipInv'
  <1>1. /\ phdrs[i] \in Phdrs /\ page \in Page /\ TypeOK /\ pc = "alloc"
        /\ FitsBelowTop(phdrs[i])
    BY HeaderAtHand, LoopFits DEF AllocateFails, OwnershipInv, PlacingInv, TypeOK
  <1>2. PICK q \in Page : IsRun(page, q, PageEnd(phdrs[i])) /\ ~(page..(q - 1) \subseteq free)
    BY DEF AllocateFails
  <1>3. PICK p \in page..(q - 1) : p \notin free
    BY <1>2
  <1>4. PageBase(phdrs[i]) \in Nat /\ PageEnd(phdrs[i]) \in Nat
    BY <1>1, SegmentPages
  <1>5. p \in PageBase(phdrs[i])..(PageEnd(phdrs[i]) - 1) /\ ~PageAllocated(p)
    BY <1>1, <1>2, <1>3, <1>4, WordFacts DEF IsRun, OwnershipInv, SegmentGiven, Page
  <1>6. ASSUME Len(records) < MaxRecords PROVE HasCause
    <2>1. p \notin given
      BY <1>5, <1>6 DEF OwnershipInv, GivenRecorded
    <2> QED
      BY <1>3, <1>5, <2>1 DEF HasCause
  <1> QED
    BY <1>6, FailsWithCause DEF AllocateFails

(* Every step of load_kernel keeps OwnershipInv.                          *)
LEMMA OwnershipStep == OwnershipInv /\ [Next]_vars => OwnershipInv'
  <1> SUFFICES ASSUME OwnershipInv, [Next]_vars PROVE OwnershipInv'
    OBVIOUS
  <1>0. PlacingInv'
    BY PlacingStep DEF OwnershipInv
  <1>1. CASE Finish
    BY <1>0, <1>1, NothingTaken DEF Finish
  <1>2. CASE SkipHeader
    BY <1>0, <1>2, NothingTaken DEF SkipHeader, OwnershipInv
  <1>3. CASE RefuseSegment
    <2>1. HasCause
      BY <1>3 DEF RefuseSegment, HasCause
    <2> QED
      BY <1>0, <1>3, <2>1, FailsWithCause DEF RefuseSegment
  <1>4. CASE BeginSegment
    BY <1>0, <1>4, OwnershipBegin
  <1>5. CASE SkipPage
    BY <1>0, <1>5, OwnershipSkip
  <1>6. CASE AllocateRun
    BY <1>0, <1>6, OwnershipAllocate
  <1>7. CASE AllocateFails
    BY <1>0, <1>7, OwnershipFail
  <1>8. CASE CopySegment
    BY <1>0, <1>8, OwnershipCopy
  <1>9. CASE UNCHANGED vars
    BY <1>0, <1>9, WritesKept DEF vars, OwnershipInv, RecordsGiven, SegmentGiven, GivenRecorded,
                                  PageAllocated, FailsOnlyForCause, HasCause, Malformed
  <1> QED
    BY <1>1, <1>2, <1>3, <1>4, <1>5, <1>6, <1>7, <1>8, <1>9 DEF Next

(* Whatever the headers, memory that the firmware did not give is written   *)
(* only for a segment whose end wraps, full table or not.                   *)
THEOREM WritesAreOwned == Spec => []WritesOwnedUnlessWrapped
  <1>1. OwnershipInv => WritesOwnedUnlessWrapped
    BY DEF OwnershipInv
  <1> QED
    BY OwnershipInit, OwnershipStep, <1>1, PTL DEF Spec

(* Loading fails only over a malformed header or a page that never was      *)
(* free, for as long as the table of records has room.                      *)
THEOREM FailuresHaveCause == Spec => []FailsOnlyForCause
  <1>1. OwnershipInv => FailsOnlyForCause
    BY DEF OwnershipInv
  <1> QED
    BY OwnershipInit, OwnershipStep, <1>1, PTL DEF Spec

-----------------------------------------------------------------------------
(* Loading ends: every step brings it nearer, and it is never without one.  *)

(* How far loading is from its end: the headers to come, how far it is with *)
(* the one at hand, the pages to come.                                      *)
Distance ==
  <<readable + 1 - i,
    CASE pc = "phdr" -> 2 [] pc = "alloc" -> 1 [] pc \in {"loaded", "panic"} -> 0,
    IF pc = "alloc" /\ page < PageEnd(phdrs[i]) THEN PageEnd(phdrs[i]) - page ELSE 0>>

(* The lexicographic order. *)
Closer(r, s) == \E n \in 1..3 : r[n] < s[n] /\ \A m \in 1..(n - 1) : r[m] = s[m]

LoadAdvances == Distance \in Nat \X Nat \X Nat /\ Closer(Distance', Distance)

(* On a page no record covers, load_segment's inner loop finds a run.       *)
RunExists ==
  pc = "alloc" /\ page < PageEnd(phdrs[i]) /\ ~PageAllocated(page) =>
    \E q \in Page : IsRun(page, q, PageEnd(phdrs[i]))

(* A set of natural numbers that has a member has a least one.              *)
LEMMA LeastOf ==
  ASSUME NEW T \in SUBSET Nat, T # {}
  PROVE  \E x \in T : \A y \in T : x <= y
  <1>1. PICK x \in T : \A y \in T : ~(<<y, x>> \in OpToRel(<, Nat))
    BY WFMin, NatLessThanWellFounded
  <1>2. \A y \in T : ~(y < x)
    BY <1>1, Zenon DEF OpToRel
  <1> QED
    BY <1>2

(* Where a segment ends is a page, whatever its header says.                *)
LEMMA PageEndIsPage ==
  ASSUME NEW s \in Phdrs
  PROVE  PageEnd(s) \in Page
  <1>1. s.paddr \in Nat /\ s.memsz \in Nat /\ PageSize \in Nat \ {0}
        /\ Pages \in Nat \ {0} /\ WordSize \in Nat \ {0}
    BY PhdrFacts, WordFacts
  <1>2. PageBase(s) \in Nat /\ PageOffset(s) \in Nat
    BY <1>1, DivBounds DEF PageBase, PageOffset
  <1>3. TotalSize(s) + PageSize - 1 \in Nat
    BY <1>1, <1>2 DEF TotalSize
  <1>4. (TotalSize(s) + PageSize - 1) % WordSize \in Nat
    BY <1>1, <1>3, DivBounds
  <1>5. NumPages(s) \in Nat
    BY <1>1, <1>4, DivBounds DEF NumPages
  <1>6. PageBase(s) + NumPages(s) \in Nat
    BY <1>2, <1>5
  <1> QED
    BY <1>1, <1>6, DivBounds DEF PageEnd, Page

(* Every turn of load_segment's loop has something to allocate or to skip:  *)
(* from a page that is nobody's it always finds where the run ends.         *)
THEOREM RunFound == Spec => []RunExists
  <1>1. PlacingInv => RunExists
    <2> SUFFICES ASSUME PlacingInv, pc = "alloc", page < PageEnd(phdrs[i]), ~PageAllocated(page)
                 PROVE  \E q \in Page : IsRun(page, q, PageEnd(phdrs[i]))
      BY DEF RunExists
    <2> DEFINE end == PageEnd(phdrs[i])
               T == {q \in (page + 1)..end : q = end \/ PageAllocated(q)}
    <2>1. phdrs[i] \in Phdrs /\ page \in Page
      BY HeaderAtHand DEF PlacingInv, TypeOK
    <2>2. end \in Page
      BY <2>1, PageEndIsPage
    <2>3. page \in Nat /\ end \in Nat /\ page < end /\ \A q \in 0..end : q \in Page
      BY <2>1, <2>2, WordFacts DEF Page
    <2> HIDE DEF end
    <2>4. T \in SUBSET Nat /\ end \in T
      BY <2>3
    <2>5. PICK q \in T : \A r \in T : q <= r
      BY <2>4, LeastOf
    <2>6. q \in Page /\ page < q /\ q <= end /\ (q = end \/ PageAllocated(q))
      BY <2>3, <2>5
    <2>7. ASSUME NEW r \in page..(q - 1) PROVE ~PageAllocated(r)
      <3>1. r \in Nat /\ r < q /\ q <= end /\ page <= r
        BY <2>3, <2>6
      <3>2. r \notin T
        BY <2>5, <3>1
      <3>3. r # page => r \in (page + 1)..end
        BY <2>3, <3>1
      <3> QED
        BY <3>2, <3>3
    <2> QED
      BY <2>6, <2>7 DEF IsRun, end
  <1> QED
    BY PlacingInvariance, <1>1, PTL

(* Every step brings loading nearer its end, whatever the headers say: no   *)
(* page is looked at twice for one segment, and the last page of the        *)
(* address space is not passed.                                             *)
THEOREM LoadingHalts == Spec => [][LoadAdvances]_vars
  <1>1. ASSUME PlacingInv, PlacingInv', Next PROVE LoadAdvances
    <2> DEFINE d == Distance
               e == Distance'
               end == PageEnd(phdrs[i])
    <2>1. /\ readable \in Nat /\ i \in 1..(readable + 1) /\ readable' = readable /\ phdrs' = phdrs
          /\ pc \in {"phdr", "alloc", "loaded", "panic"} /\ page \in Nat
          /\ i' \in 1..(readable + 1) /\ page' \in Nat
      BY <1>1 DEF PlacingInv, TypeOK, Page, Next, Finish, SkipHeader, RefuseSegment, BeginSegment,
                  SkipPage, AllocateRun, AllocateFails, CopySegment
    <2>2. pc = "alloc" => end \in Page /\ end \in Nat
      BY <1>1, HeaderAtHand, PageEndIsPage DEF PlacingInv, TypeOK, Page
    <2>3. /\ d[1] = readable + 1 - i /\ e[1] = readable' + 1 - i'
          /\ d[2] = (CASE pc = "phdr" -> 2 [] pc = "alloc" -> 1 [] pc \in {"loaded", "panic"} -> 0)
          /\ e[2] = (CASE pc' = "phdr" -> 2 [] pc' = "alloc" -> 1
                       [] pc' \in {"loaded", "panic"} -> 0)
          /\ d[3] = (IF pc = "alloc" /\ page < end THEN end - page ELSE 0)
          /\ e[3] = (IF pc' = "alloc" /\ page' < end' THEN end' - page' ELSE 0)
      BY DEF Distance
    <2>4. d \in Nat \X Nat \X Nat
      <3>1. readable + 1 - i \in Nat
        BY <2>1
      <3>2. (IF pc = "alloc" /\ page < end THEN end - page ELSE 0) \in Nat
        BY <2>1, <2>2
      <3> QED
        BY <2>1, <3>1, <3>2 DEF Distance
    <2>5. i' = i => end' = end
      BY <2>1 DEF PageEnd, PageBase, NumPages, TotalSize, PageOffset
    <2> HIDE DEF d, e, end
    <2> SUFFICES Closer(e, d)
      BY <2>4 DEF LoadAdvances, d, e
    <2>6. ASSUME i' = i + 1 PROVE Closer(e, d)
      <3>1. e[1] < d[1]
        BY <2>1, <2>3, <2>6
      <3>2. 1 \in 1..3 /\ 1..(1 - 1) = {}
        OBVIOUS
      <3> QED
        BY <3>1, <3>2 DEF Closer
    <2>7. ASSUME i' = i, e[2] < d[2] PROVE Closer(e, d)
      <3>1. e[1] = d[1]
        BY <2>1, <2>3, <2>7
      <3>2. 2 \in 1..3 /\ \A m \in 1..(2 - 1) : m = 1
        OBVIOUS
      <3> QED
        BY <2>7, <3>1, <3>2 DEF Closer
    <2>8. ASSUME i' = i, pc = "alloc", pc' = pc, page < end, page' > page, page' <= end
          PROVE  Closer(e, d)
      <3>1. e[1] = d[1] /\ e[2] = d[2]
        BY <2>1, <2>3, <2>8
      <3>2. e[3] < d[3]
        BY <2>1, <2>2, <2>3, <2>5, <2>8
      <3>3. 3 \in 1..3 /\ \A m \in 1..(3 - 1) : m \in {1, 2}
        OBVIOUS
      <3> QED
        BY <3>1, <3>2, <3>3 DEF Closer
    <2>9. CASE Finish \/ RefuseSegment \/ BeginSegment \/ AllocateFails
      <3>1. /\ i' = i
            /\ \/ pc = "phdr" /\ pc' \in {"loaded", "panic", "alloc"}
               \/ pc = "alloc" /\ pc' = "panic"
        BY <2>9 DEF Finish, RefuseSegment, BeginSegment, AllocateFails
      <3>2. e[2] < d[2]
        BY <2>3, <3>1
      <3> QED
        BY <2>7, <3>1, <3>2
    <2>10. CASE SkipHeader \/ CopySegment
      BY <2>6, <2>10 DEF SkipHeader, CopySegment
    <2>11. CASE SkipPage
      <3>1. /\ pc = "alloc" /\ pc' = pc /\ i' = i /\ page < end /\ page' = (page + 1) % Pages
        BY <2>11 DEF SkipPage, Following, end
      <3>2. page + 1 < Pages /\ Pages \in Nat \ {0}
        BY <2>1, <2>2, <3>1, WordFacts DEF Page
      <3>3. page' = page + 1
        BY <2>1, <3>1, <3>2, ModSmall
      <3> QED
        BY <2>1, <2>2, <2>8, <3>1, <3>3
    <2>12. CASE AllocateRun
      <3>1. /\ pc = "alloc" /\ pc' = pc /\ i' = i /\ page < end
            /\ page < page' /\ page' <= end
        BY <2>12 DEF AllocateRun, IsRun, end
      <3> QED
        BY <2>1, <2>8, <3>1
    <2> QED
      BY <1>1, <2>9, <2>10, <2>11, <2>12 DEF Next
  <1>2. PlacingInv /\ PlacingInv' /\ [Next]_vars => [LoadAdvances]_vars
    BY <1>1
  <1> QED
    BY PlacingInvariance, <1>2, PTL DEF Spec

-----------------------------------------------------------------------------
(* Placing the segments is one step of KernelFile. *)

(* Pages are given only to a segment of the kernel, each segment that is    *)
(* done with has been given all of its own unless its end wraps, and nobody *)
(* else has them.                                                           *)
HasPages(k) ==
  phdrs[k].load /\ FitsBelowTop(phdrs[k]) => PagesOf(phdrs[k]) \subseteq given

TakingInv ==
  /\ given \subseteq KernelPages
  /\ free \cap given = {}
  /\ \A k \in 1..(i - 1) : HasPages(k)

RefinementInv == OwnershipInv /\ TakingInv

(* The pages of a segment are those load_segment's loop goes through.       *)
LEMMA PagesAreRange ==
  ASSUME NEW s \in Phdrs, FitsBelowTop(s)
  PROVE  PagesOf(s) = PageBase(s)..(PageEnd(s) - 1)
  <1> DEFINE P == PageSize
             b == PageBase(s)
             e == PageEnd(s)
             top == s.paddr + s.memsz
  <1>1. P \in Nat \ {0} /\ s.paddr \in Nat /\ s.memsz \in Nat /\ top \in Nat
    BY WordFacts, PhdrFacts
  <1>2. /\ b \in Nat /\ e \in Nat /\ b <= e /\ e <= Pages - 1
        /\ P * b \in Nat /\ P * b <= s.paddr
        /\ P * e \in Nat /\ top <= P * e /\ P * e < top + P
    BY SegmentEnd
  <1>3. \A p \in Page : p \in PagesOf(s) <=>
          \E a \in p * P .. (p * P + P - 1) : a < top /\ b <= p
    BY DEF PagesOf, BytesOf, PageBase
  <1>4. b..(e - 1) \subseteq Page /\ Page \subseteq Nat /\ PagesOf(s) \subseteq Page
    BY <1>2, WordFacts DEF Page, PagesOf
  <1> HIDE DEF P, b, e, top
  <1>5. ASSUME NEW p \in PagesOf(s) PROVE p \in b..(e - 1)
    <2>1. p \in Nat /\ p \in Page
      BY <1>4
    <2>2. PICK a \in p * P .. (p * P + P - 1) : a < top /\ b <= p
      BY <1>3, <2>1
    <2>3. p * P \in Nat /\ p * P = P * p
      BY <1>1, <2>1
    <2>4. P * p < P * e
      BY <1>1, <1>2, <2>2, <2>3
    <2>5. p < e
      BY <1>1, <1>2, <2>1, <2>4, MulMono
    <2> QED
      BY <1>2, <2>1, <2>2, <2>5
  <1>6. ASSUME NEW p \in b..(e - 1) PROVE p \in PagesOf(s)
    <2>1. p \in Nat /\ p \in Page /\ b <= p /\ p + 1 <= e
      BY <1>2, <1>4
    <2>2. p * P \in Nat /\ p * P = P * p /\ P * (p + 1) = P * p + P /\ P * p + P \in Nat
      BY <1>1, <2>1
    <2>3. ~(P * e < P * (p + 1))
      BY <1>1, <1>2, <2>1, MulMono
    <2>4. p * P < top /\ p * P \in p * P .. (p * P + P - 1)
      BY <1>1, <1>2, <2>2, <2>3
    <2> QED
      BY <1>3, <2>1, <2>4
  <1> QED
    BY <1>5, <1>6 DEF b, e

(* At first nothing is taken. *)
LEMMA TakingInit == Init => TakingInv
  BY DEF Init, TakingInv

(* The kernel's pages are a matter of its headers.                          *)
LEMMA KernelStays ==
  ASSUME UNCHANGED <<phdrs, readable>>
  PROVE  KernelPages' = KernelPages /\ OverPages' = OverPages
  <1>1. Segments' = Segments
    BY DEF Segments
  <1> QED
    BY <1>1 DEF KernelPages, OverPages, PagesOf, BytesOf, Bytes, FitsBelowTop

(* No step but an allocation takes anything, and only the copy and a header *)
(* that is no segment's end one.                                            *)
LEMMA TakingKept ==
  ASSUME TakingInv, i \in Nat, UNCHANGED <<phdrs, readable, free, given>>,
         i' = i \/ (i' = i + 1 /\ HasPages(i))
  PROVE  TakingInv'
  <1>1. KernelPages' = KernelPages
    BY KernelStays
  <1>2. \A k \in 1..(i' - 1) : HasPages(k)
    <2> SUFFICES ASSUME NEW k \in 1..(i' - 1) PROVE HasPages(k)
      OBVIOUS
    <2>1. k \in 1..(i - 1) \/ (k = i /\ i' = i + 1)
      OBVIOUS
    <2> QED
      BY <2>1 DEF TakingInv
  <1> QED
    BY <1>1, <1>2 DEF TakingInv, HasPages, FitsBelowTop, PagesOf, BytesOf

(* A granted run is of the segment at hand, and is free no longer.          *)
LEMMA TakingAllocate ==
  ASSUME RefinementInv, AllocateRun
  PROVE  TakingInv' /\ free' \cup given' = free \cup given
  <1>1. /\ TypeOK /\ pc = "alloc" /\ i \in 1..readable /\ phdrs[i] \in Phdrs /\ phdrs[i].load
        /\ page \in Nat /\ PageBase(phdrs[i]) <= page /\ FitsBelowTop(phdrs[i])
    BY HeaderAtHand, WordFacts, LoopFits
       DEF AllocateRun, RefinementInv, OwnershipInv, PlacingInv, TypeOK, Checked, SegmentGiven, Page
  <1>2. PICK q \in Page : /\ q <= PageEnd(phdrs[i])
                          /\ page..(q - 1) \subseteq free
                          /\ free' = free \ (page..(q - 1))
                          /\ given' = given \cup page..(q - 1)
    BY DEF AllocateRun, IsRun
  <1>3. PageBase(phdrs[i]) \in Nat /\ PageEnd(phdrs[i]) \in Nat /\ q \in Nat
        /\ PagesOf(phdrs[i]) = PageBase(phdrs[i])..(PageEnd(phdrs[i]) - 1)
    BY <1>1, SegmentPages, PagesAreRange, WordFacts DEF Page
  <1>4. page..(q - 1) \subseteq PagesOf(phdrs[i])
    BY <1>1, <1>2, <1>3
  <1>5. PagesOf(phdrs[i]) \subseteq KernelPages
    BY <1>1 DEF KernelPages, Segments
  <1>6. KernelPages' = KernelPages /\ i' = i /\ phdrs' = phdrs
    BY KernelStays DEF AllocateRun
  <1>7. given' \subseteq KernelPages' /\ free' \cap given' = {}
    BY <1>2, <1>4, <1>5, <1>6 DEF RefinementInv, TakingInv
  <1>8. \A k \in 1..(i - 1) :
          phdrs[k].load /\ FitsBelowTop(phdrs[k]) => PagesOf(phdrs[k]) \subseteq given'
    BY <1>2 DEF RefinementInv, TakingInv, HasPages
  <1>9. TakingInv'
    BY <1>6, <1>7, <1>8 DEF TakingInv, HasPages, FitsBelowTop, PagesOf, BytesOf
  <1> QED
    BY <1>2, <1>9

(* Once load_segment's loop is over, its segment has all of its pages.      *)
LEMMA CopiedHasPages ==
  ASSUME RefinementInv, CopySegment
  PROVE  HasPages(i)
  <1> SUFFICES ASSUME FitsBelowTop(phdrs[i]) PROVE PagesOf(phdrs[i]) \subseteq given
    BY DEF HasPages
  <1>1. phdrs[i] \in Phdrs /\ page \in Nat /\ PageBase(phdrs[i])..(page - 1) \subseteq given
    BY HeaderAtHand, WordFacts
       DEF CopySegment, RefinementInv, OwnershipInv, PlacingInv, TypeOK, SegmentGiven, Page
  <1>2. PageBase(phdrs[i]) \in Nat /\ PageEnd(phdrs[i]) \in Nat /\ PageEnd(phdrs[i]) <= page
        /\ PagesOf(phdrs[i]) = PageBase(phdrs[i])..(PageEnd(phdrs[i]) - 1)
    BY <1>1, SegmentPages, PagesAreRange DEF CopySegment
  <1> QED
    BY <1>1, <1>2

(* Every step keeps RefinementInv.                                          *)
LEMMA RefinementStep == RefinementInv /\ [Next]_vars => RefinementInv'
  <1> SUFFICES ASSUME RefinementInv, [Next]_vars PROVE TakingInv'
    BY OwnershipStep DEF RefinementInv
  <1>1. TakingInv /\ i \in Nat
    BY DEF RefinementInv, OwnershipInv, PlacingInv, TypeOK
  <1>2. CASE Finish \/ RefuseSegment \/ BeginSegment \/ SkipPage \/ AllocateFails
    BY <1>1, <1>2, TakingKept DEF Finish, RefuseSegment, BeginSegment, SkipPage, AllocateFails
  <1>3. CASE SkipHeader
    BY <1>1, <1>3, TakingKept DEF SkipHeader, HasPages
  <1>4. CASE AllocateRun
    BY <1>4, TakingAllocate
  <1>5. CASE CopySegment
    BY <1>1, <1>5, CopiedHasPages, TakingKept DEF CopySegment
  <1>6. CASE UNCHANGED vars
    BY <1>1, <1>6, TakingKept DEF vars
  <1> QED
    BY <1>2, <1>3, <1>4, <1>5, <1>6 DEF Next

(* When the last header has been dealt with, the pages given are those of   *)
(* the kernel.                                                              *)
LEMMA AllTaken ==
  ASSUME RefinementInv, Finish
  PROVE  given = KernelPages
  <1>1. i = readable + 1 /\ readable \in Nat
    BY DEF RefinementInv, OwnershipInv, PlacingInv, TypeOK, Finish
  <1>2. \A k \in 1..readable : HasPages(k)
    BY <1>1 DEF RefinementInv, TakingInv
  <1>3. KernelPages \subseteq given
    BY <1>2 DEF KernelPages, Segments, HasPages
  <1> QED
    BY <1>3 DEF RefinementInv, TakingInv

(* Then a page that was given, or that a segment that wraps covers, holds   *)
(* the kernel, and any other what it held.                                  *)
LEMMA PagesHold ==
  ASSUME RefinementInv, Finish, NEW p \in Page
  PROVE  PageHolds(p)' = IF p \in given \cup OverPages THEN "kernel" ELSE "old"
  <1>1. pc' = "loaded" /\ UNCHANGED <<phdrs, readable, given, mem>>
    BY DEF Finish
  <1>2. Placed(readable)
    <2>1. Placed(i - 1) /\ i = readable + 1 /\ readable \in Nat
      BY DEF RefinementInv, OwnershipInv, PlacingInv, PlacedSoFar, TypeOK, Finish
    <2> QED
      BY <2>1
  <1>3. BytesOf(p) \subseteq Address /\ \A a \in BytesOf(p) : a \div PageSize = p
    <2> DEFINE P == PageSize
    <2>1. P \in Nat \ {0} /\ Pages \in Nat \ {0} /\ WordSize = P * Pages /\ p \in Nat /\ p + 1 <= Pages
      BY WordFacts DEF Page
    <2>2. p * P \in Nat /\ p * P = P * p /\ P * (p + 1) = P * p + P /\ P * Pages \in Nat
      BY <2>1
    <2>3. ~(P * Pages < P * (p + 1))
      BY <2>1, MulMono
    <2> HIDE DEF P
    <2>4. ASSUME NEW a \in p * P .. (p * P + P - 1)
          PROVE  a \in 0..(P * Pages - 1) /\ a \div P = p
      <3>1. a \in Nat /\ P * p <= a /\ a < P * (p + 1) /\ a < P * Pages
        BY <2>1, <2>2, <2>3
      <3>2. a \div P \in Nat
        BY <2>1, <3>1, DivBounds
      <3>3. p + 1 \in Nat
        BY <2>1
      <3>4. p <= a \div P
        BY <2>1, <3>1, DivBelow
      <3>5. a \div P < p + 1
        BY <2>1, <3>1, <3>3, DivBelow
      <3> QED
        BY <2>1, <2>2, <3>1, <3>2, <3>4, <3>5
    <2> QED
      BY <2>1, <2>4 DEF BytesOf, Address, P
  <1>4. \A a \in BytesOf(p) : ByteOf(readable, a, mem[a])
    BY <1>2, <1>3 DEF Placed
  <1>5. (\A a \in BytesOf(p) : ByteOf(readable, a, mem[a]))'
    BY <1>1, <1>4 DEF ByteOf, Loads, SegmentByte, BytesOf, Bytes
  <1>6. HasKernel(p)' <=> p \in given \cup OverPages
    BY <1>1, <1>5, KernelStays DEF HasKernel
  <1>7. ASSUME p \notin given \cup OverPages, NEW a \in BytesOf(p), mem[a] # Junk
        PROVE  FALSE
    <2>1. PICK k \in 1..readable : ~FitsBelowTop(phdrs[k]) /\ Loads(k, a)
      BY <1>3, <1>7 DEF RefinementInv, OwnershipInv, WritesOwnedUnlessWrapped
    <2>2. phdrs[k] \in Segments /\ BytesOf(p) \cap Bytes(phdrs[k]) # {}
      BY <1>7, <2>1 DEF Segments, Loads
    <2>3. p \in OverPages
      BY <2>1, <2>2 DEF OverPages
    <2> QED
      BY <1>7, <2>3
  <1>8. p \notin given \cup OverPages => (\A a \in BytesOf(p) : mem[a] = Junk)'
    BY <1>1, <1>7 DEF BytesOf
  <1>9. Loaded' /\ given' = given /\ OverPages' = OverPages
    BY <1>1, KernelStays DEF Loaded
  <1>10. CASE p \in given \cup OverPages
    BY <1>6, <1>9, <1>10 DEF PageHolds
  <1>11. CASE p \notin given \cup OverPages
    BY <1>6, <1>8, <1>9, <1>11 DEF PageHolds
  <1> QED
    BY <1>10, <1>11

(* What KernelFile sees does not change before loading ends.                *)
LEMMA NothingSeen ==
  ASSUME pc \notin {"loaded", "panic"}, pc' \notin {"loaded", "panic"},
         UNCHANGED <<phdrs, readable>>, free' \cup given' = free \cup given
  PROVE  UNCHANGED KF!fileVars
  <1>1. KernelPages' = KernelPages /\ OverPages' = OverPages /\ ~Loaded /\ ~Loaded'
    BY KernelStays DEF Loaded
  <1>2. [p \in Page |-> PageHolds(p)]' = [p \in Page |-> PageHolds(p)]
    BY <1>1 DEF PageHolds
  <1> QED
    BY <1>1, <1>2 DEF KF!fileVars, Unplaced

(* load_kernel's loops over the program headers, and all that load_segment  *)
(* does in them, are the step the rest of the boot takes them for, whatever *)
(* the headers: the pages of the segments that do not wrap are taken and no *)
(* other, they and the pages of the others hold the kernel, and no page     *)
(* besides has changed; or Bang panics.                                     *)
THEOREM LoadingRefinesPlaceSegments == Spec => ImplementsPlaceSegments
  <1>1. Init => RefinementInv
    BY OwnershipInit, TakingInit DEF RefinementInv
  <1>2. ASSUME RefinementInv, [Next]_vars
        PROVE  [KF!PlaceSegments \/ KF!SegmentsRefused]_(KF!fileVars)
    <2>1. CASE Finish
      <3>1. /\ pc = "phdr" /\ pc' = "loaded" /\ UNCHANGED <<phdrs, readable, free, given, mem>>
            /\ ~Loaded /\ Loaded'
        BY <2>1 DEF Finish, Loaded
      <3>2. given = KernelPages /\ free \cap given = {}
        BY <1>2, <2>1, AllTaken DEF RefinementInv, TakingInv
      <3>3. [p \in Page |-> PageHolds(p)]'
              = [p \in Page |-> IF p \in KernelPages \cup OverPages THEN "kernel"
                                ELSE PageHolds(p)]
        <4>1. \A p \in Page : PageHolds(p)' = IF p \in KernelPages \cup OverPages
                                             THEN "kernel" ELSE "old"
          BY <1>2, <2>1, <3>2, PagesHold
        <4>2. \A p \in Page : PageHolds(p) = "old" \/ p \in KernelPages \cup OverPages
          BY <3>1, <3>2 DEF PageHolds, HasKernel
        <4> QED
          BY <4>1, <4>2
      <3>4. free' = (free \cup given) \ KernelPages /\ KernelPages \subseteq free \cup given
        BY <3>1, <3>2
      <3>5. [Unplaced EXCEPT !.entry_point = Entry, !.boot_mode = Mode, !.pages = given] = InPlace
        <4> DEFINE a == [entry_point |-> Entry, mb_version |-> Version, boot_mode |-> "none", pages |-> {}]
                   b == [entry_point |-> Entry, mb_version |-> Version, boot_mode |-> Mode, pages |-> {}]
        <4>1. [Unplaced EXCEPT !.entry_point = Entry] = a
          BY DEF Unplaced
        <4>2. [a EXCEPT !.boot_mode = Mode] = b
          OBVIOUS
        <4>3. [b EXCEPT !.pages = given] = InPlace
          BY DEF InPlace
        <4> QED
          BY <4>1, <4>2, <4>3
      <3>6. Unplaced.mb_version = Version /\ InPlace' = InPlace
        BY <3>1 DEF Unplaced, InPlace
      <3>7. KF!BootMode = Mode
        BY <3>1, <3>6 DEF KF!BootMode, Mode
      <3>8. KF!PlaceSegments
        BY <3>1, <3>2, <3>3, <3>4, <3>5, <3>6, <3>7 DEF KF!PlaceSegments, KF!NoFile
      <3> QED
        BY <3>8
    <2>2. CASE RefuseSegment \/ AllocateFails
      <3>1. /\ pc \in {"phdr", "alloc"} /\ pc' = "panic"
            /\ UNCHANGED <<phdrs, readable, free, given, mem>>
        BY <2>2 DEF RefuseSegment, AllocateFails
      <3>2. KernelPages' = KernelPages /\ OverPages' = OverPages /\ ~Loaded /\ ~Loaded'
        BY <3>1, KernelStays DEF Loaded
      <3>3. [p \in Page |-> PageHolds(p)]' = [p \in Page |-> PageHolds(p)]
        BY <3>2 DEF PageHolds
      <3> QED
        BY <3>1, <3>2, <3>3 DEF KF!SegmentsRefused, Unplaced
    <2>3. CASE SkipHeader \/ BeginSegment \/ SkipPage \/ CopySegment
      <3>1. /\ pc \in {"phdr", "alloc"} /\ pc' \in {"phdr", "alloc"}
            /\ UNCHANGED <<phdrs, readable, free, given>>
        BY <2>3 DEF SkipHeader, BeginSegment, SkipPage, CopySegment
      <3> QED
        BY <3>1, NothingSeen
    <2>4. CASE AllocateRun
      <3>1. /\ pc = "alloc" /\ pc' = "alloc" /\ UNCHANGED <<phdrs, readable>>
            /\ free' \cup given' = free \cup given
        BY <1>2, <2>4, TakingAllocate DEF AllocateRun
      <3> QED
        BY <3>1, NothingSeen
    <2>5. CASE UNCHANGED vars
      <3>1. UNCHANGED <<phdrs, readable, pc, free, given, mem>>
        BY <2>5 DEF vars
      <3>2. KernelPages' = KernelPages /\ OverPages' = OverPages /\ Loaded' = Loaded
        BY <3>1, KernelStays DEF Loaded
      <3>3. [p \in Page |-> PageHolds(p)]' = [p \in Page |-> PageHolds(p)]
        BY <3>1, <3>2 DEF PageHolds, HasKernel, ByteOf, Loads, SegmentByte, Bytes, BytesOf
      <3> QED
        BY <3>1, <3>2, <3>3 DEF KF!fileVars, Unplaced, InPlace
    <2> QED
      BY <1>2, <2>1, <2>2, <2>3, <2>4, <2>5 DEF Next
  <1> QED
    BY <1>1, <1>2, RefinementStep, PTL DEF Spec, ImplementsPlaceSegments

=============================================================================
