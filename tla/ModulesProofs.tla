--------------------------- MODULE ModulesProofs ----------------------------
(***************************************************************************)
(* Loading modules, for a name buffer, pages, memory and directories of any *)
(* size.                                                                    *)
(*                                                                         *)
(* That a stored name stays what it is needs to know where names end: every *)
(* one lies wholly below MOD_NAMES_POS, except those of modules that came   *)
(* when the buffer was full, which all share the terminator at its end.     *)
(***************************************************************************)
EXTENDS ModulesBoot, TLAPS

NamesKept ==
  /\ names[CAP - 1] = 0
  /\ \A k \in DOMAIN modules :
       LET m == modules[k]
       IN  \/ m.name_ptr + Written(dir[m.file].name, m.name_ptr) < namesPos
           \/ m.name_ptr = CAP - 1

RefusedHandled == refused \subseteq 1..Handled

IInv ==
  /\ TypeOK /\ NamesKept /\ RefusedHandled
  /\ NamesFaithful /\ ModulesIntact /\ LoadedInOrder

-----------------------------------------------------------------------------
(* The quotient and the remainder. *)
LEMMA DivBounds ==
  ASSUME NEW a \in Nat, NEW p \in Nat \ {0}
  PROVE  /\ a \div p \in Nat
         /\ a % p \in 0..(p - 1)
         /\ a = p * (a \div p) + (a % p)
         /\ p * (a \div p) <= a
         /\ a < p * (a \div p) + p
  OBVIOUS

(* Multiplying by a size keeps the order. *)
LEMMA MulMono ==
  ASSUME NEW p \in Nat \ {0}, NEW x \in Int, NEW y \in Int
  PROVE  p * x < p * y <=> x < y
  OBVIOUS

(* A number below (not below) n pages is in one of them (in none).          *)
LEMMA DivBelow ==
  ASSUME NEW a \in Nat, NEW p \in Nat \ {0}, NEW n \in Nat
  PROVE  /\ a < p * n => a \div p < n
         /\ p * n <= a => n <= a \div p
  <1>1. a \div p \in Nat /\ p * (a \div p) <= a /\ a < p * (a \div p) + p
    BY DivBounds
  <1>2. ASSUME a < p * n PROVE a \div p < n
    <2>1. p * (a \div p) < p * n
      BY <1>1, <1>2
    <2> QED
      BY <1>1, <2>1, MulMono
  <1>3. ASSUME p * n <= a PROVE n <= a \div p
    <2>1. p * n < p * (a \div p) + p
      BY <1>1, <1>3
    <2>2. p * (a \div p) + p = p * ((a \div p) + 1)
      BY <1>1
    <2>3. n < (a \div p) + 1
      BY <1>1, <2>1, <2>2, MulMono
    <2> QED
      BY <1>1, <2>3
  <1> QED
    BY <1>2, <1>3

(* The constants, as the numbers they are assumed to be.                  *)
LEMMA ConstFacts ==
  /\ CAP \in Nat \ {0} /\ PageSize \in Nat \ {0} /\ Pages \in Nat /\ LowPages \in Nat
  /\ LowPages <= Pages /\ PageSize * Pages \in Nat
  BY ModulesConstants

(* What membership of Entries says of the entry at a place in the directory. *)
LEMMA EntryFacts ==
  ASSUME TypeOK, NEW j \in 1..Len(dir)
  PROVE  /\ dir[j].name \in Seq(Nat \ {0}) /\ dir[j].size \in Nat
         /\ Len(dir[j].name) \in Nat
  <1>1. dir[j] \in Entries
    BY DEF TypeOK
  <1>2. dir[j] \in Entry
    BY <1>1, ModulesConstants
  <1>3. dir[j].name \in Seq(Nat \ {0}) /\ dir[j].size \in Nat
    BY <1>2 DEF Entry
  <1> QED
    BY <1>3

(* How much of a name is written. *)
LEMMA WrittenFacts ==
  ASSUME NEW name \in Seq(Nat \ {0}), NEW pos \in 0..(CAP - 1)
  PROVE  /\ Written(name, pos) \in Nat
         /\ Written(name, pos) <= Len(name)
         /\ pos + Written(name, pos) <= CAP - 1
  BY ConstFacts DEF Written

(* What is written for a character is a seven-bit byte.                   *)
LEMMA AsciiRange ==
  ASSUME NEW ch \in Nat
  PROVE  Ascii(ch) \in 0..127
  BY DEF Ascii

(* What store_name leaves in the buffer: the new name where it was full up  *)
(* to, its terminator, and everything before it as it was.                  *)
LEMMA StoredName ==
  ASSUME TypeOK, NEW name \in Seq(Nat \ {0}), namesPos < CAP
  PROVE  /\ NamesAfter(name, namesPos) \in [0..(CAP - 1) -> 0..127]
         /\ \A b \in 0..(namesPos - 1) : NamesAfter(name, namesPos)[b] = names[b]
         /\ \A j \in 1..Written(name, namesPos) :
              NamesAfter(name, namesPos)[namesPos + j - 1] = Ascii(name[j])
         /\ NamesAfter(name, namesPos)[namesPos + Written(name, namesPos)] = 0
         /\ names[CAP - 1] = 0 => NamesAfter(name, namesPos)[CAP - 1] = 0
  <1> DEFINE w == Written(name, namesPos)
             after == NamesAfter(name, namesPos)
  <1>1. namesPos \in 0..(CAP - 1) /\ CAP \in Nat \ {0} /\ names \in [0..(CAP - 1) -> 0..127]
    BY ConstFacts DEF TypeOK
  <1>2. w \in Nat /\ w <= Len(name) /\ namesPos + w <= CAP - 1
    BY <1>1, WrittenFacts
  <1> HIDE DEF w
  <1>3. after = [b \in 0..(CAP - 1) |->
                   IF namesPos <= b /\ b < namesPos + w THEN Ascii(name[b - namesPos + 1])
                   ELSE IF b = namesPos + w THEN 0 ELSE names[b]]
    BY DEF NamesAfter, w
  <1> HIDE DEF after
  <1>4. \A b \in 0..(CAP - 1) : namesPos <= b /\ b < namesPos + w =>
          b - namesPos + 1 \in 1..Len(name) /\ name[b - namesPos + 1] \in Nat
    BY <1>1, <1>2
  <1>5. after \in [0..(CAP - 1) -> 0..127]
    <2> SUFFICES ASSUME NEW b \in 0..(CAP - 1)
                 PROVE  (IF namesPos <= b /\ b < namesPos + w THEN Ascii(name[b - namesPos + 1])
                         ELSE IF b = namesPos + w THEN 0 ELSE names[b]) \in 0..127
      BY <1>3
    <2>1. CASE namesPos <= b /\ b < namesPos + w
      <3>1. name[b - namesPos + 1] \in Nat
        BY <1>4, <2>1
      <3>2. Ascii(name[b - namesPos + 1]) \in 0..127
        BY <3>1, AsciiRange
      <3> QED
        BY <2>1, <3>2
    <2>2. CASE ~(namesPos <= b /\ b < namesPos + w)
      <3>1. names[b] \in 0..127
        BY <1>1
      <3> QED
        BY <2>2, <3>1
    <2> QED
      BY <2>1, <2>2
  <1>6. \A b \in 0..(namesPos - 1) : after[b] = names[b]
    BY <1>1, <1>2, <1>3
  <1>7. ASSUME NEW j \in 1..w PROVE after[namesPos + j - 1] = Ascii(name[j])
    <2>1. namesPos + j - 1 \in 0..(CAP - 1) /\ namesPos <= namesPos + j - 1
          /\ namesPos + j - 1 < namesPos + w /\ (namesPos + j - 1) - namesPos + 1 = j
      BY <1>1, <1>2
    <2> QED
      BY <1>3, <2>1
  <1>8. after[namesPos + w] = 0
    BY <1>1, <1>2, <1>3
  <1>9. names[CAP - 1] = 0 => after[CAP - 1] = 0
    BY <1>1, <1>2, <1>3
  <1> QED
    BY <1>5, <1>6, <1>7, <1>8, <1>9 DEF after, w

-----------------------------------------------------------------------------
(* Memory *)

(* The line is not above the end of memory.                               *)
LEMMA LowIsMemory == PageSize * LowPages <= PageSize * Pages /\ PageSize * LowPages \in Nat
  BY ConstFacts, MulMono

(* The bytes of a run of pages under the line. *)
LEMMA RunBytes ==
  ASSUME NEW p \in Nat, NEW n \in Nat, p + n <= LowPages
  PROVE  /\ p * PageSize + PageSize * n <= PageSize * LowPages
         /\ \A o \in 0..(PageSize * n - 1) :
              p * PageSize + o \in Address /\ (p * PageSize + o) \div PageSize \in p..(p + n - 1)
  <1>1. PageSize \in Nat \ {0} /\ LowPages \in Nat
    BY ConstFacts
  <1>2. /\ p * PageSize = PageSize * p /\ PageSize * p \in Nat /\ PageSize * n \in Nat
        /\ PageSize * (p + n) = PageSize * p + PageSize * n
    BY <1>1
  <1>3. PageSize * (p + n) <= PageSize * LowPages
    <2>1. p + n \in Int /\ ~(LowPages < p + n)
      BY <1>1
    <2>2. ~(PageSize * LowPages < PageSize * (p + n))
      BY <1>1, <2>1, MulMono
    <2> QED
      BY <1>1, <1>2, <2>2, LowIsMemory
  <1>4. ASSUME NEW o \in 0..(PageSize * n - 1)
        PROVE  p * PageSize + o \in Address /\ (p * PageSize + o) \div PageSize \in p..(p + n - 1)
    <2> DEFINE a == PageSize * p + o
    <2>1. a \in Nat /\ PageSize * p <= a /\ a < PageSize * (p + n)
      BY <1>2
    <2>2. a \in Address
      BY <1>2, <1>3, <2>1, LowIsMemory, ConstFacts DEF Address
    <2>3. a \div PageSize \in Nat /\ p <= a \div PageSize /\ a \div PageSize < p + n
      <3> HIDE DEF a
      <3>1. p + n \in Nat
        OBVIOUS
      <3> QED
        BY <1>1, <2>1, <3>1, DivBounds, DivBelow
    <2>4. a \div PageSize \in p..(p + n - 1)
      BY <2>3
    <2> QED
      BY <1>2, <2>2, <2>4
  <1> QED
    BY <1>2, <1>3, <1>4

(* The pages of a file are a number.                                      *)
LEMMA NumPagesNat ==
  ASSUME NEW size \in Nat
  PROVE  NumPages(size) \in Nat
  <1>1. size + PageSize - 1 \in Nat /\ PageSize \in Nat \ {0}
    BY ConstFacts
  <1> QED
    BY <1>1, DivBounds DEF NumPages

(* Loading into pages that were free leaves a module that was there alone. *)
LEMMA LoadingSpares ==
  ASSUME NEW m \in Module, Intact(m), NEW p, NEW n, NEW file, NEW len,
         Allocate(p, n), mem' = Filled(file, p, n, len)
  PROVE  Intact(m)'
  <1>1. m.phys_start \in Nat /\ m.size \in Nat
    BY ConstFacts DEF Module, Address
  <1>2. NumPages(m.size) \in Nat /\ PageSize * NumPages(m.size) \in Nat
    BY <1>1, NumPagesNat, ConstFacts
  <1>3. m.phys_start + PageSize * NumPages(m.size) <= PageSize * LowPages
    BY DEF Intact
  <1>4. ASSUME NEW o \in 0..(PageSize * NumPages(m.size) - 1)
        PROVE  /\ (m.phys_start + o) \div PageSize \notin free'
               /\ mem'[m.phys_start + o] = IF o < m.size THEN FileByte(m.file, o) ELSE Zero
    <2>1. /\ (m.phys_start + o) \div PageSize \notin free
          /\ mem[m.phys_start + o] = IF o < m.size THEN FileByte(m.file, o) ELSE Zero
      BY DEF Intact
    <2>2. m.phys_start + o \in Address
      BY <1>1, <1>2, <1>3, LowIsMemory, ConstFacts DEF Address
    <2>3. (m.phys_start + o) \div PageSize \notin p..(p + n - 1)
      BY <2>1 DEF Allocate, FreeRun
    <2>4. mem'[m.phys_start + o] = mem[m.phys_start + o]
      BY <2>2, <2>3 DEF Filled
    <2> QED
      BY <2>1, <2>4 DEF Allocate
  <1> QED
    BY <1>3, <1>4 DEF Intact

(* A file read whole is intact. *)
LEMMA LoadedIntact ==
  ASSUME TypeOK, NEW m \in Module, NEW p \in Page, m.phys_start = p * PageSize,
         Allocate(p, NumPages(m.size)), mem' = Filled(m.file, p, NumPages(m.size), m.size)
  PROVE  Intact(m)'
  <1> DEFINE n == NumPages(m.size)
  <1>1. m.size \in Nat /\ p \in Nat /\ n \in Nat /\ p + n <= LowPages
    BY NumPagesNat, ConstFacts DEF Module, Page, Allocate, FreeRun
  <1>2. /\ p * PageSize + PageSize * n <= PageSize * LowPages
        /\ \A o \in 0..(PageSize * n - 1) :
             p * PageSize + o \in Address /\ (p * PageSize + o) \div PageSize \in p..(p + n - 1)
    BY <1>1, RunBytes
  <1>3. ASSUME NEW o \in 0..(PageSize * n - 1)
        PROVE  /\ (m.phys_start + o) \div PageSize \notin free'
               /\ mem'[m.phys_start + o] = IF o < m.size THEN FileByte(m.file, o) ELSE Zero
    <2> DEFINE a == p * PageSize + o
    <2>1. a \in Address /\ a \div PageSize \in p..(p + n - 1)
      BY <1>2
    <2>2. a - p * PageSize = o
      BY <1>1, ConstFacts
    <2>3. mem'[a] = IF o < m.size THEN FileByte(m.file, o) ELSE Zero
      BY <2>1, <2>2 DEF Filled
    <2> QED
      BY <2>1, <2>3 DEF Allocate
  <1> QED
    BY <1>2, <1>3 DEF Intact

-----------------------------------------------------------------------------
(* The steps *)

ToLoad == {j \in 1..Handled : Wanted(dir[j])} \ refused

(* The scan begins in the invariant.                                      *)
LEMMA ModulesInit == Init => IInv
  <1> SUFFICES ASSUME Init PROVE IInv
    OBVIOUS
  <1>1. dir \in Seq(Entries)
    <2>1. PICK n \in 0..MaxEntries : dir \in [1..n -> Entries]
      BY DEF Init
    <2>2. n \in Nat
      BY ModulesConstants
    <2> QED
      BY <2>1, <2>2
  <1>2. Len(dir) \in Nat
    BY <1>1
  <1>3. names \in [0..(CAP - 1) -> 0..127] /\ namesPos \in 0..CAP /\ names[CAP - 1] = 0
    BY ConstFacts DEF Init
  <1>4. modules = <<>> /\ DOMAIN modules = {} /\ modules \in Seq(Module)
    BY DEF Init
  <1>5. free \subseteq Page /\ DOMAIN mem = Address
    BY ModulesConstants DEF Init
  <1>6. TypeOK
    BY <1>1, <1>2, <1>3, <1>4, <1>5 DEF Init, TypeOK
  <1>7. Handled = 0
    BY DEF Init, Handled
  <1>8. LoadedInOrder /\ RefusedHandled
    BY <1>4, <1>7 DEF Init, LoadedInOrder, RefusedHandled
  <1> QED
    BY <1>3, <1>4, <1>6, <1>8 DEF IInv, NamesKept, NamesFaithful, ModulesIntact

(* A step that adds no module. *)
LEMMA NoneAdded ==
  ASSUME IInv, UNCHANGED <<dir, names, namesPos, modules>>, TypeOK',
         \A k \in DOMAIN modules : Intact(modules[k])',
         ToLoad' = ToLoad, RefusedHandled'
  PROVE  IInv'
  <1>1. NamesKept' /\ NamesFaithful'
    BY DEF IInv, NamesKept, NamesFaithful, NameAt
  <1>2. ModulesIntact'
    BY DEF ModulesIntact
  <1>3. LoadedInOrder'
    BY DEF IInv, LoadedInOrder, ToLoad
  <1> QED
    BY <1>1, <1>2, <1>3 DEF IInv

(* A step that touches nothing the modules depend on. *)
LEMMA NothingTouched ==
  ASSUME IInv, UNCHANGED <<dir, names, namesPos, modules, free, mem>>, TypeOK',
         ToLoad' = ToLoad, RefusedHandled'
  PROVE  IInv'
  <1>1. \A k \in DOMAIN modules : Intact(modules[k])'
    BY DEF IInv, ModulesIntact, Intact
  <1> QED
    BY <1>1, NoneAdded

(* Done with the entry in hand. *)
LEMMA EntryDone ==
  ASSUME IInv, pc = "entry", pc' # "entry", at' = at, dir' = dir
  PROVE  /\ at \in 1..Len(dir) /\ at \notin refused
         /\ Handled = at - 1 /\ Handled' = at
         /\ 1..Handled' = (1..Handled) \cup {at}
  <1>1. at \in 1..Len(dir)
    BY DEF IInv, TypeOK
  <1>2. Handled = at - 1 /\ Handled' = at
    BY DEF Handled
  <1>3. at \notin refused
    BY <1>1, <1>2 DEF IInv, RefusedHandled
  <1> QED
    BY <1>1, <1>2, <1>3

(* The entry in hand is not loaded. *)
LEMMA EntryRefused ==
  ASSUME IInv, pc = "entry", pc' # "entry", UNCHANGED <<dir, at>>,
         \/ ~Wanted(dir[at]) /\ refused' = refused
         \/ refused' = refused \cup {at}
  PROVE  ToLoad' = ToLoad /\ RefusedHandled' /\ refused' \subseteq 1..at
  <1>1. /\ at \in 1..Len(dir) /\ at \notin refused /\ Handled = at - 1 /\ Handled' = at
        /\ 1..Handled' = (1..Handled) \cup {at}
    BY EntryDone
  <1>2. refused \subseteq 1..Handled
    BY DEF IInv, RefusedHandled
  <1>3. RefusedHandled' /\ refused' \subseteq 1..at
    BY <1>1, <1>2 DEF RefusedHandled
  <1>4. at \notin 1..Handled
    BY <1>1
  <1>5. ToLoad' = ToLoad
    BY <1>1, <1>2, <1>4 DEF ToLoad, Wanted
  <1> QED
    BY <1>3, <1>5

(* A step that loads nothing and is done with no entry keeps the invariant. *)
LEMMA QuietStep ==
  ASSUME IInv, \/ OpenDirectory \/ NoDirectory \/ OpenPanics \/ EndScan \/ ReadEntryFails
               \/ ReadEntryTooSmall \/ SkipLongEntry
  PROVE  IInv'
  <1>1. /\ UNCHANGED <<dir, at, names, namesPos, modules, free, mem, refused>>
        /\ pc # "entry" /\ pc' \in {"read", "tooSmall", "done", "panic"}
    BY DEF OpenDirectory, NoDirectory, OpenPanics, EndScan, ReadEntryFails, ReadEntryTooSmall,
           SkipLongEntry
  <1>2. TypeOK'
    BY <1>1 DEF IInv, TypeOK
  <1>3. Handled' = Handled
    BY <1>1 DEF Handled
  <1>4. ToLoad' = ToLoad /\ RefusedHandled'
    BY <1>1, <1>3 DEF IInv, ToLoad, RefusedHandled, Wanted
  <1> QED
    BY <1>1, <1>2, <1>4, NothingTouched

(* Taking an entry in hand keeps the invariant.                           *)
LEMMA ReadEntryStep == IInv /\ ReadEntry => IInv'
  <1> SUFFICES ASSUME IInv, ReadEntry PROVE IInv'
    OBVIOUS
  <1>1. /\ UNCHANGED <<dir, names, namesPos, modules, free, mem, refused>>
        /\ pc = "read" /\ pc' = "entry" /\ at' = at + 1 /\ at < Len(dir)
    BY DEF ReadEntry
  <1>2. at \in Nat /\ Len(dir) \in Nat /\ refused \subseteq 1..at
    BY DEF IInv, TypeOK
  <1>3. TypeOK'
    <2>1. at' \in 0..Len(dir) /\ at' > 0 /\ refused \subseteq 1..at'
      BY <1>1, <1>2
    <2> QED
      BY <1>1, <2>1 DEF IInv, TypeOK
  <1>4. Handled' = Handled
    BY <1>1, <1>2 DEF Handled
  <1>5. ToLoad' = ToLoad /\ RefusedHandled'
    BY <1>1, <1>4 DEF IInv, ToLoad, RefusedHandled, Wanted
  <1> QED
    BY <1>1, <1>3, <1>5, NothingTouched

(* Passing over the entry in hand keeps the invariant.                    *)
LEMMA SkipStep == IInv /\ (SkipEntry \/ OpenFails \/ NoRoom) => IInv'
  <1> SUFFICES ASSUME IInv, SkipEntry \/ OpenFails \/ NoRoom PROVE IInv'
    OBVIOUS
  <1>1. /\ UNCHANGED <<dir, at, names, namesPos, modules, free, mem>>
        /\ pc = "entry" /\ pc' = "read"
        /\ \/ ~Wanted(dir[at]) /\ refused' = refused
           \/ refused' = refused \cup {at}
    BY DEF SkipEntry, OpenFails, NoRoom
  <1>2. ToLoad' = ToLoad /\ RefusedHandled' /\ refused' \subseteq 1..at
    BY <1>1, EntryRefused
  <1>3. TypeOK'
    BY <1>1, <1>2 DEF IInv, TypeOK
  <1> QED
    BY <1>1, <1>2, <1>3, NothingTouched

(* The file in hand is read, in part or not at all, and given up. *)
LEMMA ReadGivenUp == IInv /\ (ReadPanics \/ ShortRead) => IInv'
  <1> SUFFICES ASSUME IInv, ReadPanics \/ ShortRead PROVE IInv'
    OBVIOUS
  <1>1. /\ UNCHANGED <<dir, at, names, namesPos, modules>>
        /\ pc = "entry" /\ pc' \in {"read", "panic"}
        /\ refused' = refused \cup {at}
    BY DEF ReadPanics, ShortRead
  <1>2. PICK p, n, len : Allocate(p, n) /\ mem' = Filled(at, p, n, len)
    BY DEF ReadPanics, ShortRead
  <1>3. ToLoad' = ToLoad /\ RefusedHandled' /\ refused' \subseteq 1..at
    BY <1>1, EntryRefused
  <1>4. free' \subseteq Page /\ DOMAIN mem' = Address
    BY <1>2 DEF IInv, TypeOK, Allocate, Filled
  <1>5. TypeOK'
    BY <1>1, <1>3, <1>4 DEF IInv, TypeOK
  <1>6. ASSUME NEW k \in DOMAIN modules PROVE Intact(modules[k])'
    <2>1. modules[k] \in Module /\ Intact(modules[k])
      BY DEF IInv, TypeOK, ModulesIntact
    <2>2. \A m : m \in Module /\ Intact(m) => Intact(m)'
      BY <1>2, LoadingSpares
    <2> QED
      BY <1>1, <2>1, <2>2 DEF Intact
  <1> QED
    BY <1>1, <1>3, <1>5, <1>6, NoneAdded

(* What a string in the buffer is depends only on the bytes it covers. *)
LEMMA NameSpared ==
  ASSUME NEW name \in Seq(Nat \ {0}), NEW ptr \in 0..(CAP - 1), NEW pos \in Nat, NameAt(name, ptr),
         ptr + Written(name, ptr) < pos, \A b \in 0..(pos - 1) : names'[b] = names[b]
  PROVE  NameAt(name, ptr)'
  <1>1. Written(name, ptr) \in Nat /\ ptr \in Nat
    BY WrittenFacts, ConstFacts
  <1>2. \A j \in 1..Written(name, ptr) : ptr + j - 1 \in 0..(pos - 1)
    BY <1>1
  <1>3. ptr + Written(name, ptr) \in 0..(pos - 1)
    BY <1>1
  <1> QED
    BY <1>2, <1>3 DEF NameAt

(* At the last byte there is room for the terminator and nothing else. *)
LEMMA NameAtEnd ==
  ASSUME NEW name \in Seq(Nat \ {0})
  PROVE  /\ Written(name, CAP - 1) = 0
         /\ names[CAP - 1] = 0 => NameAt(name, CAP - 1)
  <1>1. CAP \in Nat \ {0} /\ Len(name) \in Nat
    BY ConstFacts
  <1>2. Written(name, CAP - 1) = 0
    BY <1>1 DEF Written
  <1> QED
    BY <1>1, <1>2 DEF NameAt

(* store_name, for the module it is called for and for those before it. *)
LEMMA StoreNameStep ==
  ASSUME IInv, NEW name \in Seq(Nat \ {0}), StoreName(name), NEW ptr, ptr = NamePtr(namesPos)
  PROVE  /\ names' \in [0..(CAP - 1) -> 0..127] /\ namesPos' \in 0..CAP
         /\ names'[CAP - 1] = 0
         /\ ptr \in 0..(CAP - 1)
         /\ NameAt(name, ptr)'
         /\ ptr + Written(name, ptr) < namesPos' \/ ptr = CAP - 1
         /\ namesPos <= namesPos'
         /\ \A b \in 0..(namesPos - 1) : b \in 0..(CAP - 1) => names'[b] = names[b]
  <1>0. /\ TypeOK /\ names[CAP - 1] = 0 /\ CAP \in Nat \ {0} /\ namesPos \in 0..CAP
        /\ names \in [0..(CAP - 1) -> 0..127]
    BY ConstFacts DEF IInv, TypeOK, NamesKept
  <1>1. CASE namesPos >= CAP
    <2>1. names' = names /\ namesPos' = namesPos /\ ptr = CAP - 1
      BY <1>1 DEF StoreName, NamePtr
    <2>2. NameAt(name, CAP - 1)'
      <3>1. Written(name, CAP - 1) = 0 /\ NameAt(name, CAP - 1)
        BY <1>0, NameAtEnd
      <3> QED
        BY <2>1, <3>1 DEF NameAt
    <2>3. NameAt(name, ptr)'
      BY <2>1, <2>2
    <2> QED
      BY <1>0, <2>1, <2>3
  <1>2. CASE ~(namesPos >= CAP)
    <2>1. /\ namesPos < CAP /\ namesPos \in 0..(CAP - 1)
          /\ names' = NamesAfter(name, namesPos)
          /\ namesPos' = namesPos + Written(name, namesPos) + 1
          /\ ptr = namesPos
      BY <1>0, <1>2 DEF StoreName, NamePtr
    <2>2. Written(name, namesPos) \in Nat /\ namesPos + Written(name, namesPos) <= CAP - 1
      BY <2>1, WrittenFacts
    <2>3. /\ names' \in [0..(CAP - 1) -> 0..127] /\ names'[CAP - 1] = 0
          /\ \A b \in 0..(namesPos - 1) : names'[b] = names[b]
          /\ \A j \in 1..Written(name, namesPos) : names'[namesPos + j - 1] = Ascii(name[j])
          /\ names'[namesPos + Written(name, namesPos)] = 0
      BY <1>0, <2>1, StoredName
    <2>4. NameAt(name, ptr)'
      BY <2>1, <2>3 DEF NameAt
    <2>5. namesPos' \in 0..CAP /\ namesPos <= namesPos' /\ ptr + Written(name, ptr) < namesPos'
      BY <1>0, <2>1, <2>2
    <2> QED
      BY <2>1, <2>3, <2>4, <2>5
  <1> QED
    BY <1>1, <1>2

(* Loading the entry in hand keeps the invariant.                         *)
LEMMA LoadModuleStep == IInv /\ LoadModule => IInv'
  <1> SUFFICES ASSUME IInv, LoadModule PROVE IInv'
    OBVIOUS
  <1>0. TypeOK /\ pc = "entry" /\ pc' = "read" /\ UNCHANGED <<dir, at, refused>>
        /\ Wanted(dir[at]) /\ StoreName(dir[at].name)
    BY DEF IInv, LoadModule
  <1>1. /\ at \in 1..Len(dir) /\ at \notin refused /\ Handled = at - 1 /\ Handled' = at
        /\ 1..Handled' = (1..Handled) \cup {at}
    BY <1>0, EntryDone
  <1>2. dir[at].name \in Seq(Nat \ {0}) /\ dir[at].size \in Nat /\ dir[at].size # 0
    BY <1>0, <1>1, EntryFacts DEF Wanted
  <1>p. PICK p \in Page :
          /\ Allocate(p, NumPages(dir[at].size))
          /\ mem' = Filled(at, p, NumPages(dir[at].size), dir[at].size)
          /\ modules' = Append(modules, [name_ptr |-> NamePtr(namesPos),
                           phys_start |-> p * PageSize, size |-> dir[at].size, file |-> at])
    BY DEF LoadModule
  <1>m. PICK m : m = [name_ptr |-> NamePtr(namesPos), phys_start |-> p * PageSize,
                      size |-> dir[at].size, file |-> at]
    OBVIOUS
  <1>3. /\ m = [name_ptr |-> NamePtr(namesPos), phys_start |-> p * PageSize,
                size |-> dir[at].size, file |-> at]
        /\ Allocate(p, NumPages(m.size)) /\ mem' = Filled(m.file, p, NumPages(m.size), m.size)
        /\ modules' = Append(modules, m)
    BY <1>p, <1>m
  <1>4. PICK name : name = dir[at].name
    OBVIOUS
  <1>5. /\ names' \in [0..(CAP - 1) -> 0..127] /\ namesPos' \in 0..CAP
        /\ names'[CAP - 1] = 0
        /\ m.name_ptr \in 0..(CAP - 1)
        /\ NameAt(name, m.name_ptr)'
        /\ m.name_ptr + Written(name, m.name_ptr) < namesPos' \/ m.name_ptr = CAP - 1
        /\ namesPos <= namesPos'
        /\ \A b \in 0..(namesPos - 1) : b \in 0..(CAP - 1) => names'[b] = names[b]
    BY <1>0, <1>2, <1>3, <1>4, StoreNameStep
  <1>6. m \in Module
    <2>1. p \in Nat /\ p < Pages /\ PageSize \in Nat \ {0} /\ Pages \in Nat
      BY ConstFacts DEF Page
    <2>2. PageSize * p < PageSize * Pages /\ p * PageSize = PageSize * p /\ PageSize * p \in Nat
      BY <2>1, MulMono
    <2>3. p * PageSize \in Address
      BY <2>1, <2>2, ConstFacts DEF Address
    <2> QED
      BY <1>1, <1>2, <1>3, <1>5, <2>3 DEF Module
  <1>len. PICK n : n = Len(modules)
    OBVIOUS
  <1>7. /\ n \in Nat /\ DOMAIN modules = 1..n /\ DOMAIN modules' = 1..(n + 1)
        /\ modules'[n + 1] = m /\ \A k \in 1..n : modules'[k] = modules[k] /\ modules[k] \in Module
        /\ modules' \in Seq(Module)
    BY <1>0, <1>3, <1>6, <1>len DEF TypeOK
  <1>8. TypeOK'
    <2>1. free' \subseteq Page /\ DOMAIN mem' = Address
      BY <1>0, <1>3 DEF TypeOK, Allocate, Filled
    <2> QED
      BY <1>0, <1>5, <1>7, <2>1 DEF TypeOK
  <1>9. \A k \in 1..n : modules[k].file \in 1..Handled
    BY <1>7 DEF IInv, LoadedInOrder
  <1>10. m.file = at /\ dir[m.file].name = name
    BY <1>3, <1>4
  <1>11. ASSUME NEW k \in 1..n
         PROVE  dir[modules[k].file].name \in Seq(Nat \ {0}) /\ modules[k].name_ptr \in 0..(CAP - 1)
    <2>1. modules[k].file \in 1..Len(dir)
      BY <1>0, <1>1, <1>9 DEF TypeOK
    <2>2. modules[k].name_ptr \in 0..(CAP - 1)
      BY <1>7 DEF Module
    <2> QED
      BY <1>0, <2>1, <2>2, EntryFacts
  <1>12. NamesKept'
    <2>1. ASSUME NEW k \in 1..n
          PROVE  \/ modules'[k].name_ptr + Written(dir[modules'[k].file].name, modules'[k].name_ptr) < namesPos'
                 \/ modules'[k].name_ptr = CAP - 1
      <3> DEFINE e == modules[k].name_ptr + Written(dir[modules[k].file].name, modules[k].name_ptr)
      <3>1. e < namesPos \/ modules[k].name_ptr = CAP - 1
        BY <1>7 DEF IInv, NamesKept
      <3>2. e \in Nat /\ namesPos \in Nat /\ namesPos' \in Nat /\ namesPos <= namesPos'
        <4>1. namesPos \in Nat /\ namesPos' \in Nat /\ namesPos <= namesPos'
          BY <1>0, <1>5, ConstFacts DEF TypeOK
        <4>2. Written(dir[modules[k].file].name, modules[k].name_ptr) \in Nat
          BY <1>11, WrittenFacts
        <4>3. modules[k].name_ptr \in Nat
          BY <1>11, ConstFacts
        <4> QED
          BY <4>1, <4>2, <4>3
      <3>3. e < namesPos => e < namesPos'
        <4> HIDE DEF e
        <4> QED
          BY <3>2
      <3> QED
        BY <1>7, <3>1, <3>3
    <2>2. \/ m.name_ptr + Written(dir[m.file].name, m.name_ptr) < namesPos'
          \/ m.name_ptr = CAP - 1
      BY <1>5, <1>10
    <2>3. ASSUME NEW k \in 1..(n + 1)
          PROVE  \/ modules'[k].name_ptr + Written(dir[modules'[k].file].name, modules'[k].name_ptr) < namesPos'
                 \/ modules'[k].name_ptr = CAP - 1
      <3>1. CASE k \in 1..n
        BY <2>1, <3>1
      <3>2. CASE k = n + 1
        BY <1>7, <2>2, <3>2
      <3> QED
        BY <1>7, <3>1, <3>2
    <2> QED
      BY <1>0, <1>5, <1>7, <2>3 DEF NamesKept
  <1>13. NamesFaithful'
    <2>1. ASSUME NEW x \in Seq(Nat \ {0}), NEW ptr \in 0..(CAP - 1), NameAt(x, ptr),
                 ptr + Written(x, ptr) < namesPos \/ ptr = CAP - 1
          PROVE  NameAt(x, ptr)'
      <3>1. CASE ptr + Written(x, ptr) < namesPos
        <4>1. PICK pos : pos = namesPos
          OBVIOUS
        <4>2. pos \in Nat /\ \A b \in 0..(pos - 1) : names'[b] = names[b]
          BY <1>0, <1>5, <4>1, ConstFacts DEF TypeOK
        <4> QED
          BY <2>1, <3>1, <4>1, <4>2, NameSpared
      <3>2. CASE ptr = CAP - 1
        <4>1. Written(x, CAP - 1) = 0
          BY NameAtEnd
        <4> QED
          BY <1>5, <3>2, <4>1, ConstFacts DEF NameAt
      <3> QED
        BY <2>1, <3>1, <3>2
    <2>2. ASSUME NEW k \in 1..n
          PROVE  NameAt(dir[modules[k].file].name, modules[k].name_ptr)'
      <3>1. PICK x, ptr : x = dir[modules[k].file].name /\ ptr = modules[k].name_ptr
        OBVIOUS
      <3>2. NameAt(x, ptr) /\ (ptr + Written(x, ptr) < namesPos \/ ptr = CAP - 1)
        BY <1>7, <3>1 DEF IInv, NamesFaithful, NamesKept
      <3>3. NameAt(x, ptr)'
        BY <1>11, <2>1, <3>1, <3>2
      <3>4. x = dir'[modules'[k].file].name /\ ptr = modules'[k].name_ptr
        BY <1>0, <1>7, <3>1
      <3> QED
        BY <3>3, <3>4
    <2>3. NameAt(dir[modules[n + 1].file].name, modules[n + 1].name_ptr)'
      <3>1. modules'[n + 1] = m /\ dir'[m.file].name = name
        BY <1>0, <1>7, <1>10
      <3> QED
        BY <1>5, <3>1
    <2>4. ASSUME NEW k \in 1..(n + 1)
          PROVE  NameAt(dir[modules[k].file].name, modules[k].name_ptr)'
      <3>1. CASE k \in 1..n
        BY <2>2, <3>1
      <3>2. CASE k = n + 1
        BY <2>3, <3>2
      <3> QED
        BY <1>7, <3>1, <3>2
    <2> QED
      BY <1>7, <2>4 DEF NamesFaithful
  <1>14. ModulesIntact'
    <2>1. Intact(m)'
      BY <1>0, <1>3, <1>6, LoadedIntact
    <2>2. ASSUME NEW k \in 1..n PROVE Intact(modules[k])'
      <3>1. PICK x : x = modules[k]
        OBVIOUS
      <3>2. x \in Module /\ Intact(x)
        BY <1>7, <3>1 DEF IInv, ModulesIntact
      <3>3. Intact(x)'
        BY <1>3, <3>2, LoadingSpares
      <3>4. x = modules'[k]
        BY <1>7, <3>1
      <3> QED
        BY <3>3, <3>4
    <2> QED
      BY <1>7, <2>1, <2>2 DEF ModulesIntact
  <1>15. RefusedHandled'
    BY <1>0, <1>1 DEF IInv, RefusedHandled
  <1>16. LoadedInOrder'
    <2>1. {modules'[k].file : k \in 1..(n + 1)} = {modules[k].file : k \in 1..n} \cup {at}
      BY <1>7, <1>10
    <2>2. ToLoad' = ToLoad \cup {at}
      BY <1>0, <1>1 DEF ToLoad, Wanted
    <2>3. {modules'[k].file : k \in DOMAIN modules'} = ToLoad'
      BY <1>7, <2>1, <2>2 DEF IInv, LoadedInOrder, ToLoad
    <2>4. ASSUME NEW k \in 1..(n + 1), NEW l \in 1..(n + 1), k < l
          PROVE  modules'[k].file < modules'[l].file
      <3>1. CASE l \in 1..n
        BY <1>7, <2>4, <3>1 DEF IInv, LoadedInOrder
      <3>2. CASE l = n + 1
        BY <1>1, <1>7, <1>9, <1>10, <2>4, <3>2
      <3> QED
        BY <1>7, <3>1, <3>2
    <2> QED
      BY <1>7, <2>3, <2>4 DEF LoadedInOrder, ToLoad
  <1> QED
    BY <1>8, <1>12, <1>13, <1>14, <1>15, <1>16 DEF IInv

(* Every step of load_modules keeps the invariant.                        *)
LEMMA ModulesStep == IInv /\ [Next]_vars => IInv'
  <1> SUFFICES ASSUME IInv, [Next]_vars PROVE IInv'
    OBVIOUS
  <1>1. CASE UNCHANGED vars
    BY <1>1 DEF vars, IInv, TypeOK, NamesKept, RefusedHandled, NamesFaithful, NameAt, ModulesIntact,
                Intact, LoadedInOrder, Handled, Wanted
  <1> QED
    BY <1>1, QuietStep, ReadEntryStep, SkipStep, ReadGivenUp, LoadModuleStep DEF Next

-----------------------------------------------------------------------------
(* The strengthened invariant holds of every state the scan reaches.        *)
THEOREM Invariance == Spec => []IInv
  BY ModulesInit, ModulesStep, PTL DEF Spec

(* Every variable keeps its type: store_name never writes past the end of   *)
(* its buffer, however many names it is given and however long they are.    *)
THEOREM TypeCorrect == Spec => []TypeOK
  <1>1. IInv => TypeOK
    BY DEF IInv
  <1> QED
    BY Invariance, <1>1, PTL

(* Every name handed to the kernel is the file's, terminated, cut short     *)
(* only by the end of the buffer, and not disturbed by later names.         *)
THEOREM NamesSafe == Spec => []NamesFaithful
  <1>1. IInv => NamesFaithful
    BY DEF IInv
  <1> QED
    BY Invariance, <1>1, PTL

(* Every module stays what its file was, zeros to the end of its last page, *)
(* below four gigabytes, whatever is loaded or given up after it.           *)
THEOREM ContentsSafe == Spec => []ModulesIntact
  <1>1. IInv => ModulesIntact
    BY DEF IInv
  <1> QED
    BY Invariance, <1>1, PTL

(* The modules are the files the scan could have, each once and in the      *)
(* directory's order.                                                       *)
THEOREM OrderSafe == Spec => []LoadedInOrder
  <1>1. IInv => LoadedInOrder
    BY DEF IInv
  <1> QED
    BY Invariance, <1>1, PTL

-----------------------------------------------------------------------------
(* What the scan is to the rest of the boot                                 *)

RunsHeld ==
  /\ Len(dir) <= MaxEntries
  /\ Len(modules) <= Handled
  /\ \A k \in DOMAIN modules : RunOf(modules[k]) \cap free = {}

HeldInv == IInv /\ RunsHeld

(* The module for the entry in hand. *)
NewModule(p) == [name_ptr |-> NamePtr(namesPos), phys_start |-> p * PageSize,
                 size |-> dir[at].size, file |-> at]

(* A file that is not empty takes a page at least. *)
LEMMA NumPagesPositive ==
  ASSUME NEW size \in Nat \ {0}
  PROVE  NumPages(size) \in Nat \ {0}
  <1>1. PageSize \in Nat \ {0} /\ size + PageSize - 1 \in Nat /\ 1 \in Nat
    BY ConstFacts
  <1>2. PageSize * 1 <= size + PageSize - 1
    BY <1>1
  <1>3. 1 <= (size + PageSize - 1) \div PageSize /\ (size + PageSize - 1) \div PageSize \in Nat
    BY <1>1, <1>2, DivBounds, DivBelow
  <1> QED
    BY <1>3 DEF NumPages

(* The pages of a module are those it was loaded to. *)
LEMMA RunOfNew ==
  ASSUME NEW p \in Nat, NEW size \in Nat \ {0}, NEW m,
         m.phys_start = p * PageSize, m.size = size
  PROVE  /\ NumPages(size) \in Nat \ {0}
         /\ RunOf(m) = p..(p + NumPages(size) - 1)
  <1>1. PageSize \in Nat \ {0}
    BY ConstFacts
  <1>2. (p * PageSize) \div PageSize = p
    <2>1. PageSize * p <= p * PageSize /\ p * PageSize < PageSize * (p + 1) /\ p * PageSize \in Nat
          /\ p + 1 \in Nat
      BY <1>1
    <2>2. (p * PageSize) \div PageSize \in Nat
      BY <1>1, <2>1, DivBounds
    <2>3. p <= (p * PageSize) \div PageSize
      BY <1>1, <2>1, DivBelow
    <2>4. (p * PageSize) \div PageSize < p + 1
      BY <1>1, <2>1, DivBelow
    <2> QED
      BY <2>2, <2>3, <2>4
  <1> QED
    BY <1>2, NumPagesPositive DEF RunOf

(* The scan begins with nothing held.                                       *)
LEMMA HeldInit == Init => HeldInv
  <1> SUFFICES ASSUME Init PROVE RunsHeld
    BY ModulesInit DEF HeldInv
  <1>1. Len(dir) <= MaxEntries
    <2>1. PICK n \in 0..MaxEntries : dir \in [1..n -> Entries]
      BY DEF Init
    <2>2. n \in Nat /\ Len(dir) = n
      BY <2>1, ModulesConstants
    <2> QED
      BY <2>1, <2>2, ModulesConstants
  <1>2. modules = <<>> /\ DOMAIN modules = {} /\ Len(modules) = 0 /\ Handled = 0
    BY DEF Init, Handled
  <1> QED
    BY <1>1, <1>2 DEF RunsHeld

(* What a step that adds a module does to those there are. *)
LEMMA ModuleAdded ==
  ASSUME HeldInv, LoadModule
  PROVE  \E p \in Nat :
           LET n == NumPages(dir[at].size)
               run == p..(p + n - 1)
           IN  /\ n \in Nat \ {0} /\ Allocate(p, n) /\ mem' = Filled(at, p, n, dir[at].size)
               /\ run \subseteq free /\ p + n <= LowPages /\ p \in run
               /\ at \in 1..Len(dir) /\ Handled' = Handled + 1 /\ Handled < Len(dir)
               /\ modules' = Append(modules, NewModule(p))
               /\ RunOf(NewModule(p)) = run
  <1>0. IInv /\ pc = "entry" /\ pc' = "read" /\ UNCHANGED <<dir, at>> /\ Wanted(dir[at])
    BY DEF HeldInv, LoadModule
  <1>1. at \in 1..Len(dir) /\ Handled = at - 1 /\ Handled' = at
    BY <1>0, EntryDone
  <1>2. dir[at].size \in Nat \ {0}
    <2>1. dir[at].size \in Nat
      BY <1>0, <1>1, EntryFacts DEF IInv
    <2> QED
      BY <1>0, <2>1 DEF Wanted
  <1>3. PICK p \in Page :
          /\ Allocate(p, NumPages(dir[at].size))
          /\ mem' = Filled(at, p, NumPages(dir[at].size), dir[at].size)
          /\ modules' = Append(modules, NewModule(p))
    BY DEF LoadModule, NewModule
  <1>4. p \in Nat
    BY ConstFacts DEF Page
  <1>5. /\ NumPages(dir[at].size) \in Nat \ {0}
        /\ RunOf(NewModule(p)) = p..(p + NumPages(dir[at].size) - 1)
    <2>1. NewModule(p).phys_start = p * PageSize /\ NewModule(p).size = dir[at].size
      BY DEF NewModule
    <2> QED
      BY <1>2, <1>4, <2>1, RunOfNew
  <1>6. p \in p..(p + NumPages(dir[at].size) - 1)
    BY <1>4, <1>5
  <1>7. /\ p..(p + NumPages(dir[at].size) - 1) \subseteq free
        /\ p + NumPages(dir[at].size) <= LowPages
    BY <1>3 DEF Allocate, FreeRun
  <1>8. Handled' = Handled + 1 /\ Handled < Len(dir)
    BY <1>1
  <1> QED
    BY <1>1, <1>3, <1>4, <1>5, <1>6, <1>7, <1>8

(* Every step keeps what modules hold theirs.                               *)
LEMMA HeldStep == HeldInv /\ [Next]_vars => HeldInv'
  <1> SUFFICES ASSUME HeldInv, [Next]_vars PROVE RunsHeld'
    BY ModulesStep DEF HeldInv
  <1>0. TypeOK /\ RunsHeld
    BY DEF HeldInv, IInv
  <1>1. ASSUME UNCHANGED <<dir, modules>>, free' \subseteq free, Handled <= Handled',
               Handled' \in Nat
        PROVE  RunsHeld'
    <2>1. \A k \in DOMAIN modules : RunOf(modules[k])' = RunOf(modules[k])
      BY <1>1 DEF RunOf, NumPages
    <2>2. Len(modules) <= Handled'
      <3>1. Len(modules) \in Nat /\ Handled \in Nat
        BY <1>0, ConstFacts DEF TypeOK, Handled
      <3> QED
        BY <1>0, <1>1, <3>1 DEF RunsHeld
    <2> QED
      BY <1>0, <1>1, <2>1, <2>2 DEF RunsHeld
  <1>2. at \in Nat /\ (pc = "entry" => at > 0)
    BY <1>0 DEF TypeOK
  <1>3. CASE \/ OpenDirectory \/ NoDirectory \/ OpenPanics \/ EndScan \/ ReadEntryFails
             \/ ReadEntryTooSmall \/ SkipLongEntry \/ ReadEntry
    <2>1. UNCHANGED <<dir, modules, free>> /\ Handled' = Handled /\ Handled \in Nat
      BY <1>2, <1>3 DEF OpenDirectory, NoDirectory, OpenPanics, EndScan, ReadEntryFails,
                        ReadEntryTooSmall, SkipLongEntry, ReadEntry, Handled
    <2> QED
      BY <1>1, <2>1
  <1>4. CASE SkipEntry \/ OpenFails \/ NoRoom \/ ReadPanics \/ ShortRead
    <2>1. UNCHANGED <<dir, at, modules>> /\ pc = "entry" /\ pc' # "entry" /\ free' \subseteq free
      BY <1>4 DEF SkipEntry, OpenFails, NoRoom, ReadPanics, ShortRead, Allocate
    <2>2. Handled = at - 1 /\ Handled' = at
      BY <2>1 DEF Handled
    <2> QED
      BY <1>1, <1>2, <2>1, <2>2
  <1>5. CASE LoadModule
    <2>1. PICK p \in Nat :
            /\ Allocate(p, NumPages(dir[at].size)) /\ NumPages(dir[at].size) \in Nat \ {0}
            /\ p..(p + NumPages(dir[at].size) - 1) \subseteq free
            /\ Handled' = Handled + 1
            /\ modules' = Append(modules, NewModule(p))
            /\ RunOf(NewModule(p)) = p..(p + NumPages(dir[at].size) - 1)
      BY <1>5, ModuleAdded
    <2>m. PICK m : m = NewModule(p)
      OBVIOUS
    <2>2. dir' = dir
      BY <1>5 DEF LoadModule
    <2>3. free' = free \ RunOf(m)
      BY <2>1, <2>m DEF Allocate
    <2>4. PICK n : n = Len(modules)
      OBVIOUS
    <2>5. /\ n \in Nat /\ DOMAIN modules = 1..n /\ DOMAIN modules' = 1..(n + 1)
          /\ modules'[n + 1] = m /\ \A k \in 1..n : modules'[k] = modules[k]
          /\ Len(modules') = n + 1
      BY <1>0, <2>1, <2>m, <2>4 DEF TypeOK
    <2>6. \A k \in 1..(n + 1) : RunOf(modules'[k]) \cap free' = {}
      <3>1. \A k \in 1..n : RunOf(modules[k]) \cap free = {}
        BY <1>0, <2>5 DEF RunsHeld
      <3>2. ASSUME NEW k \in 1..(n + 1) PROVE RunOf(modules'[k]) \cap free' = {}
        <4>1. CASE k \in 1..n
          BY <2>3, <2>5, <3>1, <4>1
        <4>2. CASE k = n + 1
          BY <2>3, <2>5, <4>2
        <4> QED
          BY <2>5, <4>1, <4>2
      <3> QED
        BY <3>2
    <2>7. Len(modules') <= Handled'
      <3>1. Handled \in Nat /\ n <= Handled
        BY <1>0, <1>2, <2>4 DEF RunsHeld, Handled
      <3> QED
        BY <2>1, <2>5, <3>1
    <2>8. \A k \in DOMAIN modules' : RunOf(modules[k])' = RunOf(modules'[k])
      BY DEF RunOf, NumPages
    <2> QED
      BY <1>0, <2>2, <2>5, <2>6, <2>7, <2>8 DEF RunsHeld
  <1>6. CASE UNCHANGED vars
    <2>1. UNCHANGED <<dir, modules, free>> /\ Handled' = Handled /\ Handled \in Nat
      BY <1>2, <1>6 DEF vars, Handled
    <2> QED
      BY <1>1, <2>1
  <1> QED
    BY <1>3, <1>4, <1>5, <1>6 DEF Next

HoldsRight ==
  \A q \in Page : PageHolds(q) = IF InModule(q) THEN "module"
                                 ELSE IF Untouched(q) THEN Before[q] ELSE "unread"

(* While every module is intact, a page holds a module when one is there.   *)
LEMMA PageHoldsIs == ModulesIntact => HoldsRight
  <1> SUFFICES ASSUME ModulesIntact, NEW q \in Page
               PROVE  PageHolds(q) = IF InModule(q) THEN "module"
                                     ELSE IF Untouched(q) THEN Before[q] ELSE "unread"
    BY DEF HoldsRight
  <1>1. HasModule(q) <=> InModule(q)
    BY DEF ModulesIntact, HasModule, InModule
  <1>2. CASE InModule(q)
    BY <1>1, <1>2 DEF PageHolds
  <1>3. CASE ~InModule(q)
    BY <1>1, <1>3 DEF PageHolds
  <1> QED
    BY <1>2, <1>3

(* The same of the state after a step.                                      *)
LEMMA PageHoldsThen == ModulesIntact' => HoldsRight'
  BY PageHoldsIs, PTL

(* The pages a file is read into have all been written to, and no other.    *)
LEMMA FilledPages ==
  ASSUME NEW p \in Nat, NEW n \in Nat, NEW file, file # 0, NEW len,
         p + n <= LowPages, mem' = Filled(file, p, n, len), NEW q \in Page
  PROVE  /\ q \in p..(p + n - 1) => ~Untouched(q)'
         /\ q \notin p..(p + n - 1) => (Untouched(q)' <=> Untouched(q))
  <1>1. ASSUME q \in p..(p + n - 1) PROVE ~Untouched(q)'
    <2>1. q \in Nat /\ q + 1 <= LowPages /\ 1 \in Nat /\ PageSize \in Nat \ {0}
      BY <1>1, ConstFacts DEF Page
    <2>2. 0 \in 0..(PageSize * 1 - 1)
      BY <2>1
    <2>3. q * PageSize + 0 \in Address /\ (q * PageSize + 0) \div PageSize \in q..(q + 1 - 1)
      BY <2>1, <2>2, RunBytes
    <2>4. PICK a \in Address : a \div PageSize = q
      BY <2>1, <2>3
    <2>5. mem'[a] # Junk
      <3>1. mem'[a] = FileByte(file, a - p * PageSize) \/ mem'[a] = Zero
        BY <1>1, <2>4 DEF Filled
      <3> QED
        BY <3>1 DEF FileByte, Zero, Junk
    <2> QED
      BY <2>4, <2>5 DEF Untouched
  <1>2. ASSUME q \notin p..(p + n - 1) PROVE Untouched(q)' <=> Untouched(q)
    BY <1>2 DEF Untouched, Filled
  <1> QED
    BY <1>1, <1>2

(* What ModuleLoading sees of the modules and of a page is a matter of the  *)
(* modules and memory alone.                                                *)
LEMMA SeenKept ==
  ASSUME UNCHANGED <<modules, free, mem>>
  PROVE  /\ [q \in Page |-> PageHolds(q)]' = [q \in Page |-> PageHolds(q)]
         /\ [k \in DOMAIN modules |-> RunOf(modules[k])]'
              = [k \in DOMAIN modules |-> RunOf(modules[k])]
  BY DEF PageHolds, HasModule, InModule, Untouched, Intact, RunOf, NumPages

(* A file read in part or not at all takes its pages, and no module comes.  *)
LEMMA GivenUpUnread ==
  ASSUME HeldInv, HeldInv', ReadPanics \/ ShortRead
  PROVE  ML!ModuleUnread
  <1>0. /\ TypeOK /\ ModulesIntact /\ ModulesIntact' /\ RunsHeld
        /\ pc = "entry" /\ pc' \in {"read", "panic"} /\ Wanted(dir[at])
        /\ UNCHANGED <<dir, at, modules>>
    BY DEF HeldInv, IInv, ReadPanics, ShortRead
  <1>1. at \in 1..Len(dir) /\ dir[at] \in Entries /\ dir[at].size \in Nat \ {0}
    <2>1. at \in 1..Len(dir)
      BY <1>0 DEF TypeOK
    <2>2. dir[at].size \in Nat /\ dir[at].size # 0
      BY <1>0, <2>1, EntryFacts DEF Wanted
    <2> QED
      BY <1>0, <2>1, <2>2 DEF TypeOK
  <1>n. PICK n : n = NumPages(dir[at].size)
    OBVIOUS
  <1>2. PICK p, len : p \in Page /\ Allocate(p, n) /\ mem' = Filled(at, p, n, len)
    <2>1. CASE ReadPanics
      BY <1>n, <2>1 DEF ReadPanics
    <2>2. CASE ShortRead
      BY <1>n, <2>2 DEF ShortRead
    <2> QED
      BY <2>1, <2>2
  <1>3. p \in Nat /\ n \in Nat \ {0} /\ p \in p..(p + n - 1)
    <2>1. p \in Nat
      BY <1>2, ConstFacts DEF Page
    <2>2. n \in Nat \ {0}
      BY <1>1, <1>n, <2>1, NumPagesPositive
    <2> QED
      BY <2>1, <2>2
  <1>4. p + n <= LowPages /\ p..(p + n - 1) \subseteq free /\ free' = free \ (p..(p + n - 1))
    BY <1>2 DEF Allocate, FreeRun
  <1>5. \A q \in Page : InModule(q)' <=> InModule(q)
    BY <1>0 DEF InModule, RunOf, NumPages
  <1>6. \A q \in p..(p + n - 1) : ~InModule(q)
    BY <1>0, <1>4 DEF RunsHeld, InModule
  <1>7. ASSUME NEW q \in Page
        PROVE  PageHolds(q)' = IF q \in p..(p + n - 1) THEN "unread" ELSE PageHolds(q)
    <2>1. PageHolds(q) = IF InModule(q) THEN "module"
                         ELSE IF Untouched(q) THEN Before[q] ELSE "unread"
      BY <1>0, PageHoldsIs DEF HoldsRight
    <2>2. PageHolds(q)' = IF InModule(q)' THEN "module"
                          ELSE IF Untouched(q)' THEN Before[q] ELSE "unread"
      BY <1>0, PageHoldsThen DEF HoldsRight
    <2>3. at # 0
      BY <1>1
    <2>4. /\ q \in p..(p + n - 1) => ~Untouched(q)'
          /\ q \notin p..(p + n - 1) => (Untouched(q)' <=> Untouched(q))
      BY <1>2, <1>3, <1>4, <2>3, FilledPages
    <2> QED
      BY <1>5, <1>6, <2>1, <2>2, <2>4
  <1>8. [q \in Page |-> PageHolds(q)]'
          = [q \in Page |-> IF q \in p..(p + n - 1) THEN "unread" ELSE [r \in Page |-> PageHolds(r)][q]]
    BY <1>7
  <1>9. n \in {NumPages(e.size) : e \in {f \in Entries : Wanted(f)}}
    BY <1>0, <1>1, <1>n
  <1>10. ML!TakeRun(ML!Run(p, n), "unread")
    <2>1. ML!Below32(p..(p + n - 1))
      BY <1>3, <1>4, ConstFacts DEF ML!Below32
    <2> QED
      BY <1>4, <1>8, <2>1 DEF ML!TakeRun, ML!Run
  <1>11. p \in free
    BY <1>3, <1>4
  <1>12. [k \in DOMAIN modules |-> RunOf(modules[k])]' = [k \in DOMAIN modules |-> RunOf(modules[k])]
    BY <1>0 DEF RunOf, NumPages
  <1> QED
    BY <1>0, <1>9, <1>10, <1>11, <1>12 DEF ML!ModuleUnread

(* A file read whole takes its pages and is a module.                       *)
LEMMA LoadedIsModule ==
  ASSUME HeldInv, HeldInv', LoadModule
  PROVE  ML!LoadModule
  <1>0. /\ TypeOK /\ ModulesIntact /\ ModulesIntact' /\ RunsHeld /\ RunsHeld'
        /\ pc = "entry" /\ pc' = "read" /\ Wanted(dir[at]) /\ UNCHANGED <<dir, at>>
    BY DEF HeldInv, IInv, LoadModule
  <1>n. PICK n : n = NumPages(dir[at].size)
    OBVIOUS
  <1>1. PICK p \in Nat :
          /\ n \in Nat \ {0} /\ Allocate(p, n) /\ mem' = Filled(at, p, n, dir[at].size)
          /\ p..(p + n - 1) \subseteq free /\ p + n <= LowPages /\ p \in p..(p + n - 1)
          /\ at \in 1..Len(dir) /\ Handled < Len(dir)
          /\ modules' = Append(modules, NewModule(p))
          /\ RunOf(NewModule(p)) = p..(p + n - 1)
    BY <1>n, ModuleAdded
  <1>m. PICK m : m = NewModule(p)
    OBVIOUS
  <1>2. free' = free \ (p..(p + n - 1))
    BY <1>1 DEF Allocate
  <1>l. PICK l : l = Len(modules)
    OBVIOUS
  <1>3. /\ l \in Nat /\ DOMAIN modules = 1..l /\ DOMAIN modules' = 1..(l + 1)
        /\ modules'[l + 1] = m /\ \A k \in 1..l : modules'[k] = modules[k]
    BY <1>0, <1>1, <1>m, <1>l DEF TypeOK
  <1>4. /\ RunOf(modules'[l + 1]) = p..(p + n - 1)
        /\ \A k \in 1..l : RunOf(modules'[k]) = RunOf(modules[k])
    BY <1>1, <1>m, <1>3
  <1>5. \A k \in 1..(l + 1) : RunOf(modules[k])' = RunOf(modules'[k])
    BY DEF RunOf, NumPages
  <1>6. \A q \in Page : InModule(q)' <=> InModule(q) \/ q \in p..(p + n - 1)
    <2>1. \A q \in Page : InModule(q)' <=> \E k \in 1..(l + 1) : q \in RunOf(modules'[k])
      BY <1>3, <1>5 DEF InModule
    <2>2. \A q \in Page : InModule(q) <=> \E k \in 1..l : q \in RunOf(modules[k])
      BY <1>3 DEF InModule
    <2>3. 1..(l + 1) = (1..l) \cup {l + 1}
      BY <1>3
    <2> QED
      BY <1>4, <2>1, <2>2, <2>3
  <1>7. ASSUME NEW q \in Page
        PROVE  PageHolds(q)' = IF q \in p..(p + n - 1) THEN "module" ELSE PageHolds(q)
    <2>1. PageHolds(q) = IF InModule(q) THEN "module"
                         ELSE IF Untouched(q) THEN Before[q] ELSE "unread"
      BY <1>0, PageHoldsIs DEF HoldsRight
    <2>2. PageHolds(q)' = IF InModule(q)' THEN "module"
                          ELSE IF Untouched(q)' THEN Before[q] ELSE "unread"
      BY <1>0, PageHoldsThen DEF HoldsRight
    <2>3. at # 0
      BY <1>1
    <2>4. q \notin p..(p + n - 1) => (Untouched(q)' <=> Untouched(q))
      BY <1>1, <2>3, FilledPages
    <2> QED
      BY <1>6, <2>1, <2>2, <2>4
  <1>8. [q \in Page |-> PageHolds(q)]'
          = [q \in Page |-> IF q \in p..(p + n - 1) THEN "module" ELSE [r \in Page |-> PageHolds(r)][q]]
    BY <1>7
  <1>9. n \in {NumPages(e.size) : e \in {f \in Entries : Wanted(f)}}
    <2>1. dir[at] \in Entries
      BY <1>0, <1>1 DEF TypeOK
    <2> QED
      BY <1>0, <1>n, <2>1
  <1>10. ML!TakeRun(ML!Run(p, n), "module")
    <2>1. ML!Below32(p..(p + n - 1))
      BY <1>1, ConstFacts DEF ML!Below32
    <2> QED
      BY <1>1, <1>2, <1>8, <2>1 DEF ML!TakeRun, ML!Run
  <1> DEFINE Told == [k \in DOMAIN modules |-> RunOf(modules[k])]
  <1>11. Told' = Append(Told, p..(p + n - 1))
    <2>1. Told' = [k \in 1..(l + 1) |-> RunOf(modules'[k])]
      BY <1>3, <1>5
    <2>2. Told = [k \in 1..l |-> RunOf(modules[k])] /\ Len(Told) = l
      BY <1>3
    <2>3. Append(Told, p..(p + n - 1))
            = [k \in 1..(l + 1) |-> IF k = l + 1 THEN p..(p + n - 1) ELSE Told[k]]
      BY <1>3, <2>2
    <2>4. \A k \in 1..(l + 1) :
            RunOf(modules'[k]) = IF k = l + 1 THEN p..(p + n - 1) ELSE Told[k]
      BY <1>3, <1>4, <2>2
    <2> QED
      BY <2>1, <2>3, <2>4
  <1>12. Len(Told) < MaxEntries
    <2>1. Len(Told) = l
      BY <1>3
    <2>2. l <= Handled /\ Handled < Len(dir) /\ Len(dir) <= MaxEntries
      BY <1>0, <1>1, <1>l DEF RunsHeld
    <2>3. Handled \in Int /\ Len(dir) \in Nat /\ MaxEntries \in Nat
      BY <1>0, <1>1, ModulesConstants DEF TypeOK, Handled
    <2> QED
      BY <1>3, <2>1, <2>2, <2>3
  <1>13. p \in free
    BY <1>1
  <1> QED
    BY <1>0, <1>9, <1>10, <1>11, <1>12, <1>13 DEF ML!LoadModule, ML!Run

(* The scan is, to the rest of the boot, what ModuleLoading says: whatever  *)
(* the directory has in it, each pass of load_modules' loop takes free      *)
(* pages for one file below the line or does nothing anybody can see.       *)
THEOREM LoadingRefinesModules == Spec => ImplementsModuleLoading
  <1>1. ASSUME HeldInv, HeldInv', [Next]_vars
        PROVE  [ML!ModulesNext]_(ML!moduleVars)
    <2>1. CASE ReadPanics \/ ShortRead
      BY <1>1, <2>1, GivenUpUnread DEF ML!ModulesNext
    <2>2. CASE LoadModule
      BY <1>1, <2>2, LoadedIsModule DEF ML!ModulesNext
    <2>3. CASE NoDirectory \/ EndScan \/ ReadEntryFails
      <3>1. pc \in {"open", "read"} /\ pc' = "done" /\ UNCHANGED <<modules, free, mem>>
        BY <2>3 DEF NoDirectory, EndScan, ReadEntryFails
      <3> QED
        BY <3>1, SeenKept DEF ML!ModulesNext, ML!ModulesLoaded
    <2>4. CASE OpenPanics
      <3>1. pc = "open" /\ pc' = "panic" /\ UNCHANGED <<modules, free, mem>>
        BY <2>4 DEF OpenPanics
      <3> QED
        BY <3>1, SeenKept DEF ML!ModulesNext, ML!ModulesPanic
    <2>5. CASE \/ OpenDirectory \/ ReadEntryTooSmall \/ SkipLongEntry \/ ReadEntry
               \/ SkipEntry \/ OpenFails \/ NoRoom
      <3>1. /\ pc \notin {"done", "panic"} /\ pc' \notin {"done", "panic"}
            /\ UNCHANGED <<modules, free, mem>>
        BY <2>5 DEF OpenDirectory, ReadEntryTooSmall, SkipLongEntry, ReadEntry, SkipEntry,
                    OpenFails, NoRoom
      <3> QED
        BY <3>1, SeenKept DEF ML!moduleVars, ML!fileVars
    <2>6. CASE UNCHANGED vars
      <3>1. UNCHANGED <<pc, modules, free, mem>>
        BY <2>6 DEF vars
      <3> QED
        BY <3>1, SeenKept DEF ML!moduleVars, ML!fileVars
    <2> QED
      BY <1>1, <2>1, <2>2, <2>3, <2>4, <2>5, <2>6 DEF Next
  <1> QED
    BY HeldInit, HeldStep, <1>1, PTL DEF Spec, ImplementsModuleLoading
=============================================================================
