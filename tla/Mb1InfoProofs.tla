--------------------------- MODULE Mb1InfoProofs ----------------------------
(***************************************************************************)
(* What build_mb1_info promises for any size of its four parts, any memory  *)
(* map and any modules.                                                     *)
(*                                                                         *)
(* A write spoils nothing because the element it fills lies in its own part *)
(* and after those already there; BytesInv says what every byte that has    *)
(* been written holds, and that the names still to come are blank, which is *)
(* what terminates the ones that are there.                                 *)
(***************************************************************************)
EXTENDS Mb1Info, TLAPS, WellFoundedInduction

(* Where element i of each array is. *)
ModAt(i)  == MODULES_AT + i * ModuleSize
NameAt(i) == NAMES_AT + i * NameMax
MmapAt(i) == MMAP_AT + i * MmapEntrySize

(* Entry i of the modules, as it is written. *)
EntryOf(i) ==
  [mod_start |-> modules[i].phys_start % Word32,
   mod_end   |-> (modules[i].phys_start + modules[i].size) % Word32,
   string    |-> InfoAt + NameAt(i - 1)]

MapWritten ==
  \A i \in 0..(mmap_count - 1), k \in 0..(MmapEntrySize - 1) :
    buf[MmapAt(i) + k] = <<"mmap", i, k>>

ModsWritten ==
  \A i \in 0..(Len(mods) - 1), k \in 0..(ModuleSize - 1) : buf[ModAt(i) + k] = <<"mod", i, k>>

NamesWritten ==
  \A i \in 0..(Len(mods) - 1) :
    LET name == modules[i + 1].name
    IN  /\ \A k \in 0..(Copied(name) - 1) : buf[NameAt(i) + k] = <<"char", name[k + 1], 0>>
        /\ buf[NameAt(i) + Copied(name)] = Zero

NamesBlank == \A k \in NameAt(Len(mods))..(MMAP_AT - 1) : buf[k] = Zero

BeyondKept == \A k \in InfoSize..(InfoSize + Beyond - 1) : buf[k] = <<"other", 0, 0>>

BytesInv == MapWritten /\ ModsWritten /\ NamesWritten /\ NamesBlank /\ BeyondKept

(* How far each part is, and what the structure says when it is written.    *)
PartsInv ==
  /\ map \in Seq(Descs) /\ modules \in Seq(Mods)
  /\ mods \in Seq([mod_start : Nat, mod_end : Nat, string : Nat])
  /\ \A i \in 1..Len(mods) : mods[i] = EntryOf(i)
  /\ pc = "mmap" => mods = <<>>
  /\ pc \in {"info", "done"} => Len(mods) = ModCount
  /\ pc = "done" =>
       /\ \A k \in 0..(MbiSize - 1) : buf[k] = <<"mbi", 0, k>>
       /\ "MODS" \in mbi.flags <=> ModCount > 0
       /\ mbi.mods_count = ModCount
       /\ ModCount > 0 => mbi.mods_addr = InfoAt + MODULES_AT
       /\ mbi.mmap_length = mmap_count * MmapEntrySize
       /\ mbi.mmap_addr = InfoAt + MMAP_AT

(* The sums so far, and whether the region at one megabyte has been met.    *)
SumsInv ==
  /\ mem_upper = KiBOf(SinceFirst)[mmap_count]
  /\ mem_upper > 0 <=> \E f \in 1..mmap_count : IsFirst(f)
  /\ pc = "mmap" => mem_lower = KiBOf(Lower)[mmap_count]
  /\ pc # "mmap" => /\ mem_lower = Min({640, KiBOf(Lower)[mmap_count]})
                    /\ mmap_count < Len(map) => mmap_count = MMAP_MAX
  /\ pc = "done" => mbi.mem_upper = mem_upper % Word32 /\ mbi.mem_lower = mem_lower % Word32

IInv == TypeOK /\ PartsInv /\ BytesInv /\ SumsInv

-----------------------------------------------------------------------------
(* The smaller of two numbers. *)
LEMMA MinOfTwo ==
  ASSUME NEW a \in Int, NEW b \in Int
  PROVE  Min({a, b}) = IF a <= b THEN a ELSE b
  <1> DEFINE c == IF a <= b THEN a ELSE b
  <1>1. c \in {a, b} /\ \A y \in {a, b} : c <= y
    OBVIOUS
  <1>2. Min({a, b}) \in {a, b} /\ \A y \in {a, b} : Min({a, b}) <= y
    BY <1>1, Zenon DEF Min
  <1> QED
    BY <1>2

(* Where the parts begin, from the assumption on the constants.             *)
LEMMA PartSizes ==
  /\ InfoSize \in Nat /\ Beyond \in Nat /\ MaxModules \in Nat /\ NameMax \in Nat \ {0}
  /\ NAMES_AT \in Nat /\ NAMES_AT = 64 + 16 * MaxModules
  /\ MMAP_AT \in Nat /\ MMAP_AT = NAMES_AT + NameMax * MaxModules
  /\ NAMES_AT <= MMAP_AT /\ MMAP_AT <= InfoSize
  /\ Word32 \in Nat \ {0} /\ InfoAt \in Nat
  /\ MMAP_MAX \in Nat /\ MMAP_AT + 24 * MMAP_MAX <= InfoSize
  <1>1. /\ InfoSize \in Nat /\ Beyond \in Nat /\ MaxModules \in Nat /\ NameMax \in Nat \ {0}
        /\ Word32 \in Nat /\ InfoAt \in Nat /\ InfoAt + InfoSize <= Word32 /\ InfoSize >= MMAP_AT
    BY Mb1Constants
  <1>2. NAMES_AT \in Nat /\ NAMES_AT = 64 + 16 * MaxModules
    BY <1>1 DEF NAMES_AT, MODULES_AT, ModuleSize
  <1>3. NameMax * MaxModules \in Nat /\ MaxModules * NameMax = NameMax * MaxModules
    BY <1>1
  <1>4. MMAP_AT \in Nat /\ MMAP_AT = NAMES_AT + NameMax * MaxModules
    BY <1>2, <1>3 DEF MMAP_AT
  <1>5. MMAP_MAX \in Nat /\ 24 * MMAP_MAX <= InfoSize - MMAP_AT
    BY <1>1, <1>4 DEF MMAP_MAX, MmapEntrySize
  <1> QED
    BY <1>1, <1>2, <1>3, <1>4, <1>5

(* The same without the product. *)
LEMMA Sizes ==
  /\ InfoSize \in Nat /\ Beyond \in Nat /\ MaxModules \in Nat /\ NameMax \in Nat \ {0}
  /\ NAMES_AT \in Nat /\ MMAP_AT \in Nat
  /\ 64 <= NAMES_AT /\ NAMES_AT <= MMAP_AT /\ MMAP_AT <= InfoSize
  /\ Word32 \in Nat \ {0} /\ InfoAt \in Nat /\ MMAP_MAX \in Nat
  BY PartSizes

(* Names follow each other without a gap.                                   *)
LEMMA NamePlaces ==
  /\ \A i \in Nat : NameMax * i \in Nat /\ NameMax * (i + 1) = NameMax * i + NameMax
  /\ \A i, j \in Nat : i < j => NameMax * i + NameMax <= NameMax * j
  <1>1. NameMax \in Nat \ {0}
    BY Sizes
  <1>2. ASSUME NEW i \in Nat, NEW j \in Nat, i < j
        PROVE  NameMax * i + NameMax <= NameMax * j
    <2>1. j - (i + 1) \in Nat
      BY <1>2
    <2>2. NameMax * (j - (i + 1)) \in Nat
      BY <1>1, <2>1
    <2>3. NameMax * (j - (i + 1)) = NameMax * j - (NameMax * i + NameMax)
      BY <1>1
    <2>4. NameMax * j \in Nat /\ NameMax * i + NameMax \in Nat
      BY <1>1
    <2> QED
      BY <2>2, <2>3, <2>4
  <1>3. ASSUME NEW i \in Nat
        PROVE  NameMax * i \in Nat /\ NameMax * (i + 1) = NameMax * i + NameMax
    BY <1>1
  <1> QED
    BY <1>2, <1>3

(* Every element lies in its own part, and after those before it.           *)
LEMMA Places ==
  /\ \A i \in Nat : /\ ModAt(i) \in Nat /\ ModAt(i) >= 64
                    /\ NameAt(i) \in Nat /\ NameAt(i) >= NAMES_AT
                    /\ NameAt(i + 1) = NameAt(i) + NameMax
                    /\ MmapAt(i) \in Nat /\ MmapAt(i) >= MMAP_AT
  /\ \A i \in Nat : i < MaxModules => /\ ModAt(i) + 16 <= NAMES_AT
                                      /\ NameAt(i) + NameMax <= MMAP_AT
  /\ \A i \in Nat : i < MMAP_MAX => MmapAt(i) + 24 <= InfoSize
  /\ \A i, j \in Nat : i < j => /\ ModAt(i) + 16 <= ModAt(j)
                                /\ NameAt(i) + NameMax <= NameAt(j)
                                /\ MmapAt(i) + 24 <= MmapAt(j)
  <1> DEFINE off(i) == NameMax * i
  <1>1. ASSUME NEW i \in Nat
        PROVE  /\ ModAt(i) = 64 + 16 * i /\ MmapAt(i) = MMAP_AT + 24 * i
               /\ NameAt(i) = NAMES_AT + off(i)
    <2>1. i * NameMax = NameMax * i
      BY Sizes
    <2> QED
      BY <2>1, Sizes DEF ModAt, MmapAt, NameAt, MODULES_AT, ModuleSize, MmapEntrySize
  <1>2. /\ MaxModules \in Nat /\ NameMax \in Nat /\ NAMES_AT \in Nat /\ NAMES_AT = 64 + 16 * MaxModules
        /\ MMAP_AT \in Nat /\ MMAP_AT = NAMES_AT + off(MaxModules)
        /\ MMAP_MAX \in Nat /\ MMAP_AT + 24 * MMAP_MAX <= InfoSize /\ InfoSize \in Nat
    BY PartSizes
  <1>3. /\ \A i \in Nat : off(i) \in Nat /\ off(i + 1) = off(i) + NameMax
        /\ \A i, j \in Nat : i < j => off(i) + NameMax <= off(j)
    BY NamePlaces
  <1> HIDE DEF off
  <1>4. ASSUME NEW i \in Nat
        PROVE  /\ ModAt(i) \in Nat /\ ModAt(i) >= 64
               /\ NameAt(i) \in Nat /\ NameAt(i) >= NAMES_AT
               /\ NameAt(i + 1) = NameAt(i) + NameMax
               /\ MmapAt(i) \in Nat /\ MmapAt(i) >= MMAP_AT
    <2>1. off(i) \in Nat /\ off(i + 1) = off(i) + NameMax /\ i + 1 \in Nat
      BY <1>3
    <2>2. ModAt(i) = 64 + 16 * i /\ MmapAt(i) = MMAP_AT + 24 * i /\ NameAt(i) = NAMES_AT + off(i)
      BY <1>1
    <2>3. NameAt(i + 1) = NAMES_AT + off(i + 1)
      BY <1>1, <2>1
    <2> QED
      BY <1>2, <2>1, <2>2, <2>3
  <1>5. ASSUME NEW i \in Nat, i < MaxModules
        PROVE  ModAt(i) + 16 <= NAMES_AT /\ NameAt(i) + NameMax <= MMAP_AT
    <2>1. ModAt(i) = 64 + 16 * i /\ NameAt(i) = NAMES_AT + off(i) /\ off(i) \in Nat
      BY <1>1, <1>3
    <2>2. off(i) + NameMax <= off(MaxModules) /\ off(MaxModules) \in Nat
      BY <1>2, <1>3, <1>5
    <2> QED
      BY <1>2, <1>5, <2>1, <2>2
  <1>6. ASSUME NEW i \in Nat, i < MMAP_MAX PROVE MmapAt(i) + 24 <= InfoSize
    BY <1>1, <1>2, <1>6
  <1>7. ASSUME NEW i \in Nat, NEW j \in Nat, i < j
        PROVE  /\ ModAt(i) + 16 <= ModAt(j) /\ NameAt(i) + NameMax <= NameAt(j)
               /\ MmapAt(i) + 24 <= MmapAt(j)
    <2>1. /\ ModAt(i) = 64 + 16 * i /\ MmapAt(i) = MMAP_AT + 24 * i /\ NameAt(i) = NAMES_AT + off(i)
          /\ ModAt(j) = 64 + 16 * j /\ MmapAt(j) = MMAP_AT + 24 * j /\ NameAt(j) = NAMES_AT + off(j)
      BY <1>1
    <2>2. off(i) + NameMax <= off(j) /\ off(i) \in Nat /\ off(j) \in Nat
      BY <1>3, <1>7
    <2> QED
      BY <1>2, <1>7, <2>1, <2>2
  <1> QED
    BY <1>4, <1>5, <1>6, <1>7

(* How many modules are told of, and how much of a name.                    *)
LEMMA Counts ==
  ASSUME modules \in Seq(Mods)
  PROVE  /\ ModCount \in Nat /\ ModCount <= MaxModules /\ ModCount <= Len(modules)
         /\ ModCount < Len(modules) => ModCount = MaxModules
         /\ \A i \in 1..Len(modules) :
              LET name == modules[i].name
              IN  /\ name \in Seq(Nat \ {0})
                  /\ Copied(name) \in 0..(NameMax - 1) /\ Copied(name) <= Len(name)
                  /\ Len(name) < NameMax => Copied(name) = Len(name)
  <1>1. Len(modules) \in Nat /\ \A i \in 1..Len(modules) : modules[i] \in Mods
    OBVIOUS
  <1>2. ModCount = IF Len(modules) <= MaxModules THEN Len(modules) ELSE MaxModules
    BY <1>1, MinOfTwo, Sizes DEF ModCount
  <1>3. ASSUME NEW m \in Mods
        PROVE  /\ m.name \in Seq(Nat \ {0})
               /\ Copied(m.name) \in 0..(NameMax - 1) /\ Copied(m.name) <= Len(m.name)
               /\ Len(m.name) < NameMax => Copied(m.name) = Len(m.name)
    <2>1. m.name \in Seq(Nat \ {0}) /\ Len(m.name) \in Nat /\ NameMax - 1 \in Nat
      BY Mb1Constants
    <2>2. Copied(m.name) = IF Len(m.name) <= NameMax - 1 THEN Len(m.name) ELSE NameMax - 1
      BY <2>1, MinOfTwo DEF Copied
    <2> QED
      BY <2>1, <2>2, Sizes
  <1> QED
    BY <1>1, <1>2, <1>3, Sizes

-----------------------------------------------------------------------------
(* A set that has 0, and with n - 1 always n, has all the numbers up to N:  *)
(* the least one it had not would follow one that it has.                   *)
LEMMA UpwardInduction ==
  ASSUME NEW N \in Nat, NEW S, 0 \in S, \A n \in 1..N : n - 1 \in S => n \in S
  PROVE  \A n \in 0..N : n \in S
  <1> DEFINE T == (0..N) \ S
  <1> SUFFICES ASSUME T # {} PROVE FALSE
    OBVIOUS
  <1>1. T \in SUBSET Nat
    OBVIOUS
  <1>2. PICK x \in T : \A y \in T : ~(<<y, x>> \in OpToRel(<, Nat))
    <2> HIDE DEF T
    <2> QED
      BY <1>1, WFMin, NatLessThanWellFounded
  <1>3. \A y \in T : ~(y < x)
    <2> HIDE DEF T
    <2> QED
      BY <1>1, <1>2, Zenon DEF OpToRel
  <1>4. x \in 0..N /\ x \notin S
    OBVIOUS
  <1>5. x # 0
    BY <1>4
  <1>6. x - 1 \in 0..N /\ x - 1 \notin T
    <2> HIDE DEF T
    <2> QED
      BY <1>3, <1>4, <1>5
  <1>7. x - 1 \in S /\ x \in 1..N
    BY <1>4, <1>5, <1>6
  <1> QED
    BY <1>4, <1>7

(* The sums grow a region at a time.                                        *)
LEMMA KiBFacts ==
  ASSUME map \in Seq(Descs), NEW places
  PROVE  /\ \A n \in 0..Len(map) : KiBOf(places)[n] \in Nat
         /\ KiBOf(places)[0] = 0
         /\ \A n \in 1..Len(map) :
              KiBOf(places)[n] = KiBOf(places)[n - 1] + (IF n \in places THEN KiB(map[n]) ELSE 0)
         /\ \A n \in 1..Len(map) : KiB(map[n]) \in Nat \ {0}
  <1> DEFINE N == Len(map)
             D(n) == IF n \in places THEN KiB(map[n]) ELSE 0
             G(f, n) == IF n = 0 THEN 0 ELSE f[n - 1] + D(n)
             Upto(f, m) == f = [n \in 0..m |-> G(f, n)]
             B == CHOOSE f : Upto(f, N)
  <1>1. N \in Nat /\ (\A n \in 1..N : D(n) \in Nat) /\ \A n \in 1..N : KiB(map[n]) \in Nat \ {0}
    <2>1. \A d \in Descs : KiB(d) \in Nat \ {0}
      <3> SUFFICES ASSUME NEW d \in Descs PROVE KiB(d) \in Nat \ {0}
        OBVIOUS
      <3>1. d.page_count \in Nat \ {0}
        BY Mb1Constants
      <3> QED
        BY <3>1 DEF KiB
    <2>2. N \in Nat /\ \A n \in 1..N : map[n] \in Descs
      OBVIOUS
    <2> HIDE DEF N
    <2> QED
      BY <2>1, <2>2
  <1>2. KiBOf(places) = B
    BY DEF KiBOf
  <1> HIDE DEF N, D
  (* The recursion defines a function. *)
  <1>3. \E f : Upto(f, N)
    <2> DEFINE S == {m \in 0..N : \E f : Upto(f, m)}
    <2>1. 0 \in S
      <3> DEFINE f == [n \in 0..0 |-> 0]
      <3>1. Upto(f, 0)
        OBVIOUS
      <3> HIDE DEF Upto
      <3> QED
        BY <1>1, <3>1
    <2>2. ASSUME NEW x \in 1..N, x - 1 \in S PROVE x \in S
      <3>1. PICK g : Upto(g, x - 1)
        BY <2>2
      <3> DEFINE f == [n \in 0..x |-> G(g, n)]
      <3>2. \A n \in 1..x : n - 1 \in 0..(x - 1) /\ n - 1 \in 0..x
        BY <1>1
      <3>3. \A n \in 1..x : f[n - 1] = g[n - 1]
        <4>1. \A k \in 0..(x - 1) : g[k] = G(g, k)
          BY <3>1
        <4>2. \A k \in 0..x : f[k] = G(g, k)
          OBVIOUS
        <4> HIDE DEF f, G
        <4> QED
          BY <3>2, <4>1, <4>2
      <3>4. \A n \in 0..x : G(f, n) = G(g, n)
        <4> SUFFICES ASSUME NEW n \in 0..x PROVE G(f, n) = G(g, n)
          OBVIOUS
        <4>1. CASE n = 0
          BY <4>1
        <4>2. CASE n # 0
          <5> HIDE DEF f
          <5>1. n \in 1..x
            BY <1>1, <4>2
          <5>2. f[n - 1] = g[n - 1]
            BY <3>3, <5>1
          <5> QED
            BY <4>2, <5>2
        <4> QED
          BY <4>1, <4>2
      <3>5. f = [n \in 0..x |-> G(f, n)]
        <4> DEFINE h == [n \in 0..x |-> G(f, n)]
        <4>1. f = h
          <5> HIDE DEF G
          <5> QED
            BY <3>4
        <4> QED
          BY <4>1
      <3>6. x \in 0..N
        BY <1>1
      <3> QED
        BY <3>5, <3>6
    <2> HIDE DEF S
    <2>3. \A n \in 0..N : n \in S
      BY <1>1, <2>1, <2>2, UpwardInduction
    <2>4. N \in S
      BY <1>1, <2>3
    <2> QED
      BY <2>4 DEF S
  <1>4. Upto(B, N)
    BY <1>3, Zenon
  <1> HIDE DEF B
  <1>5. \A n \in 0..N : B[n] = G(B, n)
    BY <1>4
  <1>6. B[0] = 0 /\ \A n \in 1..N : B[n] = B[n - 1] + D(n)
    <2>1. 0 \in 0..N /\ \A n \in 1..N : n \in 0..N /\ n # 0
      BY <1>1
    <2> HIDE DEF Upto
    <2> QED
      BY <1>5, <2>1
  <1> HIDE DEF G
  <1>7. \A n \in 0..N : B[n] \in Nat
    <2> DEFINE S == {n \in 0..N : B[n] \in Nat}
    <2>1. 0 \in S
      BY <1>1, <1>6
    <2>2. ASSUME NEW n \in 1..N, n - 1 \in S PROVE n \in S
      <3>1. B[n] = B[n - 1] + D(n) /\ D(n) \in Nat
        BY <1>1, <1>6
      <3> QED
        BY <1>1, <2>2, <3>1
    <2> HIDE DEF S
    <2>3. \A n \in 0..N : n \in S
      BY <1>1, <2>1, <2>2, UpwardInduction
    <2> QED
      BY <2>3 DEF S
  <1> QED
    BY <1>1, <1>2, <1>6, <1>7 DEF N, D

-----------------------------------------------------------------------------
(* The places do not move. *)
LEMMA Fixed ==
  /\ \A i : ModAt(i)' = ModAt(i) /\ NameAt(i)' = NameAt(i) /\ MmapAt(i)' = MmapAt(i)
  /\ MMAP_AT' = MMAP_AT /\ MmapEntrySize' = 24 /\ ModuleSize' = 16 /\ MbiSize' = 52
  BY DEF ModAt, NameAt, MmapAt, MMAP_AT, NAMES_AT, MODULES_AT, ModuleSize, MmapEntrySize, MbiSize

(* The memory is cleared when the structure is begun. *)
LEMMA InfoInit == Init => IInv
  <1> SUFFICES ASSUME Init PROVE IInv
    OBVIOUS
  <1>1. map \in Seq(Descs) /\ modules \in Seq(Mods)
    BY DEF Init, SeqsUpTo
  <1>2. /\ pc = "mmap" /\ mmap_count = 0 /\ mem_lower = 0 /\ mem_upper = 0 /\ mods = <<>>
        /\ mbi = None /\ Len(mods) = 0 /\ DOMAIN buf = 0..(InfoSize + Beyond - 1)
        /\ \A k \in DOMAIN buf : buf[k] = IF k < InfoSize THEN Zero ELSE <<"other", 0, 0>>
    BY DEF Init
  <1>3. TypeOK
    BY <1>1, <1>2, Sizes, Counts DEF TypeOK
  <1>4. PartsInv
    BY <1>1, <1>2 DEF PartsInv
  <1>5. BytesInv
    <2>1. MapWritten /\ ModsWritten /\ NamesWritten
      BY <1>2 DEF MapWritten, ModsWritten, NamesWritten
    <2>0. NameAt(0) \in Nat
      BY Places
    <2>2. \A k \in NameAt(0)..(MMAP_AT - 1) : k \in DOMAIN buf /\ k < InfoSize
      BY <1>2, <2>0, Sizes
    <2>3. NamesBlank
      BY <1>2, <2>2 DEF NamesBlank
    <2>4. BeyondKept
      BY <1>2, Sizes DEF BeyondKept
    <2> QED
      BY <2>1, <2>3, <2>4 DEF BytesInv
  <1>6. SumsInv
    BY <1>1, <1>2, KiBFacts DEF SumsInv
  <1> QED
    BY <1>3, <1>4, <1>5, <1>6 DEF IInv

(* Writing an entry of the memory map keeps the invariant. *)
LEMMA MapStep == IInv /\ WriteMmapEntry => IInv'
  <1> SUFFICES ASSUME IInv, WriteMmapEntry PROVE IInv'
    OBVIOUS
  <1> DEFINE c  == mmap_count
             d  == map[c + 1]
             at == MmapAt(c)
  <1>1. /\ pc = "mmap" /\ pc' = "mmap" /\ c < Len(map) /\ c < MMAP_MAX /\ mmap_count' = c + 1
        /\ map' = map /\ modules' = modules /\ mods' = mods /\ mbi' = mbi
        /\ mem_lower' = mem_lower + (IF Available(d) /\ d.phys_start < OneMiB THEN KiB(d) ELSE 0)
        /\ mem_upper' = mem_upper + (IF Available(d) /\ Upper(d) THEN KiB(d) ELSE 0)
        /\ buf' = Write(buf, at, 24, "mmap", c)
    BY DEF WriteMmapEntry, More, MmapAt, MmapEntrySize
  <1>2. /\ c \in Nat /\ MMAP_MAX \in Nat /\ map \in Seq(Descs) /\ modules \in Seq(Mods)
        /\ Len(map) \in Nat /\ mods = <<>> /\ Len(mods) = 0 /\ mem_lower \in Nat /\ mem_upper \in Nat
        /\ DOMAIN buf = 0..(InfoSize + Beyond - 1) /\ mbi = None
    BY <1>1, Sizes DEF IInv, PartsInv, TypeOK
  <1>3. at \in Nat /\ at >= MMAP_AT /\ at + 24 <= InfoSize
    BY <1>1, <1>2, Places
  <1>4. /\ DOMAIN buf' = DOMAIN buf
        /\ \A k \in 0..23 : at + k \in DOMAIN buf /\ buf'[at + k] = <<"mmap", c, k>>
        /\ \A k \in DOMAIN buf : k < at \/ k >= at + 24 => buf'[k] = buf[k]
    <2>1. \A k \in 0..23 : /\ at + k \in DOMAIN buf
                           /\ at + k \in at..(at + 24 - 1) /\ (at + k) - at = k
      BY <1>2, <1>3, Sizes
    <2>2. \A k \in DOMAIN buf : k < at \/ k >= at + 24 => k \notin at..(at + 24 - 1)
      BY <1>2, <1>3, Sizes
    <2>3. buf' = [k \in DOMAIN buf |->
                    IF k \in at..(at + 24 - 1) THEN <<"mmap", c, k - at>> ELSE buf[k]]
      BY <1>1 DEF Write
    <2> HIDE DEF at, c
    <2> QED
      BY <2>1, <2>2, <2>3
  <1>5. c + 1 \in 1..Len(map) /\ c = (c + 1) - 1 /\ KiB(d) \in Nat \ {0} /\ d.phys_start \in Nat
    <2>1. c + 1 \in 1..Len(map) /\ c = (c + 1) - 1
      BY <1>1, <1>2
    <2>2. d \in Descs
      BY <1>2, <2>1
    <2>3. d.phys_start \in Nat
      BY <2>2, Mb1Constants
    <2> QED
      BY <1>2, <2>1, <2>3, KiBFacts
  <1>6. TypeOK'
    <2>1. mmap_count' \in 0..MMAP_MAX /\ mmap_count' <= Len(map)
      BY <1>1, <1>2
    <2>2. mem_lower' \in Nat /\ mem_upper' \in Nat
      BY <1>1, <1>2, <1>5
    <2>3. ModCount' = ModCount
      BY <1>1 DEF ModCount
    <2> QED
      BY <1>1, <1>2, <1>4, <2>1, <2>2, <2>3 DEF IInv, TypeOK
  <1>7. PartsInv'
    BY <1>1, <1>2 DEF PartsInv
  <1>8. BytesInv'
    <2>1. MapWritten'
      <3> SUFFICES ASSUME NEW i \in 0..c, NEW k \in 0..23
                   PROVE  buf'[MmapAt(i) + k] = <<"mmap", i, k>>
        <4>1. 0..(mmap_count' - 1) = 0..c /\ 0..(24 - 1) = 0..23
          BY <1>1, <1>2
        <4> HIDE DEF c
        <4> QED
          BY <4>1, Fixed DEF MapWritten
      <3>1. CASE i = c
        BY <1>4, <3>1
      <3>2. CASE i # c
        <4>1. i \in 0..(c - 1) /\ i \in Nat /\ i < c
          BY <1>2, <3>2
        <4>2. buf[MmapAt(i) + k] = <<"mmap", i, k>>
          <5>1. MapWritten
            BY DEF IInv, BytesInv
          <5> QED
            BY <4>1, <5>1 DEF MapWritten, MmapEntrySize
        <4>3. MmapAt(i) \in Nat /\ MmapAt(i) + 24 <= at
          BY <1>2, <4>1, Places
        <4>4. MmapAt(i) + k \in DOMAIN buf /\ MmapAt(i) + k < at
          BY <1>2, <1>3, <4>3, Sizes
        <4> QED
          BY <1>4, <4>2, <4>4
      <3> QED
        BY <3>1, <3>2
    <2>2. ModsWritten' /\ NamesWritten'
      BY <1>1, <1>2 DEF ModsWritten, NamesWritten
    <2>3. NamesBlank'
      <3>1. NameAt(0) \in Nat
        BY Places
      <3> SUFFICES ASSUME NEW k \in NameAt(0)..(MMAP_AT - 1) PROVE buf'[k] = Zero
        BY <1>1, <1>2, Fixed DEF NamesBlank
      <3>2. k \in DOMAIN buf /\ k < at
        BY <1>2, <1>3, <3>1, Sizes
      <3> QED
        BY <1>2, <1>4, <3>2 DEF IInv, BytesInv, NamesBlank
    <2>4. BeyondKept'
      <3>1. \A k \in InfoSize..(InfoSize + Beyond - 1) : k \in DOMAIN buf /\ k >= at + 24
        BY <1>2, <1>3, Sizes
      <3> QED
        BY <1>4, <3>1 DEF IInv, BytesInv, BeyondKept
    <2> QED
      BY <2>1, <2>2, <2>3, <2>4 DEF BytesInv
  <1>9. SumsInv'
    <2>1. /\ KiBOf(SinceFirst)' = KiBOf(SinceFirst) /\ KiBOf(Lower)' = KiBOf(Lower)
          /\ \A f : IsFirst(f)' = IsFirst(f)
      BY <1>1 DEF KiBOf, SinceFirst, Lower, IsFirst
    <2>2. /\ mem_upper = KiBOf(SinceFirst)[c] /\ mem_lower = KiBOf(Lower)[c]
          /\ mem_upper > 0 <=> \E f \in 1..c : IsFirst(f)
      BY <1>1 DEF IInv, SumsInv
    <2>3. c + 1 \in Lower <=> Available(d) /\ d.phys_start < OneMiB
      BY <1>2, <1>5 DEF Lower
    <2>4. mem_lower' = KiBOf(Lower)[c + 1]
      BY <1>1, <1>2, <1>5, <2>2, <2>3, KiBFacts
    <2>5. IsFirst(c + 1) <=> Available(d) /\ d.phys_start = OneMiB
      BY DEF IsFirst
    <2>6. (\E f \in 1..(c + 1) : IsFirst(f)) <=> (\E f \in 1..c : IsFirst(f)) \/ IsFirst(c + 1)
      <3>1. 1..(c + 1) = (1..c) \cup {c + 1}
        BY <1>2
      <3> HIDE DEF c
      <3> QED
        BY <3>1
    <2>7. c + 1 \in SinceFirst <=> Available(d) /\ Upper(d)
      <3>1. c + 1 \in SinceFirst
              <=> Available(d) /\ d.phys_start >= OneMiB /\ \E f \in 1..(c + 1) : IsFirst(f)
        BY <1>2, <1>5 DEF SinceFirst
      <3> QED
        BY <1>5, <2>2, <2>5, <2>6, <3>1 DEF Upper, OneMiB
    <2>8. mem_upper' = KiBOf(SinceFirst)[c + 1]
      <3>1. KiBOf(SinceFirst)[c + 1]
              = KiBOf(SinceFirst)[c] + (IF c + 1 \in SinceFirst THEN KiB(d) ELSE 0)
        <4>1. \A n \in 1..Len(map) : KiBOf(SinceFirst)[n]
                = KiBOf(SinceFirst)[n - 1] + (IF n \in SinceFirst THEN KiB(map[n]) ELSE 0)
          BY <1>2, KiBFacts
        <4> QED
          BY <1>5, <4>1
      <3> QED
        BY <1>1, <2>2, <2>7, <3>1
    <2>9. mem_upper' > 0 <=> \E f \in 1..(c + 1) : IsFirst(f)
      <3>1. CASE Available(d) /\ Upper(d)
        <4>1. mem_upper' > 0
          BY <1>1, <1>2, <1>5, <3>1
        <4>2. \E f \in 1..(c + 1) : IsFirst(f)
          BY <2>2, <2>5, <2>6, <3>1 DEF Upper
        <4> QED
          BY <4>1, <4>2
      <3>2. CASE ~(Available(d) /\ Upper(d))
        <4>1. mem_upper' = mem_upper
          BY <1>1, <1>2, <3>2
        <4>2. ~IsFirst(c + 1)
          BY <2>5, <3>2 DEF Upper
        <4> QED
          BY <2>2, <2>6, <4>1, <4>2
      <3> QED
        BY <3>1, <3>2
    <2> HIDE DEF c
    <2> QED
      BY <1>1, <2>1, <2>4, <2>8, <2>9 DEF SumsInv
  <1> QED
    BY <1>6, <1>7, <1>8, <1>9 DEF IInv

(* What the sums are of does not change. *)
LEMMA SameSums ==
  ASSUME map' = map
  PROVE  /\ KiBOf(SinceFirst)' = KiBOf(SinceFirst) /\ KiBOf(Lower)' = KiBOf(Lower)
         /\ \A f : IsFirst(f)' = IsFirst(f)
  BY DEF KiBOf, SinceFirst, Lower, IsFirst

(* A step that writes nothing leaves the bytes. *)
LEMMA SameBytes ==
  ASSUME BytesInv, buf' = buf, modules' = modules, mods' = mods, mmap_count' = mmap_count
  PROVE  BytesInv'
  BY Fixed DEF BytesInv, MapWritten, ModsWritten, NamesWritten, NamesBlank, BeyondKept, Copied,
               MmapEntrySize, ModuleSize

(* The end of the memory map keeps the invariant. *)
LEMMA EndMapStep == IInv /\ EndMmap => IInv'
  <1> SUFFICES ASSUME IInv, EndMmap PROVE IInv'
    OBVIOUS
  <1>1. /\ pc = "mmap" /\ pc' = "modules" /\ map' = map /\ modules' = modules /\ mods' = mods
        /\ buf' = buf /\ mmap_count' = mmap_count /\ mem_upper' = mem_upper /\ mbi' = mbi
        /\ mem_lower' = (IF mem_lower > 640 THEN 640 ELSE mem_lower)
        /\ ~(mmap_count < Len(map) /\ mmap_count < MMAP_MAX)
    BY DEF EndMmap, More
  <1>2. /\ mmap_count \in Nat /\ mmap_count <= MMAP_MAX /\ MMAP_MAX \in Nat /\ Len(map) \in Nat
        /\ mem_lower \in Nat
    BY Sizes DEF IInv, TypeOK, PartsInv
  <1>3. TypeOK'
    BY <1>1, <1>2 DEF IInv, TypeOK, ModCount
  <1>4. PartsInv'
    BY <1>1 DEF IInv, PartsInv, EntryOf, NameAt
  <1>5. BytesInv'
    BY <1>1, SameBytes DEF IInv
  <1>6. SumsInv'
    <2>1. /\ mem_upper = KiBOf(SinceFirst)[mmap_count] /\ mem_lower = KiBOf(Lower)[mmap_count]
          /\ mem_upper > 0 <=> \E f \in 1..mmap_count : IsFirst(f)
      BY <1>1 DEF IInv, SumsInv
    <2>2. mem_lower' = Min({640, KiBOf(Lower)[mmap_count]})
      <3>1. Min({640, mem_lower}) = IF 640 <= mem_lower THEN 640 ELSE mem_lower
        BY <1>2, MinOfTwo
      <3> QED
        BY <1>1, <1>2, <2>1, <3>1
    <2>3. mmap_count < Len(map) => mmap_count = MMAP_MAX
      BY <1>1, <1>2
    <2>4. MMAP_MAX' = MMAP_MAX
      BY DEF MMAP_MAX, MMAP_AT, NAMES_AT, MODULES_AT, ModuleSize, MmapEntrySize
    <2> QED
      BY <1>1, <2>1, <2>2, <2>3, <2>4, SameSums DEF SumsInv, Min
  <1> QED
    BY <1>3, <1>4, <1>5, <1>6 DEF IInv

(* So does the end of the modules. *)
LEMMA EndModulesStep == IInv /\ EndModules => IInv'
  <1> SUFFICES ASSUME IInv, EndModules PROVE IInv'
    OBVIOUS
  <1>1. /\ pc = "modules" /\ pc' = "info" /\ map' = map /\ modules' = modules /\ mods' = mods
        /\ buf' = buf /\ mmap_count' = mmap_count /\ mem_upper' = mem_upper /\ mbi' = mbi
        /\ mem_lower' = mem_lower /\ Len(mods) = ModCount
    BY DEF EndModules
  <1>2. ModCount' = ModCount
    BY <1>1 DEF ModCount
  <1>3. TypeOK'
    BY <1>1, <1>2 DEF IInv, TypeOK
  <1>4. PartsInv'
    BY <1>1, <1>2 DEF IInv, PartsInv, EntryOf, NameAt
  <1>5. BytesInv'
    BY <1>1, SameBytes DEF IInv
  <1>6. SumsInv'
    <2>1. MMAP_MAX' = MMAP_MAX
      BY DEF MMAP_MAX, MMAP_AT, NAMES_AT, MODULES_AT, ModuleSize, MmapEntrySize
    <2> QED
      BY <1>1, <2>1, SameSums DEF IInv, SumsInv, Min
  <1> QED
    BY <1>3, <1>4, <1>5, <1>6 DEF IInv

(* Copying a name and writing its entry keeps the invariant. *)
LEMMA ModuleStep == IInv /\ WriteModule => IInv'
  <1> SUFFICES ASSUME IInv, WriteModule PROVE IInv'
    OBVIOUS
  <1> DEFINE j    == Len(mods)
             m    == modules[j + 1]
             n    == Copied(m.name)
             at   == NameAt(j)
             me   == ModAt(j)
             e    == [mod_start |-> m.phys_start % Word32,
                      mod_end   |-> (m.phys_start + m.size) % Word32,
                      string    |-> InfoAt + at]
             copy == [k \in DOMAIN buf |->
                        IF k \in at..(at + n - 1) THEN <<"char", m.name[k - at + 1], 0>> ELSE buf[k]]
  <1>1. /\ pc = "modules" /\ pc' = "modules" /\ j < ModCount
        /\ map' = map /\ modules' = modules /\ mmap_count' = mmap_count
        /\ mem_lower' = mem_lower /\ mem_upper' = mem_upper /\ mbi' = mbi
        /\ mods' = Append(mods, e) /\ buf' = Write(copy, me, 16, "mod", j)
    BY DEF WriteModule, NameAt, ModAt, ModuleSize
  <1>2. /\ modules \in Seq(Mods) /\ mods \in Seq([mod_start : Nat, mod_end : Nat, string : Nat])
        /\ j \in Nat /\ ModCount \in Nat /\ ModCount <= MaxModules /\ ModCount <= Len(modules)
        /\ DOMAIN buf = 0..(InfoSize + Beyond - 1)
        /\ mmap_count \in Nat /\ mmap_count <= MMAP_MAX
    BY Sizes, Counts DEF IInv, PartsInv, TypeOK
  <1>3. j + 1 \in 1..Len(modules) /\ j < MaxModules /\ Len(modules) \in Nat
    BY <1>1, <1>2, Sizes
  <1>4. n \in 0..(NameMax - 1) /\ n \in Nat /\ n < NameMax /\ NameMax \in Nat
    BY <1>2, <1>3, Counts, Sizes
  <1>5. /\ at \in Nat /\ at >= NAMES_AT /\ at + NameMax <= MMAP_AT
        /\ me \in Nat /\ me >= 64 /\ me + 16 <= NAMES_AT
    BY <1>2, <1>3, Places
  <1>6. e \in [mod_start : Nat, mod_end : Nat, string : Nat]
    <2>1. m \in Mods
      BY <1>2, <1>3
    <2>2. m.phys_start \in Nat /\ m.size \in Nat
      BY <2>1, Mb1Constants
    <2>3. m.phys_start % Word32 \in Nat /\ (m.phys_start + m.size) % Word32 \in Nat
      BY <2>2, Sizes
    <2>4. InfoAt + at \in Nat
      BY <1>5, Sizes
    <2> QED
      BY <2>3, <2>4
  <1>7. /\ mods' \in Seq([mod_start : Nat, mod_end : Nat, string : Nat]) /\ Len(mods') = j + 1
        /\ mods'[j + 1] = e /\ \A i \in 1..j : mods'[i] = mods[i]
    <2> HIDE DEF e
    <2> QED
      BY <1>1, <1>2, <1>6
  <1> HIDE DEF n, at, me, j, m
  (* What the memory holds after it. *)
  <1>8. /\ DOMAIN buf' = DOMAIN buf
        /\ \A k \in 0..15 : buf'[me + k] = <<"mod", j, k>>
        /\ \A k \in 0..(n - 1) : buf'[at + k] = <<"char", m.name[k + 1], 0>>
        /\ \A k \in DOMAIN buf : ~(k >= me /\ k < me + 16) /\ ~(k >= at /\ k < at + n)
                                    => buf'[k] = buf[k]
    <2> DEFINE new == [k \in DOMAIN buf |->
                         IF k \in me..(me + 16 - 1) THEN <<"mod", j, k - me>>
                         ELSE IF k \in at..(at + n - 1) THEN <<"char", m.name[k - at + 1], 0>>
                         ELSE buf[k]]
    <2>1. buf' = new
      <3>1. buf' = [k \in DOMAIN copy |->
                      IF k \in me..(me + 16 - 1) THEN <<"mod", j, k - me>> ELSE copy[k]]
        BY <1>1 DEF Write
      <3> QED
        BY <3>1
    <2>2. \A k \in 0..15 : /\ me + k \in DOMAIN buf /\ me + k \in me..(me + 16 - 1)
                           /\ (me + k) - me = k
      BY <1>2, <1>5, Sizes
    <2>3. \A k \in 0..(n - 1) :
            /\ at + k \in DOMAIN buf /\ at + k \in at..(at + n - 1) /\ (at + k) - at + 1 = k + 1
            /\ at + k \notin me..(me + 16 - 1)
      BY <1>2, <1>4, <1>5, Sizes
    <2>4. \A k \in DOMAIN buf :
            /\ k \in me..(me + 16 - 1) => k >= me /\ k < me + 16
            /\ k \in at..(at + n - 1) => k >= at /\ k < at + n
      BY <1>2, <1>4, <1>5, Sizes
    <2> QED
      BY <2>1, <2>2, <2>3, <2>4
  <1>9. TypeOK'
    <2>1. ModCount' = ModCount
      BY <1>1 DEF ModCount
    <2>2. Len(mods') <= ModCount
      BY <1>1, <1>2, <1>7
    <2> QED
      BY <1>1, <1>8, <2>1, <2>2 DEF IInv, TypeOK
  <1>10. PartsInv'
    <2>1. \A i : EntryOf(i)' = EntryOf(i)
      BY <1>1, Fixed DEF EntryOf
    <2>2. EntryOf(j + 1) = e
      <3>1. (j + 1) - 1 = j
        BY <1>2
      <3> QED
        BY <3>1 DEF EntryOf, at, m
    <2>3. \A i \in 1..j : mods[i] = EntryOf(i)
      BY DEF IInv, PartsInv, j
    <2>4. \A i \in 1..(j + 1) : mods'[i] = EntryOf(i)
      <3> SUFFICES ASSUME NEW i \in 1..(j + 1) PROVE mods'[i] = EntryOf(i)
        OBVIOUS
      <3>1. CASE i = j + 1
        BY <1>7, <2>2, <3>1
      <3>2. CASE i # j + 1
        <4>1. i \in 1..j
          BY <1>2, <3>2
        <4> QED
          BY <1>7, <2>3, <4>1
      <3> QED
        BY <3>1, <3>2
    <2> HIDE DEF e
    <2> QED
      BY <1>1, <1>7, <2>1, <2>4 DEF IInv, PartsInv
  <1>11. BytesInv'
    <2>0. MapWritten /\ ModsWritten /\ NamesWritten /\ NamesBlank /\ BeyondKept
      BY DEF IInv, BytesInv
    <2>1. MapWritten'
      <3> SUFFICES ASSUME NEW i \in 0..(mmap_count - 1), NEW k \in 0..(24 - 1)
                   PROVE  buf'[MmapAt(i) + k] = <<"mmap", i, k>>
        BY <1>1, Fixed DEF MapWritten
      <3>1. i \in Nat /\ i < MMAP_MAX
        BY <1>2, Sizes
      <3>2. MmapAt(i) \in Nat /\ MmapAt(i) >= MMAP_AT /\ MmapAt(i) + 24 <= InfoSize
        BY <3>1, Places
      <3>3. MmapAt(i) + k \in DOMAIN buf /\ MmapAt(i) + k >= at + n /\ MmapAt(i) + k >= me + 16
        <4>1. MMAP_AT >= at + n /\ MMAP_AT >= me + 16 /\ at + n \in Nat /\ me + 16 \in Nat
          BY <1>4, <1>5, Sizes
        <4>2. MmapAt(i) + k \in Nat /\ MmapAt(i) + k >= MMAP_AT /\ MmapAt(i) + k < InfoSize
          BY <3>2, Sizes
        <4> QED
          BY <1>2, <4>1, <4>2, Sizes
      <3>4. buf'[MmapAt(i) + k] = buf[MmapAt(i) + k]
        <4>1. at \in Nat /\ me \in Nat /\ n \in Nat /\ MmapAt(i) + k \in Nat
          BY <1>4, <1>5, <3>2
        <4> QED
          BY <1>8, <3>3, <4>1
      <3> QED
        BY <2>0, <3>4 DEF MapWritten, MmapEntrySize
    <2>2. ModsWritten'
      <3> SUFFICES ASSUME NEW i \in 0..j, NEW k \in 0..15
                   PROVE  buf'[ModAt(i) + k] = <<"mod", i, k>>
        <4>1. 0..(Len(mods') - 1) = 0..j /\ 0..(16 - 1) = 0..15
          BY <1>2, <1>7
        <4> QED
          BY <4>1, Fixed DEF ModsWritten
      <3>1. CASE i = j
        BY <1>8, <3>1 DEF me
      <3>2. CASE i # j
        <4>1. i \in 0..(j - 1) /\ i \in Nat /\ i < j
          BY <1>2, <3>2
        <4>2. buf[ModAt(i) + k] = <<"mod", i, k>>
          <5>1. i \in 0..(Len(mods) - 1)
            BY <4>1 DEF j
          <5>2. k \in 0..(ModuleSize - 1)
            BY DEF ModuleSize
          <5> QED
            BY <2>0, <5>1, <5>2 DEF ModsWritten
        <4>3. ModAt(i) \in Nat /\ ModAt(i) + 16 <= me
          BY <1>2, <4>1, Places DEF me
        <4>4. ModAt(i) + k \in DOMAIN buf /\ ModAt(i) + k < me /\ ModAt(i) + k < at
          BY <1>2, <1>5, <4>3, Sizes
        <4>5. buf'[ModAt(i) + k] = buf[ModAt(i) + k]
          <5>1. at \in Nat /\ me \in Nat /\ ModAt(i) + k \in Nat
            BY <1>5, <4>3
          <5> QED
            BY <1>8, <4>4, <5>1
        <4> QED
          BY <4>2, <4>5
      <3> QED
        BY <3>1, <3>2
    <2>3. NamesWritten'
      <3> DEFINE name(i) == modules[i + 1].name
      <3> SUFFICES ASSUME NEW i \in 0..j
                   PROVE  /\ \A k \in 0..(Copied(name(i)) - 1) :
                               buf'[NameAt(i) + k] = <<"char", name(i)[k + 1], 0>>
                          /\ buf'[NameAt(i) + Copied(name(i))] = Zero
        <4>1. 0..(Len(mods') - 1) = 0..j
          BY <1>2, <1>7
        <4>2. \A x : Copied(x)' = Copied(x)
          BY DEF Copied
        <4> QED
          BY <1>1, <4>1, <4>2, Fixed DEF NamesWritten, Zero
      <3>1. CASE i = j
        <4>1. at + n \in at..(MMAP_AT - 1) /\ at + n \in DOMAIN buf /\ at + n >= me + 16
          BY <1>2, <1>4, <1>5, Sizes
        <4>2. buf[at + n] = Zero
          BY <2>0, <4>1 DEF NamesBlank, at, j
        <4>3. buf'[at + n] = buf[at + n]
          <5> QED
            BY <1>4, <1>5, <1>8, <4>1
        <4> QED
          BY <1>8, <3>1, <4>2, <4>3 DEF at, n, m
      <3>2. CASE i # j
        <4>1. i \in 0..(j - 1) /\ i \in Nat /\ i < j /\ i + 1 \in 1..Len(modules)
          BY <1>2, <1>3, <3>2
        <4>2. Copied(name(i)) \in 0..(NameMax - 1)
          BY <1>2, <4>1, Counts
        <4>3. /\ \A k \in 0..(Copied(name(i)) - 1) :
                   buf[NameAt(i) + k] = <<"char", name(i)[k + 1], 0>>
              /\ buf[NameAt(i) + Copied(name(i))] = Zero
          BY <2>0, <4>1 DEF NamesWritten, j
        <4>4. NameAt(i) \in Nat /\ NameAt(i) >= NAMES_AT /\ NameAt(i) + NameMax <= at
          BY <1>2, <4>1, Places DEF at
        <4>5. ASSUME NEW k \in 0..(NameMax - 1)
              PROVE  buf'[NameAt(i) + k] = buf[NameAt(i) + k]
          <5>1. NameAt(i) + k \in DOMAIN buf /\ NameAt(i) + k < at /\ NameAt(i) + k >= me + 16
            BY <1>2, <1>4, <1>5, <4>4, Sizes
          <5>2. at \in Nat /\ me \in Nat /\ NameAt(i) + k \in Nat
            BY <1>4, <1>5, <4>4
          <5> QED
            BY <1>8, <5>1, <5>2
        <4>6. \A k \in 0..(Copied(name(i)) - 1) : k \in 0..(NameMax - 1)
          BY <1>4, <4>2
        <4> HIDE DEF name
        <4> QED
          BY <4>2, <4>3, <4>5, <4>6
      <3> QED
        BY <3>1, <3>2
    <2>4. NamesBlank'
      <3>1. NameAt(j + 1) = at + NameMax
        BY <1>2, Places DEF at
      <3> SUFFICES ASSUME NEW k \in (at + NameMax)..(MMAP_AT - 1) PROVE buf'[k] = Zero
        <4> QED
          BY <1>7, <3>1, Fixed DEF NamesBlank, Zero
      <3>2. /\ k \in DOMAIN buf /\ k \in at..(MMAP_AT - 1) /\ k \in Nat
            /\ k >= at + n /\ k >= me + 16
        BY <1>2, <1>4, <1>5, Sizes
      <3>3. buf'[k] = buf[k]
        <4> QED
          BY <1>4, <1>5, <1>8, <3>2
      <3> QED
        BY <1>5, <2>0, <3>2, <3>3 DEF NamesBlank, at, j
    <2>5. BeyondKept'
      <3> SUFFICES ASSUME NEW k \in InfoSize..(InfoSize + Beyond - 1)
                   PROVE  buf'[k] = <<"other", 0, 0>>
        BY DEF BeyondKept
      <3>1. k \in DOMAIN buf /\ k \in Nat /\ k >= at + n /\ k >= me + 16
        BY <1>2, <1>4, <1>5, Sizes
      <3>2. buf'[k] = buf[k]
        <4> QED
          BY <1>4, <1>5, <1>8, <3>1
      <3> QED
        BY <2>0, <3>2 DEF BeyondKept
    <2> QED
      BY <2>1, <2>2, <2>3, <2>4, <2>5 DEF BytesInv
  <1>12. SumsInv'
    <2>1. MMAP_MAX' = MMAP_MAX
      BY DEF MMAP_MAX, MMAP_AT, NAMES_AT, MODULES_AT, ModuleSize, MmapEntrySize
    <2> QED
      BY <1>1, <2>1, SameSums DEF IInv, SumsInv, Min
  <1> QED
    BY <1>9, <1>10, <1>11, <1>12 DEF IInv

(* Writing the structure keeps the invariant. *)
LEMMA InfoStep == IInv /\ WriteInfo => IInv'
  <1> SUFFICES ASSUME IInv, WriteInfo PROVE IInv'
    OBVIOUS
  <1>1. /\ pc = "info" /\ pc' = "done" /\ map' = map /\ modules' = modules /\ mods' = mods
        /\ mmap_count' = mmap_count /\ mem_lower' = mem_lower /\ mem_upper' = mem_upper
        /\ buf' = [k \in DOMAIN buf |->
                     IF k \in 0..(0 + 52 - 1) THEN <<"mbi", 0, k - 0>> ELSE buf[k]]
    BY DEF WriteInfo, Write, MbiSize
  <1>2. /\ DOMAIN buf = 0..(InfoSize + Beyond - 1) /\ Len(mods) = ModCount /\ Len(mods) \in Nat
        /\ modules \in Seq(Mods) /\ ModCount \in Nat /\ ModCount <= MaxModules
        /\ mmap_count \in Nat /\ mmap_count <= MMAP_MAX
    BY <1>1, Sizes, Counts DEF IInv, PartsInv, TypeOK
  <1>3. /\ DOMAIN buf' = DOMAIN buf
        /\ \A k \in 0..51 : buf'[k] = <<"mbi", 0, k>>
        /\ \A k \in DOMAIN buf : k >= 64 => buf'[k] = buf[k]
    <2>1. \A k \in 0..51 : k \in DOMAIN buf /\ k \in 0..(0 + 52 - 1) /\ k - 0 = k
      <3>1. \A k \in 0..51 : k \in 0..(InfoSize + Beyond - 1) /\ k \in 0..(0 + 52 - 1) /\ k - 0 = k
        BY Sizes
      <3>2. DOMAIN buf = 0..(InfoSize + Beyond - 1)
        BY <1>2
      <3> QED
        BY <3>1, <3>2
    <2>2. \A k \in DOMAIN buf : k >= 64 => k \notin 0..(0 + 52 - 1)
      <3>1. DOMAIN buf = 0..(InfoSize + Beyond - 1)
        BY <1>2
      <3>2. \A k \in 0..(InfoSize + Beyond - 1) : k >= 64 => k \notin 0..(0 + 52 - 1)
        BY Sizes
      <3> QED
        BY <3>1, <3>2
    <2> QED
      BY <1>1, <2>1, <2>2
  <1>4. /\ mbi'.flags = {"MEMORY", "MEM_MAP"} \cup (IF ModCount > 0 THEN {"MODS"} ELSE {})
        /\ mbi'.mods_count = ModCount
        /\ mbi'.mods_addr = (IF ModCount > 0 THEN InfoAt + MODULES_AT ELSE 0)
        /\ mbi'.mmap_length = mmap_count * MmapEntrySize
        /\ mbi'.mmap_addr = InfoAt + MMAP_AT
        /\ mbi'.mem_upper = mem_upper % Word32 /\ mbi'.mem_lower = mem_lower % Word32
    BY DEF WriteInfo
  <1>5. ModCount' = ModCount
    BY <1>1 DEF ModCount
  <1>6. TypeOK'
    <2>1. "MEMORY" \in mbi'.flags
      BY <1>4
    <2>2. mbi' # None
      BY <2>1 DEF None
    <2> QED
      BY <1>1, <1>3, <1>5, <2>2 DEF IInv, TypeOK
  <1>7. PartsInv'
    <2>1. "MODS" \in mbi'.flags <=> ModCount > 0
      BY <1>4
    <2>2. 0..(MbiSize' - 1) = 0..51
      BY Fixed
    <2>3. \A i : EntryOf(i)' = EntryOf(i)
      BY <1>1, Fixed DEF EntryOf
    <2>4. \A k \in 0..(MbiSize' - 1) : buf'[k] = <<"mbi", 0, k>>
      BY <1>3, <2>2
    <2>5. MODULES_AT' = MODULES_AT /\ MmapEntrySize' = MmapEntrySize
      BY DEF MODULES_AT, MmapEntrySize
    <2>6. /\ map' \in Seq(Descs) /\ modules' \in Seq(Mods)
          /\ mods' \in Seq([mod_start : Nat, mod_end : Nat, string : Nat])
          /\ \A i \in 1..Len(mods') : mods'[i] = EntryOf(i)'
      BY <1>1, <2>3 DEF IInv, PartsInv
    <2> QED
      BY <1>1, <1>2, <1>4, <1>5, <2>1, <2>4, <2>5, <2>6, Fixed DEF PartsInv
  <1>8. BytesInv'
    <2>0. MapWritten /\ ModsWritten /\ NamesWritten /\ NamesBlank /\ BeyondKept
      BY DEF IInv, BytesInv
    <2>1. MapWritten'
      <3> SUFFICES ASSUME NEW i \in 0..(mmap_count - 1), NEW k \in 0..(24 - 1)
                   PROVE  buf'[MmapAt(i) + k] = <<"mmap", i, k>>
        BY <1>1, Fixed DEF MapWritten
      <3>1. i \in Nat /\ i < MMAP_MAX
        BY <1>2, Sizes
      <3>2. MmapAt(i) \in Nat /\ MmapAt(i) >= MMAP_AT /\ MmapAt(i) + 24 <= InfoSize
        BY <3>1, Places
      <3>3. MmapAt(i) + k \in DOMAIN buf /\ MmapAt(i) + k >= 64
        <4>1. k \in Nat /\ k < 24
          OBVIOUS
        <4>2. MmapAt(i) + k \in Nat /\ MmapAt(i) + k >= 64 /\ MmapAt(i) + k < InfoSize
          BY <3>2, <4>1, Sizes
        <4>3. MmapAt(i) + k \in 0..(InfoSize + Beyond - 1)
          BY <4>2, Sizes
        <4>4. DOMAIN buf = 0..(InfoSize + Beyond - 1)
          BY <1>2
        <4> QED
          BY <4>2, <4>3, <4>4
      <3> QED
        BY <1>3, <2>0, <3>3 DEF MapWritten, MmapEntrySize
    <2>2. ModsWritten'
      <3> SUFFICES ASSUME NEW i \in 0..(Len(mods) - 1), NEW k \in 0..(16 - 1)
                   PROVE  buf'[ModAt(i) + k] = <<"mod", i, k>>
        BY <1>1, Fixed DEF ModsWritten
      <3>1. i \in Nat /\ i < MaxModules
        BY <1>2, Sizes
      <3>2. ModAt(i) \in Nat /\ ModAt(i) >= 64 /\ ModAt(i) + 16 <= NAMES_AT
        BY <3>1, Places
      <3>3. ModAt(i) + k \in DOMAIN buf /\ ModAt(i) + k >= 64
        <4>1. k \in Nat /\ k < 16
          OBVIOUS
        <4>2. ModAt(i) + k \in Nat /\ ModAt(i) + k >= 64 /\ ModAt(i) + k < NAMES_AT
          BY <3>2, <4>1, Sizes
        <4>3. ModAt(i) + k \in 0..(InfoSize + Beyond - 1)
          BY <4>2, Sizes
        <4>4. DOMAIN buf = 0..(InfoSize + Beyond - 1)
          BY <1>2
        <4> QED
          BY <4>2, <4>3, <4>4
      <3> QED
        BY <1>3, <2>0, <3>3 DEF ModsWritten, ModuleSize
    <2>3. NamesWritten'
      <3> DEFINE name(i) == modules[i + 1].name
      <3> SUFFICES ASSUME NEW i \in 0..(Len(mods) - 1)
                   PROVE  /\ \A k \in 0..(Copied(name(i)) - 1) :
                               buf'[NameAt(i) + k] = <<"char", name(i)[k + 1], 0>>
                          /\ buf'[NameAt(i) + Copied(name(i))] = Zero
        <4>1. \A x : Copied(x)' = Copied(x)
          BY DEF Copied
        <4>2. mods' = mods /\ modules' = modules
          BY <1>1
        <4>3. \A x : NameAt(x)' = NameAt(x)
          BY Fixed
        <4> QED
          BY <4>1, <4>2, <4>3 DEF NamesWritten, Zero
      <3>1. i \in Nat /\ i < MaxModules /\ i + 1 \in 1..Len(modules)
        BY <1>2, Sizes, Counts
      <3>2. Copied(name(i)) \in 0..(NameMax - 1)
        BY <1>2, <3>1, Counts
      <3>3. /\ \A k \in 0..(Copied(name(i)) - 1) :
                 buf[NameAt(i) + k] = <<"char", name(i)[k + 1], 0>>
            /\ buf[NameAt(i) + Copied(name(i))] = Zero
        BY <2>0 DEF NamesWritten
      <3>4. NameAt(i) \in Nat /\ NameAt(i) >= NAMES_AT /\ NameAt(i) + NameMax <= MMAP_AT
        BY <3>1, Places
      <3>5. ASSUME NEW k \in 0..(NameMax - 1)
            PROVE  buf'[NameAt(i) + k] = buf[NameAt(i) + k]
        <4>1. NameAt(i) + k \in DOMAIN buf /\ NameAt(i) + k >= 64
          BY <1>2, <3>4, Sizes
        <4> QED
          BY <1>3, <4>1
      <3>6. \A k \in 0..(Copied(name(i)) - 1) : k \in 0..(NameMax - 1)
        BY <3>2, Sizes
      <3> HIDE DEF name
      <3> QED
        BY <3>2, <3>3, <3>5, <3>6
    <2>4. NamesBlank'
      <3>1. NameAt(Len(mods)) \in Nat /\ NameAt(Len(mods)) >= NAMES_AT
        BY <1>2, Places
      <3> SUFFICES ASSUME NEW k \in NameAt(Len(mods))..(MMAP_AT - 1) PROVE buf'[k] = Zero
        BY <1>1, Fixed DEF NamesBlank, Zero
      <3>2. k \in DOMAIN buf /\ k >= 64
        BY <1>2, <3>1, Sizes
      <3> QED
        BY <1>3, <2>0, <3>2 DEF NamesBlank
    <2>5. BeyondKept'
      <3> SUFFICES ASSUME NEW k \in InfoSize..(InfoSize + Beyond - 1)
                   PROVE  buf'[k] = <<"other", 0, 0>>
        BY DEF BeyondKept
      <3>1. k \in DOMAIN buf /\ k >= 64
        BY <1>2, Sizes
      <3> QED
        BY <1>3, <2>0, <3>1 DEF BeyondKept
    <2> QED
      BY <2>1, <2>2, <2>3, <2>4, <2>5 DEF BytesInv
  <1>9. SumsInv'
    <2>1. MMAP_MAX' = MMAP_MAX
      BY DEF MMAP_MAX, MMAP_AT, NAMES_AT, MODULES_AT, ModuleSize, MmapEntrySize
    <2> QED
      BY <1>1, <1>4, <2>1, SameSums DEF IInv, SumsInv, Min
  <1> QED
    BY <1>6, <1>7, <1>8, <1>9 DEF IInv

(* A step that changes nothing keeps the invariant. *)
LEMMA InfoStutter == IInv /\ UNCHANGED vars => IInv'
  <1> SUFFICES ASSUME IInv, UNCHANGED vars PROVE IInv'
    OBVIOUS
  <1>1. /\ pc' = pc /\ map' = map /\ modules' = modules /\ mods' = mods /\ buf' = buf
        /\ mmap_count' = mmap_count /\ mem_lower' = mem_lower /\ mem_upper' = mem_upper /\ mbi' = mbi
    BY DEF vars
  <1>2. ModCount' = ModCount
    BY <1>1 DEF ModCount
  <1>3. MMAP_MAX' = MMAP_MAX
    BY DEF MMAP_MAX, MMAP_AT, NAMES_AT, MODULES_AT, ModuleSize, MmapEntrySize
  <1>4. TypeOK'
    BY <1>1, <1>2, <1>3 DEF IInv, TypeOK
  <1>5. PartsInv'
    BY <1>1, <1>2 DEF IInv, PartsInv, EntryOf, NameAt, MbiSize, MmapEntrySize, MODULES_AT
  <1>6. BytesInv'
    BY <1>1, SameBytes DEF IInv
  <1>7. SumsInv'
    BY <1>1, <1>3, SameSums DEF IInv, SumsInv, Min
  <1> QED
    BY <1>4, <1>5, <1>6, <1>7 DEF IInv

-----------------------------------------------------------------------------
(* The strengthened invariant holds of every state build_mb1_info reaches.  *)
THEOREM Invariance == Spec => []IInv
  <1>1. IInv /\ [Next]_vars => IInv'
    BY MapStep, EndMapStep, ModuleStep, EndModulesStep, InfoStep, InfoStutter DEF Next
  <1> QED
    BY InfoInit, <1>1, PTL DEF Spec

(* The counts keep their bounds, whatever there is to tell.                 *)
THEOREM TypeCorrect == Spec => []TypeOK
  <1>1. IInv => TypeOK
    BY DEF IInv
  <1> QED
    BY Invariance, <1>1, PTL

(* The four parts neither run into each other nor out of the memory that    *)
(* was reserved, whatever their sizes and whatever there is to tell.        *)
THEOREM PartsSafe == Spec => []PartsApart
  <1>1. IInv => PartsApart
    <2> SUFFICES ASSUME IInv PROVE PartsApart
      OBVIOUS
    <2>1. \A k \in InfoSize..(InfoSize + Beyond - 1) : buf[k] = <<"other", 0, 0>>
      BY DEF IInv, BytesInv, BeyondKept
    <2>2. ASSUME pc = "done"
          PROVE  /\ Holds("mbi", InfoAt, MbiSize, 0)
                 /\ \A i \in 0..(mbi.mods_count - 1) : Holds("mod", mbi.mods_addr, ModuleSize, i)
                 /\ \A i \in 0..(mbi.mmap_length \div MmapEntrySize - 1) :
                      Holds("mmap", mbi.mmap_addr, MmapEntrySize, i)
      <3>1. /\ Len(mods) = ModCount /\ ModCount \in Nat /\ mmap_count \in Nat
            /\ \A k \in 0..(MbiSize - 1) : buf[k] = <<"mbi", 0, k>>
            /\ mbi.mods_count = ModCount
            /\ ModCount > 0 => mbi.mods_addr = InfoAt + MODULES_AT
            /\ mbi.mmap_length = mmap_count * MmapEntrySize
            /\ mbi.mmap_addr = InfoAt + MMAP_AT
        BY <2>2, Sizes, Counts DEF IInv, PartsInv, TypeOK
      <3>2. InfoAt \in Nat /\ MMAP_AT \in Nat
        BY Sizes
      <3>3. Holds("mbi", InfoAt, MbiSize, 0)
        <4>1. \A k \in 0..(MbiSize - 1) : InfoAt - InfoAt + 0 * MbiSize + k = k
          BY <3>2 DEF MbiSize
        <4> QED
          BY <3>1, <4>1 DEF Holds
      <3>4. ASSUME NEW i \in 0..(mbi.mods_count - 1)
            PROVE  Holds("mod", mbi.mods_addr, ModuleSize, i)
        <4>1. i \in 0..(Len(mods) - 1) /\ mbi.mods_addr = InfoAt + MODULES_AT
          BY <3>1
        <4>2. \A k \in 0..(ModuleSize - 1) :
                mbi.mods_addr - InfoAt + i * ModuleSize + k = ModAt(i) + k
          BY <3>2, <4>1 DEF ModAt, MODULES_AT, ModuleSize
        <4>3. ModsWritten
          BY DEF IInv, BytesInv
        <4> QED
          BY <4>1, <4>2, <4>3 DEF Holds, ModsWritten
      <3>5. ASSUME NEW i \in 0..(mbi.mmap_length \div MmapEntrySize - 1)
            PROVE  Holds("mmap", mbi.mmap_addr, MmapEntrySize, i)
        <4>1. i \in 0..(mmap_count - 1)
          <5>1. mbi.mmap_length \div MmapEntrySize = mmap_count
            BY <3>1 DEF MmapEntrySize
          <5> QED
            BY <5>1
        <4>2. \A k \in 0..(MmapEntrySize - 1) :
                mbi.mmap_addr - InfoAt + i * MmapEntrySize + k = MmapAt(i) + k
          BY <3>1, <3>2, <4>1 DEF MmapAt, MmapEntrySize
        <4>3. MapWritten
          BY DEF IInv, BytesInv
        <4> QED
          BY <4>1, <4>2, <4>3 DEF Holds, MapWritten
      <3> QED
        BY <3>3, <3>4, <3>5
    <2> QED
      BY <2>1, <2>2 DEF PartsApart
  <1> QED
    BY Invariance, <1>1, PTL

(* A kernel is told of the first modules, each with its own addresses and   *)
(* its own name, terminated, however many there are and however long their  *)
(* names.                                                                   *)
THEOREM ModulesRight == Spec => []ModulesTold
  <1>1. IInv => ModulesTold
    <2> SUFFICES ASSUME IInv, pc = "done" PROVE ModulesTold
      BY DEF ModulesTold
    <2>1. /\ modules \in Seq(Mods) /\ Len(mods) = ModCount /\ mbi.mods_count = ModCount
          /\ "MODS" \in mbi.flags <=> ModCount > 0
          /\ \A i \in 1..Len(mods) : mods[i] = EntryOf(i)
      BY DEF IInv, PartsInv
    <2>2. /\ ModCount \in Nat /\ ModCount <= Len(modules) /\ ModCount <= MaxModules
          /\ ModCount < Len(modules) => ModCount = MaxModules
          /\ Len(modules) \in Nat /\ MaxModules \in Nat /\ (modules # <<>> <=> Len(modules) # 0)
      BY <2>1, Counts, Sizes
    <2>3. "MODS" \in mbi.flags <=> modules # <<>> /\ MaxModules > 0
      BY <2>1, <2>2
    <2>4. ASSUME NEW i \in 1..mbi.mods_count
          PROVE  LET m == modules[i]
                 IN  /\ mods[i].mod_start = m.phys_start
                     /\ m.phys_start + m.size < Word32 => mods[i].mod_end = m.phys_start + m.size
                     /\ Reads(mods[i].string, SubSeq(m.name, 1, Copied(m.name)))
                     /\ Len(m.name) < NameMax => Reads(mods[i].string, m.name)
      <3> DEFINE m == modules[i]
                 n == Copied(m.name)
                 s == SubSeq(m.name, 1, n)
      <3>1. /\ i \in 1..Len(mods) /\ i \in 1..Len(modules) /\ i - 1 \in 0..(Len(mods) - 1)
            /\ i - 1 \in Nat /\ (i - 1) + 1 = i
        BY <2>1, <2>2
      <3>2. mods[i] = EntryOf(i) /\ m \in Mods
        BY <2>1, <3>1
      <3>3. m.phys_start \in 0..(Word32 - 1) /\ m.size \in Nat /\ Word32 \in Nat \ {0}
        BY <3>2, Mb1Constants, Sizes
      <3>4. /\ m.name \in Seq(Nat \ {0}) /\ n \in 0..(NameMax - 1) /\ n <= Len(m.name)
            /\ Len(m.name) < NameMax => n = Len(m.name)
        BY <2>1, <3>1, Counts
      <3>5. /\ mods[i].mod_start = m.phys_start % Word32
            /\ mods[i].mod_end = (m.phys_start + m.size) % Word32
            /\ mods[i].string = InfoAt + NameAt(i - 1)
        BY <3>2 DEF EntryOf
      <3>6. m.phys_start % Word32 = m.phys_start
        BY <3>3
      <3>7. m.phys_start + m.size < Word32 => (m.phys_start + m.size) % Word32 = m.phys_start + m.size
        BY <3>3
      <3>8. /\ \A k \in 0..(n - 1) : buf[NameAt(i - 1) + k] = <<"char", m.name[k + 1], 0>>
            /\ buf[NameAt(i - 1) + n] = Zero
        <4>1. NamesWritten
          BY DEF IInv, BytesInv
        <4> QED
          BY <3>1, <4>1 DEF NamesWritten
      <3>9. s \in Seq(Nat \ {0}) /\ Len(s) = n /\ \A k \in 1..n : s[k] = m.name[k]
        BY <3>4
      <3>10. NameAt(i - 1) \in Nat /\ InfoAt \in Nat
        BY <3>1, Places, Sizes
      <3>11. \A k \in 1..n : /\ k - 1 \in 0..(n - 1) /\ (k - 1) + 1 = k
                             /\ mods[i].string - InfoAt + k - 1 = NameAt(i - 1) + (k - 1)
        <4> HIDE DEF n, m
        <4> QED
          BY <3>4, <3>5, <3>10
      <3>12. mods[i].string - InfoAt + n = NameAt(i - 1) + n
        <4> HIDE DEF n, m
        <4> QED
          BY <3>4, <3>5, <3>10
      <3> HIDE DEF n, s, m
      <3>13. Reads(mods[i].string, s)
        <4>1. DOMAIN s = 1..n
          BY <3>9
        <4>2. ASSUME NEW k \in 1..n
              PROVE  buf[mods[i].string - InfoAt + k - 1] = <<"char", s[k], 0>>
          <5>1. /\ k - 1 \in 0..(n - 1) /\ (k - 1) + 1 = k /\ s[k] = m.name[k]
                /\ mods[i].string - InfoAt + k - 1 = NameAt(i - 1) + (k - 1)
            BY <3>9, <3>11
          <5>2. buf[NameAt(i - 1) + (k - 1)] = <<"char", m.name[(k - 1) + 1], 0>>
            BY <3>8, <5>1
          <5> QED
            BY <5>1, <5>2
        <4>3. buf[mods[i].string - InfoAt + Len(s)] = Zero
          BY <3>8, <3>9, <3>12
        <4> QED
          BY <4>1, <4>2, <4>3 DEF Reads
      <3>14. Len(m.name) < NameMax => Reads(mods[i].string, m.name)
        BY <3>4, <3>8, <3>11, <3>12 DEF Reads
      <3> QED
        BY <3>5, <3>6, <3>7, <3>13, <3>14 DEF m, s, n
    <2> QED
      BY <2>1, <2>2, <2>3, <2>4 DEF ModulesTold
  <1> QED
    BY Invariance, <1>1, PTL

(* What is summed up of the memory is what the map that is handed over has, *)
(* below and from the region at one megabyte on.                            *)
THEOREM MemoryRight == Spec => []MemorySummed
  <1>1. IInv => MemorySummed
    BY DEF IInv, SumsInv, MemorySummed
  <1> QED
    BY Invariance, <1>1, PTL
=============================================================================
