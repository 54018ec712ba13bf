--------------------------- MODULE Mb2InfoProofs ----------------------------
(***************************************************************************)
(* What build_mb2_info promises for a buffer of any size, any memory map    *)
(* and any modules.                                                         *)
(*                                                                         *)
(* That the tags form a chain inside the buffer needs where each part of    *)
(* the writer stands: PartInv says how far the map or the module list has   *)
(* been written, and that past the map the position is on a boundary of     *)
(* eight.  That everything is told when there is room for it needs the      *)
(* place of every part: RoomInv says that the position is what the parts    *)
(* before it take, and which tags those parts have left.                    *)
(***************************************************************************)
EXTENDS Mb2Info, TLAPS, WellFoundedInduction

PartInv ==
  /\ pc = "mmap" =>
       /\ tags = <<>>
       /\ next = Len(entries) + 1 /\ next <= Len(map) + 1
       /\ pos = 24 + 24 * Len(entries)
  /\ pc # "mmap" => tags # <<>> /\ pos % 8 = 0
  /\ pc = "modules" => Len(tags) = next /\ next <= Len(modules) + 1

IInv == TypeOK /\ PartInv /\ Walkable /\ ToldInOrder

-----------------------------------------------------------------------------
(* Rounding up to eight goes up by less than eight, and never past the end  *)
(* of the buffer.                                                           *)
LEMMA RoundUp ==
  ASSUME NEW n \in Nat
  PROVE  /\ Align8(n) \in Nat /\ n <= Align8(n) /\ Align8(n) < n + 8
         /\ Align8(n) % 8 = 0
         /\ n <= InfoSize => Align8(n) <= InfoSize
         /\ n % 8 = 0 => Align8(n) = n
  BY Mb2Constants DEF Align8

(* What the type invariant says of the module at a place in the list. *)
LEMMA ModuleFacts ==
  ASSUME TypeOK, NEW k \in DOMAIN modules
  PROVE  /\ modules[k].phys_start \in 0..(Word32 - 1)
         /\ modules[k].size \in Nat /\ modules[k].name \in 0..MaxName
  <1>1. modules[k] \in Mods
    BY DEF TypeOK
  <1> QED
    BY <1>1, Mb2Constants

(* The same of the memory descriptor at a place in the map. *)
LEMMA DescFacts ==
  ASSUME TypeOK, NEW k \in DOMAIN map
  PROVE  MmapEntryOf(map[k]) \in [base_addr : Nat, length : Nat, type : 1..4]
  <1>1. map[k] \in Descs
    BY DEF TypeOK
  <1>2. map[k].phys_start \in Nat /\ map[k].page_count \in Nat
    BY <1>1, Mb2Constants
  <1>3. efi_memtype_to_mb(map[k].ty) \in 1..4
    BY DEF efi_memtype_to_mb
  <1> QED
    BY <1>2, <1>3 DEF MmapEntryOf

(* A tag appended where the chain arrives makes a chain again. *)
LEMMA ChainGrows ==
  ASSUME TypeOK, Walkable, NEW t \in TagRecord, tags' = Append(tags, t),
         t.at = IF tags = <<>> THEN HeaderSize ELSE pos,
         Follows(t, pos'), pc' = "done" => total' = pos'
  PROVE  Walkable'
  <1>1. PICK n \in Nat : n = Len(tags) /\ DOMAIN tags = 1..n
    BY DEF TypeOK
  <1>2. /\ Len(tags') = n + 1 /\ tags'[n + 1] = t /\ tags' # <<>>
        /\ \A k \in 1..n : tags'[k] = tags[k]
    BY <1>1 DEF TypeOK
  <1>3. tags = <<>> <=> n = 0
    BY <1>1 DEF TypeOK
  <1>4. ASSUME NEW k \in 1..n
        PROVE  Follows(tags'[k], tags'[k + 1].at)
    <2>1. CASE k = n
      BY <1>1, <1>2, <1>3, <2>1 DEF Walkable
    <2>2. CASE k # n
      <3>1. k \in 1..(n - 1) /\ k + 1 \in 1..n
        BY <2>2, <1>1
      <3> QED
        BY <1>1, <1>2, <3>1 DEF Walkable
    <2> QED
      BY <2>1, <2>2
  <1>5. tags'[1].at = HeaderSize
    BY <1>1, <1>2, <1>3 DEF Walkable
  <1>6. \A k \in 1..(Len(tags') - 1) : Follows(tags'[k], tags'[k + 1].at)
    BY <1>1, <1>2, <1>4
  <1>7. Follows(tags'[Len(tags')], pos')
    BY <1>1, <1>2
  <1>8. HeaderSize' = HeaderSize
    BY DEF HeaderSize
  <1>9. /\ \A k \in 1..(Len(tags') - 1) : Follows(tags'[k], tags'[k + 1].at)
        /\ tags' # <<>> => tags'[1].at = HeaderSize /\ Follows(tags'[Len(tags')], pos')
        /\ pc' = "done" => total' = pos'
    BY <1>5, <1>6, <1>7
  <1> QED
    BY <1>9 DEF Walkable, Follows, HeaderSize

(* A tag that is no module's leaves what has been told. *)
LEMMA ToldKept ==
  ASSUME TypeOK, ToldInOrder, NEW t \in TagRecord, tags' = Append(tags, t),
         t.type # "MODULE", UNCHANGED <<inputs, entries>>
  PROVE  ToldInOrder'
  <1>1. PICK n \in Nat : n = Len(tags) /\ DOMAIN tags = 1..n
    BY DEF TypeOK
  <1>2. /\ DOMAIN tags' = 1..(n + 1) /\ tags'[n + 1] = t
        /\ \A k \in 1..n : tags'[k] = tags[k]
    BY <1>1 DEF TypeOK
  <1>3. ModTags' = ModTags
    BY <1>1, <1>2 DEF ModTags
  <1>4. \A k \in ModTags : tags'[k] = tags[k]
    BY <1>1, <1>2 DEF ModTags
  <1>5. map' = map /\ modules' = modules /\ entries' = entries
    BY DEF inputs
  <1>6. \A k \in ModTags' : k - 1 \in DOMAIN modules' /\ Describes(tags'[k], modules'[k - 1])
    BY <1>3, <1>4, <1>5 DEF ToldInOrder
  <1> QED
    BY <1>5, <1>6 DEF ToldInOrder, Describes

-----------------------------------------------------------------------------
(* The writer begins in the invariant. *)
LEMMA InfoInit == Init => IInv
  <1> SUFFICES ASSUME Init PROVE IInv
    OBVIOUS
  <1>1. map \in Seq(Descs) /\ modules \in Seq(Mods)
    BY DEF Init, SeqsUpTo
  <1>2. TypeOK
    BY <1>1, Mb2Constants DEF Init, TypeOK, HeaderSize, MmapHead
  <1>3. PartInv
    BY <1>1 DEF Init, PartInv, HeaderSize, MmapHead
  <1>4. Walkable /\ ToldInOrder
    BY <1>1 DEF Init, Walkable, ToldInOrder, ModTags
  <1> QED
    BY <1>2, <1>3, <1>4 DEF IInv

(* Writing an entry of the memory map keeps the invariant. *)
LEMMA MmapEntryStep == IInv /\ WriteMmapEntry => IInv'
  <1> SUFFICES ASSUME IInv, WriteMmapEntry PROVE IInv'
    OBVIOUS
  <1>1. /\ pc = "mmap" /\ pc' = "mmap" /\ next' = next + 1 /\ pos' = pos + 24
        /\ next <= Len(map) /\ pos + 24 <= InfoSize
        /\ map' = map /\ modules' = modules /\ fb' = fb /\ rsdp' = rsdp
        /\ tags' = tags /\ total' = total
        /\ entries' = Append(entries, MmapEntryOf(map[next]))
    BY DEF WriteMmapEntry, MmapEntryFits, MmapEntrySize, inputs
  <1>2. PICK n \in Nat : n = Len(entries) /\ DOMAIN entries = 1..n
    BY DEF IInv, TypeOK
  <1>3. /\ next = n + 1 /\ pos = 24 + 24 * n /\ tags = <<>> /\ next \in DOMAIN map
        /\ Len(map) \in Nat /\ pos \in Nat /\ InfoSize \in Nat
    BY <1>1, <1>2, Mb2Constants DEF IInv, PartInv, TypeOK
  <1>4. MmapEntryOf(map[next]) \in [base_addr : Nat, length : Nat, type : 1..4]
    BY <1>3, DescFacts DEF IInv
  <1>5. /\ entries' \in Seq([base_addr : Nat, length : Nat, type : 1..4])
        /\ Len(entries') = n + 1 /\ DOMAIN entries' = 1..(n + 1)
        /\ entries'[n + 1] = MmapEntryOf(map[next]) /\ \A k \in 1..n : entries'[k] = entries[k]
    BY <1>1, <1>2, <1>4 DEF IInv, TypeOK
  <1>6. TypeOK'
    BY <1>1, <1>3, <1>5 DEF IInv, TypeOK
  <1>7. PartInv'
    <2>1. /\ pc' = "mmap" /\ tags' = <<>> /\ map' = map
          /\ next' = Len(entries') + 1 /\ next' <= Len(map) + 1
      BY <1>1, <1>2, <1>3, <1>5
    <2>2. pos' = 24 + 24 * Len(entries')
      BY <1>1, <1>2, <1>3, <1>5
    <2> QED
      BY <2>1, <2>2 DEF PartInv
  <1>8. Walkable'
    BY <1>1, <1>3 DEF Walkable
  <1>9. \A k \in DOMAIN entries' : entries'[k] = MmapEntryOf(map'[k])
    BY <1>1, <1>2, <1>3, <1>5 DEF IInv, ToldInOrder
  <1>10. ModTags' = {}
    BY <1>1, <1>3 DEF ModTags
  <1>11. ToldInOrder'
    BY <1>1, <1>3, <1>5, <1>9, <1>10 DEF ToldInOrder, MmapEntryOf
  <1> QED
    BY <1>6, <1>7, <1>8, <1>11 DEF IInv

(* Filling in the size of the memory map tag keeps the invariant. *)
LEMMA CloseMmapStep == IInv /\ CloseMmap => IInv'
  <1> SUFFICES ASSUME IInv, CloseMmap PROVE IInv'
    OBVIOUS
  <1>t. PICK t : t = [type |-> "MMAP", at |-> 8, size |-> pos - 8, body |-> <<>>]
    OBVIOUS
  <1>0. tags = <<>> /\ Len(entries) \in Nat /\ pos = 24 + 24 * Len(entries) /\ pos \in 0..InfoSize
    BY DEF CloseMmap, IInv, PartInv, TypeOK
  <1>1. /\ pc' = "modules" /\ next' = 1 /\ pos' = Align8(pos)
        /\ UNCHANGED <<inputs, entries>> /\ total' = total
        /\ tags' = <<t>> /\ tags' = Append(tags, t)
    BY <1>0, <1>t DEF CloseMmap, Tag, HeaderSize
  <1>2. InfoSize \in Nat /\ pos \in Nat /\ pos >= 24 /\ pos % 8 = 0 /\ pos' = pos
    BY <1>0, <1>1, RoundUp, Mb2Constants
  <1>3. t \in TagRecord
    BY <1>0, <1>2, <1>t DEF TagRecord, Body
  <1>4. tags' \in Seq(TagRecord) /\ Len(tags') = 1 /\ tags' # <<>>
    BY <1>1, <1>3
  <1>5. TypeOK'
    BY <1>0, <1>1, <1>2, <1>4 DEF IInv, TypeOK, inputs
  <1>6. PartInv'
    <2>1. Len(modules') \in Nat
      BY <1>5 DEF TypeOK
    <2> QED
      BY <1>1, <1>2, <1>4, <2>1 DEF PartInv
  <1>7. Follows(t, pos')
    BY <1>2, <1>t DEF Follows
  <1>8. Walkable'
    BY <1>0, <1>1, <1>3, <1>7, <1>t, ChainGrows DEF IInv, HeaderSize
  <1>9. ToldInOrder'
    BY <1>1, <1>3, <1>t, ToldKept DEF IInv
  <1> QED
    BY <1>5, <1>6, <1>8, <1>9 DEF IInv

(* A tag that is no module's, written after the modules, keeps the          *)
(* invariant.                                                               *)
LEMMA TagStep ==
  ASSUME IInv, NEW t \in TagRecord, tags' = Append(tags, t), t.type # "MODULE", t.at = pos,
         pos' \in 0..InfoSize, Follows(t, pos'),
         pc \in {"framebuffer", "rsdp", "end"}, pc' \in {"rsdp", "end", "done"},
         UNCHANGED <<inputs, next, entries>>, total' \in 0..InfoSize,
         pc' = "done" => total' = pos'
  PROVE  IInv'
  <1>1. tags # <<>>
    BY DEF IInv, PartInv
  <1>2. tags' \in Seq(TagRecord) /\ tags' # <<>>
    BY DEF IInv, TypeOK
  <1>3. TypeOK'
    BY <1>2 DEF IInv, TypeOK, inputs
  <1>4. PartInv'
    BY <1>2 DEF PartInv, Follows
  <1>5. Walkable'
    BY <1>1, ChainGrows DEF IInv
  <1>6. ToldInOrder'
    BY ToldKept DEF IInv
  <1> QED
    BY <1>3, <1>4, <1>5, <1>6 DEF IInv

(* So does going on to the next part where the position is. *)
LEMMA NoTagStep ==
  ASSUME IInv, UNCHANGED <<inputs, next, pos, entries, tags>>, pc # "mmap",
         pc' \in {"framebuffer", "rsdp", "end", "done"}, total' \in 0..InfoSize,
         pc' = "done" => total' = pos
  PROVE  IInv'
  <1>1. TypeOK'
    BY DEF IInv, TypeOK, inputs
  <1>2. PartInv'
    BY DEF IInv, PartInv
  <1>3. Walkable'
    BY DEF IInv, Walkable, Follows, HeaderSize
  <1>4. ToldInOrder'
    BY DEF IInv, ToldInOrder, ModTags, Describes, MmapEntryOf, inputs
  <1> QED
    BY <1>1, <1>2, <1>3, <1>4 DEF IInv

(* Writing a module's tag keeps the invariant. *)
LEMMA ModuleStep == IInv /\ WriteModule => IInv'
  <1> SUFFICES ASSUME IInv, WriteModule PROVE IInv'
    OBVIOUS
  <1>m. PICK m : m = modules[next]
    OBVIOUS
  <1>t. PICK t : t = ModTag(m)
    OBVIOUS
  <1>1. /\ pc = "modules" /\ pc' = "modules" /\ next' = next + 1
        /\ next <= Len(modules) /\ pos + ModTagSize(m) <= InfoSize
        /\ pos' = Align8(pos + ModTagSize(m))
        /\ map' = map /\ modules' = modules /\ fb' = fb /\ rsdp' = rsdp
        /\ entries' = entries /\ total' = total
        /\ tags' = Append(tags, t)
    BY <1>m, <1>t DEF WriteModule, ModuleFits, inputs
  <1>2. /\ Len(tags) = next /\ tags # <<>> /\ pos % 8 = 0 /\ pos \in 0..InfoSize
        /\ Len(tags) \in Nat /\ DOMAIN tags = 1..Len(tags) /\ Len(tags) # 0
        /\ Len(modules) \in Nat /\ DOMAIN modules = 1..Len(modules)
    BY <1>1 DEF IInv, PartInv, TypeOK
  <1>3. next \in DOMAIN modules
    BY <1>1, <1>2
  <1>4. m.phys_start \in 0..(Word32 - 1) /\ m.size \in Nat /\ m.name \in 0..MaxName
    BY <1>3, <1>m, ModuleFacts DEF IInv
  <1>5. /\ Word32 \in Nat \ {0} /\ MaxName \in Nat /\ InfoSize \in Nat
        /\ m.phys_start \in Nat /\ m.phys_start < Word32 /\ m.name \in Nat
    BY <1>4, Mb2Constants
  <1>6. /\ m.phys_start % Word32 = m.phys_start
        /\ (m.phys_start + m.size) % Word32 \in 0..(Word32 - 1)
        /\ m.phys_start + m.size < Word32 => (m.phys_start + m.size) % Word32 = m.phys_start + m.size
    BY <1>4, <1>5
  <1>7. ModTagSize(m) = 17 + m.name /\ ModTagSize(m) \in Nat
    BY <1>5 DEF ModTagSize
  <1>8. /\ t.type = "MODULE" /\ t.at = pos /\ t.size = 17 + m.name
        /\ t.body = <<m.phys_start, (m.phys_start + m.size) % Word32, m.name>>
        /\ t = [type |-> "MODULE", at |-> pos, size |-> 17 + m.name, body |-> t.body]
    BY <1>6, <1>7, <1>t DEF ModTag
  <1>9. t.body \in Body
    BY <1>4, <1>6, <1>8 DEF Body
  <1>10. t \in TagRecord
    <2>1. 17 + m.name \in 0..InfoSize
      BY <1>1, <1>2, <1>5, <1>7
    <2> QED
      BY <1>2, <1>8, <1>9, <2>1 DEF TagRecord
  <1>11. /\ pos' \in 0..InfoSize /\ pos' % 8 = 0 /\ Follows(t, pos')
    <2>1. PICK e \in Nat : e = pos + ModTagSize(m)
      BY <1>2, <1>5, <1>7
    <2>2. e <= InfoSize /\ pos' = Align8(e) /\ t.at + t.size = e
      BY <2>1, <1>1, <1>7, <1>8
    <2>3. pos' \in Nat /\ pos' <= InfoSize /\ pos' % 8 = 0 /\ e <= pos' /\ pos' < e + 8
      BY <2>2, RoundUp
    <2> QED
      BY <2>2, <2>3, <1>5 DEF Follows
  <1>12. /\ tags' \in Seq(TagRecord) /\ Len(tags') = next + 1 /\ tags' # <<>>
         /\ DOMAIN tags' = 1..(next + 1) /\ tags'[next + 1] = t
         /\ \A k \in 1..next : tags'[k] = tags[k]
    <2>1. tags \in Seq(TagRecord) /\ Len(tags) = next /\ next \in Nat
      BY <1>2 DEF IInv, TypeOK
    <2>2. tags' \in Seq(TagRecord) /\ Len(tags') = next + 1
      BY <2>1, <1>1, <1>10
    <2>3. DOMAIN tags' = 1..(next + 1) /\ tags' # <<>>
      BY <2>1, <2>2
    <2>4. tags'[next + 1] = t /\ \A k \in 1..next : tags'[k] = tags[k]
      BY <2>1, <1>1, <1>10
    <2> QED
      BY <2>2, <2>3, <2>4
  <1>13. TypeOK'
    BY <1>1, <1>11, <1>12 DEF IInv, TypeOK
  <1>14. PartInv'
    BY <1>1, <1>2, <1>11, <1>12 DEF PartInv
  <1>15. Walkable'
    BY <1>1, <1>2, <1>8, <1>10, <1>11, ChainGrows DEF IInv
  <1>16. Describes(t, m)
    BY <1>4, <1>5, <1>6, <1>8 DEF Describes
  <1>17. \A k \in ModTags' : k - 1 \in DOMAIN modules' /\ Describes(tags'[k], modules'[k - 1])
    <2> SUFFICES ASSUME NEW k \in ModTags'
                 PROVE  k - 1 \in DOMAIN modules' /\ Describes(tags'[k], modules'[k - 1])
      OBVIOUS
    <2>0. k \in 1..(next + 1) /\ tags'[k].type = "MODULE"
      BY <1>12 DEF ModTags
    <2>1. CASE k = next + 1
      BY <2>1, <1>1, <1>2, <1>3, <1>12, <1>16, <1>m
    <2>2. CASE k # next + 1
      <3>1. k \in ModTags /\ tags'[k] = tags[k]
        BY <2>0, <2>2, <1>2, <1>12 DEF ModTags
      <3> QED
        BY <3>1, <1>1 DEF IInv, ToldInOrder
    <2> QED
      BY <2>1, <2>2
  <1>18. ToldInOrder'
    <2>1. /\ Len(entries') <= Len(map')
          /\ \A k \in DOMAIN entries' : entries'[k] = MmapEntryOf(map'[k])
      BY <1>1 DEF IInv, ToldInOrder
    <2> QED
      BY <2>1, <1>17 DEF ToldInOrder, Describes, MmapEntryOf
  <1> QED
    BY <1>13, <1>14, <1>15, <1>18 DEF IInv

(* The framebuffer, the root pointer and the end, written or left out, keep *)
(* the invariant.                                                           *)
LEMMA LaterSteps ==
  ASSUME IInv, \/ CloseModules \/ WriteFramebuffer \/ SkipFramebuffer
               \/ WriteRsdp \/ SkipRsdp \/ WriteEnd \/ OmitEnd
  PROVE  IInv'
  <1>0. pc # "mmap" /\ pos % 8 = 0 /\ pos \in 0..InfoSize /\ InfoSize \in Nat /\ total \in 0..InfoSize
        /\ rsdp \in {0, 20, 36}
    BY Mb2Constants DEF IInv, PartInv, TypeOK, CloseModules, WriteFramebuffer, SkipFramebuffer,
       WriteRsdp, SkipRsdp, WriteEnd, OmitEnd
  <1>1. CASE CloseModules \/ SkipRsdp
    BY <1>0, <1>1, NoTagStep DEF CloseModules, SkipRsdp
  <1>2. CASE SkipFramebuffer
    <2>1. pos' = pos
      BY <1>0, <1>2, RoundUp DEF SkipFramebuffer
    <2> QED
      BY <1>0, <1>2, <2>1, NoTagStep DEF SkipFramebuffer
  <1>3. CASE OmitEnd
    BY <1>0, <1>3, NoTagStep DEF OmitEnd
  <1>4. CASE WriteFramebuffer
    <2>1. PICK t : t = [type |-> "FRAMEBUFFER", at |-> pos, size |-> 37, body |-> <<>>]
      OBVIOUS
    <2>2. /\ tags' = Append(tags, t) /\ pos' = Align8(pos + 37) /\ pos + 37 <= InfoSize
          /\ pc = "framebuffer" /\ pc' = "rsdp" /\ UNCHANGED <<inputs, next, entries, total>>
      BY <1>4, <2>1 DEF WriteFramebuffer, Tag, FbTagSize
    <2>3. t \in TagRecord
      BY <1>0, <2>1, <2>2 DEF TagRecord, Body
    <2>4. pos' \in 0..InfoSize /\ Follows(t, pos')
      BY <1>0, <2>1, <2>2, RoundUp DEF Follows
    <2> QED
      BY <1>0, <2>1, <2>2, <2>3, <2>4, TagStep
  <1>5. CASE WriteRsdp
    <2>1. PICK t : t = [type |-> IF rsdp = 36 THEN "ACPI_NEW" ELSE "ACPI_OLD", at |-> pos,
                        size |-> 8 + rsdp, body |-> <<>>]
      OBVIOUS
    <2>2. /\ tags' = Append(tags, t) /\ pos' = Align8(pos + (8 + rsdp))
          /\ pos + (8 + rsdp) + 8 <= InfoSize
          /\ pc = "rsdp" /\ pc' = "end" /\ UNCHANGED <<inputs, next, entries, total>>
      BY <1>5, <2>1 DEF WriteRsdp, Tag, RsdpTagSize, RsdpRoom, EndTagSize
    <2>3. t \in TagRecord
      BY <1>0, <2>1, <2>2 DEF TagRecord, Body
    <2>4. pos' \in 0..InfoSize /\ Follows(t, pos')
      <3>1. PICK e \in Nat : e = pos + (8 + rsdp)
        BY <1>0
      <3>2. e <= InfoSize /\ pos' = Align8(e) /\ t.at + t.size = e
        BY <3>1, <1>0, <2>1, <2>2
      <3>3. pos' \in Nat /\ pos' <= InfoSize /\ pos' % 8 = 0 /\ e <= pos' /\ pos' < e + 8
        BY <3>2, RoundUp
      <3> QED
        BY <3>2, <3>3, <1>0 DEF Follows
    <2> QED
      BY <1>0, <2>1, <2>2, <2>3, <2>4, TagStep
  <1>6. CASE WriteEnd
    <2>1. PICK t : t = [type |-> "END", at |-> pos, size |-> 8, body |-> <<>>]
      OBVIOUS
    <2>2. /\ tags' = Append(tags, t) /\ pos' = pos + 8 /\ total' = pos + 8 /\ pos + 8 <= InfoSize
          /\ pc = "end" /\ pc' = "done" /\ UNCHANGED <<inputs, next, entries>>
      BY <1>6, <2>1 DEF WriteEnd, Tag, EndTagSize
    <2>3. t \in TagRecord
      BY <1>0, <2>1, <2>2 DEF TagRecord, Body
    <2>4. pos' \in 0..InfoSize /\ Follows(t, pos')
      BY <1>0, <2>1, <2>2 DEF Follows
    <2> QED
      BY <1>0, <2>1, <2>2, <2>3, <2>4, TagStep
  <1> QED
    BY <1>1, <1>2, <1>3, <1>4, <1>5, <1>6

(* A step that changes nothing keeps the invariant. *)
LEMMA InfoStutter == IInv /\ UNCHANGED vars => IInv'
  BY DEF IInv, TypeOK, PartInv, Walkable, ToldInOrder, ModTags, Describes, Follows, HeaderSize,
         MmapEntryOf, vars, inputs

-----------------------------------------------------------------------------
(* The strengthened invariant holds of every state build_mb2_info reaches. *)
THEOREM Invariance == Spec => []IInv
  <1>1. IInv /\ [Next]_vars => IInv'
    BY MmapEntryStep, CloseMmapStep, ModuleStep, LaterSteps, InfoStutter DEF Next
  <1> QED
    BY InfoInit, <1>1, PTL DEF Spec

(* Nothing is written past the end of the buffer, whatever its size and     *)
(* whatever there is to tell.                                               *)
THEOREM TypeCorrect == Spec => []TypeOK
  <1>1. IInv => TypeOK
    BY DEF IInv
  <1> QED
    BY Invariance, <1>1, PTL

(* The tags a kernel meets hopping from one to the next by their sizes are  *)
(* exactly those that were written, up to total_size.                       *)
THEOREM WalkSafe == Spec => []Walkable
  <1>1. IInv => Walkable
    BY DEF IInv
  <1> QED
    BY Invariance, <1>1, PTL

(* The kernel is told of a first part of the map and of the modules, in     *)
(* order and without a gap, however much fits.                              *)
THEOREM OrderTold == Spec => []ToldInOrder
  <1>1. IInv => ToldInOrder
    BY DEF IInv
  <1> QED
    BY Invariance, <1>1, PTL
-----------------------------------------------------------------------------
(* Where the parts begin when all is told, and the types of the tags before *)
(* each of them.                                                            *)
FramebufferAt == 24 + 24 * Len(map) + ModuleBytes
RsdpAt        == FramebufferAt + (IF fb THEN 40 ELSE 0)
EndAt         == RsdpAt + (IF rsdp = 0 THEN 0 ELSE Padded(8 + rsdp))

ModuleTypes(n) == <<"MMAP">> \o [k \in 1..n |-> "MODULE"]
RsdpTypes      == ModuleTypes(Len(modules)) \o (IF fb THEN <<"FRAMEBUFFER">> ELSE <<>>)
EndTypes       ==
  RsdpTypes
    \o (CASE rsdp = 0 -> <<>> [] rsdp = 20 -> <<"ACPI_OLD">> [] rsdp = 36 -> <<"ACPI_NEW">>)

(* When there is room for everything, everything so far has been told. *)
RoomInv ==
  Demand <= InfoSize =>
    /\ pc # "mmap" => Len(entries) = Len(map)
    /\ pc = "modules" =>
         /\ pos = 24 + 24 * Len(map) + BytesOf(modules)[next - 1]
         /\ TypesOf(tags) = ModuleTypes(next - 1)
    /\ pc = "framebuffer" => pos = FramebufferAt /\ TypesOf(tags) = ModuleTypes(Len(modules))
    /\ pc = "rsdp" => pos = RsdpAt /\ TypesOf(tags) = RsdpTypes
    /\ pc = "end" => pos = EndAt /\ TypesOf(tags) = EndTypes
    /\ pc = "done" => TypesOf(tags) = AllTypes

(* A set that has 0, and with n - 1 always n, has all the numbers up to N:  *)
(* the least one it had not would follow one that it has.                   *)
LEMMA UpwardInduction ==
  ASSUME NEW N \in Nat, NEW S, 0 \in S, \A n \in 1..N : n - 1 \in S => n \in S
  PROVE  \A n \in 0..N : n \in S
  <1> DEFINE T == (0..N) \ S
  <1> SUFFICES ASSUME T # {} PROVE FALSE
    OBVIOUS
  <1>1. T \in SUBSET Nat
    OBVIOUS
  <1>2. PICK x \in T : \A y \in T : ~(<<y, x>> \in OpToRel(<, Nat))
    <2> HIDE DEF T
    <2> QED
      BY <1>1, WFMin, NatLessThanWellFounded
  <1>3. \A y \in T : ~(y < x)
    <2> HIDE DEF T
    <2> QED
      BY <1>1, <1>2, Zenon DEF OpToRel
  <1>4. x \in 0..N /\ x \notin S
    OBVIOUS
  <1>5. x # 0
    BY <1>4
  <1>6. x - 1 \in 0..N /\ x - 1 \notin T
    <2> HIDE DEF T
    <2> QED
      BY <1>3, <1>4, <1>5
  <1>7. x - 1 \in S /\ x \in 1..N
    BY <1>4, <1>5, <1>6
  <1> QED
    BY <1>4, <1>7

(* What a tag takes is a multiple of eight, and the position after it that  *)
(* many bytes further on.                                                   *)
LEMMA PaddedFacts ==
  ASSUME NEW n \in Nat
  PROVE  /\ Padded(n) \in Nat /\ n <= Padded(n)
         /\ \A p \in Nat : p % 8 = 0 => Align8(p + n) = p + Padded(n)
  BY DEF Padded, Align8

(* The bytes of the first n modules are those of one fewer and its own, and *)
(* no more than those of all.                                               *)
LEMMA BytesFacts ==
  ASSUME NEW ms \in Seq(Mods)
  PROVE  /\ \A n \in 0..Len(ms) : BytesOf(ms)[n] \in Nat /\ BytesOf(ms)[n] <= BytesOf(ms)[Len(ms)]
         /\ BytesOf(ms)[0] = 0
         /\ \A n \in 1..Len(ms) : BytesOf(ms)[n] = BytesOf(ms)[n - 1] + Padded(17 + ms[n].name)
  <1> DEFINE N == Len(ms)
             D(n) == Padded(17 + ms[n].name)
             G(f, n) == IF n = 0 THEN 0 ELSE f[n - 1] + D(n)
             Upto(f, m) == f = [n \in 0..m |-> G(f, n)]
             B == CHOOSE f : Upto(f, N)
  <1>1. N \in Nat /\ \A n \in 1..N : D(n) \in Nat
    <2>1. \A m \in Mods : 17 + m.name \in Nat
      BY Mb2Constants
    <2>2. N \in Nat /\ \A n \in 1..N : ms[n] \in Mods
      OBVIOUS
    <2> HIDE DEF N
    <2>3. ASSUME NEW n \in 1..N PROVE D(n) \in Nat
      <3>1. 17 + ms[n].name \in Nat
        BY <2>1, <2>2
      <3> QED
        BY <3>1, PaddedFacts
    <2> QED
      BY <2>2, <2>3
  <1>2. BytesOf(ms) = B
    BY DEF BytesOf
  <1> HIDE DEF N, D
  (* The recursion defines a function. *)
  <1>3. \E f : Upto(f, N)
    <2> DEFINE S == {m \in 0..N : \E f : Upto(f, m)}
    <2>1. 0 \in S
      <3> DEFINE f == [n \in 0..0 |-> 0]
      <3>1. Upto(f, 0)
        OBVIOUS
      <3> HIDE DEF Upto
      <3> QED
        BY <1>1, <3>1
    <2>2. ASSUME NEW x \in 1..N, x - 1 \in S PROVE x \in S
      <3>1. PICK g : Upto(g, x - 1)
        BY <2>2
      <3> DEFINE f == [n \in 0..x |-> G(g, n)]
      <3>2. \A n \in 1..x : n - 1 \in 0..(x - 1) /\ n - 1 \in 0..x
        BY <1>1
      <3>3. \A n \in 1..x : f[n - 1] = g[n - 1]
        <4>1. \A i \in 0..(x - 1) : g[i] = G(g, i)
          BY <3>1
        <4>2. \A i \in 0..x : f[i] = G(g, i)
          OBVIOUS
        <4> HIDE DEF f, G
        <4> QED
          BY <3>2, <4>1, <4>2
      <3>4. \A n \in 0..x : G(f, n) = G(g, n)
        <4> SUFFICES ASSUME NEW n \in 0..x PROVE G(f, n) = G(g, n)
          OBVIOUS
        <4>1. CASE n = 0
          BY <4>1
        <4>2. CASE n # 0
          <5> HIDE DEF f
          <5>1. n \in 1..x
            BY <1>1, <4>2
          <5>2. f[n - 1] = g[n - 1]
            BY <3>3, <5>1
          <5> QED
            BY <4>2, <5>2
        <4> QED
          BY <4>1, <4>2
      <3>5. f = [n \in 0..x |-> G(f, n)]
        <4> DEFINE h == [n \in 0..x |-> G(f, n)]
        <4>1. f = h
          <5> HIDE DEF G
          <5> QED
            BY <3>4
        <4> QED
          BY <4>1
      <3>6. x \in 0..N
        BY <1>1
      <3> QED
        BY <3>5, <3>6
    <2> HIDE DEF S
    <2>3. \A n \in 0..N : n \in S
      BY <1>1, <2>1, <2>2, UpwardInduction
    <2>4. N \in S
      BY <1>1, <2>3
    <2> QED
      BY <2>4 DEF S
  <1>4. Upto(B, N)
    BY <1>3, Zenon
  <1> HIDE DEF B
  <1>5. \A n \in 0..N : B[n] = G(B, n)
    BY <1>4
  <1>6. B[0] = 0 /\ \A n \in 1..N : B[n] = B[n - 1] + D(n)
    <2>1. 0 \in 0..N /\ \A n \in 1..N : n \in 0..N /\ n # 0
      BY <1>1
    <2> HIDE DEF Upto
    <2> QED
      BY <1>5, <2>1
  <1> HIDE DEF G
  <1>7. \A n \in 0..N : B[n] \in Nat
    <2> DEFINE S == {n \in 0..N : B[n] \in Nat}
    <2>1. 0 \in S
      BY <1>1, <1>6
    <2>2. ASSUME NEW n \in 1..N, n - 1 \in S PROVE n \in S
      <3>1. B[n] = B[n - 1] + D(n) /\ D(n) \in Nat
        BY <1>1, <1>6
      <3> QED
        BY <1>1, <2>2, <3>1
    <2> HIDE DEF S
    <2>3. \A n \in 0..N : n \in S
      BY <1>1, <2>1, <2>2, UpwardInduction
    <2> QED
      BY <2>3 DEF S
  (* The last is no less than the one i places before it. *)
  <1>8. \A i \in 0..N : B[N - i] <= B[N]
    <2> DEFINE S == {i \in 0..N : B[N - i] <= B[N]}
    <2>0. N \in 0..N /\ B[N] \in Nat
      BY <1>1, <1>7
    <2>1. 0 \in S
      BY <1>1, <2>0
    <2>2. ASSUME NEW i \in 1..N, i - 1 \in S PROVE i \in S
      <3>1. N - i \in 0..N /\ N - (i - 1) \in 1..N /\ (N - (i - 1)) - 1 = N - i
        BY <1>1
      <3>2. B[N - (i - 1)] = B[N - i] + D(N - (i - 1)) /\ D(N - (i - 1)) \in Nat
        BY <1>1, <1>6, <3>1
      <3>3. B[N - (i - 1)] <= B[N]
        BY <2>2
      <3>4. B[N - i] \in Nat
        BY <1>7, <3>1
      <3> QED
        BY <2>0, <3>2, <3>3, <3>4
    <2> HIDE DEF S
    <2>3. \A n \in 0..N : n \in S
      BY <1>1, <2>1, <2>2, UpwardInduction
    <2> QED
      BY <2>3 DEF S
  <1>9. ASSUME NEW n \in 0..N PROVE B[n] <= B[N]
    <2>1. N - n \in 0..N /\ N - (N - n) = n
      BY <1>1
    <2> QED
      BY <1>8, <2>1
  <1> QED
    BY <1>2, <1>6, <1>7, <1>9 DEF N, D

TagTypes == {"MMAP", "MODULE", "FRAMEBUFFER", "ACPI_NEW", "ACPI_OLD", "END"}

(* A sequence and one more.                                                 *)
LEMMA OneMore ==
  ASSUME NEW E, NEW s \in Seq(E), NEW x \in E, NEW u \in Seq(E),
         Len(u) = Len(s) + 1, u[Len(s) + 1] = x, \A k \in 1..Len(s) : u[k] = s[k]
  PROVE  u = s \o <<x>> /\ u = Append(s, x)
  <1>1. PICK n \in Nat : n = Len(s)
    OBVIOUS
  <1>2. u = [k \in 1..(n + 1) |-> u[k]]
    BY <1>1
  <1>3. /\ s \o <<x>> \in Seq(E) /\ Len(s \o <<x>>) = n + 1
        /\ \A k \in 1..(n + 1) : (s \o <<x>>)[k] = u[k]
    BY <1>1
  <1>4. /\ Append(s, x) \in Seq(E) /\ Len(Append(s, x)) = n + 1
        /\ \A k \in 1..(n + 1) : Append(s, x)[k] = u[k]
    BY <1>1
  <1>5. ASSUME NEW v \in Seq(E), Len(v) = n + 1, \A k \in 1..(n + 1) : v[k] = u[k]
        PROVE  v = u
    <2>1. v = [k \in 1..(n + 1) |-> v[k]]
      BY <1>1, <1>5
    <2> QED
      BY <1>2, <1>5, <2>1
  <1> QED
    BY <1>3, <1>4, <1>5

(* The types of tags are types. *)
LEMMA TypesIn ==
  ASSUME NEW ts \in Seq(TagRecord)
  PROVE  /\ TypesOf(ts) \in Seq(TagTypes) /\ Len(TypesOf(ts)) = Len(ts)
         /\ \A k \in 1..Len(ts) : TypesOf(ts)[k] = ts[k].type
  <1>1. PICK n \in Nat : n = Len(ts) /\ DOMAIN ts = 1..n
    OBVIOUS
  <1>2. \A k \in 1..n : ts[k].type \in TagTypes
    <2>1. \A r \in TagRecord : r.type \in TagTypes
      BY DEF TagRecord, TagTypes
    <2> QED
      BY <1>1, <2>1
  <1> QED
    BY <1>1, <1>2 DEF TypesOf

(* A tag that is appended leaves its type after the others. *)
LEMMA TypesGrow ==
  ASSUME NEW ts \in Seq(TagRecord), NEW t \in TagRecord
  PROVE  TypesOf(Append(ts, t)) = TypesOf(ts) \o <<t.type>>
  <1> DEFINE s == TypesOf(ts)
             u == TypesOf(Append(ts, t))
  <1>1. PICK n \in Nat : n = Len(ts)
    OBVIOUS
  <1>2. /\ Append(ts, t) \in Seq(TagRecord) /\ Len(Append(ts, t)) = n + 1
        /\ Append(ts, t)[n + 1] = t /\ \A k \in 1..n : Append(ts, t)[k] = ts[k]
    BY <1>1
  <1>3. s \in Seq(TagTypes) /\ Len(s) = n /\ \A k \in 1..n : s[k] = ts[k].type
    BY <1>1, TypesIn
  <1>4. u \in Seq(TagTypes) /\ Len(u) = n + 1 /\ \A k \in 1..(n + 1) : u[k] = Append(ts, t)[k].type
    BY <1>2, TypesIn
  <1>5. t.type \in TagTypes
    BY DEF TagRecord, TagTypes
  <1> HIDE DEF s, u
  <1>6. /\ Len(u) = Len(s) + 1 /\ u[Len(s) + 1] = t.type
        /\ \A k \in 1..Len(s) : u[k] = s[k]
    BY <1>1, <1>2, <1>3, <1>4
  <1>7. u = s \o <<t.type>>
    BY <1>3, <1>4, <1>5, <1>6, OneMore
  <1> QED
    BY <1>7 DEF s, u

(* A module more.                                                           *)
LEMMA ModuleTypesGrow ==
  /\ ModuleTypes(0) = <<"MMAP">>
  /\ \A n \in Nat : ModuleTypes(n + 1) = ModuleTypes(n) \o <<"MODULE">>
  <1> DEFINE w(n) == [k \in 1..n |-> "MODULE"]
  <1>1. w(0) = <<>> /\ <<"MMAP">> \o <<>> = <<"MMAP">>
    OBVIOUS
  <1>2. ASSUME NEW n \in Nat
        PROVE  ModuleTypes(n + 1) = ModuleTypes(n) \o <<"MODULE">>
    <2> DEFINE s == <<"MMAP">> \o w(n)
               u == <<"MMAP">> \o w(n + 1)
    <2>1. ASSUME NEW m \in Nat
          PROVE  w(m) \in Seq(TagTypes) /\ Len(w(m)) = m /\ \A k \in 1..m : w(m)[k] = "MODULE"
      BY DEF TagTypes
    <2>2. <<"MMAP">> \in Seq(TagTypes) /\ Len(<<"MMAP">>) = 1 /\ "MODULE" \in TagTypes
      BY DEF TagTypes
    <2> HIDE DEF w
    <2>3. s \in Seq(TagTypes) /\ Len(s) = n + 1 /\ u \in Seq(TagTypes) /\ Len(u) = n + 2
      BY <2>1, <2>2
    <2>4. \A k \in 1..(n + 1) : u[k] = s[k]
      BY <2>1, <2>2
    <2>5. u[n + 2] = "MODULE"
      BY <2>1, <2>2
    <2> HIDE DEF s, u
    <2>6. u = s \o <<"MODULE">>
      BY <2>2, <2>3, <2>4, <2>5, OneMore
    <2> QED
      BY <2>6 DEF ModuleTypes, s, u, w
  <1> QED
    BY <1>1, <1>2 DEF ModuleTypes

(* The parts are told one after the other, and each has the room it takes.  *)
LEMMA RoomFacts ==
  ASSUME TypeOK
  PROVE  /\ ModuleBytes \in Nat /\ FramebufferAt \in Nat /\ RsdpAt \in Nat /\ EndAt \in Nat
         /\ Demand = EndAt + 8
         /\ FramebufferAt <= RsdpAt /\ RsdpAt <= EndAt
         /\ rsdp # 0 => RsdpAt + Padded(8 + rsdp) = EndAt
         /\ AllTypes = EndTypes \o <<"END">>
  <1>1. Len(map) \in Nat /\ Len(modules) \in Nat /\ fb \in BOOLEAN /\ rsdp \in {0, 20, 36}
        /\ modules \in Seq(Mods)
    BY DEF TypeOK
  <1>2. ModuleBytes \in Nat
    <2>1. Len(modules) \in 0..Len(modules)
      BY <1>1
    <2> QED
      BY <1>1, <2>1, BytesFacts DEF ModuleBytes
  <1>3. Padded(8 + rsdp) \in Nat
    <2>1. 8 + rsdp \in Nat
      BY <1>1
    <2> QED
      BY <2>1, PaddedFacts
  <1>4. AllTypes = EndTypes \o <<"END">>
    BY DEF AllTypes, EndTypes, RsdpTypes, ModuleTypes
  <1> QED
    BY <1>1, <1>2, <1>3, <1>4 DEF Demand, EndAt, RsdpAt, FramebufferAt

-----------------------------------------------------------------------------
(* Nothing has been told when the writer begins.                            *)
LEMMA RoomInit == Init => RoomInv
  BY DEF Init, RoomInv

(* What is to be told does not change while it is told.                     *)
LEMMA SameDemand ==
  ASSUME UNCHANGED inputs
  PROVE  /\ map' = map /\ modules' = modules /\ fb' = fb /\ rsdp' = rsdp
         /\ Demand' = Demand /\ FramebufferAt' = FramebufferAt /\ RsdpAt' = RsdpAt
         /\ EndAt' = EndAt /\ RsdpTypes' = RsdpTypes /\ EndTypes' = EndTypes
         /\ AllTypes' = AllTypes
  BY DEF inputs, Demand, ModuleBytes, FramebufferAt, RsdpAt, EndAt, RsdpTypes, EndTypes, AllTypes

(* The map has room for its next entry, so it ends only when it is told.    *)
LEMMA RoomMap == IInv /\ RoomInv /\ (WriteMmapEntry \/ CloseMmap) => RoomInv'
  <1> SUFFICES ASSUME IInv, WriteMmapEntry \/ CloseMmap, Demand <= InfoSize PROVE RoomInv'
    BY SameDemand DEF RoomInv, WriteMmapEntry, CloseMmap
  <1>1. TypeOK /\ Len(map) \in Nat /\ Len(entries) \in Nat /\ InfoSize \in Nat
    BY Mb2Constants DEF IInv, TypeOK
  <1>2. CASE WriteMmapEntry
    BY <1>2 DEF RoomInv, WriteMmapEntry
  <1>3. CASE CloseMmap
    <2>1. /\ tags = <<>> /\ next = Len(entries) + 1 /\ next <= Len(map) + 1
          /\ pos = 24 + 24 * Len(entries) /\ Len(entries) <= Len(map)
          /\ ~(next <= Len(map) /\ pos + 24 <= InfoSize)
      BY <1>3 DEF CloseMmap, IInv, PartInv, ToldInOrder, MmapEntryFits, MmapEntrySize
    <2>2. 24 + 24 * Len(map) <= InfoSize
      BY <1>1, RoomFacts DEF FramebufferAt
    <2>3. Len(entries) = Len(map) /\ pos = 24 + 24 * Len(map) /\ Align8(pos) = pos
      <3>1. Len(entries) = Len(map)
        BY <1>1, <2>1, <2>2
      <3>2. pos \in Nat /\ pos % 8 = 0
        BY <1>1, <2>1
      <3> QED
        BY <2>1, <3>1, <3>2, RoundUp
    <2>4. /\ UNCHANGED inputs /\ entries' = entries /\ pc' = "modules" /\ next' = 1
          /\ pos' = pos /\ Len(tags') = 1 /\ DOMAIN tags' = 1..1 /\ tags'[1].type = "MMAP"
      BY <1>3, <2>3 DEF CloseMmap, Tag
    <2>5. TypesOf(tags') = <<"MMAP">>
      BY <2>4 DEF TypesOf
    <2>6. BytesOf(modules)[0] = 0 /\ modules' = modules /\ map' = map
      BY <1>1, <2>4, BytesFacts, SameDemand DEF TypeOK
    <2>7. pos' = 24 + 24 * Len(map') + BytesOf(modules')[next' - 1]
      BY <1>1, <2>3, <2>4, <2>6
    <2>8. TypesOf(tags') = ModuleTypes(next' - 1)
      BY <2>4, <2>5, ModuleTypesGrow
    <2> QED
      BY <2>3, <2>4, <2>6, <2>7, <2>8 DEF RoomInv
  <1> QED
    BY <1>2, <1>3

(* So does the list of modules for its next one. *)
LEMMA RoomModules == IInv /\ RoomInv /\ (WriteModule \/ CloseModules) => RoomInv'
  <1> SUFFICES ASSUME IInv, RoomInv, WriteModule \/ CloseModules, Demand <= InfoSize
               PROVE  RoomInv'
    BY SameDemand DEF RoomInv, WriteModule, CloseModules
  <1>1. /\ TypeOK /\ InfoSize \in Nat /\ Len(map) \in Nat /\ Len(modules) \in Nat
        /\ modules \in Seq(Mods) /\ tags \in Seq(TagRecord) /\ pos \in Nat
    BY Mb2Constants DEF IInv, TypeOK
  <1>2. /\ pc = "modules" /\ UNCHANGED inputs /\ entries' = entries
        /\ Len(entries) = Len(map) /\ next \in 1..(Len(modules) + 1) /\ pos % 8 = 0
        /\ pos = 24 + 24 * Len(map) + BytesOf(modules)[next - 1]
        /\ TypesOf(tags) = ModuleTypes(next - 1)
    <2>1. pc = "modules" /\ UNCHANGED inputs /\ entries' = entries
      BY DEF WriteModule, CloseModules
    <2>2. Len(tags) = next /\ tags # <<>> /\ next <= Len(modules) + 1 /\ pos % 8 = 0
      BY <2>1 DEF IInv, PartInv
    <2>3. next \in 1..(Len(modules) + 1)
      BY <1>1, <2>2
    <2> QED
      BY <2>1, <2>2, <2>3 DEF RoomInv
  (* Where the module in hand ends.                                         *)
  <1>3. ASSUME next <= Len(modules)
        PROVE  /\ ModTagSize(modules[next]) \in Nat
               /\ ModTagSize(modules[next]) <= Padded(ModTagSize(modules[next]))
               /\ Align8(pos + ModTagSize(modules[next]))
                    = 24 + 24 * Len(map) + BytesOf(modules)[next]
               /\ pos + ModTagSize(modules[next]) <= InfoSize
    <2>1. next \in 1..Len(modules) /\ next \in 0..Len(modules) /\ next - 1 \in 0..Len(modules)
      BY <1>1, <1>2, <1>3
    <2>2. modules[next].name \in Nat
      <3>1. modules[next] \in Mods
        BY <1>1, <2>1
      <3> QED
        BY <3>1, Mb2Constants
    <2>3. ModTagSize(modules[next]) = 17 + modules[next].name /\ ModTagSize(modules[next]) \in Nat
      BY <2>2 DEF ModTagSize
    <2> DEFINE z == ModTagSize(modules[next])
               b == BytesOf(modules)[next - 1]
               c == BytesOf(modules)[next]
               l == Len(map)
    <2>4. b \in Nat /\ c \in Nat /\ c = b + Padded(z) /\ c <= ModuleBytes
      BY <1>1, <2>1, <2>3, BytesFacts DEF ModuleBytes
    <2>6. 24 + 24 * l + ModuleBytes <= InfoSize /\ ModuleBytes \in Nat /\ l \in Nat
      BY <1>1, RoomFacts DEF FramebufferAt
    <2>7. pos = 24 + 24 * l + b
      BY <1>2
    <2> HIDE DEF z, b, c, l
    <2>5. Padded(z) \in Nat /\ z <= Padded(z) /\ Align8(pos + z) = pos + Padded(z)
      BY <1>1, <1>2, <2>3, PaddedFacts DEF z
    <2>8. Align8(pos + z) = 24 + 24 * l + c
      BY <2>4, <2>5, <2>6, <2>7
    <2>9. z \in Nat
      BY <2>3 DEF z
    <2>10. pos + z <= InfoSize
      BY <1>1, <2>4, <2>5, <2>6, <2>7, <2>9
    <2> QED
      BY <2>5, <2>8, <2>9, <2>10 DEF z, c, l
  <1>4. CASE WriteModule
    <2>1. PICK t : t = ModTag(modules[next])
      OBVIOUS
    <2>2. /\ pc' = "modules" /\ next <= Len(modules) /\ next' = next + 1
          /\ pos' = Align8(pos + ModTagSize(modules[next])) /\ tags' = Append(tags, t)
      BY <1>4, <2>1 DEF WriteModule, ModuleFits
    <2>3. t \in TagRecord /\ t.type = "MODULE"
      <3>1. tags' \in Seq(TagRecord)
        BY <1>4, ModuleStep DEF IInv, TypeOK
      <3>2. t = tags'[Len(tags) + 1] /\ Len(tags) + 1 \in DOMAIN tags'
        BY <1>1, <2>2
      <3>3. t.type = "MODULE"
        BY <2>1 DEF ModTag
      <3> HIDE <2>1
      <3> QED
        BY <3>1, <3>2, <3>3
    <2>4. pos' = 24 + 24 * Len(map') + BytesOf(modules')[next' - 1]
      BY <1>2, <1>3, <2>2, SameDemand
    <2>5. next - 1 \in Nat /\ next' - 1 = (next - 1) + 1
      BY <1>2, <2>2
    <2>6. TypesOf(tags') = ModuleTypes(next' - 1)
      BY <1>1, <1>2, <2>2, <2>3, <2>5, TypesGrow, ModuleTypesGrow
    <2> QED
      BY <1>2, <2>2, <2>4, <2>6, SameDemand DEF RoomInv
  <1>5. CASE CloseModules
    <2>1. pc' = "framebuffer" /\ pos' = pos /\ tags' = tags /\ ~ModuleFits
      BY <1>5 DEF CloseModules
    <2>2. next = Len(modules) + 1
      BY <1>1, <1>2, <1>3, <2>1 DEF ModuleFits
    <2>3. next - 1 = Len(modules)
      BY <1>1, <2>2
    <2>4. pos' = FramebufferAt' /\ TypesOf(tags') = ModuleTypes(Len(modules'))
      BY <1>2, <2>1, <2>3, SameDemand DEF FramebufferAt, ModuleBytes
    <2> QED
      BY <1>2, <2>1, <2>4, SameDemand DEF RoomInv
  <1> QED
    BY <1>4, <1>5

(* A tag that is written leaves its type after the others.                  *)
LEMMA TypeTold ==
  ASSUME TypeOK, TypeOK', NEW t, tags' = Append(tags, t)
  PROVE  TypesOf(tags') = TypesOf(tags) \o <<t.type>>
  <1>1. tags \in Seq(TagRecord) /\ tags' \in Seq(TagRecord)
    BY DEF TypeOK
  <1>2. t = tags'[Len(tags) + 1] /\ Len(tags) + 1 \in DOMAIN tags'
    BY <1>1
  <1>3. t \in TagRecord
    BY <1>1, <1>2
  <1> QED
    BY <1>1, <1>3, TypesGrow

(* Nor are the framebuffer, the root pointer and the end left out when      *)
(* there is room.                                                           *)
LEMMA RoomLater ==
  ASSUME IInv, RoomInv, \/ WriteFramebuffer \/ SkipFramebuffer
                        \/ WriteRsdp \/ SkipRsdp \/ WriteEnd \/ OmitEnd
  PROVE  RoomInv'
  <1>0. /\ UNCHANGED inputs /\ entries' = entries
        /\ pc \in {"framebuffer", "rsdp", "end"} /\ pc' \in {"rsdp", "end", "done"}
    BY DEF WriteFramebuffer, SkipFramebuffer, WriteRsdp, SkipRsdp, WriteEnd, OmitEnd
  <1> SUFFICES ASSUME Demand <= InfoSize PROVE RoomInv'
    BY <1>0, SameDemand DEF RoomInv
  <1>1. /\ TypeOK /\ TypeOK' /\ InfoSize \in Nat /\ pos \in Nat /\ pos % 8 = 0
        /\ Len(entries) = Len(map) /\ fb \in BOOLEAN /\ rsdp \in {0, 20, 36}
    <2>1. IInv'
      BY LaterSteps
    <2> QED
      BY <1>0, <2>1, Mb2Constants DEF IInv, PartInv, TypeOK, RoomInv
  <1>2. /\ FramebufferAt \in Nat /\ RsdpAt \in Nat /\ EndAt \in Nat
        /\ RsdpAt <= EndAt /\ EndAt + 8 <= InfoSize
        /\ rsdp # 0 => RsdpAt + Padded(8 + rsdp) = EndAt
        /\ AllTypes = EndTypes \o <<"END">>
    BY <1>1, RoomFacts
  <1>3. CASE WriteFramebuffer
    <2>1. PICK t : t = Tag("FRAMEBUFFER", FbTagSize)
      OBVIOUS
    <2>2. /\ pc = "framebuffer" /\ pc' = "rsdp" /\ fb
          /\ pos' = Align8(pos + 37) /\ tags' = Append(tags, t) /\ t.type = "FRAMEBUFFER"
      BY <1>3, <2>1 DEF WriteFramebuffer, FbTagSize, Tag
    <2>3. pos = FramebufferAt /\ TypesOf(tags) = ModuleTypes(Len(modules))
      BY <2>2 DEF RoomInv
    <2>4. pos' = pos + 40
      BY <1>1, <2>2 DEF Align8
    <2>5. TypesOf(tags') = RsdpTypes
      BY <1>1, <2>2, <2>3, TypeTold DEF RsdpTypes
    <2>6. pos' = RsdpAt
      BY <2>2, <2>3, <2>4 DEF RsdpAt
    <2> QED
      BY <1>0, <1>1, <2>2, <2>5, <2>6, SameDemand DEF RoomInv
  <1>4. CASE SkipFramebuffer
    <2>1. /\ pc = "framebuffer" /\ pc' = "rsdp" /\ (~fb \/ pos + 37 > InfoSize)
          /\ pos' = (IF fb THEN Align8(pos) ELSE pos) /\ tags' = tags
      BY <1>4 DEF SkipFramebuffer, FbTagSize
    <2>2. pos = FramebufferAt /\ TypesOf(tags) = ModuleTypes(Len(modules))
      BY <2>1 DEF RoomInv
    <2>3. ~fb
      BY <1>1, <1>2, <2>1, <2>2 DEF RsdpAt
    <2>4. ModuleTypes(Len(modules)) \o <<>> = ModuleTypes(Len(modules))
      <3>1. TypesOf(tags) \in Seq(TagTypes)
        BY <1>1, TypesIn DEF TypeOK
      <3> QED
        BY <2>2, <3>1
    <2>5. pos' = RsdpAt
      BY <1>2, <2>1, <2>2, <2>3 DEF RsdpAt
    <2>6. TypesOf(tags') = RsdpTypes
      BY <2>1, <2>2, <2>3, <2>4 DEF RsdpTypes
    <2> QED
      BY <1>0, <1>1, <2>1, <2>5, <2>6, SameDemand DEF RoomInv
  <1>5. CASE WriteRsdp
    <2>1. PICK t : t = Tag(IF rsdp = 36 THEN "ACPI_NEW" ELSE "ACPI_OLD", RsdpTagSize)
      OBVIOUS
    <2>2. /\ pc = "rsdp" /\ pc' = "end" /\ rsdp # 0
          /\ pos' = Align8(pos + (8 + rsdp)) /\ tags' = Append(tags, t)
          /\ t.type = IF rsdp = 36 THEN "ACPI_NEW" ELSE "ACPI_OLD"
      BY <1>5, <2>1 DEF WriteRsdp, RsdpRoom, RsdpTagSize, Tag
    <2>3. pos = RsdpAt /\ TypesOf(tags) = RsdpTypes
      BY <2>2 DEF RoomInv
    <2>4. pos' = EndAt
      <3>1. 8 + rsdp \in Nat
        BY <1>1
      <3> QED
        BY <1>1, <1>2, <2>2, <2>3, <3>1, PaddedFacts
    <2>5. TypesOf(tags') = EndTypes
      <3>1. <<t.type>> = CASE rsdp = 0 -> <<>> [] rsdp = 20 -> <<"ACPI_OLD">>
                           [] rsdp = 36 -> <<"ACPI_NEW">>
        BY <1>1, <2>2
      <3> QED
        BY <1>1, <2>2, <2>3, <3>1, TypeTold DEF EndTypes
    <2> QED
      BY <1>0, <1>1, <2>2, <2>4, <2>5, SameDemand DEF RoomInv
  <1>6. CASE SkipRsdp
    <2>1. /\ pc = "rsdp" /\ pc' = "end" /\ pos' = pos /\ tags' = tags
          /\ ~(rsdp # 0 /\ pos + (8 + rsdp) + 8 <= InfoSize)
      BY <1>6 DEF SkipRsdp, RsdpRoom, RsdpTagSize, EndTagSize
    <2>2. pos = RsdpAt /\ TypesOf(tags) = RsdpTypes
      BY <2>1 DEF RoomInv
    <2>3. rsdp = 0
      <3>1. 8 + rsdp \in Nat
        BY <1>1
      <3>2. Padded(8 + rsdp) \in Nat /\ 8 + rsdp <= Padded(8 + rsdp)
        BY <3>1, PaddedFacts
      <3> QED
        BY <1>1, <1>2, <2>1, <2>2, <3>1, <3>2
    <2>4. RsdpTypes \o <<>> = RsdpTypes
      <3>1. TypesOf(tags) \in Seq(TagTypes)
        BY <1>1, TypesIn DEF TypeOK
      <3> QED
        BY <2>2, <3>1
    <2>5. pos' = EndAt
      BY <1>2, <2>1, <2>2, <2>3 DEF EndAt
    <2>6. TypesOf(tags') = EndTypes
      <3>1. (CASE rsdp = 0 -> <<>> [] rsdp = 20 -> <<"ACPI_OLD">> [] rsdp = 36 -> <<"ACPI_NEW">>)
              = <<>>
        BY <2>3
      <3> QED
        BY <2>1, <2>2, <2>4, <3>1 DEF EndTypes
    <2> QED
      BY <1>0, <1>1, <2>1, <2>5, <2>6, SameDemand DEF RoomInv
  <1>7. CASE WriteEnd
    <2>1. PICK t : t = Tag("END", EndTagSize)
      OBVIOUS
    <2>2. pc = "end" /\ pc' = "done" /\ tags' = Append(tags, t) /\ t.type = "END"
      BY <1>7, <2>1 DEF WriteEnd, Tag
    <2>3. TypesOf(tags') = AllTypes
      BY <1>1, <1>2, <2>2, TypeTold DEF RoomInv
    <2> QED
      BY <1>0, <1>1, <2>2, <2>3, SameDemand DEF RoomInv
  <1>8. CASE OmitEnd
    <2>1. pc = "end" /\ pos + 8 > InfoSize
      BY <1>8 DEF OmitEnd, EndTagSize
    <2>2. pos = EndAt
      BY <2>1 DEF RoomInv
    <2> QED
      BY <1>1, <1>2, <2>1, <2>2
  <1> QED
    BY <1>3, <1>4, <1>5, <1>6, <1>7, <1>8

(* A step that changes nothing leaves the places and the types. *)
LEMMA RoomStutter == RoomInv /\ UNCHANGED vars => RoomInv'
  <1> SUFFICES ASSUME RoomInv, UNCHANGED vars PROVE RoomInv'
    OBVIOUS
  <1>1. /\ UNCHANGED inputs /\ pc' = pc /\ next' = next /\ pos' = pos
        /\ entries' = entries /\ tags' = tags
    BY DEF vars
  <1> QED
    BY <1>1, SameDemand DEF RoomInv

(* If all there is to tell fits the buffer to the last byte, the kernel is  *)
(* told all of it, whatever there is.                                       *)
THEOREM AllTold == Spec => []AllToldIfRoom
  <1>1. Init => IInv /\ RoomInv
    BY InfoInit, RoomInit
  <1>2. IInv /\ RoomInv /\ [Next]_vars => (IInv /\ RoomInv)'
    <2>1. IInv /\ [Next]_vars => IInv'
      BY MmapEntryStep, CloseMmapStep, ModuleStep, LaterSteps, InfoStutter DEF Next
    <2>2. IInv /\ RoomInv /\ [Next]_vars => RoomInv'
      BY RoomMap, RoomModules, RoomLater, RoomStutter DEF Next
    <2> QED
      BY <2>1, <2>2
  <1>3. RoomInv => AllToldIfRoom
    BY DEF RoomInv, AllToldIfRoom
  <1> QED
    BY <1>1, <1>2, <1>3, PTL DEF Spec
=============================================================================
