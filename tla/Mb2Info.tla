------------------------------ MODULE Mb2Info -------------------------------
(***************************************************************************)
(* The Multiboot2 boot information: build_mb2_info in src/multiboot.rs.     *)
(*                                                                         *)
(* The structure is a chain of tags in a buffer of InfoSize bytes, each     *)
(* beginning on a multiple of eight.  The model keeps where every tag is,   *)
(* how long it says it is and what the kernel is told by it; offsets and    *)
(* sizes are the code's, in bytes.                                          *)
(***************************************************************************)
EXTENDS Integers, Sequences, MemoryTypes

CONSTANTS
  InfoSize,     \* INFO_SIZE, 16384
  Word32,       \* 2^32: addresses in a module tag are modulo this
  MaxName,      \* bound on the length of a module's name
  Descs,        \* memory descriptors to consider
  MaxDescs,     \* bound on the length of the memory map
  Mods,         \* modules to consider
  MaxMods       \* bound on their number

(* Of a module the writer reads the length of its name, not where it is. *)
ASSUME Mb2Constants ==
  /\ InfoSize \in Nat /\ InfoSize >= 32 /\ InfoSize % 8 = 0
  /\ Word32 \in Nat \ {0} /\ MaxName \in Nat /\ MaxDescs \in Nat /\ MaxMods \in Nat
  /\ Descs \subseteq [phys_start : Nat, page_count : Nat, ty : EfiTypes]
  /\ Mods \subseteq [phys_start : 0..(Word32 - 1), size : Nat, name : 0..MaxName]

VARIABLES
  map,        \* the final memory map
  modules,    \* the loaded modules
  fb,         \* there is a framebuffer
  rsdp,       \* length of the ACPI root pointer, 0 if there is none
  pc,         \* the part being written, "done" at the end
  next,       \* the next element of the list being written
  pos,        \* where the next byte goes
  entries,    \* the entries of the memory map tag
  tags,       \* the tags, in order
  total       \* total_size in the fixed header, 0 before

inputs == <<map, modules, fb, rsdp>>
vars   == <<inputs, pc, next, pos, entries, tags, total>>

HeaderSize    == 8
MmapHead      == 16
MmapEntrySize == 24
FbTagSize     == 37
RsdpTagSize   == 8 + rsdp
EndTagSize    == 8
ModTagSize(m) == 4 + 4 + 4 + 4 + m.name + 1

Align8Down(n) == 8 * (n \div 8)
Align8(n)     == 8 * ((n + 7) \div 8)

MmapEntryOf(d) ==
  [base_addr |-> d.phys_start, length |-> d.page_count * 4096, type |-> efi_memtype_to_mb(d.ty)]

(* A tag: its type, where it is, the size it gives, and for a module the    *)
(* addresses and the name's length.                                         *)
Tag(type, size)    == [type |-> type, at |-> pos, size |-> size, body |-> <<>>]
ModTagUncounted(m) ==
  [type |-> "MODULE", at |-> pos, size |-> ModTagSize(m) - 1,
   body |-> <<m.phys_start % Word32, (m.phys_start + m.size) % Word32, m.name>>]
ModTag(m) ==
  [type |-> "MODULE", at |-> pos, size |-> ModTagSize(m),
   body |-> <<m.phys_start % Word32, (m.phys_start + m.size) % Word32, m.name>>]

-----------------------------------------------------------------------------
SeqsUpTo(S, n) == UNION {[1..k -> S] : k \in 0..n}

(* The memory map tag is begun where the header ends. *)
Init ==
  /\ map \in SeqsUpTo(Descs, MaxDescs)
  /\ modules \in SeqsUpTo(Mods, MaxMods)
  /\ fb \in BOOLEAN /\ rsdp \in {0, 20, 36}
  /\ pc = "mmap" /\ next = 1
  /\ pos = HeaderSize + MmapHead
  /\ entries = <<>> /\ tags = <<>> /\ total = 0

MmapEntryFits == next <= Len(map) /\ pos + MmapEntrySize <= InfoSize

WriteMmapEntry ==
  /\ pc = "mmap" /\ MmapEntryFits
  /\ entries' = Append(entries, MmapEntryOf(map[next]))
  /\ next' = next + 1
  /\ pos' = pos + MmapEntrySize
  /\ UNCHANGED <<inputs, pc, tags, total>>

(* The map is written or the buffer full: the tag's size is filled in. *)
CloseMmap ==
  /\ pc = "mmap" /\ ~MmapEntryFits
  /\ tags' = <<[Tag("MMAP", pos - HeaderSize) EXCEPT !.at = HeaderSize]>>
  /\ pos' = Align8(pos)
  /\ pc' = "modules" /\ next' = 1
  /\ UNCHANGED <<inputs, entries, total>>

ModuleFitsStrictly == next <= Len(modules) /\ pos + ModTagSize(modules[next]) < InfoSize - 8
ModuleFits == next <= Len(modules) /\ pos + ModTagSize(modules[next]) <= InfoSize

WriteModule ==
  /\ pc = "modules" /\ ModuleFits
  /\ tags' = Append(tags, ModTag(modules[next]))
  /\ pos' = Align8(pos + ModTagSize(modules[next]))
  /\ next' = next + 1
  /\ UNCHANGED <<inputs, pc, entries, total>>

(* No more modules, or the first one that does not fit. *)
CloseModules ==
  /\ pc = "modules" /\ ~ModuleFits
  /\ pc' = "framebuffer"
  /\ UNCHANGED <<inputs, next, pos, entries, tags, total>>

WriteFramebuffer ==
  /\ pc = "framebuffer" /\ fb
  /\ pos + FbTagSize <= InfoSize
  /\ tags' = Append(tags, Tag("FRAMEBUFFER", FbTagSize))
  /\ pos' = Align8(pos + FbTagSize)
  /\ pc' = "rsdp"
  /\ UNCHANGED <<inputs, next, entries, total>>

SkipFramebuffer ==
  /\ pc = "framebuffer"
  /\ ~fb \/ pos + FbTagSize > InfoSize
  /\ pos' = IF fb THEN Align8(pos) ELSE pos
  /\ pc' = "rsdp"
  /\ UNCHANGED <<inputs, next, entries, tags, total>>

(* The root pointer is written only where the terminating tag still fits    *)
(* after it.                                                                *)
RsdpRoomUnchecked == rsdp # 0
RsdpRoom == rsdp # 0 /\ pos + RsdpTagSize + EndTagSize <= InfoSize

WriteRsdp ==
  /\ pc = "rsdp" /\ RsdpRoom
  /\ tags' = Append(tags, Tag(IF rsdp = 36 THEN "ACPI_NEW" ELSE "ACPI_OLD", RsdpTagSize))
  /\ pos' = Align8(pos + RsdpTagSize)
  /\ pc' = "end"
  /\ UNCHANGED <<inputs, next, entries, total>>

SkipRsdp ==
  /\ pc = "rsdp" /\ ~RsdpRoom
  /\ pc' = "end"
  /\ UNCHANGED <<inputs, next, pos, entries, tags, total>>

WriteEnd ==
  /\ pc = "end"
  /\ pos + EndTagSize <= InfoSize
  /\ tags' = Append(tags, Tag("END", EndTagSize))
  /\ pos' = pos + EndTagSize /\ total' = pos + EndTagSize
  /\ pc' = "done"
  /\ UNCHANGED <<inputs, next, entries>>

(* No room for it: the chain is left without. *)
OmitEnd ==
  /\ pc = "end"
  /\ pos + EndTagSize > InfoSize
  /\ total' = pos
  /\ pc' = "done"
  /\ UNCHANGED <<inputs, next, pos, entries, tags>>

Next ==
  \/ WriteMmapEntry \/ CloseMmap \/ WriteModule \/ CloseModules
  \/ WriteFramebuffer \/ SkipFramebuffer \/ WriteRsdp \/ SkipRsdp
  \/ WriteEnd \/ OmitEnd

Spec == Init /\ [][Next]_vars

-----------------------------------------------------------------------------
Body == {<<>>} \cup ((0..(Word32 - 1)) \X (0..(Word32 - 1)) \X (0..MaxName))

TagRecord ==
  [type : {"MMAP", "MODULE", "FRAMEBUFFER", "ACPI_NEW", "ACPI_OLD", "END"},
   at : 0..InfoSize, size : 0..InfoSize, body : Body]

(* Every variable keeps its type; nothing is written past the end of the    *)
(* four pages set aside for it.                                             *)
TypeOK ==
  /\ map \in Seq(Descs) /\ modules \in Seq(Mods)
  /\ fb \in BOOLEAN /\ rsdp \in {0, 20, 36}
  /\ pc \in {"mmap", "modules", "framebuffer", "rsdp", "end", "done"}
  /\ next \in Nat
  /\ pos \in 0..InfoSize
  /\ entries \in Seq([base_addr : Nat, length : Nat, type : 1..4])
  /\ tags \in Seq(TagRecord)
  /\ total \in 0..InfoSize

(* Offset p is where a reader that hops over tag t, rounding up to eight,   *)
(* arrives.                                                                 *)
Follows(t, p) == p % 8 = 0 /\ t.at + t.size <= p /\ p < t.at + t.size + 8

(* A kernel walks the tags by their sizes.  The walk starts where the fixed *)
(* header ends, meets every tag that was written and nothing else, and      *)
(* arrives where the next one would go; at the end that is total_size.      *)
Walkable ==
  /\ \A k \in 1..(Len(tags) - 1) : Follows(tags[k], tags[k + 1].at)
  /\ tags # <<>> => tags[1].at = HeaderSize /\ Follows(tags[Len(tags)], pos)
  /\ pc = "done" => total = pos

ModTags == {k \in DOMAIN tags : tags[k].type = "MODULE"}

Describes(t, m) ==
  /\ t.body[1] = m.phys_start
  /\ m.phys_start + m.size < Word32 => t.body[2] = m.phys_start + m.size
  /\ t.size = 16 + t.body[3] + 1 /\ t.body[3] = m.name

(* However much fits, the kernel is told of the first regions of the map    *)
(* and of the first modules, in order and without a gap, and each module    *)
(* tag is long enough for the name and its terminator.                      *)
ToldInOrder ==
  /\ Len(entries) <= Len(map)
  /\ \A k \in DOMAIN entries : entries[k] = MmapEntryOf(map[k])
  /\ \A k \in ModTags : k - 1 \in DOMAIN modules /\ Describes(tags[k], modules[k - 1])

(* The bytes everything takes, each tag padded to a multiple of eight. *)
Padded(n) == n + ((8 - (n % 8)) % 8)
BytesOf(ms) ==
  LET upTo[n \in 0..Len(ms)] ==
        IF n = 0 THEN 0 ELSE upTo[n - 1] + Padded(17 + ms[n].name)
  IN  upTo
ModuleBytes == BytesOf(modules)[Len(modules)]
Demand ==
  8 + 16 + 24 * Len(map) + ModuleBytes + (IF fb THEN 40 ELSE 0)
    + (IF rsdp = 0 THEN 0 ELSE Padded(8 + rsdp)) + 8

AllTypes ==
  <<"MMAP">> \o [k \in 1..Len(modules) |-> "MODULE"]
    \o (IF fb THEN <<"FRAMEBUFFER">> ELSE <<>>)
    \o (CASE rsdp = 0 -> <<>> [] rsdp = 20 -> <<"ACPI_OLD">> [] rsdp = 36 -> <<"ACPI_NEW">>)
    \o <<"END">>
TypesOf(ts) == [k \in DOMAIN ts |-> ts[k].type]

(* If all there is to tell fits the buffer to the last byte, all of it is   *)
(* told: the whole map, every module, the framebuffer, the root pointer,    *)
(* and the terminating tag.                                                 *)
AllToldIfRoom ==
  pc = "done" /\ Demand <= InfoSize =>
    /\ Len(entries) = Len(map)
    /\ TypesOf(tags) = AllTypes
=============================================================================
