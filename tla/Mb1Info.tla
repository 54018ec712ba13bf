------------------------------ MODULE Mb1Info -------------------------------
(***************************************************************************)
(* The Multiboot1 boot information: build_mb1_info in src/multiboot.rs.     *)
(*                                                                         *)
(* Four parts at fixed offsets of the reserved memory: the structure, the   *)
(* modules, their names, the memory map.  The memory is kept byte by byte,  *)
(* because the parts are only apart if every write stays in its own: a byte *)
(* is <<part, element, offset>>, or <<"char", c, 0>> in a name.             *)
(***************************************************************************)
EXTENDS Integers, Sequences, FiniteSetsExt, MemoryTypes

CONSTANTS
  InfoSize,     \* INFO_SIZE, 16384
  Beyond,       \* how many bytes past the reserved memory are kept
  MaxModules,   \* MAX_MODULES, 32
  NameMax,      \* MB1_NAME_MAX, 64
  InfoAt,       \* INFO_AT, from reserve
  Word32,       \* 2^32
  Descs,        \* memory descriptors to consider
  MaxDescs,     \* bound on the length of the memory map
  Mods,         \* modules to consider
  MaxMods       \* bound on their number

MbiSize       == 52
ModuleSize    == 16
MmapEntrySize == 24
MODULES_AT    == 64
NAMES_AT      == MODULES_AT + MaxModules * ModuleSize
MMAP_AT       == NAMES_AT + MaxModules * NameMax
WholeMmapMax  == InfoSize \div MmapEntrySize
MMAP_MAX      == (InfoSize - MMAP_AT) \div MmapEntrySize
OneMiB        == 1048576

(* The characters of a name are not zero. *)
ASSUME Mb1Constants ==
  /\ InfoSize \in Nat /\ Beyond \in Nat /\ MaxModules \in Nat /\ NameMax \in Nat \ {0}
  /\ InfoSize >= MMAP_AT
  /\ Word32 \in Nat /\ InfoAt \in Nat /\ InfoAt + InfoSize <= Word32
  /\ MaxDescs \in Nat /\ MaxMods \in Nat
  /\ Descs \subseteq [phys_start : Nat, page_count : Nat \ {0}, ty : EfiTypes]
  /\ \A m \in Mods : /\ m.phys_start \in 0..(Word32 - 1) /\ m.size \in Nat
                     /\ m.name \in Seq(Nat \ {0})

VARIABLES
  map,          \* the final memory map
  modules,      \* the loaded modules
  pc,           \* "mmap", "modules", "info", "done"
  buf,          \* the reserved memory, and Beyond bytes after it
  mmap_count,
  mem_lower, mem_upper,
  mods,         \* the module entries that have been written
  mbi           \* what the structure says, None before

vars == <<map, modules, pc, buf, mmap_count, mem_lower, mem_upper, mods, mbi>>

None == [flags |-> {}]
Zero == <<"char", 0, 0>>

(* n bytes are written at offset a. *)
Write(b, a, n, part, element) ==
  [k \in DOMAIN b |-> IF k \in a..(a + n - 1) THEN <<part, element, k - a>> ELSE b[k]]

-----------------------------------------------------------------------------
SeqsUpTo(S, n) == UNION {[1..k -> S] : k \in 0..n}

(* The reserved memory is cleared, and no more than that. *)
Init ==
  /\ map \in SeqsUpTo(Descs, MaxDescs)
  /\ modules \in SeqsUpTo(Mods, MaxMods)
  /\ pc = "mmap"
  /\ buf = [k \in 0..(InfoSize + Beyond - 1) |->
              IF k < InfoSize THEN Zero ELSE <<"other", 0, 0>>]
  /\ mmap_count = 0 /\ mem_lower = 0 /\ mem_upper = 0
  /\ mods = <<>> /\ mbi = None

KiB(d)       == (d.page_count * 4096) \div 1024
Available(d) == efi_memtype_to_mb(d.ty) = 1

More         == mmap_count < Len(map) /\ mmap_count < MMAP_MAX

UpperAlways(d) == d.phys_start >= OneMiB
Upper(d)       == d.phys_start = OneMiB \/ (d.phys_start > OneMiB /\ mem_upper > 0)

WriteMmapEntry ==
  /\ pc = "mmap" /\ More
  /\ LET d == map[mmap_count + 1]
     IN  /\ mem_lower' = mem_lower + (IF Available(d) /\ d.phys_start < OneMiB THEN KiB(d) ELSE 0)
         /\ mem_upper' = mem_upper + (IF Available(d) /\ Upper(d) THEN KiB(d) ELSE 0)
  /\ buf' = Write(buf, MMAP_AT + mmap_count * MmapEntrySize, MmapEntrySize, "mmap", mmap_count)
  /\ mmap_count' = mmap_count + 1
  /\ UNCHANGED <<map, modules, pc, mods, mbi>>

EndMmap ==
  /\ pc = "mmap" /\ ~More
  /\ mem_lower' = IF mem_lower > 640 THEN 640 ELSE mem_lower
  /\ pc' = "modules"
  /\ UNCHANGED <<map, modules, buf, mmap_count, mem_upper, mods, mbi>>

EveryModule == Len(modules)

(* mod_count *)
ModCount == Min({Len(modules), MaxModules})

CopiedToBrim(name) == Min({Len(name), NameMax})

(* How many characters of a name are copied. *)
Copied(name) == Min({Len(name), NameMax - 1})

(* The name is copied, then the entry is written. *)
WriteModule ==
  /\ pc = "modules" /\ Len(mods) < ModCount
  /\ LET i    == Len(mods)
         m    == modules[i + 1]
         at   == NAMES_AT + i * NameMax
         n    == Copied(m.name)
         copy == [k \in DOMAIN buf |->
                    IF k \in at..(at + n - 1) THEN <<"char", m.name[k - at + 1], 0>> ELSE buf[k]]
     IN  /\ buf' = Write(copy, MODULES_AT + i * ModuleSize, ModuleSize, "mod", i)
         /\ mods' = Append(mods, [mod_start |-> m.phys_start % Word32,
                                  mod_end   |-> (m.phys_start + m.size) % Word32,
                                  string    |-> InfoAt + at])
  /\ UNCHANGED <<map, modules, pc, mmap_count, mem_lower, mem_upper, mbi>>

EndModules ==
  /\ pc = "modules" /\ Len(mods) = ModCount
  /\ pc' = "info"
  /\ UNCHANGED <<map, modules, buf, mmap_count, mem_lower, mem_upper, mods, mbi>>

WriteInfo ==
  /\ pc = "info"
  /\ pc' = "done"
  /\ buf' = Write(buf, 0, MbiSize, "mbi", 0)
  /\ mbi' = [flags       |-> {"MEMORY", "MEM_MAP"} \cup (IF ModCount > 0 THEN {"MODS"} ELSE {}),
             mem_lower   |-> mem_lower % Word32,
             mem_upper   |-> mem_upper % Word32,
             mods_count  |-> ModCount,
             mods_addr   |-> IF ModCount > 0 THEN InfoAt + MODULES_AT ELSE 0,
             mmap_length |-> mmap_count * MmapEntrySize,
             mmap_addr   |-> InfoAt + MMAP_AT]
  /\ UNCHANGED <<map, modules, mmap_count, mem_lower, mem_upper, mods>>

Next == WriteMmapEntry \/ EndMmap \/ WriteModule \/ EndModules \/ WriteInfo

Spec == Init /\ [][Next]_vars

-----------------------------------------------------------------------------
(* The variables keep their types, and the counts their bounds. *)
TypeOK ==
  /\ pc \in {"mmap", "modules", "info", "done"}
  /\ DOMAIN buf = 0..(InfoSize + Beyond - 1)
  /\ mmap_count \in 0..MMAP_MAX /\ mmap_count <= Len(map)
  /\ mem_lower \in Nat /\ mem_upper \in Nat
  /\ Len(mods) <= ModCount
  /\ mbi = None <=> pc # "done"

(* Element i of an array of n-byte elements at address a is in memory. *)
Holds(part, a, n, i) ==
  \A k \in 0..(n - 1) : buf[a - InfoAt + i * n + k] = <<part, i, k>>

(* The string at address a is these characters and ends where they do. *)
Reads(a, chars) ==
  /\ \A k \in DOMAIN chars : buf[a - InfoAt + k - 1] = <<"char", chars[k], 0>>
  /\ buf[a - InfoAt + Len(chars)] = Zero

(* The four parts do not run into each other or out of the memory that was  *)
(* reserved: when the structure is handed over, every element it counts is  *)
(* whole where it says, and what lies beyond is as it was.                  *)
PartsApart ==
  /\ pc = "done" =>
       /\ Holds("mbi", InfoAt, MbiSize, 0)
       /\ \A i \in 0..(mbi.mods_count - 1) : Holds("mod", mbi.mods_addr, ModuleSize, i)
       /\ \A i \in 0..(mbi.mmap_length \div MmapEntrySize - 1) :
            Holds("mmap", mbi.mmap_addr, MmapEntrySize, i)
  /\ \A k \in InfoSize..(InfoSize + Beyond - 1) : buf[k] = <<"other", 0, 0>>

(* The modules a kernel is told of are the first that were loaded, each     *)
(* with the address of its own name, whole or cut short, terminated before  *)
(* the next one begins.  A module's end is below its start only when it is  *)
(* the top of the 32-bit addresses.                                         *)
ModulesTold ==
  pc = "done" =>
    /\ mbi.mods_count <= Len(modules)
    /\ mbi.mods_count < Len(modules) => mbi.mods_count = MaxModules
    /\ "MODS" \in mbi.flags <=> modules # <<>> /\ MaxModules > 0
    /\ \A i \in 1..mbi.mods_count :
         LET m == modules[i]
         IN  /\ mods[i].mod_start = m.phys_start
             /\ m.phys_start + m.size < Word32 => mods[i].mod_end = m.phys_start + m.size
             /\ Reads(mods[i].string, SubSeq(m.name, 1, Copied(m.name)))
             /\ Len(m.name) < NameMax => Reads(mods[i].string, m.name)

(* The kibibytes of the regions at these places, among the first n.         *)
KiBOf(places) ==
  LET upTo[n \in 0..Len(map)] ==
        IF n = 0 THEN 0 ELSE upTo[n - 1] + (IF n \in places THEN KiB(map[n]) ELSE 0)
  IN  upTo

Lower == {k \in DOMAIN map : Available(map[k]) /\ map[k].phys_start < OneMiB}

IsFirst(k)  == Available(map[k]) /\ map[k].phys_start = OneMiB
SinceFirst  ==
  {k \in DOMAIN map :
     Available(map[k]) /\ map[k].phys_start >= OneMiB /\ \E f \in 1..k : IsFirst(f)}

(* The memory that is summed up: all that is available from the first       *)
(* region at one megabyte on in the map, none if no region begins there,    *)
(* and never more than the map that is handed over has.                     *)
MemorySummed ==
  pc = "done" =>
    /\ mbi.mem_upper = KiBOf(SinceFirst)[mmap_count] % Word32
    /\ mbi.mem_lower = Min({640, KiBOf(Lower)[mmap_count]}) % Word32
    /\ mmap_count < Len(map) => mmap_count = MMAP_MAX
=============================================================================
