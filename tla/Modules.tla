------------------------------ MODULE Modules -------------------------------
(***************************************************************************)
(* Loading the boot modules: load_modules and store_name in src/modules.rs. *)
(*                                                                         *)
(* The directory is a sequence of entries the firmware hands out one at a   *)
(* time.  A pass of the scanning loop is what read_entry answers and what   *)
(* the loop makes of it, up to its continue, its break, its panic or its    *)
(* end.  The names go into MOD_NAMES, a buffer of CAP bytes; the files into *)
(* pages below the four-gigabyte line.                                      *)
(***************************************************************************)
EXTENDS Integers, Sequences

CONSTANTS
  CAP,          \* 4096: length of MOD_NAMES
  PageSize,     \* 4096
  LowPages,     \* 2^20: pages below four gigabytes
  Pages,        \* pages in all
  Entries,      \* directory entries to consider
  MaxEntries,   \* bound on the length of the directory
  FreeSets      \* what the firmware may have free when the scan begins

Page    == 0..(Pages - 1)
Address == 0..(PageSize * Pages - 1)

(* A directory entry.  Of long it is known that its information does not    *)
(* fit entry_buf.  A name is its UCS-2 characters, without the terminator.  *)
Entry == [directory : BOOLEAN, long : BOOLEAN, name : Seq(Nat \ {0}), size : Nat]

ASSUME ModulesConstants ==
  /\ CAP \in Nat \ {0}
  /\ PageSize \in Nat \ {0} /\ Pages \in Nat /\ LowPages \in 0..Pages
  /\ MaxEntries \in Nat
  /\ Entries \subseteq Entry
  /\ FreeSets \subseteq SUBSET Page

VARIABLES
  dir,        \* the directory's entries
  at,         \* external: how many of them have been read
  pc,         \* "open", "read", "tooSmall", "entry", "done" or "panic"
  names,      \* MOD_NAMES
  namesPos,   \* MOD_NAMES_POS
  modules,    \* the vector; file is a history component, the entry's place
  free,       \* external: the pages the firmware has to give
  mem,        \* external: what each byte of memory holds
  refused     \* history: the entries whose file could not be had

vars == <<dir, at, pc, names, namesPos, modules, free, mem, refused>>

(* What a byte of memory may hold: whatever was there, zero, or the byte of *)
(* a file at an offset.                                                     *)
Junk == <<0, 0>>
Zero == <<0, 1>>
FileByte(file, offset) == <<file, offset>>

-----------------------------------------------------------------------------
(* store_name *)

(* A character that is not ASCII becomes a question mark. *)
Ascii(ch) == IF ch < 128 THEN ch ELSE 63

(* How many characters of name are written at pos: one byte is left for the *)
(* terminator.                                                              *)
WrittenUnbounded(name, pos) == Len(name)
Written(name, pos) == IF Len(name) <= CAP - 1 - pos THEN Len(name) ELSE CAP - 1 - pos

NamePtr(pos) == IF pos >= CAP THEN CAP - 1 ELSE pos

NamesAfter(name, pos) ==
  [b \in 0..(CAP - 1) |->
     IF pos <= b /\ b < pos + Written(name, pos) THEN Ascii(name[b - pos + 1])
     ELSE IF b = pos + Written(name, pos) THEN 0
     ELSE names[b]]

StoreNameOverTerminator(name) ==
  IF namesPos >= CAP
    THEN UNCHANGED <<names, namesPos>>
    ELSE /\ names' = NamesAfter(name, namesPos)
         /\ namesPos' = namesPos + Written(name, namesPos)

StoreName(name) ==
  IF namesPos >= CAP
    THEN UNCHANGED <<names, namesPos>>
    ELSE /\ names' = NamesAfter(name, namesPos)
         /\ namesPos' = namesPos + Written(name, namesPos) + 1

-----------------------------------------------------------------------------
(* A module's memory *)

NumPages(size) == (size + PageSize - 1) \div PageSize

(* AllocatePages(MaxAddress): n free pages in a row, from p, under the line. *)
FreeRun(p, n) == p + n <= LowPages /\ p..(p + n - 1) \subseteq free

FilledUncleared(file, p, n, len) ==
  [a \in Address |->
     IF p * PageSize <= a /\ a - p * PageSize < len THEN FileByte(file, a - p * PageSize)
     ELSE mem[a]]

(* The whole allocation is cleared and the file's first len bytes are read  *)
(* into it.                                                                 *)
Filled(file, p, n, len) ==
  [a \in Address |->
     IF a \div PageSize \notin p..(p + n - 1) THEN mem[a]
     ELSE IF a - p * PageSize < len THEN FileByte(file, a - p * PageSize)
     ELSE Zero]

-----------------------------------------------------------------------------
Init ==
  /\ dir \in UNION {[1..n -> Entries] : n \in 0..MaxEntries}
  /\ at = 0 /\ pc = "open"
  /\ names = [b \in 0..(CAP - 1) |-> 0] /\ namesPos = 0
  /\ modules = <<>>
  /\ free \in FreeSets
  /\ mem = [a \in Address |-> Junk]
  /\ refused = {}

OpenDirectory ==
  /\ pc = "open"
  /\ pc' = "read"
  /\ UNCHANGED <<dir, at, names, namesPos, modules, free, mem, refused>>

(* No file system, no such directory, or a file by that name: no modules. *)
NoDirectory ==
  /\ pc = "open"
  /\ pc' = "done"
  /\ UNCHANGED <<dir, at, names, namesPos, modules, free, mem, refused>>

(* The volume does not open, or its handle does not tell its type. *)
OpenPanics ==
  /\ pc = "open"
  /\ pc' = "panic"
  /\ UNCHANGED <<dir, at, names, namesPos, modules, free, mem, refused>>

(* read_entry has no more, or fails: the scan ends with what it has. *)
EndScan ==
  /\ pc = "read"
  /\ at = Len(dir)
  /\ pc' = "done"
  /\ UNCHANGED <<dir, at, names, namesPos, modules, free, mem, refused>>

ReadEntryFails ==
  /\ pc = "read"
  /\ pc' = "done"
  /\ UNCHANGED <<dir, at, names, namesPos, modules, free, mem, refused>>

(* BUFFER_TOO_SMALL: the firmware stays where it is. *)
ReadEntryTooSmall ==
  /\ pc = "read"
  /\ at < Len(dir) /\ dir[at + 1].long
  /\ pc' = "tooSmall"
  /\ UNCHANGED <<dir, at, names, namesPos, modules, free, mem, refused>>

(* "Skipping directory entry (name too long)", and round the loop. *)
SkipLongEntry ==
  /\ pc = "tooSmall"
  /\ pc' = "read"
  /\ UNCHANGED <<dir, at, names, namesPos, modules, free, mem, refused>>

(* read_entry returns the entry at the position and moves past it. *)
ReadEntry ==
  /\ pc = "read"
  /\ at < Len(dir) /\ ~dir[at + 1].long
  /\ at' = at + 1
  /\ pc' = "entry"
  /\ UNCHANGED <<dir, names, namesPos, modules, free, mem, refused>>

-----------------------------------------------------------------------------
(* What becomes of the entry in hand, dir[at]. *)

Wanted(e) == ~e.directory /\ e.size # 0

SkipEntry ==
  /\ pc = "entry" /\ pc' = "read"
  /\ ~Wanted(dir[at])
  /\ UNCHANGED <<dir, at, names, namesPos, modules, free, mem, refused>>

(* The file does not open, or turns out not to be a regular file. *)
OpenFails ==
  /\ pc = "entry" /\ pc' = "read"
  /\ Wanted(dir[at])
  /\ refused' = refused \cup {at}
  /\ UNCHANGED <<dir, at, names, namesPos, modules, free, mem>>

NoRoom ==
  /\ pc = "entry" /\ pc' = "read"
  /\ Wanted(dir[at])
  /\ \A p \in Page : ~FreeRun(p, NumPages(dir[at].size))
  /\ refused' = refused \cup {at}
  /\ UNCHANGED <<dir, at, names, namesPos, modules, free, mem>>

(* AllocatePages grants n pages from p. *)
Allocate(p, n) ==
  /\ FreeRun(p, n)
  /\ free' = free \ (p..(p + n - 1))

(* The read fails altogether: the expect on it panics. *)
ReadPanics ==
  /\ pc = "entry"
  /\ Wanted(dir[at])
  /\ \E p \in Page :
       LET n == NumPages(dir[at].size)
       IN  Allocate(p, n) /\ mem' = Filled(at, p, n, 0)
  /\ pc' = "panic"
  /\ refused' = refused \cup {at}
  /\ UNCHANGED <<dir, at, names, namesPos, modules>>

(* The read stops early: the file is skipped.  Its pages are not returned. *)
ShortReadKept ==
  /\ pc = "entry" /\ pc' = "read"
  /\ Wanted(dir[at])
  /\ \E p \in Page, len \in 0..(dir[at].size - 1) :
       LET n == NumPages(dir[at].size)
       IN  /\ Allocate(p, n) /\ mem' = Filled(at, p, n, len)
           /\ modules' = Append(modules, [name_ptr |-> NamePtr(namesPos),
                            phys_start |-> p * PageSize, size |-> dir[at].size, file |-> at])
  /\ StoreName(dir[at].name)
  /\ refused' = refused \cup {at}
  /\ UNCHANGED <<dir, at>>

ShortRead ==
  /\ pc = "entry" /\ pc' = "read"
  /\ Wanted(dir[at])
  /\ \E p \in Page, len \in 0..(dir[at].size - 1) :
       LET n == NumPages(dir[at].size)
       IN  Allocate(p, n) /\ mem' = Filled(at, p, n, len)
  /\ refused' = refused \cup {at}
  /\ UNCHANGED <<dir, at, names, namesPos, modules>>

LoadModule ==
  /\ pc = "entry" /\ pc' = "read"
  /\ Wanted(dir[at])
  /\ \E p \in Page :
       LET n == NumPages(dir[at].size)
       IN  /\ Allocate(p, n) /\ mem' = Filled(at, p, n, dir[at].size)
           /\ modules' = Append(modules, [name_ptr |-> NamePtr(namesPos),
                            phys_start |-> p * PageSize, size |-> dir[at].size, file |-> at])
  /\ StoreName(dir[at].name)
  /\ UNCHANGED <<dir, at, refused>>

Next ==
  \/ OpenDirectory \/ NoDirectory \/ OpenPanics
  \/ EndScan \/ ReadEntryFails \/ ReadEntryTooSmall \/ SkipLongEntry \/ ReadEntry
  \/ SkipEntry \/ OpenFails \/ NoRoom \/ ReadPanics \/ ShortRead \/ LoadModule

Spec == Init /\ [][Next]_vars

(* The loader is one thread and nothing it calls blocks.  That the          *)
(* firmware fails is one way it may go on, which no fairness forces.        *)
FairSpec == Spec /\ WF_vars(Next)

-----------------------------------------------------------------------------
Module == [name_ptr : 0..(CAP - 1), phys_start : Address, size : Nat \ {0}, file : Nat]

(* Every variable keeps its type; a name never runs past the end of         *)
(* MOD_NAMES, terminator included.                                          *)
TypeOK ==
  /\ dir \in Seq(Entries)
  /\ at \in 0..Len(dir)
  /\ pc = "entry" => at > 0
  /\ pc \in {"open", "read", "tooSmall", "entry", "done", "panic"}
  /\ names \in [0..(CAP - 1) -> 0..127]
  /\ namesPos \in 0..CAP
  /\ modules \in Seq(Module)
  /\ free \subseteq Page
  /\ DOMAIN mem = Address
  /\ refused \subseteq 1..at

NameAt(name, ptr) ==
  /\ \A j \in 1..Written(name, ptr) : names[ptr + j - 1] = Ascii(name[j])
  /\ names[ptr + Written(name, ptr)] = 0

(* The string a module's name_ptr leads to is its file's name, with what is *)
(* not ASCII replaced, and ends inside the buffer.  It is cut short only    *)
(* where the buffer ends, and no name stored later disturbs it.             *)
NamesFaithful ==
  \A k \in DOMAIN modules : NameAt(dir[modules[k].file].name, modules[k].name_ptr)

Intact(m) ==
  /\ m.phys_start + PageSize * NumPages(m.size) <= PageSize * LowPages
  /\ \A o \in 0..(PageSize * NumPages(m.size) - 1) :
       /\ (m.phys_start + o) \div PageSize \notin free
       /\ mem[m.phys_start + o] = IF o < m.size THEN FileByte(m.file, o) ELSE Zero

(* A module's pages are below the four-gigabyte line and the firmware's no  *)
(* longer, and hold the file's bytes and then zeros to the end of the page, *)
(* whatever was loaded, or half loaded, after it.                           *)
ModulesIntact == \A k \in DOMAIN modules : Intact(modules[k])

(* How many entries the scan has done with. *)
Handled == IF pc = "entry" THEN at - 1 ELSE at

(* The modules are the files the scan has passed and could have, each once, *)
(* in the directory's order: a file that cannot be had costs no other.      *)
LoadedInOrder ==
  /\ {modules[k].file : k \in DOMAIN modules} =
       {j \in 1..Handled : Wanted(dir[j])} \ refused
  /\ \A k, l \in DOMAIN modules : k < l => modules[k].file < modules[l].file

(* "skip just this entry instead": the scan gets past every entry, one with *)
(* a name too long for entry_buf included, and ends.                        *)
ScanEnds == <>(pc \in {"done", "panic"})
=============================================================================
