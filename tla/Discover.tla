------------------------------ MODULE Discover ------------------------------
(***************************************************************************)
(* Finding the loaders that are installed (src/discover.rs): every volume   *)
(* is opened, its \EFI directory is read entry by entry into a buffer that  *)
(* grows when a name does not fit, and the first of the well-known loaders  *)
(* in a vendor's directory is offered, unless it is Bang.                   *)
(*                                                                         *)
(* A name is <<word, case>>: the filesystem and same_file see the word,     *)
(* the comparisons of probe see both.  A path is a sequence of names.  The  *)
(* titles of what is found (pretty) are left out.                           *)
(***************************************************************************)
EXTENDS Naturals, Sequences, Paths

Seqs == INSTANCE SequencesExt

CONSTANTS
  Absent,      \* None, of an Option
  NumVolumes,  \* the handles located are 1..NumVolumes
  BufSize,     \* bytes of the buffer each volume's directory is first read into
  Disks,       \* what a volume may hold
  OwnImages    \* where Bang may have been loaded from: [device, path]

Handles == 1..NumVolumes

(* The constants in discover.rs. *)
LOADERS ==
  << <<"shimx64", "lower">>, <<"grubx64", "lower">>, <<"systemd-bootx64", "lower">>,
     <<"refind_x64", "lower">>, <<"bootx64", "upper">> >>
EFI     == <<"efi", "upper">>
WINDOWS == << EFI, <<"microsoft", "title">>, <<"boot", "title">>, <<"bootmgfw", "lower">> >>
Skipped == { <<".", "lower">>, <<"..", "lower">>, <<"microsoft", "title">> }

(* Absent when the firmware does not say where Bang was loaded from. *)
own_image == {Absent} \cup OwnImages

(* A volume: whether WINDOWS and \EFI are there, and \EFI's entries, each   *)
(* with the bytes its FileInfo takes and the regular files beneath it.  No  *)
(* two entries of a directory have the same folded name.                    *)
IsDisk(d) ==
  /\ d.windows \in BOOLEAN /\ d.efi \in BOOLEAN
  /\ Len(d.entries) \in Nat /\ DOMAIN d.entries = 1..Len(d.entries)
  /\ \A k \in DOMAIN d.entries :
       /\ d.entries[k].size \in Nat /\ d.entries[k].dir \in BOOLEAN
       /\ \A l \in DOMAIN d.entries : d.entries[k].name[1] = d.entries[l].name[1] => k = l

ASSUME DiscoverConstants ==
  /\ NumVolumes \in Nat /\ BufSize \in Nat
  /\ Absent \notin Nat /\ Absent \notin OwnImages
  /\ \A d \in Disks : IsDisk(d)
  /\ \A o \in OwnImages : o.device \in Handles

VARIABLES
  scan,     \* "locate", "volume", "read", "done"
  disk,     \* what each volume holds
  own,      \* own_image()
  vol,      \* the volume in hand
  buf,      \* bytes of the buffer
  pos,      \* entries of \EFI the firmware has handed over
  out,      \* what has been found
  reached   \* history: how far \EFI was read, Absent for a volume that was not opened

scanVars == <<scan, disk, own, vol, buf, pos, out, reached>>

-----------------------------------------------------------------------------
ScanInit ==
  /\ scan = "locate"
  /\ disk \in [Handles -> Disks]
  /\ own \in own_image
  /\ vol = 1 /\ buf = 0 /\ pos = 0 /\ out = <<>>
  /\ reached = [v \in Handles |-> Absent]

NoHandles ==
  /\ scan = "locate"
  /\ scan' = "done"
  /\ UNCHANGED <<disk, own, vol, buf, pos, out, reached>>

Locate ==
  /\ scan = "locate"
  /\ scan' = IF vol \in Handles THEN "volume" ELSE "done"
  /\ UNCHANGED <<disk, own, vol, buf, pos, out, reached>>

ToNextVolume ==
  /\ vol' = vol + 1
  /\ scan' = IF vol + 1 \in Handles THEN "volume" ELSE "done"

(* The volume cannot be opened. *)
SkipVolume ==
  /\ scan = "volume"
  /\ ToNextVolume
  /\ UNCHANGED <<disk, own, buf, pos, out, reached>>

(* The start of probe: WINDOWS if it is there, then \EFI. *)
Probe ==
  /\ scan = "volume"
  /\ out' = IF disk[vol].windows THEN Append(out, [device |-> vol, path |-> WINDOWS]) ELSE out
  /\ reached' = [reached EXCEPT ![vol] = 0]
  /\ pos' = 0
  /\ UNCHANGED <<disk, own>>
  /\ IF disk[vol].efi
       THEN scan' = "read" /\ buf' = BufSize /\ UNCHANGED vol
       ELSE ToNextVolume /\ UNCHANGED buf

Entry == disk[vol].entries[pos + 1]

AtEntry == scan = "read" /\ pos < Len(disk[vol].entries)

GrowPastEntry ==
  /\ AtEntry /\ Entry.size > buf
  /\ buf' = Entry.size
  /\ pos' = pos + 1
  /\ UNCHANGED <<scan, disk, own, vol, out, reached>>

RetryInPlace ==
  /\ AtEntry /\ Entry.size > buf
  /\ UNCHANGED scanVars

(* BUFFER_TOO_SMALL: the directory stays where it was and says how much it  *)
(* needs, and the entry is read again.                                      *)
Grow ==
  /\ AtEntry /\ Entry.size > buf
  /\ buf' = Entry.size
  /\ UNCHANGED <<scan, disk, own, vol, pos, out, reached>>

(* Any other error ends this volume's directory, and only that. *)
ReadFails ==
  /\ scan = "read"
  /\ ToNextVolume
  /\ UNCHANGED <<disk, own, buf, pos, out, reached>>

EndVolume ==
  /\ scan = "read" /\ pos = Len(disk[vol].entries)
  /\ ToNextVolume
  /\ reached' = [reached EXCEPT ![vol] = pos]
  /\ UNCHANGED <<disk, own, buf, pos, out>>

SamePathExactly(text, path) == Seqs!IsSuffix(path, text)

(* same_file: the text of Bang's device path ends with the path, whatever   *)
(* the case.                                                                *)
same_file(text, path) == Seqs!IsSuffix(Fold(path), Fold(text))

IsBang(v, path) == own # Absent /\ own.device = v /\ same_file(own.path, path)

Exist(e) == {k \in DOMAIN LOADERS : LOADERS[k][1] \in e.has}

(* The one the loop over LOADERS leaves at, the first that exists.          *)
Loader(e) == LOADERS[CHOOSE k \in Exist(e) : \A l \in Exist(e) : k <= l]

(* What the entry in hand adds to what is found. *)
Offered ==
  LET path == <<EFI, Entry.name, Loader(Entry)>>
  IN  IF Entry.dir /\ Entry.name \notin Skipped /\ Exist(Entry) # {} /\ ~IsBang(vol, path)
        THEN <<[device |-> vol, path |-> path]>>
        ELSE <<>>

ReadEntry ==
  /\ AtEntry /\ Entry.size <= buf
  /\ pos' = pos + 1
  /\ reached' = [reached EXCEPT ![vol] = pos + 1]
  /\ out' = out \o Offered
  /\ UNCHANGED <<scan, disk, own, vol, buf>>

ScanStep  == Locate \/ Probe \/ Grow \/ EndVolume \/ ReadEntry
ScanFault == NoHandles \/ SkipVolume \/ ReadFails
ScanNext  == ScanStep \/ ScanFault

(* The scan goes on as long as it can; nobody promises an error. *)
ScanSpec == ScanInit /\ [][ScanNext]_scanVars /\ WF_scanVars(ScanStep)

-----------------------------------------------------------------------------
(* The variables keep their types. *)
ScanTypeOK ==
  /\ scan \in {"locate", "volume", "read", "done"}
  /\ disk \in [Handles -> Disks] /\ own \in own_image
  /\ vol \in 1..NumVolumes + 1 /\ buf \in Nat
  /\ scan \in {"volume", "read"} => vol \in Handles
  /\ scan = "read" => pos \in 0..Len(disk[vol].entries)
  /\ \A k \in DOMAIN out : out[k].device \in Handles
  /\ reached \in [Handles -> {Absent} \cup Nat]

(* What is to be found at place n of volume v: Windows at 0, and at n > 0   *)
(* what entry n of \EFI is meant to be started by, unless it is skipped or  *)
(* is Bang.                                                                 *)
Installed(v, n) ==
  IF n = 0 THEN {f \in {[device |-> v, path |-> WINDOWS]} : disk[v].windows}
  ELSE LET e      == disk[v].entries[n]
           best   == {k \in Exist(e) : \A l \in 1..(k - 1) : l \notin Exist(e)}
           meant  == {[device |-> v, path |-> <<EFI, e.name, LOADERS[k]>>] : k \in best}
       IN  {f \in meant : e.dir /\ e.name \notin Skipped /\ ~IsBang(v, f.path)}

(* The places that could be read, volume by volume. *)
Read ==
  UNION {{v} \X (0..reached[v]) : v \in {u \in Handles : reached[u] # Absent}}

Precedes(p, q) == p[1] < q[1] \/ (p[1] = q[1] /\ p[2] < q[2])

(* A volume that fails costs only itself, an entry too long for the buffer  *)
(* costs nothing: at every moment what has been found is all that is to be  *)
(* found as far as the volumes could be read, each thing once, in the order *)
(* of the volumes and of their entries.  ("Grow once and retry rather than  *)
(* losing the entry"; a volume the firmware will not hand over is skipped.) *)
ScanComplete ==
  /\ {out[k] : k \in DOMAIN out} = UNION {Installed(p[1], p[2]) : p \in Read}
  /\ \A k, l \in DOMAIN out : \A p, q \in Read :
       k < l /\ out[k] \in Installed(p[1], p[2]) /\ out[l] \in Installed(q[1], q[2])
         => Precedes(p, q)

(* Bang does not offer to boot itself: when the firmware says where it was  *)
(* loaded from, in whatever case, that file is not among what is found.     *)
NotItself ==
  own # Absent =>
    \A k \in DOMAIN out :
      ~(out[k].device = own.device /\ Fold(out[k].path) = Fold(own.path))

(* The scan ends, whatever the volumes hold: growing the buffer makes the   *)
(* entry that did not fit fit.                                              *)
ScanEnds == <>(scan = "done")

=============================================================================
