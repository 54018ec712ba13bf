------------------------------- MODULE Config -------------------------------
(***************************************************************************)
(* Reading \bang.cfg: load, parse and Config::builtin in src/config.rs.     *)
(*                                                                         *)
(* The file is read a line at a time; each action is what parse does with   *)
(* one kind of line, and any line may come next.  Titles and paths are      *)
(* members of small sets, a path being a sequence of names as in Paths.  A  *)
(* path that UEFI cannot be given (path() is None) has actions of its own.  *)
(***************************************************************************)
EXTENDS Integers, Sequences

CONSTANTS
  None,         \* of an Option
  Titles,       \* titles of entries
  Paths,        \* usable paths, besides the empty one
  Timeouts,     \* numbers a timeout line may give
  Positions,    \* numbers a default line may give
  MaxEntries    \* bound on the entries of a file

Empty    == <<>>            \* CString16::new(), and an argument left out
AnyPath  == Paths \cup {Empty}

(* The kernel and the modules Bang looks for without a file, and a command  *)
(* line.                                                                    *)
KernelBin == << <<"kernel.bin", "lower">> >>
Drivers   == << <<"drivers", "lower">> >>
Options   == << <<"options", "lower">> >>

ASSUME ConfigConstants ==
  /\ None \notin Titles \cup {"Quark"}
  /\ {None, Empty} \cap Paths = {} /\ None # Empty
  /\ Timeouts \subseteq Nat /\ Positions \subseteq Nat /\ MaxEntries \in Nat

VARIABLES
  pc,             \* "load", "parse", "parsed"
  cfg,            \* the Config
  defaultTitle    \* default_title

configVars == <<pc, cfg, defaultTitle>>

(* A target: its kind, its path, the modules directory or the initrd, the   *)
(* command line, and the volume of a chainload, None being Bang's own.      *)
Target(kind, path) ==
  [kind |-> kind, path |-> path, with |-> None, cmdline |-> Empty, device |-> None]

Builtin ==
  [timeout |-> 0, default |-> 0, autodetect |-> TRUE,
   entries |-> <<[title |-> "Quark",
                  target |-> [Target("multiboot", KernelBin) EXCEPT !.with = Drivers]]>>]

-----------------------------------------------------------------------------
ConfigInit ==
  /\ pc = "load"
  /\ cfg = Builtin
  /\ defaultTitle = None

(* There is no file, or it is empty, too large, unreadable or not UTF-8. *)
NoConfig ==
  /\ pc = "load"
  /\ pc' = "parsed"
  /\ cfg' = Builtin
  /\ UNCHANGED defaultTitle

OpenConfig ==
  /\ pc = "load"
  /\ pc' = "parse"
  /\ cfg' = [timeout |-> 5, default |-> 0, autodetect |-> TRUE, entries |-> <<>>]
  /\ UNCHANGED defaultTitle

(* There is another line. *)
Line == pc = "parse" /\ UNCHANGED pc

TimeoutLine ==
  /\ Line
  /\ \E n \in Timeouts : cfg' = [cfg EXCEPT !.timeout = n]
  /\ UNCHANGED defaultTitle

(* Not a number: five seconds, whatever was asked before. *)
TimeoutNotANumber ==
  /\ Line
  /\ cfg' = [cfg EXCEPT !.timeout = 5]
  /\ UNCHANGED defaultTitle

AutodetectLine ==
  /\ Line
  /\ \E on \in BOOLEAN : cfg' = [cfg EXCEPT !.autodetect = on]
  /\ UNCHANGED defaultTitle

DefaultPosition ==
  /\ Line
  /\ \E n \in Positions : cfg' = [cfg EXCEPT !.default = n]
  /\ UNCHANGED defaultTitle

DefaultTitle ==
  /\ Line
  /\ defaultTitle' \in Titles
  /\ UNCHANGED cfg

EntryLine ==
  /\ Line
  /\ Len(cfg.entries) < MaxEntries
  /\ \E t \in Titles :
       cfg' = [cfg EXCEPT !.entries = Append(@, [title |-> t, target |-> Target("multiboot", Empty)])]
  /\ UNCHANGED defaultTitle

-----------------------------------------------------------------------------
(* The lines that describe the last entry. *)
Last == Len(cfg.entries)
Of   == cfg.entries[Last].target
SetTarget(t) == cfg' = [cfg EXCEPT !.entries[Last].target = t]

(* Reported and skipped: a line before any entry, one it does not know, one *)
(* that does not apply to the kind of the entry, or a multiboot, chainload  *)
(* or linux line whose path cannot be used.                                 *)
SkippedLine ==
  /\ Line
  /\ UNCHANGED <<cfg, defaultTitle>>

(* multiboot, chainload and linux begin the target anew. *)
TargetLine ==
  /\ Line
  /\ Last > 0
  /\ \E kind \in {"multiboot", "chainload", "linux"}, p \in AnyPath : SetTarget(Target(kind, p))
  /\ UNCHANGED defaultTitle

(* modules of a multiboot entry, initrd of a linux one. *)
WithLine ==
  /\ Line
  /\ Last > 0 /\ Of.kind \in {"multiboot", "linux"}
  /\ \E p \in AnyPath : SetTarget([Of EXCEPT !.with = p])
  /\ UNCHANGED defaultTitle

(* The same with a path that cannot be used: path() is None, and that is    *)
(* what is stored.                                                          *)
WithUnusable ==
  /\ Line
  /\ Last > 0 /\ Of.kind \in {"multiboot", "linux"}
  /\ SetTarget([Of EXCEPT !.with = None])
  /\ UNCHANGED defaultTitle

OptionsLine ==
  /\ Line
  /\ Last > 0 /\ Of.kind = "linux"
  /\ SetTarget([Of EXCEPT !.cmdline = Options])
  /\ UNCHANGED defaultTitle

-----------------------------------------------------------------------------
(* The end of the file: entries that name nothing are dropped, and then the *)
(* default is looked up among those that are left.                          *)
Bootable(e) == e.target.kind = "multiboot" => e.target.path # Empty

(* retain: those that are bootable, in their order. *)
Retained(entries) ==
  LET kept[n \in 0..Len(entries)] ==
        IF n = 0 THEN <<>>
        ELSE IF Bootable(entries[n]) THEN Append(kept[n - 1], entries[n]) ELSE kept[n - 1]
  IN  kept[Len(entries)]

Titled(entries, t) == {k \in DOMAIN entries : entries[k].title = t}
First(S) == CHOOSE k \in S : \A l \in S : k <= l

Resolved(entries) ==
  IF Titled(entries, defaultTitle) # {} THEN First(Titled(entries, defaultTitle)) - 1
  ELSE cfg.default

ClampedLate(n, entries) == IF n > Len(entries) THEN 0 ELSE n
Clamped(n, entries) == IF n >= Len(entries) THEN 0 ELSE n

FinishTooEarly ==
  /\ pc = "parse"
  /\ pc' = "parsed"
  /\ cfg' = [cfg EXCEPT !.entries = Retained(@),
                        !.default = Clamped(Resolved(cfg.entries), Retained(cfg.entries))]
  /\ UNCHANGED defaultTitle

FinishConfig ==
  /\ pc = "parse"
  /\ pc' = "parsed"
  /\ LET kept == Retained(cfg.entries)
     IN  cfg' = [cfg EXCEPT !.entries = kept, !.default = Clamped(Resolved(kept), kept)]
  /\ UNCHANGED defaultTitle

ConfigNext ==
  \/ NoConfig \/ OpenConfig
  \/ TimeoutLine \/ TimeoutNotANumber \/ AutodetectLine
  \/ DefaultPosition \/ DefaultTitle \/ EntryLine
  \/ SkippedLine \/ TargetLine \/ WithLine \/ WithUnusable \/ OptionsLine
  \/ FinishConfig

ConfigSpec == ConfigInit /\ [][ConfigNext]_configVars

-----------------------------------------------------------------------------
Targets ==
  [kind : {"multiboot", "chainload", "linux"}, path : AnyPath \cup {KernelBin},
   with : AnyPath \cup {None, Drivers}, cmdline : {Empty, Options}, device : {None}]

(* The Config parse builds has its type: an entry of a kind has the parts   *)
(* of that kind and no other.                                               *)
ConfigTypeOK ==
  /\ pc \in {"load", "parse", "parsed"}
  /\ cfg.timeout \in Timeouts \cup {0, 5}
  /\ cfg.default \in Nat
  /\ cfg.autodetect \in BOOLEAN
  /\ \A k \in DOMAIN cfg.entries :
       LET e == cfg.entries[k]
       IN  /\ e.title \in Titles \cup {"Quark"} /\ e.target \in Targets
           /\ e.target.kind = "chainload" => e.target.with = None
           /\ e.target.cmdline # Empty => e.target.kind = "linux"
  /\ defaultTitle \in Titles \cup {None}

(* What is booted when nobody chooses is what the file says: the first      *)
(* entry with the title the default names, counted after the entries that   *)
(* name nothing are gone, and in any case an entry if there is one.         *)
DefaultMeant ==
  pc = "parsed" =>
    /\ cfg.entries # <<>> => cfg.default < Len(cfg.entries)
    /\ \A k \in DOMAIN cfg.entries :
         cfg.entries[k].title = defaultTitle =>
           /\ cfg.default < k
           /\ cfg.entries[cfg.default + 1].title = defaultTitle
=============================================================================
