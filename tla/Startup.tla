------------------------------ MODULE Startup -------------------------------
(***************************************************************************)
(* From the firmware's call of main to what it starts (src/main.rs): the    *)
(* configuration is read (Config), what discover::scan found is added to    *)
(* it, an entry is chosen (Choice, which Menu implements), and it is         *)
(* dispatched on.  A chainloaded image (src/chain.rs) may come back.        *)
(***************************************************************************)
EXTENDS Config, Paths

CONSTANTS
  Volumes,    \* handles of the filesystems the firmware can see
  Own,        \* the one Bang was loaded from
  MaxFound    \* bound on what scan finds

ASSUME StartupConstants ==
  Own \in Volumes /\ None \notin Volumes /\ MaxFound \in Nat

VARIABLES
  written,    \* history: the Config as it was read
  found,      \* history: what scan returned
  merged,     \* how many of found have been looked at
  chosen,     \* choice, -1 before
  cause,      \* history: what made the choice
  keyed,      \* history: the user has touched a key
  running     \* the target that has been started

Nothing == Target("none", Empty)

startVars == <<written, found, merged, chosen, cause, keyed, running>>
vars == <<configVars, startVars>>

(* The menu is asked about this many entries. *)
Menu == INSTANCE Choice
  WITH cfg <- [entries |-> Len(cfg.entries), default |-> cfg.default, timeout |-> cfg.timeout]

(* discover::scan: each loader once, on the volume it is on, however its    *)
(* name is written there.                                                   *)
FoundLists ==
  {s \in UNION {[1..n -> [path : Paths, device : Volumes]] : n \in 0..MaxFound} :
     \A k, l \in DOMAIN s : s[k].device = s[l].device /\ Fold(s[k].path) = Fold(s[l].path) => k = l}

-----------------------------------------------------------------------------
Init ==
  /\ ConfigInit
  /\ written = Builtin
  /\ found = <<>> /\ merged = 0
  /\ chosen = -1 /\ cause = "none" /\ keyed = FALSE
  /\ running = Nothing

ReadConfig == ConfigNext /\ UNCHANGED startVars

(* scan is called unless autodetect is off. *)
Scan ==
  /\ pc = "parsed"
  /\ pc' = "merge"
  /\ written' = cfg
  /\ found' \in (IF cfg.autodetect THEN FoundLists ELSE {<<>>})
  /\ UNCHANGED <<cfg, defaultTitle, merged, chosen, cause, keyed, running>>

AlreadyExactly(f) ==
  \E k \in DOMAIN cfg.entries :
    LET t == cfg.entries[k].target
    IN  t.kind = "chainload" /\ t.path = f.path /\ t.device = f.device

(* An entry chainloads what was found: the same path, letter for letter     *)
(* (the paths are compared as CString16), on the same volume or on one the  *)
(* configuration does not name.                                             *)
Already(f) ==
  \E k \in DOMAIN cfg.entries :
    LET t == cfg.entries[k].target
    IN  /\ t.kind = "chainload" /\ t.path = f.path
        /\ t.device \in {None, f.device}

FoundEntry(f) ==
  [title |-> "found", target |-> [Target("chainload", f.path) EXCEPT !.device = f.device]]

WithEntryFirst(f) == <<FoundEntry(f)>> \o cfg.entries
WithEntry(f)      == Append(cfg.entries, FoundEntry(f))

MergeNextOrStay ==
  /\ pc = "merge" /\ merged < Len(found)
  /\ ~Already(found[merged + 1])
  /\ merged' = merged + 1
  /\ cfg' = [cfg EXCEPT !.entries = WithEntry(found[merged + 1])]
  /\ UNCHANGED <<pc, defaultTitle, written, found, chosen, cause, keyed, running>>

MergeNext ==
  /\ pc = "merge" /\ merged < Len(found)
  /\ merged' = merged + 1
  /\ LET f == found[merged + 1]
     IN  cfg' = [cfg EXCEPT !.entries = IF Already(f) THEN @ ELSE WithEntry(f)]
  /\ UNCHANGED <<pc, defaultTitle, written, found, chosen, cause, keyed, running>>

Merged ==
  /\ pc = "merge" /\ merged = Len(found)
  /\ pc' = "choose"
  /\ UNCHANGED <<cfg, defaultTitle, startVars>>

Choose ==
  /\ pc = "choose"
  /\ UNCHANGED <<pc, cfg, defaultTitle, written, found, merged, running>>
  /\ Menu!Next

(* cfg.entries[choice] is out of bounds. *)
IndexPanics ==
  /\ pc = "choose" /\ chosen # -1
  /\ chosen >= Len(cfg.entries)
  /\ pc' = "panic"
  /\ UNCHANGED <<cfg, defaultTitle, startVars>>

(* The match on entry.target. *)
Dispatch ==
  /\ pc = "choose" /\ chosen # -1
  /\ chosen < Len(cfg.entries)
  /\ pc' = cfg.entries[chosen + 1].target.kind
  /\ running' = cfg.entries[chosen + 1].target
  /\ UNCHANGED <<cfg, defaultTitle, written, found, merged, chosen, cause, keyed>>

(* chain::boot returns: no device path, no image, or the image has come     *)
(* back.  Its Status is main's.                                             *)
ChainFails ==
  /\ pc = "chainload"
  /\ pc' = "exited"
  /\ running' = Nothing
  /\ UNCHANGED <<cfg, defaultTitle, written, found, merged, chosen, cause, keyed>>

ChainReturns ==
  /\ pc = "chainload"
  /\ pc' = "returned"
  /\ running' = Nothing
  /\ UNCHANGED <<cfg, defaultTitle, written, found, merged, chosen, cause, keyed>>

ReturnToFirmware ==
  /\ pc = "returned"
  /\ pc' = "exited"
  /\ UNCHANGED <<cfg, defaultTitle, startVars>>

Next ==
  \/ ReadConfig \/ Scan \/ MergeNext \/ Merged \/ Choose
  \/ IndexPanics \/ Dispatch \/ ChainFails \/ ChainReturns \/ ReturnToFirmware

Spec == Init /\ [][Next]_vars

(* Nothing between the end of the configuration and the dispatch blocks but *)
(* the menu, whose clock runs; and main goes on when an image comes back.   *)
FairSpec ==
  /\ Spec
  /\ WF_vars(Scan \/ MergeNext \/ Merged \/ IndexPanics \/ Dispatch \/ ReturnToFirmware)
  /\ WF_vars(Choose /\ chosen' # -1 /\ ~keyed')

-----------------------------------------------------------------------------
Asked == pc \in {"choose", "multiboot", "linux", "chainload", "returned", "exited", "panic"}

Volume(t) == IF t.device = None THEN Own ELSE t.device

(* Two targets start the same file, which has one name in any case. *)
SameFile(t, u) ==
  /\ t.kind = "chainload" /\ u.kind = "chainload"
  /\ Fold(t.path) = Fold(u.path) /\ Volume(t) = Volume(u)

(* Every variable of main keeps its type; a target is running exactly while *)
(* main is in the branch that started it, and nothing is chosen or found    *)
(* before the configuration has been read.                                  *)
TypeOK ==
  /\ pc \in {"load", "parse", "parsed", "merge"} \/ Asked
  /\ found \in FoundLists /\ merged \in 0..Len(found)
  /\ chosen \in Nat \cup {-1}
  /\ cause \in {"none", "immediate", "enter", "digit", "timeout"}
  /\ keyed \in BOOLEAN
  /\ running # Nothing <=> pc \in {"multiboot", "linux", "chainload"}
  /\ Len(cfg.entries) <= MaxEntries + MaxFound + 1
  /\ pc \in {"load", "parse", "parsed"} => chosen = -1 /\ found = <<>>

(* "Added after the config so that a configured entry stays where the user  *)
(* put it, and its default keeps meaning what it meant": whatever is found, *)
(* a machine nobody touches starts the entry the configuration means.       *)
DefaultKept ==
  /\ Asked => \A k \in DOMAIN written.entries : cfg.entries[k] = written.entries[k]
  /\ running # Nothing /\ ~keyed /\ written.entries # <<>> =>
       running = written.entries[written.default + 1].target

(* The entries that were added. *)
Added == (Len(written.entries) + 1)..Len(cfg.entries)

(* No file found is offered twice, nor beside an entry of the configuration *)
(* that names it in the same letters, on Bang's own volume or not, and      *)
(* nothing is offered that was neither written nor found.                   *)
OfferedOnce ==
  Asked =>
    \A l \in Added :
      /\ \A k \in 1..(l - 1) :
           SameFile(cfg.entries[k].target, cfg.entries[l].target) =>
             k \notin Added /\ cfg.entries[k].target.path # cfg.entries[l].target.path
      /\ \E f \in {found[k] : k \in DOMAIN found} : cfg.entries[l] = FoundEntry(f)

(* "Leaving out itself and anything the configuration already names": what  *)
(* is added to the list is no file the configuration names.  Does not hold  *)
(* where the configuration writes its name in another case.                 *)
NamedLeftOut ==
  Asked =>
    \A l \in Added : \A k \in DOMAIN written.entries :
      ~SameFile(written.entries[k].target, cfg.entries[l].target)

(* main stops on its own list only when there is nothing at all on it.      *)
PanicsOnlyEmpty == pc = "panic" => written.entries = <<>> /\ found = <<>>

(* Once the configuration is read, a machine nobody touches starts          *)
(* something, if there is anything to start.                                *)
SomethingStarts ==
  (pc = "parsed" /\ cfg.entries # <<>>) ~> (running # Nothing \/ keyed)

(* "Adds what it finds to the list, leaving out itself and anything the     *)
(* configuration already names": every file found can be chosen.            *)
FoundOffered ==
  pc = "choose" =>
    \A k \in DOMAIN found : \E l \in DOMAIN cfg.entries :
      SameFile(cfg.entries[l].target, FoundEntry(found[k]).target)
=============================================================================
