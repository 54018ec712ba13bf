---------------------------- MODULE ModulesBoot -----------------------------
(***************************************************************************)
(* What the scan of the modules directory (Modules, entry by entry and byte *)
(* by byte) is to the rest of the boot: the steps of ModuleLoading, each of *)
(* which takes free pages for one file, with or without a module to show    *)
(* for them (src/modules.rs).                                               *)
(***************************************************************************)
EXTENDS Modules

CONSTANTS
  Kernel,     \* what load_kernel returned
  Before      \* what each page held when the scan began

RunOf(m) == m.phys_start \div PageSize .. (m.phys_start \div PageSize + NumPages(m.size) - 1)

InModule(p)    == \E k \in DOMAIN modules : p \in RunOf(modules[k])
HasModule(p)   == \E k \in DOMAIN modules : p \in RunOf(modules[k]) /\ Intact(modules[k])
Untouched(p)   == \A a \in Address : a \div PageSize = p => mem[a] = Junk

(* A page has a module while the whole module is what its file was; one     *)
(* that no module is in and somebody wrote to has what was left there.      *)
PageHolds(p) ==
  CASE HasModule(p) -> "module"
    [] ~InModule(p) /\ Untouched(p) -> Before[p]
    [] OTHER -> "unread"

(* Nothing of the kernel's file is looked at any more: its constants and    *)
(* variables stand for nothing here.                                        *)
ML == INSTANCE ModuleLoading WITH
  Word <- 2, MB1_HEADER_MAGIC <- 1, MB2_HEADER_MAGIC <- 1, Mb1Limit <- 0, Mb2Limit <- 0,
  Files <- {},
  Pages <- Page,
  Line32 <- LowPages,
  ModuleSizes <- {NumPages(e.size) : e \in {f \in Entries : Wanted(f)}},
  MaxModules <- MaxEntries,
  pc <- CASE pc = "done" -> "ask" [] pc = "panic" -> "panic" [] OTHER -> "modules",
  file <- [len |-> 0],
  off <- 0,
  kernel <- Kernel,
  free <- free,
  mem <- [p \in Page |-> PageHolds(p)],
  modules <- [k \in DOMAIN modules |-> RunOf(modules[k])]

(* The scan does nothing main has not reckoned with: every page it touches  *)
(* it took from the firmware below the line, all for one file at once, and  *)
(* a page once given to a module keeps it.                                  *)
ImplementsModuleLoading == [][ML!ModulesNext]_(ML!moduleVars)
=============================================================================
