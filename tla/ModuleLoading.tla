--------------------------- MODULE ModuleLoading ----------------------------
(***************************************************************************)
(* What load_modules in src/modules.rs promises main: each module in pages  *)
(* of its own below four gigabytes.  Modules has the scan itself.           *)
(*                                                                         *)
(* Addresses are told in pages, as in KernelFile.                           *)
(***************************************************************************)
EXTENDS KernelFile, Sequences

CONSTANTS
  Line32,       \* pages below four gigabytes
  ModuleSizes,  \* pages of the modules to consider
  MaxModules    \* bound on their number

ASSUME ModuleLoadingConstants ==
  /\ Line32 \in Nat \ {0} /\ ModuleSizes \subseteq Nat \ {0} /\ MaxModules \in Nat

VARIABLE modules        \* the pages of each module

moduleVars == <<fileVars, modules>>

Run(p, n)    == p..(p + n - 1)
Below32(run) == \A p \in run : p < Line32

(* The firmware gives a run for a file, which then holds what. *)
TakeRun(run, what) ==
  /\ run \subseteq free /\ Below32(run)
  /\ free' = free \ run
  /\ mem' = [q \in Pages |-> IF q \in run THEN what ELSE mem[q]]

LoadModule ==
  /\ pc = "modules" /\ Len(modules) < MaxModules
  /\ \E p \in free, n \in ModuleSizes :
       /\ TakeRun(Run(p, n), "module")
       /\ modules' = Append(modules, Run(p, n))
  /\ UNCHANGED <<pc, file, off, kernel>>

(* A read that stops early costs the module, and one that fails panics; the *)
(* pages are not given back.                                                *)
ModuleUnread ==
  /\ pc = "modules"
  /\ \E p \in free, n \in ModuleSizes : TakeRun(Run(p, n), "unread")
  /\ pc' \in {"modules", "panic"}
  /\ UNCHANGED <<file, off, kernel, modules>>

ModulesPanic ==
  /\ pc = "modules"
  /\ pc' = "panic"
  /\ UNCHANGED <<file, off, kernel, free, mem, modules>>

(* Without a modules directory there is none.                               *)
ModulesLoaded ==
  /\ pc = "modules"
  /\ pc' = "ask"
  /\ UNCHANGED <<file, off, kernel, free, mem, modules>>

ModulesNext == LoadModule \/ ModuleUnread \/ ModulesPanic \/ ModulesLoaded
=============================================================================
