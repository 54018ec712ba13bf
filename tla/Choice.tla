------------------------------- MODULE Choice -------------------------------
(***************************************************************************)
(* What menu::choose promises main, whatever the screen looks like and     *)
(* however the clock is kept: the default at once when there is nothing to  *)
(* choose between or no time to choose in, otherwise the entry the user     *)
(* picks or, if nobody touches a key, the default.                          *)
(***************************************************************************)
EXTENDS Integers

VARIABLES
  cfg,      \* entries (their number), default and timeout of the Config
  chosen,   \* the index returned, -1 before
  cause,    \* what made the choice
  keyed     \* a key has been read

vars == <<cfg, chosen, cause, keyed>>

Offered == cfg.entries > 1 /\ cfg.timeout > 0
Waiting == chosen = -1

Init == Waiting /\ cause = "none" /\ ~keyed

AtOnce ==
  /\ Waiting /\ ~Offered
  /\ chosen' = cfg.default /\ cause' = "immediate"
  /\ UNCHANGED <<cfg, keyed>>

(* A key that moves the selection, or does nothing. *)
Touch ==
  /\ Waiting /\ Offered
  /\ keyed' = TRUE
  /\ UNCHANGED <<cfg, chosen, cause>>

(* A key that boots an entry. *)
Pick ==
  /\ Waiting /\ Offered
  /\ keyed' = TRUE
  /\ chosen' \in 0..(cfg.entries - 1) /\ cause' \in {"enter", "digit"}
  /\ UNCHANGED cfg

Expire ==
  /\ Waiting /\ Offered /\ ~keyed
  /\ chosen' = cfg.default /\ cause' = "timeout"
  /\ UNCHANGED <<cfg, keyed>>

Next == AtOnce \/ Touch \/ Pick \/ Expire

Spec == Init /\ [][Next]_vars
=============================================================================
