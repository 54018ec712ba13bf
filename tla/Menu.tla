-------------------------------- MODULE Menu --------------------------------
(***************************************************************************)
(* The boot menu: menu::choose in src/menu.rs.                              *)
(*                                                                         *)
(* One call of choose is one behaviour.  The call is given the number of    *)
(* entries, the default and the timeout, and a console.  Start is          *)
(* everything before the polling loop; every other action is one pass of    *)
(* the loop (poll_key, the key's effect, the clock, the 100 ms stall).      *)
(*                                                                         *)
(* Of the screen the model keeps what a user relies on: which entry the     *)
(* list marks, what the status line says, the row the cursor is on and      *)
(* whether it is shown.  Text and padding are left out.                     *)
(***************************************************************************)
EXTENDS Integers

CONSTANTS
  MaxEntries,   \* bound on the length of the list
  MaxTimeout,   \* bound on the configured timeout, in seconds
  RowCounts,    \* heights of console to consider
  ColCounts     \* widths of console to consider

ASSUME MenuConstants ==
  /\ MaxEntries \in Nat \ {0}
  /\ MaxTimeout \in Nat
  /\ RowCounts \subseteq Nat \ {0}
  /\ ColCounts \subseteq Nat

VARIABLES
  cfg,        \* entries (their number), default and timeout of the Config
  con,        \* the console: whether it tells its mode and moves its cursor,
              \* its size, and the row the cursor was on
  pc,         \* "start", "loop" or "done"
  selected, counting, remaining, ticks,      \* the locals of choose
  chosen,     \* the index returned, -1 before
  cause,      \* history: what ended the call
  keyed,      \* history: a key has been read
  placed,     \* layout is Some
  marked,     \* the entry the list on the screen marks, -1 before
  status,     \* the status line: seconds left, Blank or Cancelled
  cursor,     \* the cursor's row
  caret       \* the cursor is shown

clock  == <<counting, remaining, ticks>>
screen == <<placed, marked, status, cursor, caret>>
vars   == <<cfg, con, pc, selected, clock, chosen, cause, keyed, screen>>

Blank     == 0
Cancelled == -1
MIN_COLS  == 20
TicksPerSecond == 10

(* What an index may be.  config::parse leaves default = 0 when it leaves   *)
(* no entry.                                                                *)
Indices(n) == {0} \cup 0..(n - 1)

Configs ==
  {c \in [entries : 0..MaxEntries, default : Indices(MaxEntries), timeout : 0..MaxTimeout] :
     c.default \in Indices(c.entries)}

Consoles ==
  {c \in [known : BOOLEAN, moves : BOOLEAN, cols : ColCounts,
          rows : RowCounts, origin : UNION {0..(r - 1) : r \in RowCounts}] :
     c.origin < c.rows}

-----------------------------------------------------------------------------
(* Layout.  Rows are absolute. *)

EntryRow(i) == con.origin + 2 + i
StatusRow   == con.origin + 4 + cfg.entries
Height      == 5 + cfg.entries

(* plan: the menu is placed only on a console that can hold it. *)
Plan ==
  /\ con.known
  /\ con.cols >= MIN_COLS
  /\ con.origin + Height <= con.rows
  /\ con.moves

(* What set_cursor_position leaves: a row the console does not have is      *)
(* refused, and the callers ignore the refusal.                             *)
SetCursor(row, from) == IF row < con.rows THEN row ELSE from

-----------------------------------------------------------------------------
Init ==
  /\ cfg \in Configs
  /\ con \in Consoles
  /\ pc = "start"
  /\ selected = cfg.default
  /\ counting = FALSE /\ remaining = 0 /\ ticks = 0
  /\ chosen = -1 /\ cause = "none" /\ keyed = FALSE
  /\ placed = FALSE /\ marked = -1 /\ status = Blank
  /\ cursor = con.origin /\ caret = TRUE

(* Nothing to choose between, or no time to choose in. *)
ReturnDefault ==
  /\ pc = "start"
  /\ cfg.entries <= 1 \/ cfg.timeout = 0
  /\ pc' = "done" /\ chosen' = cfg.default /\ cause' = "immediate"
  /\ UNCHANGED <<cfg, con, selected, clock, keyed, screen>>

(* Draw the menu, or print it where the cursor will not move, and start     *)
(* the clock.  Only the placed menu shows the countdown at once.            *)
Start ==
  /\ pc = "start"
  /\ cfg.entries > 1 /\ cfg.timeout > 0
  /\ pc' = "loop"
  /\ selected' = cfg.default
  /\ counting' = TRUE /\ remaining' = cfg.timeout /\ ticks' = 0
  /\ placed' = Plan
  /\ marked' = cfg.default
  /\ status' = IF Plan THEN cfg.timeout ELSE Blank
  /\ cursor' = IF Plan THEN SetCursor(StatusRow, cursor) ELSE cursor
  /\ caret'  = ~Plan
  /\ UNCHANGED <<cfg, con, chosen, cause, keyed>>

(* The loop is left: the cursor is shown again and put below the menu. *)

Leave(choice, why, from) ==
  /\ pc' = "done" /\ chosen' = choice /\ cause' = why
  /\ caret' = TRUE
  /\ cursor' = IF placed THEN SetCursor(StatusRow + 1, from) ELSE from

-----------------------------------------------------------------------------
(* A key has been read: the clock stops for good. *)
AttendOnly ==
  /\ pc = "loop"
  /\ keyed' = TRUE
  /\ status' = IF counting THEN Cancelled ELSE status
  /\ UNCHANGED clock

Attend ==
  /\ pc = "loop"
  /\ keyed' = TRUE
  /\ counting' = FALSE
  /\ status' = IF counting THEN Cancelled ELSE status
  /\ UNCHANGED <<remaining, ticks>>

(* Where the cursor is once the cancellation has been written, if it was. *)
AfterAttend == IF counting /\ placed THEN SetCursor(StatusRow, cursor) ELSE cursor

Above(i) == IF i = 0 THEN cfg.entries - 1 ELSE i - 1
Below(i) == (i + 1) % cfg.entries

MoveUnseen(to) ==
  /\ Attend
  /\ selected' = to
  /\ cursor' = AfterAttend
  /\ UNCHANGED <<cfg, con, pc, chosen, cause, placed, marked, caret>>

(* The selection moves and the list is drawn again. *)
Move(to) ==
  /\ Attend
  /\ selected' = to
  /\ marked' = to
  /\ cursor' = IF placed THEN SetCursor(EntryRow(cfg.entries - 1), AfterAttend) ELSE cursor
  /\ UNCHANGED <<cfg, con, pc, chosen, cause, placed, caret>>

KeyUp   == Move(Above(selected))
KeyDown == Move(Below(selected))

KeyEnter ==
  /\ Attend
  /\ Leave(selected, "enter", AfterAttend)
  /\ UNCHANGED <<cfg, con, selected, placed, marked>>

(* A digit that numbers an entry picks it. *)
NumbersEntryFromZero(d) == 0 <= d /\ d <= cfg.entries
NumbersEntry(d)         == 1 <= d /\ d <= cfg.entries

KeyDigit(d) ==
  /\ NumbersEntry(d)
  /\ Attend
  /\ Leave(d - 1, "digit", AfterAttend)
  /\ UNCHANGED <<cfg, con, selected, placed, marked>>

(* Any other key, a digit that numbers nothing included. *)
KeyOther ==
  /\ Attend
  /\ cursor' = AfterAttend
  /\ UNCHANGED <<cfg, con, pc, selected, chosen, cause, placed, marked, caret>>

(* No key, and the clock runs: a tenth of a second passes. *)
Second(t) == t % TicksPerSecond = 0

TickUncounted ==
  /\ pc = "loop" /\ counting
  /\ ~Second(ticks + 1)
  /\ UNCHANGED vars

TickWithin ==
  /\ pc = "loop" /\ counting
  /\ ticks' = ticks + 1
  /\ ~Second(ticks + 1)
  /\ UNCHANGED <<cfg, con, pc, selected, counting, remaining, chosen, cause, keyed, screen>>

TickSecond ==
  /\ pc = "loop" /\ counting
  /\ ticks' = ticks + 1
  /\ Second(ticks + 1)
  /\ remaining > 1
  /\ remaining' = remaining - 1
  /\ status' = remaining - 1
  /\ cursor' = IF placed THEN SetCursor(StatusRow, cursor) ELSE cursor
  /\ UNCHANGED <<cfg, con, pc, selected, counting, chosen, cause, keyed, placed, marked, caret>>

TickLast ==
  /\ pc = "loop" /\ counting
  /\ ticks' = ticks + 1
  /\ Second(ticks + 1)
  /\ remaining = 1
  /\ remaining' = 0
  /\ Leave(selected, "timeout", cursor)
  /\ UNCHANGED <<cfg, con, selected, counting, keyed, placed, marked, status>>

Tick == TickWithin \/ TickSecond \/ TickLast

Key == KeyUp \/ KeyDown \/ KeyEnter \/ KeyOther \/ \E d \in 0..9 : KeyDigit(d)

Next == ReturnDefault \/ Start \/ Key \/ Tick

Spec == Init /\ [][Next]_vars

(* The loop never blocks: as long as it has something to do it does it.     *)
(* Whether a key comes is up to the user.                                   *)
FairSpec == Spec /\ WF_vars(ReturnDefault \/ Start \/ Tick)

-----------------------------------------------------------------------------
(* Every variable of choose keeps its type; selected always indexes the     *)
(* list, whatever the arrow keys do at its ends.                            *)
TypeOK ==
  /\ cfg \in Configs
  /\ con \in Consoles
  /\ pc \in {"start", "loop", "done"}
  /\ selected \in Indices(cfg.entries)
  /\ counting \in BOOLEAN
  /\ remaining \in 0..cfg.timeout
  /\ ticks \in 0..(TicksPerSecond * cfg.timeout)
  /\ chosen \in {-1} \cup Indices(cfg.entries)
  /\ cause \in {"none", "immediate", "enter", "digit", "timeout"}
  /\ keyed \in BOOLEAN /\ placed \in BOOLEAN /\ caret \in BOOLEAN
  /\ marked \in {-1} \cup Indices(cfg.entries)
  /\ status \in -1..cfg.timeout
  /\ cursor \in 0..(con.rows - 1)

(* main indexes cfg.entries with what choose returns: whatever keys are     *)
(* pressed and whenever the clock runs out, it is an entry, provided there  *)
(* is one at all.                                                           *)
ChoiceInRange ==
  pc = "done" /\ cfg.entries > 0 => chosen \in 0..(cfg.entries - 1)

(* "Any key cancels the countdown": the clock boots only a machine nobody   *)
(* has touched, it boots the default, and after the whole timeout, neither  *)
(* a tick earlier nor later.                                                *)
TimeoutMeansUntouched ==
  cause = "timeout" =>
    /\ ~keyed
    /\ chosen = cfg.default
    /\ ticks = TicksPerSecond * cfg.timeout

(* The screen tells the truth: a placed menu is all on the screen, the      *)
(* entry it marks is the one enter or the clock would boot, the countdown   *)
(* it shows is the one that runs, and once it says the countdown is         *)
(* cancelled no countdown runs.                                             *)
ScreenHonest ==
  /\ placed => StatusRow < con.rows
  /\ pc = "loop" =>
       /\ marked = selected
       /\ status = Cancelled <=> ~counting
       /\ counting => status = remaining \/ (~placed /\ status = Blank /\ remaining = cfg.timeout)
  /\ cause \in {"enter", "timeout"} => chosen = marked

(* An unattended machine does not stay at the menu. *)
UnattendedBoots == <>(keyed \/ pc = "done")

Abstract == INSTANCE Choice

(* The menu, its screen and its clock implement the choice main relies on:  *)
(* nothing is chosen before the user or the whole countdown says so, and    *)
(* nothing is chosen twice.                                                 *)
ImplementsChoice == Abstract!Spec
=============================================================================
