----------------------------- MODULE MenuProofs -----------------------------
(***************************************************************************)
(* What the menu promises for a list of any length, any timeout and any     *)
(* console.                                                                 *)
(*                                                                         *)
(* The clock is what needs strengthening: that the default is booted when   *)
(* the last second runs out says nothing of the passes before it.           *)
(* ClockInv ties the ticks counted to the seconds left, and a running clock *)
(* to an untouched keyboard and an unmoved selection.                       *)
(***************************************************************************)
EXTENDS Menu, TLAPS

ClockInv ==
  /\ pc = "start" => cause = "none" /\ chosen = -1 /\ ~keyed
  /\ pc = "loop" => cause = "none" /\ chosen = -1 /\ cfg.entries > 1 /\ cfg.timeout > 0
  /\ pc = "loop" /\ counting =>
       /\ ~keyed
       /\ selected = cfg.default
       /\ remaining >= 1
       /\ 10 * (cfg.timeout - remaining) <= ticks
       /\ ticks < 10 * (cfg.timeout - remaining) + 10
  /\ pc = "done" => cause # "none" /\ chosen # -1

IInv == TypeOK /\ ClockInv /\ TimeoutMeansUntouched /\ ChoiceInRange /\ ScreenHonest

-----------------------------------------------------------------------------
(* What membership of Configs and Consoles comes to. *)
LEMMA InputFacts ==
  ASSUME TypeOK
  PROVE  /\ cfg.entries \in Nat /\ cfg.timeout \in Nat /\ cfg.default \in Nat
         /\ cfg.default \in Indices(cfg.entries)
         /\ con.rows \in Nat \ {0} /\ con.origin \in Nat /\ con.origin < con.rows
         /\ con.known \in BOOLEAN /\ con.moves \in BOOLEAN
  <1>1. cfg \in Configs /\ con \in Consoles
    BY DEF TypeOK
  <1>2. /\ cfg.entries \in 0..MaxEntries /\ cfg.timeout \in 0..MaxTimeout
        /\ cfg.default \in Indices(cfg.entries)
    BY <1>1 DEF Configs
  <1>3. cfg.entries \in Nat /\ cfg.timeout \in Nat /\ cfg.default \in Nat
    BY <1>2, MenuConstants DEF Indices
  <1>4. /\ con.rows \in RowCounts /\ con.origin < con.rows
        /\ con.origin \in UNION {0..(r - 1) : r \in RowCounts}
        /\ con.known \in BOOLEAN /\ con.moves \in BOOLEAN
    BY <1>1 DEF Consoles
  <1>5. con.rows \in Nat \ {0}
    BY <1>4, MenuConstants
  <1>6. PICK r \in RowCounts : con.origin \in 0..(r - 1)
    BY <1>4
  <1>7. r \in Nat
    BY <1>6, MenuConstants
  <1>8. con.origin \in Nat
    BY <1>6, <1>7
  <1> QED
    BY <1>2, <1>3, <1>4, <1>5, <1>8

(* The arrow keys stay on the list, at its two ends too. *)
LEMMA MovesStay ==
  ASSUME NEW n \in Nat, n > 1, NEW k \in Indices(n)
  PROVE  /\ (IF k = 0 THEN n - 1 ELSE k - 1) \in Indices(n)
         /\ (k + 1) % n \in Indices(n)
  BY DEF Indices

(* A move of the cursor leaves it on the console. *)
LEMMA CursorStays ==
  ASSUME TypeOK, NEW row \in Nat, NEW from \in 0..(con.rows - 1)
  PROVE  SetCursor(row, from) \in 0..(con.rows - 1)
  BY InputFacts DEF SetCursor

(* The rows of the layout are natural numbers.                            *)
LEMMA RowsAreNat ==
  ASSUME TypeOK
  PROVE  StatusRow \in Nat /\ StatusRow + 1 \in Nat
         /\ (cfg.entries > 0 => EntryRow(cfg.entries - 1) \in Nat)
  BY InputFacts DEF StatusRow, EntryRow

(* Writing the cancellation leaves the cursor on the console.             *)
LEMMA AttendCursor ==
  ASSUME TypeOK
  PROVE  AfterAttend \in 0..(con.rows - 1)
  <1>1. cursor \in 0..(con.rows - 1)
    BY DEF TypeOK
  <1>2. SetCursor(StatusRow, cursor) \in 0..(con.rows - 1)
    BY <1>1, CursorStays, RowsAreNat
  <1> QED
    BY <1>1, <1>2 DEF AfterAttend

(* The clock's second is the tenth tick. *)
LEMMA TenthTick ==
  ASSUME NEW t \in Nat, NEW s \in Nat, 10 * s <= t, t < 10 * s + 10
  PROVE  Second(t + 1) <=> t + 1 = 10 * s + 10
  BY DEF Second, TicksPerSecond

-----------------------------------------------------------------------------
(* The call of choose begins in the invariant.                            *)
LEMMA InitInv == Init => IInv
  <1> SUFFICES ASSUME Init PROVE IInv
    OBVIOUS
  <1>1. cfg \in Configs /\ con \in Consoles
    BY DEF Init
  <1>2. TypeOK
    <2>1. cfg.default \in Indices(cfg.entries) /\ cfg.timeout \in 0..MaxTimeout
      BY <1>1 DEF Configs
    <2>2. con.origin < con.rows /\ con.rows \in RowCounts
      BY <1>1 DEF Consoles
    <2>3. con.origin \in UNION {0..(r - 1) : r \in RowCounts}
      BY <1>1 DEF Consoles
    <2>4. con.rows \in Nat /\ cfg.timeout \in Nat
      <3>1. con.rows \in Nat
        BY <2>2, MenuConstants
      <3>2. cfg.timeout \in Nat
        BY <2>1, MenuConstants
      <3> QED
        BY <3>1, <3>2
    <2>5. PICK r \in RowCounts : con.origin \in 0..(r - 1)
      BY <2>3
    <2>6. r \in Nat
      BY MenuConstants
    <2>7. con.origin \in 0..(con.rows - 1)
      BY <2>2, <2>4, <2>5, <2>6
    <2>8. /\ selected \in Indices(cfg.entries) /\ cursor \in 0..(con.rows - 1)
          /\ chosen \in {-1} \cup Indices(cfg.entries) /\ marked \in {-1} \cup Indices(cfg.entries)
      BY <2>1, <2>7 DEF Init
    <2>9. /\ remaining \in 0..cfg.timeout /\ status \in -1..cfg.timeout
          /\ ticks \in 0..(TicksPerSecond * cfg.timeout)
      BY <2>4 DEF Init, Blank, TicksPerSecond
    <2> QED
      BY <1>1, <2>8, <2>9 DEF Init, TypeOK
  <1>3. ClockInv /\ TimeoutMeansUntouched /\ ChoiceInRange /\ ScreenHonest
    BY DEF Init, ClockInv, TimeoutMeansUntouched, ChoiceInRange, ScreenHonest
  <1> QED
    BY <1>2, <1>3 DEF IInv

(* Returning at once keeps the invariant.                                 *)
LEMMA ReturnDefaultInv == IInv /\ ReturnDefault => IInv'
  <1> SUFFICES ASSUME IInv, ReturnDefault PROVE IInv'
    OBVIOUS
  <1> USE DEF IInv
  <1>1. TypeOK'
    BY InputFacts DEF ReturnDefault, TypeOK, clock, screen
  <1>2. ClockInv'
    BY InputFacts DEF ReturnDefault, ClockInv, clock, screen
  <1>3. TimeoutMeansUntouched' /\ ChoiceInRange'
    BY InputFacts DEF ReturnDefault, TimeoutMeansUntouched, ChoiceInRange, Indices
  <1>4. ScreenHonest'
    BY DEF ReturnDefault, ScreenHonest, StatusRow, clock, screen
  <1> QED
    BY <1>1, <1>2, <1>3, <1>4

(* Drawing the menu and starting the clock keeps the invariant.           *)
LEMMA StartInv == IInv /\ Start => IInv'
  <1> SUFFICES ASSUME IInv, Start PROVE IInv'
    OBVIOUS
  <1> USE DEF IInv
  <1>1. TypeOK'
    <2>1. cursor' \in 0..(con.rows - 1)
      BY CursorStays, RowsAreNat DEF Start, TypeOK
    <2>2. placed' \in BOOLEAN /\ caret' \in BOOLEAN
      BY DEF Start, Plan
    <2> QED
      BY <2>1, <2>2, InputFacts DEF Start, TypeOK, Indices, Blank, TicksPerSecond
  <1>2. ClockInv'
    BY InputFacts DEF Start, ClockInv
  <1>3. TimeoutMeansUntouched' /\ ChoiceInRange'
    BY DEF Start, TimeoutMeansUntouched, ChoiceInRange, ClockInv
  <1>4. ScreenHonest'
    <2>1. ASSUME Plan PROVE StatusRow' < con'.rows
      BY <2>1, InputFacts DEF Start, StatusRow, Plan, Height
    <2> QED
      BY <2>1, InputFacts DEF Start, ScreenHonest, ClockInv, Cancelled, Blank
  <1> QED
    BY <1>1, <1>2, <1>3, <1>4

(* What a key does whatever it is. *)
LEMMA AttendFacts ==
  ASSUME IInv, Attend
  PROVE  /\ keyed' = TRUE /\ counting' = FALSE /\ status' = Cancelled
         /\ remaining' = remaining /\ ticks' = ticks
         /\ pc = "loop" /\ cause = "none" /\ cfg.entries > 1
  <1>1. pc = "loop" /\ cause = "none" /\ cfg.entries > 1
    BY DEF Attend, IInv, ClockInv
  <1>2. status' = Cancelled
    BY <1>1 DEF Attend, IInv, ScreenHonest
  <1> QED
    BY <1>1, <1>2 DEF Attend

(* Moving the selection within the list keeps the invariant.              *)
LEMMA MoveInv ==
  ASSUME IInv, NEW to \in Indices(cfg.entries), Move(to)
  PROVE  IInv'
  <1> USE DEF IInv
  <1>1. Attend
    BY DEF Move
  <1>2. /\ keyed' = TRUE /\ counting' = FALSE /\ status' = Cancelled
        /\ remaining' = remaining /\ ticks' = ticks
        /\ pc = "loop" /\ cause = "none" /\ cfg.entries > 1
    BY <1>1, AttendFacts
  <1>3. TypeOK'
    <2>1. cursor' \in 0..(con.rows - 1)
      <3>1. EntryRow(cfg.entries - 1) \in Nat
        BY <1>2, RowsAreNat, InputFacts
      <3>2. SetCursor(EntryRow(cfg.entries - 1), AfterAttend) \in 0..(con.rows - 1)
        BY <3>1, CursorStays, AttendCursor
      <3> QED
        BY <3>2 DEF Move, TypeOK
    <2>2. status' \in -1..cfg.timeout
      BY <1>2, InputFacts DEF Cancelled
    <2> QED
      BY <1>2, <2>1, <2>2 DEF Move, TypeOK
  <1>4. ClockInv'
    BY <1>2 DEF Move, ClockInv
  <1>5. TimeoutMeansUntouched' /\ ChoiceInRange'
    BY <1>2 DEF Move, TimeoutMeansUntouched, ChoiceInRange
  <1>6. ScreenHonest'
    BY <1>2 DEF Move, ScreenHonest, StatusRow
  <1> QED
    BY <1>3, <1>4, <1>5, <1>6

(* Leaving the loop by a key. *)
LEMMA PickInv ==
  ASSUME IInv, Attend, NEW choice \in Indices(cfg.entries), NEW why \in {"enter", "digit"},
         why = "enter" => choice = selected,
         Leave(choice, why, AfterAttend),
         UNCHANGED <<cfg, con, selected, placed, marked>>
  PROVE  IInv'
  <1> USE DEF IInv
  <1>1. /\ keyed' = TRUE /\ counting' = FALSE /\ status' = Cancelled
        /\ remaining' = remaining /\ ticks' = ticks
        /\ pc = "loop" /\ cause = "none" /\ cfg.entries > 1
    BY AttendFacts
  <1>2. /\ pc' = "done" /\ chosen' = choice /\ cause' = why /\ caret' = TRUE
        /\ cursor' = IF placed THEN SetCursor(StatusRow + 1, AfterAttend) ELSE AfterAttend
    BY DEF Leave
  <1>3. TypeOK'
    <2>1. SetCursor(StatusRow + 1, AfterAttend) \in 0..(con.rows - 1)
      BY CursorStays, RowsAreNat, AttendCursor
    <2>2. cursor' \in 0..(con.rows - 1)
      BY <1>2, <2>1, AttendCursor
    <2>3. status' \in -1..cfg.timeout
      BY <1>1, InputFacts DEF Cancelled
    <2> QED
      BY <1>1, <1>2, <2>2, <2>3 DEF TypeOK
  <1>4. choice \in 0..(cfg.entries - 1)
    BY <1>1, InputFacts DEF Indices
  <1>5. ClockInv'
    BY <1>1, <1>2, <1>4, InputFacts DEF ClockInv
  <1>6. TimeoutMeansUntouched' /\ ChoiceInRange'
    BY <1>2, <1>4 DEF TimeoutMeansUntouched, ChoiceInRange
  <1>7. ScreenHonest'
    BY <1>1, <1>2 DEF ScreenHonest, StatusRow
  <1> QED
    BY <1>3, <1>5, <1>6, <1>7

(* Every key keeps the invariant.                                         *)
LEMMA KeyInv == IInv /\ Key => IInv'
  <1> SUFFICES ASSUME IInv, Key PROVE IInv'
    OBVIOUS
  <1>1. CASE KeyUp
    <2>1. cfg.entries > 1 /\ selected \in Indices(cfg.entries)
      BY <1>1 DEF KeyUp, Move, Attend, IInv, ClockInv, TypeOK
    <2>2. Above(selected) \in Indices(cfg.entries)
      BY <2>1, MovesStay, InputFacts DEF Above, IInv
    <2> QED
      BY <1>1, <2>2, MoveInv DEF KeyUp
  <1>2. CASE KeyDown
    <2>1. cfg.entries > 1 /\ selected \in Indices(cfg.entries)
      BY <1>2 DEF KeyDown, Move, Attend, IInv, ClockInv, TypeOK
    <2>2. Below(selected) \in Indices(cfg.entries)
      BY <2>1, MovesStay, InputFacts DEF Below, IInv
    <2> QED
      BY <1>2, <2>2, MoveInv DEF KeyDown
  <1>3. CASE KeyEnter
    BY <1>3, PickInv DEF KeyEnter, IInv, TypeOK
  <1>4. CASE \E d \in 0..9 : KeyDigit(d)
    <2>1. PICK d \in 0..9 : KeyDigit(d)
      BY <1>4
    <2>2. d - 1 \in Indices(cfg.entries)
      BY <2>1, InputFacts DEF KeyDigit, NumbersEntry, Indices, IInv
    <2> QED
      BY <2>1, <2>2, PickInv DEF KeyDigit
  <1>5. CASE KeyOther
    <2>1. /\ keyed' = TRUE /\ counting' = FALSE /\ status' = Cancelled
          /\ remaining' = remaining /\ ticks' = ticks
          /\ pc = "loop" /\ cause = "none" /\ cfg.entries > 1
      BY <1>5, AttendFacts DEF KeyOther
    <2>2. TypeOK'
      <3>1. status' \in -1..cfg.timeout
        BY <2>1, InputFacts DEF Cancelled, IInv
      <3> QED
        BY <1>5, <2>1, <3>1, AttendCursor DEF KeyOther, TypeOK, IInv
    <2>3. ClockInv'
      BY <1>5, <2>1 DEF KeyOther, ClockInv, IInv
    <2>4. TimeoutMeansUntouched' /\ ChoiceInRange'
      BY <1>5, <2>1 DEF KeyOther, TimeoutMeansUntouched, ChoiceInRange
    <2>5. ScreenHonest'
      BY <1>5, <2>1 DEF KeyOther, ScreenHonest, StatusRow, IInv
    <2> QED
      BY <2>2, <2>3, <2>4, <2>5 DEF IInv
  <1> QED
    BY <1>1, <1>2, <1>3, <1>4, <1>5 DEF Key

(* Where the clock is when it ticks. *)
LEMMA TickFacts ==
  ASSUME IInv, pc = "loop", counting
  PROVE  /\ ~keyed /\ selected = cfg.default /\ cause = "none"
         /\ cfg.entries > 1 /\ cfg.timeout \in Nat /\ cfg.timeout > 0
         /\ ticks \in Nat /\ remaining \in 1..cfg.timeout
         /\ ticks + 1 <= 10 * (cfg.timeout - remaining) + 10
         /\ 10 * (cfg.timeout - remaining) <= ticks
         /\ Second(ticks + 1) <=> ticks + 1 = 10 * (cfg.timeout - remaining) + 10
  <1>1. /\ ~keyed /\ selected = cfg.default /\ cause = "none"
        /\ cfg.entries > 1 /\ cfg.timeout > 0 /\ remaining >= 1
        /\ 10 * (cfg.timeout - remaining) <= ticks
        /\ ticks < 10 * (cfg.timeout - remaining) + 10
    BY DEF IInv, ClockInv
  <1>2. /\ cfg.timeout \in Nat /\ ticks \in 0..(TicksPerSecond * cfg.timeout)
        /\ remaining \in 0..cfg.timeout
    BY InputFacts DEF IInv, TypeOK
  <1>3. ticks \in Nat /\ remaining \in 1..cfg.timeout /\ cfg.timeout - remaining \in Nat
    BY <1>1, <1>2 DEF TicksPerSecond
  <1>4. Second(ticks + 1) <=> ticks + 1 = 10 * (cfg.timeout - remaining) + 10
    BY <1>1, <1>3, TenthTick
  <1> QED
    BY <1>1, <1>2, <1>3, <1>4

(* Every tick of the clock keeps the invariant.                           *)
LEMMA TickInv == IInv /\ Tick => IInv'
  <1> SUFFICES ASSUME IInv, Tick PROVE IInv'
    OBVIOUS
  <1>0. pc = "loop" /\ counting /\ ticks' = ticks + 1 /\ TypeOK
    BY DEF Tick, TickWithin, TickSecond, TickLast, IInv
  <1>1. CASE TickWithin
    <2>1. ticks' \in 0..(TicksPerSecond * cfg.timeout)
      BY <1>0, TickFacts DEF TicksPerSecond
    <2>2. TypeOK'
      BY <1>1, <2>1 DEF TickWithin, TypeOK, IInv, screen
    <2>3. ClockInv'
      <3>1. /\ pc' = "loop" /\ ~Second(ticks + 1)
            /\ UNCHANGED <<counting, keyed, selected, remaining, cfg, cause, chosen>>
        BY <1>0, <1>1 DEF TickWithin, screen
      <3>2. /\ 10 * (cfg.timeout - remaining) <= ticks + 1
            /\ ticks + 1 < 10 * (cfg.timeout - remaining) + 10
        BY <1>0, <3>1, TickFacts
      <3>3. remaining >= 1 /\ ~keyed /\ selected = cfg.default
        BY <1>0, TickFacts
      <3> QED
        BY <1>0, <3>1, <3>2, <3>3 DEF ClockInv, IInv
    <2>4. TimeoutMeansUntouched' /\ ChoiceInRange'
      BY <1>0, <1>1, TickFacts DEF TickWithin, TimeoutMeansUntouched, ChoiceInRange
    <2>5. ScreenHonest'
      BY <1>1 DEF TickWithin, ScreenHonest, StatusRow, IInv, screen
    <2> QED
      BY <2>2, <2>3, <2>4, <2>5 DEF IInv
  <1>2. CASE TickSecond
    <2>1. ticks' \in 0..(TicksPerSecond * cfg.timeout) /\ remaining' \in 0..cfg.timeout
      BY <1>0, <1>2, TickFacts DEF TickSecond, TicksPerSecond
    <2>2. status' \in -1..cfg.timeout
      BY <1>0, <1>2, TickFacts DEF TickSecond
    <2>3. cursor' \in 0..(con.rows - 1)
      BY <1>0, <1>2, CursorStays, RowsAreNat DEF TickSecond, TypeOK
    <2>4. TypeOK'
      BY <1>2, <2>1, <2>2, <2>3 DEF TickSecond, TypeOK, IInv
    <2>5. ClockInv'
      BY <1>0, <1>2, TickFacts DEF TickSecond, ClockInv, IInv
    <2>6. TimeoutMeansUntouched' /\ ChoiceInRange'
      BY <1>0, <1>2, TickFacts DEF TickSecond, TimeoutMeansUntouched, ChoiceInRange
    <2>7. ScreenHonest'
      BY <1>0, <1>2, TickFacts DEF TickSecond, ScreenHonest, StatusRow, IInv, Cancelled
    <2> QED
      BY <2>4, <2>5, <2>6, <2>7 DEF IInv
  <1>3. CASE TickLast
    <2>1. /\ pc' = "done" /\ chosen' = selected /\ cause' = "timeout" /\ caret' = TRUE
          /\ cursor' = IF placed THEN SetCursor(StatusRow + 1, cursor) ELSE cursor
      BY <1>3 DEF TickLast, Leave
    <2>2. ticks' = 10 * cfg.timeout /\ remaining' \in 0..cfg.timeout
      BY <1>0, <1>3, TickFacts DEF TickLast
    <2>3. cursor' \in 0..(con.rows - 1)
      BY <1>0, <2>1, CursorStays, RowsAreNat DEF TypeOK
    <2>4. ticks' \in 0..(TicksPerSecond * cfg.timeout)
      BY <2>2, <1>0, TickFacts DEF TicksPerSecond
    <2>5. TypeOK'
      BY <1>0, <1>3, <2>1, <2>2, <2>3, <2>4 DEF TickLast, TypeOK
    <2>6. chosen' = cfg.default /\ chosen' \in 0..(cfg.entries - 1)
      BY <1>0, <2>1, TickFacts, InputFacts DEF Indices
    <2>7. ClockInv'
      BY <1>0, <2>1, <2>6, InputFacts DEF ClockInv
    <2>8. TimeoutMeansUntouched' /\ ChoiceInRange'
      BY <1>0, <1>3, <2>1, <2>2, <2>6, TickFacts
         DEF TickLast, TimeoutMeansUntouched, ChoiceInRange, TicksPerSecond
    <2>9. ScreenHonest'
      BY <1>0, <1>3, <2>1 DEF TickLast, ScreenHonest, StatusRow, IInv
    <2> QED
      BY <2>5, <2>7, <2>8, <2>9 DEF IInv
  <1> QED
    BY <1>1, <1>2, <1>3 DEF Tick

(* So does a step that changes nothing.                                   *)
LEMMA StutterInv == IInv /\ UNCHANGED vars => IInv'
  BY DEF IInv, TypeOK, ClockInv, TimeoutMeansUntouched, ChoiceInRange, ScreenHonest,
         StatusRow, vars, clock, screen

-----------------------------------------------------------------------------
(* The strengthened invariant holds of every state choose reaches. *)
THEOREM Invariance == Spec => []IInv
  <1>1. IInv /\ [Next]_vars => IInv'
    BY ReturnDefaultInv, StartInv, KeyInv, TickInv, StutterInv DEF Next
  <1> QED
    BY InitInv, <1>1, PTL DEF Spec

(* Every variable of choose keeps its type: the selection never leaves the  *)
(* list and the cursor never leaves the console.                            *)
THEOREM TypeCorrect == Spec => []TypeOK
  <1>1. IInv => TypeOK
    BY DEF IInv
  <1> QED
    BY Invariance, <1>1, PTL

(* The index choose returns is always one main can use, for any list with   *)
(* an entry in it.                                                          *)
THEOREM ChoiceSafe == Spec => []ChoiceInRange
  <1>1. IInv => ChoiceInRange
    BY DEF IInv
  <1> QED
    BY Invariance, <1>1, PTL

(* The clock boots only an untouched machine, its default, and exactly when *)
(* the timeout is over, for any timeout.                                    *)
THEOREM TimeoutSafe == Spec => []TimeoutMeansUntouched
  <1>1. IInv => TimeoutMeansUntouched
    BY DEF IInv
  <1> QED
    BY Invariance, <1>1, PTL

(* What the menu shows is what it will do, on a console of any size.        *)
THEOREM ScreenSafe == Spec => []ScreenHonest
  <1>1. IInv => ScreenHonest
    BY DEF IInv
  <1> QED
    BY Invariance, <1>1, PTL

(* Every pass of the loop is a step of the abstract choice, or changes      *)
(* nothing the caller can see.                                              *)
LEMMA StepIsChoice ==
  ASSUME IInv, [Next]_vars
  PROVE  [Abstract!Next]_(Abstract!vars)
  <1> USE DEF Abstract!Waiting, Abstract!Offered, Abstract!vars
  <1>0. cfg.entries \in Nat /\ cfg.timeout \in Nat
    BY InputFacts DEF IInv
  <1>1. CASE ReturnDefault
    <2>1. Abstract!AtOnce
      BY <1>0, <1>1 DEF ReturnDefault, IInv, ClockInv, Abstract!AtOnce
    <2> QED
      BY <2>1 DEF Abstract!Next
  <1>2. CASE Start \/ TickWithin \/ TickSecond \/ UNCHANGED vars
    BY <1>2 DEF Start, TickWithin, TickSecond, vars
  <1>3. CASE KeyOther \/ \E to : Move(to)
    <2>1. Abstract!Touch
      BY <1>3 DEF KeyOther, Move, Attend, IInv, ClockInv, Abstract!Touch
    <2> QED
      BY <2>1 DEF Abstract!Next
  <1>4. CASE KeyEnter \/ \E d \in 0..9 : KeyDigit(d)
    <2>1. /\ pc = "loop" /\ keyed' = TRUE /\ cfg' = cfg /\ cause' \in {"enter", "digit"}
          /\ chosen' = selected \/ \E d \in 0..9 : NumbersEntry(d) /\ chosen' = d - 1
      BY <1>4 DEF KeyEnter, KeyDigit, Attend, Leave
    <2>2. chosen' \in 0..(cfg.entries - 1)
      BY <1>0, <2>1 DEF NumbersEntry, Indices, IInv, TypeOK, ClockInv
    <2>3. Abstract!Pick
      BY <2>1, <2>2 DEF IInv, ClockInv, Abstract!Pick
    <2> QED
      BY <2>3 DEF Abstract!Next
  <1>5. CASE TickLast
    <2>1. Abstract!Expire
      BY <1>5 DEF TickLast, Leave, IInv, ClockInv, Abstract!Expire
    <2> QED
      BY <2>1 DEF Abstract!Next
  <1> QED
    BY <1>1, <1>2, <1>3, <1>4, <1>5 DEF Next, Key, KeyUp, KeyDown, Tick

(* The menu implements the choice main relies on, for any list, any timeout *)
(* and any console: nothing is chosen before a key or the end of the        *)
(* countdown, nothing outside the list, and nothing twice.                  *)
THEOREM MenuRefinesChoice == Spec => ImplementsChoice
  <1>1. Init => Abstract!Init
    BY DEF Init, Abstract!Init, Abstract!Waiting
  <1>2. IInv /\ [Next]_vars => [Abstract!Next]_(Abstract!vars)
    BY StepIsChoice
  <1> QED
    BY <1>1, <1>2, Invariance, PTL DEF Spec, ImplementsChoice, Abstract!Spec
=============================================================================
