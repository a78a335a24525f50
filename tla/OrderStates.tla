----------------------------- MODULE OrderStates -----------------------------
(***************************************************************************)
(* The order state machine of execution/orders.py, as pure operators: the  *)
(* states, the legal transitions, and what a fill does to a row.  An order *)
(* row keeps the fields its control depends on; price, direction, engine   *)
(* and the timestamps never change after the row is built.                 *)
(***************************************************************************)
EXTENDS Naturals

\* domain/enums.py: the states, the ones that may still be resting, the final ones.
LiveStates     == {"PENDING", "SUBMITTED", "PARTIAL", "INDETERMINATE"}
TerminalStates == {"FILLED", "CANCELLED", "EXPIRED", "REJECTED"}
OrderState     == LiveStates \union TerminalStates

\* The transition table (LEGAL_ORDER_TRANSITIONS).
LegalTransitions ==
  [ s \in OrderState |->
      CASE s = "PENDING"       -> {"SUBMITTED", "REJECTED", "EXPIRED", "INDETERMINATE"}
        [] s = "SUBMITTED"     -> {"PARTIAL", "FILLED", "CANCELLED", "EXPIRED",
                                   "REJECTED", "INDETERMINATE"}
        [] s = "PARTIAL"       -> {"FILLED", "CANCELLED", "EXPIRED", "INDETERMINATE"}
        [] s = "INDETERMINATE" -> {"SUBMITTED", "PARTIAL", "FILLED", "CANCELLED",
                                   "EXPIRED", "REJECTED"}
        [] OTHER               -> {} ]

\* The id was never written: orders_for() returns no row for it.
NoRow == [state |-> "NONE", size |-> 0, filled |-> 0, linked |-> FALSE]

\* The row new_order() builds: PENDING, nothing filled, no venue id yet.
NewOrder(size) == [state |-> "PENDING", size |-> size, filled |-> 0, linked |-> FALSE]

\* Mutant of Remaining: a replacement is built for the full size of the order.
RemainingIgnoringFills(row) == row.size

IsLive(row)     == row.state \in LiveStates
IsTerminal(row) == row.state \in TerminalStates
Remaining(row)  == row.size - row.filled

\* transition(): the row at `target`.  The code raises unless CanMove holds.
CanMove(row, target)    == target \in LegalTransitions[row.state]
Transition(row, target) == [row EXCEPT !.state = target]

\* apply_fill() with one unit: the count clamps at the size, and the state
\* follows the count whatever the row's state was.  It raises unless IsLive(row).
ApplyFill(row) ==
  LET filled == IF row.filled + 1 > row.size THEN row.size ELSE row.filled + 1
  IN  [row EXCEPT !.filled = filled,
                  !.state  = IF filled = row.size THEN "FILLED" ELSE "PARTIAL"]
==============================================================================
