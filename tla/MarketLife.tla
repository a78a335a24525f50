----------------------------- MODULE MarketLife ------------------------------
(***************************************************************************)
(* What rotation and settlement promise about the markets of a run: they   *)
(* open in the order of their windows, close once, and are settled once,   *)
(* after they closed, on the one outcome decided for them.  Passes,        *)
(* requests, commits and restarts are not seen here.                       *)
(*                                                                         *)
(* The promise is one about a clock that goes forward.  From the moment    *)
(* the clock was set back (steady is FALSE) a market may be opened again   *)
(* and booked on something else; what was decided still stands.            *)
(***************************************************************************)
EXTENDS Naturals

CONSTANTS
  Markets,
  Outcomes, NoOutcome

VARIABLES
  steady,    \* the clock has never been set back
  life,      \* life[m]: unknown, open, closed or settled
  decided,   \* decided[m]: the outcome on record
  booked     \* booked[m]: what a settled market is shown to have ended on

market == <<life, decided, booked>>

Init ==
  /\ steady = TRUE
  /\ life = [m \in Markets |-> "unknown"]
  /\ decided = [m \in Markets |-> NoOutcome] /\ booked = [m \in Markets |-> NoOutcome]

Moves(m, from, to) == life[m] = from /\ life' = [life EXCEPT ![m] = to]

\* A market never opens after one that follows it.
Open(m) ==
  /\ Moves(m, "unknown", "open")
  /\ steady => \A n \in Markets : n > m => life[n] = "unknown"
  /\ UNCHANGED <<steady, decided, booked>>

Shut(m) == Moves(m, "open", "closed") /\ UNCHANGED <<steady, decided, booked>>

Writes(f, g, m) == g \in Outcomes \ {NoOutcome} /\ f' = [f EXCEPT ![m] = g]

Decide(m) ==
  /\ life[m] = "closed" /\ decided[m] = NoOutcome
  /\ Writes(decided, decided'[m], m)
  /\ UNCHANGED <<steady, life, booked>>

Settle(m) ==
  /\ Moves(m, "closed", "settled") /\ decided[m] # NoOutcome
  /\ Writes(booked, booked'[m], m)
  /\ steady => booked'[m] = decided[m]
  /\ UNCHANGED <<steady, decided>>

Reopen(m) ==
  /\ ~ steady
  /\ Moves(m, "closed", "open") \/ Moves(m, "settled", "open")
  /\ booked' = [booked EXCEPT ![m] = NoOutcome]
  /\ UNCHANGED <<steady, decided>>

Disturb == steady' = FALSE /\ UNCHANGED market

Next == \/ \E m \in Markets : Open(m) \/ Shut(m) \/ Decide(m) \/ Settle(m) \/ Reopen(m)
        \/ Disturb

Spec == Init /\ [][Next]_<<steady, market>>
==============================================================================
