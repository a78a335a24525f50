---------------------------- MODULE RepriceHistory ----------------------------
(***************************************************************************)
(* LimitOrders with two history variables: the passes each order has       *)
(* rested in since this process knows it, beside the count the repricer    *)
(* keeps per chain, and the orders the live venue last answered about with *)
(* an error that the code takes for a definite refusal.                    *)
(***************************************************************************)
EXTENDS LimitOrders

VARIABLES
  rested,    \* passes of the reprice loop that left the order resting, up to PreAttempts + 1
  refused    \* orders whose last placement or cancel got a refusal of the live venue

HistoryInit == Init /\ rested = [o \in Oids |-> 0] /\ refused = {}
HistoryNext ==
  /\ Next
  /\ rested' = [o \in Oids |->
                  IF pc' = "down" THEN 0
                  ELSE IF Repricing(o) /\ o \notin todo' /\ rested[o] <= PreAttempts
                    THEN rested[o] + 1 ELSE rested[o]]
  /\ refused' = IF Paper \/ call' = "none" THEN refused
                ELSE IF call' = "refused" THEN refused \union {cur'} ELSE refused \ {cur'}
HistorySpec == HistoryInit /\ [][HistoryNext]_<<vars, rested, refused>>

\* Every resting price gets its own set of passes before the order is moved: no
\* cancel of a reprice goes out for an order that has not been left alone in
\* PreAttempts passes since this process has known it.
EveryPriceTried ==
  [][pc = "reprice" /\ cur = None /\ cur' # None => rested[cur'] >= PreAttempts]_<<vars, rested, refused>>

\* A filled row is off the venue's book, and a cancelled or rejected one rests there only if
\* the last request about it was refused: no lost or late answer, no crash between the call
\* and the row, no fill and no recovery leaves an order behind that the books call closed.
ClosedUnlessRefused ==
  \A o \in resting :
    /\ orders[o].state # "FILLED"
    /\ orders[o].state \in {"CANCELLED", "REJECTED"} => o \in refused
===============================================================================
