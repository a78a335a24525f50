----------------------------- MODULE MCMajority ------------------------------
(* Instances of MajorityWindow, and what its documentation claims beyond it. *)
EXTENDS MajorityWindow

MCMode == [w \in 1 .. N |-> IF w = 1 THEN "DIRECT" ELSE "BTC_TRIGGER"]

\* MAJORITY always buys one side per market, never both.
OneSidePerMarket ==
  \A v, w \in Windows : order[v] # "none" /\ order[w] # "none" => order[v] = order[w]
==============================================================================
