------------------------------ MODULE MCReprice ------------------------------
(* RepriceHistory for TLC, with the fairness of the coroutine.              *)
EXTENDS MCLimitOrders, RepriceHistory

FairHistorySpec == HistorySpec /\ WF_vars(Recovery) /\ WF_vars(Loop)
==============================================================================
