---------------------------- MODULE MCLimitOrders ----------------------------
(***************************************************************************)
(* Instances of LimitOrders for TLC, and the properties that only its runs *)
(* check.                                                                  *)
(***************************************************************************)
EXTENDS LimitOrders, TLC

Interchangeable == Permutations(Slots)

------------------------------------------------------------------------------
\* The coroutine goes on by itself; when the venue, the clock or a crash act is
\* not up to it.
FairSpec == Spec /\ WF_vars(Recovery) /\ WF_vars(Loop)

\* The main loop never gets stuck inside a pass or inside recovery.
KeepsTurning == []<>(pc \in {"top", "down"})

\* A market that closes while the process holds it comes to rest nowhere.
CloseRetractsAll ==
  closed /\ phase = "ACTIVE" ~> pc = "down" \/ \A o \in Oids : o \notin resting
==============================================================================
