------------------------------- MODULE OneShot -------------------------------
(***************************************************************************)
(* What a window of a market promises, whoever runs it and however often   *)
(* that process dies: its side is decided at most once, it is traded at    *)
(* most once, and what is traded is the side that was decided.             *)
(***************************************************************************)
CONSTANTS Windows, Sides

VARIABLES decided, traded      \* per window: a side, or "none"

shots == <<decided, traded>>

Undone == [w \in Windows |-> "none"]
Init == decided = Undone /\ traded = Undone

Decide(w, s) ==
  /\ decided[w] = "none"
  /\ decided' = [decided EXCEPT ![w] = s]
  /\ UNCHANGED traded

Trade(w) ==
  /\ decided[w] # "none" /\ traded[w] = "none"
  /\ traded' = [traded EXCEPT ![w] = decided[w]]
  /\ UNCHANGED decided

Next == \E w \in Windows : Trade(w) \/ \E s \in Sides : Decide(w, s)
Spec == Init /\ [][Next]_shots
==============================================================================
