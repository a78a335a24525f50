----------------------------- MODULE SlotLedger ------------------------------
(***************************************************************************)
(* What the limit order engine promises about one approved size: a slot    *)
(* is worked by one order at a time, every order works exactly what is     *)
(* not yet booked, and a booked unit is never given back.  Repricing,      *)
(* sweeping, replay and recovery are all withdrawals and new orders here.  *)
(***************************************************************************)
EXTENDS Naturals

CONSTANTS Slots, Size

VARIABLES
  booked,    \* booked[s]: units in the fills table
  working    \* working[s]: units an order may still add to them

ledger == <<booked, working>>

Init == booked = [s \in Slots |-> 0] /\ working = [s \in Slots |-> 0]

\* An order goes out for everything that is left of the slot.
Work(s) ==
  /\ working[s] = 0
  /\ working' = [working EXCEPT ![s] = Size - booked[s]]
  /\ UNCHANGED booked

Book(s) ==
  /\ working[s] > 0
  /\ booked'  = [booked  EXCEPT ![s] = @ + 1]
  /\ working' = [working EXCEPT ![s] = @ - 1]

\* Orders leave the book: a cancel for one slot, a restart for all of them.
Withdraw(S) ==
  /\ working' = [s \in Slots |-> IF s \in S THEN 0 ELSE working[s]]
  /\ UNCHANGED booked

Next == \/ \E s \in Slots : Work(s) \/ Book(s)
        \/ \E S \in SUBSET Slots : Withdraw(S)

Spec == Init /\ [][Next]_ledger

\* Working never exceeds what was approved less what is already held.
WithinApproval == \A s \in Slots : booked[s] + working[s] <= Size
==============================================================================
