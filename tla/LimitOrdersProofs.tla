-------------------------- MODULE LimitOrdersProofs --------------------------
(***************************************************************************)
(* Machine-checked proofs about LimitOrders, for every number of slots,    *)
(* every size, every bound on generations and both adapters.               *)
(*                                                                         *)
(* Soundness proves the inductive invariant IInv: TypeStep keeps the types,*)
(* BooksStep what rows and chains say of the venue, CallStep what the call *)
(* in hand is about, TodoStep the rows still to be visited, PendingStep    *)
(* where PENDING rows may be.  The safety theorems follow from it; those   *)
(* about what a step does to a row go through AllRowsStep.                 *)
(*                                                                         *)
(* The last two parts add what the fills table and an answer in hand say   *)
(* of an order (ClosedSound: OnlyRefusedRest) and the counts of the        *)
(* repricer beside the history of what rested (CountsSound:                *)
(* EveryMoveIsEarned).                                                     *)
(***************************************************************************)
EXTENDS RepriceHistory, TLAPS

------------------------------------------------------------------------------
(* What the operators on rows return *)

LEMMA TransitionRow ==
  ASSUME NEW r \in Row, NEW t \in OrderState
  PROVE  /\ Transition(r, t) \in Row
         /\ Transition(r, t).state = t
         /\ Transition(r, t).size = r.size
         /\ Transition(r, t).filled = r.filled
         /\ Transition(r, t).linked = r.linked
  BY DEF Transition, Row

LEMMA NewRow ==
  ASSUME NEW n \in 0 .. Size
  PROVE  /\ NewOrder(n) \in Row
         /\ NewOrder(n).state = "PENDING"
         /\ NewOrder(n).size = n
         /\ NewOrder(n).filled = 0
         /\ NewOrder(n).linked = FALSE
  BY SizeAssumption DEF NewOrder, Row, OrderState, LiveStates

LEMMA FilledRow ==
  ASSUME NEW r \in Row, r.filled <= r.size
  PROVE  /\ ApplyFill(r) \in Row
         /\ ApplyFill(r).state \in {"PARTIAL", "FILLED"}
         /\ ApplyFill(r).size = r.size
         /\ ApplyFill(r).filled <= r.size
         /\ ApplyFill(r).linked = r.linked
  <1> DEFINE f == IF r.filled + 1 > r.size THEN r.size ELSE r.filled + 1
             t == IF f = r.size THEN "FILLED" ELSE "PARTIAL"
  <1>1. f \in 0 .. Size /\ f <= r.size
    BY SizeAssumption DEF Row
  <1>2. t \in {"PARTIAL", "FILLED"} /\ t \in OrderState
    BY DEF OrderState, LiveStates, TerminalStates
  <1>3. ApplyFill(r) = [r EXCEPT !.filled = f, !.state = t]
    BY DEF ApplyFill
  <1> HIDE DEF f, t
  <1> QED BY <1>1, <1>2, <1>3 DEF Row

LEMMA CountedFill ==
  ASSUME NEW r \in Row, r.filled <= r.size
  PROVE  ApplyFill(r).filled <= r.filled + 1
  BY SizeAssumption DEF ApplyFill, Row

LEMMA AnsweredRow ==
  ASSUME NEW r \in Row
  PROVE  /\ Answered(r) \in Row
         /\ Answered(r).state = IF call = "ok" THEN "SUBMITTED"
                                ELSE IF call = "lost" THEN "INDETERMINATE" ELSE "REJECTED"
         /\ Answered(r).size = r.size
         /\ Answered(r).filled = r.filled
         /\ Answered(r).linked = (call = "ok" \/ r.linked)
  <1>1. CASE call = "ok"
    BY <1>1 DEF Answered, Row, OrderState, LiveStates
  <1>2. CASE call = "lost"
    BY <1>2, TransitionRow DEF Answered, OrderState, LiveStates, Row
  <1>3. CASE call # "ok" /\ call # "lost"
    BY <1>3, TransitionRow DEF Answered, OrderState, TerminalStates, Row
  <1> QED BY <1>1, <1>2, <1>3

LEMMA AdoptedRow ==
  ASSUME NEW o, orders[o] \in Row, executed[o] \in Nat
  PROVE  /\ Adopted(o) \in Row
         /\ Adopted(o).state \in {"SUBMITTED", "PARTIAL"}
         /\ Adopted(o).size = orders[o].size
         /\ Adopted(o).filled <= orders[o].size
         /\ Adopted(o).linked = orders[o].linked
  <1> DEFINE f == IF executed[o] > orders[o].size THEN orders[o].size ELSE executed[o]
             t == IF f > 0 THEN "PARTIAL" ELSE "SUBMITTED"
  <1>1. f \in 0 .. Size /\ f <= orders[o].size
    BY SizeAssumption DEF Row
  <1>2. t \in {"SUBMITTED", "PARTIAL"} /\ t \in OrderState
    BY DEF OrderState, LiveStates
  <1>3. Adopted(o) = [orders[o] EXCEPT !.filled = f, !.state = t]
    BY DEF Adopted
  <1> HIDE DEF f, t
  <1> QED BY <1>1, <1>2, <1>3 DEF Row

LEMMA VanishedRow ==
  ASSUME NEW o, orders[o] \in Row
  PROVE  /\ Vanished(o) \in Row
         /\ Vanished(o).state \in {"FILLED", "CANCELLED"}
         /\ Vanished(o).size = orders[o].size
         /\ Vanished(o).filled = orders[o].filled
         /\ Vanished(o).linked = orders[o].linked
  BY TransitionRow DEF Vanished, OrderState, TerminalStates

LEMMA SuccessorOid ==
  ASSUME NEW o \in Oids, o[2] < MaxRetries
  PROVE  Successor(o) \in Oids /\ Successor(o)[1] = o[1] /\ Successor(o)[2] = o[2] + 1
  BY BoundAssumption DEF Oids, Gens, Successor

LEMMA OidParts ==
  ASSUME NEW o \in Oids
  PROVE  o[1] \in Slots /\ o[2] \in 0 .. MaxRetries /\ o # None
  BY DEF Oids, Gens, None

LEMMA NoneNotOid == None \notin Oids
  BY DEF None, Oids, Gens


------------------------------------------------------------------------------
(* Type correctness *)

LEMMA TypeStep ==
  ASSUME TypeOK, RowsSound, CallSound, [Next]_vars
  PROVE  TypeOK'
  <1> USE DEF TypeOK, durable, venues, lost, world, memory

  <1>1. CASE Start
    BY <1>1, OidParts, NoneNotOid DEF Start
  <1>2. CASE ReconcileListed
    BY <1>2, OidParts, NoneNotOid DEF ReconcileListed, Unsettled
  <1>3. CASE ReconcileFailed
    BY <1>3, OidParts, NoneNotOid DEF ReconcileFailed
  <1>4. CASE ResolveDone
    BY <1>4, OidParts, NoneNotOid DEF ResolveDone
  <1>5. CASE SettleRecovered
    BY <1>5, OidParts, NoneNotOid DEF SettleRecovered
  <1>6. CASE Open
    BY <1>6, OidParts, NoneNotOid DEF Open
  <1>7. CASE Close
    BY <1>7, OidParts, NoneNotOid DEF Close, LiveRows
  <1>8. CASE Advance
    BY <1>8, OidParts, NoneNotOid DEF Advance
  <1>9. CASE Archive
    BY <1>9, OidParts, NoneNotOid DEF Archive
  <1>10. CASE SweepDone
    BY <1>10, OidParts, NoneNotOid DEF SweepDone
  <1>11. CASE CancelAccepted
    BY <1>11, OidParts, NoneNotOid DEF CancelAccepted, Cancelling, CallSound
  <1>12. CASE CancelRefused
    BY <1>12, OidParts, NoneNotOid DEF CancelRefused, Cancelling
  <1>13. CASE CancelLost \/ CancelErrored
    BY <1>13, OidParts, NoneNotOid DEF CancelLost, CancelErrored, Cancelling, CallSound
  <1>14. CASE CancelThrottled
    BY <1>14, OidParts, NoneNotOid DEF CancelThrottled, Cancelling
  <1>15. CASE SubmitLadder
    BY <1>15, BoundAssumption DEF SubmitLadder, Oids, Gens
  <1>16. CASE PlaceAccepted
    BY <1>16, OidParts, NoneNotOid DEF PlaceAccepted, Placing, CallSound
  <1>17. CASE PlaceRefused
    BY <1>17, OidParts, NoneNotOid DEF PlaceRefused, Placing
  <1>18. CASE PlaceLost \/ PlaceErrored
    BY <1>18, OidParts, NoneNotOid DEF PlaceLost, PlaceErrored, Placing, CallSound
  <1>19. CASE Poll
    BY <1>19, OidParts, NoneNotOid DEF Poll
  <1>20. CASE PollRaises
    BY <1>20, BoundAssumption DEF PollRaises
  <1>21. CASE FillRefused
    BY <1>21, BoundAssumption DEF FillRefused
  <1>22. CASE IngestDone
    BY <1>22, OidParts, NoneNotOid DEF IngestDone, LiveRows
  <1>23. CASE RepriceDone
    BY <1>23, OidParts, NoneNotOid DEF RepriceDone
  <1>24. CASE Crash
    BY <1>24, BoundAssumption DEF Crash
  <1>25. CASE ClockCloses
    BY <1>25, OidParts, NoneNotOid DEF ClockCloses
  <1>26. ASSUME NEW o \in Oids, Replayed(o) PROVE TypeOK'
    BY <1>26, OidParts, BoundAssumption DEF Replayed
  <1>27. ASSUME NEW o \in Oids, RecordFill(o) PROVE TypeOK'
    BY <1>27, OidParts, BoundAssumption DEF RecordFill
  <1>28. ASSUME NEW o \in Oids, LeaveAlone(o) PROVE TypeOK'
    BY <1>28, OidParts, BoundAssumption DEF LeaveAlone, Repricing
  <1>29. ASSUME NEW o \in Oids, KeepPrice(o) PROVE TypeOK'
    BY <1>29, OidParts, BoundAssumption DEF KeepPrice, Repricing, NextPass
  <1>30. ASSUME NEW o \in Oids, BeginMove(o) PROVE TypeOK'
    BY <1>30, OidParts, BoundAssumption DEF BeginMove, Repricing, NextPass
  <1>31. ASSUME NEW o \in Oids, VenueFill(o) PROVE TypeOK'
    BY <1>31, OidParts, BoundAssumption DEF VenueFill
  <1>32. ASSUME NEW o \in Oids, LatePlacement(o) PROVE TypeOK'
    BY <1>32, OidParts, BoundAssumption DEF LatePlacement
  <1>33. ASSUME NEW o \in Oids, LateCancel(o) PROVE TypeOK'
    BY <1>33, OidParts, BoundAssumption DEF LateCancel
  <1>34. CASE ExpirePending
    <2>1. ASSUME NEW o \in Oids, orders[o].state = "PENDING"
          PROVE  Transition(orders[o], "EXPIRED") \in Row
      BY TransitionRow DEF OrderState, TerminalStates
    <2>2. orders' \in [Oids -> Row]
      BY <1>34, <2>1 DEF ExpirePending
    <2> QED BY <1>34, <2>2 DEF ExpirePending
  <1>35. CASE SweepAnswered
    <2>1. cur \in Oids
      BY <1>35 DEF CallSound, SweepAnswered
    <2>2. PICK r \in Row : Save(cur, r)
      BY <1>35, <2>1, TransitionRow
         DEF SweepAnswered, SaveState, OrderState, LiveStates, TerminalStates
    <2>3. orders' \in [Oids -> Row]
      BY <2>1, <2>2 DEF Save
    <2> QED BY <1>35, <2>1, <2>3, NoneNotOid DEF SweepAnswered
  <1>36. CASE PlaceAnswered
    <2>1. cur \in Oids
      BY <1>36 DEF CallSound, PlaceAnswered
    <2>2. PICK r \in Row : Save(cur, r)
      BY <1>36, <2>1, AnsweredRow DEF PlaceAnswered
    <2>3. orders' \in [Oids -> Row]
      BY <2>1, <2>2 DEF Save
    <2> QED BY <1>36, <2>1, <2>3, NoneNotOid, OidParts, BoundAssumption DEF PlaceAnswered
  <1>37. CASE CountFill
    <2>1. cur \in Oids
      BY <1>37 DEF CallSound, CountFill
    <2>2. PICK r \in Row : Save(cur, r)
      BY <1>37, <2>1, FilledRow DEF CountFill, RowsSound
    <2>3. orders' \in [Oids -> Row]
      BY <2>1, <2>2 DEF Save
    <2> QED BY <1>37, <2>1, <2>3, NoneNotOid DEF CountFill
  <1>38. CASE MoveAbandoned
    <2>1. cur \in Oids
      BY <1>38 DEF CallSound, MoveAbandoned
    <2>2. PICK r \in Row : Save(cur, r)
      BY <1>38, <2>1, TransitionRow
         DEF MoveAbandoned, SaveState, Save, OrderState, LiveStates
    <2>3. orders' \in [Oids -> Row]
      BY <2>1, <2>2 DEF Save
    <2> QED BY <1>38, <2>1, <2>3, NoneNotOid DEF MoveAbandoned
  <1>39. CASE MoveCancelled
    <2>1. cur \in Oids
      BY <1>39 DEF CallSound, MoveCancelled
    <2>2. PICK r \in Row : Save(cur, r)
      BY <1>39, <2>1, TransitionRow
         DEF MoveCancelled, SaveState, OrderState, TerminalStates
    <2>3. orders' \in [Oids -> Row]
      BY <2>1, <2>2 DEF Save
    <2> QED BY <1>39, <2>1, <2>3, NoneNotOid DEF MoveCancelled
  <1>40. CASE SaveSuccessor
    <2>1. cur \in Oids /\ cur[2] < MaxRetries
      BY <1>40 DEF CallSound, SaveSuccessor
    <2>2. Remaining(orders[cur]) \in 0 .. Size
      BY <2>1, SizeAssumption DEF RowsSound, Remaining, Row
    <2>3. Successor(cur) \in Oids
      BY <2>1, SuccessorOid
    <2>4. orders' \in [Oids -> Row]
      BY <1>40, <2>2, <2>3, NewRow DEF SaveSuccessor, Save
    <2> QED BY <1>40, <2>3, <2>4 DEF SaveSuccessor
  <1>41. ASSUME NEW o \in Oids, Resolve(o) PROVE TypeOK'
    <2>1. PICK r \in Row : Save(o, r)
      BY <1>41, AdoptedRow, VanishedRow DEF Resolve
    <2>2. orders' \in [Oids -> Row]
      BY <2>1 DEF Save
    <2> QED BY <1>41, <2>2 DEF Resolve
  <1>42. ASSUME NEW o \in Oids, SweepNext(o) PROVE TypeOK'
    <2>1. Transition(orders[o], "EXPIRED") \in Row
      BY TransitionRow DEF OrderState, TerminalStates
    <2>2. orders' \in [Oids -> Row]
      BY <1>42, <2>1 DEF SweepNext, SaveState, Save
    <2> QED BY <1>42, <2>2 DEF SweepNext
  <1>43. ASSUME NEW o \in Oids, SavePending(o) PROVE TypeOK'
    <2>1. Size \in 0 .. Size
      BY SizeAssumption
    <2>2. NewOrder(Size) \in Row
      BY <2>1, NewRow
    <2>3. orders' \in [Oids -> Row]
      BY <1>43, <2>2 DEF SavePending, Save
    <2> QED BY <1>43, <2>3 DEF SavePending
  <1>44. CASE UNCHANGED vars
    BY <1>44 DEF vars
  <1> QED BY <1>1, <1>2, <1>3, <1>4, <1>5, <1>6, <1>7, <1>8, <1>9, <1>10, <1>11, <1>12,
          <1>13, <1>14, <1>15, <1>16, <1>17, <1>18, <1>19, <1>20, <1>21, <1>22, <1>23,
          <1>24, <1>25, <1>26, <1>27, <1>28, <1>29, <1>30, <1>31, <1>32, <1>33, <1>34,
          <1>35, <1>36, <1>37, <1>38, <1>39, <1>40, <1>41, <1>42, <1>43, <1>44
          DEF Next, Recovery, TopOfPass, Sweep, CancelAtVenue, Submit, PlaceAtVenue,
          Ingest,
              Reprice, Loop, World

------------------------------------------------------------------------------
(* What the books say of the venue: RowsSound, WireSound and ChainSound *)

BooksSound == RowsSound /\ WireSound /\ ChainSound

\* A step that changes no row and puts nothing on the book or on the wire.
Retreat == UNCHANGED <<orders, accepted, latePlaces>> /\ resting' \subseteq resting

\* A step that changes one row and nothing at the venue.
RowChange(o, r) == Save(o, r) /\ UNCHANGED <<accepted, resting, latePlaces>>

LEMMA RowSaved ==
  ASSUME orders \in [Oids -> Row], NEW o \in Oids, NEW r, Save(o, r)
  PROVE  orders'[o] = r /\ \A p \in Oids \ {o} : orders'[p] = orders[p]
  BY DEF Save

LEMMA RetreatKeeps ==
  ASSUME BooksSound, Retreat
  PROVE  BooksSound'
  <1>1. \A o : MayRest(o)' => MayRest(o)
    BY DEF Retreat, MayRest
  <1>2. RowsSound'
    BY <1>1 DEF BooksSound, RowsSound, Retreat
  <1>3. WireSound'
    BY DEF BooksSound, WireSound, Retreat
  <1>4. ChainSound'
    BY <1>1 DEF BooksSound, ChainSound, Retreat
  <1> QED BY <1>2, <1>3, <1>4 DEF BooksSound

LEMMA RowChangeKeeps ==
  ASSUME orders \in [Oids -> Row], BooksSound,
         NEW o \in Oids, NEW r \in Row, RowChange(o, r),
         orders[o].state # "NONE", r.state \notin {"NONE", "PENDING"}, r.filled <= r.size,
         orders[o].state = "CANCELLED" => r.state = "CANCELLED",
         r.state \in {"SUBMITTED", "PARTIAL"} \/ r.linked => o \notin latePlaces
  PROVE  BooksSound'
  <1>1. orders'[o] = r /\ \A p \in Oids \ {o} : orders'[p] = orders[p]
    BY RowSaved DEF RowChange
  <1>2. \A p : MayRest(p)' <=> MayRest(p)
    BY DEF RowChange, MayRest
  <1>3. RowsSound'
    BY <1>1, <1>2 DEF BooksSound, RowsSound, RowChange
  <1>4. WireSound'
    BY DEF BooksSound, WireSound, RowChange
  <1>5. \A p \in Oids : orders'[p].state # "NONE" => orders[p].state # "NONE"
    BY <1>1
  <1>6. \A p \in Oids : orders[p].state = "CANCELLED" => orders'[p].state = "CANCELLED"
    BY <1>1
  <1>7. ChainSound'
    BY <1>2, <1>5, <1>6 DEF BooksSound, ChainSound
  <1> QED BY <1>3, <1>4, <1>7 DEF BooksSound

\* A new row may stand behind an order only if that order is gone for good.
LEMMA NewRowKeeps ==
  ASSUME orders \in [Oids -> Row], BooksSound,
         NEW o \in Oids, NEW n \in 0 .. Size, RowChange(o, NewOrder(n)),
         orders[o].state = "NONE",
         \A p \in Oids : p[1] = o[1] /\ p[2] < o[2] =>
           orders[p].state = "CANCELLED" /\ ~ MayRest(p)
  PROVE  BooksSound'
  <1> DEFINE r == NewOrder(n)
  <1>0. r \in Row /\ r.state = "PENDING" /\ r.filled = 0 /\ r.size = n /\ ~ r.linked
    BY NewRow
  <1>1. r \in Row /\ r.state = "PENDING" /\ r.filled <= r.size /\ ~ r.linked
    BY <1>0, SizeAssumption
  <1>2. orders'[o] = r /\ \A p \in Oids \ {o} : orders'[p] = orders[p]
    BY RowSaved DEF RowChange
  <1> HIDE DEF r
  <1>3. \A p : MayRest(p)' <=> MayRest(p)
    BY DEF RowChange, MayRest
  <1>4. RowsSound'
    BY <1>1, <1>2, <1>3 DEF BooksSound, RowsSound, RowChange
  <1>5. WireSound'
    BY DEF BooksSound, WireSound, RowChange
  <1>6. ASSUME NEW p \in Oids, NEW q \in Oids, p[1] = q[1], p[2] < q[2],
               orders'[q].state # "NONE"
        PROVE  orders'[p].state = "CANCELLED" /\ ~ MayRest(p)'
    <2>1. orders[p].state = "CANCELLED" /\ ~ MayRest(p)
      BY <1>2, <1>6 DEF BooksSound, ChainSound
    <2> QED BY <1>2, <1>3, <2>1
  <1>7. ChainSound'
    BY <1>6 DEF ChainSound, MayRest
  <1> QED BY <1>4, <1>5, <1>7 DEF BooksSound

LEMMA BooksStep ==
  ASSUME IInv, [Next]_vars
  PROVE  BooksSound'
  <1> USE DEF durable, venues, lost, world, memory
  <1>0. TypeOK /\ orders \in [Oids -> Row] /\ BooksSound /\ CallSound /\ TodoSound
    BY DEF IInv, TypeOK, BooksSound
  <1>1. CASE ReconcileListed
    BY <1>1, <1>0, RetreatKeeps DEF Retreat, ReconcileListed
  <1>2. CASE ReconcileFailed
    BY <1>2, <1>0, RetreatKeeps DEF Retreat, ReconcileFailed
  <1>3. CASE ResolveDone
    BY <1>3, <1>0, RetreatKeeps DEF Retreat, ResolveDone
  <1>4. CASE SettleRecovered
    BY <1>4, <1>0, RetreatKeeps DEF Retreat, SettleRecovered
  <1>5. CASE Open
    BY <1>5, <1>0, RetreatKeeps DEF Retreat, Open
  <1>6. CASE Close
    BY <1>6, <1>0, RetreatKeeps DEF Retreat, Close
  <1>7. CASE Advance
    BY <1>7, <1>0, RetreatKeeps DEF Retreat, Advance
  <1>8. CASE Archive
    BY <1>8, <1>0, RetreatKeeps DEF Retreat, Archive
  <1>9. CASE SweepDone
    BY <1>9, <1>0, RetreatKeeps DEF Retreat, SweepDone
  <1>10. CASE CancelRefused
    BY <1>10, <1>0, RetreatKeeps DEF Retreat, CancelRefused
  <1>11. CASE CancelLost \/ CancelErrored
    BY <1>11, <1>0, RetreatKeeps DEF Retreat, CancelLost, CancelErrored
  <1>12. CASE CancelThrottled
    BY <1>12, <1>0, RetreatKeeps DEF Retreat, CancelThrottled
  <1>13. CASE SubmitLadder
    BY <1>13, <1>0, RetreatKeeps DEF Retreat, SubmitLadder
  <1>14. CASE PlaceRefused
    BY <1>14, <1>0, RetreatKeeps DEF Retreat, PlaceRefused
  <1>15. CASE Poll
    BY <1>15, <1>0, RetreatKeeps DEF Retreat, Poll
  <1>16. CASE PollRaises
    BY <1>16, <1>0, RetreatKeeps DEF Retreat, PollRaises
  <1>17. CASE FillRefused
    BY <1>17, <1>0, RetreatKeeps DEF Retreat, FillRefused
  <1>18. CASE IngestDone
    BY <1>18, <1>0, RetreatKeeps DEF Retreat, IngestDone
  <1>19. CASE RepriceDone
    BY <1>19, <1>0, RetreatKeeps DEF Retreat, RepriceDone
  <1>20. CASE Crash
    BY <1>20, <1>0, RetreatKeeps DEF Retreat, Crash
  <1>21. CASE ClockCloses
    BY <1>21, <1>0, RetreatKeeps DEF Retreat, ClockCloses
  <1>22. ASSUME NEW o \in Oids, Replayed(o) PROVE BooksSound'
    BY <1>22, <1>0, RetreatKeeps DEF Retreat, Replayed
  <1>23. ASSUME NEW o \in Oids, RecordFill(o) PROVE BooksSound'
    BY <1>23, <1>0, RetreatKeeps DEF Retreat, RecordFill
  <1>24. ASSUME NEW o \in Oids, LeaveAlone(o) PROVE BooksSound'
    BY <1>24, <1>0, RetreatKeeps DEF Retreat, LeaveAlone
  <1>25. ASSUME NEW o \in Oids, KeepPrice(o) PROVE BooksSound'
    BY <1>25, <1>0, RetreatKeeps DEF Retreat, KeepPrice
  <1>26. ASSUME NEW o \in Oids, BeginMove(o) PROVE BooksSound'
    BY <1>26, <1>0, RetreatKeeps DEF Retreat, BeginMove
  <1>27. CASE Start
    BY <1>27, <1>0, RetreatKeeps DEF Retreat, Start
  <1>28. CASE CancelAccepted
    BY <1>28, <1>0, RetreatKeeps DEF Retreat, CancelAccepted
  <1>29. ASSUME NEW o \in Oids, VenueFill(o) PROVE BooksSound'
    BY <1>29, <1>0, RetreatKeeps DEF Retreat, VenueFill
  <1>30. ASSUME NEW o \in Oids, LateCancel(o) PROVE BooksSound'
    BY <1>30, <1>0, RetreatKeeps DEF Retreat, LateCancel
  <1>31. CASE UNCHANGED vars
    BY <1>31, <1>0, RetreatKeeps DEF Retreat, vars
  <1>32. ASSUME NEW o \in Oids, LatePlacement(o) PROVE BooksSound'
    <2>1. /\ o \in latePlaces /\ latePlaces' = latePlaces \ {o}
          /\ resting' = resting \union {o}
          /\ accepted' = [accepted EXCEPT ![o] = accepted[o] + 1]
          /\ orders' = orders
      BY <1>32 DEF LatePlacement
    <2>2. \A p : MayRest(p)' <=> MayRest(p)
      BY <2>1 DEF MayRest
    <2>3. accepted[o] = 0 /\ ~ Paper /\ accepted \in [Oids -> Nat]
      BY <1>0, <2>1 DEF BooksSound, WireSound, TypeOK
    <2>4. accepted'[o] = 1 /\ \A p \in Oids \ {o} : accepted'[p] = accepted[p]
      BY <2>1, <2>3
    <2>5. orders[o].state # "NONE"
      BY <1>0, <2>1 DEF BooksSound, RowsSound, MayRest
    <2>6. RowsSound'
      BY <1>0, <2>1, <2>2, <2>4, <2>5 DEF BooksSound, RowsSound
    <2>7. WireSound'
      BY <1>0, <2>1, <2>4 DEF BooksSound, WireSound
    <2>8. ChainSound'
      BY <1>0, <2>1, <2>2 DEF BooksSound, ChainSound
    <2> QED BY <2>6, <2>7, <2>8 DEF BooksSound
  <1>33. CASE PlaceAccepted
    <2>1. /\ cur \in Oids /\ orders[cur].state = "PENDING"
          /\ accepted[cur] = 0 /\ cur \notin latePlaces
          /\ accepted \in [Oids -> Nat]
      BY <1>33, <1>0 DEF PlaceAccepted, Placing, CallSound, MayRest, TypeOK
    <2>2. /\ orders' = orders /\ latePlaces' = latePlaces
          /\ resting' = resting \union {cur}
          /\ accepted'[cur] = 1 /\ \A p \in Oids \ {cur} : accepted'[p] = accepted[p]
      BY <1>33, <2>1 DEF PlaceAccepted
    <2>3. \A p \in Oids \ {cur} : MayRest(p)' <=> MayRest(p)
      BY <2>2 DEF MayRest
    <2>4. RowsSound'
      BY <1>0, <2>1, <2>2, <2>3 DEF BooksSound, RowsSound
    <2>5. WireSound'
      BY <1>0, <2>1, <2>2 DEF BooksSound, WireSound
    <2>6. ChainSound'
      BY <1>0, <2>1, <2>2, <2>3 DEF BooksSound, ChainSound
    <2> QED BY <2>4, <2>5, <2>6 DEF BooksSound
  <1>34. CASE PlaceLost \/ PlaceErrored
    <2>1. /\ cur \in Oids /\ orders[cur].state = "PENDING" /\ ~ Paper
          /\ accepted[cur] = 0 /\ ~ MayRest(cur)
      BY <1>34, <1>0 DEF PlaceLost, PlaceErrored, Placing, CallSound
    <2>2. /\ orders' = orders /\ latePlaces' = latePlaces \union {cur}
          /\ resting' = resting /\ accepted' = accepted
      BY <1>34 DEF PlaceLost, PlaceErrored
    <2>3. \A p \in Oids \ {cur} : MayRest(p)' <=> MayRest(p)
      BY <2>2 DEF MayRest
    <2>4. ~ orders[cur].linked
      BY <1>0, <2>1 DEF BooksSound, RowsSound
    <2>5. RowsSound'
      BY <1>0, <2>1, <2>2, <2>3, <2>4 DEF BooksSound, RowsSound
    <2>6. WireSound'
      BY <1>0, <2>1, <2>2 DEF BooksSound, WireSound
    <2>7. ChainSound'
      BY <1>0, <2>1, <2>2, <2>3 DEF BooksSound, ChainSound
    <2> QED BY <2>5, <2>6, <2>7 DEF BooksSound
  <1>35. CASE ExpirePending
    <2>1. ASSUME NEW p \in Oids
          PROVE  /\ orders'[p] = orders[p]
                    \/ /\ orders[p].state = "PENDING" /\ orders'[p].state = "EXPIRED"
                       /\ orders'[p].size = orders[p].size
                       /\ orders'[p].filled = orders[p].filled
                       /\ orders'[p].linked = orders[p].linked
      <3>1. orders[p] \in Row
        BY <1>0
      <3>2. /\ Transition(orders[p], "EXPIRED").state = "EXPIRED"
            /\ Transition(orders[p], "EXPIRED").size = orders[p].size
            /\ Transition(orders[p], "EXPIRED").filled = orders[p].filled
            /\ Transition(orders[p], "EXPIRED").linked = orders[p].linked
        BY <3>1, TransitionRow DEF OrderState, TerminalStates
      <3> QED BY <1>35, <1>0, <3>2 DEF ExpirePending
    <2>2. UNCHANGED <<accepted, resting, latePlaces>> /\ \A p : MayRest(p)' <=> MayRest(p)
      BY <1>35 DEF ExpirePending, MayRest
    <2>3. RowsSound'
      BY <1>0, <2>1, <2>2 DEF BooksSound, RowsSound
    <2>4. WireSound'
      BY <1>0, <2>2 DEF BooksSound, WireSound
    <2>5. ChainSound'
      BY <1>0, <2>1, <2>2 DEF BooksSound, ChainSound
    <2> QED BY <2>3, <2>4, <2>5 DEF BooksSound
  <1>36. ASSUME NEW o \in Oids, Resolve(o) PROVE BooksSound'
    <2>1. /\ orders[o] \in Row /\ orders[o].filled <= orders[o].size
          /\ orders[o].state = "INDETERMINATE" /\ executed[o] \in Nat
      BY <1>36, <1>0 DEF Resolve, TodoSound, BooksSound, RowsSound, TypeOK
    <2>2. UNCHANGED <<accepted, resting, latePlaces>>
      BY <1>36 DEF Resolve
    <2>3. CASE Listed(o)
      <3> DEFINE r == Adopted(o)
      <3>1. r \in Row /\ r.state \in {"SUBMITTED", "PARTIAL"} /\ r.filled <= r.size
        BY <2>1, AdoptedRow
      <3>2. o \notin latePlaces
        BY <1>0, <2>3 DEF Listed, BooksSound, RowsSound, WireSound
      <3>3. RowChange(o, r)
        BY <1>36, <2>2, <2>3 DEF Resolve, RowChange
      <3> HIDE DEF r
      <3> QED BY <1>0, <2>1, <3>1, <3>2, <3>3, RowChangeKeeps
    <2>4. CASE ~ Listed(o)
      <3> DEFINE r == Vanished(o)
      <3>1. /\ r \in Row /\ r.state \in {"FILLED", "CANCELLED"} /\ r.filled <= r.size
            /\ r.linked = orders[o].linked
        BY <2>1, VanishedRow
      <3>2. r.linked => o \notin latePlaces
        BY <1>0, <3>1 DEF BooksSound, RowsSound
      <3>3. RowChange(o, r)
        BY <1>36, <2>2, <2>4 DEF Resolve, RowChange
      <3> HIDE DEF r
      <3> QED BY <1>0, <2>1, <3>1, <3>2, <3>3, RowChangeKeeps
    <2> QED BY <2>3, <2>4
  <1>37. CASE SweepAnswered
    <2> DEFINE r == Transition(orders[cur],
                 IF call \in {"ok", "refused"} THEN "CANCELLED" ELSE "INDETERMINATE")
    <2>1. cur \in Oids /\ orders[cur].state \in {"SUBMITTED", "PARTIAL", "INDETERMINATE"}
      BY <1>37, <1>0 DEF SweepAnswered, CallSound, LiveStates
    <2>2. orders[cur] \in Row /\ orders[cur].filled <= orders[cur].size
      BY <1>0, <2>1 DEF BooksSound, RowsSound
    <2>3. RowChange(cur, r)
      BY <1>37, <2>1 DEF SweepAnswered, RowChange, SaveState
    <2>4. /\ r \in Row /\ r.state \in {"CANCELLED", "INDETERMINATE"}
          /\ r.filled = orders[cur].filled /\ r.size = orders[cur].size
          /\ r.linked = orders[cur].linked
      BY <2>1, <2>2, TransitionRow DEF OrderState, LiveStates, TerminalStates
    <2>5. r.linked => cur \notin latePlaces
      BY <1>0, <2>1, <2>4 DEF BooksSound, RowsSound
    <2> HIDE DEF r
    <2> QED BY <1>0, <2>1, <2>2, <2>3, <2>4, <2>5, RowChangeKeeps
  <1>38. CASE MoveCancelled
    <2> DEFINE r == Transition(orders[cur], "CANCELLED")
    <2>1. cur \in Oids /\ orders[cur].state \in {"SUBMITTED", "PARTIAL"}
      BY <1>38, <1>0 DEF MoveCancelled, CallSound, Movable
    <2>2. orders[cur] \in Row /\ orders[cur].filled <= orders[cur].size
      BY <1>0, <2>1 DEF BooksSound, RowsSound
    <2>3. RowChange(cur, r)
      BY <1>38, <2>1 DEF MoveCancelled, RowChange, SaveState
    <2>4. /\ r \in Row /\ r.state = "CANCELLED"
          /\ r.filled = orders[cur].filled /\ r.size = orders[cur].size
          /\ r.linked = orders[cur].linked
      BY <2>1, <2>2, TransitionRow DEF OrderState, LiveStates, TerminalStates
    <2>5. r.linked => cur \notin latePlaces
      BY <1>0, <2>1, <2>4 DEF BooksSound, RowsSound
    <2> HIDE DEF r
    <2> QED BY <1>0, <2>1, <2>2, <2>3, <2>4, <2>5, RowChangeKeeps
  <1>39. CASE MoveAbandoned /\ call = "lost"
    <2> DEFINE r == Transition(orders[cur], "INDETERMINATE")
    <2>1. cur \in Oids /\ orders[cur].state \in {"SUBMITTED", "PARTIAL"} /\ call = "lost"
      BY <1>39, <1>0 DEF MoveAbandoned, CallSound, Movable
    <2>2. orders[cur] \in Row /\ orders[cur].filled <= orders[cur].size
      BY <1>0, <2>1 DEF BooksSound, RowsSound
    <2>3. RowChange(cur, r)
      BY <1>39, <2>1 DEF MoveAbandoned, RowChange, SaveState
    <2>4. /\ r \in Row /\ r.state = "INDETERMINATE"
          /\ r.filled = orders[cur].filled /\ r.size = orders[cur].size
          /\ r.linked = orders[cur].linked
      BY <2>1, <2>2, TransitionRow DEF OrderState, LiveStates, TerminalStates
    <2>5. r.linked => cur \notin latePlaces
      BY <1>0, <2>1, <2>4 DEF BooksSound, RowsSound
    <2> HIDE DEF r
    <2> QED BY <1>0, <2>1, <2>2, <2>3, <2>4, <2>5, RowChangeKeeps
  <1>40. CASE MoveAbandoned /\ call # "lost"
    BY <1>40, <1>0, RetreatKeeps DEF Retreat, MoveAbandoned
  <1>41. ASSUME NEW o \in Oids, SweepNext(o), orders[o].state = "PENDING" PROVE BooksSound'
    <2> DEFINE r == Transition(orders[o], "EXPIRED")
    <2>1. o \in Oids /\ orders[o].state = "PENDING"
      BY <1>41, <1>0 DEF SweepNext
    <2>2. orders[o] \in Row /\ orders[o].filled <= orders[o].size
      BY <1>0, <2>1 DEF BooksSound, RowsSound
    <2>3. RowChange(o, r)
      BY <1>41, <2>1 DEF SweepNext, RowChange, SaveState
    <2>4. /\ r \in Row /\ r.state = "EXPIRED"
          /\ r.filled = orders[o].filled /\ r.size = orders[o].size
          /\ r.linked = orders[o].linked
      BY <2>1, <2>2, TransitionRow DEF OrderState, LiveStates, TerminalStates
    <2>5. r.linked => o \notin latePlaces
      BY <1>0, <2>1, <2>4 DEF BooksSound, RowsSound
    <2> HIDE DEF r
    <2> QED BY <1>0, <2>1, <2>2, <2>3, <2>4, <2>5, RowChangeKeeps
  <1>42. ASSUME NEW o \in Oids, SweepNext(o), orders[o].state # "PENDING" PROVE BooksSound'
    BY <1>42, <1>0, RetreatKeeps DEF Retreat, SweepNext
  <1>43. CASE PlaceAnswered
    <2> DEFINE r == Answered(orders[cur])
    <2>1. /\ cur \in Oids /\ orders[cur].state = "PENDING"
          /\ call = "ok" => cur \notin latePlaces
      BY <1>43, <1>0 DEF PlaceAnswered, CallSound
    <2>2. /\ orders[cur] \in Row /\ orders[cur].filled <= orders[cur].size
          /\ ~ orders[cur].linked
      BY <1>0, <2>1 DEF BooksSound, RowsSound
    <2>3. RowChange(cur, r)
      BY <1>43 DEF PlaceAnswered, RowChange
    <2>4. /\ r \in Row /\ r.state \in {"SUBMITTED", "INDETERMINATE", "REJECTED"}
          /\ r.filled <= r.size
          /\ r.state = "SUBMITTED" \/ r.linked => call = "ok"
      BY <2>2, AnsweredRow
    <2> HIDE DEF r
    <2> QED BY <1>0, <2>1, <2>3, <2>4, RowChangeKeeps
  <1>44. CASE CountFill
    <2> DEFINE r == ApplyFill(orders[cur])
    <2>1. cur \in Oids /\ cur \notin latePlaces /\ orders[cur].state \in LiveStates
      BY <1>44, <1>0 DEF CountFill, CallSound, IsLive
    <2>2. orders[cur] \in Row /\ orders[cur].filled <= orders[cur].size
      BY <1>0, <2>1 DEF BooksSound, RowsSound
    <2>3. RowChange(cur, r)
      BY <1>44 DEF CountFill, RowChange
    <2>4. r \in Row /\ r.state \in {"PARTIAL", "FILLED"} /\ r.filled <= r.size
      BY <2>2, FilledRow
    <2>5. orders[cur].state \notin {"NONE", "CANCELLED"}
      BY <2>1 DEF LiveStates
    <2> HIDE DEF r
    <2> QED BY <1>0, <2>1, <2>3, <2>4, <2>5, RowChangeKeeps
  <1>45. CASE SaveSuccessor
    <2> DEFINE s == Successor(cur)
               n == Remaining(orders[cur])
    <2>1. /\ cur \in Oids /\ cur[2] < MaxRetries /\ orders[cur].state = "CANCELLED"
          /\ ~ MayRest(cur) /\ orders[s].state = "NONE"
      BY <1>45, <1>0 DEF SaveSuccessor, CallSound
    <2>2. s \in Oids /\ s[1] = cur[1] /\ s[2] = cur[2] + 1
      BY <2>1, SuccessorOid
    <2>3. n \in 0 .. Size
      BY <1>0, <2>1, SizeAssumption DEF BooksSound, RowsSound, Remaining, Row
    <2>4. RowChange(s, NewOrder(n))
      BY <1>45 DEF SaveSuccessor, RowChange
    <2> HIDE DEF s, n
    <2>5. ASSUME NEW p \in Oids, p[1] = s[1], p[2] < s[2]
          PROVE  orders[p].state = "CANCELLED" /\ ~ MayRest(p)
      <3>1. p[2] < cur[2] \/ p[2] = cur[2]
        BY <2>1, <2>2, <2>5, OidParts
      <3>2. CASE p[2] < cur[2]
        BY <1>0, <2>1, <2>2, <2>5, <3>2 DEF BooksSound, ChainSound
      <3>3. CASE p[2] = cur[2]
        <4>1. p = cur
          BY <2>1, <2>2, <2>5, <3>3 DEF Oids
        <4> QED BY <2>1, <4>1
      <3> QED BY <3>1, <3>2, <3>3
    <2> QED BY <1>0, <2>1, <2>2, <2>3, <2>4, <2>5, NewRowKeeps
  <1>46. ASSUME NEW o \in Oids, SavePending(o) PROVE BooksSound'
    <2>1. o[2] = 0 /\ orders[o].state = "NONE"
      BY <1>46, <1>0 DEF SavePending, TodoSound, NoRow
    <2>2. RowChange(o, NewOrder(Size))
      BY <1>46 DEF SavePending, RowChange
    <2>3. \A p \in Oids : ~ (p[2] < o[2])
      BY <2>1, OidParts
    <2>4. Size \in 0 .. Size
      BY SizeAssumption
    <2> QED BY <1>0, <2>1, <2>2, <2>3, <2>4, NewRowKeeps
  <1> QED BY <1>1, <1>2, <1>3, <1>4, <1>5, <1>6, <1>7, <1>8, <1>9, <1>10, <1>11, <1>12,
          <1>13, <1>14, <1>15, <1>16, <1>17, <1>18, <1>19, <1>20, <1>21, <1>22, <1>23,
          <1>24, <1>25, <1>26, <1>27, <1>28, <1>29, <1>30, <1>31, <1>32, <1>33, <1>34,
          <1>35, <1>36, <1>37, <1>38, <1>39, <1>40, <1>41, <1>42, <1>43, <1>44, <1>45,
          <1>46
          DEF Next, Recovery, TopOfPass, Sweep, CancelAtVenue, Submit, PlaceAtVenue,
          Ingest,
              Reprice, Loop, World

------------------------------------------------------------------------------
(* The order a call is about: CallSound *)

Busy == {"place", "replace", "reprice", "sweep", "apply"}

\* Where no order is in hand there is nothing to say.
LEMMA IdleCall ==
  ASSUME pc' \notin Busy \/ pc' \in {"reprice", "sweep"}, cur' = None
  PROVE  CallSound'
  BY DEF Busy, CallSound

\* A step beside the call in hand.
LEMMA CallKept ==
  ASSUME CallSound, UNCHANGED <<orders, pc, cur, call>>, todo' \subseteq todo,
         UNCHANGED accepted, resting' \subseteq resting, latePlaces' \subseteq latePlaces
  PROVE  CallSound'
  <1>1. \A o : MayRest(o)' => MayRest(o)
    BY DEF MayRest
  <1>2. \A o : Movable(o)' <=> Movable(o)
    BY DEF Movable
  <1>3. (pc = "place" => CallSound') /\ (pc = "replace" => CallSound')
    BY <1>1 DEF CallSound, Successor
  <1>4. (pc = "reprice" => CallSound') /\ (pc \in {"sweep", "apply"} => CallSound')
    BY <1>2 DEF CallSound
  <1>5. pc \notin Busy => CallSound'
    BY DEF CallSound, Busy
  <1> QED BY <1>3, <1>4, <1>5 DEF Busy

LEMMA CallStep ==
  ASSUME IInv, [Next]_vars
  PROVE  CallSound'
  <1> USE DEF durable, venues, lost, world, memory
  <1>0. TypeOK /\ orders \in [Oids -> Row] /\ BooksSound /\ CallSound /\ TodoSound /\ PendingSound
    BY DEF IInv, TypeOK, BooksSound
  <1>1. CASE ReconcileListed
    BY <1>1, <1>0, IdleCall DEF ReconcileListed, CallSound, Busy
  <1>2. CASE ReconcileFailed
    BY <1>2, <1>0, IdleCall DEF ReconcileFailed, CallSound, Busy
  <1>3. CASE ResolveDone
    BY <1>3, <1>0, IdleCall DEF ResolveDone, CallSound, Busy
  <1>4. CASE ExpirePending
    BY <1>4, <1>0, IdleCall DEF ExpirePending, CallSound, Busy
  <1>5. CASE SettleRecovered
    BY <1>5, <1>0, IdleCall DEF SettleRecovered, CallSound, Busy
  <1>6. CASE Start
    BY <1>6, <1>0, IdleCall DEF Start, CallSound, Busy
  <1>7. CASE Open
    BY <1>7, <1>0, IdleCall DEF Open, CallSound, Busy
  <1>8. CASE Close
    BY <1>8, <1>0, IdleCall DEF Close, CallSound, Busy
  <1>9. CASE Advance
    BY <1>9, <1>0, IdleCall DEF Advance, CallSound, Busy
  <1>10. CASE Archive
    BY <1>10, <1>0, IdleCall DEF Archive, CallSound, Busy
  <1>11. CASE SweepDone
    BY <1>11, <1>0, IdleCall DEF SweepDone, CallSound, Busy
  <1>12. CASE SubmitLadder
    BY <1>12, <1>0, IdleCall DEF SubmitLadder, CallSound, Busy
  <1>13. CASE Poll
    BY <1>13, <1>0, IdleCall DEF Poll, CallSound, Busy
  <1>14. CASE IngestDone
    BY <1>14, <1>0, IdleCall DEF IngestDone, CallSound, Busy
  <1>15. CASE RepriceDone
    BY <1>15, <1>0, IdleCall DEF RepriceDone, CallSound, Busy
  <1>16. CASE PollRaises
    BY <1>16, IdleCall DEF PollRaises, Busy
  <1>17. CASE FillRefused
    BY <1>17, IdleCall DEF FillRefused, Busy
  <1>18. CASE Crash
    BY <1>18, IdleCall DEF Crash, Busy
  <1>19. CASE SweepAnswered
    BY <1>19, IdleCall DEF SweepAnswered, Busy
  <1>20. CASE MoveAbandoned
    BY <1>20, IdleCall DEF MoveAbandoned, Busy
  <1>21. CASE PlaceAnswered
    BY <1>21, IdleCall DEF PlaceAnswered, Busy
  <1>22. CASE CountFill
    BY <1>22, IdleCall DEF CountFill, Busy
  <1>23. ASSUME NEW o \in Oids, Resolve(o) PROVE CallSound'
    BY <1>23, <1>0, IdleCall DEF Resolve, CallSound, Busy
  <1>24. ASSUME NEW o \in Oids, Replayed(o) PROVE CallSound'
    BY <1>24, <1>0, IdleCall DEF Replayed, CallSound, Busy
  <1>25. ASSUME NEW o \in Oids, LeaveAlone(o) PROVE CallSound'
    BY <1>25, <1>0, CallKept DEF LeaveAlone
  <1>26. ASSUME NEW o \in Oids, KeepPrice(o) PROVE CallSound'
    BY <1>26, <1>0, CallKept DEF KeepPrice
  <1>27. CASE ClockCloses
    BY <1>27, <1>0, CallKept DEF ClockCloses
  <1>28. ASSUME NEW o \in Oids, VenueFill(o) PROVE CallSound'
    BY <1>28, <1>0, CallKept DEF VenueFill
  <1>29. ASSUME NEW o \in Oids, LateCancel(o) PROVE CallSound'
    BY <1>29, <1>0, CallKept DEF LateCancel
  <1>30. CASE UNCHANGED vars
    BY <1>30, <1>0, CallKept DEF vars
  <1>31. ASSUME NEW o \in Oids, LatePlacement(o) PROVE CallSound'
    <2>1. /\ o \in latePlaces /\ latePlaces' = latePlaces \ {o}
          /\ resting' = resting \union {o}
          /\ accepted' = [accepted EXCEPT ![o] = accepted[o] + 1]
          /\ UNCHANGED <<orders, pc, cur, call, todo>>
      BY <1>31 DEF LatePlacement
    <2>2. \A p : (MayRest(p)' <=> MayRest(p)) /\ (Movable(p)' <=> Movable(p))
      BY <2>1 DEF MayRest, Movable
    <2>3. CASE pc = "place"
      <3>1. call = "none" => cur # o
        BY <1>0, <2>1, <2>3 DEF CallSound, MayRest
      <3> QED BY <1>0, <2>1, <2>2, <2>3, <3>1 DEF CallSound, TypeOK
    <2>4. CASE pc = "reprice" /\ cur # None
      <3>1. cur # o
        BY <1>0, <2>1, <2>4 DEF CallSound, Movable, BooksSound, RowsSound
      <3> QED BY <1>0, <2>1, <2>2, <2>4, <3>1 DEF CallSound
    <2>5. CASE pc = "replace"
      BY <1>0, <2>1, <2>2, <2>5 DEF CallSound, Successor
    <2>6. CASE pc \notin {"place", "replace", "reprice"} \/ (pc = "reprice" /\ cur = None)
      BY <1>0, <2>1, <2>6 DEF CallSound
    <2> QED BY <2>3, <2>4, <2>5, <2>6
  <1>32. CASE CancelRefused
    BY <1>32, <1>0 DEF CancelRefused, Cancelling, CallSound, Movable
  <1>33. CASE CancelLost \/ CancelErrored
    BY <1>33, <1>0 DEF CancelLost, CancelErrored, Cancelling, CallSound, Movable
  <1>34. CASE CancelThrottled
    BY <1>34, <1>0 DEF CancelThrottled, Cancelling, CallSound, Movable
  <1>35. CASE CancelAccepted
    <2>1. /\ pc \in {"sweep", "reprice"} /\ cur # None /\ resting' = resting \ {cur}
          /\ UNCHANGED <<orders, pc, cur, todo>>
      BY <1>35 DEF CancelAccepted, Cancelling
    <2> QED BY <1>0, <2>1 DEF CallSound, Movable
  <1>36. CASE PlaceAccepted
    BY <1>36, <1>0 DEF PlaceAccepted, Placing, CallSound, MayRest
  <1>37. CASE PlaceRefused
    BY <1>37, <1>0 DEF PlaceRefused, Placing, CallSound, MayRest
  <1>38. CASE PlaceLost \/ PlaceErrored
    BY <1>38, <1>0 DEF PlaceLost, PlaceErrored, Placing, CallSound, MayRest
  <1>39. ASSUME NEW o \in Oids, SweepNext(o) PROVE CallSound'
    <2>1. /\ pc = "sweep" /\ pc' = "sweep" /\ cur = None /\ o \in todo /\ todo' = todo \ {o}
          /\ orders[o].state \in LiveStates
      BY <1>39, <1>0 DEF SweepNext, TodoSound, LiveRows, IsLive
    <2>2. cur' = None \/ (cur' = o /\ orders' = orders /\ orders[o].state # "PENDING")
      BY <1>39, <2>1 DEF SweepNext
    <2> QED BY <2>1, <2>2 DEF CallSound
  <1>40. ASSUME NEW o \in Oids, SavePending(o) PROVE CallSound'
    <2>1. /\ pc' = "place" /\ cur' = o /\ o[2] = 0 /\ call' = "none"
          /\ orders[o].state = "NONE" /\ UNCHANGED <<accepted, resting, latePlaces>>
      BY <1>40, <1>0 DEF SavePending, TodoSound, NoRow
    <2>2. accepted[o] = 0 /\ ~ MayRest(o)
      BY <1>0, <2>1 DEF BooksSound, RowsSound
    <2>4. NewOrder(Size).state = "PENDING"
      BY DEF NewOrder
    <2>5. orders'[o].state = "PENDING"
      BY <1>40, <1>0, <2>4, RowSaved DEF SavePending
    <2> QED BY <2>1, <2>2, <2>5 DEF CallSound, MayRest
  <1>41. CASE SaveSuccessor
    <2> DEFINE s == Successor(cur)
               n == Remaining(orders[cur])
    <2>1. /\ cur \in Oids /\ cur[2] < MaxRetries /\ orders[s].state = "NONE"
          /\ todo \subseteq LiveRows
      BY <1>41, <1>0 DEF SaveSuccessor, CallSound, TodoSound
    <2>2. s \in Oids
      BY <2>1, SuccessorOid
    <2>3. n \in 0 .. Size
      BY <1>0, <2>1, SizeAssumption DEF BooksSound, RowsSound, Remaining, Row
    <2>4. /\ pc' = "place" /\ cur' = s /\ call' = "none" /\ todo' = todo
          /\ Save(s, NewOrder(n)) /\ UNCHANGED <<accepted, resting, latePlaces>>
      BY <1>41 DEF SaveSuccessor
    <2> HIDE DEF s, n
    <2>5. accepted[s] = 0 /\ ~ MayRest(s) /\ s \notin todo
      BY <1>0, <2>1, <2>2 DEF BooksSound, RowsSound, LiveRows, IsLive, LiveStates
    <2>6. orders'[s].state = "PENDING"
      <3>1. NewOrder(n).state = "PENDING"
        BY DEF NewOrder
      <3> QED BY <1>0, <2>2, <2>4, <3>1, RowSaved
    <2> QED BY <2>2, <2>4, <2>5, <2>6 DEF CallSound, MayRest
  <1>42. CASE MoveCancelled
    <2> DEFINE s == Successor(cur)
    <2>1. /\ pc' = "replace" /\ cur' = cur /\ todo' = todo /\ cur \in Oids \ todo
          /\ Movable(cur) /\ cur \notin resting
          /\ Save(cur, Transition(orders[cur], "CANCELLED"))
          /\ UNCHANGED <<accepted, resting, latePlaces>>
      BY <1>42, <1>0 DEF MoveCancelled, SaveState, CallSound
    <2>2. s \in Oids /\ s[1] = cur[1] /\ s[2] = cur[2] + 1 /\ cur[2] \in 0 .. MaxRetries
      BY <2>1, SuccessorOid, OidParts DEF Movable
    <2>3. orders[cur].state \in {"SUBMITTED", "PARTIAL"} /\ orders[cur] \in Row
      BY <1>0, <2>1 DEF Movable
    <2> HIDE DEF s
    <2>4. ~ MayRest(cur)
      BY <1>0, <2>1, <2>3 DEF MayRest, BooksSound, RowsSound
    <2>5. orders[s].state = "NONE"
      BY <1>0, <2>1, <2>2, <2>3 DEF BooksSound, ChainSound
    <2>6. s # cur
      BY <2>2
    <2>7. orders'[cur].state = "CANCELLED" /\ orders'[s].state = "NONE"
      <3>1. Transition(orders[cur], "CANCELLED").state = "CANCELLED"
        BY <2>3, TransitionRow DEF OrderState, TerminalStates
      <3> QED BY <1>0, <2>1, <2>2, <2>5, <2>6, <3>1, RowSaved
    <2>8. cur[2] < MaxRetries
      BY <2>1 DEF Movable
    <2> QED BY <2>1, <2>4, <2>7, <2>8 DEF CallSound, MayRest, s
  <1>43. ASSUME NEW o \in Oids, RecordFill(o) PROVE CallSound'
    <2>1. o \notin latePlaces
      <3>1. Paper \/ orders[o].linked
        BY <1>43, <1>0 DEF RecordFill, Unrecorded, Reported, TypeOK
      <3> QED BY <1>0, <3>1 DEF BooksSound, RowsSound, WireSound
    <2> QED BY <1>43, <2>1 DEF RecordFill, CallSound
  <1>44. ASSUME NEW o \in Oids, BeginMove(o) PROVE CallSound'
    BY <1>44, <1>0 DEF BeginMove, Repricing, CallSound, Movable
  <1> QED BY <1>1, <1>2, <1>3, <1>4, <1>5, <1>6, <1>7, <1>8, <1>9, <1>10, <1>11, <1>12,
          <1>13, <1>14, <1>15, <1>16, <1>17, <1>18, <1>19, <1>20, <1>21, <1>22, <1>23,
          <1>24, <1>25, <1>26, <1>27, <1>28, <1>29, <1>30, <1>31, <1>32, <1>33, <1>34,
          <1>35, <1>36, <1>37, <1>38, <1>39, <1>40, <1>41, <1>42, <1>43, <1>44
          DEF Next, Recovery, TopOfPass, Sweep, CancelAtVenue, Submit, PlaceAtVenue,
          Ingest,
              Reprice, Loop, World

------------------------------------------------------------------------------
(* The rows still to be visited: TodoSound *)

LEMMA TodoStep ==
  ASSUME IInv, [Next]_vars
  PROVE  TodoSound'
  <1> USE DEF durable, venues, lost, world, memory
  <1>0. TypeOK /\ orders \in [Oids -> Row] /\ BooksSound /\ CallSound /\ TodoSound /\ PendingSound
    BY DEF IInv, TypeOK, BooksSound
  <1>1. UNCHANGED orders => UNCHANGED LiveRows
    BY DEF LiveRows, IsLive
  <1>2. CASE ReconcileListed
    BY <1>2 DEF ReconcileListed, TodoSound
  <1>3. CASE ReconcileFailed
    BY <1>3 DEF ReconcileFailed, TodoSound
  <1>4. CASE ResolveDone
    BY <1>4 DEF ResolveDone, TodoSound
  <1>5. CASE ExpirePending
    BY <1>5 DEF ExpirePending, TodoSound
  <1>6. CASE SettleRecovered
    BY <1>6 DEF SettleRecovered, TodoSound
  <1>7. CASE Start
    BY <1>7 DEF Start, TodoSound
  <1>8. CASE Open
    BY <1>8 DEF Open, TodoSound
  <1>9. CASE Advance
    BY <1>9 DEF Advance, TodoSound
  <1>10. CASE Archive
    BY <1>10 DEF Archive, TodoSound
  <1>11. CASE SweepDone
    BY <1>11 DEF SweepDone, TodoSound
  <1>12. CASE Poll
    BY <1>12 DEF Poll, TodoSound
  <1>13. CASE RepriceDone
    BY <1>13 DEF RepriceDone, TodoSound
  <1>14. CASE PollRaises
    BY <1>14 DEF PollRaises, TodoSound
  <1>15. CASE FillRefused
    BY <1>15 DEF FillRefused, TodoSound
  <1>16. CASE Crash
    BY <1>16 DEF Crash, TodoSound
  <1>17. CASE CountFill
    BY <1>17 DEF CountFill, TodoSound
  <1>18. ASSUME NEW o \in Oids, RecordFill(o) PROVE TodoSound'
    BY <1>18 DEF RecordFill, TodoSound
  <1>19. CASE SubmitLadder
    BY <1>19 DEF SubmitLadder, TodoSound
  <1>20. CASE Close
    BY <1>20, <1>1 DEF Close, TodoSound
  <1>21. CASE IngestDone
    BY <1>21, <1>1 DEF IngestDone, TodoSound
  <1>22. CASE ClockCloses
    BY <1>22, <1>0, <1>1 DEF ClockCloses, TodoSound
  <1>23. CASE CancelAccepted
    BY <1>23, <1>0, <1>1 DEF CancelAccepted, TodoSound
  <1>24. CASE CancelRefused
    BY <1>24, <1>0, <1>1 DEF CancelRefused, TodoSound
  <1>25. CASE CancelLost \/ CancelErrored
    BY <1>25, <1>0, <1>1 DEF CancelLost, CancelErrored, TodoSound
  <1>26. CASE CancelThrottled
    BY <1>26, <1>0, <1>1 DEF CancelThrottled, TodoSound
  <1>27. CASE PlaceAccepted
    BY <1>27, <1>0, <1>1 DEF PlaceAccepted, TodoSound
  <1>28. CASE PlaceRefused
    BY <1>28, <1>0, <1>1 DEF PlaceRefused, TodoSound
  <1>29. CASE PlaceLost \/ PlaceErrored
    BY <1>29, <1>0, <1>1 DEF PlaceLost, PlaceErrored, TodoSound
  <1>30. CASE UNCHANGED vars
    BY <1>30, <1>0, <1>1 DEF vars, TodoSound
  <1>31. ASSUME NEW o \in Oids, VenueFill(o) PROVE TodoSound'
    BY <1>31, <1>0, <1>1 DEF VenueFill, TodoSound
  <1>32. ASSUME NEW o \in Oids, LatePlacement(o) PROVE TodoSound'
    BY <1>32, <1>0, <1>1 DEF LatePlacement, TodoSound
  <1>33. ASSUME NEW o \in Oids, LateCancel(o) PROVE TodoSound'
    BY <1>33, <1>0, <1>1 DEF LateCancel, TodoSound
  <1>34. ASSUME NEW o \in Oids, LeaveAlone(o) PROVE TodoSound'
    BY <1>34, <1>0, <1>1 DEF LeaveAlone, Repricing, TodoSound
  <1>35. ASSUME NEW o \in Oids, KeepPrice(o) PROVE TodoSound'
    BY <1>35, <1>0, <1>1 DEF KeepPrice, Repricing, TodoSound
  <1>36. ASSUME NEW o \in Oids, BeginMove(o) PROVE TodoSound'
    BY <1>36, <1>0, <1>1 DEF BeginMove, Repricing, TodoSound
  <1>37. ASSUME NEW o \in Oids, Replayed(o) PROVE TodoSound'
    BY <1>37, <1>0 DEF Replayed, TodoSound
  <1>38. ASSUME NEW o \in Oids, SavePending(o) PROVE TodoSound'
    BY <1>38, <1>0, OidParts DEF SavePending, TodoSound
  <1>39. ASSUME NEW o \in Oids, Resolve(o) PROVE TodoSound'
    <2>1. \A p \in todo' : p # o /\ p \in todo
      BY <1>39 DEF Resolve
    <2>2. \A p \in Oids \ {o} : orders'[p] = orders[p]
      BY <1>39, <1>0, RowSaved DEF Resolve
    <2>3. pc = "resolve" /\ pc' = "resolve" /\ todo \subseteq Oids
      BY <1>39, <1>0 DEF Resolve, TypeOK
    <2> QED BY <1>0, <2>1, <2>2, <2>3 DEF TodoSound
  <1>40. CASE SweepAnswered
    <2>1. /\ cur \in Oids /\ cur \notin todo' /\ todo' \subseteq todo /\ todo \subseteq LiveRows
          /\ pc' = "sweep"
      BY <1>40, <1>0 DEF SweepAnswered, CallSound, TodoSound
    <2>2. \A p \in Oids \ {cur} : orders'[p] = orders[p]
      BY <1>40, <1>0, <2>1, RowSaved DEF SweepAnswered, SaveState
    <2>3. todo' \subseteq LiveRows'
      BY <2>1, <2>2 DEF LiveRows, IsLive
    <2> QED BY <2>1, <2>3 DEF TodoSound
  <1>41. CASE MoveCancelled
    <2>1. /\ cur \in Oids /\ cur \notin todo' /\ todo' \subseteq todo /\ todo \subseteq LiveRows
          /\ pc' = "replace"
      BY <1>41, <1>0 DEF MoveCancelled, CallSound, TodoSound
    <2>2. \A p \in Oids \ {cur} : orders'[p] = orders[p]
      BY <1>41, <1>0, <2>1, RowSaved DEF MoveCancelled, SaveState
    <2>3. todo' \subseteq LiveRows'
      BY <2>1, <2>2 DEF LiveRows, IsLive
    <2> QED BY <2>1, <2>3 DEF TodoSound
  <1>42. CASE MoveAbandoned /\ call = "lost"
    <2>1. /\ cur \in Oids /\ cur \notin todo' /\ todo' \subseteq todo /\ todo \subseteq LiveRows
          /\ pc' = "reprice"
      BY <1>42, <1>0 DEF MoveAbandoned, CallSound, TodoSound
    <2>2. \A p \in Oids \ {cur} : orders'[p] = orders[p]
      BY <1>42, <1>0, <2>1, RowSaved DEF MoveAbandoned, SaveState
    <2>3. todo' \subseteq LiveRows'
      BY <2>1, <2>2 DEF LiveRows, IsLive
    <2> QED BY <2>1, <2>3 DEF TodoSound
  <1>43. CASE MoveAbandoned /\ call # "lost"
    BY <1>43, <1>0, <1>1 DEF MoveAbandoned, TodoSound
  <1>44. CASE PlaceAnswered /\ cur[2] > 0
    <2>1. /\ cur \in Oids /\ cur \notin todo' /\ todo' \subseteq todo /\ todo \subseteq LiveRows
          /\ pc' = "reprice"
      BY <1>44, <1>0 DEF PlaceAnswered, CallSound, TodoSound
    <2>2. \A p \in Oids \ {cur} : orders'[p] = orders[p]
      BY <1>44, <1>0, <2>1, RowSaved DEF PlaceAnswered, SaveState
    <2>3. todo' \subseteq LiveRows'
      BY <2>1, <2>2 DEF LiveRows, IsLive
    <2> QED BY <2>1, <2>3 DEF TodoSound
  <1>45. CASE PlaceAnswered /\ ~ (cur[2] > 0)
    <2>1. cur[2] = 0 /\ pc = "place"
      BY <1>45, <1>0, OidParts DEF PlaceAnswered, CallSound
    <2> QED BY <1>45, <1>0, <2>1 DEF PlaceAnswered, TodoSound
  <1>46. ASSUME NEW o \in Oids, SweepNext(o), orders[o].state = "PENDING" PROVE TodoSound'
    <2>1. /\ o \in Oids /\ o \notin todo' /\ todo' \subseteq todo /\ todo \subseteq LiveRows
          /\ pc' = "sweep"
      BY <1>46, <1>0 DEF SweepNext, CallSound, TodoSound
    <2>2. \A p \in Oids \ {o} : orders'[p] = orders[p]
      BY <1>46, <1>0, <2>1, RowSaved DEF SweepNext, SaveState
    <2>3. todo' \subseteq LiveRows'
      BY <2>1, <2>2 DEF LiveRows, IsLive
    <2> QED BY <2>1, <2>3 DEF TodoSound
  <1>47. ASSUME NEW o \in Oids, SweepNext(o), orders[o].state # "PENDING" PROVE TodoSound'
    BY <1>47, <1>0, <1>1 DEF SweepNext, TodoSound
  <1>48. CASE SaveSuccessor
    <2> DEFINE s == Successor(cur)
    <2>1. /\ cur \in Oids /\ cur[2] < MaxRetries /\ orders[s].state = "NONE"
          /\ todo \subseteq LiveRows
      BY <1>48, <1>0 DEF SaveSuccessor, CallSound, TodoSound
    <2>2. s \in Oids /\ s[2] = cur[2] + 1 /\ cur[2] \in 0 .. MaxRetries
      BY <2>1, SuccessorOid, OidParts
    <2>3. /\ pc' = "place" /\ cur' = s /\ todo' = todo /\ Save(s, NewOrder(Remaining(orders[cur])))
      BY <1>48 DEF SaveSuccessor
    <2> HIDE DEF s
    <2>4. s \notin todo
      BY <2>1, <2>2 DEF LiveRows, IsLive, LiveStates
    <2>5. \A p \in Oids \ {s} : orders'[p] = orders[p]
      BY <1>0, <2>2, <2>3, RowSaved
    <2>6. todo' \subseteq LiveRows'
      BY <2>1, <2>3, <2>4, <2>5 DEF LiveRows, IsLive
    <2>7. s[2] # 0
      BY <2>2
    <2> QED BY <2>3, <2>6, <2>7 DEF TodoSound
  <1> QED BY <1>2, <1>3, <1>4, <1>5, <1>6, <1>7, <1>8, <1>9, <1>10, <1>11, <1>12, <1>13,
          <1>14, <1>15, <1>16, <1>17, <1>18, <1>19, <1>20, <1>21, <1>22, <1>23, <1>24,
          <1>25, <1>26, <1>27, <1>28, <1>29, <1>30, <1>31, <1>32, <1>33, <1>34, <1>35,
          <1>36, <1>37, <1>38, <1>39, <1>40, <1>41, <1>42, <1>43, <1>44, <1>45, <1>46,
          <1>47, <1>48
          DEF Next, Recovery, TopOfPass, Sweep, CancelAtVenue, Submit, PlaceAtVenue,
          Ingest,
              Reprice, Loop, World

------------------------------------------------------------------------------
(* PENDING rows: PendingSound *)

\* A step that makes no PENDING row keeps the ones there are.
NothingNewPending ==
  \A o \in Oids : orders'[o].state = "PENDING" => orders[o].state = "PENDING"

LEMMA PendingStep ==
  ASSUME IInv, [Next]_vars
  PROVE  PendingSound'
  <1> USE DEF durable, venues, lost, world, memory
  <1>0. TypeOK /\ orders \in [Oids -> Row] /\ BooksSound /\ CallSound /\ TodoSound /\ PendingSound
    BY DEF IInv, TypeOK, BooksSound
  <1>1. CASE ReconcileListed
    BY <1>1, <1>0 DEF ReconcileListed, PendingSound, Unsettled
  <1>2. CASE ReconcileFailed
    BY <1>2, <1>0 DEF ReconcileFailed, PendingSound, Unsettled
  <1>3. CASE ResolveDone
    BY <1>3, <1>0 DEF ResolveDone, PendingSound, Unsettled
  <1>4. CASE SettleRecovered
    BY <1>4, <1>0 DEF SettleRecovered, PendingSound, Unsettled
  <1>5. CASE Start
    BY <1>5, <1>0 DEF Start, PendingSound, Unsettled
  <1>6. CASE Open
    BY <1>6, <1>0 DEF Open, PendingSound, Unsettled
  <1>7. CASE Close
    BY <1>7, <1>0 DEF Close, PendingSound, Unsettled
  <1>8. CASE Advance
    BY <1>8, <1>0 DEF Advance, PendingSound, Unsettled
  <1>9. CASE Archive
    BY <1>9, <1>0 DEF Archive, PendingSound, Unsettled
  <1>10. CASE SweepDone
    BY <1>10, <1>0 DEF SweepDone, PendingSound, Unsettled
  <1>11. CASE SubmitLadder
    BY <1>11, <1>0 DEF SubmitLadder, PendingSound, Unsettled
  <1>12. CASE Poll
    BY <1>12, <1>0 DEF Poll, PendingSound, Unsettled
  <1>13. CASE PollRaises
    BY <1>13, <1>0 DEF PollRaises, PendingSound, Unsettled
  <1>14. CASE FillRefused
    BY <1>14, <1>0 DEF FillRefused, PendingSound, Unsettled
  <1>15. CASE Crash
    BY <1>15, <1>0 DEF Crash, PendingSound, Unsettled
  <1>16. CASE IngestDone
    BY <1>16, <1>0 DEF IngestDone, PendingSound, Unsettled
  <1>17. CASE RepriceDone
    BY <1>17, <1>0 DEF RepriceDone, PendingSound, Unsettled
  <1>18. CASE ClockCloses
    BY <1>18, <1>0 DEF ClockCloses, PendingSound, Unsettled
  <1>19. CASE CancelAccepted
    BY <1>19, <1>0 DEF CancelAccepted, PendingSound, Unsettled, Cancelling
  <1>20. CASE CancelRefused
    BY <1>20, <1>0 DEF CancelRefused, PendingSound, Unsettled, Cancelling
  <1>21. CASE CancelLost \/ CancelErrored
    BY <1>21, <1>0 DEF CancelLost, CancelErrored, PendingSound, Unsettled, Cancelling
  <1>22. CASE CancelThrottled
    BY <1>22, <1>0 DEF CancelThrottled, PendingSound, Unsettled, Cancelling
  <1>23. CASE PlaceAccepted
    BY <1>23, <1>0 DEF PlaceAccepted, PendingSound, Unsettled, Placing
  <1>24. CASE PlaceRefused
    BY <1>24, <1>0 DEF PlaceRefused, PendingSound, Unsettled, Placing
  <1>25. CASE PlaceLost \/ PlaceErrored
    BY <1>25, <1>0 DEF PlaceLost, PlaceErrored, PendingSound, Unsettled, Placing
  <1>26. CASE UNCHANGED vars
    BY <1>26, <1>0 DEF vars, PendingSound, Unsettled
  <1>27. ASSUME NEW o \in Oids, VenueFill(o) PROVE PendingSound'
    BY <1>27, <1>0 DEF VenueFill, PendingSound, Unsettled
  <1>28. ASSUME NEW o \in Oids, LatePlacement(o) PROVE PendingSound'
    BY <1>28, <1>0 DEF LatePlacement, PendingSound, Unsettled
  <1>29. ASSUME NEW o \in Oids, LateCancel(o) PROVE PendingSound'
    BY <1>29, <1>0 DEF LateCancel, PendingSound, Unsettled
  <1>30. ASSUME NEW o \in Oids, RecordFill(o) PROVE PendingSound'
    BY <1>30, <1>0 DEF RecordFill, PendingSound, Unsettled
  <1>31. ASSUME NEW o \in Oids, LeaveAlone(o) PROVE PendingSound'
    BY <1>31, <1>0 DEF LeaveAlone, PendingSound, Unsettled, Repricing
  <1>32. ASSUME NEW o \in Oids, KeepPrice(o) PROVE PendingSound'
    BY <1>32, <1>0 DEF KeepPrice, PendingSound, Unsettled, Repricing
  <1>33. ASSUME NEW o \in Oids, BeginMove(o) PROVE PendingSound'
    BY <1>33, <1>0 DEF BeginMove, PendingSound, Unsettled, Repricing
  <1>34. ASSUME NEW o \in Oids, Replayed(o) PROVE PendingSound'
    BY <1>34, <1>0 DEF Replayed, PendingSound, Unsettled
  <1>35. CASE ExpirePending
    <2>1. ASSUME NEW p \in Oids PROVE orders'[p].state # "PENDING"
      <3>1. orders[p] \in Row
        BY <1>0
      <3>2. Transition(orders[p], "EXPIRED").state = "EXPIRED"
        BY <3>1, TransitionRow DEF OrderState, TerminalStates
      <3> QED BY <1>35, <1>0, <3>2 DEF ExpirePending, PendingSound, Unsettled
    <2> QED BY <1>35, <1>0, <2>1 DEF ExpirePending, PendingSound, Unsettled
  <1>36. CASE SweepAnswered
    <2> DEFINE r == Transition(orders[cur],
                 IF call \in {"ok", "refused"} THEN "CANCELLED" ELSE "INDETERMINATE")
    <2>1. cur \in Oids /\ Save(cur, r)
      BY <1>36, <1>0 DEF SweepAnswered, CallSound, SaveState, Movable
    <2>2. r.state # "PENDING"
      BY <1>0, <2>1, TransitionRow DEF OrderState, LiveStates, TerminalStates
    <2> HIDE DEF r
    <2>3. orders'[cur].state # "PENDING" /\ \A p \in Oids \ {cur} : orders'[p] = orders[p]
      BY <1>0, <2>1, <2>2, RowSaved
    <2> QED BY <1>36, <1>0, <2>3 DEF SweepAnswered, PendingSound, Unsettled
  <1>37. CASE MoveCancelled
    <2> DEFINE r == Transition(orders[cur], "CANCELLED")
    <2>1. cur \in Oids /\ Save(cur, r)
      BY <1>37, <1>0 DEF MoveCancelled, CallSound, SaveState, Movable
    <2>2. r.state # "PENDING"
      BY <1>0, <2>1, TransitionRow DEF OrderState, LiveStates, TerminalStates
    <2> HIDE DEF r
    <2>3. orders'[cur].state # "PENDING" /\ \A p \in Oids \ {cur} : orders'[p] = orders[p]
      BY <1>0, <2>1, <2>2, RowSaved
    <2> QED BY <1>37, <1>0, <2>3 DEF MoveCancelled, PendingSound, Unsettled
  <1>38. CASE MoveAbandoned /\ call = "lost"
    <2> DEFINE r == Transition(orders[cur], "INDETERMINATE")
    <2>1. cur \in Oids /\ Save(cur, r)
      BY <1>38, <1>0 DEF MoveAbandoned, CallSound, SaveState, Movable
    <2>2. r.state # "PENDING"
      BY <1>0, <2>1, TransitionRow DEF OrderState, LiveStates, TerminalStates
    <2> HIDE DEF r
    <2>3. orders'[cur].state # "PENDING" /\ \A p \in Oids \ {cur} : orders'[p] = orders[p]
      BY <1>0, <2>1, <2>2, RowSaved
    <2> QED BY <1>38, <1>0, <2>3 DEF MoveAbandoned, PendingSound, Unsettled
  <1>39. CASE MoveAbandoned /\ call # "lost"
    BY <1>39, <1>0 DEF MoveAbandoned, PendingSound, Unsettled
  <1>40. ASSUME NEW o \in Oids, SweepNext(o), orders[o].state = "PENDING" PROVE PendingSound'
    <2> DEFINE r == Transition(orders[o], "EXPIRED")
    <2>1. o \in Oids /\ Save(o, r)
      BY <1>40, <1>0 DEF SweepNext, CallSound, SaveState, Movable
    <2>2. r.state # "PENDING"
      BY <1>0, <2>1, TransitionRow DEF OrderState, LiveStates, TerminalStates
    <2> HIDE DEF r
    <2>3. orders'[o].state # "PENDING" /\ \A p \in Oids \ {o} : orders'[p] = orders[p]
      BY <1>0, <2>1, <2>2, RowSaved
    <2> QED BY <1>40, <1>0, <2>3 DEF SweepNext, PendingSound, Unsettled
  <1>41. ASSUME NEW o \in Oids, SweepNext(o), orders[o].state # "PENDING" PROVE PendingSound'
    BY <1>41, <1>0 DEF SweepNext, PendingSound, Unsettled
  <1>42. CASE PlaceAnswered
    <2> DEFINE r == Answered(orders[cur])
    <2>1. cur \in Oids /\ Save(cur, r)
      BY <1>42, <1>0 DEF PlaceAnswered, CallSound, SaveState, Movable
    <2>2. r.state # "PENDING"
      BY <1>0, <2>1, AnsweredRow
    <2> HIDE DEF r
    <2>3. orders'[cur].state # "PENDING" /\ \A p \in Oids \ {cur} : orders'[p] = orders[p]
      BY <1>0, <2>1, <2>2, RowSaved
    <2> QED BY <1>42, <1>0, <2>3 DEF PlaceAnswered, PendingSound, Unsettled
  <1>43. CASE CountFill
    <2> DEFINE r == ApplyFill(orders[cur])
    <2>1. cur \in Oids /\ Save(cur, r)
      BY <1>43, <1>0 DEF CountFill, CallSound, SaveState, Movable
    <2>2. r.state # "PENDING"
      BY <1>0, <2>1, FilledRow DEF BooksSound, RowsSound
    <2> HIDE DEF r
    <2>3. orders'[cur].state # "PENDING" /\ \A p \in Oids \ {cur} : orders'[p] = orders[p]
      BY <1>0, <2>1, <2>2, RowSaved
    <2> QED BY <1>43, <1>0, <2>3 DEF CountFill, PendingSound, Unsettled
  <1>44. ASSUME NEW o \in Oids, Resolve(o) PROVE PendingSound'
    <2>1. orders[o] \in Row /\ executed[o] \in Nat
      BY <1>0 DEF TypeOK
    <2>2. Adopted(o).state # "PENDING" /\ Vanished(o).state # "PENDING"
      BY <2>1, AdoptedRow, VanishedRow
    <2>3. orders'[o].state # "PENDING" /\ \A p \in Oids \ {o} : orders'[p] = orders[p]
      BY <1>44, <1>0, <2>2, RowSaved DEF Resolve
    <2> QED BY <1>44, <1>0, <2>3 DEF Resolve, PendingSound, Unsettled
  <1>45. ASSUME NEW o \in Oids, SavePending(o) PROVE PendingSound'
    <2>1. /\ pc = "ladder" /\ pc' = "place" /\ cur' = o /\ UNCHANGED <<marketRow, phase>>
          /\ \A p \in Oids \ {o} : orders'[p] = orders[p]
      BY <1>45, <1>0, RowSaved DEF SavePending
    <2> QED BY <1>0, <2>1 DEF PendingSound, Unsettled
  <1>46. CASE SaveSuccessor
    <2>1. /\ pc = "replace" /\ pc' = "place" /\ cur' = Successor(cur)
          /\ UNCHANGED <<marketRow, phase>>
          /\ Save(Successor(cur), NewOrder(Remaining(orders[cur])))
      BY <1>46 DEF SaveSuccessor
    <2>2. Successor(cur) \in Oids
      BY <1>46, <1>0, SuccessorOid DEF SaveSuccessor, CallSound
    <2>3. \A p \in Oids \ {Successor(cur)} : orders'[p] = orders[p]
      BY <1>0, <2>1, <2>2, RowSaved
    <2> QED BY <1>0, <2>1, <2>2, <2>3 DEF PendingSound, Unsettled
  <1> QED BY <1>1, <1>2, <1>3, <1>4, <1>5, <1>6, <1>7, <1>8, <1>9, <1>10, <1>11, <1>12,
          <1>13, <1>14, <1>15, <1>16, <1>17, <1>18, <1>19, <1>20, <1>21, <1>22, <1>23,
          <1>24, <1>25, <1>26, <1>27, <1>28, <1>29, <1>30, <1>31, <1>32, <1>33, <1>34,
          <1>35, <1>36, <1>37, <1>38, <1>39, <1>40, <1>41, <1>42, <1>43, <1>44, <1>45,
          <1>46
          DEF Next, Recovery, TopOfPass, Sweep, CancelAtVenue, Submit, PlaceAtVenue,
          Ingest,
              Reprice, Loop, World

------------------------------------------------------------------------------
(* The invariant *)

LEMMA InitIInv ==
  ASSUME Init
  PROVE  IInv
  <1> USE DEF Init
  <1>0. NoRow \in Row /\ 0 \in 0 .. PreAttempts + 1
    BY SizeAssumption, BoundAssumption DEF Row, NoRow
  <1>1. TypeOK
    BY <1>0, NoneNotOid DEF TypeOK
  <1>2. \A o \in Oids : orders[o].state = "NONE" /\ orders[o] = NoRow /\ orders[o].linked = FALSE
                        /\ orders[o].filled <= orders[o].size
    BY DEF NoRow
  <1>3. RowsSound
    BY <1>2 DEF RowsSound, MayRest
  <1>4. WireSound /\ TodoSound
    BY DEF WireSound, TodoSound
  <1>5. ChainSound
    BY <1>2 DEF ChainSound
  <1>6. CallSound
    BY DEF CallSound
  <1>7. PendingSound
    BY <1>2 DEF PendingSound
  <1> QED BY <1>1, <1>3, <1>4, <1>5, <1>6, <1>7 DEF IInv

LEMMA IInvStep ==
  ASSUME IInv, [Next]_vars
  PROVE  IInv'
  <1>1. TypeOK /\ RowsSound /\ CallSound
    BY DEF IInv
  <1>2. TypeOK'
    BY <1>1, TypeStep
  <1>3. BooksSound'
    BY BooksStep
  <1>4. CallSound' /\ TodoSound' /\ PendingSound'
    BY CallStep, TodoStep, PendingStep
  <1> QED BY <1>2, <1>3, <1>4 DEF IInv, BooksSound

\* Every reachable state is sound: rows, wire, chains, the call in hand, the
\* rows to be visited and the PENDING rows (the loop of engine.py, the submitter,
\* the repricer, the sweep and recovery taken together).
THEOREM Soundness == Spec => []IInv
  <1>1. Init => IInv
    BY InitIInv
  <1>2. IInv /\ [Next]_vars => IInv'
    BY IInvStep
  <1> QED BY <1>1, <1>2, PTL DEF Spec

\* Every reachable state has the types of the variables' declarations.
THEOREM TypeCorrect == Spec => []TypeOK
  <1>1. IInv => TypeOK
    BY DEF IInv
  <1> QED BY <1>1, Soundness, PTL

\* No interleaving of lost answers, late arrivals, fills, crashes and restarts
\* leaves two orders of one slot on the book (reprice.py, submit.py).
THEOREM NoDuplicateLiveOrder == Spec => []OneRestingPerSlot
  <1>1. ASSUME IInv PROVE OneRestingPerSlot
    <2> SUFFICES ASSUME NEW o \in Oids, NEW p \in Oids,
                        o[1] = p[1], o \in resting, p \in resting, o # p
                 PROVE  FALSE
      BY DEF OneRestingPerSlot
    <2>1. ChainSound /\ RowsSound
      BY <1>1 DEF IInv
    <2>2. orders[o].state # "NONE" /\ orders[p].state # "NONE"
      BY <2>1 DEF RowsSound, MayRest
    <2>3. o[2] \in 0 .. MaxRetries /\ p[2] \in 0 .. MaxRetries /\ o[2] # p[2]
      BY OidParts DEF Oids
    <2>4. o[2] < p[2] \/ p[2] < o[2]
      BY <2>3, BoundAssumption
    <2> QED BY <2>1, <2>2, <2>4 DEF ChainSound, MayRest
  <1> QED BY <1>1, Soundness, PTL

\* An order id is sent to the venue, or arrives there late, once at most
\* (the replay guard of Submitter._place_one, and recovery's PENDING rows).
THEOREM AtMostOnce == Spec => []AcceptedOnce
  <1>1. IInv => AcceptedOnce
    BY DEF IInv, WireSound, AcceptedOnce
  <1> QED BY <1>1, Soundness, PTL

------------------------------------------------------------------------------
(* What a step does to a row *)

\* Only a counted fill and a reconciliation change a row's filled count.
MayCount(o, row) ==
  \/ row.filled = orders[o].filled
  \/ pc = "apply" /\ o = cur /\ row.filled <= orders[o].filled + 1
  \/ pc = "resolve" /\ o \in todo

RowStep(o) ==
  /\ orders[o] = NoRow /\ orders'[o] # NoRow =>
       /\ orders'[o].state = "PENDING"
       /\ o[2] > 0 => /\ pc = "replace" /\ cur \in Oids /\ o = Successor(cur)
                      /\ orders[cur].state = "CANCELLED"
                      /\ orders'[o].size = Remaining(orders[cur])
       /\ ~ (o[2] > 0) => orders'[o].size = Size
  /\ orders[o] # NoRow =>
       /\ orders'[o] # NoRow /\ orders'[o].size = orders[o].size
       /\ orders'[o].state = orders[o].state \/ CanMove(orders[o], orders'[o].state)
  /\ IsTerminal(orders[o]) => orders'[o] = orders[o]
  /\ MayCount(o, orders'[o])

LEMMA TableOfMoves ==
  /\ LegalTransitions["PENDING"] = {"SUBMITTED", "REJECTED", "EXPIRED", "INDETERMINATE"}
  /\ LegalTransitions["SUBMITTED"] = {"PARTIAL", "FILLED", "CANCELLED", "EXPIRED",
                                      "REJECTED", "INDETERMINATE"}
  /\ LegalTransitions["PARTIAL"] = {"FILLED", "CANCELLED", "EXPIRED", "INDETERMINATE"}
  /\ LegalTransitions["INDETERMINATE"] = {"SUBMITTED", "PARTIAL", "FILLED", "CANCELLED",
                                          "EXPIRED", "REJECTED"}
  BY DEF LegalTransitions, OrderState, LiveStates

LEMMA SameRows ==
  ASSUME orders \in [Oids -> Row], UNCHANGED orders
  PROVE  \A o \in Oids : RowStep(o)
  <1>1. \A o \in Oids : orders[o].filled <= orders[o].filled
    BY SizeAssumption DEF Row
  <1> QED BY <1>1 DEF RowStep, MayCount

LEMMA MovedRow ==
  ASSUME orders \in [Oids -> Row], NEW x \in Oids, NEW r, Save(x, r),
         orders[x].state \in LiveStates, r.state # "NONE", r.size = orders[x].size,
         r.state = orders[x].state \/ CanMove(orders[x], r.state),
         MayCount(x, r)
  PROVE  \A o \in Oids : RowStep(o)
  <1>1. orders'[x] = r /\ \A p \in Oids \ {x} : orders'[p] = orders[p]
    BY RowSaved
  <1>2. orders[x] # NoRow /\ r # NoRow /\ ~ IsTerminal(orders[x])
    BY DEF NoRow, LiveStates, TerminalStates, IsTerminal
  <1>3. \A p \in Oids : orders[p].filled <= orders[p].filled
    BY SizeAssumption DEF Row
  <1> QED BY <1>1, <1>2, <1>3 DEF RowStep, MayCount

LEMMA AllRowsStep ==
  ASSUME IInv, [Next]_vars
  PROVE  \A o \in Oids : RowStep(o)
  <1> USE DEF durable, venues, lost, world, memory
  <1>0. TypeOK /\ orders \in [Oids -> Row] /\ BooksSound /\ CallSound /\ TodoSound /\ PendingSound
    BY DEF IInv, TypeOK, BooksSound
  <1>1. CASE ReconcileListed
    BY <1>1, <1>0, SameRows DEF ReconcileListed
  <1>2. CASE ReconcileFailed
    BY <1>2, <1>0, SameRows DEF ReconcileFailed
  <1>3. CASE ResolveDone
    BY <1>3, <1>0, SameRows DEF ResolveDone
  <1>4. CASE SettleRecovered
    BY <1>4, <1>0, SameRows DEF SettleRecovered
  <1>5. CASE Start
    BY <1>5, <1>0, SameRows DEF Start
  <1>6. CASE Open
    BY <1>6, <1>0, SameRows DEF Open
  <1>7. CASE Close
    BY <1>7, <1>0, SameRows DEF Close
  <1>8. CASE Advance
    BY <1>8, <1>0, SameRows DEF Advance
  <1>9. CASE Archive
    BY <1>9, <1>0, SameRows DEF Archive
  <1>10. CASE SweepDone
    BY <1>10, <1>0, SameRows DEF SweepDone
  <1>11. CASE SubmitLadder
    BY <1>11, <1>0, SameRows DEF SubmitLadder
  <1>12. CASE Poll
    BY <1>12, <1>0, SameRows DEF Poll
  <1>13. CASE PollRaises
    BY <1>13, <1>0, SameRows DEF PollRaises
  <1>14. CASE FillRefused
    BY <1>14, <1>0, SameRows DEF FillRefused
  <1>15. CASE Crash
    BY <1>15, <1>0, SameRows DEF Crash
  <1>16. CASE IngestDone
    BY <1>16, <1>0, SameRows DEF IngestDone
  <1>17. CASE RepriceDone
    BY <1>17, <1>0, SameRows DEF RepriceDone
  <1>18. CASE ClockCloses
    BY <1>18, <1>0, SameRows DEF ClockCloses
  <1>19. CASE CancelAccepted
    BY <1>19, <1>0, SameRows DEF CancelAccepted
  <1>20. CASE CancelRefused
    BY <1>20, <1>0, SameRows DEF CancelRefused
  <1>21. CASE CancelLost \/ CancelErrored
    BY <1>21, <1>0, SameRows DEF CancelLost, CancelErrored
  <1>22. CASE CancelThrottled
    BY <1>22, <1>0, SameRows DEF CancelThrottled
  <1>23. CASE PlaceAccepted
    BY <1>23, <1>0, SameRows DEF PlaceAccepted
  <1>24. CASE PlaceRefused
    BY <1>24, <1>0, SameRows DEF PlaceRefused
  <1>25. CASE PlaceLost \/ PlaceErrored
    BY <1>25, <1>0, SameRows DEF PlaceLost, PlaceErrored
  <1>26. CASE UNCHANGED vars
    BY <1>26, <1>0, SameRows DEF vars
  <1>27. ASSUME NEW o \in Oids, VenueFill(o) PROVE \A p \in Oids : RowStep(p)
    BY <1>27, <1>0, SameRows DEF VenueFill
  <1>28. ASSUME NEW o \in Oids, LatePlacement(o) PROVE \A p \in Oids : RowStep(p)
    BY <1>28, <1>0, SameRows DEF LatePlacement
  <1>29. ASSUME NEW o \in Oids, LateCancel(o) PROVE \A p \in Oids : RowStep(p)
    BY <1>29, <1>0, SameRows DEF LateCancel
  <1>30. ASSUME NEW o \in Oids, RecordFill(o) PROVE \A p \in Oids : RowStep(p)
    BY <1>30, <1>0, SameRows DEF RecordFill
  <1>31. ASSUME NEW o \in Oids, LeaveAlone(o) PROVE \A p \in Oids : RowStep(p)
    BY <1>31, <1>0, SameRows DEF LeaveAlone
  <1>32. ASSUME NEW o \in Oids, KeepPrice(o) PROVE \A p \in Oids : RowStep(p)
    BY <1>32, <1>0, SameRows DEF KeepPrice
  <1>33. ASSUME NEW o \in Oids, BeginMove(o) PROVE \A p \in Oids : RowStep(p)
    BY <1>33, <1>0, SameRows DEF BeginMove
  <1>34. ASSUME NEW o \in Oids, Replayed(o) PROVE \A p \in Oids : RowStep(p)
    BY <1>34, <1>0, SameRows DEF Replayed
  <1>35. CASE ExpirePending
    <2> SUFFICES ASSUME NEW p \in Oids PROVE RowStep(p)
      OBVIOUS
    <2>1. orders[p] \in Row
      BY <1>0
    <2>2. /\ Transition(orders[p], "EXPIRED").state = "EXPIRED"
          /\ Transition(orders[p], "EXPIRED").size = orders[p].size
          /\ Transition(orders[p], "EXPIRED").filled = orders[p].filled
      BY <2>1, TransitionRow DEF OrderState, TerminalStates
    <2>5. orders[p].filled <= orders[p].filled
      BY <2>1, SizeAssumption DEF Row
    <2>3. CASE orders[p].state = "PENDING" /\ Unsettled
      <3>1. orders'[p] = Transition(orders[p], "EXPIRED")
        BY <1>35, <1>0, <2>3 DEF ExpirePending
      <3> QED BY <2>2, <2>5, <2>3, <3>1, TableOfMoves
              DEF RowStep, MayCount, CanMove, NoRow, IsTerminal, TerminalStates
    <2>4. CASE ~ (orders[p].state = "PENDING" /\ Unsettled)
      <3>1. orders'[p] = orders[p]
        BY <1>35, <1>0, <2>4 DEF ExpirePending
      <3> QED BY <2>5, <3>1 DEF RowStep, MayCount
    <2> QED BY <2>3, <2>4
  <1>36. CASE SweepAnswered
    <2> DEFINE r == Transition(orders[cur],
                 IF call \in {"ok", "refused"} THEN "CANCELLED" ELSE "INDETERMINATE")
    <2>1. /\ cur \in Oids /\ Save(cur, r)
          /\ orders[cur].state \in {"SUBMITTED", "PARTIAL", "INDETERMINATE"}
      BY <1>36, <1>0 DEF SweepAnswered, CallSound, SaveState, Movable, LiveStates
    <2>2. orders[cur] \in Row
      BY <1>0, <2>1
    <2>3. /\ r.state \in {"CANCELLED", "INDETERMINATE"}
          /\ r.size = orders[cur].size /\ r.filled = orders[cur].filled
      BY <2>1, <2>2, TransitionRow DEF OrderState, LiveStates, TerminalStates
    <2> HIDE DEF r
    <2>4. orders[cur].state \in LiveStates /\ r.state # "NONE"
      BY <2>1, <2>3 DEF LiveStates
    <2>5. r.state = orders[cur].state \/ CanMove(orders[cur], r.state)
      BY <2>1, <2>3, TableOfMoves DEF CanMove
    <2>6. MayCount(cur, r)
      BY <2>2, <2>3, SizeAssumption DEF MayCount, Row
    <2> QED BY <1>0, <2>1, <2>3, <2>4, <2>5, <2>6, MovedRow
  <1>37. CASE MoveCancelled
    <2> DEFINE r == Transition(orders[cur], "CANCELLED")
    <2>1. cur \in Oids /\ Save(cur, r) /\ orders[cur].state \in {"SUBMITTED", "PARTIAL"}
      BY <1>37, <1>0 DEF MoveCancelled, CallSound, SaveState, Movable, LiveStates
    <2>2. orders[cur] \in Row
      BY <1>0, <2>1
    <2>3. r.state = "CANCELLED" /\ r.size = orders[cur].size /\ r.filled = orders[cur].filled
      BY <2>1, <2>2, TransitionRow DEF OrderState, LiveStates, TerminalStates
    <2> HIDE DEF r
    <2>4. orders[cur].state \in LiveStates /\ r.state # "NONE"
      BY <2>1, <2>3 DEF LiveStates
    <2>5. r.state = orders[cur].state \/ CanMove(orders[cur], r.state)
      BY <2>1, <2>3, TableOfMoves DEF CanMove
    <2>6. MayCount(cur, r)
      BY <2>2, <2>3, SizeAssumption DEF MayCount, Row
    <2> QED BY <1>0, <2>1, <2>3, <2>4, <2>5, <2>6, MovedRow
  <1>38. CASE MoveAbandoned /\ call = "lost"
    <2> DEFINE r == Transition(orders[cur], "INDETERMINATE")
    <2>1. cur \in Oids /\ Save(cur, r) /\ orders[cur].state \in {"SUBMITTED", "PARTIAL"}
      BY <1>38, <1>0 DEF MoveAbandoned, CallSound, SaveState, Movable, LiveStates
    <2>2. orders[cur] \in Row
      BY <1>0, <2>1
    <2>3. r.state = "INDETERMINATE" /\ r.size = orders[cur].size /\ r.filled = orders[cur].filled
      BY <2>1, <2>2, TransitionRow DEF OrderState, LiveStates, TerminalStates
    <2> HIDE DEF r
    <2>4. orders[cur].state \in LiveStates /\ r.state # "NONE"
      BY <2>1, <2>3 DEF LiveStates
    <2>5. r.state = orders[cur].state \/ CanMove(orders[cur], r.state)
      BY <2>1, <2>3, TableOfMoves DEF CanMove
    <2>6. MayCount(cur, r)
      BY <2>2, <2>3, SizeAssumption DEF MayCount, Row
    <2> QED BY <1>0, <2>1, <2>3, <2>4, <2>5, <2>6, MovedRow
  <1>39. CASE MoveAbandoned /\ call # "lost"
    BY <1>39, <1>0, SameRows DEF MoveAbandoned
  <1>40. ASSUME NEW o \in Oids, SweepNext(o), orders[o].state = "PENDING"
         PROVE  \A p \in Oids : RowStep(p)
    <2> DEFINE r == Transition(orders[o], "EXPIRED")
    <2>1. o \in Oids /\ Save(o, r) /\ orders[o].state = "PENDING"
      BY <1>40, <1>0 DEF SweepNext, CallSound, SaveState, Movable, LiveStates
    <2>2. orders[o] \in Row
      BY <1>0, <2>1
    <2>3. r.state = "EXPIRED" /\ r.size = orders[o].size /\ r.filled = orders[o].filled
      BY <2>1, <2>2, TransitionRow DEF OrderState, LiveStates, TerminalStates
    <2> HIDE DEF r
    <2>4. orders[o].state \in LiveStates /\ r.state # "NONE"
      BY <2>1, <2>3 DEF LiveStates
    <2>5. r.state = orders[o].state \/ CanMove(orders[o], r.state)
      BY <2>1, <2>3, TableOfMoves DEF CanMove
    <2>6. MayCount(o, r)
      BY <2>2, <2>3, SizeAssumption DEF MayCount, Row
    <2> QED BY <1>0, <2>1, <2>3, <2>4, <2>5, <2>6, MovedRow
  <1>41. ASSUME NEW o \in Oids, SweepNext(o), orders[o].state # "PENDING"
         PROVE  \A p \in Oids : RowStep(p)
    BY <1>41, <1>0, SameRows DEF SweepNext
  <1>42. CASE PlaceAnswered
    <2> DEFINE r == Answered(orders[cur])
    <2>1. cur \in Oids /\ Save(cur, r) /\ orders[cur].state = "PENDING"
      BY <1>42, <1>0 DEF PlaceAnswered, CallSound, SaveState, Movable, LiveStates
    <2>2. orders[cur] \in Row
      BY <1>0, <2>1
    <2>3. /\ r.state \in {"SUBMITTED", "INDETERMINATE", "REJECTED"}
          /\ r.size = orders[cur].size /\ r.filled = orders[cur].filled
      BY <2>2, AnsweredRow
    <2> HIDE DEF r
    <2>4. orders[cur].state \in LiveStates /\ r.state # "NONE"
      BY <2>1, <2>3 DEF LiveStates
    <2>5. r.state = orders[cur].state \/ CanMove(orders[cur], r.state)
      BY <2>1, <2>3, TableOfMoves DEF CanMove
    <2>6. MayCount(cur, r)
      BY <2>2, <2>3, SizeAssumption DEF MayCount, Row
    <2> QED BY <1>0, <2>1, <2>3, <2>4, <2>5, <2>6, MovedRow
  <1>43. CASE CountFill
    <2> DEFINE r == ApplyFill(orders[cur])
    <2>1. /\ cur \in Oids /\ Save(cur, r) /\ orders[cur].state \in LiveStates
          /\ orders[cur].state # "PENDING"
      BY <1>43, <1>0 DEF CountFill, CallSound, IsLive, PendingSound
    <2>2. orders[cur] \in Row /\ orders[cur].filled <= orders[cur].size
      BY <1>0, <2>1 DEF BooksSound, RowsSound
    <2>3. r.state \in {"PARTIAL", "FILLED"} /\ r.size = orders[cur].size
      BY <2>2, FilledRow
    <2>5. r.filled <= orders[cur].filled + 1
      BY <2>2, CountedFill
    <2>6. MayCount(cur, r)
      BY <1>43, <2>5 DEF MayCount, CountFill
    <2> HIDE DEF r
    <2>4. r.state = orders[cur].state \/ CanMove(orders[cur], r.state)
      BY <2>1, <2>3, TableOfMoves DEF CanMove, LiveStates
    <2> QED BY <1>0, <2>1, <2>3, <2>4, <2>6, MovedRow
  <1>44. ASSUME NEW o \in Oids, Resolve(o) PROVE \A p \in Oids : RowStep(p)
    <2>1. /\ orders[o] \in Row /\ executed[o] \in Nat /\ orders[o].state = "INDETERMINATE"
          /\ orders[o].state \in LiveStates
      BY <1>44, <1>0 DEF TypeOK, Resolve, TodoSound, LiveStates
    <2>2. PICK r : /\ Save(o, r) /\ r.size = orders[o].size
                   /\ r.state \in {"SUBMITTED", "PARTIAL", "FILLED", "CANCELLED"}
      BY <1>44, <2>1, AdoptedRow, VanishedRow DEF Resolve
    <2>3. CanMove(orders[o], r.state)
      BY <2>1, <2>2, TableOfMoves DEF CanMove
    <2>4. MayCount(o, r)
      BY <1>44 DEF MayCount, Resolve
    <2> QED BY <1>0, <2>1, <2>2, <2>3, <2>4, MovedRow
  <1>45. ASSUME NEW o \in Oids, SavePending(o) PROVE \A p \in Oids : RowStep(p)
    <2>1. orders[o] = NoRow /\ ~ (o[2] > 0)
      BY <1>45, <1>0 DEF SavePending, TodoSound
    <2>2. /\ NewOrder(Size).state = "PENDING" /\ NewOrder(Size).filled = 0
          /\ NewOrder(Size).size = Size
      BY DEF NewOrder
    <2>3. orders'[o] = NewOrder(Size) /\ \A p \in Oids \ {o} : orders'[p] = orders[p]
      BY <1>45, <1>0, RowSaved DEF SavePending
    <2>4. \A p \in Oids : orders[p].filled \in Nat
      BY <1>0, SizeAssumption DEF Row
    <2> QED BY <2>1, <2>2, <2>3, <2>4
            DEF RowStep, MayCount, NoRow, IsTerminal, TerminalStates
  <1>46. CASE SaveSuccessor
    <2> DEFINE s == Successor(cur)
               r == NewOrder(Remaining(orders[cur]))
    <2>1. /\ cur \in Oids /\ s \in Oids /\ Save(s, r) /\ pc = "replace" /\ s[2] > 0
          /\ orders[cur].state = "CANCELLED" /\ orders[s].state = "NONE"
      BY <1>46, <1>0, SuccessorOid, OidParts, BoundAssumption DEF SaveSuccessor, CallSound
    <2>2. r.state = "PENDING" /\ r.size = Remaining(orders[cur]) /\ r.filled = 0
      BY DEF NewOrder
    <2>3. orders[s] = NoRow
      BY <1>0, <2>1 DEF BooksSound, RowsSound
    <2>4. orders'[s] = r /\ \A p \in Oids \ {s} : orders'[p] = orders[p]
      BY <1>0, <2>1, RowSaved
    <2>5. \A p \in Oids : orders[p].filled \in Nat
      BY <1>0, SizeAssumption DEF Row
    <2> HIDE DEF r
    <2> QED BY <2>1, <2>2, <2>3, <2>4, <2>5
            DEF RowStep, MayCount, NoRow, IsTerminal, TerminalStates
  <1> QED BY <1>1, <1>2, <1>3, <1>4, <1>5, <1>6, <1>7, <1>8, <1>9, <1>10, <1>11, <1>12,
          <1>13, <1>14, <1>15, <1>16, <1>17, <1>18, <1>19, <1>20, <1>21, <1>22, <1>23,
          <1>24, <1>25, <1>26, <1>27, <1>28, <1>29, <1>30, <1>31, <1>32, <1>33, <1>34,
          <1>35, <1>36, <1>37, <1>38, <1>39, <1>40, <1>41, <1>42, <1>43, <1>44, <1>45,
          <1>46
          DEF Next, Recovery, TopOfPass, Sweep, CancelAtVenue, Submit, PlaceAtVenue,
          Ingest,
              Reprice, Loop, World

\* The code never asks transition() for a move outside its table, and a final
\* row never changes again, across repricing, sweeping, ingestion and recovery.
THEOREM RowsMoveLegally == Spec => LegalSteps
  <1>1. ASSUME IInv, [Next]_vars
        PROVE  [\A o \in Oids :
                 /\ orders[o] = NoRow /\ orders'[o] # NoRow => orders'[o].state = "PENDING"
                 /\ orders[o] # NoRow /\ orders'[o].state # orders[o].state
                      => CanMove(orders[o], orders'[o].state)
                 /\ IsTerminal(orders[o]) => orders'[o] = orders[o]]_vars
    BY <1>1, AllRowsStep DEF RowStep
  <1> QED BY <1>1, Soundness, PTL DEF Spec, LegalSteps

LEMMA ConservedStep ==
  ASSUME IInv, ChainConserved, [Next]_vars
  PROVE  ChainConserved'
  <1>0. RowsSound /\ ChainSound /\ orders \in [Oids -> Row]
    BY DEF IInv, TypeOK
  <1> SUFFICES ASSUME NEW o \in Oids, o[2] > 0, orders'[o] # NoRow
               PROVE  LET b == <<o[1], o[2] - 1>>
                      IN  /\ orders'[b].state = "CANCELLED"
                          /\ orders'[o].size = orders'[b].size - orders'[b].filled
    BY DEF ChainConserved
  <1> DEFINE b == <<o[1], o[2] - 1>>
  <1>1. b \in Oids
    BY BoundAssumption DEF Oids, Gens
  <1>2. RowStep(o) /\ RowStep(b)
    BY <1>1, AllRowsStep
  <1>3. orders[b].state = "CANCELLED" => orders'[b] = orders[b]
    BY <1>2 DEF RowStep, IsTerminal, TerminalStates
  <1>4. CASE orders[o] # NoRow
    BY <1>2, <1>3, <1>4 DEF RowStep, ChainConserved
  <1>5. CASE orders[o] = NoRow
    <2>1. /\ cur \in Oids /\ o = Successor(cur) /\ orders[cur].state = "CANCELLED"
          /\ orders'[o].size = orders[cur].size - orders[cur].filled
      BY <1>2, <1>5 DEF RowStep, Remaining
    <2>2. b = cur
      BY <2>1, BoundAssumption DEF Successor, Oids, Gens
    <2> QED BY <1>3, <2>1, <2>2
  <1> QED BY <1>4, <1>5

\* The unfilled remainder of a chain is handed on once: no path builds a second
\* successor, or one beside an order that is not cancelled (reprice.py).
THEOREM RemainderHandedOnOnce == Spec => []ChainConserved
  <1>1. Init => ChainConserved
    BY DEF Init, ChainConserved
  <1>2. IInv /\ ChainConserved /\ [Next]_vars => ChainConserved'
    BY ConservedStep
  <1> QED BY <1>1, <1>2, Soundness, PTL DEF Spec

------------------------------------------------------------------------------
(* Counted fills: NeverOverstated, where recovery cannot adopt a venue's count *)

\* Every counted unit has its row in the fills table, the fill about to be
\* counted too, and reconciliation has nothing to adopt: on paper no answer is
\* ever lost, and a V2 recovery with a cold token cache never gets a listing.
Backed ==
  /\ \A o \in Oids : orders[o].filled <= recorded[o]
  /\ pc = "apply" => orders[cur].filled < recorded[cur]
  /\ pc = "resolve" => todo = {}
  /\ Paper => call \notin {"lost", "throttled"}
  /\ Paper => \A o \in Oids : orders[o].state # "INDETERMINATE"

LEMMA BackedKept ==
  ASSUME TypeOK, TypeOK', Backed, \A o \in Oids : RowStep(o), UNCHANGED recorded,
         pc' # "apply", pc = "resolve" => UNCHANGED orders,
         pc = "apply" => cur \in Oids,
         pc' = "resolve" => todo' = {},
         Paper => call' \notin {"lost", "throttled"},
         Paper => \A o \in Oids : orders'[o].state # "INDETERMINATE"
  PROVE  Backed'
  <1>1. \A o \in Oids : /\ orders[o].filled \in Nat /\ orders'[o].filled \in Nat
                        /\ recorded[o] \in Nat
    BY SizeAssumption DEF TypeOK, Row
  <1>2. ASSUME NEW o \in Oids PROVE orders'[o].filled <= recorded'[o]
    <2>1. \/ orders'[o].filled = orders[o].filled
          \/ pc = "apply" /\ o = cur /\ orders'[o].filled <= orders[o].filled + 1
          \/ orders' = orders
      BY DEF RowStep, MayCount
    <2> QED BY <1>1, <2>1 DEF Backed
  <1> QED BY <1>2 DEF Backed

LEMMA BackedBeside ==
  ASSUME Backed, UNCHANGED <<orders, recorded, pc, cur, todo, call>>
  PROVE  Backed'
  BY DEF Backed

LEMMA BackedStep ==
  ASSUME Paper \/ ~ TokensKnown, IInv, Backed, [Next]_vars
  PROVE  Backed'
  <1> USE DEF durable, venues, lost, world, memory
  <1>0. /\ TypeOK /\ TypeOK' /\ orders \in [Oids -> Row] /\ CallSound
        /\ \A o \in Oids : RowStep(o)
    BY AllRowsStep, TypeStep DEF IInv, TypeOK
  <1>1. CASE ReconcileListed
    BY <1>1, <1>0, BackedKept DEF ReconcileListed, Backed
  <1>2. CASE ReconcileFailed
    BY <1>2, <1>0, BackedKept DEF ReconcileFailed, Backed
  <1>3. CASE ResolveDone
    BY <1>3, <1>0, BackedKept DEF ResolveDone, Backed
  <1>4. CASE SettleRecovered
    BY <1>4, <1>0, BackedKept DEF SettleRecovered, Backed
  <1>5. CASE Start
    BY <1>5, <1>0, BackedKept DEF Start, Backed
  <1>6. CASE Open
    BY <1>6, <1>0, BackedKept DEF Open, Backed
  <1>7. CASE Close
    BY <1>7, <1>0, BackedKept DEF Close, Backed
  <1>8. CASE Advance
    BY <1>8, <1>0, BackedKept DEF Advance, Backed
  <1>9. CASE Archive
    BY <1>9, <1>0, BackedKept DEF Archive, Backed
  <1>10. CASE SweepDone
    BY <1>10, <1>0, BackedKept DEF SweepDone, Backed
  <1>11. CASE SubmitLadder
    BY <1>11, <1>0, BackedKept DEF SubmitLadder, Backed
  <1>12. CASE Poll
    BY <1>12, <1>0, BackedKept DEF Poll, Backed
  <1>13. CASE PollRaises
    BY <1>13, <1>0, BackedKept DEF PollRaises, Backed
  <1>14. CASE FillRefused
    BY <1>14, <1>0, BackedKept DEF FillRefused, Backed, CallSound
  <1>15. CASE Crash
    <2>1. pc = "apply" => cur \in Oids
      BY <1>0 DEF CallSound
    <2> QED BY <1>15, <1>0, <2>1, BackedKept DEF Crash, Backed
  <1>16. CASE IngestDone
    BY <1>16, <1>0, BackedKept DEF IngestDone, Backed
  <1>17. CASE RepriceDone
    BY <1>17, <1>0, BackedKept DEF RepriceDone, Backed
  <1>18. CASE CancelAccepted
    BY <1>18, <1>0, BackedKept DEF CancelAccepted, Backed, Cancelling
  <1>19. CASE CancelRefused
    BY <1>19, <1>0, BackedKept DEF CancelRefused, Backed, Cancelling
  <1>20. CASE CancelLost \/ CancelErrored
    BY <1>20, <1>0, BackedKept DEF CancelLost, CancelErrored, Backed, Cancelling
  <1>21. CASE CancelThrottled
    BY <1>21, <1>0, BackedKept DEF CancelThrottled, Backed, Cancelling
  <1>22. CASE PlaceAccepted
    BY <1>22, <1>0, BackedKept DEF PlaceAccepted, Backed, Placing
  <1>23. CASE PlaceRefused
    BY <1>23, <1>0, BackedKept DEF PlaceRefused, Backed, Placing
  <1>24. CASE PlaceLost \/ PlaceErrored
    BY <1>24, <1>0, BackedKept DEF PlaceLost, PlaceErrored, Backed, Placing
  <1>25. ASSUME NEW o \in Oids, LeaveAlone(o) PROVE Backed'
    BY <1>25, <1>0, BackedKept DEF LeaveAlone, Backed, Repricing
  <1>26. ASSUME NEW o \in Oids, KeepPrice(o) PROVE Backed'
    BY <1>26, <1>0, BackedKept DEF KeepPrice, Backed, Repricing
  <1>27. ASSUME NEW o \in Oids, BeginMove(o) PROVE Backed'
    BY <1>27, <1>0, BackedKept DEF BeginMove, Backed, Repricing
  <1>28. ASSUME NEW o \in Oids, Replayed(o) PROVE Backed'
    BY <1>28, <1>0, BackedKept DEF Replayed, Backed
  <1>29. CASE ClockCloses
    BY <1>29, BackedBeside DEF ClockCloses
  <1>30. CASE UNCHANGED vars
    BY <1>30, BackedBeside DEF vars
  <1>31. ASSUME NEW o \in Oids, VenueFill(o) PROVE Backed'
    BY <1>31, BackedBeside DEF VenueFill
  <1>32. ASSUME NEW o \in Oids, LatePlacement(o) PROVE Backed'
    BY <1>32, BackedBeside DEF LatePlacement
  <1>33. ASSUME NEW o \in Oids, LateCancel(o) PROVE Backed'
    BY <1>33, BackedBeside DEF LateCancel
  <1>34. ASSUME NEW o \in Oids, RecordFill(o) PROVE Backed'
    <2>1. /\ pc' = "apply" /\ cur' = o /\ UNCHANGED <<orders, call>>
          /\ recorded' = [recorded EXCEPT ![o] = recorded[o] + 1]
          /\ recorded \in [Oids -> Nat]
      BY <1>34, <1>0 DEF RecordFill, TypeOK
    <2>2. \A p \in Oids : orders[p].filled \in Nat /\ recorded[p] \in Nat
      BY <1>0, SizeAssumption DEF TypeOK, Row
    <2> QED BY <2>1, <2>2 DEF Backed
  <1>35. ASSUME NEW o \in Oids, Resolve(o) PROVE Backed'
    BY <1>35 DEF Resolve, Backed
  <1>36. CASE SweepAnswered
    <2> DEFINE r == Transition(orders[cur],
                 IF call \in {"ok", "refused"} THEN "CANCELLED" ELSE "INDETERMINATE")
    <2>1. cur \in Oids /\ Save(cur, r)
      BY <1>36, <1>0 DEF SweepAnswered, CallSound, SaveState
    <2>2. Paper => r.state # "INDETERMINATE"
      <3>1. orders[cur] \in Row
        BY <1>0, <2>1
      <3> QED BY <1>36, <1>0, <3>1, TransitionRow
              DEF SweepAnswered, TypeOK, Backed, OrderState, LiveStates, TerminalStates
    <2> HIDE DEF r
    <2>3. Paper => \A p \in Oids : orders'[p].state # "INDETERMINATE"
      BY <1>0, <2>1, <2>2, RowSaved DEF Backed
    <2> QED BY <1>36, <1>0, <2>1, <2>3, BackedKept DEF SweepAnswered, Backed
  <1>37. CASE MoveCancelled
    <2> DEFINE r == Transition(orders[cur], "CANCELLED")
    <2>1. cur \in Oids /\ Save(cur, r)
      BY <1>37, <1>0 DEF MoveCancelled, CallSound, SaveState
    <2>2. Paper => r.state # "INDETERMINATE"
      <3>1. orders[cur] \in Row
        BY <1>0, <2>1
      <3> QED BY <1>37, <3>1, TransitionRow
              DEF MoveCancelled, Backed, OrderState, LiveStates, TerminalStates
    <2> HIDE DEF r
    <2>3. Paper => \A p \in Oids : orders'[p].state # "INDETERMINATE"
      BY <1>0, <2>1, <2>2, RowSaved DEF Backed
    <2> QED BY <1>37, <1>0, <2>1, <2>3, BackedKept DEF MoveCancelled, Backed
  <1>38. CASE MoveAbandoned /\ call = "lost"
    <2> DEFINE r == Transition(orders[cur], "INDETERMINATE")
    <2>1. cur \in Oids /\ Save(cur, r)
      BY <1>38, <1>0 DEF MoveAbandoned, CallSound, SaveState
    <2>2. Paper => r.state # "INDETERMINATE"
      <3>1. orders[cur] \in Row
        BY <1>0, <2>1
      <3> QED BY <1>38, <3>1, TransitionRow
              DEF MoveAbandoned, Backed, OrderState, LiveStates, TerminalStates
    <2> HIDE DEF r
    <2>3. Paper => \A p \in Oids : orders'[p].state # "INDETERMINATE"
      BY <1>0, <2>1, <2>2, RowSaved DEF Backed
    <2> QED BY <1>38, <1>0, <2>1, <2>3, BackedKept DEF MoveAbandoned, Backed
  <1>39. CASE MoveAbandoned /\ call # "lost"
    BY <1>39, <1>0, BackedKept DEF MoveAbandoned, Backed
  <1>40. ASSUME NEW o \in Oids, SweepNext(o), orders[o].state = "PENDING" PROVE Backed'
    <2> DEFINE r == Transition(orders[o], "EXPIRED")
    <2>1. o \in Oids /\ Save(o, r)
      BY <1>40, <1>0 DEF SweepNext, SaveState
    <2>2. Paper => r.state # "INDETERMINATE"
      <3>1. orders[o] \in Row
        BY <1>0, <2>1
      <3> QED BY <1>40, <3>1, TransitionRow
              DEF SweepNext, Backed, OrderState, LiveStates, TerminalStates
    <2> HIDE DEF r
    <2>3. Paper => \A p \in Oids : orders'[p].state # "INDETERMINATE"
      BY <1>0, <2>1, <2>2, RowSaved DEF Backed
    <2> QED BY <1>40, <1>0, <2>1, <2>3, BackedKept DEF SweepNext, Backed
  <1>41. ASSUME NEW o \in Oids, SweepNext(o), orders[o].state # "PENDING" PROVE Backed'
    BY <1>41, <1>0, BackedKept DEF SweepNext, Backed
  <1>42. CASE PlaceAnswered
    <2> DEFINE r == Answered(orders[cur])
    <2>1. cur \in Oids /\ Save(cur, r)
      BY <1>42, <1>0 DEF PlaceAnswered, CallSound
    <2>2. Paper => r.state # "INDETERMINATE"
      <3>1. orders[cur] \in Row
        BY <1>0, <2>1
      <3> QED BY <3>1, AnsweredRow DEF Backed
    <2> HIDE DEF r
    <2>3. Paper => \A p \in Oids : orders'[p].state # "INDETERMINATE"
      BY <1>0, <2>1, <2>2, RowSaved DEF Backed
    <2> QED BY <1>42, <1>0, <2>1, <2>3, BackedKept DEF PlaceAnswered, Backed
  <1>43. ASSUME NEW o \in Oids, SavePending(o) PROVE Backed'
    <2> DEFINE r == NewOrder(Size)
    <2>1. o \in Oids /\ Save(o, r)
      BY <1>43, <1>0 DEF SavePending, CallSound
    <2>2. Paper => r.state # "INDETERMINATE"
      <3>1. orders[o] \in Row
        BY <1>0, <2>1
      <3> QED BY DEF NewOrder
    <2> HIDE DEF r
    <2>3. Paper => \A p \in Oids : orders'[p].state # "INDETERMINATE"
      BY <1>0, <2>1, <2>2, RowSaved DEF Backed
    <2> QED BY <1>43, <1>0, <2>1, <2>3, BackedKept DEF SavePending, Backed
  <1>44. CASE SaveSuccessor
    <2> DEFINE s == Successor(cur)
               r == NewOrder(Remaining(orders[cur]))
    <2>1. s \in Oids /\ Save(s, r)
      BY <1>44, <1>0, SuccessorOid DEF SaveSuccessor, CallSound
    <2>2. r.state # "INDETERMINATE"
      BY DEF NewOrder
    <2> HIDE DEF r, s
    <2>3. Paper => \A p \in Oids : orders'[p].state # "INDETERMINATE"
      BY <1>0, <2>1, <2>2, RowSaved DEF Backed
    <2> QED BY <1>44, <1>0, <2>3, BackedKept DEF SaveSuccessor, Backed
  <1>45. CASE CountFill
    <2> DEFINE r == ApplyFill(orders[cur])
    <2>1. cur \in Oids /\ Save(cur, r) /\ pc = "apply"
      BY <1>45, <1>0 DEF CountFill, CallSound
    <2>2. orders[cur] \in Row /\ orders[cur].filled <= orders[cur].size
      BY <1>0, <2>1 DEF IInv, RowsSound
    <2>3. r.state \in {"PARTIAL", "FILLED"}
      BY <2>2, FilledRow
    <2> HIDE DEF r
    <2>4. Paper => \A p \in Oids : orders'[p].state # "INDETERMINATE"
      BY <1>0, <2>1, <2>3, RowSaved DEF Backed
    <2> QED BY <1>45, <1>0, <2>1, <2>4, BackedKept DEF CountFill, Backed
  <1>46. CASE ExpirePending
    <2>1. ASSUME NEW p \in Oids, Paper PROVE orders'[p].state # "INDETERMINATE"
      <3>1. orders[p] \in Row /\ orders[p].state # "INDETERMINATE"
        BY <1>0, <2>1 DEF Backed
      <3>2. Transition(orders[p], "EXPIRED").state = "EXPIRED"
        BY <3>1, TransitionRow DEF OrderState, TerminalStates
      <3> QED BY <1>46, <1>0, <3>1, <3>2 DEF ExpirePending
    <2> QED BY <1>46, <1>0, <2>1, BackedKept DEF ExpirePending, Backed
  <1> QED BY <1>1, <1>2, <1>3, <1>4, <1>5, <1>6, <1>7, <1>8, <1>9, <1>10, <1>11, <1>12,
          <1>13, <1>14, <1>15, <1>16, <1>17, <1>18, <1>19, <1>20, <1>21, <1>22, <1>23,
          <1>24, <1>25, <1>26, <1>27, <1>28, <1>29, <1>30, <1>31, <1>32, <1>33, <1>34,
          <1>35, <1>36, <1>37, <1>38, <1>39, <1>40, <1>41, <1>42, <1>43, <1>44, <1>45,
          <1>46
          DEF Next, Recovery, TopOfPass, Sweep, CancelAtVenue, Submit, PlaceAtVenue,
          Ingest,
              Reprice, Loop, World

\* The books never claim more than the fills table holds, whatever is replayed
\* after a restart, with the paper adapter and with the token cache the shipped
\* supervisor gives recovery (fill_engine.py).
THEOREM CountedOnce == ASSUME Paper \/ ~ TokensKnown PROVE Spec => []NeverOverstated
  <1>1. Init => Backed
    BY DEF Init, Backed, NoRow
  <1>2. IInv /\ Backed /\ [Next]_vars => Backed'
    BY BackedStep
  <1>3. Backed => NeverOverstated
    BY DEF Backed, NeverOverstated
  <1> QED BY <1>1, <1>2, <1>3, Soundness, PTL DEF Spec

------------------------------------------------------------------------------
(* What a step does to the venue and to the fills table *)

\* Every other step of the engine leaves both alone.
VenueActs ==
  \/ Start \/ CancelAccepted \/ PlaceAccepted \/ PlaceLost \/ PlaceErrored
  \/ \E o \in Oids : VenueFill(o) \/ LatePlacement(o) \/ LateCancel(o) \/ RecordFill(o)

Quiet == UNCHANGED <<venues, latePlaces, recorded>>

LEMMA VenueStep ==
  ASSUME [Next]_vars
  PROVE  VenueActs \/ Quiet
  <1> USE DEF durable, venues, lost, world, memory, Quiet
  <1>1. CASE UNCHANGED vars
    BY <1>1 DEF vars
  <1>2. CASE Recovery
    BY <1>2 DEF Recovery, ReconcileListed, ReconcileFailed, ResolveDone, ExpirePending,
                SettleRecovered, Resolve, VenueActs
  <1>3. CASE TopOfPass
    BY <1>3 DEF TopOfPass, Open, Close, Advance, Archive
  <1>4. CASE Sweep
    BY <1>4 DEF Sweep, SweepAnswered, SweepDone, SweepNext
  <1>5. CASE CancelAtVenue
    BY <1>5 DEF CancelAtVenue, CancelRefused, CancelLost, CancelErrored, CancelThrottled,
                VenueActs
  <1>6. CASE Submit
    BY <1>6 DEF Submit, SubmitLadder, Replayed, SavePending
  <1>7. CASE PlaceAtVenue
    BY <1>7 DEF PlaceAtVenue, PlaceRefused, VenueActs
  <1>8. CASE PlaceAnswered
    BY <1>8 DEF PlaceAnswered
  <1>9. CASE Ingest
    BY <1>9 DEF Ingest, Poll, PollRaises, CountFill, FillRefused, IngestDone, VenueActs
  <1>10. CASE Reprice
    BY <1>10 DEF Reprice, MoveAbandoned, MoveCancelled, SaveSuccessor, RepriceDone,
                 LeaveAlone, KeepPrice, BeginMove
  <1>11. CASE World
    BY <1>11 DEF World, ClockCloses, VenueActs
  <1>12. CASE Crash
    BY <1>12 DEF Crash
  <1> QED BY <1>1, <1>2, <1>3, <1>4, <1>5, <1>6, <1>7, <1>8, <1>9, <1>10, <1>11, <1>12
          DEF Next, Loop

\* A row that exists keeps its size.
LEMMA SizesKept ==
  ASSUME IInv, [Next]_vars
  PROVE  \A o \in Oids : orders[o].state # "NONE" =>
           orders'[o].state # "NONE" /\ orders'[o].size = orders[o].size
  <1> SUFFICES ASSUME NEW o \in Oids, orders[o].state # "NONE"
               PROVE  orders'[o].state # "NONE" /\ orders'[o].size = orders[o].size
    OBVIOUS
  <1>1. RowStep(o)
    BY AllRowsStep
  <1>2. orders[o] # NoRow
    BY DEF NoRow
  <1>3. orders'[o].state # "NONE" \/ orders'[o] = NoRow
    BY IInvStep DEF IInv, RowsSound
  <1> QED BY <1>1, <1>2, <1>3 DEF RowStep

------------------------------------------------------------------------------
(* Closed orders: ClosedUnlessRefused, where recovery asks about nothing *)

\* What is executed and recorded of an order the venue accepted, and may still be.
FillsSound ==
  \A o \in Oids :
    /\ orders[o].state # "NONE" => orders[o].size > 0
    /\ accepted[o] = 0 => executed[o] = 0 /\ recorded[o] = 0 /\ o \notin resting
    /\ o \in resting => recorded[o] <= executed[o] /\ executed[o] < orders[o].size
    /\ ~ Paper => recorded[o] <= executed[o]

\* What is repriced has something left.
WorkSound ==
  /\ pc \in {"reprice", "replace"} \/ (pc = "place" /\ cur[2] > 0)
       => \A o \in todo : Remaining(orders[o]) > 0
  /\ (pc = "reprice" /\ cur # None) \/ pc = "replace" => Remaining(orders[cur]) > 0

\* An answer is about the call in hand.  A cancel that succeeded is final; so is one that
\* the paper venue refused, which refuses no placement.
AnswersSound ==
  /\ cur = None \/ pc = "apply" => call = "none"
  /\ pc = "place" => call # "throttled" /\ (Paper => call # "refused")
  /\ pc = "sweep" /\ cur # None /\ (call = "ok" \/ (Paper /\ call = "refused"))
       => ~ MayRest(cur)

LEMMA FillsStep ==
  ASSUME IInv, FillsSound, WorkSound, [Next]_vars
  PROVE  FillsSound'
  <1> USE DEF durable, venues, lost, world, memory
  <1>0. /\ TypeOK /\ TypeOK' /\ RowsSound /\ WireSound /\ CallSound
        /\ \A o \in Oids : RowStep(o)
    BY AllRowsStep, IInvStep DEF IInv
  <1>1. ASSUME NEW o \in Oids, orders'[o].state # "NONE" PROVE orders'[o].size > 0
    <2>1. CASE orders[o].state # "NONE"
      BY <1>1, <2>1, SizesKept DEF FillsSound
    <2>2. CASE orders[o].state = "NONE"
      <3>1. orders[o] = NoRow /\ orders'[o] # NoRow
        BY <1>0, <1>1, <2>2 DEF RowsSound, NoRow
      <3>2. CASE o[2] > 0
        BY <1>0, <3>1, <3>2 DEF RowStep, WorkSound
      <3>3. CASE ~ (o[2] > 0)
        BY <1>0, <3>1, <3>3, SizeAssumption DEF RowStep
      <3> QED BY <3>2, <3>3
    <2> QED BY <2>1, <2>2
  <1>2. \A o \in Oids : o \in resting \/ o \in latePlaces => orders'[o].size = orders[o].size
    BY <1>0, SizesKept DEF RowsSound, MayRest
  <1>3. \A o \in Oids : accepted[o] \in Nat /\ executed[o] \in Nat /\ recorded[o] \in Nat
    BY <1>0 DEF TypeOK
  <1> SUFFICES ASSUME NEW o \in Oids
               PROVE  /\ accepted'[o] = 0
                          => executed'[o] = 0 /\ recorded'[o] = 0 /\ o \notin resting'
                      /\ o \in resting'
                          => recorded'[o] <= executed'[o] /\ executed'[o] < orders'[o].size
                      /\ ~ Paper => recorded'[o] <= executed'[o]
    BY <1>1 DEF FillsSound
  <1>4. CASE Quiet
    BY <1>2, <1>4 DEF FillsSound, Quiet
  <1>5. CASE Start
    BY <1>0, <1>2, <1>3, <1>5 DEF FillsSound, Start, TypeOK
  <1>6. CASE CancelAccepted
    BY <1>2, <1>6 DEF FillsSound, CancelAccepted
  <1>7. CASE PlaceLost \/ PlaceErrored
    BY <1>2, <1>7 DEF FillsSound, PlaceLost, PlaceErrored
  <1>8. CASE PlaceAccepted
    <2>1. /\ cur \in Oids /\ accepted[cur] = 0 /\ orders[cur].state # "NONE"
          /\ accepted' = [accepted EXCEPT ![cur] = accepted[cur] + 1]
          /\ resting' = resting \union {cur}
          /\ UNCHANGED <<orders, executed, recorded>>
      BY <1>0, <1>8 DEF PlaceAccepted, Placing, CallSound
    <2>2. accepted \in [Oids -> Nat]
      BY <1>0 DEF TypeOK
    <2> QED BY <1>3, <2>1, <2>2 DEF FillsSound
  <1>9. ASSUME NEW p \in Oids, LatePlacement(p)
        PROVE  /\ accepted'[o] = 0
                   => executed'[o] = 0 /\ recorded'[o] = 0 /\ o \notin resting'
               /\ o \in resting'
                   => recorded'[o] <= executed'[o] /\ executed'[o] < orders'[o].size
               /\ ~ Paper => recorded'[o] <= executed'[o]
    <2>1. /\ accepted[p] = 0 /\ orders[p].state # "NONE"
          /\ accepted' = [accepted EXCEPT ![p] = accepted[p] + 1]
          /\ resting' = resting \union {p}
          /\ UNCHANGED <<orders, executed, recorded>>
      BY <1>0, <1>9 DEF LatePlacement, WireSound, RowsSound, MayRest
    <2>2. accepted \in [Oids -> Nat]
      BY <1>0 DEF TypeOK
    <2> QED BY <1>3, <2>1, <2>2 DEF FillsSound
  <1>10. ASSUME NEW p \in Oids, VenueFill(p)
         PROVE  /\ accepted'[o] = 0
                    => executed'[o] = 0 /\ recorded'[o] = 0 /\ o \notin resting'
                /\ o \in resting'
                    => recorded'[o] <= executed'[o] /\ executed'[o] < orders'[o].size
                /\ ~ Paper => recorded'[o] <= executed'[o]
    <2>1. /\ p \in resting /\ executed' = [executed EXCEPT ![p] = executed[p] + 1]
          /\ resting' = IF executed[p] + 1 < orders[p].size THEN resting ELSE resting \ {p}
          /\ UNCHANGED <<orders, accepted, recorded>>
      BY <1>10 DEF VenueFill
    <2>2. executed \in [Oids -> Nat]
      BY <1>0 DEF TypeOK
    <2>3. CASE o = p
      BY <1>3, <2>1, <2>2, <2>3 DEF FillsSound
    <2>4. CASE o # p
      BY <1>3, <2>1, <2>2, <2>4 DEF FillsSound
    <2> QED BY <2>3, <2>4
  <1>11. ASSUME NEW p \in Oids, LateCancel(p)
         PROVE  /\ accepted'[o] = 0
                    => executed'[o] = 0 /\ recorded'[o] = 0 /\ o \notin resting'
                /\ o \in resting'
                    => recorded'[o] <= executed'[o] /\ executed'[o] < orders'[o].size
                /\ ~ Paper => recorded'[o] <= executed'[o]
    BY <1>2, <1>11 DEF FillsSound, LateCancel
  <1>12. ASSUME NEW p \in Oids, RecordFill(p)
         PROVE  /\ accepted'[o] = 0
                    => executed'[o] = 0 /\ recorded'[o] = 0 /\ o \notin resting'
                /\ o \in resting'
                    => recorded'[o] <= executed'[o] /\ executed'[o] < orders'[o].size
                /\ ~ Paper => recorded'[o] <= executed'[o]
    <2>1. /\ executed[p] > recorded[p] /\ recorded' = [recorded EXCEPT ![p] = recorded[p] + 1]
          /\ UNCHANGED <<orders, venues>>
      BY <1>3, <1>12 DEF RecordFill, Unrecorded, Reported
    <2>2. recorded \in [Oids -> Nat]
      BY <1>0 DEF TypeOK
    <2> QED BY <1>3, <2>1, <2>2 DEF FillsSound
  <1> QED BY <1>4, <1>5, <1>6, <1>7, <1>8, <1>9, <1>10, <1>11, <1>12, VenueStep DEF VenueActs

\* Only a placement puts an order on the book or on the wire.
LEMMA RestStep ==
  ASSUME IInv, [Next]_vars
  PROVE  \A o \in Oids : MayRest(o)' => MayRest(o) \/ (Placing /\ o = cur)
  <1> USE DEF durable, venues, lost, world, memory, MayRest
  <1>1. CASE Quiet
    BY <1>1 DEF Quiet
  <1>2. CASE Start
    BY <1>2 DEF Start
  <1>3. CASE CancelAccepted
    BY <1>3 DEF CancelAccepted
  <1>4. CASE PlaceAccepted
    BY <1>4 DEF PlaceAccepted
  <1>5. CASE PlaceLost \/ PlaceErrored
    BY <1>5 DEF PlaceLost, PlaceErrored
  <1>6. ASSUME NEW p \in Oids, VenueFill(p) \/ LatePlacement(p) \/ LateCancel(p) \/ RecordFill(p)
        PROVE  \A o \in Oids : MayRest(o)' => MayRest(o)
    BY <1>6 DEF VenueFill, LatePlacement, LateCancel, RecordFill
  <1> QED BY <1>1, <1>2, <1>3, <1>4, <1>5, <1>6, VenueStep DEF VenueActs

\* Between two polls no row loses any of what is left of it.
LEMMA RemainsKept ==
  ASSUME IInv, [Next]_vars, pc \notin {"apply", "resolve"}
  PROVE  \A o \in Oids : orders[o].state # "NONE" /\ Remaining(orders[o]) > 0
                             => Remaining(orders'[o]) > 0
  <1> SUFFICES ASSUME NEW o \in Oids, orders[o].state # "NONE", Remaining(orders[o]) > 0
               PROVE  Remaining(orders'[o]) > 0
    OBVIOUS
  <1>1. orders'[o].size = orders[o].size /\ orders'[o].filled = orders[o].filled
    BY SizesKept, AllRowsStep DEF RowStep, MayCount
  <1>2. orders[o] \in Row /\ orders'[o] \in Row
    BY IInvStep DEF IInv, TypeOK
  <1> QED BY <1>1, <1>2, SizeAssumption DEF Remaining, Row

LEMMA WorkStep ==
  ASSUME IInv, WorkSound, [Next]_vars
  PROVE  WorkSound'
  <1> USE DEF durable, venues, lost, world, memory
  <1>0. CallSound /\ TodoSound /\ PendingSound
    BY DEF IInv
  <1>a. pc \in {"sweep", "reprice", "replace"} \/ (pc = "place" /\ cur[2] > 0)
          => \A o \in todo : o \in Oids /\ orders[o].state # "NONE"
    BY <1>0 DEF TodoSound, LiveRows, IsLive, LiveStates
  <1>b. pc \in {"reprice", "replace"} \/ (pc = "place" /\ cur[2] > 0)
          => \A o \in todo : Remaining(orders'[o]) > 0
    BY <1>a, RemainsKept DEF WorkSound
  <1>c. (pc = "reprice" /\ cur # None) \/ pc = "replace"
          => cur \in Oids /\ orders[cur].state # "NONE" /\ Remaining(orders'[cur]) > 0
    BY <1>0, RemainsKept DEF WorkSound, CallSound, Movable
  <1> HIDE DEF Remaining
  <1>1. CASE pc' \notin {"place", "sweep", "reprice", "replace"}
    BY <1>1 DEF WorkSound
  <1>2. CASE Close
    BY <1>0, <1>2 DEF Close, CallSound, WorkSound
  <1>3. CASE IngestDone
    <2>1. /\ pc' = "reprice" /\ cur' = None /\ UNCHANGED orders
          /\ todo' = {o \in LiveRows : Remaining(orders[o]) > 0}
      BY <1>0, <1>3 DEF IngestDone, CallSound
    <2> QED BY <2>1 DEF WorkSound
  <1>4. CASE SweepAnswered
    BY <1>4 DEF SweepAnswered, WorkSound
  <1>5. ASSUME NEW o \in Oids, SweepNext(o) PROVE WorkSound'
    BY <1>0, <1>5 DEF SweepNext, WorkSound, PendingSound
  <1>6. CASE CancelAtVenue
    <2>1. UNCHANGED <<pc, cur, todo>> /\ pc \in {"sweep", "reprice"}
      BY <1>6 DEF CancelAtVenue, CancelAccepted, CancelRefused, CancelErrored, CancelLost,
                  CancelThrottled, Cancelling
    <2> QED BY <1>b, <1>c, <2>1 DEF WorkSound
  <1>9. ASSUME NEW o \in Oids, SavePending(o) PROVE WorkSound'
    <2>1. pc' = "place" /\ cur' = o /\ call' = "none" /\ ~ (o[2] > 0)
      BY <1>0, <1>9 DEF SavePending, TodoSound
    <2> QED BY <2>1 DEF WorkSound
  <1>10. CASE PlaceAtVenue
    <2>1. pc = "place" /\ UNCHANGED <<pc, cur, todo>>
      BY <1>10 DEF PlaceAtVenue, PlaceAccepted, PlaceRefused, PlaceErrored, PlaceLost, Placing
    <2> QED BY <1>b, <2>1 DEF WorkSound
  <1>12. CASE PlaceAnswered /\ cur[2] > 0
    <2>1. pc = "place" /\ pc' = "reprice" /\ cur' = None /\ UNCHANGED todo
      BY <1>12 DEF PlaceAnswered
    <2> QED BY <1>b, <1>12, <2>1 DEF WorkSound
  <1>13. ASSUME NEW o \in Oids, LeaveAlone(o) \/ KeepPrice(o) PROVE WorkSound'
    <2>1. pc = "reprice" /\ pc' = "reprice" /\ cur' = None /\ todo' \subseteq todo
      BY <1>13 DEF LeaveAlone, KeepPrice, Repricing
    <2> QED BY <1>b, <2>1 DEF WorkSound
  <1>14. ASSUME NEW o \in Oids, BeginMove(o) PROVE WorkSound'
    <2>1. pc = "reprice" /\ pc' = "reprice" /\ cur' = o /\ o \in todo /\ todo' \subseteq todo
      BY <1>14 DEF BeginMove, Repricing
    <2> QED BY <1>b, <2>1 DEF WorkSound
  <1>15. CASE MoveAbandoned
    <2>1. pc = "reprice" /\ pc' = "reprice" /\ cur' = None /\ UNCHANGED todo
      BY <1>15 DEF MoveAbandoned
    <2> QED BY <1>b, <2>1 DEF WorkSound
  <1>16. CASE MoveCancelled
    <2>1. pc = "reprice" /\ pc' = "replace" /\ cur # None /\ UNCHANGED <<cur, todo>>
      BY <1>16 DEF MoveCancelled
    <2> QED BY <1>b, <1>c, <2>1 DEF WorkSound
  <1>17. CASE SaveSuccessor
    <2>1. pc = "replace" /\ pc' = "place" /\ call' = "none" /\ UNCHANGED todo
      BY <1>17 DEF SaveSuccessor
    <2> QED BY <1>b, <2>1 DEF WorkSound
  <1>18. CASE World \/ UNCHANGED vars
    <2>1. UNCHANGED <<orders, pc, cur, call, todo>>
      BY <1>18 DEF World, ClockCloses, VenueFill, LatePlacement, LateCancel, vars
    <2> QED BY <2>1 DEF WorkSound
  <1>19. CASE Recovery
    BY <1>1, <1>19 DEF Recovery, Start, ReconcileListed, ReconcileFailed, ResolveDone,
                       ExpirePending, SettleRecovered, Resolve
  <1>20. CASE TopOfPass
    BY <1>1, <1>2, <1>20 DEF TopOfPass, Open, Advance, Archive
  <1>21. CASE SubmitLadder \/ \E o \in Oids : Replayed(o)
    BY <1>1, <1>21 DEF SubmitLadder, Replayed
  <1>22. CASE PlaceAnswered /\ ~ (cur[2] > 0)
    BY <1>1, <1>22 DEF PlaceAnswered
  <1>23. CASE Ingest
    BY <1>1, <1>3, <1>23 DEF Ingest, Poll, PollRaises, CountFill, FillRefused, RecordFill
  <1>24. CASE SweepDone \/ RepriceDone \/ Crash
    BY <1>1, <1>24 DEF SweepDone, RepriceDone, Crash
  <1> QED BY <1>4, <1>5, <1>6, <1>9, <1>10, <1>12, <1>13, <1>14, <1>15,
             <1>16, <1>17, <1>18, <1>19, <1>20, <1>21, <1>22, <1>23, <1>24
          DEF Next, Sweep, Submit, Reprice, Loop

\* What a step does to the answer in hand: it is dropped, given, taken along into the
\* replacement, or left.
LEMMA AnswerMoves ==
  ASSUME IInv, AnswersSound, [Next]_vars
  PROVE  \/ call' = "none" \/ CancelAtVenue \/ PlaceAtVenue \/ MoveCancelled
         \/ UNCHANGED <<pc, cur, call>>
  <1> USE DEF durable, venues, lost, world, memory
  <1>0. CallSound /\ (cur = None \/ pc = "apply" => call = "none")
    BY DEF IInv, AnswersSound
  <1>1. CASE UNCHANGED vars
    BY <1>1 DEF vars
  <1>2. CASE Recovery
    BY <1>0, <1>2 DEF Recovery, Start, ReconcileListed, ReconcileFailed, ResolveDone,
                      ExpirePending, SettleRecovered, Resolve, CallSound
  <1>3. CASE TopOfPass
    BY <1>0, <1>3 DEF TopOfPass, Open, Close, Advance, Archive, CallSound
  <1>4. CASE Sweep
    BY <1>0, <1>4 DEF Sweep, SweepDone, SweepAnswered, SweepNext
  <1>5. CASE Submit
    BY <1>0, <1>5 DEF Submit, SubmitLadder, Replayed, SavePending, CallSound
  <1>6. CASE PlaceAnswered
    BY <1>6 DEF PlaceAnswered
  <1>7. CASE Ingest
    BY <1>0, <1>7 DEF Ingest, Poll, PollRaises, FillRefused, IngestDone, RecordFill,
                      CountFill, CallSound
  <1>8. CASE Reprice
    BY <1>0, <1>8 DEF Reprice, RepriceDone, LeaveAlone, KeepPrice, BeginMove, Repricing,
                      MoveAbandoned, SaveSuccessor
  <1>9. CASE World \/ Crash
    BY <1>9 DEF World, ClockCloses, VenueFill, LatePlacement, LateCancel, Crash
  <1> QED BY <1>1, <1>2, <1>3, <1>4, <1>5, <1>6, <1>7, <1>8, <1>9 DEF Next, Loop

LEMMA AnswersStep ==
  ASSUME IInv, AnswersSound, [Next]_vars
  PROVE  AnswersSound'
  <1> USE DEF durable, venues, lost, world, memory
  <1>0. /\ TypeOK /\ RowsSound /\ WireSound /\ CallSound
        /\ \A o \in Oids : MayRest(o)' => MayRest(o) \/ (Placing /\ o = cur)
    BY RestStep DEF IInv
  <1> HIDE DEF MayRest
  <1>1. CASE call' = "none"
    BY <1>1 DEF AnswersSound
  <1>2. CASE CancelAtVenue
    <2>1. /\ cur \in Oids /\ cur # None /\ UNCHANGED <<pc, cur>> /\ pc \in {"sweep", "reprice"}
      BY <1>0, <1>2, OidParts
         DEF CancelAtVenue, CancelAccepted, CancelRefused, CancelErrored, CancelLost,
             CancelThrottled, Cancelling, CallSound
    <2>2. call' = "ok" \/ (Paper /\ call' = "refused") => ~ MayRest(cur)'
      BY <1>0, <1>2, <2>1
         DEF CancelAtVenue, CancelAccepted, CancelRefused, CancelErrored, CancelLost,
             CancelThrottled, CanReach, MayRest, WireSound, RowsSound
    <2> QED BY <2>1, <2>2 DEF AnswersSound
  <1>3. CASE PlaceAtVenue
    <2>1. /\ cur \in Oids /\ cur # None /\ UNCHANGED <<pc, cur>> /\ pc = "place"
          /\ call' # "throttled" /\ (Paper => call' # "refused")
      BY <1>0, <1>3, OidParts
         DEF PlaceAtVenue, PlaceAccepted, PlaceRefused, PlaceErrored, PlaceLost, Placing, CallSound
    <2> QED BY <2>1 DEF AnswersSound
  <1>4. CASE MoveCancelled
    <2>1. cur # None /\ UNCHANGED <<cur, call>> /\ pc' = "replace"
      BY <1>4 DEF MoveCancelled
    <2> QED BY <2>1 DEF AnswersSound
  <1>5. CASE UNCHANGED <<pc, cur, call>> /\ call # "none"
    <2>1. pc = "sweep" /\ cur # None => cur \in Oids
      BY <1>0 DEF CallSound
    <2> QED BY <1>0, <1>5, <2>1 DEF AnswersSound, Placing
  <1> QED BY <1>1, <1>2, <1>3, <1>4, <1>5, AnswerMoves

\* The steps that write a row; every other step leaves all of them alone.
RowActs ==
  \/ ExpirePending \/ SweepAnswered \/ PlaceAnswered \/ CountFill
  \/ MoveAbandoned \/ MoveCancelled \/ SaveSuccessor
  \/ \E o \in Oids : Resolve(o) \/ SweepNext(o) \/ SavePending(o)

LEMMA RowWrites ==
  ASSUME [Next]_vars
  PROVE  (RowActs /\ UNCHANGED <<venues, latePlaces, recorded>>) \/ UNCHANGED orders
  <1> USE DEF durable, venues, lost, world, memory, RowActs
  <1>1. CASE UNCHANGED vars
    BY <1>1 DEF vars
  <1>2. CASE Recovery
    BY <1>2 DEF Recovery, Start, ReconcileListed, ReconcileFailed, ResolveDone,
                ExpirePending, SettleRecovered, Resolve
  <1>3. CASE TopOfPass
    BY <1>3 DEF TopOfPass, Open, Close, Advance, Archive
  <1>4. CASE Sweep
    BY <1>4 DEF Sweep, SweepDone, SweepAnswered, SweepNext
  <1>5. CASE CancelAtVenue
    BY <1>5 DEF CancelAtVenue, CancelAccepted, CancelRefused, CancelLost, CancelErrored,
                CancelThrottled
  <1>6. CASE Submit
    BY <1>6 DEF Submit, SubmitLadder, Replayed, SavePending
  <1>7. CASE PlaceAtVenue
    BY <1>7 DEF PlaceAtVenue, PlaceAccepted, PlaceRefused, PlaceLost, PlaceErrored
  <1>8. CASE PlaceAnswered
    BY <1>8 DEF PlaceAnswered
  <1>9. CASE Ingest
    BY <1>9 DEF Ingest, Poll, PollRaises, FillRefused, IngestDone, RecordFill, CountFill
  <1>10. CASE Reprice
    BY <1>10 DEF Reprice, RepriceDone, LeaveAlone, KeepPrice, BeginMove,
                 MoveAbandoned, MoveCancelled, SaveSuccessor
  <1>11. CASE World
    BY <1>11 DEF World, ClockCloses, VenueFill, LatePlacement, LateCancel
  <1>12. CASE Crash
    BY <1>12 DEF Crash
  <1> QED BY <1>1, <1>2, <1>3, <1>4, <1>5, <1>6, <1>7, <1>8, <1>9, <1>10, <1>11, <1>12
          DEF Next, Loop

\* What may still rest is not filled, and closed only if its last request was refused.
GoneSound ==
  \A o \in Oids : MayRest(o) =>
    /\ orders[o].state # "FILLED"
    /\ orders[o].state \in {"CANCELLED", "REJECTED"} => o \in refused

\* The refusal in hand is on record.
RefusalSound == call = "refused" /\ ~ Paper => cur \in refused

LEMMA GoneKept ==
  ASSUME orders \in [Oids -> Row], GoneSound, UNCHANGED <<venues, latePlaces, recorded>>,
         NEW x \in Oids, NEW r, Save(x, r),
         MayRest(x) => /\ r.state # "FILLED"
                       /\ r.state \in {"CANCELLED", "REJECTED"} => x \in refused
  PROVE  \A o \in Oids : MayRest(o)' =>
           /\ orders'[o].state # "FILLED"
           /\ orders'[o].state \in {"CANCELLED", "REJECTED"} => o \in refused
  <1>1. orders'[x] = r /\ \A p \in Oids \ {x} : orders'[p] = orders[p]
    BY RowSaved
  <1> QED BY <1>1 DEF GoneSound, MayRest, venues

LEMMA GoneStep ==
  ASSUME Paper \/ ~ TokensKnown, IInv, Backed, FillsSound, AnswersSound, GoneSound,
         RefusalSound, [Next]_vars
  PROVE  \A o \in Oids : MayRest(o)' =>
           /\ orders'[o].state # "FILLED"
           /\ orders'[o].state \in {"CANCELLED", "REJECTED"} => o \in refused
  <1>0. /\ TypeOK /\ orders \in [Oids -> Row] /\ RowsSound /\ WireSound /\ CallSound
        /\ TodoSound /\ PendingSound
        /\ \A o \in Oids : MayRest(o)' => MayRest(o) \/ (Placing /\ o = cur)
    BY RestStep DEF IInv, TypeOK
  <1> DEFINE Gone == \A o \in Oids : MayRest(o)' =>
                       /\ orders'[o].state # "FILLED"
                       /\ orders'[o].state \in {"CANCELLED", "REJECTED"} => o \in refused
  <1>1. CASE UNCHANGED orders
    <2>1. Placing => orders[cur].state = "PENDING"
      BY <1>0 DEF Placing, CallSound
    <2> QED BY <1>0, <1>1, <2>1 DEF GoneSound
  <1> SUFFICES ASSUME RowActs, UNCHANGED <<venues, latePlaces, recorded>> PROVE Gone
    BY <1>1, RowWrites
  <1>2. CASE ExpirePending
    <2>1. ASSUME NEW o \in Oids, orders'[o].state \in {"FILLED", "CANCELLED", "REJECTED"}
          PROVE  orders[o].state = orders'[o].state
      <3>1. orders[o] \in Row
        BY <1>0
      <3>2. Transition(orders[o], "EXPIRED").state = "EXPIRED"
        BY <3>1, TransitionRow DEF OrderState, TerminalStates
      <3> QED BY <1>0, <1>2, <2>1, <3>2 DEF ExpirePending
    <2> QED BY <2>1 DEF GoneSound, MayRest, venues
  <1>3. CASE SweepAnswered
    <2> DEFINE r == Transition(orders[cur],
                 IF call \in {"ok", "refused"} THEN "CANCELLED" ELSE "INDETERMINATE")
    <2>1. cur \in Oids /\ cur # None /\ pc = "sweep" /\ Save(cur, r)
      BY <1>0, <1>3 DEF SweepAnswered, CallSound, SaveState
    <2>2. orders[cur] \in Row
      BY <1>0, <2>1
    <2>3. r.state = IF call \in {"ok", "refused"} THEN "CANCELLED" ELSE "INDETERMINATE"
      BY <2>2, TransitionRow DEF OrderState, LiveStates, TerminalStates
    <2>4. r.state # "FILLED" /\ (r.state = "CANCELLED" /\ MayRest(cur) => cur \in refused)
          /\ r.state # "REJECTED"
      BY <2>1, <2>3 DEF AnswersSound, RefusalSound
    <2> HIDE DEF r
    <2> QED BY <1>0, <2>1, <2>4, GoneKept
  <1>4. CASE PlaceAnswered
    <2>1. cur \in Oids /\ pc = "place" /\ call # "none" /\ Save(cur, Answered(orders[cur]))
      BY <1>0, <1>4 DEF PlaceAnswered, CallSound
    <2>2. orders[cur] \in Row
      BY <1>0, <2>1
    <2>3. /\ Answered(orders[cur]).state \notin {"FILLED", "CANCELLED"}
          /\ Answered(orders[cur]).state = "REJECTED" => cur \in refused
      BY <1>0, <2>1, <2>2, AnsweredRow DEF AnswersSound, RefusalSound, TypeOK
    <2> QED BY <1>0, <2>1, <2>3, GoneKept
  <1>5. CASE CountFill
    <2>1. /\ cur \in Oids /\ pc = "apply" /\ cur \notin latePlaces
          /\ Save(cur, ApplyFill(orders[cur]))
      BY <1>0, <1>5 DEF CountFill, CallSound
    <2>2. /\ orders[cur] \in Row /\ orders[cur].filled < recorded[cur]
          /\ recorded[cur] \in Nat /\ executed[cur] \in Nat
      BY <1>0, <2>1 DEF Backed, TypeOK
    <2>3. ApplyFill(orders[cur]).state = "FILLED" => orders[cur].filled + 1 >= orders[cur].size
      BY <2>2, SizeAssumption DEF ApplyFill, Row
    <2>4. ApplyFill(orders[cur]).state = "FILLED" => cur \notin resting
      BY <2>1, <2>2, <2>3, SizeAssumption DEF FillsSound, Row
    <2>5. ApplyFill(orders[cur]).state \in {"PARTIAL", "FILLED"}
      BY <1>0, <2>1, <2>2, FilledRow DEF RowsSound
    <2> QED BY <1>0, <2>1, <2>4, <2>5, GoneKept DEF MayRest
  <1>6. CASE MoveAbandoned
    <2>1. CASE call # "lost"
      BY <1>1, <1>6, <2>1 DEF MoveAbandoned
    <2>2. CASE call = "lost"
      <3>1. cur \in Oids /\ Save(cur, Transition(orders[cur], "INDETERMINATE"))
        BY <1>0, <1>6, <2>2 DEF MoveAbandoned, CallSound, SaveState
      <3>2. orders[cur] \in Row
        BY <1>0, <3>1
      <3>3. Transition(orders[cur], "INDETERMINATE").state = "INDETERMINATE"
        BY <3>2, TransitionRow DEF OrderState, LiveStates
      <3> QED BY <1>0, <3>1, <3>3, GoneKept
    <2> QED BY <2>1, <2>2
  <1>7. CASE MoveCancelled
    <2>1. /\ cur \in Oids /\ cur \notin resting /\ cur \notin latePlaces
          /\ Save(cur, Transition(orders[cur], "CANCELLED"))
      BY <1>0, <1>7 DEF MoveCancelled, CallSound, SaveState, Movable, RowsSound
    <2> QED BY <1>0, <2>1, GoneKept DEF MayRest
  <1>8. CASE SaveSuccessor
    <2>1. Successor(cur) \in Oids /\ Save(Successor(cur), NewOrder(Remaining(orders[cur])))
      BY <1>0, <1>8, SuccessorOid DEF SaveSuccessor, CallSound
    <2>2. NewOrder(Remaining(orders[cur])).state = "PENDING"
      BY DEF NewOrder
    <2> QED BY <1>0, <2>1, <2>2, GoneKept
  <1>9. ASSUME NEW o \in Oids, Resolve(o) PROVE Gone
    BY <1>9 DEF Resolve, Backed
  <1>10. ASSUME NEW o \in Oids, SweepNext(o) PROVE Gone
    <2>1. pc = "sweep" /\ orders[o].state # "PENDING"
      BY <1>0, <1>10 DEF SweepNext, PendingSound
    <2> QED BY <1>1, <1>10, <2>1 DEF SweepNext
  <1>11. ASSUME NEW o \in Oids, SavePending(o) PROVE Gone
    <2>1. NewOrder(Size).state = "PENDING"
      BY DEF NewOrder
    <2> QED BY <1>0, <1>11, <2>1, GoneKept DEF SavePending
  <1> QED BY <1>2, <1>3, <1>4, <1>5, <1>6, <1>7, <1>8, <1>9, <1>10, <1>11 DEF RowActs

\* A request that is answered well takes its order off the record of refusals, and that
\* order is live, or gone.
Refusals ==
  refused' = IF Paper \/ call' = "none" THEN refused
             ELSE IF call' = "refused" THEN refused \union {cur'} ELSE refused \ {cur'}

LEMMA RefusedKept ==
  ASSUME IInv, AnswersSound, [Next]_vars, Refusals \/ (UNCHANGED vars /\ UNCHANGED refused),
         NEW o \in Oids, MayRest(o)', orders'[o].state \in {"CANCELLED", "REJECTED"}, o \in refused
  PROVE  o \in refused'
  <1>1. CallSound' /\ AnswersSound'
    BY IInvStep, AnswersStep DEF IInv
  <1>2. CASE Refusals /\ ~ Paper /\ call' \notin {"none", "refused"} /\ o = cur'
    <2>1. cur' # None /\ pc' # "apply"
      BY <1>1, <1>2 DEF AnswersSound
    <2>2. pc' \in {"place", "replace", "reprice", "sweep"}
      BY <1>1, <2>1 DEF CallSound
    <2> QED BY <1>1, <1>2, <2>1, <2>2 DEF CallSound, Movable, LiveStates
  <1> QED BY <1>2 DEF Refusals

LEMMA RefusalStep ==
  ASSUME IInv, AnswersSound, RefusalSound, [Next]_vars,
         Refusals \/ (UNCHANGED vars /\ UNCHANGED refused)
  PROVE  RefusalSound'
  BY DEF RefusalSound, Refusals, vars, memory

ClosedSound == Backed /\ FillsSound /\ WorkSound /\ AnswersSound

LEMMA InitClosedSound ==
  ASSUME Init
  PROVE  ClosedSound
  <1>1. \A o \in Oids : orders[o].state = "NONE" /\ orders[o].filled = 0
    BY DEF Init, NoRow
  <1> QED BY <1>1 DEF Init, ClosedSound, Backed, FillsSound, WorkSound, AnswersSound

LEMMA ClosedStep ==
  ASSUME Paper \/ ~ TokensKnown, IInv, ClosedSound, [Next]_vars
  PROVE  ClosedSound'
  BY BackedStep, FillsStep, WorkStep, AnswersStep DEF ClosedSound

LEMMA HistoryStutters ==
  ASSUME [HistoryNext]_<<vars, rested, refused>>
  PROVE  [Next]_vars /\ (Refusals \/ (UNCHANGED vars /\ UNCHANGED refused))
  BY DEF HistoryNext, Refusals

LEMMA HistoryImplementsSpec == HistorySpec => Spec
  <1>1. HistoryInit => Init
    BY DEF HistoryInit
  <1>2. [HistoryNext]_<<vars, rested, refused>> => [Next]_vars
    BY HistoryStutters
  <1> QED BY <1>1, <1>2, PTL DEF HistorySpec, Spec

\* No order the books call filled is still on the venue's book, and one they call cancelled
\* or rejected is there only if the last request about it was refused, whichever of the
\* sweep, the repricer and the submitter closed it and whatever was lost, late or cut short
\* (sweep.py, reprice.py, placement.py).
THEOREM OnlyRefusedRest ==
  ASSUME Paper \/ ~ TokensKnown PROVE HistorySpec => []ClosedUnlessRefused
  <1> DEFINE Inv == ClosedSound /\ GoneSound /\ RefusalSound
  <1>1. HistoryInit => Inv
    <2> SUFFICES ASSUME HistoryInit PROVE Inv
      OBVIOUS
    <2>1. Init /\ ClosedSound
      BY InitClosedSound DEF HistoryInit
    <2>2. call = "none" /\ \A o \in Oids : ~ MayRest(o)
      BY <2>1 DEF Init, MayRest
    <2> QED BY <2>1, <2>2 DEF GoneSound, RefusalSound
  <1>2. IInv /\ Inv /\ [HistoryNext]_<<vars, rested, refused>> => Inv'
    <2> SUFFICES ASSUME IInv, Inv, [HistoryNext]_<<vars, rested, refused>> PROVE Inv'
      OBVIOUS
    <2>1. [Next]_vars /\ (Refusals \/ (UNCHANGED vars /\ UNCHANGED refused))
      BY HistoryStutters
    <2>2. Backed /\ FillsSound /\ AnswersSound
      BY DEF ClosedSound
    <2>3. ClosedSound' /\ RefusalSound'
      BY <2>1, <2>2, ClosedStep, RefusalStep
    <2>4. GoneSound'
      BY <2>1, <2>2, GoneStep, RefusedKept DEF GoneSound
    <2> QED BY <2>3, <2>4
  <1>3. IInv /\ Inv => ClosedUnlessRefused
    BY DEF GoneSound, MayRest, ClosedUnlessRefused, IInv, TypeOK
  <1> QED BY <1>1, <1>2, <1>3, HistoryImplementsSpec, Soundness, PTL DEF HistorySpec

\* The paper venue refuses only what it does not hold, so with it a cancelled order is off
\* the book (SettlementSweeper._cancel_one: "recording it as cancelled is accurate").
THEOREM PaperCancelledIsGone == ASSUME Paper PROVE HistorySpec => []CancelledMeansGone
  <1>1. HistoryInit => refused = {}
    BY DEF HistoryInit
  <1>2. refused = {} /\ [HistoryNext]_<<vars, rested, refused>> => (refused = {})'
    BY DEF HistoryNext
  <1>3. refused = {} /\ ClosedUnlessRefused => CancelledMeansGone
    BY DEF ClosedUnlessRefused, CancelledMeansGone
  <1> QED BY <1>1, <1>2, <1>3, OnlyRefusedRest, PTL DEF HistorySpec

------------------------------------------------------------------------------
(* Repricing: EveryPriceTried *)

\* A row the repricer takes for resting, or may again with the order's next fill.
TakenForResting(o) ==
  \/ orders[o].state \in {"SUBMITTED", "PARTIAL"}
  \/ orders[o].state = "INDETERMINATE" /\ orders[o].linked

\* The steps that count passes or start a count over.
PassActs == PlaceAnswered \/ \E o \in Oids : LeaveAlone(o) \/ KeepPrice(o) \/ BeginMove(o)

LEMMA PassesWritten ==
  ASSUME [Next]_vars
  PROVE  \/ PassActs \/ UNCHANGED passes
         \/ pc' = "down" /\ passes' = [s \in Slots |-> 0]
  <1> USE DEF durable, venues, lost, world, memory, PassActs
  <1>1. CASE UNCHANGED vars
    BY <1>1 DEF vars
  <1>2. CASE Recovery
    BY <1>2 DEF Recovery, Start, ReconcileListed, ReconcileFailed, ResolveDone,
                ExpirePending, SettleRecovered, Resolve
  <1>3. CASE TopOfPass
    BY <1>3 DEF TopOfPass, Open, Close, Advance, Archive
  <1>4. CASE Sweep
    BY <1>4 DEF Sweep, SweepDone, SweepAnswered, SweepNext
  <1>5. CASE CancelAtVenue
    BY <1>5 DEF CancelAtVenue, CancelAccepted, CancelRefused, CancelLost, CancelErrored,
                CancelThrottled
  <1>6. CASE Submit
    BY <1>6 DEF Submit, SubmitLadder, Replayed, SavePending
  <1>7. CASE PlaceAtVenue
    BY <1>7 DEF PlaceAtVenue, PlaceAccepted, PlaceRefused, PlaceLost, PlaceErrored
  <1>8. CASE PlaceAnswered
    BY <1>8
  <1>9. CASE Ingest
    BY <1>9 DEF Ingest, Poll, PollRaises, FillRefused, IngestDone, RecordFill, CountFill
  <1>10. CASE Reprice
    BY <1>10 DEF Reprice, RepriceDone, MoveAbandoned, MoveCancelled, SaveSuccessor
  <1>11. CASE World
    BY <1>11 DEF World, ClockCloses, VenueFill, LatePlacement, LateCancel
  <1>12. CASE Crash
    BY <1>12 DEF Crash
  <1> QED BY <1>1, <1>2, <1>3, <1>4, <1>5, <1>6, <1>7, <1>8, <1>9, <1>10, <1>11, <1>12
          DEF Next, Loop

\* Where the main loop does not run yet: what recovery adopts is counted from zero.
Recovering == pc \in {"down", "reconcile", "resolve", "expire", "settle"}
CountsFromZero == Recovering => \A s \in Slots : passes[s] = 0

LEMMA ZeroStep ==
  ASSUME CountsFromZero, [Next]_vars
  PROVE  CountsFromZero'
  <1> USE DEF durable, venues, lost, world, memory, CountsFromZero, Recovering
  <1>1. CASE UNCHANGED vars
    BY <1>1 DEF vars
  <1>2. CASE Recovery
    BY <1>2 DEF Recovery, Start, ReconcileListed, ReconcileFailed, ResolveDone,
                ExpirePending, SettleRecovered, Resolve
  <1>3. CASE TopOfPass
    BY <1>3 DEF TopOfPass, Open, Close, Advance, Archive
  <1>4. CASE Sweep
    BY <1>4 DEF Sweep, SweepDone, SweepAnswered, SweepNext
  <1>5. CASE CancelAtVenue
    BY <1>5 DEF CancelAtVenue, CancelAccepted, CancelRefused, CancelLost, CancelErrored,
                CancelThrottled,
                Cancelling
  <1>6. CASE Submit
    BY <1>6 DEF Submit, SubmitLadder, Replayed, SavePending
  <1>7. CASE PlaceAtVenue
    BY <1>7 DEF PlaceAtVenue, PlaceAccepted, PlaceRefused, PlaceLost, PlaceErrored, Placing
  <1>8. CASE PlaceAnswered
    BY <1>8 DEF PlaceAnswered
  <1>9. CASE Ingest
    BY <1>9 DEF Ingest, Poll, PollRaises, FillRefused, IngestDone, RecordFill, CountFill
  <1>10. CASE Reprice
    BY <1>10 DEF Reprice, RepriceDone, MoveAbandoned, MoveCancelled, SaveSuccessor,
                 LeaveAlone, KeepPrice, BeginMove, Repricing
  <1>11. CASE World
    BY <1>11 DEF World, ClockCloses, VenueFill, LatePlacement, LateCancel
  <1>12. CASE Crash
    BY <1>12 DEF Crash
  <1> QED BY <1>1, <1>2, <1>3, <1>4, <1>5, <1>6, <1>7, <1>8, <1>9, <1>10, <1>11, <1>12
          DEF Next, Loop

\* The paper venue always answers; a fill is of an order the adapter can name.
AnswersKnown ==
  /\ Paper => call \in {"none", "ok", "refused"}
  /\ Paper => \A o \in Oids : orders[o].state # "INDETERMINATE"
  /\ pc = "apply" => Paper \/ orders[cur].linked

\* Only RecordFill hands apply_fill() another order.
LEMMA ApplyEntered ==
  ASSUME [Next]_vars, pc' = "apply"
  PROVE  (\E o \in Oids : RecordFill(o)) \/ UNCHANGED <<pc, cur, orders>>
  <1> USE DEF durable, venues, lost, world, memory
  <1>1. CASE UNCHANGED vars
    BY <1>1 DEF vars
  <1>2. CASE Recovery
    BY <1>2 DEF Recovery, Start, ReconcileListed, ReconcileFailed, ResolveDone,
                ExpirePending, SettleRecovered, Resolve
  <1>3. CASE TopOfPass
    BY <1>3 DEF TopOfPass, Open, Close, Advance, Archive
  <1>4. CASE Sweep
    BY <1>4 DEF Sweep, SweepDone, SweepAnswered, SweepNext
  <1>5. CASE CancelAtVenue
    BY <1>5 DEF CancelAtVenue, CancelAccepted, CancelRefused, CancelLost, CancelErrored,
                CancelThrottled
  <1>6. CASE Submit
    BY <1>6 DEF Submit, SubmitLadder, Replayed, SavePending
  <1>7. CASE PlaceAtVenue
    BY <1>7 DEF PlaceAtVenue, PlaceAccepted, PlaceRefused, PlaceLost, PlaceErrored
  <1>8. CASE PlaceAnswered
    BY <1>8 DEF PlaceAnswered
  <1>9. CASE Ingest
    BY <1>9 DEF Ingest, Poll, PollRaises, FillRefused, IngestDone, CountFill
  <1>10. CASE Reprice
    BY <1>10 DEF Reprice, RepriceDone, MoveAbandoned, MoveCancelled, SaveSuccessor,
                 LeaveAlone, KeepPrice, BeginMove, Repricing
  <1>11. CASE World
    BY <1>11 DEF World, ClockCloses, VenueFill, LatePlacement, LateCancel
  <1>12. CASE Crash
    BY <1>12 DEF Crash
  <1> QED BY <1>1, <1>2, <1>3, <1>4, <1>5, <1>6, <1>7, <1>8, <1>9, <1>10, <1>11, <1>12
          DEF Next, Loop

LEMMA AnswersKnownStep ==
  ASSUME IInv, AnswersKnown, [Next]_vars
  PROVE  AnswersKnown'
  <1>0. /\ TypeOK /\ orders \in [Oids -> Row] /\ CallSound /\ PendingSound
        /\ Paper => call \in {"none", "ok", "refused"}
        /\ Paper => \A o \in Oids : orders[o].state # "INDETERMINATE"
    BY DEF IInv, TypeOK, AnswersKnown
  <1>1. Paper => call' \in {"none", "ok", "refused"}
    <2> USE <1>0 DEF durable, venues, lost, world, memory
    <2>1. CASE UNCHANGED vars
      BY <2>1 DEF vars
    <2>2. CASE Recovery
      BY <2>2 DEF Recovery, Start, ReconcileListed, ReconcileFailed, ResolveDone,
                  ExpirePending, SettleRecovered, Resolve
    <2>3. CASE TopOfPass
      BY <2>3 DEF TopOfPass, Open, Close, Advance, Archive
    <2>4. CASE Sweep
      BY <2>4 DEF Sweep, SweepDone, SweepAnswered, SweepNext
    <2>5. CASE CancelAtVenue
      BY <2>5 DEF CancelAtVenue, CancelAccepted, CancelRefused, CancelLost, CancelErrored,
                  CancelThrottled
    <2>6. CASE Submit
      BY <2>6 DEF Submit, SubmitLadder, Replayed, SavePending
    <2>7. CASE PlaceAtVenue
      BY <2>7 DEF PlaceAtVenue, PlaceAccepted, PlaceRefused, PlaceLost, PlaceErrored
    <2>8. CASE PlaceAnswered
      BY <2>8 DEF PlaceAnswered
    <2>9. CASE Ingest
      BY <2>9 DEF Ingest, Poll, PollRaises, FillRefused, IngestDone, RecordFill, CountFill
    <2>10. CASE Reprice
      BY <2>10 DEF Reprice, RepriceDone, MoveAbandoned, MoveCancelled, SaveSuccessor,
                   LeaveAlone, KeepPrice, BeginMove
    <2>11. CASE World
      BY <2>11 DEF World, ClockCloses, VenueFill, LatePlacement, LateCancel
    <2>12. CASE Crash
      BY <2>12 DEF Crash
    <2> QED BY <2>1, <2>2, <2>3, <2>4, <2>5, <2>6, <2>7, <2>8, <2>9, <2>10, <2>11, <2>12
            DEF Next, Loop
  <1>2. ASSUME Paper, NEW o \in Oids PROVE orders'[o].state # "INDETERMINATE"
    <2>0. orders[o].state # "INDETERMINATE" /\ orders[o] \in Row /\ call \in {"none", "ok", "refused"}
      BY <1>0, <1>2
    <2>1. CASE UNCHANGED orders
      BY <2>0, <2>1
    <2>2. CASE ExpirePending
      <3>1. Transition(orders[o], "EXPIRED").state = "EXPIRED"
        BY <2>0, TransitionRow DEF OrderState, TerminalStates
      <3> QED BY <2>0, <2>2, <3>1 DEF ExpirePending
    <2>3. ASSUME NEW x \in Oids, NEW r, Save(x, r), r.state # "INDETERMINATE"
          PROVE  orders'[o].state # "INDETERMINATE"
      BY <1>0, <2>0, <2>3, RowSaved
    <2>4. \A x \in Oids : orders[x] \in Row
      BY <1>0
    <2>5. \A x \in Oids, t \in OrderState : Transition(orders[x], t).state = t
      BY <2>4, TransitionRow
    <2>6. {"EXPIRED", "CANCELLED", "REJECTED"} \subseteq OrderState
      BY DEF OrderState, TerminalStates
    <2>7. CASE SweepAnswered
      <3>1. cur \in Oids /\ SaveState(cur, "CANCELLED")
        BY <1>0, <2>0, <2>7 DEF SweepAnswered, CallSound
      <3> QED BY <2>3, <2>5, <2>6, <3>1 DEF SaveState
    <2>8. CASE PlaceAnswered
      <3>1. cur \in Oids /\ Save(cur, Answered(orders[cur])) /\ orders[cur] \in Row
        BY <1>0, <2>8 DEF PlaceAnswered, CallSound
      <3>2. Answered(orders[cur]).state # "INDETERMINATE"
        BY <2>0, <2>5, <2>6, <3>1 DEF Answered, Row
      <3> QED BY <2>3, <3>1, <3>2
    <2>9. CASE CountFill
      <3>1. cur \in Oids /\ Save(cur, ApplyFill(orders[cur])) /\ orders[cur] \in Row
        BY <1>0, <2>9 DEF CountFill, CallSound
      <3>2. ApplyFill(orders[cur]).state # "INDETERMINATE"
        BY <3>1 DEF ApplyFill, Row
      <3> QED BY <2>3, <3>1, <3>2
    <2>10. CASE MoveAbandoned
      BY <2>0, <2>10 DEF MoveAbandoned
    <2>11. CASE MoveCancelled
      <3>1. cur \in Oids /\ SaveState(cur, "CANCELLED")
        BY <1>0, <2>11 DEF MoveCancelled, CallSound
      <3> QED BY <2>3, <2>5, <2>6, <3>1 DEF SaveState
    <2>12. CASE SaveSuccessor
      <3>1. Successor(cur) \in Oids /\ Save(Successor(cur), NewOrder(Remaining(orders[cur])))
        BY <1>0, <2>12, SuccessorOid DEF SaveSuccessor, CallSound
      <3> QED BY <2>3, <3>1 DEF NewOrder
    <2>13. ASSUME NEW x \in Oids, Resolve(x) PROVE orders'[o].state # "INDETERMINATE"
      <3>1. x \in todo /\ orders[x].state = "INDETERMINATE"
        BY <2>13 DEF Resolve, IInv, TodoSound
      <3> QED BY <1>0, <1>2, <3>1
    <2>14. ASSUME NEW x \in Oids, SweepNext(x) PROVE orders'[o].state # "INDETERMINATE"
      BY <2>0, <2>3, <2>5, <2>6, <2>14 DEF SweepNext, SaveState
    <2>15. ASSUME NEW x \in Oids, SavePending(x) PROVE orders'[o].state # "INDETERMINATE"
      BY <2>3, <2>15 DEF SavePending, NewOrder
    <2> QED BY <2>1, <2>2, <2>7, <2>8, <2>9, <2>10, <2>11, <2>12, <2>13, <2>14, <2>15,
               RowWrites DEF RowActs
  <1>3. pc' = "apply" => Paper \/ orders'[cur'].linked
    <2> SUFFICES ASSUME pc' = "apply", ~ Paper PROVE orders'[cur'].linked
      OBVIOUS
    <2>1. CASE UNCHANGED <<pc, cur, orders>>
      BY <2>1 DEF AnswersKnown
    <2>2. ASSUME NEW o \in Oids, RecordFill(o) PROVE orders'[cur'].linked
      <3>1. Reported(o) > recorded[o] /\ recorded[o] \in Nat
        BY <1>0, <2>2 DEF RecordFill, Unrecorded, TypeOK
      <3>2. orders[o].linked
        BY <3>1 DEF Reported
      <3> QED BY <2>2, <3>2 DEF RecordFill
    <2> QED BY <2>1, <2>2, ApplyEntered
  <1> QED BY <1>1, <1>2, <1>3 DEF AnswersKnown

\* The count of a chain starts with its first order on the book.
FreshChains ==
  \A s \in Slots : orders[<<s, 0>>].state \in {"NONE", "PENDING"} => passes[s] = 0

LEMMA OidPlace ==
  ASSUME NEW o \in Oids
  PROVE  o[1] \in Slots /\ o[2] \in Nat /\ o = <<o[1], o[2]>>
  BY BoundAssumption DEF Oids, Gens

\* An order the repricer moves is the last of its chain.
LEMMA OnlyOneMoves ==
  ASSUME IInv, NEW o \in Oids, NEW p \in Oids, o[1] = p[1], o # p,
         orders[o].state \in {"SUBMITTED", "PARTIAL"}
  PROVE  orders[p].state \in {"NONE", "CANCELLED"}
  <1>1. o[1] \in Slots /\ o[2] \in Nat /\ o = <<o[1], o[2]>>
    BY OidPlace
  <1>2. p[1] \in Slots /\ p[2] \in Nat /\ p = <<p[1], p[2]>>
    BY OidPlace
  <1>3. o[2] < p[2] \/ p[2] < o[2]
    BY <1>1, <1>2
  <1>4. ChainSound
    BY DEF IInv
  <1>5. CASE o[2] < p[2]
    BY <1>4, <1>5 DEF ChainSound
  <1>6. CASE p[2] < o[2]
    BY <1>4, <1>6 DEF ChainSound
  <1> QED BY <1>3, <1>5, <1>6

LEMMA FreshStep ==
  ASSUME IInv, FreshChains, [Next]_vars
  PROVE  FreshChains'
  <1>0. TypeOK /\ orders \in [Oids -> Row] /\ passes \in [Slots -> 0 .. PreAttempts + 1]
    BY DEF IInv, TypeOK
  <1> SUFFICES ASSUME NEW s \in Slots, orders'[<<s, 0>>].state \in {"NONE", "PENDING"}
               PROVE  passes'[s] = 0
    BY DEF FreshChains
  <1>1. <<s, 0>> \in Oids
    BY BoundAssumption DEF Oids, Gens
  <1>2. orders[<<s, 0>>].state \in {"NONE", "PENDING"}
    <2>1. RowStep(<<s, 0>>) /\ orders[<<s, 0>>] \in Row
      BY <1>0, <1>1, AllRowsStep
    <2>2. CASE orders[<<s, 0>>] = NoRow
      BY <2>2 DEF NoRow
    <2>3. CASE orders[<<s, 0>>] # NoRow
      BY <1>1, <2>1, <2>3, TableOfMoves
         DEF RowStep, CanMove, Row, OrderState, LiveStates, TerminalStates, IsTerminal
    <2> QED BY <2>2, <2>3
  <1>3. passes[s] = 0
    BY <1>2 DEF FreshChains
  <1>4. CASE UNCHANGED passes \/ passes' = [t \in Slots |-> 0]
    BY <1>3, <1>4
  <1>5. CASE PlaceAnswered
    BY <1>0, <1>3, <1>5 DEF PlaceAnswered
  <1>6. ASSUME NEW o \in Oids, LeaveAlone(o) PROVE passes'[s] = 0
    BY <1>0, <1>3, <1>6 DEF LeaveAlone
  <1>7. ASSUME NEW o \in Oids, Movable(o), passes' = [passes EXCEPT ![o[1]] = NextPass(o[1])]
        PROVE  passes'[s] = 0
    <2>1. o[1] # s
      <3> SUFFICES ASSUME o[1] = s PROVE FALSE
        OBVIOUS
      <3>1. o # <<s, 0>>
        BY <1>2, <1>7 DEF Movable
      <3>2. orders[<<s, 0>>].state = "NONE" \/ orders[<<s, 0>>].state = "CANCELLED"
        BY <1>1, <1>7, <3>1, OnlyOneMoves DEF Movable
      <3>3. orders[<<s, 0>>].state = "NONE" /\ o[2] > 0
        BY <1>2, <3>1, <3>2, OidPlace
      <3>4. ChainSound /\ orders[o].state # "NONE"
        BY <1>7 DEF Movable, IInv
      <3> QED BY <1>1, <3>3, <3>4 DEF ChainSound
    <2> QED BY <1>0, <1>3, <1>7, <2>1
  <1> QED BY <1>4, <1>5, <1>6, <1>7, PassesWritten DEF PassActs, KeepPrice, BeginMove

\* A row is taken for resting when its placement is answered, when recovery adopts it,
\* or because it was before.
LEMMA TakenStep ==
  ASSUME IInv, AnswersKnown, [Next]_vars, ~ PlaceAnswered, ~ Recovering',
         NEW o \in Oids, TakenForResting(o)'
  PROVE  TakenForResting(o)
  <1>0. /\ TypeOK /\ orders \in [Oids -> Row] /\ CallSound /\ PendingSound
        /\ \A x \in Oids : orders[x] \in Row
    BY DEF IInv, TypeOK
  <1>1. CASE UNCHANGED orders
    BY <1>1 DEF TakenForResting
  <1>2. CASE ExpirePending
    BY <1>2 DEF ExpirePending, Recovering
  <1>3. ASSUME NEW x \in Oids, NEW r, Save(x, r),
               r.state \notin {"SUBMITTED", "PARTIAL", "INDETERMINATE"}
        PROVE  TakenForResting(o)
    <2>1. orders'[x] = r /\ \A p \in Oids \ {x} : orders'[p] = orders[p]
      BY <1>0, <1>3, RowSaved
    <2> QED BY <1>3, <2>1 DEF TakenForResting
  <1>14. ASSUME NEW x \in Oids, NEW r, Save(x, r), orders[x].state \in LiveStates \ {"PENDING"},
                r.linked = orders[x].linked,
                r.state = "INDETERMINATE" \/ Paper \/ orders[x].linked
         PROVE  TakenForResting(o)
    <2>1. orders'[x] = r /\ \A p \in Oids \ {x} : orders'[p] = orders[p]
      BY <1>0, <1>14, RowSaved
    <2>2. CASE o # x
      BY <2>1, <2>2 DEF TakenForResting
    <2>3. CASE o = x
      <3>1. r.state \in {"SUBMITTED", "PARTIAL"} \/ (r.state = "INDETERMINATE" /\ r.linked)
        BY <2>1, <2>3 DEF TakenForResting
      <3>2. /\ orders[x].state \in {"SUBMITTED", "PARTIAL", "INDETERMINATE"}
            /\ Paper \/ orders[x].linked
        BY <1>14, <3>1 DEF LiveStates
      <3> QED BY <2>3, <3>2 DEF TakenForResting, AnswersKnown
    <2> QED BY <2>2, <2>3
  <1>4. ASSUME NEW x \in Oids, NEW t \in OrderState
        PROVE  /\ Transition(orders[x], t).state = t
               /\ Transition(orders[x], t).linked = orders[x].linked
    BY <1>0 DEF Transition, Row
  <1>5. {"EXPIRED", "CANCELLED", "REJECTED", "INDETERMINATE"} \subseteq OrderState
    BY DEF OrderState, TerminalStates, LiveStates
  <1>6. CASE SweepAnswered
    <2>1. cur \in Oids /\ orders[cur].state \in LiveStates \ {"PENDING"}
      BY <1>0, <1>6 DEF SweepAnswered, CallSound
    <2> DEFINE t == IF call \in {"ok", "refused"} THEN "CANCELLED" ELSE "INDETERMINATE"
    <2>2. Save(cur, Transition(orders[cur], t)) /\ t \in OrderState
      BY <1>5, <1>6 DEF SweepAnswered, SaveState
    <2>3. t = "CANCELLED" \/ t = "INDETERMINATE"
      OBVIOUS
    <2> HIDE DEF t
    <2>4. /\ Transition(orders[cur], t).state = t
          /\ Transition(orders[cur], t).linked = orders[cur].linked
      BY <1>4, <2>1, <2>2
    <2>5. CASE t = "CANCELLED"
      BY <1>3, <2>1, <2>2, <2>4, <2>5
    <2>6. CASE t = "INDETERMINATE"
      BY <1>14, <2>1, <2>2, <2>4, <2>6
    <2> QED BY <2>3, <2>5, <2>6
  <1>7. CASE CountFill
    <2>1. cur \in Oids /\ IsLive(orders[cur]) /\ orders[cur].state # "PENDING"
      BY <1>0, <1>7 DEF CountFill, CallSound, PendingSound
    <2>2. Save(cur, ApplyFill(orders[cur])) /\ ApplyFill(orders[cur]).linked = orders[cur].linked
      BY <1>0, <1>7, <2>1 DEF CountFill, ApplyFill, Row
    <2>3. Paper \/ orders[cur].linked
      BY <1>7 DEF CountFill, AnswersKnown
    <2> QED BY <1>14, <2>1, <2>2, <2>3 DEF IsLive
  <1>8. CASE MoveAbandoned
    <2>1. cur \in Oids /\ orders[cur].state \in LiveStates \ {"PENDING"}
      BY <1>0, <1>8 DEF MoveAbandoned, CallSound, Movable, LiveStates
    <2>2. CASE UNCHANGED orders
      BY <1>1, <2>2
    <2>3. CASE SaveState(cur, "INDETERMINATE")
      <3>1. /\ Transition(orders[cur], "INDETERMINATE").state = "INDETERMINATE"
            /\ Transition(orders[cur], "INDETERMINATE").linked = orders[cur].linked
        BY <1>4, <1>5, <2>1
      <3> QED BY <1>14, <2>1, <2>3, <3>1 DEF SaveState
    <2> QED BY <1>8, <2>2, <2>3 DEF MoveAbandoned
  <1>9. CASE MoveCancelled
    <2>1. cur \in Oids /\ Save(cur, Transition(orders[cur], "CANCELLED"))
      BY <1>0, <1>9 DEF MoveCancelled, CallSound, SaveState
    <2>2. Transition(orders[cur], "CANCELLED").state = "CANCELLED"
      BY <1>4, <1>5, <2>1
    <2> QED BY <1>3, <2>1, <2>2
  <1>10. CASE SaveSuccessor
    <2>1. Successor(cur) \in Oids /\ Save(Successor(cur), NewOrder(Remaining(orders[cur])))
      BY <1>0, <1>10, SuccessorOid DEF SaveSuccessor, CallSound
    <2>2. NewOrder(Remaining(orders[cur])).state = "PENDING"
      BY DEF NewOrder
    <2> QED BY <1>3, <2>1, <2>2
  <1>11. ASSUME NEW x \in Oids, Resolve(x) PROVE TakenForResting(o)
    BY <1>11 DEF Resolve, Recovering
  <1>12. ASSUME NEW x \in Oids, SweepNext(x) PROVE TakenForResting(o)
    <2>1. CASE UNCHANGED orders
      BY <1>1, <2>1
    <2>2. CASE Save(x, Transition(orders[x], "EXPIRED"))
      <3>1. Transition(orders[x], "EXPIRED").state = "EXPIRED"
        BY <1>4, <1>5
      <3> QED BY <1>3, <2>2, <3>1
    <2> QED BY <1>12, <2>1, <2>2 DEF SweepNext, SaveState
  <1>13. ASSUME NEW x \in Oids, SavePending(x) PROVE TakenForResting(o)
    <2>1. Save(x, NewOrder(Size)) /\ NewOrder(Size).state = "PENDING"
      BY <1>13 DEF SavePending, NewOrder
    <2> QED BY <1>3, <2>1
  <1> QED BY <1>1, <1>2, <1>6, <1>7, <1>8, <1>9, <1>10, <1>11, <1>12, <1>13, RowWrites
          DEF RowActs

\* The count of a chain is never ahead of the passes its order has rested in.
PriceTried == \A o \in Oids : TakenForResting(o) => passes[o[1]] <= rested[o]

\* What the repricer's counts mean: EveryPriceTried follows from PriceTried, which a step
\* keeps because of the other three.
CountsSound ==
  rested \in [Oids -> Nat] /\ CountsFromZero /\ AnswersKnown /\ FreshChains /\ PriceTried

LEMMA PriceTriedStep ==
  ASSUME IInv, CountsSound, HistoryNext
  PROVE  rested' \in [Oids -> Nat] /\ PriceTried'
  <1>0. /\ TypeOK /\ passes \in [Slots -> 0 .. PreAttempts + 1] /\ CallSound
        /\ rested \in [Oids -> Nat] /\ [Next]_vars /\ PreAttempts \in Nat
        /\ CountsFromZero /\ CountsFromZero' /\ AnswersKnown /\ FreshChains /\ FreshChains'
        /\ PriceTried
    BY ZeroStep, FreshStep, BoundAssumption DEF CountsSound, HistoryNext, IInv, TypeOK
  <1>1. \A o \in Oids : rested'[o] =
          IF pc' = "down" THEN 0
          ELSE IF Repricing(o) /\ o \notin todo' /\ rested[o] <= PreAttempts
            THEN rested[o] + 1 ELSE rested[o]
    BY DEF HistoryNext
  <1>2. rested' \in [Oids -> Nat]
    <2>1. \A o \in Oids : rested[o] \in Nat /\ rested[o] + 1 \in Nat
      BY <1>0
    <2> QED BY <2>1 DEF HistoryNext
  <1>3. ASSUME pc' # "down", NEW o \in Oids PROVE rested[o] <= rested'[o]
    BY <1>0, <1>1, <1>3
  <1>4. ASSUME NEW o \in Oids, TakenForResting(o)' PROVE passes'[o[1]] <= rested'[o]
    <2>0. /\ o[1] \in Slots /\ rested[o] \in Nat /\ rested'[o] \in Nat
          /\ passes[o[1]] \in 0 .. PreAttempts + 1
      BY <1>0, <1>2, OidParts
    <2>1. CASE Recovering'
      BY <1>0, <2>0, <2>1 DEF CountsFromZero
    <2> SUFFICES ASSUME ~ Recovering' PROVE passes'[o[1]] <= rested'[o]
      BY <2>1
    <2>2. pc' # "down"
      BY DEF Recovering
    <2>3. CASE PlaceAnswered
      <3>0. cur \in Oids /\ orders[cur].state = "PENDING" /\ Save(cur, Answered(orders[cur]))
        BY <1>0, <2>3 DEF PlaceAnswered, CallSound
      <3>1. \A s \in Slots : passes'[s] <= passes[s]
        <4>1. \A s \in Slots : passes'[s] = passes[s] \/ passes'[s] = 0
          BY <1>0, <2>3 DEF PlaceAnswered
        <4> QED BY <1>0, <4>1
      <3>2. CASE o # cur
        <4>1. orders'[o] = orders[o]
          BY <1>0, <3>0, <3>2, RowSaved DEF TypeOK
        <4>2. passes[o[1]] <= rested[o]
          BY <1>0, <1>4, <4>1 DEF PriceTried, TakenForResting
        <4>3. passes'[o[1]] \in Nat
          <5>1. passes'[o[1]] = passes[o[1]] \/ passes'[o[1]] = 0
            BY <1>0, <2>0, <2>3 DEF PlaceAnswered
          <5> QED BY <2>0, <5>1
        <4> QED BY <1>3, <2>0, <2>2, <3>1, <4>2, <4>3
      <3>3. CASE o = cur
        <4>1. orders'[cur] = Answered(orders[cur])
          BY <1>0, <3>0, RowSaved DEF TypeOK
        <4>2. ~ orders[cur].linked /\ orders[cur] \in Row
          BY <3>0 DEF IInv, RowsSound, TypeOK
        <4>3. call = "ok"
          <5> SUFFICES ASSUME call # "ok" PROVE FALSE
            OBVIOUS
          <5>1. \/ Answered(orders[cur]) = Transition(orders[cur], "INDETERMINATE")
                \/ Answered(orders[cur]) = Transition(orders[cur], "REJECTED")
            BY DEF Answered
          <5>2. /\ Transition(orders[cur], "INDETERMINATE").linked = orders[cur].linked
                /\ Transition(orders[cur], "INDETERMINATE").state = "INDETERMINATE"
                /\ Transition(orders[cur], "REJECTED").state = "REJECTED"
            BY <4>2 DEF Transition, Row
          <5> QED BY <1>4, <3>3, <4>1, <4>2, <5>1, <5>2 DEF TakenForResting
        <4>4. CASE cur[2] > 0
          <5>1. passes' = [passes EXCEPT ![cur[1]] = 0]
            BY <2>3, <4>3, <4>4 DEF PlaceAnswered
          <5>2. passes'[o[1]] = 0
            BY <1>0, <2>0, <3>3, <5>1
          <5> QED BY <2>0, <5>2
        <4>5. CASE ~ (cur[2] > 0)
          <5>1. cur = <<cur[1], 0>> /\ cur[1] \in Slots
            BY <3>0, <4>5, OidPlace
          <5>2. passes[cur[1]] = 0
            BY <1>0, <3>0, <5>1 DEF FreshChains
          <5>3. passes' = passes
            BY <2>3, <4>5 DEF PlaceAnswered
          <5> QED BY <2>0, <3>3, <5>2, <5>3
        <4> QED BY <4>4, <4>5
      <3> QED BY <3>2, <3>3
    <2>4. CASE ~ PlaceAnswered
      <3>0. TakenForResting(o)
        BY <1>0, <1>4, <2>4, TakenStep
      <3>1. passes[o[1]] <= rested[o]
        BY <1>0, <3>0 DEF PriceTried
      <3>2. CASE UNCHANGED passes
        BY <1>3, <2>0, <2>2, <3>1, <3>2
      <3>3. ASSUME NEW x \in Oids, LeaveAlone(x) PROVE passes'[o[1]] <= rested'[o]
        <4>1. passes'[o[1]] = passes[o[1]] \/ passes'[o[1]] = 0
          BY <1>0, <2>0, <3>3 DEF LeaveAlone
        <4> QED BY <1>3, <2>0, <2>2, <3>1, <4>1
      <3>4. ASSUME NEW x \in Oids, Repricing(x), Movable(x), todo' = todo \ {x},
                   passes' = [passes EXCEPT ![x[1]] = NextPass(x[1])]
            PROVE  passes'[o[1]] <= rested'[o]
        <4>1. CASE x = o
          <5>1. passes'[o[1]] = NextPass(o[1])
            BY <1>0, <2>0, <3>4, <4>1
          <5>2. rested'[o] = IF rested[o] <= PreAttempts THEN rested[o] + 1 ELSE rested[o]
            BY <1>1, <2>2, <3>4, <4>1
          <5> QED BY <1>0, <2>0, <3>1, <5>1, <5>2 DEF NextPass
        <4>2. CASE x # o
          <5>1. x[1] # o[1]
            <6> SUFFICES ASSUME x[1] = o[1] PROVE FALSE
              OBVIOUS
            <6>1. orders[o].state \in {"NONE", "CANCELLED"}
              BY <3>4, <4>2, OnlyOneMoves DEF Movable
            <6> QED BY <3>0, <6>1 DEF TakenForResting
          <5>2. passes'[o[1]] = passes[o[1]]
            BY <1>0, <2>0, <3>4, <5>1
          <5> QED BY <1>3, <2>0, <2>2, <3>1, <5>2
        <4> QED BY <4>1, <4>2
      <3> QED BY <1>0, <2>2, <2>4, <3>2, <3>3, <3>4, PassesWritten
              DEF PassActs, KeepPrice, BeginMove
    <2> QED BY <2>3, <2>4
  <1> QED BY <1>2, <1>4 DEF PriceTried

LEMMA CountsStep ==
  ASSUME IInv, CountsSound, [HistoryNext]_<<vars, rested, refused>>
  PROVE  CountsSound'
  <1>1. CASE HistoryNext
    BY <1>1, ZeroStep, AnswersKnownStep, FreshStep, PriceTriedStep DEF CountsSound, HistoryNext
  <1>2. CASE UNCHANGED <<vars, rested>>
    BY <1>2 DEF vars, durable, venues, lost, world, memory, CountsSound, CountsFromZero,
                Recovering, AnswersKnown, FreshChains, PriceTried, TakenForResting
  <1> QED BY <1>1, <1>2

\* No order is moved that has not rested in PreAttempts passes since this process knows it
\* (Repricer.maybe_reprice counts per chain; the successor starts over, a restart too, and
\* an order of unknown outcome that comes back is not ahead of its own passes).
THEOREM EveryMoveIsEarned == HistorySpec => EveryPriceTried
  <1>1. HistoryInit => CountsSound
    <2> SUFFICES ASSUME HistoryInit PROVE CountsSound
      OBVIOUS
    <2>1. rested \in [Oids -> Nat] /\ \A s \in Slots : passes[s] = 0
      BY DEF HistoryInit, Init
    <2>2. \A o \in Oids : orders[o].state = "NONE"
      BY DEF HistoryInit, Init, NoRow
    <2>3. pc = "down" /\ call = "none"
      BY DEF HistoryInit, Init
    <2> QED BY <2>1, <2>2, <2>3 DEF CountsSound, CountsFromZero, AnswersKnown, FreshChains,
                                    PriceTried, TakenForResting
  <1>2. IInv /\ CountsSound /\ [HistoryNext]_<<vars, rested, refused>> => CountsSound'
    BY CountsStep
  <1>4. HistorySpec => [](IInv /\ CountsSound)
    BY <1>1, <1>2, HistoryImplementsSpec, Soundness, PTL DEF HistorySpec
  <1>5. IInv /\ CountsSound /\ [HistoryNext]_<<vars, rested, refused>>
          => [pc = "reprice" /\ cur = None /\ cur' # None
                => rested[cur'] >= PreAttempts]_<<vars, rested, refused>>
    <2> SUFFICES ASSUME IInv, CountsSound, HistoryNext,
                        pc = "reprice", cur = None, cur' # None
                 PROVE  rested[cur'] >= PreAttempts
      OBVIOUS
    <2>1. \E o \in Oids : BeginMove(o)
      <3>1. Next
        BY DEF HistoryNext
      <3> USE DEF durable, venues, lost, world, memory
      <3>2. CASE Recovery
        BY <3>2 DEF Recovery, Start, ReconcileListed, ReconcileFailed, ResolveDone,
                    ExpirePending, SettleRecovered, Resolve
      <3>3. CASE TopOfPass \/ Sweep
        BY <3>3 DEF TopOfPass, Open, Close, Advance, Archive, Sweep, SweepDone,
                    SweepAnswered, SweepNext
      <3>4. CASE CancelAtVenue
        BY <3>4 DEF CancelAtVenue, CancelAccepted, CancelRefused, CancelLost, CancelErrored,
                    CancelThrottled
      <3>5. CASE Submit \/ PlaceAtVenue \/ PlaceAnswered
        BY <3>5 DEF Submit, SubmitLadder, Replayed, SavePending, PlaceAtVenue,
                    PlaceAccepted, PlaceRefused, PlaceLost, PlaceErrored, PlaceAnswered, Placing
      <3>6. CASE Ingest
        BY <3>6 DEF Ingest, Poll, PollRaises, FillRefused, IngestDone, RecordFill, CountFill
      <3>7. CASE Reprice
        BY <3>7 DEF Reprice, RepriceDone, MoveAbandoned, MoveCancelled, SaveSuccessor,
                    LeaveAlone, KeepPrice
      <3>8. CASE World \/ Crash
        BY <3>8 DEF World, ClockCloses, VenueFill, LatePlacement, LateCancel, Crash
      <3> QED BY <3>1, <3>2, <3>3, <3>4, <3>5, <3>6, <3>7, <3>8 DEF Next, Loop
    <2>2. PICK o \in Oids : BeginMove(o)
      BY <2>1
    <2>3. cur' = o /\ Movable(o) /\ NextPass(o[1]) > PreAttempts
      BY <2>2 DEF BeginMove
    <2>4. passes[o[1]] <= rested[o] /\ rested[o] \in Nat
      BY <2>3 DEF CountsSound, PriceTried, TakenForResting, Movable
    <2>5. passes[o[1]] \in Nat /\ PreAttempts \in Nat
      BY OidParts, BoundAssumption DEF IInv, TypeOK
    <2> QED BY <2>3, <2>4, <2>5 DEF NextPass
  <1> QED BY <1>4, <1>5, PTL DEF HistorySpec, EveryPriceTried
==============================================================================
