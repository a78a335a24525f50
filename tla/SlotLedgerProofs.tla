-------------------------- MODULE SlotLedgerProofs ---------------------------
(***************************************************************************)
(* What a slot may hold.  With the paper adapter the engine implements the *)
(* ledger of SlotLedger, no slot is exposed beyond its approval, nothing   *)
(* rests once a closed market is swept, and the paper account covers what  *)
(* its orders may cost: PaperSound is the inductive invariant behind all   *)
(* four.  With either adapter the excess of a slot is bounded by the fills *)
(* its replaced orders had not counted (Planned).                          *)
(*                                                                         *)
(* Both rest on the invariants of LimitOrdersProofs (IInv, ClosedSound)    *)
(* and on lemmas about sums over the orders of a slot, which are           *)
(* cardinalities (Total).                                                  *)
(***************************************************************************)
EXTENDS LimitOrdersProofs, FiniteSetTheorems

------------------------------------------------------------------------------
(* The ledger's own promise *)

VARIABLES booked, working     \* of a ledger that nothing implements yet

Promise == INSTANCE SlotLedger

LedgerInv ==
  /\ booked  \in [Slots -> Nat]
  /\ working \in [Slots -> Nat]
  /\ Promise!WithinApproval

LEMMA LedgerStep ==
  ASSUME LedgerInv, [Promise!Next]_(Promise!ledger)
  PROVE  LedgerInv'
  <1> USE SizeAssumption DEF LedgerInv, Promise!WithinApproval
  <1>1. ASSUME NEW s \in Slots, Promise!Work(s) PROVE LedgerInv'
    BY <1>1 DEF Promise!Work
  <1>2. ASSUME NEW s \in Slots, Promise!Book(s) PROVE LedgerInv'
    BY <1>2 DEF Promise!Book
  <1>3. ASSUME NEW S \in SUBSET Slots, Promise!Withdraw(S) PROVE LedgerInv'
    BY <1>3 DEF Promise!Withdraw
  <1>4. CASE UNCHANGED Promise!ledger
    BY <1>4 DEF Promise!ledger
  <1> QED BY <1>1, <1>2, <1>3, <1>4 DEF Promise!Next

\* What is booked for a slot and what is worked for it never exceed its approved
\* size together: the promise of reprice.py and submit.py that a replacement
\* carries only what is left.
THEOREM LedgerWithinApproval == Promise!Spec => []Promise!WithinApproval
  <1>1. Promise!Init => LedgerInv
    BY SizeAssumption DEF Promise!Init, LedgerInv, Promise!WithinApproval
  <1>2. LedgerInv /\ [Promise!Next]_(Promise!ledger) => LedgerInv'
    BY LedgerStep
  <1>3. LedgerInv => Promise!WithinApproval
    BY DEF LedgerInv
  <1> QED BY <1>1, <1>2, <1>3, PTL DEF Promise!Spec

------------------------------------------------------------------------------
(* Sums over a finite set of orders *)

LEMMA UnitsOfOne ==
  ASSUME NEW o, NEW n \in Nat
  PROVE  IsFiniteSet({o} \X (1 .. n)) /\ Cardinality({o} \X (1 .. n)) = n
  <1>1. IsFiniteSet({o}) /\ Cardinality({o}) = 1
    BY FS_Singleton
  <1>2. IsFiniteSet(1 .. n) /\ Cardinality(1 .. n) = n
    BY FS_Interval
  <1>3. /\ IsFiniteSet({o} \X (1 .. n))
        /\ Cardinality({o} \X (1 .. n)) = Cardinality({o}) * Cardinality(1 .. n)
    BY <1>1, <1>2, FS_Product
  <1>4. 1 * n = n
    OBVIOUS
  <1> QED BY <1>1, <1>2, <1>3, <1>4

LEMMA UnitsFinite ==
  ASSUME NEW S, IsFiniteSet(S), NEW h, \A o \in S : h[o] \in Nat
  PROVE  IsFiniteSet(Units(h, S)) /\ Total(h, S) \in Nat
  <1> DEFINE f == [o \in S |-> {o} \X (1 .. h[o])]
             T == {{o} \X (1 .. h[o]) : o \in S}
  <1>1. f \in Surjection(S, T)
    BY DEF Surjection
  <1>2. IsFiniteSet(T)
    BY <1>1, FS_Surjection
  <1>3. \A U \in T : IsFiniteSet(U)
    <2>1. ASSUME NEW o \in S PROVE IsFiniteSet({o} \X (1 .. h[o]))
      BY UnitsOfOne
    <2> QED BY <2>1
  <1>4. IsFiniteSet(UNION T)
    BY <1>2, <1>3, FS_UNION
  <1>5. Units(h, S) = UNION T
    BY DEF Units
  <1> QED BY <1>4, <1>5, FS_CardinalityType DEF Total

\* One more order adds what it stands for.
LEMMA TotalAdd ==
  ASSUME NEW S, IsFiniteSet(S), NEW o, o \notin S, NEW h,
         \A p \in S \union {o} : h[p] \in Nat
  PROVE  Total(h, S \union {o}) = Total(h, S) + h[o]
  <1> DEFINE U == {o} \X (1 .. h[o])
  <1>1. IsFiniteSet(Units(h, S)) /\ Total(h, S) \in Nat
    BY UnitsFinite
  <1>2. IsFiniteSet(U) /\ Cardinality(U) = h[o] /\ h[o] \in Nat
    BY UnitsOfOne
  <1>3. Units(h, S \union {o}) = Units(h, S) \union U
    BY DEF Units
  <1>4. Units(h, S) \cap U = {}
    BY DEF Units
  <1>5. Cardinality(Units(h, S) \union U) = Cardinality(Units(h, S)) + Cardinality(U) - 0
    BY <1>1, <1>2, <1>4, FS_Union, FS_EmptySet
  <1>6. Total(h, S \union {o}) = Cardinality(Units(h, S) \union U)
    BY <1>3 DEF Total
  <1>7. Total(h, S) = Cardinality(Units(h, S))
    BY DEF Total
  <1> HIDE DEF U
  <1> QED BY <1>1, <1>2, <1>5, <1>6, <1>7

\* Orders that stand for nothing do not count.
LEMMA TotalNothing ==
  ASSUME NEW S, NEW h, \A o \in S : h[o] = 0
  PROVE  Total(h, S) = 0
  <1>1. Units(h, S) = {}
    BY DEF Units
  <1> QED BY <1>1, FS_EmptySet DEF Total

LEMMA TotalSame ==
  ASSUME NEW S, NEW h, NEW g, \A o \in S : h[o] = g[o]
  PROVE  Total(h, S) = Total(g, S)
  <1>1. Units(h, S) = Units(g, S)
    BY DEF Units
  <1> QED BY <1>1 DEF Total

LEMMA TotalAtMost ==
  ASSUME NEW S, IsFiniteSet(S), NEW h, NEW g,
         \A o \in S : h[o] \in Nat /\ g[o] \in Nat /\ h[o] <= g[o]
  PROVE  Total(h, S) <= Total(g, S)
  <1>1. IsFiniteSet(Units(g, S))
    BY UnitsFinite
  <1>2. \A o \in S : 1 .. h[o] \subseteq 1 .. g[o]
    OBVIOUS
  <1>3. Units(h, S) \subseteq Units(g, S)
    BY <1>2 DEF Units
  <1> QED BY <1>1, <1>3, FS_Subset DEF Total

\* Two disjoint parts, the second of which stands for nothing.
LEMMA TotalPart ==
  ASSUME NEW S, NEW T, NEW h, \A o \in T : h[o] = 0
  PROVE  Total(h, S \union T) = Total(h, S)
  <1>1. Units(h, S \union T) = Units(h, S)
    <2>1. \A o \in T : {o} \X (1 .. h[o]) = {}
      OBVIOUS
    <2> QED BY <2>1 DEF Units
  <1> QED BY <1>1 DEF Total

------------------------------------------------------------------------------
(* The orders of one slot *)

Before(o) == {p \in Oids : p[1] = o[1] /\ p[2] < o[2]}
After(o)  == {p \in Oids : p[1] = o[1] /\ p[2] > o[2]}

LEMMA ChainFinite ==
  ASSUME NEW s \in Slots
  PROVE  /\ IsFiniteSet(Chain(s)) /\ Chain(s) \subseteq Oids
         /\ \A o \in Oids : o \in Chain(s) <=> o[1] = s
  <1>1. IsFiniteSet(Gens)
    BY BoundAssumption, FS_Interval DEF Gens
  <1>2. IsFiniteSet({s} \X Gens)
    BY <1>1, FS_Singleton, FS_Product
  <1> QED BY <1>2 DEF Chain, Oids

LEMMA ChainParts ==
  ASSUME NEW o \in Oids
  PROVE  /\ Chain(o[1]) = (Before(o) \union {o}) \union After(o)
         /\ o \notin Before(o)
         /\ IsFiniteSet(Before(o))
         /\ Before(o) \subseteq Oids
  <1>1. o[1] \in Slots
    BY OidParts
  <1>2. \A p \in Oids : p[2] \in Int
    BY BoundAssumption DEF Oids, Gens
  <1>3. \A p \in Oids : p[1] = o[1] /\ p[2] = o[2] => p = o
    BY DEF Oids
  <1>4. ASSUME NEW p \in Oids
        PROVE  p[1] = o[1] <=> p \in (Before(o) \union {o}) \union After(o)
    BY <1>2, <1>3 DEF Before, After
  <1>5. /\ IsFiniteSet(Chain(o[1])) /\ Chain(o[1]) \subseteq Oids
        /\ \A p \in Oids : p \in Chain(o[1]) <=> p[1] = o[1]
    BY <1>1, ChainFinite
  <1>6. Before(o) \subseteq Oids /\ After(o) \subseteq Oids
    BY DEF Before, After
  <1>7. Chain(o[1]) = (Before(o) \union {o}) \union After(o)
    BY <1>4, <1>5, <1>6
  <1>8. o \notin Before(o)
    BY <1>2 DEF Before
  <1>9. Before(o) \in SUBSET Chain(o[1])
    BY <1>7
  <1>10. IsFiniteSet(Before(o))
    BY <1>5, <1>9, FS_Subset
  <1> QED BY <1>6, <1>7, <1>8, <1>10

LEMMA BeforeSuccessor ==
  ASSUME NEW o \in Oids, o[2] < MaxRetries
  PROVE  Before(Successor(o)) = Before(o) \union {o}
  <1>1. \A p \in Oids : p[2] \in Int
    BY BoundAssumption DEF Oids, Gens
  <1>2. \A p \in Oids : p[1] = o[1] /\ p[2] = o[2] => p = o
    BY DEF Oids
  <1>3. Successor(o)[1] = o[1] /\ Successor(o)[2] = o[2] + 1
    BY DEF Successor
  <1>4. \A p \in Oids : p[2] < o[2] + 1 <=> p[2] < o[2] \/ p[2] = o[2]
    BY <1>1
  <1> QED BY <1>2, <1>3, <1>4 DEF Before

LEMMA BeforeFirst ==
  ASSUME NEW o \in Oids, ~ (o[2] > 0)
  PROVE  Before(o) = {}
  BY BoundAssumption DEF Before, Oids, Gens

\* Where nothing follows an order, its slot's sum is what comes before it and itself.
LEMMA ChainTotal ==
  ASSUME NEW o \in Oids, NEW h, \A p \in Oids : h[p] \in Nat, \A p \in After(o) : h[p] = 0
  PROVE  Total(h, Chain(o[1])) = Total(h, Before(o)) + h[o]
  <1>1. /\ Chain(o[1]) = (Before(o) \union {o}) \union After(o)
        /\ o \notin Before(o) /\ IsFiniteSet(Before(o)) /\ Before(o) \subseteq Oids
    BY ChainParts
  <1>2. Total(h, Chain(o[1])) = Total(h, Before(o) \union {o})
    BY <1>1, TotalPart
  <1>3. Total(h, Before(o) \union {o}) = Total(h, Before(o)) + h[o]
    BY <1>1, TotalAdd
  <1> QED BY <1>2, <1>3

\* What follows a live order does not exist, and what is before it is cancelled and gone.
LEMMA AroundLive ==
  ASSUME IInv, FillsSound, NEW o \in Oids, IsLive(orders[o])
  PROVE  /\ \A p \in After(o) :
               p \in Oids /\ recorded[p] = 0 /\ executed[p] = 0 /\ p \notin resting
         /\ \A p \in Before(o) :
               p \in Oids /\ orders[p].state = "CANCELLED" /\ p \notin resting
  <1>1. ChainSound /\ RowsSound
    BY DEF IInv
  <1>2. orders[o].state \notin {"NONE", "CANCELLED"}
    BY DEF IsLive, LiveStates
  <1>3. ASSUME NEW p \in After(o)
        PROVE  p \in Oids /\ recorded[p] = 0 /\ executed[p] = 0 /\ p \notin resting
    <2>1. p \in Oids /\ p[1] = o[1] /\ o[2] < p[2]
      BY BoundAssumption DEF After, Oids, Gens
    <2>2. orders[p].state = "NONE"
      BY <1>1, <1>2, <2>1 DEF ChainSound
    <2> QED BY <1>1, <2>1, <2>2 DEF RowsSound, FillsSound, MayRest
  <1>4. ASSUME NEW p \in Before(o)
        PROVE  p \in Oids /\ orders[p].state = "CANCELLED" /\ p \notin resting
    BY <1>1, <1>2 DEF Before, ChainSound, MayRest
  <1> QED BY <1>3, <1>4

------------------------------------------------------------------------------
(* The invariant of the paper engine *)

\* Everything the venue executed is in the fills table.
Caught == \A o \in Oids : executed[o] <= recorded[o]

\* What the venue and the fills table say of an order, the books do not deny.
VenueSound ==
  /\ lateCancels = {}
  /\ \A o \in Oids :
       /\ executed[o] <= orders[o].size
       /\ executed[o] > recorded[o] \/ o \in resting => IsLive(orders[o])
  /\ resting # {} => Unsettled

\* Where a pass stands: a restart finds an empty venue, the poll catches up before the
\* repricer and the sweep look, and a resting row is in step with the fills table.
PassSound ==
  /\ pc \in {"reconcile", "resolve", "expire", "settle"}
       => resting = {} /\ \A o \in Oids : executed[o] = 0
  /\ pc \in {"top", "sweep", "reprice", "replace"} \/ (pc = "place" /\ cur[2] > 0) => Caught
  /\ pc # "down" => \A o \in resting :
       recorded[o] = IF pc = "apply" /\ cur = o THEN orders[o].filled + 1 ELSE orders[o].filled
  /\ pc = "replace" \/ (pc = "reprice" /\ cur # None /\ call = "ok")
       => recorded[cur] = orders[cur].filled
  /\ pc = "place" => call \in {"none", "ok"}

\* The sweep has every resting order before it, and leaves none behind.
SweepSound ==
  /\ pc = "sweep" =>
       /\ phase = "SETTLING"
       /\ resting \subseteq todo \union (IF call = "none" THEN {cur} ELSE {})
  /\ phase = "SETTLING" /\ pc # "sweep" =>
       /\ resting = {}
       /\ pc \notin {"ladder", "place", "replace"}
       /\ ~ (pc = "reprice" /\ cur # None /\ call = "ok")

\* A slot's approved size is shared out among the orders of its chain.
Shared ==
  /\ \A o \in Oids : orders[o].state # "NONE" => Total(recorded, Before(o)) + orders[o].size = Size
  /\ \A s \in Slots : Total(recorded, Chain(s)) <= Size

PaperSound == VenueSound /\ PassSound /\ SweepSound /\ Shared

\* With the paper venue nothing is lost or late, and no answer is in doubt.
LEMMA PaperFacts ==
  ASSUME Paper, IInv, ClosedSound
  PROVE  /\ latePlaces = {}
         /\ call \in {"none", "ok", "refused"}
         /\ pc = "resolve" => todo = {}
         /\ \A o \in Oids : orders[o].filled <= recorded[o]
         /\ \A o \in Oids : orders[o].state # "INDETERMINATE"
         /\ \A o \in Oids : /\ orders[o] \in Row /\ recorded[o] \in Nat /\ executed[o] \in Nat
                            /\ orders[o].size \in Nat /\ orders[o].filled \in Nat
  <1>1. latePlaces = {}
    BY DEF IInv, WireSound, TypeOK
  <1>2. call \in {"none", "ok", "refused"}
    BY DEF IInv, TypeOK, ClosedSound, Backed
  <1>3. \A o \in Oids : /\ orders[o] \in Row /\ recorded[o] \in Nat /\ executed[o] \in Nat
                        /\ orders[o].size \in Nat /\ orders[o].filled \in Nat
    BY SizeAssumption DEF IInv, TypeOK, Row
  <1> QED BY <1>1, <1>2, <1>3 DEF ClosedSound, Backed

LEMMA NoLateCancel ==
  ASSUME Paper, [Next]_vars
  PROVE  lateCancels' \subseteq lateCancels
  <1> USE DEF durable, venues, lost, world, memory
  <1>1. CASE UNCHANGED vars
    BY <1>1 DEF vars
  <1>2. CASE Recovery
    BY <1>2 DEF Recovery, Start, ReconcileListed, ReconcileFailed, ResolveDone,
                ExpirePending, SettleRecovered, Resolve
  <1>3. CASE TopOfPass
    BY <1>3 DEF TopOfPass, Open, Close, Advance, Archive
  <1>4. CASE Sweep
    BY <1>4 DEF Sweep, SweepDone, SweepAnswered, SweepNext
  <1>5. CASE CancelAtVenue
    BY <1>5 DEF CancelAtVenue, CancelAccepted, CancelRefused, CancelLost, CancelErrored,
                CancelThrottled
  <1>6. CASE Submit
    BY <1>6 DEF Submit, SubmitLadder, Replayed, SavePending
  <1>7. CASE PlaceAtVenue
    BY <1>7 DEF PlaceAtVenue, PlaceAccepted, PlaceRefused, PlaceLost, PlaceErrored
  <1>8. CASE PlaceAnswered
    BY <1>8 DEF PlaceAnswered
  <1>9. CASE Ingest
    BY <1>9 DEF Ingest, Poll, PollRaises, FillRefused, IngestDone, RecordFill, CountFill
  <1>10. CASE Reprice
    BY <1>10 DEF Reprice, RepriceDone, LeaveAlone, KeepPrice, BeginMove,
                 MoveAbandoned, MoveCancelled, SaveSuccessor
  <1>11. CASE World
    BY <1>11 DEF World, ClockCloses, VenueFill, LatePlacement, LateCancel
  <1>12. CASE Crash
    BY <1>12 DEF Crash
  <1> QED BY <1>1, <1>2, <1>3, <1>4, <1>5, <1>6, <1>7, <1>8, <1>9, <1>10, <1>11, <1>12
          DEF Next, Loop

\* No row is closed while the venue may still add to what is recorded of it.
LEMMA StaysLive ==
  ASSUME Paper, IInv, ClosedSound, PaperSound, [Next]_vars,
         NEW o \in Oids, IsLive(orders[o]), ~ IsLive(orders'[o])
  PROVE  executed[o] <= recorded[o] /\ o \notin resting
  <1>0. /\ TypeOK /\ orders \in [Oids -> Row] /\ RowsSound /\ CallSound /\ PendingSound
        /\ Backed /\ FillsSound /\ AnswersSound /\ VenueSound /\ PassSound
        /\ call \in {"none", "ok", "refused"}
    BY PaperFacts DEF IInv, TypeOK, ClosedSound, PaperSound
  <1>1. orders'[o] # orders[o]
    OBVIOUS
  <1>2. RowActs
    BY <1>1, RowWrites
  <1>3. orders[o] \in Row /\ orders[o] # NoRow
    BY <1>0 DEF IsLive, LiveStates, NoRow
  <1>4. CASE ExpirePending
    BY <1>0, <1>4 DEF ExpirePending, PassSound, TypeOK
  <1>5. CASE SweepAnswered
    <2>1. cur \in Oids /\ cur # None /\ pc = "sweep" /\ call \in {"ok", "refused"}
      BY <1>0, <1>5 DEF SweepAnswered, CallSound
    <2>2. o = cur
      BY <1>0, <1>1, <1>5, <2>1 DEF SweepAnswered, SaveState, Save
    <2> QED BY <1>0, <2>1, <2>2 DEF PassSound, Caught, AnswersSound, MayRest
  <1>6. CASE PlaceAnswered
    <2>1. cur \in Oids /\ call = "ok" /\ Save(cur, Answered(orders[cur]))
      BY <1>0, <1>6 DEF PlaceAnswered, CallSound, PassSound
    <2>2. o = cur
      BY <1>0, <1>1, <2>1 DEF Save
    <2>3. orders'[o].state = "SUBMITTED"
      BY <1>0, <1>3, <2>1, <2>2, RowSaved, AnsweredRow
    <2> QED BY <2>3 DEF IsLive, LiveStates
  <1>7. CASE CountFill
    <2>1. cur \in Oids /\ pc = "apply" /\ Save(cur, ApplyFill(orders[cur]))
      BY <1>0, <1>7 DEF CountFill, CallSound
    <2>2. o = cur
      BY <1>0, <1>1, <2>1 DEF Save
    <2>3. orders'[o] = ApplyFill(orders[o])
      BY <1>0, <2>1, <2>2, RowSaved
    <2>4. ApplyFill(orders[o]).state = "PARTIAL" \/ orders[o].filled + 1 >= orders[o].size
      BY <1>3, SizeAssumption DEF ApplyFill, Row
    <2>5. orders[o].filled + 1 >= orders[o].size
      BY <2>3, <2>4 DEF IsLive, LiveStates
    <2>6. orders[o].filled < recorded[o]
      BY <1>0, <2>1, <2>2 DEF Backed
    <2>7. /\ recorded[o] \in Nat /\ executed[o] \in Nat
          /\ orders[o].size \in Nat /\ orders[o].filled \in Nat
      BY PaperFacts
    <2>8. recorded[o] >= orders[o].size
      BY <2>5, <2>6, <2>7
    <2> QED BY <1>0, <2>7, <2>8 DEF VenueSound, FillsSound
  <1>8. CASE MoveAbandoned
    BY <1>0, <1>1, <1>8 DEF MoveAbandoned
  <1>9. CASE MoveCancelled
    <2>1. cur \in Oids /\ cur \notin resting /\ pc = "reprice"
      BY <1>0, <1>9 DEF MoveCancelled, CallSound
    <2>2. o = cur
      BY <1>0, <1>1, <1>9, <2>1 DEF MoveCancelled, SaveState, Save
    <2> QED BY <1>0, <2>1, <2>2 DEF PassSound, Caught
  <1>10. CASE SaveSuccessor
    <2>1. /\ Successor(cur) \in Oids /\ orders[Successor(cur)].state = "NONE"
          /\ Save(Successor(cur), NewOrder(Remaining(orders[cur])))
      BY <1>0, <1>10, SuccessorOid DEF SaveSuccessor, CallSound
    <2> QED BY <1>0, <1>1, <2>1 DEF Save, IsLive, LiveStates
  <1>11. ASSUME NEW p \in Oids, Resolve(p) PROVE FALSE
    BY <1>11, PaperFacts DEF Resolve
  <1>12. ASSUME NEW p \in Oids, SweepNext(p) PROVE FALSE
    BY <1>0, <1>1, <1>12 DEF SweepNext, PendingSound
  <1>13. ASSUME NEW p \in Oids, SavePending(p) PROVE FALSE
    BY <1>0, <1>1, <1>3, <1>13 DEF SavePending, Save
  <1> QED BY <1>2, <1>4, <1>5, <1>6, <1>7, <1>8, <1>9, <1>10, <1>11, <1>12, <1>13 DEF RowActs

LEMMA VenueSoundStep ==
  ASSUME Paper, IInv, ClosedSound, PaperSound, [Next]_vars
  PROVE  VenueSound'
  <1> USE DEF durable, venues, lost, world, memory
  <1>0. /\ TypeOK /\ CallSound /\ PendingSound /\ RowsSound /\ FillsSound
        /\ VenueSound /\ PassSound /\ SweepSound /\ latePlaces = {}
        /\ \A o \in Oids : /\ recorded[o] \in Nat /\ executed[o] \in Nat
                           /\ orders[o].size \in Nat
    BY PaperFacts DEF IInv, ClosedSound, PaperSound
  <1>a. \A o \in Oids : orders'[o].size \in Nat
    BY IInvStep, SizeAssumption DEF IInv, TypeOK, Row
  <1>b. \A o \in Oids : executed[o] <= orders'[o].size
    <2> SUFFICES ASSUME NEW o \in Oids PROVE executed[o] <= orders'[o].size
      OBVIOUS
    <2>1. CASE orders[o].state # "NONE"
      BY <1>0, <2>1, SizesKept DEF VenueSound
    <2>2. CASE orders[o].state = "NONE"
      BY <1>0, <1>a, <2>2 DEF RowsSound, FillsSound
    <2> QED BY <2>1, <2>2
  <1>1. lateCancels' = {}
    BY <1>0, NoLateCancel DEF VenueSound
  <1>2. ASSUME NEW o \in Oids
        PROVE  /\ executed'[o] <= orders'[o].size
               /\ executed'[o] > recorded'[o] \/ o \in resting' => IsLive(orders'[o])
    <2>1. CASE Quiet
      BY <1>0, <1>b, <2>1, StaysLive DEF Quiet, VenueSound
    <2>2. CASE Start
      BY <1>0, <1>b, <2>2 DEF Start, VenueSound, TypeOK
    <2>3. CASE CancelAccepted
      BY <1>0, <2>3 DEF CancelAccepted, VenueSound
    <2>4. CASE PlaceAccepted
      <3>1. cur \in Oids /\ orders[cur].state = "PENDING"
        BY <1>0, <2>4 DEF PlaceAccepted, Placing, CallSound
      <3>2. IsLive(orders[cur])
        BY <3>1 DEF IsLive, LiveStates
      <3> QED BY <1>0, <2>4, <3>2 DEF PlaceAccepted, VenueSound
    <2>5. CASE PlaceLost \/ PlaceErrored
      BY <2>5 DEF PlaceLost, PlaceErrored
    <2>6. ASSUME NEW p \in Oids, VenueFill(p)
          PROVE  /\ executed'[o] <= orders'[o].size
                 /\ executed'[o] > recorded'[o] \/ o \in resting' => IsLive(orders'[o])
      <3>1. /\ p \in resting /\ executed' = [executed EXCEPT ![p] = executed[p] + 1]
            /\ resting' \subseteq resting /\ UNCHANGED <<orders, recorded>>
            /\ executed \in [Oids -> Nat]
        BY <1>0, <2>6 DEF VenueFill, TypeOK
      <3>2. IsLive(orders[p]) /\ executed[p] < orders[p].size
        BY <1>0, <3>1 DEF VenueSound, FillsSound
      <3>3. CASE o = p
        BY <1>0, <3>1, <3>2, <3>3
      <3>4. CASE o # p
        BY <1>0, <3>1, <3>4 DEF VenueSound
      <3> QED BY <3>3, <3>4
    <2>7. ASSUME NEW p \in Oids, LatePlacement(p) \/ LateCancel(p) PROVE FALSE
      BY <1>0, <2>7 DEF LatePlacement, LateCancel, VenueSound
    <2>8. ASSUME NEW p \in Oids, RecordFill(p)
          PROVE  /\ executed'[o] <= orders'[o].size
                 /\ executed'[o] > recorded'[o] \/ o \in resting' => IsLive(orders'[o])
      <3>1. /\ recorded' = [recorded EXCEPT ![p] = recorded[p] + 1]
            /\ UNCHANGED <<orders, executed, resting>> /\ recorded \in [Oids -> Nat]
        BY <1>0, <2>8 DEF RecordFill, TypeOK
      <3>2. executed'[o] > recorded'[o] => executed[o] > recorded[o]
        BY <1>0, <3>1
      <3> QED BY <1>0, <3>1, <3>2 DEF VenueSound
    <2> QED BY <2>1, <2>2, <2>3, <2>4, <2>5, <2>6, <2>7, <2>8, VenueStep DEF VenueActs
  <1>3. resting' # {} => Unsettled'
    <2>1. CASE UNCHANGED marketRow
      <3>1. CASE resting # {}
        BY <1>0, <2>1, <3>1 DEF VenueSound, Unsettled
      <3>2. CASE resting = {} /\ PlaceAccepted
        BY <1>0, <3>2 DEF PlaceAccepted, Placing, CallSound, PendingSound, Unsettled
      <3>3. CASE resting = {} /\ ~ PlaceAccepted
        <4>1. \A o \in Oids : ~ MayRest(o)
          BY <1>0, <3>3 DEF MayRest
        <4>2. resting' = {}
          BY <1>0, <3>3, VenueStep
             DEF VenueActs, Quiet, Start, CancelAccepted, PlaceLost, PlaceErrored, VenueFill,
                 LatePlacement,
                 LateCancel, RecordFill
        <4> QED BY <4>2
      <3> QED BY <3>1, <3>2, <3>3
    <2>2. CASE marketRow' # marketRow
      <3>1. SettleRecovered \/ Open \/ Close \/ Archive
        BY <2>2 DEF Next, Recovery, TopOfPass, Sweep, CancelAtVenue, Submit, PlaceAtVenue,
                    Ingest, Reprice, Loop, World, vars, Start, ReconcileListed,
                    ReconcileFailed, ResolveDone, ExpirePending, Resolve, Advance,
                    SweepDone, SweepAnswered, SweepNext, CancelAccepted, CancelRefused,
                    CancelLost, CancelErrored, CancelThrottled, SubmitLadder, Replayed, SavePending,
                    PlaceAccepted, PlaceRefused, PlaceLost, PlaceErrored, PlaceAnswered, Poll, PollRaises,
                    FillRefused, IngestDone, RecordFill, CountFill, RepriceDone, LeaveAlone,
                    KeepPrice, BeginMove, MoveAbandoned, MoveCancelled, SaveSuccessor,
                    ClockCloses, VenueFill, LatePlacement, LateCancel, Crash
      <3>2. CASE Open \/ Close
        BY <3>2 DEF Open, Close, Unsettled
      <3>3. CASE SettleRecovered
        BY <1>0, <3>3 DEF SettleRecovered, PassSound
      <3>4. CASE Archive
        BY <1>0, <3>4 DEF Archive, SweepSound
      <3> QED BY <3>1, <3>2, <3>3, <3>4
    <2> QED BY <2>1, <2>2
  <1> QED BY <1>1, <1>2, <1>3 DEF VenueSound

\* Outside a counted fill the rows that rest keep their filled counts.
LEMMA FilledKept ==
  ASSUME Paper, IInv, ClosedSound, [Next]_vars, pc # "apply"
  PROVE  \A o \in Oids : orders'[o].filled = orders[o].filled
  BY AllRowsStep, PaperFacts DEF RowStep, MayCount

LEMMA InStep ==
  ASSUME Paper, IInv, ClosedSound, PaperSound, [Next]_vars, pc \notin {"apply", "ingest", "down"},
         UNCHANGED recorded, resting' \subseteq resting, pc' # "apply"
  PROVE  \A o \in resting' :
           recorded'[o] = IF pc' = "apply" /\ cur' = o THEN orders'[o].filled + 1 ELSE orders'[o].filled
  BY FilledKept DEF PaperSound, PassSound, IInv, TypeOK

LEMMA ControlStep ==
  ASSUME Paper, IInv, ClosedSound, PaperSound, [Next]_vars
  PROVE  PassSound' /\ SweepSound'
  <1> USE DEF durable, venues, lost, world, memory
  <1>0. /\ TypeOK /\ CallSound /\ PendingSound /\ TodoSound /\ RowsSound /\ WireSound
        /\ Backed /\ FillsSound /\ AnswersSound /\ VenueSound /\ PassSound /\ SweepSound
        /\ latePlaces = {} /\ lateCancels = {} /\ call \in {"none", "ok", "refused"}
        /\ \A o \in Oids : /\ recorded[o] \in Nat /\ executed[o] \in Nat
                           /\ orders[o].size \in Nat /\ orders[o].filled \in Nat
                           /\ orders[o].filled <= recorded[o]
    BY PaperFacts DEF IInv, ClosedSound, PaperSound, VenueSound
  <1>1. CASE Start
    BY <1>0, <1>1 DEF Start, TypeOK, PassSound, SweepSound, PendingSound
  <1>2. CASE ReconcileListed
    BY <1>0, <1>2 DEF ReconcileListed, PassSound, SweepSound, PendingSound
  <1>3. CASE ReconcileFailed
    BY <1>0, <1>3 DEF ReconcileFailed, PassSound, SweepSound, PendingSound
  <1>4. CASE ResolveDone
    BY <1>0, <1>4 DEF ResolveDone, PassSound, SweepSound, PendingSound
  <1>5. CASE ExpirePending
    BY <1>0, <1>5 DEF ExpirePending, PassSound, SweepSound, PendingSound
  <1>6. CASE SettleRecovered
    BY <1>0, <1>6 DEF SettleRecovered, PassSound, SweepSound, PendingSound, Caught
  <1>7. ASSUME NEW o \in Oids, Resolve(o) PROVE FALSE
    BY <1>7, PaperFacts DEF Resolve
  <1>8. CASE Open
    BY <1>0, <1>8, InStep DEF Open, PassSound, SweepSound
  <1>9. CASE Close
    <2>1. resting \subseteq LiveRows
      BY <1>0 DEF VenueSound, LiveRows, TypeOK
    <2> QED BY <1>0, <1>9, <2>1 DEF Close, PassSound, SweepSound, Caught
  <1>10. CASE Advance
    BY <1>0, <1>10 DEF Advance, PassSound, SweepSound
  <1>11. CASE Archive
    BY <1>0, <1>11 DEF Archive, PassSound, SweepSound, Caught
  <1>12. CASE SweepAnswered
    BY <1>0, <1>12, InStep DEF SweepAnswered, PassSound, SweepSound, Caught
  <1>13. CASE SweepDone
    <2>1. resting = {}
      BY <1>0, <1>13, NoneNotOid DEF SweepDone, SweepSound, TypeOK
    <2> QED BY <1>0, <1>13, <2>1 DEF SweepDone, PassSound, SweepSound
  <1>14. ASSUME NEW o \in Oids, SweepNext(o) PROVE PassSound' /\ SweepSound'
    <2>1. /\ cur' = o /\ call' = "none" /\ todo' = todo \ {o} /\ cur = None /\ pc = "sweep"
          /\ UNCHANGED <<orders, recorded, world, pc, phase>>
      BY <1>0, <1>14 DEF SweepNext, PendingSound
    <2>2. resting \subseteq todo' \union {o}
      BY <1>0, <2>1, NoneNotOid DEF SweepSound, TypeOK
    <2> QED BY <1>0, <2>1, <2>2 DEF PassSound, SweepSound, Caught
  <1>15. CASE CancelAccepted
    <2>1. /\ cur \in Oids /\ cur \in resting /\ call = "none" /\ call' = "ok"
          /\ resting' = resting \ {cur} /\ pc \in {"sweep", "reprice"}
          /\ UNCHANGED <<durable, executed, pc, cur, todo, phase>>
      BY <1>0, <1>15 DEF CancelAccepted, Cancelling, TypeOK
    <2>2. recorded[cur] = orders[cur].filled
      BY <1>0, <2>1 DEF PassSound
    <2>3. PassSound'
      BY <1>0, <2>1, <2>2 DEF PassSound, Caught
    <2>4. SweepSound'
      BY <1>0, <2>1 DEF SweepSound
    <2> QED BY <2>3, <2>4
  <1>16. CASE CancelRefused
    <2>1. /\ cur \notin resting /\ call = "none" /\ call' = "refused"
          /\ pc \in {"sweep", "reprice"}
          /\ UNCHANGED <<durable, venues, pc, cur, todo, phase>>
      BY <1>16 DEF CancelRefused, Cancelling
    <2>2. PassSound'
      BY <1>0, <2>1 DEF PassSound, Caught
    <2>3. SweepSound'
      BY <1>0, <2>1 DEF SweepSound
    <2> QED BY <2>2, <2>3
  <1>17. CASE CancelLost \/ CancelErrored \/ CancelThrottled \/ PlaceRefused \/ PlaceLost \/ PlaceErrored \/ PollRaises
    BY <1>17 DEF CancelLost, CancelErrored, CancelThrottled, PlaceRefused, PlaceLost,
                 PlaceErrored, PollRaises
  <1>18. CASE SubmitLadder
    BY <1>0, <1>18 DEF SubmitLadder, PassSound, SweepSound
  <1>19. ASSUME NEW o \in Oids, Replayed(o) PROVE PassSound' /\ SweepSound'
    BY <1>0, <1>19 DEF Replayed, PassSound, SweepSound
  <1>20. ASSUME NEW o \in Oids, SavePending(o) PROVE PassSound' /\ SweepSound'
    BY <1>0, <1>20, InStep DEF SavePending, PassSound, SweepSound, TodoSound
  <1>21. CASE PlaceAccepted
    <2>1. /\ cur \in Oids /\ call' = "ok" /\ pc = "place" /\ resting' = resting \union {cur}
          /\ UNCHANGED <<durable, executed, pc, cur, todo, phase>>
          /\ recorded[cur] = 0
      BY <1>0, <1>21 DEF PlaceAccepted, Placing, CallSound, FillsSound
    <2>2. recorded[cur] = orders[cur].filled
      BY <1>0, <2>1
    <2>3. PassSound'
      BY <1>0, <2>1, <2>2 DEF PassSound, Caught
    <2>4. SweepSound'
      BY <1>0, <2>1 DEF SweepSound
    <2> QED BY <2>3, <2>4
  <1>22. CASE PlaceAnswered
    <2>1. /\ pc = "place" /\ pc' \in {"reprice", "ladder"} /\ cur' = None /\ call' = "none"
          /\ pc' = "reprice" <=> cur[2] > 0
          /\ UNCHANGED <<recorded, world, todo, phase>>
      BY <1>22 DEF PlaceAnswered
    <2>2. PassSound'
      BY <1>0, <2>1, InStep DEF PassSound, Caught
    <2>3. SweepSound'
      BY <1>0, <2>1 DEF SweepSound
    <2> QED BY <2>2, <2>3
  <1>23. CASE Poll
    BY <1>0, <1>23 DEF Poll, PassSound, SweepSound
  <1>24. ASSUME NEW o \in Oids, RecordFill(o) PROVE PassSound' /\ SweepSound'
    <2>1. /\ pc = "ingest" /\ pc' = "apply" /\ cur' = o
          /\ recorded' = [recorded EXCEPT ![o] = recorded[o] + 1] /\ recorded \in [Oids -> Nat]
          /\ UNCHANGED <<orders, world, phase, call, todo>>
      BY <1>0, <1>24 DEF RecordFill, TypeOK
    <2>2. \A p \in resting : recorded[p] = orders[p].filled
      BY <1>0, <2>1 DEF PassSound
    <2>3. PassSound'
      BY <1>0, <2>1, <2>2 DEF PassSound, TypeOK
    <2>4. SweepSound'
      BY <1>0, <2>1 DEF SweepSound
    <2> QED BY <2>3, <2>4
  <1>25. CASE CountFill
    <2>1. /\ cur \in Oids /\ pc = "apply" /\ pc' = "ingest" /\ cur' = None
          /\ UNCHANGED <<recorded, world, call, todo, phase>>
          /\ Save(cur, ApplyFill(orders[cur]))
      BY <1>0, <1>25 DEF CountFill, CallSound
    <2>2. /\ orders'[cur] = ApplyFill(orders[cur])
          /\ \A p \in Oids \ {cur} : orders'[p] = orders[p]
      BY <1>0, <2>1, RowSaved DEF TypeOK
    <2>3. ASSUME NEW p \in resting PROVE recorded[p] = orders'[p].filled
      <3>1. CASE p = cur
        <4>1. recorded[p] = orders[p].filled + 1 /\ recorded[p] < orders[p].size
          BY <1>0, <2>1, <3>1 DEF PassSound, FillsSound
        <4>2. ApplyFill(orders[p]).filled = orders[p].filled + 1
          <5>1. orders[p] \in Row
            BY <2>1, <3>1, PaperFacts
          <5> QED BY <1>0, <2>1, <3>1, <4>1, <5>1 DEF ApplyFill, Row
        <4> QED BY <2>2, <3>1, <4>1, <4>2
      <3>2. CASE p # cur
        BY <1>0, <2>1, <2>2, <3>2 DEF PassSound, TypeOK
      <3> QED BY <3>1, <3>2
    <2>4. PassSound'
      BY <2>1, <2>3 DEF PassSound
    <2>5. SweepSound'
      BY <1>0, <2>1 DEF SweepSound
    <2> QED BY <2>4, <2>5
  <1>26. CASE FillRefused \/ Crash
    BY <1>26 DEF FillRefused, Crash, PassSound, SweepSound
  <1>27. CASE IngestDone
    <2>1. /\ pc = "ingest" /\ pc' = "reprice" /\ cur' = None
          /\ UNCHANGED <<durable, world, cur, call, phase>>
      BY <1>0, <1>27 DEF IngestDone, CallSound
    <2>2. Caught
      <3>1. \A o \in Oids : ~ (executed[o] > recorded[o])
        BY <1>27 DEF IngestDone, Unrecorded, Reported
      <3> QED BY <1>0, <3>1 DEF Caught
    <2>3. PassSound'
      BY <1>0, <2>1, <2>2 DEF PassSound, Caught
    <2>4. SweepSound'
      BY <1>0, <2>1 DEF SweepSound
    <2> QED BY <2>3, <2>4
  <1>28. ASSUME NEW o \in Oids, LeaveAlone(o) \/ KeepPrice(o) PROVE PassSound' /\ SweepSound'
    <2>1. pc = "reprice" /\ cur = None /\ UNCHANGED <<durable, world, pc, cur, call, phase>>
      BY <1>28 DEF LeaveAlone, KeepPrice, Repricing
    <2> QED BY <1>0, <2>1 DEF PassSound, SweepSound, Caught
  <1>29. ASSUME NEW o \in Oids, BeginMove(o) PROVE PassSound' /\ SweepSound'
    <2>1. pc = "reprice" /\ call' = "none" /\ UNCHANGED <<durable, world, pc, phase>>
      BY <1>29 DEF BeginMove, Repricing
    <2> QED BY <1>0, <2>1 DEF PassSound, SweepSound, Caught
  <1>30. CASE MoveAbandoned
    <2>1. /\ pc = "reprice" /\ cur' = None /\ call' = "none"
          /\ UNCHANGED <<orders, recorded, world, pc, phase>>
      BY <1>0, <1>30 DEF MoveAbandoned
    <2> QED BY <1>0, <2>1 DEF PassSound, SweepSound, Caught
  <1>31. CASE MoveCancelled
    <2>1. /\ pc = "reprice" /\ pc' = "replace" /\ cur \in Oids /\ cur # None /\ call = "ok"
          /\ UNCHANGED <<recorded, world, cur, phase>>
      BY <1>0, <1>31 DEF MoveCancelled, CallSound
    <2>2. orders'[cur].filled = orders[cur].filled
      BY <2>1, FilledKept
    <2>3. PassSound'
      BY <1>0, <2>1, <2>2, InStep DEF PassSound, Caught
    <2>4. SweepSound'
      BY <1>0, <2>1 DEF SweepSound
    <2> QED BY <2>3, <2>4
  <1>32. CASE SaveSuccessor
    <2>1. pc = "replace" /\ pc' = "place" /\ call' = "none" /\ UNCHANGED <<recorded, world, phase>>
      BY <1>32 DEF SaveSuccessor
    <2>2. PassSound'
      BY <1>0, <2>1, InStep DEF PassSound, Caught
    <2>3. SweepSound'
      BY <1>0, <2>1 DEF SweepSound
    <2> QED BY <2>2, <2>3
  <1>33. CASE RepriceDone
    BY <1>0, <1>33 DEF RepriceDone, PassSound, SweepSound, Caught
  <1>34. CASE ClockCloses \/ UNCHANGED vars
    <2>1. UNCHANGED <<orders, recorded, executed, resting, pc, cur, call, todo, phase>>
      BY <1>34 DEF ClockCloses, vars
    <2> QED BY <1>0, <2>1 DEF PassSound, SweepSound, Caught
  <1>35. ASSUME NEW o \in Oids, VenueFill(o) PROVE PassSound' /\ SweepSound'
    <2>1. /\ pc = "drive" /\ o \in resting /\ resting' \subseteq resting
          /\ UNCHANGED <<orders, recorded, pc, cur, call, todo, phase>>
      BY <1>35 DEF VenueFill
    <2> QED BY <1>0, <2>1 DEF PassSound, SweepSound
  <1>36. ASSUME NEW o \in Oids, LatePlacement(o) \/ LateCancel(o) PROVE FALSE
    BY <1>0, <1>36 DEF LatePlacement, LateCancel
  <1> QED BY <1>1, <1>2, <1>3, <1>4, <1>5, <1>6, <1>7, <1>8, <1>9, <1>10, <1>11, <1>12,
             <1>13, <1>14, <1>15, <1>16, <1>17, <1>18, <1>19, <1>20, <1>21, <1>22, <1>23,
             <1>24, <1>25, <1>26, <1>27, <1>28, <1>29, <1>30, <1>31, <1>32, <1>33, <1>34,
             <1>35, <1>36
          DEF Next, Recovery, TopOfPass, Sweep, CancelAtVenue, Submit, PlaceAtVenue,
              Ingest, Reprice, Loop, World

LEMMA RecordedStep ==
  ASSUME [Next]_vars
  PROVE  UNCHANGED recorded \/ \E p \in Oids : RecordFill(p)
  <1> USE DEF durable, venues
  <1> QED BY VenueStep DEF VenueActs, Quiet, Start, CancelAccepted, PlaceAccepted, PlaceLost,
                           PlaceErrored,
                           VenueFill, LatePlacement, LateCancel

\* A fill is recorded for a live order, and only for its slot.
LEMMA RecordedSums ==
  ASSUME Paper, IInv, ClosedSound, PaperSound, NEW p \in Oids, RecordFill(p)
  PROVE  /\ IsLive(orders[p]) /\ executed[p] > recorded[p] /\ recorded'[p] = recorded[p] + 1
         /\ \A o \in Oids \ {p} : recorded'[o] = recorded[o]
         /\ \A o \in Oids : orders[o].state # "NONE"
              => Total(recorded', Before(o)) = Total(recorded, Before(o))
         /\ Total(recorded', Chain(p[1])) = Total(recorded, Chain(p[1])) + 1
         /\ \A s \in Slots \ {p[1]} : Total(recorded', Chain(s)) = Total(recorded, Chain(s))
  <1>0. /\ TypeOK /\ ChainSound /\ FillsSound /\ VenueSound
        /\ \A o \in Oids : recorded[o] \in Nat /\ executed[o] \in Nat
    BY PaperFacts DEF IInv, ClosedSound, PaperSound
  <1>1. executed[p] > recorded[p] /\ recorded' = [recorded EXCEPT ![p] = recorded[p] + 1]
    BY DEF RecordFill, Unrecorded, Reported
  <1>2. IsLive(orders[p])
    BY <1>0, <1>1 DEF VenueSound
  <1>3. recorded'[p] = recorded[p] + 1 /\ \A o \in Oids \ {p} : recorded'[o] = recorded[o]
    BY <1>0, <1>1 DEF TypeOK
  <1>4. ASSUME NEW o \in Oids, orders[o].state # "NONE"
        PROVE  Total(recorded', Before(o)) = Total(recorded, Before(o))
    <2>1. p \notin Before(o)
      BY <1>0, <1>2, <1>4 DEF Before, ChainSound, IsLive, LiveStates
    <2>2. \A q \in Before(o) : recorded'[q] = recorded[q]
      BY <1>3, <2>1 DEF Before
    <2> QED BY <2>2, TotalSame
  <1>5. ASSUME NEW s \in Slots \ {p[1]}
        PROVE  Total(recorded', Chain(s)) = Total(recorded, Chain(s))
    <2>1. \A q \in Chain(s) : recorded'[q] = recorded[q]
      BY <1>3, <1>5, ChainFinite
    <2> QED BY <2>1, TotalSame
  <1>6. Total(recorded', Chain(p[1])) = Total(recorded, Chain(p[1])) + 1
    <2>1. \A q \in After(p) : q \in Oids /\ q # p /\ recorded[q] = 0
      BY <1>0, <1>2, AroundLive, BoundAssumption DEF After, Oids, Gens
    <2>2. Total(recorded, Chain(p[1])) = Total(recorded, Before(p)) + recorded[p]
      BY <1>0, <2>1, ChainTotal
    <2>3. \A q \in Oids : recorded'[q] \in Nat
      BY <1>0, <1>3
    <2>4. \A q \in After(p) : recorded'[q] = 0
      BY <1>3, <2>1
    <2>5. Total(recorded', Chain(p[1])) = Total(recorded', Before(p)) + recorded'[p]
      BY <2>3, <2>4, ChainTotal
    <2>6. Total(recorded', Before(p)) = Total(recorded, Before(p))
      BY <1>2, <1>4 DEF IsLive, LiveStates
    <2>7. Total(recorded, Before(p)) \in Nat /\ recorded[p] \in Nat
      BY <1>0, ChainParts, UnitsFinite
    <2> QED BY <1>3, <2>2, <2>5, <2>6, <2>7
  <1> QED BY <1>1, <1>2, <1>3, <1>4, <1>5, <1>6

LEMMA SharedStep ==
  ASSUME Paper, IInv, ClosedSound, PaperSound, [Next]_vars
  PROVE  Shared'
  <1>0. /\ IInv' /\ RowsSound /\ CallSound /\ VenueSound /\ PassSound /\ Shared /\ FillsSound
        /\ \A o \in Oids : /\ recorded[o] \in Nat /\ executed[o] \in Nat
                           /\ orders[o].size \in Nat /\ orders[o].filled \in Nat
        /\ \A o \in Oids : RowStep(o)
    BY PaperFacts, AllRowsStep, IInvStep DEF IInv, ClosedSound, PaperSound
  <1>1. ASSUME NEW p \in Oids, RecordFill(p) PROVE Shared'
    <2>1. UNCHANGED orders
      BY <1>1 DEF RecordFill
    <2>2. ASSUME NEW o \in Oids, orders'[o].state # "NONE"
          PROVE  Total(recorded', Before(o)) + orders'[o].size = Size
      BY <1>0, <1>1, <2>1, <2>2, RecordedSums DEF Shared
    <2>3. Total(recorded', Chain(p[1])) <= Size
      <3>1. /\ IsLive(orders[p]) /\ executed[p] > recorded[p]
            /\ Total(recorded', Chain(p[1])) = Total(recorded, Chain(p[1])) + 1
        BY <1>1, RecordedSums
      <3>2. \A q \in After(p) : q \in Oids /\ recorded[q] = 0
        BY <1>0, <3>1, AroundLive
      <3>3. Total(recorded, Chain(p[1])) = Total(recorded, Before(p)) + recorded[p]
        BY <1>0, <3>2, ChainTotal
      <3>4. Total(recorded, Before(p)) + orders[p].size = Size
        BY <1>0, <3>1 DEF Shared, IsLive, LiveStates
      <3>5. executed[p] <= orders[p].size
        BY <1>0 DEF VenueSound
      <3>6. Total(recorded, Before(p)) \in Nat
        BY <1>0, ChainParts, UnitsFinite
      <3> QED BY <1>0, <3>1, <3>3, <3>4, <3>5, <3>6
    <2>4. ASSUME NEW s \in Slots PROVE Total(recorded', Chain(s)) <= Size
      BY <1>0, <1>1, <2>3, RecordedSums DEF Shared
    <2> QED BY <2>2, <2>4 DEF Shared
  <1>2. CASE UNCHANGED recorded
    <2>1. ASSUME NEW o \in Oids, orders'[o].state # "NONE", orders[o].state # "NONE"
          PROVE  Total(recorded', Before(o)) + orders'[o].size = Size
      BY <1>0, <1>2, <2>1, SizesKept DEF Shared
    <2>2. ASSUME NEW o \in Oids, orders'[o].state # "NONE", orders[o].state = "NONE"
          PROVE  Total(recorded', Before(o)) + orders'[o].size = Size
      <3>1. orders[o] = NoRow /\ orders'[o] # NoRow /\ RowStep(o)
        BY <1>0, <2>2 DEF RowsSound, NoRow
      <3>2. CASE ~ (o[2] > 0)
        <4>1. Total(recorded', Before(o)) = 0
          BY <3>2, BeforeFirst, TotalNothing
        <4>2. orders'[o].size = Size
          BY <3>1, <3>2 DEF RowStep
        <4> QED BY <4>1, <4>2, SizeAssumption
      <3>3. CASE o[2] > 0
        <4>1. /\ pc = "replace" /\ cur \in Oids /\ o = Successor(cur) /\ cur[2] < MaxRetries
              /\ orders'[o].size = orders[cur].size - orders[cur].filled
              /\ recorded[cur] = orders[cur].filled
              /\ orders[cur].state # "NONE"
          BY <1>0, <3>1, <3>3 DEF RowStep, Remaining, CallSound, PassSound
        <4>2. Before(o) = Before(cur) \union {cur}
          BY <4>1, BeforeSuccessor
        <4>3. cur \notin Before(cur) /\ IsFiniteSet(Before(cur)) /\ Before(cur) \subseteq Oids
          BY <4>1, ChainParts
        <4>4. Total(recorded, Before(o)) = Total(recorded, Before(cur)) + recorded[cur]
          BY <1>0, <4>1, <4>2, <4>3, TotalAdd
        <4>5. Total(recorded, Before(cur)) + orders[cur].size = Size
          BY <1>0, <4>1 DEF Shared
        <4>6. Total(recorded, Before(cur)) \in Nat
          BY <1>0, <4>3, UnitsFinite
        <4> QED BY <1>0, <1>2, <4>1, <4>4, <4>5, <4>6, SizeAssumption
      <3> QED BY <3>2, <3>3
    <2> QED BY <1>0, <1>2, <2>1, <2>2 DEF Shared
  <1> QED BY <1>1, <1>2, RecordedStep

LEMMA InitPaperSound ==
  ASSUME Init
  PROVE  PaperSound
  <1> USE DEF Init
  <1>1. \A o \in Oids : orders[o].state = "NONE" /\ orders[o].size = 0 /\ orders[o].filled = 0
    BY DEF NoRow
  <1>2. VenueSound /\ PassSound /\ SweepSound
    BY <1>1 DEF VenueSound, PassSound, SweepSound, Caught
  <1>3. ASSUME NEW s \in Slots PROVE Total(recorded, Chain(s)) <= Size
    <2>1. \A o \in Chain(s) : recorded[o] = 0
      BY ChainFinite
    <2> QED BY <2>1, TotalNothing, SizeAssumption
  <1>4. Shared
    BY <1>1, <1>3 DEF Shared
  <1> QED BY <1>2, <1>4 DEF PaperSound

\* Everything the theorems below rest on, in every reachable state.
PaperInv == IInv /\ ClosedSound /\ PaperSound

LEMMA PaperInvariant == ASSUME Paper PROVE Spec => []PaperInv
  <1>1. Init => PaperInv
    BY InitIInv, InitClosedSound, InitPaperSound DEF PaperInv
  <1>2. PaperInv /\ [Next]_vars => PaperInv'
    BY IInvStep, ClosedStep, VenueSoundStep, ControlStep, SharedStep DEF PaperInv, PaperSound
  <1> QED BY <1>1, <1>2, PTL DEF Spec

------------------------------------------------------------------------------
(* What follows for the market, its slots and its account *)

\* Once the sweep of a closed market is over, the paper venue holds nothing of it: no
\* fill follows a settled book, whatever the sweep met half done (sweep.py, v1_paper.py).
THEOREM SweepLeavesNothing == ASSUME Paper PROVE Spec => []SweptBeforeSettlement
  <1>1. PaperInv => SweptBeforeSettlement
    BY DEF PaperInv, PaperSound, SweepSound, SweptBeforeSettlement
  <1> QED BY <1>1, PaperInvariant, PTL

\* The account holds back what every order may still cost, at every step of a pass, of a
\* restart and of the settlement (paper_account.py joins rows, fills and open markets).
THEOREM AccountHoldsEnough == ASSUME Paper PROVE Spec => []AccountCovers
  <1>1. ASSUME PaperInv PROVE AccountCovers
    <2> SUFFICES ASSUME NEW o \in Oids PROVE Committed(o) >= AtStake(o)
      BY DEF AccountCovers
    <2>1. /\ recorded[o] \in Nat /\ executed[o] \in Nat
          /\ orders[o].size \in Nat /\ orders[o].filled \in Nat
          /\ orders[o].filled <= recorded[o]
      BY <1>1, PaperFacts DEF PaperInv
    <2>2. orders[o].filled <= orders[o].size
      BY <1>1 DEF PaperInv, IInv, RowsSound
    <2>3. VenueSound
      BY <1>1 DEF PaperInv, PaperSound
    <2>4. o \in LiveRows <=> IsLive(orders[o])
      BY DEF LiveRows
    <2>5. CASE o \in resting
      BY <2>1, <2>2, <2>3, <2>4, <2>5 DEF VenueSound, Committed, AtStake, Remaining
    <2>6. CASE o \notin resting
      BY <2>1, <2>2, <2>3, <2>4, <2>6 DEF VenueSound, Committed, AtStake, Remaining
    <2> QED BY <2>5, <2>6
  <1> QED BY <1>1, PaperInvariant, PTL

\* Repricing, replay, recovery and the sweep never expose a slot beyond its approved
\* size: what rests at full size and what was executed of the whole chain (reprice.py).
THEOREM NeverOverexposed == ASSUME Paper PROVE Spec => []ExposureWithinApproval
  <1>1. ASSUME PaperInv PROVE ExposureWithinApproval
    <2> SUFFICES ASSUME NEW s \in Slots PROVE Total(Held, Chain(s)) <= Size
      BY DEF ExposureWithinApproval
    <2>0. /\ VenueSound /\ Shared /\ IInv /\ FillsSound
          /\ \A o \in Oids : /\ recorded[o] \in Nat /\ executed[o] \in Nat
                             /\ orders[o].size \in Nat
      BY <1>1, PaperFacts DEF PaperInv, PaperSound, ClosedSound
    <2>1. \A o \in Oids : /\ Held[o] = IF o \in resting THEN orders[o].size ELSE executed[o]
                          /\ Held[o] \in Nat
      BY <2>0 DEF Held
    <2>2. /\ IsFiniteSet(Chain(s)) /\ Chain(s) \subseteq Oids
          /\ \A o \in Oids : o \in Chain(s) <=> o[1] = s
      BY ChainFinite
    <2>3. CASE \E o \in Chain(s) : IsLive(orders[o])
      <3> PICK o \in Chain(s) : IsLive(orders[o])
        BY <2>3
      <3>1. o \in Oids /\ o[1] = s
        BY <2>2
      <3>2. \A p \in After(o) : Held[p] = 0
        BY <2>0, <2>1, <3>1, AroundLive
      <3>3. Total(Held, Chain(s)) = Total(Held, Before(o)) + Held[o]
        BY <2>1, <3>1, <3>2, ChainTotal
      <3>4. IsFiniteSet(Before(o)) /\ Before(o) \subseteq Oids
        BY <3>1, ChainParts
      <3>5. \A p \in Before(o) : p \notin resting /\ ~ IsLive(orders[p])
        BY <2>0, <3>1, AroundLive DEF IsLive, LiveStates
      <3>6. \A p \in Before(o) : Held[p] \in Nat /\ recorded[p] \in Nat /\ Held[p] <= recorded[p]
        BY <2>0, <2>1, <3>4, <3>5 DEF VenueSound
      <3>7. Total(Held, Before(o)) <= Total(recorded, Before(o))
        BY <3>4, <3>6, TotalAtMost
      <3>8. Total(recorded, Before(o)) + orders[o].size = Size
        BY <2>0, <3>1 DEF Shared, IsLive, LiveStates
      <3>9. Held[o] <= orders[o].size
        BY <2>0, <2>1, <3>1 DEF VenueSound
      <3>10. Total(Held, Before(o)) \in Nat /\ Total(recorded, Before(o)) \in Nat
        BY <2>0, <2>1, <3>4, UnitsFinite
      <3> QED BY <2>0, <2>1, <3>1, <3>3, <3>7, <3>8, <3>9, <3>10
    <2>4. CASE \A o \in Chain(s) : ~ IsLive(orders[o])
      <3>1. \A o \in Chain(s) : Held[o] \in Nat /\ recorded[o] \in Nat /\ Held[o] <= recorded[o]
        BY <2>0, <2>1, <2>2, <2>4 DEF VenueSound
      <3>2. Total(Held, Chain(s)) <= Total(recorded, Chain(s))
        BY <2>2, <3>1, TotalAtMost
      <3>3. Total(Held, Chain(s)) \in Nat /\ Total(recorded, Chain(s)) \in Nat
        BY <2>2, <3>1, UnitsFinite
      <3> QED BY <2>0, <3>2, <3>3, SizeAssumption DEF Shared
    <2> QED BY <2>3, <2>4
  <1> QED BY <1>1, PaperInvariant, PTL

------------------------------------------------------------------------------
(* The engine implements the ledger *)

\* The sum over a slot where one order alone counts.
LEMMA LoneOrder ==
  ASSUME NEW o \in Oids, NEW h, \A p \in Oids : h[p] \in Nat,
         \A p \in Before(o) : h[p] = 0, \A p \in After(o) : h[p] = 0
  PROVE  Total(h, Chain(o[1])) = h[o]
  <1>1. Total(h, Chain(o[1])) = Total(h, Before(o)) + h[o]
    BY ChainTotal
  <1>2. Total(h, Before(o)) = 0
    BY TotalNothing
  <1> QED BY <1>1, <1>2

LEMMA OutstandingOf ==
  ASSUME Paper, PaperInv, NEW o \in Oids
  PROVE  /\ Outstanding[o] \in Nat
         /\ o \in resting => Outstanding[o] = orders[o].size - recorded[o] /\ Outstanding[o] > 0
         /\ o \notin resting /\ executed[o] > recorded[o]
              => Outstanding[o] = executed[o] - recorded[o] /\ Outstanding[o] > 0
         /\ o \notin resting /\ executed[o] <= recorded[o] => Outstanding[o] = 0
  <1>1. recorded[o] \in Nat /\ executed[o] \in Nat /\ orders[o].size \in Nat
    BY PaperFacts DEF PaperInv
  <1>2. o \in resting => recorded[o] <= executed[o] /\ executed[o] < orders[o].size
    BY DEF PaperInv, ClosedSound, FillsSound
  <1> QED BY <1>1, <1>2 DEF Outstanding

\* Around a live order of a slot the venue may add nothing.
LEMMA NothingAround ==
  ASSUME Paper, PaperInv, NEW o \in Oids, IsLive(orders[o])
  PROVE  \A p \in Before(o) \union After(o) :
           p \in Oids /\ p # o /\ p \notin resting /\ executed[p] <= recorded[p]
  <1>0. IInv /\ FillsSound /\ VenueSound
    BY DEF PaperInv, ClosedSound, PaperSound
  <1>1. ASSUME NEW p \in Before(o)
        PROVE  p \in Oids /\ p # o /\ p \notin resting /\ executed[p] <= recorded[p]
    <2>1. p \in Oids /\ orders[p].state = "CANCELLED" /\ p \notin resting
      BY <1>0, AroundLive
    <2>2. ~ IsLive(orders[p])
      BY <2>1 DEF IsLive, LiveStates
    <2>3. recorded[p] \in Nat /\ executed[p] \in Nat
      BY <2>1, PaperFacts DEF PaperInv
    <2> QED BY <1>0, <2>1, <2>2, <2>3 DEF VenueSound
  <1>2. ASSUME NEW p \in After(o)
        PROVE  p \in Oids /\ p # o /\ p \notin resting /\ executed[p] <= recorded[p]
    <2>1. p \in Oids /\ recorded[p] = 0 /\ executed[p] = 0 /\ p \notin resting
      BY <1>0, AroundLive
    <2>2. p # o
      BY BoundAssumption DEF After, Oids, Gens
    <2> QED BY <2>1, <2>2
  <1> QED BY <1>1, <1>2

\* A slot whose orders are touched by nothing is worked as before.
LEMMA WorkingElsewhere ==
  ASSUME NEW s \in Slots, \A o \in Oids : o[1] = s => Outstanding'[o] = Outstanding[o]
  PROVE  Working'[s] = Working[s]
  <1>1. \A o \in Chain(s) : Outstanding'[o] = Outstanding[o]
    BY ChainFinite
  <1>2. Total(Outstanding', Chain(s)) = Total(Outstanding, Chain(s))
    BY <1>1, TotalSame
  <1> QED BY <1>2 DEF Working

LEMMA LedgerStutter ==
  ASSUME UNCHANGED recorded, \A o \in Oids : Outstanding'[o] = Outstanding[o]
  PROVE  UNCHANGED Ledger!ledger
  <1>1. \A s \in Slots : Working'[s] = Working[s]
    BY WorkingElsewhere
  <1>2. Working' = Working
    BY <1>1 DEF Working
  <1>3. Booked' = Booked
    BY DEF Booked
  <1> QED BY <1>2, <1>3 DEF Ledger!ledger

LEMMA LedgerNext ==
  ASSUME Paper, PaperInv, PaperInv', [Next]_vars
  PROVE  [Ledger!Next]_(Ledger!ledger)
  <1> USE DEF durable, venues, lost, world, memory
  <1>0. /\ TypeOK /\ RowsSound /\ CallSound /\ FillsSound
        /\ VenueSound /\ PassSound /\ Shared
        /\ latePlaces = {} /\ lateCancels = {}
        /\ \A o \in Oids : /\ recorded[o] \in Nat /\ executed[o] \in Nat
                           /\ orders[o].size \in Nat
    BY PaperFacts DEF PaperInv, IInv, ClosedSound, PaperSound, VenueSound
  <1>a. \A o \in Oids : Outstanding[o] \in Nat
    BY OutstandingOf
  <1>b. \A s \in Slots : Booked[s] = Total(recorded, Chain(s))
                         /\ Working[s] = Total(Outstanding, Chain(s))
    BY DEF Booked, Working
  <1>c. Working = [s \in Slots |-> Working[s]] /\ Working' = [s \in Slots |-> Working'[s]]
    BY DEF Working
  <1>1. CASE Quiet
    <2>1. \A o \in Oids : o \in resting => orders'[o].size = orders[o].size
      BY <1>0, SizesKept DEF PaperInv, RowsSound, MayRest
    <2>2. \A o \in Oids : Outstanding'[o] = Outstanding[o]
      BY <1>1, <2>1 DEF Outstanding, Quiet
    <2> QED BY <1>1, <2>2, LedgerStutter DEF Quiet
  <1>2. CASE Start
    <2>1. \A o \in Oids : Outstanding'[o] = 0
      BY <1>0, <1>2 DEF Start, Outstanding
    <2>2. ASSUME NEW s \in Slots PROVE Working'[s] = 0
      <3>1. \A o \in Chain(s) : Outstanding'[o] = 0
        BY <2>1, ChainFinite
      <3>2. Total(Outstanding', Chain(s)) = 0
        BY <3>1, TotalNothing
      <3> QED BY <3>2 DEF Working
    <2>3. Booked' = Booked
      BY <1>2 DEF Start, Booked
    <2>4. Ledger!Withdraw(Slots)
      BY <1>c, <2>2, <2>3 DEF Ledger!Withdraw
    <2> QED BY <2>4 DEF Ledger!Next
  <1>3. CASE CancelAccepted
    <2>1. /\ cur \in Oids /\ cur \in resting /\ resting' = resting \ {cur}
          /\ UNCHANGED <<orders, recorded, executed>> /\ pc \in {"sweep", "reprice"}
      BY <1>0, <1>3 DEF CancelAccepted, Cancelling, TypeOK
    <2>2. executed[cur] <= recorded[cur] /\ IsLive(orders[cur])
      BY <1>0, <2>1 DEF PassSound, Caught, VenueSound
    <2>3. \A o \in Oids \ {cur} : Outstanding'[o] = Outstanding[o]
      BY <2>1 DEF Outstanding
    <2>4. Outstanding'[cur] = 0
      BY <1>0, <2>1, <2>2 DEF Outstanding
    <2>5. \A o \in Before(cur) \union After(cur) : Outstanding'[o] = 0
      BY <2>1, <2>2, <2>3, NothingAround, OutstandingOf
    <2>6. \A o \in Oids : Outstanding'[o] \in Nat
      BY <1>a, <2>3, <2>4
    <2>7. Total(Outstanding', Chain(cur[1])) = 0
      BY <2>1, <2>4, <2>5, <2>6, LoneOrder
    <2>8. cur[1] \in Slots
      BY <2>1, OidParts
    <2>9. Working'[cur[1]] = 0
      BY <2>7, <2>8 DEF Working
    <2>10. \A s \in Slots : s # cur[1] => Working'[s] = Working[s]
      BY <2>3, WorkingElsewhere
    <2>11. Booked' = Booked
      BY <2>1 DEF Booked
    <2>12. Ledger!Withdraw({cur[1]})
      BY <1>c, <2>9, <2>10, <2>11 DEF Ledger!Withdraw
    <2> QED BY <2>8, <2>12 DEF Ledger!Next
  <1>4. CASE PlaceAccepted
    <2>1. /\ cur \in Oids /\ orders[cur].state = "PENDING" /\ cur \notin resting
          /\ resting' = resting \union {cur} /\ recorded[cur] = 0 /\ executed[cur] = 0
          /\ UNCHANGED <<orders, recorded, executed>>
      BY <1>0, <1>4 DEF PlaceAccepted, Placing, CallSound, MayRest, FillsSound
    <2>2. IsLive(orders[cur]) /\ orders[cur].state # "NONE" /\ cur[1] \in Slots
      BY <2>1, OidParts DEF IsLive, LiveStates
    <2>3. \A o \in Oids \ {cur} : Outstanding'[o] = Outstanding[o]
      BY <2>1 DEF Outstanding
    <2>4. Outstanding'[cur] = orders[cur].size /\ Outstanding[cur] = 0
      BY <1>0, <2>1 DEF Outstanding
    <2>5. \A o \in Before(cur) \union After(cur) : Outstanding[o] = 0 /\ Outstanding'[o] = 0
      BY <2>1, <2>2, <2>3, NothingAround, OutstandingOf
    <2>6. \A o \in Oids : Outstanding'[o] \in Nat
      BY <1>0, <1>a, <2>3, <2>4
    <2>7. /\ Total(Outstanding', Chain(cur[1])) = orders[cur].size
          /\ Total(Outstanding, Chain(cur[1])) = 0
      BY <1>a, <2>1, <2>4, <2>5, <2>6, LoneOrder
    <2>8. \A p \in After(cur) : recorded[p] = 0
      BY <1>0, <2>1, <2>2, AroundLive DEF PaperInv
    <2>9. Total(recorded, Chain(cur[1])) = Total(recorded, Before(cur)) + 0
      BY <1>0, <2>1, <2>8, ChainTotal
    <2>10. Total(recorded, Before(cur)) + orders[cur].size = Size
      BY <1>0, <2>1, <2>2 DEF Shared
    <2>11. Total(recorded, Before(cur)) \in Nat
      BY <1>0, <2>1, ChainParts, UnitsFinite
    <2>12. Working'[cur[1]] = Size - Booked[cur[1]] /\ Working[cur[1]] = 0
      <3>1. Working'[cur[1]] = orders[cur].size
        BY <2>2, <2>7 DEF Working
      <3>2. Booked[cur[1]] = Total(recorded, Before(cur))
        BY <1>b, <2>2, <2>9, <2>11
      <3>3. Working[cur[1]] = 0
        BY <1>b, <2>2, <2>7
      <3> QED BY <1>0, <2>1, <2>10, <2>11, <3>1, <3>2, <3>3, SizeAssumption
    <2>13. \A s \in Slots : s # cur[1] => Working'[s] = Working[s]
      BY <2>3, WorkingElsewhere
    <2>14. Working' = [Working EXCEPT ![cur[1]] = Size - Booked[cur[1]]]
      BY <1>c, <2>2, <2>12, <2>13
    <2>15. Booked' = Booked
      BY <2>1 DEF Booked
    <2>16. Ledger!Work(cur[1])
      BY <2>12, <2>14, <2>15 DEF Ledger!Work
    <2> QED BY <2>2, <2>16 DEF Ledger!Next
  <1>5. ASSUME NEW p \in Oids, VenueFill(p) PROVE UNCHANGED Ledger!ledger
    <2>1. /\ p \in resting /\ executed' = [executed EXCEPT ![p] = executed[p] + 1]
          /\ resting' = IF executed[p] + 1 < orders[p].size THEN resting ELSE resting \ {p}
          /\ UNCHANGED <<orders, recorded>> /\ executed \in [Oids -> Nat]
      BY <1>0, <1>5 DEF VenueFill, TypeOK
    <2>2. recorded[p] <= executed[p] /\ executed[p] < orders[p].size
      BY <1>0, <2>1 DEF FillsSound
    <2>3. \A o \in Oids \ {p} : Outstanding'[o] = Outstanding[o]
      BY <2>1 DEF Outstanding
    <2>4. Outstanding'[p] = Outstanding[p]
      <3>1. Outstanding[p] = orders[p].size - recorded[p]
        BY <2>1 DEF Outstanding
      <3>2. executed'[p] = executed[p] + 1
        BY <2>1
      <3>3. Outstanding'[p] = IF p \in resting' THEN orders[p].size - recorded[p]
                              ELSE IF executed'[p] > recorded[p] THEN executed'[p] - recorded[p]
                              ELSE 0
        BY <2>1 DEF Outstanding
      <3> QED BY <1>0, <2>1, <2>2, <3>1, <3>2, <3>3
    <2> QED BY <2>1, <2>3, <2>4, LedgerStutter
  <1>6. ASSUME NEW p \in Oids, RecordFill(p) PROVE Ledger!Next
    <2>1. /\ IsLive(orders[p]) /\ executed[p] > recorded[p] /\ recorded'[p] = recorded[p] + 1
          /\ \A o \in Oids \ {p} : recorded'[o] = recorded[o]
          /\ Total(recorded', Chain(p[1])) = Total(recorded, Chain(p[1])) + 1
          /\ \A s \in Slots \ {p[1]} : Total(recorded', Chain(s)) = Total(recorded, Chain(s))
      BY <1>6, RecordedSums DEF PaperInv
    <2>2. UNCHANGED <<orders, resting, executed>> /\ p[1] \in Slots
      BY <1>6, OidParts DEF RecordFill
    <2>3. \A o \in Oids \ {p} : Outstanding'[o] = Outstanding[o]
      BY <2>1, <2>2 DEF Outstanding
    <2>4. Outstanding'[p] = Outstanding[p] - 1 /\ Outstanding[p] > 0
      <3>1. Outstanding'[p] = IF p \in resting THEN orders[p].size - recorded'[p]
                              ELSE IF executed[p] > recorded'[p] THEN executed[p] - recorded'[p]
                              ELSE 0
        BY <2>2 DEF Outstanding
      <3> QED BY <1>0, <2>1, <3>1, OutstandingOf
    <2>5. \A o \in Before(p) \union After(p) : Outstanding[o] = 0 /\ Outstanding'[o] = 0
      BY <2>1, <2>3, NothingAround, OutstandingOf
    <2>6. \A o \in Oids : Outstanding'[o] \in Nat
      BY <1>a, <2>3, <2>4
    <2>7. /\ Total(Outstanding', Chain(p[1])) = Outstanding'[p]
          /\ Total(Outstanding, Chain(p[1])) = Outstanding[p]
      BY <1>a, <2>5, <2>6, LoneOrder
    <2>8. Working[p[1]] > 0 /\ Working'[p[1]] = Working[p[1]] - 1
      <3>1. Working'[p[1]] = Outstanding'[p] /\ Working[p[1]] = Outstanding[p]
        BY <2>2, <2>7 DEF Working
      <3> QED BY <2>4, <3>1
    <2>9. \A s \in Slots : s # p[1] => Working'[s] = Working[s]
      BY <2>3, WorkingElsewhere
    <2>10. Working' = [Working EXCEPT ![p[1]] = Working[p[1]] - 1]
      BY <1>c, <2>2, <2>8, <2>9
    <2>11. Booked' = [Booked EXCEPT ![p[1]] = Booked[p[1]] + 1]
      BY <2>1, <2>2 DEF Booked
    <2>12. Ledger!Book(p[1])
      BY <2>8, <2>10, <2>11 DEF Ledger!Book
    <2> QED BY <2>2, <2>12 DEF Ledger!Next
  <1>7. ASSUME NEW p \in Oids, LatePlacement(p) \/ LateCancel(p) PROVE FALSE
    BY <1>0, <1>7 DEF LatePlacement, LateCancel
  <1>8. ~ PlaceLost /\ ~ PlaceErrored
    BY DEF PlaceLost, PlaceErrored
  <1> QED BY <1>1, <1>2, <1>3, <1>4, <1>5, <1>6, <1>7, <1>8, VenueStep DEF VenueActs

\* With the paper adapter the engine implements the ledger: an accepted placement works
\* exactly what is not yet booked, a recorded fill books a worked unit, a cancel and a
\* restart withdraw, and every other step of the code leaves the ledger alone.
THEOREM EngineImplementsLedger == ASSUME Paper PROVE Spec => ImplementsLedger
  <1>1. ASSUME Init PROVE Ledger!Init
    <2>1. \A o \in Oids : recorded[o] = 0 /\ Outstanding[o] = 0
      BY <1>1 DEF Init, Outstanding
    <2>2. ASSUME NEW s \in Slots
          PROVE  Total(recorded, Chain(s)) = 0 /\ Total(Outstanding, Chain(s)) = 0
      <3>1. \A o \in Chain(s) : recorded[o] = 0 /\ Outstanding[o] = 0
        BY <2>1, ChainFinite
      <3> QED BY <3>1, TotalNothing
    <2> QED BY <2>2 DEF Ledger!Init, Booked, Working
  <1>2. PaperInv /\ PaperInv' /\ [Next]_vars => [Ledger!Next]_(Ledger!ledger)
    BY LedgerNext
  <1> QED BY <1>1, <1>2, PaperInvariant, PTL DEF Spec, ImplementsLedger, Ledger!Spec

------------------------------------------------------------------------------
(* Past the approval: ExcessIsUncounted, with either adapter *)

LEMMA TotalCovered ==
  ASSUME NEW S, IsFiniteSet(S), NEW h, NEW f, NEW g,
         \A o \in S : h[o] \in Nat /\ f[o] \in Nat /\ g[o] \in Nat /\ h[o] <= f[o] + g[o]
  PROVE  Total(h, S) <= Total(f, S) + Total(g, S)
  <1> DEFINE shift == [u \in Units(g, S) |-> <<u[1], f[u[1]] + u[2]>>]
             Shifted == {shift[u] : u \in Units(g, S)}
  <1>1. /\ IsFiniteSet(Units(f, S)) /\ Total(f, S) \in Nat
        /\ IsFiniteSet(Units(g, S)) /\ Total(g, S) \in Nat
        /\ IsFiniteSet(Units(h, S)) /\ Total(h, S) \in Nat
    BY UnitsFinite
  <1>2. IsFiniteSet(Shifted) /\ Cardinality(Shifted) <= Cardinality(Units(g, S))
    <2>1. shift \in Surjection(Units(g, S), Shifted)
      BY DEF Surjection
    <2> HIDE DEF shift, Shifted
    <2> QED BY <1>1, <2>1, FS_Surjection
  <1>3. Units(h, S) \subseteq Units(f, S) \union Shifted
    <2>0. \A u \in Units(h, S) : \E o \in S : \E i \in 1 .. h[o] : u = <<o, i>>
      BY DEF Units
    <2> SUFFICES ASSUME NEW o \in S, NEW i \in 1 .. h[o]
                 PROVE  <<o, i>> \in Units(f, S) \union Shifted
      BY <2>0
    <2>1. CASE i <= f[o]
      <3>1. i \in 1 .. f[o]
        BY <2>1
      <3>2. <<o, i>> \in {o} \X (1 .. f[o])
        BY <3>1
      <3>3. <<o, i>> \in Units(f, S)
        BY <3>2, Zenon DEF Units
      <3> QED BY <3>3
    <2>2. CASE ~ (i <= f[o])
      <3>1. i - f[o] \in 1 .. g[o] /\ f[o] + (i - f[o]) = i
        BY <2>2
      <3>2. <<o, i - f[o]>> \in Units(g, S)
        BY <3>1 DEF Units
      <3>3. shift[<<o, i - f[o]>>] = <<o, i>>
        BY <3>1, <3>2
      <3> QED BY <3>2, <3>3
    <2> QED BY <2>1, <2>2
  <1> HIDE DEF shift, Shifted
  <1>4. /\ IsFiniteSet(Units(f, S) \union Shifted)
        /\ Cardinality(Units(f, S) \union Shifted)
             = Cardinality(Units(f, S)) + Cardinality(Shifted) - Cardinality(Units(f, S) \cap Shifted)
    BY <1>1, <1>2, FS_Union
  <1>5. Cardinality(Units(f, S) \cap Shifted) \in Nat
    BY <1>1, FS_Intersection, FS_CardinalityType
  <1>6. Cardinality(Units(h, S)) <= Cardinality(Units(f, S) \union Shifted)
    BY <1>3, <1>4, FS_Subset
  <1>7. Cardinality(Shifted) \in Nat /\ Cardinality(Units(f, S) \union Shifted) \in Nat
    BY <1>2, <1>4, FS_CardinalityType
  <1> QED BY <1>1, <1>2, <1>4, <1>5, <1>6, <1>7 DEF Total

Counted == [o \in Oids |-> orders[o].filled]

\* What the rows before an order count and its own size make up the approved size, and
\* the venue executes no more of an order than its size.
Planned ==
  /\ \A o \in Oids : orders[o].state # "NONE" => Total(Counted, Before(o)) + orders[o].size = Size
  /\ \A o \in Oids : executed[o] <= orders[o].size

LEMMA PlannedStep ==
  ASSUME IInv, FillsSound, Planned, [Next]_vars
  PROVE  Planned'
  <1>0. /\ TypeOK /\ TypeOK' /\ RowsSound /\ ChainSound /\ CallSound /\ IInv'
        /\ \A o \in Oids : RowStep(o)
    BY AllRowsStep, IInvStep DEF IInv
  <1>a. \A o \in Oids : /\ orders[o].size \in Nat /\ orders[o].filled \in Nat
                        /\ orders'[o].size \in Nat /\ orders'[o].filled \in Nat
                        /\ executed[o] \in Nat
    BY <1>0, SizeAssumption DEF TypeOK, Row
  <1>1. ASSUME NEW o \in Oids, orders[o].state = "CANCELLED"
        PROVE  orders'[o] = orders[o]
    BY <1>0, <1>1 DEF RowStep, IsTerminal, TerminalStates
  <1>2. ASSUME NEW o \in Oids, orders[o].state # "NONE"
        PROVE  Total(Counted', Before(o)) + orders'[o].size = Size
    <2>1. ASSUME NEW p \in Before(o) PROVE Counted'[p] = Counted[p]
      <3>1. p \in Oids /\ orders[p].state = "CANCELLED"
        BY <1>0, <1>2 DEF Before, ChainSound
      <3> QED BY <1>1, <3>1 DEF Counted
    <2>2. Total(Counted', Before(o)) = Total(Counted, Before(o))
      BY <2>1, TotalSame
    <2> QED BY <1>2, <2>2, SizesKept DEF Planned
  <1>3. ASSUME NEW o \in Oids, orders[o].state = "NONE", orders'[o].state # "NONE"
        PROVE  Total(Counted', Before(o)) + orders'[o].size = Size
    <2>1. orders[o] = NoRow /\ orders'[o] # NoRow /\ RowStep(o)
      BY <1>0, <1>3 DEF RowsSound, NoRow
    <2>2. CASE ~ (o[2] > 0)
      <3>1. Total(Counted', Before(o)) = 0
        BY <2>2, BeforeFirst, TotalNothing
      <3>2. orders'[o].size = Size
        BY <2>1, <2>2 DEF RowStep
      <3> QED BY <3>1, <3>2, SizeAssumption
    <2>3. CASE o[2] > 0
      <3>1. /\ cur \in Oids /\ o = Successor(cur) /\ cur[2] < MaxRetries
            /\ orders'[o].size = orders[cur].size - orders[cur].filled
            /\ orders[cur].state = "CANCELLED"
        BY <1>0, <2>1, <2>3 DEF RowStep, Remaining, CallSound
      <3>2. Before(o) = Before(cur) \union {cur}
        BY <3>1, BeforeSuccessor
      <3>3. cur \notin Before(cur) /\ IsFiniteSet(Before(cur)) /\ Before(cur) \subseteq Oids
        BY <3>1, ChainParts
      <3>4. \A p \in Oids : Counted'[p] \in Nat
        BY <1>a DEF Counted
      <3>5. Total(Counted', Before(o)) = Total(Counted', Before(cur)) + Counted'[cur]
        <4>1. ASSUME NEW h, \A p \in Oids : h[p] \in Nat
              PROVE  Total(h, Before(o)) = Total(h, Before(cur)) + h[cur]
          <5>1. \A p \in Before(cur) \union {cur} : h[p] \in Nat
            BY <3>1, <3>3, <4>1
          <5>2. Total(h, Before(cur) \union {cur}) = Total(h, Before(cur)) + h[cur]
            BY <3>3, <5>1, TotalAdd
          <5> QED BY <3>2, <5>2
        <4> HIDE DEF Counted
        <4> QED BY <3>4, <4>1
      <3>6. Total(Counted', Before(cur)) + orders'[cur].size = Size
        BY <1>2, <3>1
      <3>7. Counted'[cur] = orders[cur].filled /\ orders'[cur].size = orders[cur].size
        BY <1>1, <3>1 DEF Counted
      <3>8. Total(Counted', Before(cur)) \in Nat
        BY <3>3, <3>4, UnitsFinite
      <3> QED BY <1>a, <3>1, <3>5, <3>6, <3>7, <3>8, SizeAssumption
    <2> QED BY <2>2, <2>3
  <1>4. ASSUME NEW o \in Oids PROVE executed'[o] <= orders'[o].size
    <2>1. CASE orders[o].state = "NONE"
      <3>1. executed[o] = 0 /\ o \notin resting
        BY <1>0, <2>1 DEF RowsSound, FillsSound, MayRest
      <3>2. executed'[o] = 0
        <4>1. CASE Quiet
          BY <3>1, <4>1 DEF Quiet, venues
        <4>2. CASE Start
          BY <3>1, <4>2 DEF Start
        <4>3. ASSUME NEW p \in Oids, VenueFill(p) PROVE executed'[o] = 0
          BY <1>0, <3>1, <4>3 DEF VenueFill, TypeOK
        <4>4. CASE \E p \in Oids : LatePlacement(p) \/ LateCancel(p) \/ RecordFill(p)
          BY <3>1, <4>4 DEF LatePlacement, LateCancel, RecordFill, world, venues
        <4>5. CASE CancelAccepted \/ PlaceAccepted \/ PlaceLost \/ PlaceErrored
          BY <3>1, <4>5 DEF CancelAccepted, PlaceAccepted, PlaceLost, PlaceErrored, venues
        <4> QED BY <4>1, <4>2, <4>3, <4>4, <4>5, VenueStep DEF VenueActs
      <3> QED BY <1>a, <3>2
    <2>2. CASE orders[o].state # "NONE"
      <3>1. orders'[o].size = orders[o].size /\ executed[o] <= orders[o].size
        BY <2>2, SizesKept DEF Planned
      <3>2. executed'[o] <= orders[o].size
        <4>1. CASE Quiet
          BY <3>1, <4>1 DEF Quiet, venues
        <4>2. CASE Start
          BY <1>a, <3>1, <4>2 DEF Start
        <4>3. ASSUME NEW p \in Oids, VenueFill(p) PROVE executed'[o] <= orders[o].size
          <5>1. p \in resting /\ executed' = [executed EXCEPT ![p] = executed[p] + 1]
            BY <4>3 DEF VenueFill
          <5>2. executed[p] < orders[p].size
            BY <5>1 DEF FillsSound
          <5> QED BY <1>0, <1>a, <3>1, <5>1, <5>2 DEF TypeOK
        <4>4. CASE \E p \in Oids : LatePlacement(p) \/ LateCancel(p) \/ RecordFill(p)
          BY <3>1, <4>4 DEF LatePlacement, LateCancel, RecordFill, world, venues
        <4>5. CASE CancelAccepted \/ PlaceAccepted \/ PlaceLost \/ PlaceErrored
          BY <3>1, <4>5 DEF CancelAccepted, PlaceAccepted, PlaceLost, PlaceErrored, venues
        <4> QED BY <4>1, <4>2, <4>3, <4>4, <4>5, VenueStep DEF VenueActs
      <3> QED BY <3>1, <3>2
    <2> QED BY <2>1, <2>2
  <1> QED BY <1>2, <1>3, <1>4 DEF Planned

\* The last order of a chain that exists; what is before it is cancelled and replaced.
LEMMA LastOfChain ==
  ASSUME IInv, FillsSound, NEW s \in Slots, \E p \in Chain(s) : orders[p].state # "NONE"
  PROVE  \E o \in Oids :
           /\ o[1] = s /\ orders[o].state # "NONE"
           /\ \A p \in After(o) : p \in Oids /\ executed[p] = 0 /\ p \notin resting
           /\ \A p \in Before(o) : p \in Oids /\ p \notin resting /\ Replaced(p)
  <1>0. ChainSound /\ RowsSound
    BY DEF IInv
  <1>1. /\ \A p \in Oids : p \in Chain(s) <=> p[1] = s
        /\ Chain(s) \subseteq Oids
    BY ChainFinite
  <1>2. \A p \in Oids : p[2] \in Nat /\ p[2] <= MaxRetries /\ p = <<p[1], p[2]>>
    BY BoundAssumption DEF Oids, Gens
  <1> DEFINE R == {MaxRetries - p[2] : p \in {q \in Chain(s) : orders[q].state # "NONE"}}
  <1>3. R \subseteq Nat /\ R # {}
    BY <1>1, <1>2, BoundAssumption
  <1>4. PICK d \in R : \A i \in R : ~ (<<i, d>> \in OpToRel(<, Nat))
    <2>1. IsWellFoundedOn(OpToRel(<, Nat), Nat)
      BY NatLessThanWellFounded
    <2> HIDE DEF R
    <2> QED BY <1>3, <2>1, WFMin
  <1>5. \A i \in R : d <= i
    <2> SUFFICES ASSUME NEW i \in R PROVE d <= i
      OBVIOUS
    <2>1. i \in Nat /\ d \in Nat
      BY <1>3
    <2>2. ~ (i < d)
      BY <1>4, <2>1 DEF OpToRel
    <2> QED BY <2>1, <2>2
  <1>6. PICK o \in Chain(s) : orders[o].state # "NONE" /\ d = MaxRetries - o[2]
    OBVIOUS
  <1>7. o \in Oids /\ o[1] = s
    BY <1>1
  <1>8. ASSUME NEW p \in After(o) PROVE p \in Oids /\ executed[p] = 0 /\ p \notin resting
    <2>1. p \in Oids /\ p[1] = s /\ p[2] > o[2]
      BY <1>7 DEF After
    <2>2. orders[p].state = "NONE"
      <3>1. SUFFICES ASSUME orders[p].state # "NONE" PROVE FALSE
        OBVIOUS
      <3>2. MaxRetries - p[2] \in R
        BY <1>1, <2>1, <3>1
      <3>3. d <= MaxRetries - p[2]
        BY <1>5, <3>2
      <3> HIDE DEF R
      <3> QED BY <1>2, <1>6, <1>7, <2>1, <3>3, BoundAssumption
    <2> QED BY <1>0, <2>1, <2>2 DEF RowsSound, FillsSound, MayRest
  <1>9. ASSUME NEW p \in Before(o) PROVE p \in Oids /\ p \notin resting /\ Replaced(p)
    <2>1. p \in Oids /\ p[1] = o[1] /\ p[2] < o[2]
      BY DEF Before
    <2>2. p[2] < MaxRetries /\ Successor(p) \in Oids
      BY <1>2, <1>7, <2>1, BoundAssumption, SuccessorOid
    <2>3. Successor(p)[1] = o[1] /\ Successor(p)[2] = p[2] + 1
      BY <2>1 DEF Successor
    <2>4. orders[Successor(p)].state # "NONE"
      <3>1. CASE Successor(p)[2] < o[2]
        BY <1>0, <1>6, <1>7, <2>2, <2>3, <3>1 DEF ChainSound
      <3>2. CASE ~ (Successor(p)[2] < o[2])
        <4>1. Successor(p)[2] = o[2]
          BY <1>2, <1>7, <2>1, <2>3, <3>2
        <4>2. Successor(p) = o
          BY <1>2, <1>7, <2>2, <2>3, <4>1
        <4> QED BY <1>6, <4>2
      <3> QED BY <3>1, <3>2
    <2>5. p \notin resting
      BY <1>0, <1>6, <1>7, <2>1 DEF ChainSound, MayRest
    <2> QED BY <2>1, <2>2, <2>4, <2>5 DEF Replaced, NoRow
  <1> QED BY <1>6, <1>7, <1>8, <1>9

\* Whatever is lost, late, refused or repeated, on either adapter and whether or not
\* recovery gets a listing, a slot exceeds its approval by no more than the fills that the
\* rows of its replaced orders had not counted: what maybe_reprice's remaining_size adds
\* back is the engine's only way past it, and bounds it.
THEOREM ExcessIsBounded == Spec => []ExcessIsUncounted
  <1> DEFINE Inv == FillsSound /\ WorkSound /\ Planned
  <1>1. ASSUME Init PROVE Inv
    <2>1. \A o \in Oids : orders[o].state = "NONE" /\ orders[o].size = 0
      BY <1>1 DEF Init, NoRow
    <2>2. Planned
      BY <1>1, <2>1 DEF Planned, Init
    <2> QED BY <1>1, <2>2, InitClosedSound DEF ClosedSound
  <1>2. ASSUME IInv, Inv, [Next]_vars PROVE Inv'
    BY <1>2, FillsStep, WorkStep, PlannedStep
  <1>3. ASSUME IInv, Inv PROVE ExcessIsUncounted
    <2> SUFFICES ASSUME NEW s \in Slots
                 PROVE  Total(Held, Chain(s)) <= Size + Total(Uncounted, Chain(s))
      BY DEF ExcessIsUncounted
    <2>0. FillsSound /\ Planned /\ RowsSound
      BY <1>3 DEF IInv
    <2>1. \A o \in Oids : /\ orders[o].size \in Nat /\ orders[o].filled \in Nat
                          /\ executed[o] \in Nat
      BY <1>3, SizeAssumption DEF IInv, TypeOK, Row
    <2>2. /\ IsFiniteSet(Chain(s)) /\ Chain(s) \subseteq Oids
          /\ \A o \in Oids : o \in Chain(s) <=> o[1] = s
      BY ChainFinite
    <2>3. ASSUME NEW o \in Oids
          PROVE  /\ Held[o] = IF o \in resting THEN orders[o].size ELSE executed[o]
                 /\ Held[o] \in Nat /\ Uncounted[o] \in Nat
                 /\ Replaced(o) => executed[o] <= orders[o].filled + Uncounted[o]
                 /\ executed[o] = 0 => Uncounted[o] = 0
                 /\ Counted[o] = orders[o].filled /\ Counted[o] \in Nat
      BY <2>1 DEF Held, Uncounted, Counted
    <2>4. Total(Uncounted, Chain(s)) \in Nat
      BY <2>2, <2>3, UnitsFinite
    <2>5. CASE \A p \in Chain(s) : orders[p].state = "NONE"
      <3>1. \A p \in Chain(s) : Held[p] = 0
        BY <2>0, <2>2, <2>3, <2>5 DEF RowsSound, FillsSound, MayRest
      <3> QED BY <2>4, <3>1, TotalNothing, SizeAssumption
    <2>6. CASE \E p \in Chain(s) : orders[p].state # "NONE"
      <3>1. PICK o \in Oids :
              /\ o[1] = s /\ orders[o].state # "NONE"
              /\ \A p \in After(o) : p \in Oids /\ executed[p] = 0 /\ p \notin resting
              /\ \A p \in Before(o) : p \in Oids /\ p \notin resting /\ Replaced(p)
        BY <1>3, <2>0, <2>6, LastOfChain
      <3>2. \A p \in After(o) : Held[p] = 0 /\ Uncounted[p] = 0
        BY <2>3, <3>1
      <3>3. /\ Total(Held, Chain(s)) = Total(Held, Before(o)) + Held[o]
            /\ Total(Uncounted, Chain(s)) = Total(Uncounted, Before(o)) + Uncounted[o]
        BY <2>3, <3>1, <3>2, ChainTotal
      <3>4. IsFiniteSet(Before(o)) /\ Before(o) \subseteq Oids
        BY ChainParts
      <3>5. Total(Held, Before(o)) <= Total(Counted, Before(o)) + Total(Uncounted, Before(o))
        <4>1. \A p \in Before(o) : /\ Held[p] \in Nat /\ Counted[p] \in Nat /\ Uncounted[p] \in Nat
                                   /\ Held[p] <= Counted[p] + Uncounted[p]
          BY <2>3, <3>1
        <4> QED BY <3>4, <4>1, TotalCovered
      <3>6. Total(Counted, Before(o)) + orders[o].size = Size
        BY <2>0, <3>1 DEF Planned
      <3>7. Held[o] <= orders[o].size
        BY <2>0, <2>1, <2>3 DEF Planned
      <3>8. /\ Total(Held, Before(o)) \in Nat /\ Total(Counted, Before(o)) \in Nat
            /\ Total(Uncounted, Before(o)) \in Nat
        BY <2>3, <3>4, UnitsFinite
      <3> QED BY <2>1, <2>3, <3>3, <3>5, <3>6, <3>7, <3>8, SizeAssumption
    <2> QED BY <2>5, <2>6
  <1> QED BY <1>1, <1>2, <1>3, Soundness, PTL DEF Spec
==============================================================================
