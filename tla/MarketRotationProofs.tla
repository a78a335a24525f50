------------------------ MODULE MarketRotationProofs ------------------------
(***************************************************************************)
(* Proofs about rotation, for any grid, grace and feed and any number of   *)
(* faults: the opening price is the official one, and the live instances   *)
(* are what their rows say.  Neither is inductive alone: both rest on what *)
(* the coroutine is doing to which market (Working).  The second part is   *)
(* about a clock that goes forward: an invariant of its own (Forward) and  *)
(* what it says of collectors and settlements.  The last is the refinement *)
(* of MarketLife.                                                          *)
(***************************************************************************)
EXTENDS MarketRotation, TLAPS

Settling(m) == m \in Markets \ Live /\ phaseRow[m] = "SETTLING"

\* Where the coroutine goes through rows one by one.
Visiting ==
  \/ pc \in {"recover", "stored"}
  \/ pc = "ask" /\ job = "stored"
  \/ pc \in {"twap", "outcome", "phase"} /\ job # "live"

\* The rows still to be visited are of markets no instance stands for.
TodoSound == Visiting => \A m \in todo : Settling(m)

\* The market whose opening price is asked for: a live one without, or a stranded row.
AskSound ==
  pc = "ask" =>
    \/ job \in {"late", "attempt"} /\ cur \in Live /\ mptb[cur] = 0
    \/ job = "stored" /\ Settling(cur) /\ cur \notin todo

\* The market being settled: the closing one, or a stranded row.
SettleSound ==
  pc \in {"twap", "outcome", "phase"} =>
    \/ job = "live" /\ cur = closing /\ closing # 0
    \/ job = "stored" /\ Settling(cur) /\ cur \notin todo
    \/ job = "recovered" /\ Settling(cur) /\ cur \notin todo /\ Live = {}

\* How far a rotation has got.
RotateSound ==
  /\ pc \in {"down", "recover"} => Live = {}
  /\ current = 0 /\ pc \notin {"advance", "activate"} => closing = 0
  /\ pc = "advance" => current # WindowAt(at)
  /\ pc = "advance" /\ current = 0 => closing # WindowAt(at)
  /\ pc = "activate" => current = 0 /\ cur \in Markets \ Live /\ phaseRow[cur] = "DISCOVERED"

\* A market without an instance, or not yet active, has no price to disagree about.
PricesSound ==
  /\ \A m \in Markets \ Live : mptb[m] = 0
  /\ \A m \in Markets : phaseRow[m] \in {"none", "DISCOVERED"} => ptbRow[m] = 0

Working == TodoSound /\ AskSound /\ SettleSound /\ RotateSound /\ PricesSound

RotationInv == TypeOK /\ PtbIsOfficial /\ LiveMatchesRows /\ Working

------------------------------------------------------------------------------
(* The grid *)

LEMMA Product == ASSUME NEW a \in Nat \ {0}, NEW b \in Nat \ {0} PROVE a * b \in Nat \ {0}
  BY SMTT(20)

LEMMA Grid == M * D \in Nat /\ M * D > 0 /\ Times \subseteq Nat /\ 0 \in Times
  BY GridAssumption, Product DEF Times

\* The clock, while it is on the grid, is in one of its markets.
LEMMA WindowOnGrid == ASSUME NEW t \in Times PROVE WindowAt(t) \in Markets
  <1> DEFINE q == t \div D
  <1>1. t \in Nat /\ t < M * D
    BY Grid DEF Times
  <1>2. q \in Nat /\ D * q <= t
    BY <1>1, GridAssumption, SMTT(30)
  <1>3. q < M
    <2> SUFFICES ASSUME q >= M PROVE FALSE
      BY <1>2, GridAssumption
    <2> HIDE DEF q
    <2>1. D * q >= D * M
      BY <1>2, GridAssumption, SMTT(30)
    <2> QED BY <2>1, <1>1, <1>2, GridAssumption
  <1> HIDE DEF q
  <1> QED BY <1>2, <1>3, GridAssumption DEF WindowAt, Markets, q

\* 0 stands for no market.
LEMMA NoMarket == 0 \in 0 .. M /\ 0 \notin Markets /\ Markets \subseteq 0 .. M
  BY GridAssumption DEF Markets

LEMMA LiveOnGrid == ASSUME TypeOK PROVE Live \subseteq Markets
  BY GridAssumption DEF TypeOK, Live, Markets

LEMMA InitRotation == Init => RotationInv
  BY Grid, NoMarket, GridAssumption
  DEF Init, RotationInv, TypeOK, PtbIsOfficial, LiveMatchesRows, Working, TodoSound, AskSound,
      SettleSound, RotateSound, PricesSound, Visiting, Live, NoOutcome

------------------------------------------------------------------------------
(* Types *)

\* The TWAP that is written, the outcome of it, and the price that is asked for.
LEMMA TwapTyped == ASSUME TypeOK, NEW m, NEW j PROVE TwapOf(m, j) \subseteq Rows \/ m \notin Markets
  BY DEF TypeOK, TwapOf, CollectedBy, Rebuilt, ObservationsBetween

LEMMA OfficialTyped ==
  ASSUME RotationInv, pc = "ask", CachePreviousClose
  PROVE  /\ cur \in Markets /\ cached' \in 0 .. M
         /\ Official(cur, cached') \in {0, cur}
  <1>1. cur \in Markets
    BY LiveOnGrid DEF RotationInv, Working, AskSound, Settling
  <1>2. cached' \in 0 .. M
    BY <1>1, NoMarket DEF RotationInv, TypeOK, CachePreviousClose, Offered
  <1> QED BY <1>1, <1>2 DEF Official

LEMMA TypeStep == ASSUME RotationInv, Next PROVE TypeOK'
  <1> USE NoMarket DEF RotationInv, TypeOK
  <1>1. CASE Tick
    BY <1>1 DEF Tick, durable, rotator, local
  <1>2. CASE StepBack
    BY <1>2, Grid, GridAssumption DEF StepBack, durable, rotator, local, Times
  <1>3. ASSUME NEW ts \in Emits, NEW k \in 1 .. Deliveries, Hear(ts, k) PROVE TypeOK'
    <2>1. Live \subseteq Markets /\ ts \in Times
      BY <1>3, LiveOnGrid DEF Hear, Window
    <2>2. {<<m, ts, k>> : m \in Routed} \subseteq Rows
      BY <2>1 DEF Rows, Routed
    <2>3. {<<m, ts, k>> : m \in {l \in Routed : TakenBy(l, ts)}} \subseteq {<<m, ts, k>> : m \in Routed}
      OBVIOUS
    <2>4. rows' \subseteq Rows /\ collected' \subseteq rows'
      BY <1>3, <2>2, <2>3 DEF Hear
    <2> QED BY <1>3, <2>4 DEF Hear, local
  <1>4. CASE Crash
    BY <1>4, Grid, GridAssumption DEF Crash, durable
  <1>5. CASE Start
    BY <1>5 DEF Start, world, durable, rotator
  <1>6. CASE Recovery
    BY <1>6, Grid DEF Recovery, SettleRecovered, Recovered, Visit, Rest, world, durable, rotator
  <1>7. CASE Rotate
    <2>1. CASE BeginPass
      BY <2>1 DEF BeginPass, world, durable, rotator
    <2>2. CASE CloseCurrent
      BY <2>2 DEF CloseCurrent, world
    <2>3. CASE Create
      BY <2>3, WindowOnGrid DEF Create, world, rotator
    <2>4. CASE Activate
      BY <2>4 DEF Activate, Collecting, Goto, world, Working, RotateSound
    <2>5. CASE Restore
      <3>1. WindowAt(at) \in Markets
        BY WindowOnGrid
      <3> HIDE DEF RotationInv
      <3> QED BY <2>5, <3>1 DEF Restore, Collecting, Goto, world, RotationInv
    <2>6. CASE Swept
      BY <2>6 DEF Swept, Cleanup, world, durable
    <2> QED BY <1>7, <2>1, <2>2, <2>3, <2>4, <2>5, <2>6 DEF Rotate
  <1>8. CASE AskPtb
    <2>1. CASE LateRetry \/ StoredDone \/ AttemptPtb
      BY <2>1 DEF LateRetry, StoredDone, AttemptPtb, Work, world, durable, rotator
    <2>2. CASE ListStored
      BY <2>2 DEF ListStored, Stranded, world, durable, rotator
    <2>3. CASE StoredWithPtb \/ StoredWithout
      BY <2>3 DEF StoredWithPtb, StoredWithout, Visit, world, durable, rotator
    <2>4. CASE NoAttempt
      BY <2>4, Grid DEF NoAttempt, Rest, world, durable, rotator
    <2>5. CASE PtbMissing
      BY <2>5, Grid, OfficialTyped DEF PtbMissing, AfterPtb, Goto, Rest, world, durable, rotator
    <2>6. CASE PtbFrozen
      <3>1. /\ cur \in Markets /\ cached' \in 0 .. M
            /\ Official(cur, cached') \in 0 .. M
        BY <2>6, OfficialTyped DEF PtbFrozen
      <3>2. ptbRow' \in [Markets -> 0 .. M] /\ mptb' \in [Markets -> 0 .. M]
        BY <2>6, <3>1 DEF PtbFrozen, FirstPtb, FrozenOn
      <3>3. /\ pc' \in {"twap", "list", "stored", "rest"} /\ job' \in {job, "none"}
            /\ cur' \in {cur, 0} /\ at' \in {at, 0} /\ UNCHANGED <<todo, gone>>
        BY <2>6 DEF PtbFrozen, AfterPtb, Goto, Rest
      <3> QED BY <2>6, <3>1, <3>2, <3>3, Grid DEF PtbFrozen, world
    <2> QED BY <1>8, <2>1, <2>2, <2>3, <2>4, <2>5, <2>6 DEF AskPtb
  <1>9. CASE Settle
    <2>1. CASE SettleLive
      BY <2>1 DEF SettleLive, Work, world, durable, rotator
    <2>2. CASE SaveTwap
      BY <2>2, TwapTyped DEF SaveTwap, Goto, world, rotator
    <2>3. CASE SaveOutcome
      <3>1. cur \in Markets
        BY <2>3, LiveOnGrid DEF SaveOutcome, Working, SettleSound, Settling, Live
      <3>2. [twap |-> twapRow[cur], ptb |-> IF job = "live" THEN mptb[cur] ELSE ptbRow[cur]]
              \in [twap : SUBSET Rows, ptb : 0 .. M]
        BY <3>1
      <3> QED BY <2>3, <3>2 DEF SaveOutcome, FirstOutcome, Goto, world, rotator
    <2>4. CASE SavePhase
      <3>1. pc' \in {"attempt", "stored", "recover"} /\ UNCHANGED <<job, cur, todo, at, gone>>
        BY <2>4 DEF SavePhase, Goto
      <3>2. /\ closing' \in 0 .. M /\ mptb' \in [Markets -> 0 .. M]
            /\ kept' \subseteq Markets /\ collected' \subseteq rows
        BY <2>4 DEF SavePhase, Cleanup
      <3> QED BY <2>4, <3>1, <3>2 DEF SavePhase, world
    <2> QED BY <1>9, <2>1, <2>2, <2>3, <2>4 DEF Settle
  <1> QED BY <1>1, <1>2, <1>3, <1>4, <1>5, <1>6, <1>7, <1>8, <1>9 DEF Next, Outside, Process

------------------------------------------------------------------------------
(* Prices, rows and what the coroutine is doing *)

Sound == PtbIsOfficial /\ LiveMatchesRows /\ Working

\* The clock, the feed, the crash and the restart.
LEMMA WorldStep == ASSUME RotationInv, Outside \/ Crash \/ Start PROVE Sound'
  <1> USE NoMarket DEF RotationInv, TypeOK, Sound, PtbIsOfficial, LiveMatchesRows, Working, Live
  <1>1. CASE Outside
    <2>1. \/ UNCHANGED <<phaseRow, ptbRow, rotator, cached, local>>
          \/ \E ts \in Emits, k \in 1 .. Deliveries : Hear(ts, k)
      BY <1>1 DEF Outside, Tick, StepBack, durable
    <2>2. UNCHANGED <<phaseRow, ptbRow, current, closing, mptb, local>>
      BY <2>1 DEF Hear, rotator
    <2> QED BY <2>2
        DEF TodoSound, AskSound, SettleSound, RotateSound, PricesSound, Visiting, Settling, local, WindowAt
  <1>2. CASE Crash
    BY <1>2 DEF Crash, durable, TodoSound, AskSound, SettleSound, RotateSound, PricesSound, Visiting
  <1>3. CASE Start
    BY <1>3 DEF Start, durable, rotator, TodoSound, AskSound, SettleSound, RotateSound, PricesSound,
       Visiting, Settling
  <1> QED BY <1>1, <1>2, <1>3

\* Recovery, which no instance sees, and the window the clock is in.
LEMMA RotateStep == ASSUME RotationInv, Recovery \/ Rotate PROVE Sound'
  <1> USE NoMarket DEF RotationInv, TypeOK, Sound, PtbIsOfficial, LiveMatchesRows, Working, Live
  <1>1. CASE Recovery
    <2>1. CASE SettleRecovered
      <3>1. PICK m \in todo : Visit(m, "recovered")
        BY <2>1 DEF SettleRecovered
      <3>2. /\ pc = "recover" /\ pc' \in {"recover", "twap"} /\ job' = "recovered"
            /\ cur' = m /\ todo' = todo \ {m} /\ UNCHANGED at
            /\ UNCHANGED <<phaseRow, ptbRow, current, closing, mptb>>
        BY <2>1, <3>1 DEF SettleRecovered, Visit, durable, rotator
      <3> QED BY <3>1, <3>2 DEF TodoSound, AskSound, SettleSound, RotateSound, PricesSound, Visiting, Settling
    <2>2. CASE Recovered
      BY <2>2 DEF Recovered, Rest, durable, rotator, TodoSound, AskSound, SettleSound, RotateSound, PricesSound, Visiting, Settling
    <2> QED BY <1>1, <2>1, <2>2 DEF Recovery
  <1>2. CASE BeginPass
    BY <1>2 DEF BeginPass, durable, rotator, TodoSound, AskSound, SettleSound, RotateSound, PricesSound, Visiting, Settling
  <1>3. CASE CloseCurrent
    <2>1. current \in Markets /\ current # closing /\ pc = "advance" /\ pc' = "advance"
      BY <1>3, LiveOnGrid DEF CloseCurrent
    <2>2. PtbIsOfficial' /\ LiveMatchesRows'
      BY <1>3, <2>1 DEF CloseCurrent
    <2>3. PricesSound'
      BY <1>3, <2>1 DEF CloseCurrent, PricesSound
    <2>4. RotateSound' /\ TodoSound' /\ AskSound' /\ SettleSound'
      <3>1. WindowAt(at) \in Markets /\ UNCHANGED <<pc, job, cur, todo, at>>
        BY <1>3, WindowOnGrid DEF CloseCurrent
      <3>2. WindowAt(at)' = WindowAt(at)
        BY <3>1 DEF WindowAt
      <3> QED BY <1>3, <2>1, <3>1, <3>2 DEF CloseCurrent, TodoSound, AskSound, SettleSound, RotateSound, PricesSound, Visiting, Settling
    <2> QED BY <2>2, <2>3, <2>4
  <1>4. CASE Create
    <2>1. WindowAt(at) \in Markets \ Live /\ pc = "advance" /\ pc' = "activate"
      BY <1>4, WindowOnGrid DEF Create, RotateSound
    <2>2. PtbIsOfficial' /\ LiveMatchesRows'
      BY <1>4, <2>1 DEF Create, rotator
    <2>3. PricesSound'
      BY <1>4, <2>1 DEF Create, rotator, PricesSound
    <2>4. RotateSound' /\ TodoSound' /\ AskSound' /\ SettleSound'
      BY <1>4, <2>1 DEF Create, rotator, TodoSound, AskSound, SettleSound, RotateSound, PricesSound, Visiting, Settling
    <2> QED BY <2>2, <2>3, <2>4
  <1>5. CASE Activate
    <2>1. /\ cur \in Markets \ Live /\ current = 0 /\ phaseRow[cur] = "DISCOVERED"
          /\ pc = "activate" /\ pc' = "sweep"
      BY <1>5 DEF Activate, RotateSound, Goto
    <2>2. mptb[cur] = 0 /\ ptbRow[cur] = 0
      BY <2>1 DEF PricesSound
    <2>3. PtbIsOfficial' /\ LiveMatchesRows'
      BY <1>5, <2>1, <2>2 DEF Activate
    <2>4. PricesSound'
      BY <1>5, <2>1 DEF Activate, PricesSound
    <2>5. RotateSound' /\ TodoSound' /\ AskSound' /\ SettleSound'
      BY <1>5, <2>1 DEF Activate, TodoSound, AskSound, SettleSound, RotateSound, PricesSound, Visiting, Settling
    <2> QED BY <2>3, <2>4, <2>5
  <1>6. CASE Restore
    <2> DEFINE m == WindowAt(at)
    <2>1. m \in Markets \ Live /\ current = 0 /\ phaseRow[m] # "none"
      BY <1>6, WindowOnGrid DEF Restore, RotateSound
    <2>2. /\ mptb' = [mptb EXCEPT ![m] = ptbRow[m]] /\ phaseRow' = [phaseRow EXCEPT ![m] = "ACTIVE"]
          /\ current' = m /\ UNCHANGED <<ptbRow, closing, cur, job, todo, at>> /\ pc' = "sweep"
      BY <1>6 DEF Restore, Goto
    <2> HIDE DEF m
    <2>3. PtbIsOfficial' /\ LiveMatchesRows'
      BY <2>1, <2>2
    <2>4. PricesSound'
      BY <2>1, <2>2 DEF PricesSound
    <2>5. RotateSound' /\ TodoSound' /\ AskSound' /\ SettleSound'
      BY <2>1, <2>2 DEF TodoSound, AskSound, SettleSound, RotateSound, PricesSound, Visiting, Settling
    <2> QED BY <2>3, <2>4, <2>5
  <1>7. CASE Swept
    BY <1>7 DEF Swept, durable, TodoSound, AskSound, SettleSound, RotateSound, PricesSound, Visiting, Settling
  <1> QED BY <1>1, <1>2, <1>3, <1>4, <1>5, <1>6, <1>7 DEF Rotate

\* The opening price: asked for one market, found for it or not at all.
LEMMA AskStep == ASSUME RotationInv, AskPtb PROVE Sound'
  <1> USE NoMarket DEF RotationInv, TypeOK, Sound, PtbIsOfficial, LiveMatchesRows, Working, Live
  <1>1. CASE LateRetry \/ AttemptPtb \/ NoAttempt \/ StoredDone
    BY <1>1 DEF LateRetry, AttemptPtb, NoAttempt, StoredDone, NeedsLatePtb, Work, Rest, durable, rotator,
       TodoSound, AskSound, SettleSound, RotateSound, PricesSound, Visiting, Settling
  <1>2. CASE ListStored
    BY <1>2 DEF ListStored, Stranded, durable, rotator, TodoSound, AskSound, SettleSound, RotateSound, PricesSound, Visiting, Settling
  <1>3. CASE StoredWithPtb \/ StoredWithout
    <2>1. PICK m \in todo :
            /\ pc = "stored" /\ job' = "stored" /\ cur' = m /\ todo' = todo \ {m}
            /\ pc' \in {"stored", "twap", "ask"}
      BY <1>3 DEF StoredWithPtb, StoredWithout, Visit
    <2>2. UNCHANGED <<phaseRow, ptbRow, current, closing, mptb, at>>
      BY <1>3 DEF StoredWithPtb, StoredWithout, Visit, durable, rotator
    <2> QED BY <2>1, <2>2 DEF TodoSound, AskSound, SettleSound, RotateSound, PricesSound, Visiting, Settling
  <1>4. CASE PtbMissing
    BY <1>4 DEF PtbMissing, AfterPtb, Goto, Rest, durable, rotator, TodoSound, AskSound, SettleSound, RotateSound, PricesSound, Visiting, Settling
  <1>5. CASE PtbFrozen
    <2> DEFINE v == Official(cur, cached')
    <2>1. cur \in Markets /\ v = cur /\ v # 0 /\ pc = "ask"
      BY <1>5, OfficialTyped DEF PtbFrozen
    <2>2. /\ ptbRow' = FirstPtb(cur, v)
          /\ mptb' = IF job = "stored" THEN mptb ELSE FrozenOn(cur, v)
          /\ UNCHANGED <<phaseRow, current, closing, todo, gone>>
      BY <1>5 DEF PtbFrozen, AfterPtb, Goto, Rest
    <2>3. \/ pc' = "twap" /\ job = "stored" /\ UNCHANGED <<job, cur, at>>
          \/ pc' = "list" /\ job = "late" /\ UNCHANGED <<job, cur, at>>
          \/ pc' = "stored" /\ job = "stored" /\ UNCHANGED <<job, cur, at>>
          \/ pc' = "rest" /\ job' = "none" /\ cur' = 0
      BY <1>5, <2>1 DEF PtbFrozen, AfterPtb, Goto, Rest, AskSound
    <2> HIDE DEF v
    <2>4. PtbIsOfficial' /\ LiveMatchesRows'
      BY <2>1, <2>2 DEF AskSound, Settling, FirstPtb, FrozenOn
    <2>5. PricesSound'
      BY <2>1, <2>2 DEF AskSound, Settling, PricesSound, FirstPtb, FrozenOn
    <2>6. RotateSound' /\ TodoSound' /\ AskSound' /\ SettleSound'
      BY <2>1, <2>2, <2>3 DEF TodoSound, AskSound, SettleSound, RotateSound, PricesSound, Visiting, Settling
    <2> QED BY <2>4, <2>5, <2>6
  <1> QED BY <1>1, <1>2, <1>3, <1>4, <1>5 DEF AskPtb

\* Settlement writes rows no open market has.
LEMMA SettleStep == ASSUME RotationInv, Settle PROVE Sound'
  <1> USE NoMarket DEF RotationInv, TypeOK, Sound, PtbIsOfficial, LiveMatchesRows, Working, Live
  <1>1. CASE SettleLive
    BY <1>1 DEF SettleLive, Settleable, Work, durable, rotator, TodoSound, AskSound, SettleSound, RotateSound, PricesSound, Visiting, Settling
  <1>2. CASE SaveTwap \/ SaveOutcome
    <2>1. /\ pc \in {"twap", "outcome"} /\ pc' \in {"outcome", "phase"}
          /\ UNCHANGED <<phaseRow, ptbRow, current, closing, mptb, job, cur, todo, at>>
      BY <1>2 DEF SaveTwap, SaveOutcome, Goto, rotator
    <2> QED BY <2>1 DEF TodoSound, AskSound, SettleSound, RotateSound, PricesSound, Visiting, Settling
  <1>3. CASE SavePhase
    <2>1. cur \in Markets /\ cur # current /\ pc = "phase"
      BY <1>3, LiveOnGrid DEF SavePhase, SettleSound, Settling
    <2>2. /\ phaseRow' = [phaseRow EXCEPT ![cur] = "SETTLED"]
          /\ UNCHANGED <<ptbRow, current, job, cur, todo, at>>
          /\ \/ /\ job = "live" /\ pc' = "attempt"
                /\ cur = closing /\ closing' = 0 /\ mptb' = [mptb EXCEPT ![cur] = 0]
             \/ /\ job # "live" /\ pc' = (IF job = "stored" THEN "stored" ELSE "recover")
                /\ UNCHANGED <<closing, mptb>> /\ Settling(cur) /\ cur \notin todo
                /\ job = "recovered" => Live = {}
      BY <1>3 DEF SavePhase, SettleSound, Goto
    <2>3. PtbIsOfficial'
      <3>1. ASSUME NEW m \in Live' PROVE m \in Live /\ mptb'[m] = mptb[m] /\ m \in Markets
        BY <2>1, <2>2, <3>1, LiveOnGrid
      <3> QED BY <2>2, <3>1
    <2>4. LiveMatchesRows'
      <3>1. current # 0 => current \in Markets
        BY LiveOnGrid
      <3> QED BY <2>1, <2>2, <3>1 DEF Settling
    <2>5. PricesSound'
      BY <2>1, <2>2 DEF Settling, PricesSound
    <2>6. RotateSound' /\ TodoSound' /\ AskSound' /\ SettleSound'
      BY <2>1, <2>2 DEF TodoSound, AskSound, SettleSound, RotateSound, PricesSound, Visiting, Settling
    <2> QED BY <2>3, <2>4, <2>5, <2>6
  <1> QED BY <1>1, <1>2, <1>3 DEF Settle

LEMMA InvStep == ASSUME RotationInv, [Next]_vars PROVE RotationInv'
  <1>1. CASE Next
    BY <1>1, TypeStep, WorldStep, RotateStep, AskStep, SettleStep DEF Next, Process, RotationInv, Sound
  <1>2. CASE UNCHANGED vars
    <2>1. TypeOK' = TypeOK
      BY <1>2 DEF vars, world, durable, rotator, local, TypeOK
    <2>2. Sound' = Sound
      BY <1>2 DEF vars, world, durable, rotator, local, Sound, PtbIsOfficial, LiveMatchesRows, Working,
         Live, TodoSound, AskSound, SettleSound, RotateSound, PricesSound, Visiting, Settling, WindowAt
    <2> QED BY <2>1, <2>2 DEF RotationInv, Sound
  <1> QED BY <1>1, <1>2

LEMMA RotationInductive == Spec => []RotationInv
  BY InitRotation, InvStep, PTL DEF Spec

\* Every variable keeps its type: the rows, the instances and the clock's window stay
\* on the grid, in every run with any number of crashes and corrections of the clock.
THEOREM TypeCorrect == Spec => []TypeOK
  <1>1. RotationInv => TypeOK
    BY DEF RotationInv
  <1> QED BY <1>1, RotationInductive, PTL

\* The opening price of a market is its window's official one, never a neighbour's, and
\* the instance that trades holds what its row holds (resolve_ptb, save_ptb, _restore).
THEOREM OfficialPrice == Spec => []PtbIsOfficial
  <1>1. RotationInv => PtbIsOfficial
    BY DEF RotationInv
  <1> QED BY <1>1, RotationInductive, PTL

\* The live instances are what the rows say: the current market ACTIVE, the closing one
\* SETTLING and another; so recovery and the background retry read the truth (advance).
THEOREM LiveRows == Spec => []LiveMatchesRows
  <1>1. RotationInv => LiveMatchesRows
    BY DEF RotationInv
  <1> QED BY <1>1, RotationInductive, PTL

------------------------------------------------------------------------------
(* While the clock only goes forward *)

\* A pass works with the clock it read at its start, or an older one after an await.
ClockSound == at <= now /\ (pc \in {"advance", "activate"} => at = now)

\* The market that trades has opened; one that settles has closed.
PhasesSound ==
  /\ current # 0 => Close(current) <= now + D
  /\ pc = "activate" => Close(cur) <= now + D
  /\ \A m \in Markets : phaseRow[m] \in {"SETTLING", "SETTLED"} => Close(m) <= now

\* The market a rotation archives is not one of the two it leaves live.
ArchivedSound ==
  gone # 0 =>
    /\ pc \in {"advance", "activate", "sweep"} /\ (pc = "advance" => current = 0)
    /\ gone \in Markets \ Live /\ phaseRow[gone] = "SETTLING"

\* A sample that is kept, or that a TWAP is made of, is of the market's window.
WindowSound ==
  /\ \A r \in collected : r[2] \in Window(r[1])
  /\ \A m \in Markets : \A r \in twapRow[m] : r[2] \in Window(m)

Writing == pc \in {"twap", "outcome", "phase"}

\* The three commits of an outcome: each finds what the one before it wrote.
CommitsSound ==
  /\ Writing => ptbRow[cur] # 0
  /\ pc = "twap" => TwapOf(cur, job) # {}
  /\ pc = "outcome" => twapRow[cur] # {}
  /\ pc = "phase" => settlement[cur] # NoOutcome
  /\ pc = "recover" \/ (Writing /\ job = "recovered") => \A m \in todo : ptbRow[m] # 0

\* What the rows hold between two commits, and after a crash there.
OutcomeSound ==
  \A m \in Markets :
    /\ twapRow[m] # {} =>
         /\ phaseRow[m] \in {"SETTLING", "SETTLED"} /\ ptbRow[m] # 0
         /\ m \in Live => job = "live" /\ cur = m /\ pc \in {"outcome", "phase"}
    /\ settlement[m] # NoOutcome =>
         twapRow[m] # {} /\ settlement[m] = [twap |-> twapRow[m], ptb |-> ptbRow[m]]
    /\ phaseRow[m] = "SETTLED" => settlement[m] # NoOutcome

\* A process that was never interrupted recovers nothing, and waits for the grace.
GraceSound ==
  crashes = 0 =>
    /\ pc = "down" => \A m \in Markets : phaseRow[m] = "none"
    /\ pc = "recover" => todo = {}
    /\ job # "recovered"
    /\ pc = "stored" \/ ((pc = "ask" \/ Writing) /\ job = "stored") => \A m \in todo : PastGrace(m)
    /\ (pc = "ask" /\ job = "stored") \/ Writing => PastGrace(cur)
    /\ \A m \in Markets : twapRow[m] # {} => now >= Close(m) + G

InWindow(m) == {r \in rows : r[1] = m /\ r[2] \in Window(m)}

\* It opens every market anew, and the collector has what the rows have.
HeardSound ==
  /\ \A r \in rows : phaseRow[r[1]] \notin {"none", "DISCOVERED"}
  /\ crashes = 0 =>
       /\ \A m \in Markets : phaseRow[m] = "ACTIVE" => m = current
       /\ \A m \in Markets : phaseRow[m] = "DISCOVERED" => pc = "activate" /\ cur = m
       /\ \A m \in kept : {r \in collected : r[1] = m} = InWindow(m)
       /\ job = "live" /\ pc \in {"outcome", "phase"} => twapRow[cur] = InWindow(cur)

Forward ==
  /\ ClockSound /\ PhasesSound /\ ArchivedSound /\ Live \subseteq kept
  /\ WindowSound /\ CommitsSound /\ OutcomeSound /\ GraceSound /\ HeardSound

(* The hours of a market *)

\* A market closes one duration after it opens, and the markets follow each other.
LEMMA Hours ==
  /\ \A m \in Markets : Close(m) \in Nat
  /\ \A t \in Times : WindowAt(t) \in Markets /\ t < Close(WindowAt(t)) /\ Close(WindowAt(t)) <= t + D
  /\ \A m, n \in Markets : m < n => Close(m) + D <= Close(n)
  <1>1. ASSUME NEW m \in Markets PROVE Close(m) \in Nat
    BY GridAssumption, SMTT(20) DEF Markets, Close
  <1>2. ASSUME NEW t \in Times
        PROVE  WindowAt(t) \in Markets /\ t < Close(WindowAt(t)) /\ Close(WindowAt(t)) <= t + D
    <2> DEFINE q == t \div D
    <2>1. t \in Nat
      BY Grid
    <2>2. q \in Nat /\ D * q <= t /\ t < D * q + D
      BY <2>1, GridAssumption, SMTT(30)
    <2> HIDE DEF q
    <2>3. (q + 1) * D = D * q + D
      BY <2>2, GridAssumption, SMTT(30)
    <2>4. WindowAt(t) = q + 1 /\ Close(WindowAt(t)) = D * q + D /\ D * q \in Nat
      BY <2>2, <2>3, GridAssumption, SMTT(30) DEF WindowAt, Close, q
    <2> QED BY <2>1, <2>2, <2>4, WindowOnGrid, GridAssumption
  <1>3. ASSUME NEW m \in Markets, NEW n \in Markets, m < n PROVE Close(m) + D <= Close(n)
    <2>1. PICK k \in Nat : n = m + 1 + k
      <3>1. n - m - 1 \in Nat /\ n = m + 1 + (n - m - 1)
        BY <1>3 DEF Markets
      <3> QED BY <3>1
    <2>2. (m + 1 + k) * D = m * D + D + k * D /\ k * D >= 0 /\ m * D \in Nat /\ k * D \in Nat
      BY <2>1, GridAssumption, SMTT(30) DEF Markets
    <2> QED BY <2>1, <2>2, GridAssumption DEF Close
  <1> QED BY <1>1, <1>2, <1>3

------------------------------------------------------------------------------
(* Who writes what, and who goes where *)

\* The two instances, the clock and the rows each have few writers.
LEMMA Writers ==
  ASSUME Next
  PROVE  /\ UNCHANGED <<now, backs>> \/ (Tick /\ now' = now + 1) \/ StepBack
         /\ UNCHANGED crashes \/ (Crash /\ crashes' = crashes + 1)
         /\ UNCHANGED phaseRow \/ CloseCurrent \/ Create \/ Activate \/ Restore \/ SavePhase
         /\ UNCHANGED ptbRow \/ PtbFrozen
         /\ UNCHANGED twapRow \/ SaveTwap
         /\ UNCHANGED settlement \/ SaveOutcome
         /\ UNCHANGED rows \/ \E ts \in Emits, k \in 1 .. Deliveries : Hear(ts, k)
         /\ UNCHANGED current \/ Crash \/ CloseCurrent \/ Activate \/ Restore
         /\ UNCHANGED closing \/ Crash \/ CloseCurrent \/ SavePhase
         /\ \/ UNCHANGED <<kept, collected>>
            \/ \E ts \in Emits, k \in 1 .. Deliveries : Hear(ts, k)
            \/ Crash \/ Activate \/ Restore \/ Swept \/ SavePhase
         /\ UNCHANGED gone \/ Crash \/ CloseCurrent \/ Swept
  <1>1. CASE Outside \/ Crash \/ Start
    BY <1>1 DEF Outside, Tick, StepBack, Hear, Crash, Start, world, durable, rotator, local
  <1>2. CASE Recovery
    BY <1>2 DEF Recovery, SettleRecovered, Recovered, Visit, Rest, world, durable, rotator
  <1>3. CASE Rotate
    BY <1>3 DEF Rotate, BeginPass, CloseCurrent, Create, Activate, Restore, Swept, Goto,
       world, durable, rotator
  <1>4. CASE AskPtb
    BY <1>4 DEF AskPtb, LateRetry, ListStored, StoredWithPtb, StoredWithout, StoredDone, AttemptPtb,
       NoAttempt, PtbMissing, PtbFrozen, AfterPtb, Visit, Work, Rest, Goto, world, durable, rotator
  <1>5. CASE Settle
    BY <1>5 DEF Settle, SettleLive, SaveTwap, SaveOutcome, SavePhase, Work, Goto, world, durable, rotator
  <1> QED BY <1>1, <1>2, <1>3, <1>4, <1>5 DEF Next, Process

\* Where the coroutine is tells which step took it there.
LEMMA Control ==
  ASSUME RotationInv, Next
  PROVE  /\ pc' = "down" => Crash \/ Outside
         /\ pc' = "recover" => Start \/ SettleRecovered \/ SavePhase
         /\ pc' = "advance" => BeginPass \/ CloseCurrent
         /\ pc' = "activate" => Create
         /\ pc' = "sweep" => Activate \/ Restore \/ Outside
         /\ pc' = "stored" => ListStored \/ StoredWithPtb \/ PtbMissing \/ PtbFrozen \/ SavePhase
         /\ pc' = "ask" => LateRetry \/ StoredWithout \/ AttemptPtb \/ Outside
         /\ pc' = "twap" => SettleRecovered \/ StoredWithPtb \/ PtbFrozen \/ SettleLive
         /\ pc' = "outcome" => SaveTwap
         /\ pc' = "phase" => SaveOutcome
  <1>1. CASE Outside \/ Crash \/ Start
    BY <1>1 DEF Outside, Tick, StepBack, Hear, Crash, Start, local, Awaits
  <1>2. CASE Recovery
    BY <1>2 DEF Recovery, SettleRecovered, Recovered, Visit, Rest
  <1>3. CASE Rotate
    BY <1>3 DEF Rotate, BeginPass, CloseCurrent, Create, Activate, Restore, Swept, Goto
  <1>4. CASE AskPtb
    BY <1>4 DEF AskPtb, LateRetry, ListStored, StoredWithPtb, StoredWithout, StoredDone, AttemptPtb,
       NoAttempt, PtbMissing, PtbFrozen, AfterPtb, Visit, Work, Rest, Goto
  <1>5. CASE Settle
    BY <1>5 DEF Settle, SettleLive, SaveTwap, SaveOutcome, SavePhase, Work, Goto
  <1> QED BY <1>1, <1>2, <1>3, <1>4, <1>5 DEF Next, Process

\* The market of a pass and the instant it works with.
LEMMA Passing ==
  ASSUME Next
  PROVE  /\ at' \in {at, 0} \/ (BeginPass /\ at' = now)
         /\ UNCHANGED at \/ pc' \in {"advance", "late", "rest", "down"}
         /\ UNCHANGED <<job, cur>> \/ pc' \in {"down", "rest", "recover", "twap", "activate", "late", "ask", "stored", "settle"}
  <1>1. CASE Outside \/ Crash \/ Start
    BY <1>1 DEF Outside, Tick, StepBack, Hear, Crash, Start, local
  <1>2. CASE Recovery
    BY <1>2 DEF Recovery, SettleRecovered, Recovered, Visit, Rest
  <1>3. CASE Rotate
    BY <1>3 DEF Rotate, BeginPass, CloseCurrent, Create, Activate, Restore, Swept, Goto
  <1>4. CASE AskPtb
    BY <1>4 DEF AskPtb, LateRetry, ListStored, StoredWithPtb, StoredWithout, StoredDone, AttemptPtb,
       NoAttempt, PtbMissing, PtbFrozen, AfterPtb, Visit, Work, Rest, Goto
  <1>5. CASE Settle
    BY <1>5 DEF Settle, SettleLive, SaveTwap, SaveOutcome, SavePhase, Work, Goto
  <1> QED BY <1>1, <1>2, <1>3, <1>4, <1>5 DEF Next, Process

------------------------------------------------------------------------------
(* Steps of a clock that only goes forward *)

Ahead == RotationInv /\ Forward /\ backs = 0

\* The clock and the faults used so far only grow.
LEMMA OnlyForward ==
  ASSUME Ahead, Next, backs' = 0
  PROVE  /\ now \in Nat /\ now' \in Nat /\ now <= now' /\ (now' = now \/ Tick)
         /\ crashes' = 0 => crashes = 0 /\ ~ Crash
  <1>1. now \in Nat /\ at \in Nat /\ crashes \in Nat
    BY Grid, GridAssumption DEF Ahead, RotationInv, TypeOK
  <1>2. ~ StepBack
    BY DEF StepBack, Ahead
  <1>3. UNCHANGED now \/ (Tick /\ now' = now + 1)
    BY <1>2, Writers
  <1>4. crashes' = 0 => crashes = 0 /\ ~ Crash
    BY <1>1, Writers DEF Crash
  <1> QED BY <1>1, <1>3, <1>4

LEMMA ClockStep == ASSUME Ahead, Next, backs' = 0 PROVE ClockSound'
  <1>1. now \in Nat /\ now' \in Nat /\ at \in Nat /\ now <= now' /\ at <= now
    BY OnlyForward, Grid DEF Ahead, RotationInv, TypeOK, Forward, ClockSound
  <1>2. at' <= now'
    BY <1>1, Passing
  <1>3. ASSUME pc' \in {"advance", "activate"} PROVE at' = now'
    <2>1. BeginPass \/ CloseCurrent \/ Create
      BY <1>3, Control DEF Ahead
    <2> QED BY <2>1 DEF BeginPass, CloseCurrent, Create, world, Ahead, Forward, ClockSound
  <1> QED BY <1>2, <1>3 DEF ClockSound

LEMMA PhasesStep == ASSUME Ahead, Next, backs' = 0 PROVE PhasesSound'
  <1> USE DEF Ahead, Forward, PhasesSound
  <1>1. now \in Nat /\ now' \in Nat /\ now <= now' /\ D \in Nat
    BY OnlyForward, GridAssumption
  <1>2. Live \subseteq Markets /\ \A m \in Markets : Close(m) \in Nat /\ Close(m)' = Close(m)
    BY LiveOnGrid, Hours DEF RotationInv, Close
  <1>3. phaseRow \in [Markets -> {"none", "DISCOVERED", "ACTIVE", "SETTLING", "SETTLED"}] /\ now \in Times
    BY DEF RotationInv, TypeOK
  <1>4. ASSUME current' # 0 PROVE Close(current') <= now' + D
    <2>1. CASE UNCHANGED current
      BY <2>1, <1>4, <1>1, <1>2 DEF Live
    <2>2. CASE Activate
      BY <2>2, <1>1 DEF Activate, world
    <2>3. CASE Restore
      BY <2>3, <1>1, <1>3, Hours DEF Restore, world, ClockSound
    <2> QED BY <2>1, <2>2, <2>3, <1>4, Writers DEF Crash, CloseCurrent
  <1>5. ASSUME pc' = "activate" PROVE Close(cur') <= now' + D
    BY <1>5, <1>1, <1>3, Hours, Control DEF Create, world, ClockSound
  <1>6. ASSUME NEW m \in Markets, phaseRow'[m] \in {"SETTLING", "SETTLED"} PROVE Close(m) <= now'
    <2>1. CASE phaseRow[m] \in {"SETTLING", "SETTLED"}
      BY <2>1, <1>1, <1>2
    <2>2. CASE CloseCurrent /\ m = current
      <3>1. WindowAt(at) \in Markets /\ Close(WindowAt(at)) <= now + D /\ m # WindowAt(at) /\ now' = now
        BY <2>2, <1>3, Hours DEF CloseCurrent, world, ClockSound, RotationInv, Working, RotateSound
      <3>2. Close(m) <= now + D /\ m \in Nat /\ WindowAt(at) \in Nat
        BY <2>2, <3>1 DEF CloseCurrent, Markets
      <3>3. CASE m < WindowAt(at)
        BY <3>1, <3>2, <3>3, <1>1, <1>2, Hours
      <3>4. CASE WindowAt(at) < m
        <4>1. now < Close(WindowAt(at))
          BY <2>2, <1>3, Hours DEF CloseCurrent, ClockSound
        <4>2. Close(WindowAt(at)) + D <= Close(m)
          BY <3>1, <3>4, Hours
        <4> QED BY <3>1, <3>2, <4>1, <4>2, <1>1, <1>2
      <3> QED BY <3>1, <3>2, <3>3, <3>4
    <2>3. CASE SavePhase /\ m = cur
      <3>1. phaseRow[cur] = "SETTLING"
        BY <2>3 DEF SavePhase, RotationInv, Working, SettleSound, Settling, LiveMatchesRows
      <3> QED BY <3>1, <2>3, <1>1, <1>2
    <2>4. UNCHANGED phaseRow \/ CloseCurrent \/ Create \/ Activate \/ Restore \/ SavePhase
      BY Writers
    <2> QED BY <2>1, <2>2, <2>3, <2>4, <1>3, <1>6
        DEF CloseCurrent, Create, Activate, Restore, SavePhase
  <1> QED BY <1>2, <1>4, <1>5, <1>6

\* A market the clock has not left behind has not been closed.
LEMMA OpenIsOpen ==
  ASSUME Ahead, pc = "advance"
  PROVE  WindowAt(at) \in Markets /\ phaseRow[WindowAt(at)] \notin {"SETTLING", "SETTLED"}
  <1>1. now \in Times /\ at = now
    BY DEF Ahead, Forward, ClockSound, RotationInv, TypeOK
  <1>2. WindowAt(at) \in Markets /\ now < Close(WindowAt(at)) /\ Close(WindowAt(at)) \in Nat
    BY <1>1, Hours
  <1> QED BY <1>1, <1>2, Grid DEF Ahead, Forward, PhasesSound

LEMMA ArchivedStep == ASSUME Ahead, Next, backs' = 0 PROVE ArchivedSound'
  <1> USE DEF Ahead, Forward, ArchivedSound, RotationInv, LiveMatchesRows, Live
  <1>1. Live \subseteq Markets /\ 0 \notin Markets
    BY LiveOnGrid, NoMarket
  <1>2. phaseRow \in [Markets -> {"none", "DISCOVERED", "ACTIVE", "SETTLING", "SETTLED"}]
    BY DEF TypeOK
  <1>3. CASE CloseCurrent
    <2>1. pc = "advance" /\ pc' = "advance" /\ current \in Markets /\ gone' = closing
          /\ current' = 0 /\ closing' = current
          /\ phaseRow' = [phaseRow EXCEPT ![current] = "SETTLING"]
      BY <1>3, <1>1 DEF CloseCurrent
    <2> QED BY <2>1, <1>1, <1>2
  <1>4. CASE Create
    <2>1. WindowAt(at) \in Markets /\ phaseRow[WindowAt(at)] = "none" /\ pc = "advance"
          /\ pc' = "activate" /\ UNCHANGED <<gone, current, closing>>
          /\ phaseRow' = [phaseRow EXCEPT ![WindowAt(at)] = "DISCOVERED"]
      BY <1>4, OpenIsOpen DEF Create, rotator
    <2> QED BY <2>1, <1>1, <1>2
  <1>5. CASE Activate
    <2>1. cur \in Markets /\ phaseRow[cur] = "DISCOVERED" /\ pc' = "sweep" /\ UNCHANGED <<gone, closing>>
          /\ current' = cur /\ phaseRow' = [phaseRow EXCEPT ![cur] = "ACTIVE"]
      BY <1>5 DEF Activate, Goto, Working, RotateSound
    <2> QED BY <2>1, <1>1, <1>2
  <1>6. CASE Restore
    <2>1. WindowAt(at) \in Markets /\ phaseRow[WindowAt(at)] # "SETTLING" /\ pc' = "sweep"
          /\ UNCHANGED <<gone, closing>> /\ current' = WindowAt(at)
          /\ phaseRow' = [phaseRow EXCEPT ![WindowAt(at)] = "ACTIVE"]
      BY <1>6, OpenIsOpen DEF Restore, Goto
    <2> QED BY <2>1, <1>1, <1>2
  <1>7. CASE Crash \/ Swept
    BY <1>7 DEF Crash, Swept
  <1>8. CASE Outside \/ Start
    BY <1>8 DEF Outside, Tick, StepBack, Hear, Start, durable, rotator, local
  <1>9. CASE ~ (CloseCurrent \/ Create \/ Activate \/ Restore \/ Crash \/ Swept \/ Outside \/ Start)
    <2>1. UNCHANGED gone
      BY <1>9, Writers DEF Outside
    <2>2. pc \notin {"advance", "activate", "sweep"}
      BY <1>9 DEF Next, Process, Recovery, Rotate, AskPtb, Settle, SettleRecovered, Recovered, BeginPass,
         LateRetry, ListStored, StoredWithPtb, StoredWithout, StoredDone, AttemptPtb, NoAttempt,
         PtbMissing, PtbFrozen, SettleLive, SaveTwap, SaveOutcome, SavePhase
    <2> QED BY <2>1, <2>2
  <1> QED BY <1>3, <1>4, <1>5, <1>6, <1>7, <1>8, <1>9

\* A rotation gives the market it opens a collector and takes none but the archived one's.
LEMMA KeptStep == ASSUME Ahead, Next, backs' = 0 PROVE (Live \subseteq kept)'
  <1> USE DEF Ahead, Forward, RotationInv, Live
  <1>1. CASE Activate \/ Restore
    BY <1>1 DEF Activate, Restore, Collecting
  <1>2. CASE Swept
    BY <1>2 DEF Swept, Cleanup, ArchivedSound
  <1>3. CASE SavePhase
    BY <1>3 DEF SavePhase, Cleanup, Working, SettleSound, LiveMatchesRows
  <1>4. CASE Crash
    BY <1>4 DEF Crash
  <1>5. CASE CloseCurrent
    BY <1>5 DEF CloseCurrent
  <1>6. CASE \E ts \in Emits, k \in 1 .. Deliveries : Hear(ts, k)
    BY <1>6 DEF Hear
  <1> QED BY <1>1, <1>2, <1>3, <1>4, <1>5, <1>6, Writers

\* Whatever a TWAP is taken from, it is of samples of the market's window.
LEMMA TwapInWindow ==
  ASSUME Forward, NEW m \in Markets, NEW j PROVE \A r \in TwapOf(m, j) : r[2] \in Window(m)
  BY DEF Forward, WindowSound, TwapOf, CollectedBy, Rebuilt

LEMMA CurOnGrid == ASSUME RotationInv, Writing PROVE cur \in Markets
  BY LiveOnGrid DEF RotationInv, Writing, Working, SettleSound, Settling, Live

LEMMA WindowStep == ASSUME Ahead, Next, backs' = 0 PROVE WindowSound'
  <1> USE DEF Ahead, Forward, WindowSound
  <1>1. \A m : Window(m)' = Window(m)
    BY DEF Window
  <1>2. ASSUME NEW r \in collected' PROVE r[2] \in Window(r[1])
    <2>1. CASE r \in collected
      BY <2>1
    <2>2. CASE \E ts \in Emits, k \in 1 .. Deliveries : Hear(ts, k)
      <3>1. PICK ts \in Emits, k \in 1 .. Deliveries : Hear(ts, k)
        BY <2>2
      <3>2. r \in collected \/ \E m \in Routed : r = <<m, ts, k>> /\ TakenBy(m, ts)
        BY <3>1, <1>2 DEF Hear
      <3> QED BY <2>1, <3>2 DEF TakenBy
    <2>3. CASE Crash \/ Activate \/ Restore \/ Swept \/ SavePhase
      BY <2>3, <1>2 DEF Crash, Activate, Restore, Collecting, Swept, SavePhase, Cleanup
    <2> QED BY <2>1, <2>2, <2>3, <1>2, Writers
  <1>3. ASSUME NEW m \in Markets, NEW r \in twapRow'[m] PROVE r[2] \in Window(m)
    <2>1. CASE SaveTwap
      <3>1. twapRow'[m] = twapRow[m] \/ (m = cur /\ twapRow'[m] = TwapOf(m, job))
        BY <2>1 DEF SaveTwap, RotationInv, TypeOK
      <3> QED BY <3>1, <1>3, TwapInWindow
    <2> QED BY <2>1, <1>3, Writers
  <1> QED BY <1>1, <1>2, <1>3

\* A TWAP is of a row, a collector or what the rows have, and so the clock and the feed
\* aside, only its own steps change it.
LEMMA TwapStays ==
  ASSUME UNCHANGED <<twapRow, rows, kept, collected>>, NEW m, NEW j
  PROVE  TwapOf(m, j)' = TwapOf(m, j)
  BY DEF TwapOf, CollectedBy, Rebuilt, ObservationsBetween, Window

LEMMA CommitsStep == ASSUME RotationInv, CommitsSound, Next PROVE CommitsSound'
  <1> USE DEF CommitsSound, Writing
  <1>0. TypeOK /\ SettleSound /\ TodoSound
    BY DEF RotationInv, Working
  <1>1. ASSUME pc' = "twap" PROVE ptbRow'[cur'] # 0 /\ TwapOf(cur, job)' # {}
    <2>1. CASE SettleRecovered
      <3>1. PICK m \in todo : Visit(m, "recovered") /\ pc = "recover"
        BY <2>1 DEF SettleRecovered
      <3>2. UNCHANGED <<ptbRow, twapRow, rows, kept, collected>>
        BY <2>1 DEF SettleRecovered, durable, rotator
      <3>3. cur' = m /\ job' = "recovered" /\ TwapOf(m, "recovered") # {}
        BY <3>1, <1>1 DEF Visit
      <3> QED BY <3>1, <3>2, <3>3 DEF TwapOf, CollectedBy, Rebuilt, ObservationsBetween, Window
    <2>2. CASE StoredWithPtb
      <3>1. PICK m \in todo : Visit(m, "stored") /\ pc = "stored" /\ ptbRow[m] # 0
        BY <2>2 DEF StoredWithPtb
      <3>2. UNCHANGED <<ptbRow, twapRow, rows, kept, collected>>
        BY <2>2 DEF StoredWithPtb, durable, rotator
      <3>3. cur' = m /\ job' = "stored" /\ TwapOf(m, "stored") # {}
        BY <3>1, <1>1 DEF Visit
      <3> QED BY <3>1, <3>2, <3>3 DEF TwapOf, CollectedBy, Rebuilt, ObservationsBetween, Window
    <2>3. CASE PtbFrozen
      <3>1. job = "stored" /\ TwapOf(cur, job) # {} /\ UNCHANGED <<job, cur, twapRow, rows, kept, collected>>
        BY <2>3, <1>1 DEF PtbFrozen, AfterPtb, Goto, Rest
      <3>2. cur \in Markets /\ Official(cur, cached') # 0 /\ ptbRow' = FirstPtb(cur, Official(cur, cached'))
        BY <2>3, OfficialTyped DEF PtbFrozen
      <3>3. ptbRow'[cur] # 0
        BY <3>2, <1>0 DEF FirstPtb, TypeOK
      <3> QED BY <3>1, <3>3 DEF TwapOf, CollectedBy, Rebuilt, ObservationsBetween, Window
    <2>4. CASE SettleLive
      <3>1. /\ cur' = closing /\ job' = "live" /\ mptb[closing] # 0 /\ CollectedBy(closing) # {}
            /\ closing # 0 /\ UNCHANGED <<ptbRow, twapRow, rows, kept, collected>>
        BY <2>4 DEF SettleLive, Settleable, Work, durable, rotator
      <3>2. ptbRow[closing] = mptb[closing]
        BY <3>1, LiveOnGrid, <1>0 DEF RotationInv, PtbIsOfficial, Live
      <3> QED BY <3>1, <3>2 DEF TwapOf, CollectedBy
    <2> QED BY <1>1, <2>1, <2>2, <2>3, <2>4, Control
  <1>2. ASSUME pc' = "outcome" PROVE ptbRow'[cur'] # 0 /\ twapRow'[cur'] # {}
    <2>1. /\ pc = "twap" /\ UNCHANGED <<ptbRow, cur>>
          /\ twapRow' = [twapRow EXCEPT ![cur] = TwapOf(cur, job)]
      BY <1>2, Control DEF SaveTwap, Goto
    <2> QED BY <2>1, CurOnGrid, <1>0 DEF TypeOK
  <1>3. ASSUME pc' = "phase" PROVE ptbRow'[cur'] # 0 /\ settlement'[cur'] # NoOutcome
    <2>1. /\ pc = "outcome" /\ UNCHANGED <<ptbRow, cur>> /\ twapRow[cur] # {}
          /\ settlement' = FirstOutcome(cur, [twap |-> twapRow[cur], ptb |-> IF job = "live" THEN mptb[cur] ELSE ptbRow[cur]])
      BY <1>3, Control DEF SaveOutcome, Goto
    <2> QED BY <2>1, CurOnGrid, <1>0 DEF TypeOK, FirstOutcome, NoOutcome
  <1>4. ASSUME pc' = "recover" \/ (Writing' /\ job' = "recovered"), NEW m \in todo' PROVE ptbRow'[m] # 0
    <2>1. CASE Start
      BY <2>1 DEF Start, durable
    <2>2. CASE SettleRecovered
      BY <2>2 DEF SettleRecovered, Visit, durable
    <2>3. CASE SavePhase \/ SaveTwap \/ SaveOutcome
      BY <2>3, <1>4, <1>0 DEF SavePhase, SaveTwap, SaveOutcome, Goto, SettleSound
    <2>4. CASE StoredWithPtb \/ PtbFrozen \/ SettleLive
      BY <2>4, <1>4 DEF StoredWithPtb, PtbFrozen, SettleLive, Visit, Work, AfterPtb, Goto, Rest,
         RotationInv, Working, AskSound
    <2> QED BY <1>4, <2>1, <2>2, <2>3, <2>4, Control
  <1> QED BY <1>1, <1>2, <1>3, <1>4

\* Between two commits of an outcome nothing else runs.
LEMMA Commits == ASSUME Next, pc \in {"outcome", "phase"} PROVE SaveOutcome \/ SavePhase \/ Crash
  BY DEF Next, Outside, Awaits, Tick, StepBack, Hear, Start, Process, Recovery, Rotate, AskPtb, Settle,
     SettleRecovered, Recovered, BeginPass, CloseCurrent, Create, Activate, Restore, Swept,
     LateRetry, ListStored, StoredWithPtb, StoredWithout, StoredDone, AttemptPtb, NoAttempt,
     PtbMissing, PtbFrozen, SettleLive, SaveTwap

\* The row that is being settled is a closed market's; what it had before is what it gets.
LEMMA Settled ==
  ASSUME Ahead, Writing
  PROVE  /\ cur \in Markets /\ phaseRow[cur] = "SETTLING" /\ ptbRow[cur] # 0
         /\ cur \in Live <=> job = "live"
         /\ job = "live" => cur = closing /\ cur # current /\ mptb[cur] = ptbRow[cur]
         /\ pc = "twap" /\ twapRow[cur] # {} => TwapOf(cur, job) = twapRow[cur]
  <1> USE DEF Ahead, Forward, RotationInv, Working, SettleSound, LiveMatchesRows, Live
  <1>1. cur \in Markets
    BY CurOnGrid
  <1>2. /\ phaseRow[cur] = "SETTLING" /\ ptbRow[cur] # 0 /\ (cur \in Live <=> job = "live")
        /\ job = "live" => cur = closing /\ cur # current
    BY DEF Writing, Settling, CommitsSound
  <1>3. job = "live" => mptb[cur] = ptbRow[cur]
    BY <1>1, <1>2 DEF PtbIsOfficial
  <1>4. pc = "twap" /\ twapRow[cur] # {} => job # "live"
    BY <1>1, <1>2 DEF OutcomeSound
  <1> QED BY <1>1, <1>2, <1>3, <1>4 DEF TwapOf

LEMMA OutcomeStep == ASSUME Ahead, Next, backs' = 0 PROVE OutcomeSound'
  <1> USE DEF Ahead, Forward, RotationInv, TypeOK, OutcomeSound, LiveMatchesRows, Live
  <1> SUFFICES ASSUME NEW m \in Markets
               PROVE  /\ twapRow'[m] # {} =>
                           /\ phaseRow'[m] \in {"SETTLING", "SETTLED"} /\ ptbRow'[m] # 0
                           /\ m \in Live' => job' = "live" /\ cur' = m /\ pc' \in {"outcome", "phase"}
                      /\ settlement'[m] # NoOutcome =>
                           /\ twapRow'[m] # {}
                           /\ settlement'[m] = [twap |-> twapRow'[m], ptb |-> ptbRow'[m]]
                      /\ phaseRow'[m] = "SETTLED" => settlement'[m] # NoOutcome
    BY DEF NoOutcome
  <1>1. CASE SaveTwap
    <2>1. /\ pc = "twap" /\ pc' = "outcome" /\ UNCHANGED <<job, cur, phaseRow, ptbRow, settlement, current, closing>>
          /\ twapRow'[m] = IF m = cur THEN TwapOf(cur, job) ELSE twapRow[m]
      BY <1>1 DEF SaveTwap, Goto, rotator
    <2>2. /\ phaseRow[cur] = "SETTLING" /\ ptbRow[cur] # 0 /\ (cur \in Live <=> job = "live")
          /\ twapRow[cur] # {} => TwapOf(cur, job) = twapRow[cur]
      BY <2>1, Settled DEF Writing
    <2>3. TwapOf(cur, job) # {}
      BY <2>1 DEF CommitsSound
    <2> QED BY <2>1, <2>2, <2>3
  <1>2. CASE SaveOutcome
    <2>1. /\ pc = "outcome" /\ pc' = "phase" /\ twapRow[cur] # {} /\ cur \in Markets
          /\ UNCHANGED <<job, cur, phaseRow, ptbRow, twapRow, current, closing>>
      BY <1>2, CurOnGrid DEF SaveOutcome, Goto, rotator, CommitsSound, Writing
    <2>2. settlement' = FirstOutcome(cur, [twap |-> twapRow[cur], ptb |-> ptbRow[cur]])
      BY <1>2, <2>1, Settled DEF SaveOutcome, Writing
    <2>3. settlement'[m] = IF m = cur /\ settlement[m] = NoOutcome
                             THEN [twap |-> twapRow[m], ptb |-> ptbRow[m]] ELSE settlement[m]
      BY <2>1, <2>2 DEF FirstOutcome
    <2> QED BY <2>1, <2>3
  <1>3. CASE SavePhase
    <2>1. /\ pc = "phase" /\ settlement[cur] # NoOutcome /\ cur \in Markets
          /\ UNCHANGED <<job, cur, ptbRow, twapRow, settlement, current>>
          /\ phaseRow'[m] = IF m = cur THEN "SETTLED" ELSE phaseRow[m]
          /\ closing' = IF job = "live" THEN 0 ELSE closing
      BY <1>3, CurOnGrid DEF SavePhase, Goto, CommitsSound, Writing
    <2>2. job = "live" => cur = closing /\ cur # current
      BY <2>1, Settled DEF Writing
    <2>3. (cur \in Live <=> job = "live") /\ 0 \notin Markets
      BY <2>1, Settled, NoMarket DEF Writing
    <2> QED BY <2>1, <2>2, <2>3
  <1>4. CASE Activate
    <2>1. /\ pc = "activate" /\ cur \in Markets /\ phaseRow[cur] = "DISCOVERED"
          /\ UNCHANGED <<ptbRow, twapRow, settlement, closing>> /\ current' = cur
          /\ phaseRow' = [phaseRow EXCEPT ![cur] = "ACTIVE"]
      BY <1>4 DEF Activate, Working, RotateSound
    <2> QED BY <2>1
  <1>5. CASE Restore
    <2>1. /\ pc = "advance" /\ WindowAt(at) \in Markets /\ phaseRow[WindowAt(at)] \notin {"SETTLING", "SETTLED"}
          /\ UNCHANGED <<ptbRow, twapRow, settlement, closing>> /\ current' = WindowAt(at)
          /\ phaseRow' = [phaseRow EXCEPT ![WindowAt(at)] = "ACTIVE"]
      BY <1>5, OpenIsOpen DEF Restore
    <2> QED BY <2>1
  <1>6. CASE Create
    <2>1. /\ pc = "advance" /\ WindowAt(at) \in Markets /\ phaseRow[WindowAt(at)] = "none"
          /\ UNCHANGED <<ptbRow, twapRow, settlement, current, closing>>
          /\ phaseRow' = [phaseRow EXCEPT ![WindowAt(at)] = "DISCOVERED"]
      BY <1>6, OpenIsOpen DEF Create, rotator
    <2> QED BY <2>1
  <1>7. CASE CloseCurrent
    <2>1. /\ pc = "advance" /\ current \in Markets /\ phaseRow[current] = "ACTIVE"
          /\ UNCHANGED <<ptbRow, twapRow, settlement>> /\ current' = 0 /\ closing' = current
          /\ phaseRow' = [phaseRow EXCEPT ![current] = "SETTLING"]
      BY <1>7, LiveOnGrid DEF CloseCurrent
    <2> QED BY <2>1, NoMarket
  <1>8. CASE PtbFrozen
    <2>1. /\ pc = "ask" /\ UNCHANGED <<phaseRow, twapRow, settlement, current, closing>>
          /\ ptbRow' = FirstPtb(cur, Official(cur, cached'))
      BY <1>8 DEF PtbFrozen
    <2>2. ptbRow[m] # 0 => ptbRow'[m] = ptbRow[m]
      BY <2>1 DEF FirstPtb
    <2> QED BY <2>1, <2>2
  <1>9. CASE Crash
    BY <1>9, NoMarket DEF Crash, durable
  <1>10. CASE ~ (SaveTwap \/ SaveOutcome \/ SavePhase \/ Activate \/ Restore \/ Create \/ CloseCurrent
                \/ PtbFrozen \/ Crash)
    <2>1. UNCHANGED <<phaseRow, ptbRow, twapRow, settlement, current, closing>>
      BY <1>10, Writers
    <2>2. pc \notin {"outcome", "phase"}
      BY <1>10, Commits
    <2> QED BY <2>1, <2>2
  <1> QED BY <1>1, <1>2, <1>3, <1>4, <1>5, <1>6, <1>7, <1>8, <1>9, <1>10

\* What the rows of a pass still to be settled were listed for.
Listed == pc = "stored" \/ ((pc = "ask" \/ Writing) /\ job = "stored")

LEMMA GraceStep == ASSUME Ahead, Next, backs' = 0 PROVE GraceSound'
  <1> USE DEF Ahead, Forward, GraceSound, PastGrace
  <1> SUFFICES ASSUME crashes' = 0
               PROVE  /\ pc' = "down" => \A m \in Markets : phaseRow'[m] = "none"
                      /\ pc' = "recover" => todo' = {}
                      /\ job' # "recovered"
                      /\ Listed' => \A m \in todo' : PastGrace(m)'
                      /\ (pc' = "ask" /\ job' = "stored") \/ Writing' => PastGrace(cur)'
                      /\ \A m \in Markets : twapRow'[m] # {} => now' >= Close(m) + G
    BY DEF Listed, Close
  <1>1. crashes = 0 /\ ~ Crash /\ now \in Nat /\ now' \in Nat /\ now <= now'
    BY OnlyForward
  <1>2. \A m : Close(m)' = Close(m)
    BY DEF Close
  <1>3. job # "recovered" /\ SettleSound /\ AskSound
    BY <1>1 DEF RotationInv, Working
  <1>4. ~ SettleRecovered
    BY <1>1 DEF SettleRecovered
  <1>5. ASSUME pc' = "down", NEW m \in Markets PROVE phaseRow'[m] = "none"
    <2>1. Outside
      BY <1>5, <1>1, Control
    <2> QED BY <2>1, <1>5, <1>1 DEF Outside, Tick, StepBack, Hear, durable, local
  <1>6. ASSUME pc' = "recover" PROVE todo' = {}
    <2>1. ~ SavePhase
      BY <1>6, <1>3 DEF SavePhase, Goto, SettleSound
    <2>2. Start
      BY <2>1, <1>4, <1>6, Control
    <2> QED BY <2>2, <1>1 DEF Start
  <1>7. job' # "recovered"
    <2>1. CASE Outside \/ Start
      BY <2>1, <1>3 DEF Outside, Tick, StepBack, Hear, Start, local
    <2>2. CASE Recovery \/ Rotate
      BY <2>2, <1>3, <1>4 DEF Recovery, Recovered, Rest, Rotate, BeginPass, CloseCurrent, Create,
         Activate, Restore, Swept, Goto
    <2>3. CASE AskPtb \/ Settle
      BY <2>3, <1>3 DEF AskPtb, LateRetry, ListStored, StoredWithPtb, StoredWithout, StoredDone,
         AttemptPtb, NoAttempt, PtbMissing, PtbFrozen, AfterPtb, Visit, Work, Rest, Goto,
         Settle, SettleLive, SaveTwap, SaveOutcome, SavePhase
    <2> QED BY <2>1, <2>2, <2>3, <1>1 DEF Next, Process
  <1>8. ASSUME Listed', NEW m \in todo' PROVE PastGrace(m)'
    <2>1. CASE ListStored
      BY <2>1, <1>2 DEF ListStored, Stranded
    <2>2. CASE StoredWithPtb \/ StoredWithout
      BY <2>2, <1>1, <1>2 DEF StoredWithPtb, StoredWithout, Visit
    <2>3. CASE PtbMissing \/ PtbFrozen
      BY <2>3, <1>1, <1>2, <1>3, <1>8
      DEF PtbMissing, PtbFrozen, AfterPtb, Goto, Rest, Listed, Writing, AskSound
    <2>4. CASE SavePhase \/ SaveTwap \/ SaveOutcome
      BY <2>4, <1>1, <1>2, <1>3, <1>8 DEF SavePhase, SaveTwap, SaveOutcome, Goto, SettleSound, Listed, Writing
    <2>5. CASE LateRetry \/ AttemptPtb \/ SettleLive
      BY <2>5, <1>8 DEF LateRetry, AttemptPtb, SettleLive, Work, Listed
    <2>6. CASE Outside
      BY <2>6, <1>8, <1>1, <1>2 DEF Outside, Tick, StepBack, Hear, local, Listed, Writing
    <2> QED BY <1>8, <1>4, <2>1, <2>2, <2>3, <2>4, <2>5, <2>6, Control DEF Listed, Writing
  <1>9. ASSUME (pc' = "ask" /\ job' = "stored") \/ Writing' PROVE PastGrace(cur)'
    <2>1. CASE StoredWithPtb \/ StoredWithout
      BY <2>1, <1>1, <1>2 DEF StoredWithPtb, StoredWithout, Visit
    <2>2. CASE PtbFrozen
      BY <2>2, <1>1, <1>2, <1>3, <1>9 DEF PtbFrozen, AfterPtb, Goto, Rest, Writing, AskSound
    <2>3. CASE SaveTwap \/ SaveOutcome
      BY <2>3, <1>1, <1>2 DEF SaveTwap, SaveOutcome, Goto, Writing
    <2>4. CASE SettleLive
      BY <2>4, <1>2 DEF SettleLive, Settleable, Work
    <2>5. CASE LateRetry \/ AttemptPtb
      BY <2>5, <1>9 DEF LateRetry, AttemptPtb, Work, Writing
    <2>6. CASE Outside
      BY <2>6, <1>9, <1>1, <1>2 DEF Outside, Tick, StepBack, Hear, local, Writing
    <2> QED BY <1>9, <1>4, <2>1, <2>2, <2>3, <2>4, <2>5, <2>6, Control DEF Writing
  <1>10. ASSUME NEW m \in Markets, twapRow'[m] # {} PROVE now' >= Close(m) + G
    <2>1. Close(m) \in Nat /\ G \in Nat /\ at \in Nat /\ at <= now
      BY Hours, GridAssumption, Grid DEF RotationInv, TypeOK, ClockSound
    <2>2. CASE twapRow[m] # {}
      BY <2>1, <2>2, <1>1
    <2>3. CASE SaveTwap /\ m = cur
      BY <2>1, <2>3, <1>1 DEF SaveTwap, Writing
    <2> QED BY <2>2, <2>3, <1>10, Writers DEF SaveTwap, RotationInv, TypeOK
  <1> QED BY <1>5, <1>6, <1>7, <1>8, <1>9, <1>10

\* Nothing comes between the two commits that open a market.
LEMMA Opening == ASSUME Next, pc = "activate" PROVE Activate \/ Crash
  BY DEF Next, Outside, Awaits, Tick, StepBack, Hear, Start, Process, Recovery, Rotate, AskPtb, Settle,
     SettleRecovered, Recovered, BeginPass, CloseCurrent, Create, Restore, Swept,
     LateRetry, ListStored, StoredWithPtb, StoredWithout, StoredDone, AttemptPtb, NoAttempt,
     PtbMissing, PtbFrozen, SettleLive, SaveTwap, SaveOutcome, SavePhase

\* A process that was never interrupted finds no row of the market that opens.
LEMMA NothingToRestore == ASSUME Ahead, crashes = 0 PROVE ~ Restore
  <1> SUFFICES ASSUME Restore PROVE FALSE
    OBVIOUS
  <1>1. pc = "advance" /\ current = 0 /\ phaseRow[WindowAt(at)] # "none"
    BY DEF Restore
  <1>2. WindowAt(at) \in Markets /\ phaseRow[WindowAt(at)] \in {"DISCOVERED", "ACTIVE"}
    BY <1>1, OpenIsOpen DEF Ahead, RotationInv, TypeOK
  <1> QED BY <1>1, <1>2, NoMarket DEF Ahead, Forward, HeardSound

\* Only a market that has been opened is heard for.
LEMMA RowsStep ==
  ASSUME Ahead, Next, NEW r \in rows' PROVE phaseRow'[r[1]] \notin {"none", "DISCOVERED"}
  <1> USE DEF Ahead, Forward, HeardSound, RotationInv
  <1>1. /\ phaseRow \in [Markets -> {"none", "DISCOVERED", "ACTIVE", "SETTLING", "SETTLED"}]
        /\ Live \subseteq Markets
    BY LiveOnGrid DEF TypeOK
  <1>2. CASE r \in rows
    <2>1. phaseRow[r[1]] \notin {"none", "DISCOVERED"} /\ r[1] \in Markets
      BY <1>2 DEF TypeOK, Rows
    <2>2. CASE Create
      BY <2>1, <2>2, <1>1, OpenIsOpen DEF Create
    <2>3. CASE CloseCurrent \/ Activate \/ SavePhase
      BY <2>1, <2>3, <1>1 DEF CloseCurrent, Activate, SavePhase
    <2>4. CASE Restore
      BY <2>1, <2>4, <1>1 DEF Restore
    <2> QED BY <2>1, <2>2, <2>3, <2>4, Writers
  <1>3. CASE r \notin rows
    <2>1. PICK ts \in Emits, k \in 1 .. Deliveries : Hear(ts, k)
      BY <1>3, Writers
    <2>2. PICK m \in Routed : r = <<m, ts, k>>
      BY <2>1, <1>3 DEF Hear
    <2>3. phaseRow[m] \in {"ACTIVE", "SETTLING"} /\ UNCHANGED phaseRow
      BY <2>1, <2>2 DEF Hear, Routed, LiveMatchesRows, Live
    <2> QED BY <2>2, <2>3
  <1> QED BY <1>2, <1>3

LEMMA HeardStep == ASSUME Ahead, Next, backs' = 0 PROVE HeardSound'
  <1> USE DEF Ahead, Forward, HeardSound, RotationInv
  <1> SUFFICES ASSUME crashes' = 0
               PROVE  /\ \A m \in Markets : phaseRow'[m] = "ACTIVE" => m = current'
                      /\ \A m \in Markets : phaseRow'[m] = "DISCOVERED" => pc' = "activate" /\ cur' = m
                      /\ \A m \in kept' : {r \in collected' : r[1] = m} = InWindow(m)'
                      /\ job' = "live" /\ pc' \in {"outcome", "phase"} => twapRow'[cur'] = InWindow(cur)'
    BY RowsStep
  <1>1. crashes = 0 /\ ~ Crash /\ ~ Restore
    BY OnlyForward, NothingToRestore
  <1>2. phaseRow \in [Markets -> {"none", "DISCOVERED", "ACTIVE", "SETTLING", "SETTLED"}]
    BY DEF TypeOK
  <1>3. ASSUME NEW m \in Markets, phaseRow'[m] = "ACTIVE" PROVE m = current'
    <2>1. CASE Activate
      <3>1. current = 0 /\ current' = cur /\ phaseRow' = [phaseRow EXCEPT ![cur] = "ACTIVE"]
        BY <2>1 DEF Activate, Working, RotateSound
      <3> QED BY <3>1, <1>1, <1>2, <1>3, NoMarket
    <2>2. CASE CloseCurrent
      BY <2>2, <1>1, <1>2, <1>3 DEF CloseCurrent
    <2>3. CASE UNCHANGED phaseRow \/ Create \/ SavePhase
      <3>1. phaseRow[m] = "ACTIVE"
        BY <2>3, <1>2, <1>3, OpenIsOpen DEF Create, SavePhase
      <3>2. UNCHANGED current \/ Activate \/ CloseCurrent
        BY <1>1, Writers
      <3> QED BY <3>1, <3>2, <1>1, <2>1, <2>2
    <2> QED BY <2>1, <2>2, <2>3, <1>1, Writers
  <1>4. ASSUME NEW m \in Markets, phaseRow'[m] = "DISCOVERED" PROVE pc' = "activate" /\ cur' = m
    <2>1. CASE Create
      <3>1. pc = "advance" /\ pc' = "activate" /\ cur' = WindowAt(at)
            /\ phaseRow' = [phaseRow EXCEPT ![WindowAt(at)] = "DISCOVERED"]
        BY <2>1 DEF Create
      <3> QED BY <3>1, <1>1, <1>2, <1>4
    <2>2. CASE ~ Create
      <3>1. phaseRow[m] = "DISCOVERED"
        BY <2>2, <1>1, <1>2, <1>4, Writers DEF CloseCurrent, Activate, SavePhase
      <3>2. pc = "activate" /\ cur = m /\ Activate
        BY <3>1, <1>1, Opening
      <3> QED BY <3>2, <1>2, <1>4 DEF Activate
    <2> QED BY <2>1, <2>2
  <1>5. ASSUME NEW m \in kept' PROVE {r \in collected' : r[1] = m} = InWindow(m)'
    <2>1. Window(m)' = Window(m)
      BY DEF Window
    <2>2. CASE \E ts \in Emits, k \in 1 .. Deliveries : Hear(ts, k)
      <3>1. PICK ts \in Emits, k \in 1 .. Deliveries : Hear(ts, k)
        BY <2>2
      <3>2. /\ rows' = rows \union {<<l, ts, k>> : l \in Routed}
            /\ collected' = collected \union {<<l, ts, k>> : l \in {n \in Routed : TakenBy(n, ts)}}
            /\ m \in kept
        BY <3>1, <1>5 DEF Hear
      <3>3. {r \in collected : r[1] = m} = {r \in rows : r[1] = m /\ r[2] \in Window(m)}
        BY <3>2, <1>1 DEF InWindow
      <3> QED BY <2>1, <3>2, <3>3 DEF InWindow, TakenBy
    <2>3. CASE Activate
      <3>1. /\ kept' = kept \union {cur} /\ collected' = {r \in collected : r[1] # cur}
            /\ UNCHANGED rows /\ phaseRow[cur] = "DISCOVERED"
        BY <2>3 DEF Activate, Collecting, Working, RotateSound
      <3>2. CASE m = cur
        BY <2>1, <3>1, <3>2 DEF InWindow
      <3>3. CASE m # cur
        <4>1. {r \in collected' : r[1] = m} = {r \in collected : r[1] = m}
          BY <3>1, <3>3
        <4> QED BY <2>1, <3>1, <3>3, <4>1, <1>1 DEF InWindow
      <3> QED BY <3>2, <3>3
    <2>4. CASE Swept \/ SavePhase
      <3>1. /\ m \in kept /\ UNCHANGED rows
            /\ {r \in collected' : r[1] = m} = {r \in collected : r[1] = m}
        BY <2>4, <1>5 DEF Swept, SavePhase, Cleanup, durable
      <3> QED BY <2>1, <3>1, <1>1 DEF InWindow
    <2>5. CASE UNCHANGED <<kept, collected>> /\ ~ \E ts \in Emits, k \in 1 .. Deliveries : Hear(ts, k)
      <3>1. UNCHANGED rows
        BY <2>5, Writers
      <3> QED BY <2>1, <2>5, <3>1, <1>1, <1>5 DEF InWindow
    <2> QED BY <2>2, <2>3, <2>4, <2>5, <1>1, Writers
  <1>6. ASSUME job' = "live", pc' \in {"outcome", "phase"} PROVE twapRow'[cur'] = InWindow(cur)'
    <2>1. ~ (\E ts \in Emits, k \in 1 .. Deliveries : Hear(ts, k)) /\ (SaveTwap \/ SaveOutcome)
      BY <1>6, Control DEF Hear, local, Awaits, SaveTwap, SaveOutcome
    <2>2. UNCHANGED <<rows, job, cur>> /\ InWindow(cur)' = InWindow(cur)
      BY <2>1, Writers DEF SaveTwap, SaveOutcome, Goto, InWindow, Window
    <2>3. CASE SaveOutcome
      BY <2>2, <2>3, <1>1, <1>6 DEF SaveOutcome
    <2>4. CASE SaveTwap
      <3>1. cur \in Markets /\ cur \in Live /\ Writing
        BY <2>2, <2>4, <1>6, Settled DEF SaveTwap, Writing
      <3>2. twapRow'[cur] = CollectedBy(cur) /\ cur \in kept
        BY <2>2, <2>4, <3>1, <1>6 DEF SaveTwap, TypeOK, TwapOf
      <3> QED BY <2>2, <3>2, <1>1 DEF CollectedBy
    <2> QED BY <2>1, <2>3, <2>4
  <1> QED BY <1>3, <1>4, <1>5, <1>6

Forwards == backs = 0 => Forward

LEMMA InitForward == Init => Forwards
  BY Grid, NoMarket, GridAssumption, Hours
  DEF Init, Forwards, Forward, ClockSound, PhasesSound, ArchivedSound, WindowSound, CommitsSound,
      OutcomeSound, GraceSound, HeardSound, Writing, Live, NoOutcome

LEMMA ForwardStep == ASSUME RotationInv, Forwards, [Next]_vars PROVE Forwards'
  <1>1. CASE Next
    <2>1. backs' = 0 => backs = 0
      <3>1. backs \in Nat
        BY GridAssumption DEF RotationInv, TypeOK
      <3> QED BY <1>1, <3>1, Writers DEF Tick, StepBack
    <2> QED BY <1>1, <2>1, ClockStep, PhasesStep, ArchivedStep, KeptStep, WindowStep, CommitsStep,
            OutcomeStep, GraceStep, HeardStep DEF Forwards, Forward, Ahead
  <1>2. CASE UNCHANGED vars
    <2>1. Forward' = Forward
      BY <1>2 DEF vars, world, durable, rotator, local, Forward, ClockSound, PhasesSound, ArchivedSound,
         WindowSound, CommitsSound, OutcomeSound, GraceSound, HeardSound, Writing, Live, Close, Window,
         PastGrace, InWindow, TwapOf, CollectedBy, Rebuilt, ObservationsBetween
    <2> QED BY <1>2, <2>1 DEF vars, world, Forwards
  <1> QED BY <1>1, <1>2

LEMMA ForwardInductive == Spec => [](RotationInv /\ Forwards)
  <1>1. Init => RotationInv /\ Forwards
    BY InitRotation, InitForward
  <1>2. RotationInv /\ Forwards /\ [Next]_vars => (RotationInv /\ Forwards)'
    BY InvStep, ForwardStep
  <1> QED BY <1>1, <1>2, PTL DEF Spec

\* The samples of an outcome are those of the row's TWAP.
LEMMA OutcomeTwap ==
  ASSUME OutcomeSound, NEW m \in Markets, settlement[m] # NoOutcome
  PROVE  twapRow[m] # {} /\ settlement[m].twap = twapRow[m]
  <1>1. twapRow[m] # {} /\ settlement[m] = [twap |-> twapRow[m], ptb |-> ptbRow[m]]
    BY DEF OutcomeSound
  <1> QED BY <1>1

\* While the clock only goes forward, a rotation takes no live market's collector, and
\* the one it opens or restores gets its own (_open, _cleanup_market).
THEOREM EveryLiveCollects == Spec => []LiveHasCollector
  <1>1. Forwards => LiveHasCollector
    BY DEF Forwards, Forward, LiveHasCollector
  <1> QED BY <1>1, ForwardInductive, PTL

\* A market is SETTLED on what its row records, whichever of the three paths wrote the
\* outcome and wherever the process died between its commits (settle_market, recovery).
THEOREM OutcomeIsRecorded == Spec => []SettledAsRecorded
  <1>1. Forwards => SettledAsRecorded
    BY DEF Forwards, Forward, OutcomeSound, SettledAsRecorded
  <1> QED BY <1>1, ForwardInductive, PTL

\* No outcome is written before the market has closed, nor before its grace is over by a
\* process that was not interrupted; and it is of samples of the market's own window.
THEOREM SettlesAfterClose == Spec => []SettledAfterClose
  <1>1. ASSUME RotationInv, Forwards PROVE SettledAfterClose
    <2> SUFFICES ASSUME backs = 0, NEW m \in Markets, settlement[m] # NoOutcome
                 PROVE  /\ now >= Close(m) + (IF crashes = 0 THEN G ELSE 0)
                        /\ \A r \in settlement[m].twap : r[2] \in Window(m)
      BY DEF SettledAfterClose
    <2>1. twapRow[m] # {} /\ phaseRow[m] \in {"SETTLING", "SETTLED"} /\ settlement[m].twap = twapRow[m]
      BY <1>1, OutcomeTwap DEF Forwards, Forward, OutcomeSound
    <2>2. now >= Close(m) /\ Close(m) \in Nat /\ now \in Nat
      BY <1>1, <2>1, Hours, Grid DEF Forwards, Forward, PhasesSound, RotationInv, TypeOK
    <2>3. crashes = 0 => now >= Close(m) + G
      BY <1>1, <2>1 DEF Forwards, Forward, GraceSound
    <2> QED BY <1>1, <2>1, <2>2, <2>3 DEF Forwards, Forward, WindowSound
  <1> QED BY <1>1, ForwardInductive, PTL

\* A process that ran without interruption settles a market it still holds on every sample
\* of its window that it routed to it, as often as it was delivered and in whatever order,
\* and on nothing else (route, offer).
THEOREM NothingHeardIsLost == Spec => []SettledOnWhatWasHeard
  <1>1. ASSUME RotationInv, Forwards PROVE SettledOnWhatWasHeard
    <2> SUFFICES ASSUME backs = 0, crashes = 0, job = "live", pc = "phase"
                 PROVE  settlement[cur].twap = InWindow(cur)
      BY DEF SettledOnWhatWasHeard, InWindow
    <2>1. cur \in Markets /\ settlement[cur] # NoOutcome
      BY <1>1, CurOnGrid DEF Writing, Forwards, Forward, CommitsSound
    <2>2. settlement[cur].twap = twapRow[cur] /\ twapRow[cur] = InWindow(cur)
      BY <1>1, <2>1, OutcomeTwap DEF Forwards, Forward, HeardSound
    <2> QED BY <2>2
  <1> QED BY <1>1, ForwardInductive, PTL

------------------------------------------------------------------------------
(* The refinement of MarketLife *)

\* A market has a row only once the clock has reached its window, and the one that is
\* being opened is the one the clock is in.
OrderSound ==
  backs = 0 =>
    /\ \A m \in Markets : phaseRow[m] # "none" => Close(m) <= now + D
    /\ pc = "activate" => now < Close(cur)

LEMMA OrderStep == ASSUME RotationInv, Forwards, OrderSound, Next PROVE OrderSound'
  <1> SUFFICES ASSUME backs' = 0 PROVE OrderSound'
    BY DEF OrderSound
  <1>1. backs = 0 /\ Ahead
    <2>1. backs \in Nat
      BY GridAssumption DEF RotationInv, TypeOK
    <2> QED BY <2>1, Writers DEF Tick, StepBack, Ahead, Forwards
  <1>2. now \in Nat /\ now' \in Nat /\ now <= now' /\ D \in Nat /\ now \in Times
    BY <1>1, OnlyForward, GridAssumption DEF RotationInv, TypeOK
  <1>3. phaseRow \in [Markets -> {"none", "DISCOVERED", "ACTIVE", "SETTLING", "SETTLED"}]
        /\ \A m \in Markets : Close(m) \in Nat /\ Close(m)' = Close(m)
    BY Hours DEF RotationInv, TypeOK, Close
  <1>4. ASSUME NEW m \in Markets, phaseRow'[m] # "none" PROVE Close(m) <= now' + D
    <2>1. CASE phaseRow[m] # "none"
      BY <2>1, <1>1, <1>2, <1>3 DEF OrderSound
    <2>2. CASE Create /\ m = WindowAt(at)
      BY <2>2, <1>1, <1>2, Hours DEF Create, world, Ahead, Forward, ClockSound
    <2>3. phaseRow[m] = "none" => Create /\ m = WindowAt(at)
      <3>1. current \in 0 .. M /\ (pc = "activate" => cur \in Markets /\ phaseRow[cur] = "DISCOVERED")
            /\ (current # 0 => phaseRow[current] = "ACTIVE")
        BY DEF RotationInv, TypeOK, Working, RotateSound, LiveMatchesRows
      <3>2. pc = "phase" => phaseRow[cur] = "SETTLING"
        BY DEF RotationInv, Working, SettleSound, Settling, LiveMatchesRows
      <3> QED BY <3>1, <3>2, <1>3, <1>4, Writers DEF CloseCurrent, Create, Activate, Restore, SavePhase
    <2> QED BY <2>1, <2>2, <2>3
  <1>5. ASSUME pc' = "activate" PROVE now' < Close(cur')
    <2>1. Create
      BY <1>5, Control
    <2> QED BY <2>1, <1>1, <1>2, Hours DEF Create, world, Ahead, Forward, ClockSound
  <1> QED BY <1>3, <1>4, <1>5 DEF OrderSound

LifeInv == RotationInv /\ Forwards /\ CommitsSound /\ OrderSound

LEMMA LifeInductive == Spec => []LifeInv
  <1>1. Init => LifeInv
    BY InitRotation, InitForward DEF Init, LifeInv, CommitsSound, Writing, OrderSound
  <1>2. LifeInv /\ [Next]_vars => LifeInv'
    <2>1. ASSUME LifeInv, Next PROVE LifeInv'
      BY <2>1, InvStep, ForwardStep, CommitsStep, OrderStep DEF LifeInv
    <2>2. ASSUME LifeInv, UNCHANGED vars PROVE LifeInv'
      <3>1. RotationInv' /\ Forwards'
        BY <2>2, InvStep, ForwardStep DEF LifeInv
      <3>2. CommitsSound' = CommitsSound /\ OrderSound' = OrderSound
        BY <2>2 DEF vars, world, durable, rotator, local, CommitsSound, Writing, TwapOf, CollectedBy,
           Rebuilt, ObservationsBetween, Window, Close, OrderSound
      <3> QED BY <2>2, <3>1, <3>2 DEF LifeInv
    <2> QED BY <2>1, <2>2
  <1> QED BY <1>1, <1>2, PTL DEF Spec

LEMMA ShownAs ==
  /\ Shown["none"] = "unknown" /\ Shown["DISCOVERED"] = "unknown" /\ Shown["ACTIVE"] = "open"
  /\ Shown["SETTLING"] = "closed" /\ Shown["SETTLED"] = "settled"
  BY DEF Shown

\* One row changes its phase: one life moves on, and it ends on what the row says.
LEMMA OneMoves ==
  ASSUME TypeOK, NEW m \in Markets,
         NEW ph \in {"none", "DISCOVERED", "ACTIVE", "SETTLING", "SETTLED"},
         phaseRow' = [phaseRow EXCEPT ![m] = ph], UNCHANGED <<twapRow, ptbRow>>
  PROVE  /\ Life!Moves(m, Shown[phaseRow[m]], Shown[ph])
         /\ ph = "SETTLED" => Ended' = [Ended EXCEPT ![m] = [twap |-> twapRow[m], ptb |-> ptbRow[m]]]
         /\ ph # "SETTLED" => Ended' = [Ended EXCEPT ![m] = NoOutcome]
         /\ ph # "SETTLED" /\ phaseRow[m] # "SETTLED" => Ended' = Ended
  <1>1. phaseRow \in [Markets -> {"none", "DISCOVERED", "ACTIVE", "SETTLING", "SETTLED"}]
    BY DEF TypeOK
  <1>2. \A n \in Markets : phaseRow'[n] = IF n = m THEN ph ELSE phaseRow[n]
    BY <1>1
  <1>3. Lives' = [n \in Markets |-> Shown[phaseRow'[n]]]
    BY DEF Lives, Shown
  <1>4. Ended' = [n \in Markets |-> IF phaseRow'[n] = "SETTLED"
                                    THEN [twap |-> twapRow[n], ptb |-> ptbRow[n]] ELSE NoOutcome]
    BY DEF Ended, NoOutcome
  <1>5. Lives[m] = Shown[phaseRow[m]] /\ Lives' = [Lives EXCEPT ![m] = Shown[ph]]
    <2>1. \A n \in Markets : Shown[phaseRow'[n]] = IF n = m THEN Shown[ph] ELSE Shown[phaseRow[n]]
      BY <1>2
    <2> QED BY <1>3, <2>1, Zenon DEF Lives
  <1>6. Ended' = [Ended EXCEPT ![m] = IF ph = "SETTLED"
                                      THEN [twap |-> twapRow[m], ptb |-> ptbRow[m]] ELSE NoOutcome]
    BY <1>2, <1>4 DEF Ended
  <1>7. phaseRow[m] # "SETTLED" /\ ph # "SETTLED" => Ended' = Ended
    BY <1>2, <1>4 DEF Ended
  <1> QED BY <1>5, <1>6, <1>7 DEF Life!Moves

\* A row that is written while its market is not settled is not shown.
LEMMA NothingShown ==
  ASSUME NEW m, phaseRow[m] # "SETTLED", UNCHANGED phaseRow,
         \A n \in Markets \ {m} : twapRow'[n] = twapRow[n] /\ ptbRow'[n] = ptbRow[n]
  PROVE  UNCHANGED <<Lives, Ended>>
  <1>1. Lives' = Lives
    BY DEF Lives, Shown
  <1>2. \A n \in Markets : (phaseRow'[n] = "SETTLED") = (phaseRow[n] = "SETTLED")
    OBVIOUS
  <1>3. Ended' = [n \in Markets |-> IF phaseRow[n] = "SETTLED"
                                    THEN [twap |-> twapRow'[n], ptb |-> ptbRow'[n]] ELSE NoOutcome]
    BY DEF Ended, NoOutcome
  <1>4. Ended' = Ended
    BY <1>3 DEF Ended
  <1> QED BY <1>1, <1>4


\* The variables of MarketLife, as the rows show them.
LifeVars == <<backs = 0, <<Lives, settlement, Ended>>>>

\* Only these steps write what is shown.
LEMMA LifeWriters ==
  ASSUME Next
  PROVE  \/ Tick \/ StepBack \/ CloseCurrent \/ Create \/ Activate \/ Restore
         \/ SaveTwap \/ PtbFrozen \/ SaveOutcome \/ SavePhase
         \/ UNCHANGED <<backs, phaseRow, ptbRow, twapRow, settlement>>
  BY Writers

\* Each of them is a step of MarketLife, or shows nothing.
LEMMA LifeNextStep ==
  ASSUME LifeInv, Next
  PROVE  \/ UNCHANGED LifeVars
         \/ Life!Disturb
         \/ \E m \in Markets :
              Life!Open(m) \/ Life!Shut(m) \/ Life!Decide(m) \/ Life!Settle(m) \/ Life!Reopen(m)
  <1> USE DEF LifeInv, RotationInv, LifeVars
  <1>1. /\ phaseRow \in [Markets -> {"none", "DISCOVERED", "ACTIVE", "SETTLING", "SETTLED"}]
        /\ current \in 0 .. M /\ Live \subseteq Markets /\ 0 \notin Markets
        /\ settlement \in [Markets -> [twap : SUBSET Rows, ptb : 0 .. M]]
        /\ twapRow \in [Markets -> SUBSET Rows] /\ ptbRow \in [Markets -> 0 .. M]
    BY LiveOnGrid, NoMarket DEF TypeOK
  <1>2. ASSUME UNCHANGED <<phaseRow, ptbRow, twapRow>> PROVE UNCHANGED <<Lives, Ended>>
    BY <1>2, Zenon DEF Lives, Ended, Shown, NoOutcome
  <1>3. CASE Tick \/ StepBack
    <2>1. UNCHANGED <<phaseRow, ptbRow, twapRow, settlement>>
      BY <1>3 DEF Tick, StepBack, durable
    <2>2. UNCHANGED <<Lives, Ended>>
      BY <2>1, <1>2
    <2>3. CASE Tick
      BY <2>1, <2>2, <2>3 DEF Tick
    <2>4. CASE StepBack
      <3>1. (backs' = 0) = FALSE
        BY <2>4, GridAssumption DEF StepBack, TypeOK
      <3> QED BY <2>1, <2>2, <3>1 DEF Life!Disturb, Life!market
    <2> QED BY <1>3, <2>3, <2>4
  <1>4. CASE CloseCurrent
    <2>1. /\ current \in Markets /\ phaseRow[current] = "ACTIVE" /\ UNCHANGED <<backs, ptbRow, twapRow, settlement>>
          /\ phaseRow' = [phaseRow EXCEPT ![current] = "SETTLING"]
      BY <1>4, <1>1 DEF CloseCurrent, LiveMatchesRows, Live, world
    <2>2. Life!Moves(current, Shown["ACTIVE"], Shown["SETTLING"]) /\ Ended' = Ended
      BY <2>1, OneMoves
    <2> QED BY <2>1, <2>2, ShownAs DEF Life!Shut
  <1>5. CASE Create
    <2>1. /\ WindowAt(at) \in Markets /\ phaseRow[WindowAt(at)] = "none"
          /\ UNCHANGED <<backs, ptbRow, twapRow, settlement>>
          /\ phaseRow' = [phaseRow EXCEPT ![WindowAt(at)] = "DISCOVERED"]
      BY <1>5, WindowOnGrid DEF Create, world, TypeOK
    <2>2. Life!Moves(WindowAt(at), Shown["none"], Shown["DISCOVERED"]) /\ Ended' = Ended
      BY <2>1, OneMoves
    <2>3. UNCHANGED <<Lives, Ended>>
      BY <2>2, ShownAs DEF Life!Moves, Lives
    <2> QED BY <2>1, <2>3
  <1>6. ASSUME NEW m \in Markets, backs = 0 => now < Close(m)
        PROVE  backs = 0 => \A n \in Markets : n > m => Lives[n] = "unknown"
    <2> SUFFICES ASSUME backs = 0, NEW n \in Markets, n > m PROVE phaseRow[n] = "none"
      BY ShownAs DEF Lives
    <2>1. Close(m) + D <= Close(n) /\ Close(m) \in Nat /\ Close(n) \in Nat /\ now \in Nat /\ D \in Nat
      BY Hours, Grid, GridAssumption DEF TypeOK, Markets
    <2> QED BY <2>1, <1>6 DEF OrderSound
  <1>7. ASSUME NEW m \in Markets, phaseRow[m] \in {"none", "DISCOVERED"}, backs = 0 => now < Close(m),
               UNCHANGED <<backs, ptbRow, twapRow, settlement>>,
               phaseRow' = [phaseRow EXCEPT ![m] = "ACTIVE"]
        PROVE  Life!Open(m)
    <2>1. Life!Moves(m, Shown[phaseRow[m]], Shown["ACTIVE"]) /\ Ended' = Ended
      BY <1>7, OneMoves
    <2>2. Life!Moves(m, "unknown", "open")
      BY <1>7, <2>1, ShownAs
    <2> QED BY <1>6, <1>7, <2>1, <2>2 DEF Life!Open
  <1>8. CASE Activate
    <2>1. /\ cur \in Markets /\ phaseRow[cur] = "DISCOVERED" /\ UNCHANGED <<backs, ptbRow, twapRow, settlement>>
          /\ phaseRow' = [phaseRow EXCEPT ![cur] = "ACTIVE"] /\ (backs = 0 => now < Close(cur))
      BY <1>8 DEF Activate, Working, RotateSound, world, OrderSound
    <2> QED BY <2>1, <1>7
  <1>9. CASE Restore
    <2> DEFINE m == WindowAt(at)
    <2>1. /\ m \in Markets /\ phaseRow[m] # "none" /\ UNCHANGED <<backs, ptbRow, twapRow, settlement>>
          /\ phaseRow' = [phaseRow EXCEPT ![m] = "ACTIVE"]
      BY <1>9, WindowOnGrid DEF Restore, world, TypeOK
    <2>2. backs = 0 => now < Close(m) /\ phaseRow[m] \notin {"SETTLING", "SETTLED"}
      <3>1. backs = 0 => Ahead /\ pc = "advance"
        BY <1>9 DEF Restore, Ahead, Forwards
      <3> QED BY <3>1, Hours, OpenIsOpen DEF Ahead, Forward, ClockSound, TypeOK
    <2> HIDE DEF m
    <2>3. CASE phaseRow[m] = "DISCOVERED"
      BY <2>1, <2>2, <2>3, <1>7
    <2>4. CASE phaseRow[m] = "ACTIVE"
      <3>1. phaseRow' = phaseRow
        BY <2>1, <2>4, <1>1
      <3> QED BY <2>1, <3>1, <1>2
    <2>5. CASE phaseRow[m] \in {"SETTLING", "SETTLED"}
      <3>1. Life!Moves(m, Shown[phaseRow[m]], Shown["ACTIVE"]) /\ Ended' = [Ended EXCEPT ![m] = NoOutcome]
        BY <2>1, OneMoves
      <3>2. Life!Moves(m, "closed", "open") \/ Life!Moves(m, "settled", "open")
        BY <2>5, <3>1, ShownAs
      <3> QED BY <2>1, <2>2, <2>5, <3>1, <3>2 DEF Life!Reopen
    <2> QED BY <2>1, <2>3, <2>4, <2>5, <1>1
  <1>10. ASSUME NEW m \in Markets, UNCHANGED phaseRow, phaseRow[m] # "SETTLED",
                \A n \in Markets \ {m} : twapRow'[n] = twapRow[n] /\ ptbRow'[n] = ptbRow[n]
         PROVE  UNCHANGED <<Lives, Ended>>
    BY <1>10, NothingShown
  <1>11. Writing => cur \in Markets /\ phaseRow[cur] = "SETTLING"
    BY CurOnGrid DEF Working, SettleSound, Settling, LiveMatchesRows, Writing
  <1>12. CASE SaveTwap
    <2>1. /\ UNCHANGED <<backs, phaseRow, ptbRow, settlement>> /\ cur \in Markets /\ phaseRow[cur] = "SETTLING"
          /\ twapRow' = [twapRow EXCEPT ![cur] = TwapOf(cur, job)]
      BY <1>11, <1>12 DEF SaveTwap, world, Writing
    <2> QED BY <2>1, <1>1, <1>10
  <1>13. CASE PtbFrozen
    <2>1. /\ UNCHANGED <<backs, phaseRow, twapRow, settlement>> /\ cur \in Markets /\ phaseRow[cur] # "SETTLED"
          /\ ptbRow' = FirstPtb(cur, Official(cur, cached'))
      BY <1>1, <1>13 DEF PtbFrozen, world, Working, AskSound, Settling, LiveMatchesRows, Live
    <2> QED BY <2>1, <1>1, <1>10 DEF FirstPtb
  <1>14. CASE SaveOutcome
    <2> DEFINE o == [twap |-> twapRow[cur], ptb |-> IF job = "live" THEN mptb[cur] ELSE ptbRow[cur]]
    <2>1. /\ UNCHANGED <<backs, phaseRow, ptbRow, twapRow>> /\ cur \in Markets /\ phaseRow[cur] = "SETTLING"
          /\ twapRow[cur] # {} /\ settlement' = FirstOutcome(cur, o)
      BY <1>11, <1>14 DEF SaveOutcome, world, Writing, CommitsSound
    <2>2. o \in [twap : SUBSET Rows, ptb : 0 .. M] /\ o # NoOutcome
      BY <2>1, <1>1 DEF TypeOK, NoOutcome
    <2> HIDE DEF o
    <2>3. UNCHANGED <<Lives, Ended>> /\ Lives[cur] = "closed"
      BY <2>1, <1>2, ShownAs DEF Lives
    <2>4. CASE settlement[cur] = NoOutcome
      <3>1. settlement' = [settlement EXCEPT ![cur] = o] /\ settlement'[cur] = o
        BY <2>1, <2>4, <1>1 DEF FirstOutcome
      <3> QED BY <2>1, <2>2, <2>3, <2>4, <3>1 DEF Life!Decide, Life!Writes
    <2>5. CASE settlement[cur] # NoOutcome
      BY <2>1, <2>3, <2>5 DEF FirstOutcome
    <2> QED BY <2>4, <2>5
  <1>15. CASE SavePhase
    <2> DEFINE o == [twap |-> twapRow[cur], ptb |-> ptbRow[cur]]
    <2>1. /\ UNCHANGED <<backs, settlement, ptbRow, twapRow>> /\ cur \in Markets /\ phaseRow[cur] = "SETTLING"
          /\ settlement[cur] # NoOutcome /\ ptbRow[cur] # 0 /\ phaseRow' = [phaseRow EXCEPT ![cur] = "SETTLED"]
      BY <1>11, <1>15 DEF SavePhase, world, Writing, CommitsSound
    <2>2. o \in [twap : SUBSET Rows, ptb : 0 .. M] /\ o # NoOutcome
      BY <2>1, <1>1 DEF NoOutcome
    <2>3. backs = 0 => settlement[cur] = o
      BY <2>1 DEF Forwards, Forward, OutcomeSound
    <2>4. Life!Moves(cur, Shown["SETTLING"], Shown["SETTLED"]) /\ Ended' = [Ended EXCEPT ![cur] = o]
      BY <2>1, OneMoves
    <2> HIDE DEF o
    <2>5. Ended'[cur] = o
      BY <2>1, <2>4 DEF Ended
    <2> QED BY <2>1, <2>2, <2>3, <2>4, <2>5, ShownAs DEF Life!Settle, Life!Writes
  <1>16. CASE UNCHANGED <<backs, phaseRow, ptbRow, twapRow, settlement>>
    BY <1>16, <1>2
  <1> QED BY <1>3, <1>4, <1>5, <1>8, <1>9, <1>12, <1>13, <1>14, <1>15, <1>16, LifeWriters

\* The code's markets live as MarketLife says, for any grid, feed and faults: every opening,
\* closing and outcome is one of its steps, and all else that the passes, the requests, the
\* commits and the restarts do to the rows cannot be told from the outside.
THEOREM RotationImplementsLife == Spec => ImplementsLife
  <1>1. ASSUME Init PROVE Life!Init
    BY <1>1, GridAssumption DEF Init, Life!Init, Lives, Ended, Shown
  <1>2. ASSUME LifeInv, [Next]_vars PROVE [Life!Next]_LifeVars
    <2>1. CASE Next
      BY <1>2, <2>1, LifeNextStep DEF Life!Next
    <2>2. CASE UNCHANGED vars
      <3>1. UNCHANGED <<backs, phaseRow, ptbRow, twapRow, settlement>>
        BY <2>2 DEF vars, world, durable
      <3> QED BY <3>1 DEF LifeVars, Lives, Ended, Shown, NoOutcome
    <2> QED BY <1>2, <2>1, <2>2
  <1> QED BY <1>1, <1>2, LifeInductive, PTL DEF Spec, ImplementsLife, Life!Spec, LifeVars, Life!market
==============================================================================
