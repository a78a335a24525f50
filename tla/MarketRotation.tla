--------------------------- MODULE MarketRotation ----------------------------
(***************************************************************************)
(* The life of the markets of a run with the paper adapter: rotation by    *)
(* the clock, the opening price (PTB) fetched and frozen, the samples of   *)
(* the settlement window, settlement in the background, and the restart    *)
(* that has only the rows to work from.                                    *)
(*                                                                         *)
(* Market m is open in [(m-1)D, mD).  No price is kept.  A row of the      *)
(* observations is <<market, ts, k>>: the k-th delivery of the sample of   *)
(* that instant, which weighs as much as every other.  A TWAP is the set   *)
(* of rows it is the mean of; a PTB is the window whose official opening   *)
(* it is; 0 is "none" for markets and PTBs.  Every market is taken to hold *)
(* a position, so that there is an outcome to write.  Left out: the signal *)
(* accumulator and the archived flag, which nothing here reads, and the    *)
(* DEAD phase, which nothing sets any more.                                *)
(***************************************************************************)
EXTENDS Naturals

CONSTANTS
  M,           \* bound: markets on the grid
  D,           \* MARKET_DURATION_SECONDS, in ticks
  W,           \* SETTLEMENT_WINDOW_SECONDS
  G,           \* _SETTLE_GRACE_SECONDS
  MaxAge,      \* max_age_ms of the validator
  MaxFuture,   \* max_future_ms of the validator
  Emits,       \* bound: the instants of which the feed sends a sample
  Deliveries,  \* bound: how many samples it delivers
  MaxFaults    \* bound: deaths of the process and ticks the clock is set back

ASSUME GridAssumption ==
  /\ M \in Nat \ {0} /\ D \in Nat \ {0}
  /\ W \in 0 .. D - 1 /\ G \in Nat /\ MaxAge \in Nat /\ MaxFuture \in Nat
  /\ Emits \subseteq Nat /\ Deliveries \in Nat /\ MaxFaults \in Nat

Markets     == 1 .. M
WindowAt(t) == (t \div D) + 1
Close(m)    == m * D
Times       == 0 .. (M * D) - 1        \* the last market is never left
Window(m)   == {t \in Times : Close(m) <= t + W /\ t <= Close(m)}
Rows        == Markets \X Times \X (1 .. Deliveries)

VARIABLES
  now, backs, crashes,                    \* the wall clock; bounds used
  phaseRow, ptbRow, twapRow, rows,        \* tables markets and observations
  settlement,                             \* table settlements
  current, closing,                       \* MarketRotator
  mptb,                                   \* ptb of the live instances
  kept, collected,                        \* ArcRuntime._settlement: its keys, what they took
  cached,                                 \* PreviousClosePtbCache: opens_window_ts
  pc, job, cur, todo, at, gone            \* the coroutine: where, for what, on which market,
                                          \* rows to visit, the pass's now, event.archived

durable == <<phaseRow, ptbRow, twapRow, rows, settlement>>
rotator == <<current, closing, mptb, kept, collected>>
world   == <<now, backs, crashes>>
local   == <<pc, job, cur, todo, at, gone>>
vars    == <<world, durable, rotator, cached, local>>

NoOutcome == [twap |-> {}, ptb |-> 0]
Live      == {current, closing} \ {0}

CollectedBy(m) == {r \in collected : r[1] = m /\ m \in kept}

Init ==
  /\ now = 0 /\ backs = 0 /\ crashes = 0
  /\ phaseRow = [m \in Markets |-> "none"] /\ ptbRow = [m \in Markets |-> 0]
  /\ twapRow = [m \in Markets |-> {}] /\ rows = {}
  /\ settlement = [m \in Markets |-> NoOutcome]
  /\ current = 0 /\ closing = 0 /\ mptb = [m \in Markets |-> 0]
  /\ kept = {} /\ collected = {} /\ cached = 0
  /\ pc = "down" /\ job = "none" /\ cur = 0 /\ todo = {} /\ at = 0 /\ gone = 0

\* Where the coroutine awaits: token ids and sweep, the two metadata reads of a PTB, the
\* rest of the pass.
Awaits == pc \in {"sweep", "ask", "rest"}

Goto(p) == pc' = p /\ UNCHANGED <<job, cur, todo, at, gone>>
Rest    == pc' = "rest" /\ job' = "none" /\ cur' = 0 /\ at' = 0 /\ UNCHANGED <<todo, gone>>
Work(p, j, m) == pc' = p /\ job' = j /\ cur' = m /\ UNCHANGED <<todo, at, gone>>

------------------------------------------------------------------------------
(* The world outside *)

Tick ==
  /\ Awaits \/ pc = "down"
  /\ now + 1 \in Times
  /\ now' = now + 1
  /\ UNCHANGED <<backs, crashes, durable, rotator, cached, local>>

\* chrony corrects the wall clock.
StepBack ==
  /\ Awaits \/ pc = "down"
  /\ backs + crashes < MaxFaults /\ now > 0
  /\ now' = now - 1 /\ backs' = backs + 1
  /\ UNCHANGED <<crashes, durable, rotator, cached, local>>

\* The venue writes eventMetadata of a market some time after its close: its own PTB, and
\* the final price that is the PTB of the next.  A read may find it missing at any time.
MayHaveMetadata(m) == now >= Close(m)

\* Mutant of TakenBy: only the open market's collector, as if markets did not overlap.
TakenByCurrent(m, ts) == m = current /\ m \in kept /\ ts \in Window(m)

\* SettlementTwapCollector.offer: the window is inclusive at both ends.
TakenBy(m, ts) == m \in kept /\ ts \in Window(m)

\* route(), accepts_observations(): at a boundary two markets take the same sample.
Observing == {"DISCOVERED", "ACTIVE", "SETTLING"}
Routed    == {m \in Live : phaseRow[m] \in Observing}

\* ObservationValidator.validate: neither stale nor ahead of the clock, and nothing about the order
\* of samples or about one that has come before.
Valid(ts) == now <= ts + MaxAge /\ ts <= now + MaxFuture

\* A sample goes to the markets it is routed to: a row each, and the market's collector.
\* k is the number of the delivery: sample ts may have come before.  Only samples of some
\* settlement window are told apart.
Hear(ts, k) ==
  /\ Awaits /\ Live # {}
  /\ {r[3] : r \in rows} = 1 .. k - 1
  /\ Valid(ts)
  /\ \E m \in Markets : ts \in Window(m)
  /\ rows' = rows \union {<<m, ts, k>> : m \in Routed}
  /\ collected' = collected \union {<<m, ts, k>> : m \in {l \in Routed : TakenBy(l, ts)}}
  /\ UNCHANGED <<now, backs, crashes, phaseRow, ptbRow, twapRow, settlement,
                 current, closing, mptb, kept, cached, local>>

Crash ==
  /\ pc # "down" /\ backs + crashes < MaxFaults
  /\ crashes' = crashes + 1
  /\ current' = 0 /\ closing' = 0 /\ mptb' = [m \in Markets |-> 0]
  /\ kept' = {} /\ collected' = {} /\ cached' = 0
  /\ pc' = "down" /\ job' = "none" /\ cur' = 0 /\ todo' = {} /\ at' = 0 /\ gone' = 0
  /\ UNCHANGED <<now, backs, durable>>

------------------------------------------------------------------------------
(* Writing an outcome: three commits, reached from three places *)

\* observations_between(): half open, of whatever market.
ObservationsBetween(from, to) == {r \in rows : from <= r[2] /\ r[2] < to}

\* A new collector is offered what lies in [close - W, close + 1).
Rebuilt(m) == {r \in ObservationsBetween(Close(m) - W, Close(m) + 1) : r[2] \in Window(m)}

\* Mutant of TwapOf: rebuilt from the observations even when the row has one.
TwapOfRebuilt(m, j) == IF j = "live" THEN CollectedBy(m) ELSE Rebuilt(m)

\* The live path takes what the collector holds, the others the row's TWAP if it has one.
TwapOf(m, j) ==
  IF j = "live" THEN CollectedBy(m)
  ELSE IF twapRow[m] # {} THEN twapRow[m]
  ELSE Rebuilt(m)

SaveTwap ==
  /\ pc = "twap"
  /\ twapRow' = [twapRow EXCEPT ![cur] = TwapOf(cur, job)]
  /\ Goto("outcome")
  /\ UNCHANGED <<world, phaseRow, ptbRow, rows, settlement, rotator, cached>>

\* INSERT OR IGNORE: the first outcome stays.
FirstOutcome(m, o) ==
  IF settlement[m] = NoOutcome THEN [settlement EXCEPT ![m] = o] ELSE settlement

SaveOutcome ==
  /\ pc = "outcome"
  /\ settlement' = FirstOutcome(cur,
       [twap |-> twapRow[cur], ptb |-> IF job = "live" THEN mptb[cur] ELSE ptbRow[cur]])
  /\ Goto("phase")
  /\ UNCHANGED <<world, phaseRow, ptbRow, twapRow, rows, rotator, cached>>

\* _cleanup_market(): by name, for both ways a market is archived.
Cleanup(m) == kept' = kept \ {m} /\ collected' = {r \in collected : r[1] # m}

\* After the last commit a live market is archived at once and its collector dropped.
SavePhase ==
  /\ pc = "phase"
  /\ phaseRow' = [phaseRow EXCEPT ![cur] = "SETTLED"]
  /\ IF job = "live"
       THEN closing' = 0 /\ mptb' = [mptb EXCEPT ![cur] = 0] /\ Cleanup(cur)
       ELSE UNCHANGED <<closing, mptb, kept, collected>>
  /\ Goto(CASE job = "live" -> "attempt"
            [] job = "stored" -> "stored"
            [] OTHER -> "recover")
  /\ UNCHANGED <<world, ptbRow, twapRow, rows, settlement, current, cached>>

------------------------------------------------------------------------------
(* Restart: recovery settles the SETTLING rows that have a PTB *)

Start ==
  /\ pc = "down"
  /\ pc' = "recover"
  /\ todo' = {m \in Markets : phaseRow[m] = "SETTLING" /\ ptbRow[m] # 0}
  /\ UNCHANGED <<world, durable, rotator, cached, job, cur, at, gone>>

\* Rows are visited in the order of their windows.
First(m) == m \in todo /\ \A k \in todo : m <= k

\* A row without a sample is left as it is.
Visit(m, j) ==
  /\ pc' = IF TwapOf(m, j) = {} THEN pc ELSE "twap"
  /\ todo' = todo \ {m} /\ job' = j /\ cur' = m
  /\ UNCHANGED <<at, gone>>

SettleRecovered ==
  /\ pc = "recover"
  /\ \E m \in todo : First(m) /\ Visit(m, "recovered")
  /\ UNCHANGED <<world, durable, rotator, cached>>

Recovered ==
  /\ pc = "recover" /\ todo = {}
  /\ Rest
  /\ UNCHANGED <<world, durable, rotator, cached>>

------------------------------------------------------------------------------
(* advance(): level-triggered on the window the clock is in *)

BeginPass ==
  /\ pc = "rest"
  /\ pc' = IF current = WindowAt(now) THEN "late" ELSE "advance"
  /\ at' = now
  /\ UNCHANGED <<world, durable, rotator, cached, job, cur, todo, gone>>

\* The market that was closing, settled or not, gives its place to the current one.
CloseCurrent ==
  /\ pc = "advance" /\ current # 0
  /\ gone' = closing
  /\ mptb' = [m \in Markets |-> IF m = closing THEN 0 ELSE mptb[m]]
  /\ closing' = current /\ current' = 0
  /\ phaseRow' = [phaseRow EXCEPT ![current] = "SETTLING"]
  /\ UNCHANGED <<world, ptbRow, twapRow, rows, settlement, kept, collected, cached,
                 pc, job, cur, todo, at>>

\* Mutant of Collecting: a market that is restored gets none.
CollectingNew(m) ==
  /\ kept' = IF phaseRow[m] = "DISCOVERED" THEN kept \union {m} ELSE kept
  /\ collected' = {r \in collected : r[1] # m}

\* A fresh collector for the market that has just been opened.
Collecting(m) == kept' = kept \union {m} /\ collected' = {r \in collected : r[1] # m}

\* _open() of a market with no row: two commits.
Create ==
  /\ pc = "advance" /\ current = 0 /\ phaseRow[WindowAt(at)] = "none"
  /\ phaseRow' = [phaseRow EXCEPT ![WindowAt(at)] = "DISCOVERED"]
  /\ pc' = "activate" /\ cur' = WindowAt(at)
  /\ UNCHANGED <<world, ptbRow, twapRow, rows, settlement, rotator, cached, job, todo, at, gone>>

Activate ==
  /\ pc = "activate"
  /\ phaseRow' = [phaseRow EXCEPT ![cur] = "ACTIVE"]
  /\ current' = cur
  /\ Collecting(cur)
  /\ Goto("sweep")
  /\ UNCHANGED <<world, ptbRow, twapRow, rows, settlement, closing, mptb, cached>>

\* _open() of a market with a row: its PTB comes back, and whatever its phase says, the
\* clock says it is live.
Restore ==
  /\ pc = "advance" /\ current = 0 /\ phaseRow[WindowAt(at)] # "none"
  /\ LET m == WindowAt(at) IN
       /\ mptb' = [mptb EXCEPT ![m] = ptbRow[m]]
       /\ phaseRow' = [phaseRow EXCEPT ![m] = "ACTIVE"]
       /\ current' = m
       /\ Collecting(m)
  /\ Goto("sweep")
  /\ UNCHANGED <<world, ptbRow, twapRow, rows, settlement, closing, cached>>

\* Token ids are loaded and the closed market swept; then everything kept for the
\* archived one is dropped.
Swept ==
  /\ pc = "sweep"
  /\ Cleanup(gone)
  /\ pc' = "late" /\ job' = "none" /\ cur' = 0 /\ gone' = 0
  /\ UNCHANGED <<world, durable, current, closing, mptb, cached, todo, at>>

------------------------------------------------------------------------------
(* _settle_markets: the closing market, once its grace is over *)

PastGrace(m) == at >= Close(m) + G

\* Mutant of Settleable: the grace period is not waited for.
SettleableAtOnce == closing # 0 /\ mptb[closing] # 0 /\ CollectedBy(closing) # {}

Settleable ==
  closing # 0 /\ PastGrace(closing) /\ mptb[closing] # 0 /\ CollectedBy(closing) # {}

SettleLive ==
  /\ pc = "settle" /\ Settleable
  /\ Work("twap", "live", closing)
  /\ UNCHANGED <<world, durable, rotator, cached>>

------------------------------------------------------------------------------
(* The opening price: three places ask for it *)

\* _late_ptb_retry, the live half.
NeedsLatePtb == closing # 0 /\ PastGrace(closing) /\ mptb[closing] = 0

LateRetry ==
  /\ pc = "late" /\ NeedsLatePtb
  /\ Work("ask", "late", closing)
  /\ UNCHANGED <<world, durable, rotator, cached>>

\* Mutants of Stranded: the archived rows are left to the next restart; rows that an
\* instance stands for are not skipped.
StrandedNone == {}
StrandedLive == {m \in Markets : phaseRow[m] = "SETTLING" /\ PastGrace(m)}

\* Its other half: the SETTLING rows that no instance stands for any more.
Stranded == {m \in Markets \ Live : phaseRow[m] = "SETTLING" /\ PastGrace(m)}

ListStored ==
  /\ pc = "list" \/ (pc = "late" /\ ~ NeedsLatePtb)
  /\ pc' = (IF Stranded = {} THEN "settle" ELSE "stored") /\ todo' = Stranded
  /\ UNCHANGED <<world, durable, rotator, cached, job, cur, at, gone>>

StoredWithPtb ==
  /\ pc = "stored"
  /\ \E m \in todo : First(m) /\ ptbRow[m] # 0 /\ Visit(m, "stored")
  /\ UNCHANGED <<world, durable, rotator, cached>>

StoredWithout ==
  /\ pc = "stored"
  /\ \E m \in todo :
       /\ First(m) /\ ptbRow[m] = 0
       /\ pc' = "ask" /\ job' = "stored" /\ cur' = m /\ todo' = todo \ {m}
  /\ UNCHANGED <<world, durable, rotator, cached, at, gone>>

StoredDone ==
  /\ pc = "stored" /\ todo = {}
  /\ Work("settle", "none", 0)
  /\ UNCHANGED <<world, durable, rotator, cached>>

\* _attempt_ptb; its retry interval may not have passed.
AttemptPtb ==
  /\ pc = "attempt" \/ (pc = "settle" /\ ~ Settleable)
  /\ current # 0 /\ mptb[current] = 0
  /\ Work("ask", "attempt", current)
  /\ UNCHANGED <<world, durable, rotator, cached>>

NoAttempt ==
  /\ pc = "attempt" \/ (pc = "settle" /\ ~ Settleable)
  /\ Rest
  /\ UNCHANGED <<world, durable, rotator, cached>>

\* PreviousClosePtbCache.offer: the newest settled market is kept.
Offered(m) == IF cached < m THEN m ELSE cached

\* _cache_previous_close: the final price of the market before opens this one.  It may
\* be held already, not be published yet, or not be read.
CachePreviousClose ==
  \/ cached' = cached
  \/ MayHaveMetadata(cur - 1) /\ cached # cur /\ cached' = Offered(cur)

\* Mutant of Official: the cached price is taken for whatever window asks.
OfficialAny(m, c) == IF MayHaveMetadata(m) THEN m ELSE c

\* resolve_ptb: the metadata's own field, else the cached price that opens this window.
Official(m, c) == IF MayHaveMetadata(m) THEN m ELSE IF c = m THEN m ELSE 0

AfterPtb == CASE job = "late" -> Goto("list") [] job = "stored" -> Goto("stored") [] OTHER -> Rest

\* No answer, or an answer without an official price: the market stays as it is.
PtbMissing ==
  /\ pc = "ask"
  /\ CachePreviousClose
  /\ AfterPtb
  /\ UNCHANGED <<world, durable, rotator>>

\* save_ptb
FirstPtb(m, v) == IF ptbRow[m] = 0 THEN [ptbRow EXCEPT ![m] = v] ELSE ptbRow

\* MarketInstance.freeze_ptb: once per instance.
FrozenOn(m, v) == IF mptb[m] = 0 THEN [mptb EXCEPT ![m] = v] ELSE mptb

\* Frozen on the instance, if there is one, and on the row.  An archived market goes on
\* to its settlement.
PtbFrozen ==
  /\ pc = "ask"
  /\ CachePreviousClose
  /\ Official(cur, cached') # 0
  /\ ptbRow' = FirstPtb(cur, Official(cur, cached'))
  /\ mptb' = IF job = "stored" THEN mptb ELSE FrozenOn(cur, Official(cur, cached'))
  /\ IF job = "stored" /\ TwapOf(cur, job) # {} THEN Goto("twap") ELSE AfterPtb
  /\ UNCHANGED <<world, phaseRow, twapRow, rows, settlement, current, closing, kept, collected>>

------------------------------------------------------------------------------
Outside  == Tick \/ StepBack \/ (\E ts \in Emits, k \in 1 .. Deliveries : Hear(ts, k))
Recovery == SettleRecovered \/ Recovered
Rotate   == BeginPass \/ CloseCurrent \/ Create \/ Activate \/ Restore \/ Swept
AskPtb   == LateRetry \/ ListStored \/ StoredWithPtb \/ StoredWithout \/ StoredDone
            \/ AttemptPtb \/ NoAttempt \/ PtbMissing \/ PtbFrozen
Settle   == SettleLive \/ SaveTwap \/ SaveOutcome \/ SavePhase
Process  == Recovery \/ Rotate \/ AskPtb \/ Settle

Next == Outside \/ Crash \/ Start \/ Process
Spec == Init /\ [][Next]_vars

\* The coroutine goes on, PM2 restarts it, time passes wherever it waits; the venue does
\* write the metadata of a closed market, and not every read of it fails.
FairSpec ==
  /\ Spec
  /\ WF_vars(Process) /\ WF_vars(Start) /\ SF_vars(Tick)
  /\ \A m \in 1 .. M - 1 : SF_vars(cur = m /\ PtbFrozen)

------------------------------------------------------------------------------
(* Properties *)

TypeOK ==
  /\ now \in Times /\ backs \in 0 .. MaxFaults /\ crashes \in 0 .. MaxFaults
  /\ phaseRow \in [Markets -> {"none", "DISCOVERED", "ACTIVE", "SETTLING", "SETTLED"}]
  /\ ptbRow \in [Markets -> 0 .. M] /\ mptb \in [Markets -> 0 .. M] /\ cached \in 0 .. M
  /\ rows \subseteq Rows /\ collected \subseteq rows /\ kept \subseteq Markets
  /\ twapRow \in [Markets -> SUBSET Rows]
  /\ settlement \in [Markets -> [twap : SUBSET Rows, ptb : 0 .. M]]
  /\ current \in 0 .. M /\ closing \in 0 .. M /\ cur \in 0 .. M /\ gone \in 0 .. M
  /\ todo \subseteq Markets /\ at \in Times
  /\ job \in {"none", "recovered", "late", "stored", "attempt", "live"}
  /\ pc \in {"down", "recover", "rest", "advance", "activate", "sweep", "late", "list",
             "stored", "ask", "settle", "twap", "outcome", "phase", "attempt"}

\* A PTB is the official price of that very window, whoever asked for it and in
\* whatever order the venue's answers came, and the instance that trades holds what
\* the row holds, also after a restart (resolve_ptb, save_ptb, _restore).
PtbIsOfficial ==
  /\ \A m \in Markets : ptbRow[m] \in {0, m}
  /\ \A m \in Live : mptb[m] = ptbRow[m]

\* The two live instances are a trading one and a closed one, and the rows say so: what
\* settlement and recovery read off the rows is what the process is doing.
LiveMatchesRows ==
  /\ closing # 0 => closing # current /\ phaseRow[closing] = "SETTLING"
  /\ current # 0 => phaseRow[current] = "ACTIVE"

\* While the clock only goes forward, every live market has the collector that its
\* settlement will read (_cleanup_market drops by name).
LiveHasCollector == backs = 0 /\ pc # "sweep" => Live \subseteq kept

\* A market is SETTLED on what its row records, whichever path wrote it and wherever a
\* crash fell between the commits: the row's TWAP and PTB are the outcome's.
SettledAsRecorded ==
  backs = 0 =>
    \A m \in Markets :
      phaseRow[m] = "SETTLED" => settlement[m] = [twap |-> twapRow[m], ptb |-> ptbRow[m]]

\* An outcome is of a market that has been closed for its grace, or that a restart
\* found closed, and of samples of its own window.
SettledAfterClose ==
  backs = 0 =>
    \A m \in Markets :
      settlement[m] # NoOutcome =>
        /\ now >= Close(m) + (IF crashes = 0 THEN G ELSE 0)
        /\ \A r \in settlement[m].twap : r[2] \in Window(m)

\* A process that has run without interruption and settles a market it still holds, does
\* so on every sample of its window that it routed to it, late, early or out of order, each
\* as often as it was delivered: collector and observations agree (route, offer).
SettledOnWhatWasHeard ==
  backs = 0 /\ crashes = 0 /\ job = "live" /\ pc = "phase" =>
    settlement[cur].twap = {r \in rows : r[1] = cur /\ r[2] \in Window(cur)}

\* The markets as their rows show them: one that has only been created is not open yet, and
\* a settled one ended on what its row says.
Shown == [none |-> "unknown", DISCOVERED |-> "unknown", ACTIVE |-> "open",
          SETTLING |-> "closed", SETTLED |-> "settled"]
Lives == [m \in Markets |-> Shown[phaseRow[m]]]
Ended == [m \in Markets |-> IF phaseRow[m] = "SETTLED"
                            THEN [twap |-> twapRow[m], ptb |-> ptbRow[m]] ELSE NoOutcome]

Life == INSTANCE MarketLife WITH
  Outcomes <- [twap : SUBSET Rows, ptb : 0 .. M], steady <- (backs = 0),
  life <- Lives, decided <- settlement, booked <- Ended

\* The markets live as MarketLife says: opened in order, closed, decided once and settled
\* on that, through every pass, retry and restart (advance, settle_market, recovery).
ImplementsLife == Life!Spec

\* A closed market with a sample is settled in the end, live, archived or over restarts:
\* unless the clock is set back into it and it is open again, or a restart lost what its
\* collector had and it waits, as the closing market, for the next boundary to archive it.
ClosedSettles ==
  \A m \in 1 .. M - 1 :
    phaseRow[m] = "SETTLING" /\ (\E r \in rows : r[2] \in Window(m))
      ~> \/ phaseRow[m] \in {"SETTLED", "ACTIVE"}
         \/ closing = m /\ CollectedBy(m) = {}
==============================================================================
