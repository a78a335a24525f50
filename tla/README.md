# ARC in TLA+

ARC is a trading bot for five-minute Up/Down markets: one Python process, one
coroutine that does all the trading, one SQLite file, one venue that it talks to
through a paper adapter (V1) or a live one (V2).  This directory models the parts of
it that place, move, cancel and account for orders, the switches and decisions that
let an order go out, the rotation and settlement of the markets, the price feed, the
configuration, and the supervisor that starts and stops all of it.  TLC checks them
on small instances; TLAPS proves the central safety properties for every instance.

All paths below are relative to `src/arc/`.

## 1. The system

### Who runs, and who interrupts whom

`ArcRuntime._main_loop` (`runtime/engine.py`) is a single coroutine.  A pass is:
rotate markets, sweep what closed, settle, refresh books, gate on feed health, then
for each live market *decide* (MAJORITY engine), *submit*, *poll fills*, *reprice*.
Everything else (the feed task, HTTP handlers, the clock, the venue) can act only
where that coroutine awaits.  The process can die anywhere; what SQLite committed
before that is all that is left, and each `store.*` call is a commit of its own.
Nothing in the loop catches an exception of a venue call made by the fill poll, the
book reads or the repricer's book read: such an exception ends the process.

The hard behaviours follow from this: work that spans an await (a cancel, a
placement, two book reads), work that spans two commits (a fill, a flag and its
reason, an intent and its order), a venue that acts on a request whose answer was
lost, and a restart that has to work from rows written by a process that died half
way.

### Inventory

| component | state it keeps | operations | interacts with | what is hard; what makes it correct |
|---|---|---|---|---|
| Order state machine `execution/orders.py` | the order row | `new_order`, `transition`, `apply_fill`, `next_generation_id` | everything that writes a row | rows move along one table only; a final row never changes; a fill clamps |
| Submitter `execution/submit.py`, `retry.py` | none of its own | `plan` (split), `submit`, `_place_one` | store, executor | write before act; a request of unknown outcome is never repeated; a replay after a restart skips rows that exist |
| Fill engine `execution/fill_engine.py` | none (the `fills` table is the arbiter) | `poll`, `ingest` | executor, store | at-least-once history, exactly-once counting; two commits per fill |
| Repricer `execution/reprice.py` | `_passes` per chain | `maybe_reprice`, `target` | executor, store | cancel, then a successor for the remainder; fills race the cancel; the chain is bounded |
| Sweeper `execution/sweep.py` | none | `sweep`, `_cancel_one` | executor, store | nothing rests once the market closed; an unanswered cancel stays unknown |
| Reconciler, recovery `execution/reconcile.py`, `runtime/recovery.py` | a report | `reconcile`, `_recover_*` | executor, store, trading switches | every unknown order resolved before a new one goes out |
| Paper and live executors `execution/v1_paper.py`, `v2_live.py` | the paper book; token cache | `place`, `cancel`, `open_orders`, `fills`, `best_price` | venue | V2 knows an order only by the venue id it saved |
| Main loop, rotation `runtime/engine.py`, `market/rotation.py` | `current`, `closing`, phases | `advance`, `_open`, `_close`, `_archive`, `settled` | all of the above | at most two live markets; a closed one is swept, settled once, archived |
| Trading switches `runtime/state.py`, `_gate_on_health`, `market/watchdog.py`, `market/spec_check.py` | `trading_enabled`, its reason, the spec status (persisted); armed, paused, feed state | `load`, `enable/disable_trading`, `record_spec_status`, `arm/disarm`, `pause/resume`, `tick`, `evaluate` | operator, feed task, recovery, risk engine | the memory and the record agree after any crash; a disable latches unless it is the feed's |
| MAJORITY engine `majority/` | per window: state, side, trigger latch, BTC reference; `_submitted` | `open_market`, `tick`, `drop_market`, `restore_from_intents` | executor (book reads), risk engine, submitter | decided and traded once per window, on one side, across restarts; never on stale data |
| Risk engine `risk/engine.py`, `risk/limits.py` | none | 19 ordered gates; `gate_readiness` beside them | a health snapshot taken once per pass | the snapshot ages while a pass awaits; builder, gates, split and readiness must agree on what is tradable |
| Settlement, PTB `market/settlement_feed.py`, `market/ptb.py`, `runtime/ledger.py` | collector, official opening price | `offer`, `freeze_ptb_for`, `_write_settlement` | rotation, store | a market settles once, on the observations of its own window |
| Supervisor `runtime/supervisor.py`, `api/routes.py`, `cli.py` | one task, one runtime, a lock, the connections | `start`, `stop`, `switch`, ARM, START TRADING, settings edits | HTTP handlers, the runtime's task | one runtime at a time, also while a cancelled task winds up; nothing leaks; everybody is answered |
| Feeds `market/feed.py`, `chainlink.py`, `providers.py`, `validation.py`, `clock.py` | the socket, a keepalive task, the last accepted price, drift | `messages`, `validate`, `observe` | relay, watchdog, risk engine | reconnects for ever, trusts no sample that is stale, absurd or unreadable |
| Configuration `config.py`, `majority/config.py` | table `settings`, `.env`, profiles | builders, `load_settings`, `as_storage_dict` | routes, CLI, risk engine | what was validated is what the next process runs, and can trade |
| Wallet `execution/wallet.py` | status and balance in the engine | `snapshot` | loop, dashboard | two writers of one status |
| Token bucket `execution/ratelimit.py` | tokens, last refill | `take`, `delay_until_token` | live executor | a wait that lets exactly the next request through |
| Discovery, notifications, reports, recorder, event hub | caches, queues | - | - | I/O, parsing and observation |

`PROJECT.json` lists every component with its status, and the hazards of the code at
the lines where they bite.

## 2. Modules

```
OrderStates ── LimitOrders ─┬─ MCLimitOrders ──┐              SlotLedger  (abstract)
                            └─ RepriceHistory ─┴─ MCReprice
                                     └─ LimitOrdersProofs ── SlotLedgerProofs
TradingGate ────── TradingGateProofs
MajorityWindow ─┬─ MCMajority                                 OneShot     (abstract)
                └─ MajorityWindowProofs
MarketRotation ─── MarketRotationProofs                       MarketLife  (abstract)
Supervisor ─────── SupervisorProofs
Samples ── PriceFeed ─┬─ MCPriceFeed
                      └─ PriceFeedProofs
Configs ── RiskGates ── Settings ─┬─ MCSettings
                                  └─ SettingsProofs
```

What one module decides another takes as given: that a price sample is accepted
(`PriceFeed`) is `FeedMessage` in `TradingGate` and `Hear` in `MarketRotation`; that a
pass may decide (`TradingGate`) is what lets `MajorityWindow` act; the order it places
is a ladder of `LimitOrders`; the runtime all of these live in is one of the builds of
`Supervisor`; and the configuration it runs with is the `running` of `Settings`.

Definitions keep the names of the source.  An operator whose comment begins
`Mutant of X` is X with a plausible mistake in it; no specification uses it.  Each
checked property is broken by at least one of them (`"mutants"` in `PROJECT.json`).

### LimitOrders: the order engine of one market

State and code:

| variables | in the code |
|---|---|
| `orders`, `recorded`, `marketRow` | tables `orders`, `fills`, `markets.phase`: what survives |
| `accepted`, `resting`, `executed`, `latePlaces`, `lateCancels`, `closed` | the venue and the wall clock; `late*` are requests whose answer was lost, or was an error status, and that may still take effect |
| `pc`, `cur`, `call`, `todo` | where the coroutine stands, the venue call in hand and its answer, the rest of the loop it is in |
| `phase`, `passes` | `MarketInstance.phase`, `Repricer._passes` |

An order id is `<<slot, generation>>`: a slot is one reprice chain (market, window,
ladder index), generations are its successors.  Quantities are counted in unit
fills.  A step ends where the code awaits the venue or commits, because the
venue, the clock and a crash can be seen to act exactly there.

Actions follow the code's own order.  *Restart*: `Start`, `ReconcileListed` or
`ReconcileFailed`, `Resolve`, `ExpirePending`, `SettleRecovered`.  *Top of a pass*:
`Open`, `Close` (takes the sweep's list), `Advance`, `Archive`.  *Sweep*: `SweepNext`,
`SweepAnswered`.  *Submission*: `SubmitLadder`, `Replayed` (the row exists),
`SavePending`, `PlaceAnswered`.  *Fills*: `Poll`, `PollRaises`, `RecordFill` (first
commit), `CountFill` (second), `FillRefused` (`apply_fill` raises on a final row and
the process ends).  *Reprice*: `LeaveAlone`, `KeepPrice`, `BeginMove`,
`MoveAbandoned`, `MoveCancelled`, `SaveSuccessor`.  The venue answers with
`PlaceAccepted`, `PlaceRefused`, `PlaceErrored`, `PlaceLost`, the same four of a cancel, and
`CancelThrottled`, and acts alone with `VenueFill`,
`LatePlacement`, `LateCancel`.

Abstractions: prices are not kept (the repricer's target and the paper book are free
choices, so the repricer may find a better price in any pass); the immediate retries
of one placement are one step with one outcome; a fill of an order the store does
not know touches no row and is left out.  The live adapter
reports every error status that is no rate limit as a refusal (`v2_live.py:106-111`), and so does the
model: after a cancel that was "refused" the order may rest on, or the venue may still cancel it
(`CancelRefused`, `CancelErrored`); after a placement that was "refused" it may still be accepted
(`PlaceErrored`).  Only the paper adapter refuses a cancel for the one reason that it does not
hold the order.  `SubmitLadder` may run again after a restart, because the
submitter is written to be replayed and `tests/test_restart_recovery.py` does that.
`TokensKnown` says whether the token cache answers while recovery runs.  In the
shipped wiring it is cold then (the supervisor builds a new executor, and recovery
comes before the first market is opened), so the venue's listing raises; the tests of
recovery exercise the other case.  Both are checked.

`RepriceHistory` adds two history variables: the passes each order has rested in since the
process has known it, beside the count the repricer keeps per chain, and the orders whose last
request the venue answered with a refusal.

### SlotLedger: what the order engine promises

Units booked and units still working, per slot; an order always works exactly what is
not booked.  With the paper adapter every behaviour of `LimitOrders` is a behaviour of
`SlotLedger` (`ImplementsLedger`), with the fills table as `booked` (`Booked`) and what
resting or unpolled orders may still add to it as `working` (`Working`).  With the live
adapter it is not, finding `v_exposure` below; there `ExcessIsUncounted` says by how much
a slot can pass its approval: by the fills that the rows of its replaced orders had not
counted, and by nothing else.

A sum over the orders of a slot is the cardinality of a set of units (`Total`), not a
recursion, so that the lemmas on finite sets speak of it.

### TradingGate: the switches

`dbEnabled`, `dbReason`, `dbSpec` are the rows of `runtime_state`; `enabled`,
`reason`, `spec` are what `RuntimeState` holds; `armed` and `paused` the operator's
buttons; `blocked` the watchdog's verdict; `samples` and `verdict` the running
`SpecCheckResult`; `status` and `available` the wallet as the gates read it; `snap` the
`RuntimeHealth` of a pass; `pend` the second half of a `_persist`.
`Persist`/`Persisted` are the two commits of `_persist`, and memory moves after the
second.  `FeedMessage` is the spec check's `offer` on a message of the feed and, if it is
accepted, the watchdog's tick; `RecordSpecStatus`/`ApplySpec` are `SpecChecker.apply` at
the end of a bounded run.  `GateOnHealth` is the loop's own wallet reading, the watchdog's
evaluation and `_gate_on_health`; `WalletPanel` the dashboard's reading, which moves the
status alone.  `Drive` is the check `_drive_execution` makes per market on the *current*
gates, `Submit` the decision the risk engine makes on the *snapshot*.  `Down` is a
crash, an exception or STOP: all three lose the memory and keep the rows, and the next
runtime starts disarmed.  What a market's decision is about is left out, and so are the
risk gates that read the trade; a gate that is left out may refuse, so `Submit` is never
forced.

### MajorityWindow: the decision engine over the life of a market

`intent` and `order` are on disk (table `intents`, and the first row of the ladder);
`st`, `side`, `latched`, `ref`, `submitted` are `MajorityMarketState` and the engine's
`_submitted`.  A pass (`BeginPass`) reads the clock once and visits the windows in
order: `SkipWindow`, or `ReadTrigger`-`TriggerUp`-`TriggerDown` and `Buffer` (the entry
condition), or, on a later pass than the one that fired, `ReadBook`-`ReadUp`-`ReadDown`
(the fresh read, which locks a side or ends in NO_TRADE) and straight on to `Refuse`
or `Submit`-`SaveRow`-`Placed`.  The two bids of a read are two awaited calls; the book
may move between them (with the paper adapter it does not, which is one of the
behaviours of the model).  `Open` is `open_market` with `restore_from_intents`.

Free choices: whether a BTC level is crossed or the TWAP distance reached, whether the
BTC price was there to be captured, and every denial except the phase (gate 3) and
the duplicate checks (gate 7 and the direction gate).  One `phase` check stands for
both the gate's and the submitter's, since nothing is awaited between them.

`OneShot` is the promise: a window is decided at most once, traded at most once, on
the side decided.

### MarketRotation: the life of the markets

A process with the paper adapter over a grid of markets (settlement is written by that
adapter's process alone).

| variables | in the code |
|---|---|
| `phaseRow`, `ptbRow`, `twapRow`, `rows`, `settlement` | columns of `markets`, tables `observations` and `settlements` |
| `current`, `closing`, `mptb` | `MarketRotator`, and the PTB its instances hold |
| `kept`, `collected` | `ArcRuntime._settlement`: which markets have a collector, and what the collectors took |
| `cached` | `PreviousClosePtbCache`: the window its price opens |
| `now`, `backs`, `crashes` | the wall clock; how often it was set back, how often the process died |
| `pc`, `job`, `cur`, `todo`, `at`, `gone` | the coroutine: where, on whose behalf, on which market, the rows still to be visited, the pass's `now`, the market it archived |

A pass is `BeginPass`, if the window has changed `CloseCurrent` and `Create`-`Activate` (a new
row, two commits) or `Restore` (a row that exists), `Swept` (which ends in
`_cleanup_market`); then `_late_ptb_retry` (`LateRetry` for the closing market;
`ListStored`, `StoredWithPtb`, `StoredWithout`, `StoredDone` for rows without an
instance), `_settle_markets` (`SettleLive`), `_attempt_ptb` (`AttemptPtb`,
`NoAttempt`).  The three requests for a PTB end alike, in `PtbFrozen` or
`PtbMissing`, and the three ways to an outcome share its commits `SaveTwap`,
`SaveOutcome`, `SavePhase`.  `Start`, `SettleRecovered` and `Recovered` are the restart.
`Tick`, `StepBack` and `Hear` act where the coroutine awaits.

No price is kept: a TWAP is the *set of sample rows* it is the mean of, and a PTB the
*window* whose opening it is, so that "the wrong samples" and "a neighbour's price" can be
told from the right ones.  A row is a market, the instant of a sample and which *delivery* of the
sample it was: the validator asks only that a sample is neither stale nor ahead (`Valid`), so one may
come late, or again, and is stored and counted again (`Hear`).  Every market is taken to hold a
position.  Left out: the
accumulator, the archived flag and the DEAD phase, which nothing sets.

### MarketLife: what rotation and settlement promise

A market opens, after none that follows it, closes, gets one outcome and is settled on it.
`MarketRotation` implements it (`ImplementsLife`): `life` is read off `phaseRow` (a row that has
only been created is not open yet), `decided` is the table `settlements`, `booked` the TWAP and the
PTB on a SETTLED row, `steady` that the clock was never set back.  After that a market may be opened
again and booked on something else, which is what the code does; its outcome still stands.

### Supervisor: the control plane

| variables | in the code |
|---|---|
| `boot`, `stored` | the configuration the process was started with; table `settings` |
| `mode`, `cur`, `task`, `lock`, `held`, `built` | `RuntimeSupervisor`: mode, `runtime`, `_task`, `_lock`, whose connections `_client`, `_book_client` and `_discovery` are, how many runtimes were constructed |
| `life`, `rmode`, `rcfg`, `armed`, `ready`, `cancelled` | per runtime: where `run()` is, what it was built with, its two gates, whether its task was cancelled |
| `open` | the runtimes with a connection open |
| `kind`, `pc`, `ref`, `cfg`, `want` | per HTTP handler: which, where, the runtime it looked up, the configuration and mode it carries |

A handler takes one step from await to await: `BeginStart`, `BeginStop`, `BeginSave`,
`BeginTrade`, the body (`Save`, `TradeBody`, `Rejected`), then `start()` (`TakeStart`,
`Closed`, `Built` or `BuildFails`, `Started`) and `stop()` (`TakeStop`, `Joined` or
`JoinRaises`, `TornDown`).  START TRADING is the composition the code makes of them: save,
start, or stop and start, and arm.  `Recovered`, `RecoverFails`, `LeavesLoop`,
`CancelLands` and `Finish` are the life of `run()`, `Reboot` the process manager's.  Configurations
are numbers: their content is the matter of `Settings`.

### Samples and PriceFeed: from the socket to the gates

`Samples` is the pure part: a tick of the relay and a report of Data Streams, field by
field as the parsers branch on them, to a price or none; and which configurations of a
provider are built at all.  `PriceFeed` runs five parties in any order:

- the feed task (`reader`, `sock`): `Connect`, `ConnectFails`, `Frame`, `Notice`, and
  `WaitOver`, which is the backoff with the `finally` clause after it;
- the keepalive (`keeper`), which raises when it sends on a closed socket;
- the relay and the market (`Outage`, `RelayCloses`, `Move`), and the host's clock
  (`ClockStep`): wall time steps, monotonic time does not;
- the validator, watchdog and drift monitor (`last`, `age`, `status`, `drift`), which move
  with an accepted sample and not with a refused one;
- the main loop (`Pass`), which evaluates and asks gates 14 and 15.

Seconds are kept for clock offsets and delays, ticks for silence.  `heard`, `measured` and
`drops` are history variables.

### Configs, RiskGates and Settings: what may run and what may trade

`Configs` holds both builders with every rule they refuse by, what they build
(`Trading`, `Majority`), what is written back (`AsStorage`) and what `load_settings` makes of
the table and `.env` (`Loaded`).  A sheet of settings is `[flat, over]`: plain keys, and the
`majority_w_<window>_<field>` overrides.  A text is the value it parses to, blank or garbage.
`RiskGates` is the stateless half of a decision: the price, context and size of a window's
order, the nineteen gates (`Evaluate` is the first that refuses), `split_size`, the moves of a
repricer (`Target`, `Rests`) and the dashboard's `gate_readiness` (`Blocked`).  `Settings` is
the state machine over them: `Boot`, `Down`, `Save`, `SaveConfig`, `LoadConfig`, `EditEnv`; a
process keeps the configuration it booted with, so an edit takes effect at the next boot.

## 3. What is checked

Distinct states are for the configurations as they stand.  `rotation`, `supervisor` and
`feed` take one to two minutes each, every other run less than one.

| run | instance | properties | states |
|---|---|---|---|
| `paper_engine` | 2 slots of 2 units, 2 generations, paper, fair | `ExposureWithinApproval`, `SweptBeforeSettlement`, `NeverOverstated`, `AccountCovers`, `ImplementsLedger`, `CloseRetractsAll` | 38,824 |
| `live_engine` | 2 interchangeable slots of 1 unit, 2 generations, 1 pass before a move, live, listing answers | `OneRestingPerSlot`, `AcceptedOnce` | 313,393 |
| `live_chain` | 1 slot of 2 units, 3 generations, 2 passes before a move, live, cold token cache, fair | `ExcessIsUncounted`, `ClosedUnlessRefused`, `KeepsTurning`, `EveryPriceTried` | 241,227 |
| `trading_gate` | 2 live markets, live account, RTDS, fair | `MemoryMatchesRecord`, `NoOrderOnUnverifiedSpec`, `LatchedReason`, `StopTakesHold`, `FeedRecovers` | 190,794 |
| `majority` | a direct and a BTC-triggered window, bids in 3 levels, fair | `LockMatchesIntent`, `NoStaleTrade`, `TradesWhileActive`, `ImplementsOneShot`, `TriggeredResolves` | 57,276 |
| `rotation` | 3 markets of 2 ticks, settlement window and grace of 1, two deliveries of samples of instants 2 and 4, up to a tick late or early, 1 fault, fair | `PtbIsOfficial`, `LiveMatchesRows`, `LiveHasCollector`, `SettledAfterClose`, `SettledOnWhatWasHeard`, `ImplementsLife`, `ClosedSettles` | 310,521 |
| `supervisor` | 2 handlers at a time, 3 requests or process starts, both modes, fair | `OnlyCurrentRuns`, `StoppingNeverTrades`, `NoLeak`, `Answered` | 438,458 |
| `feed` | both providers, 3 prices, 4 clock offsets, 3 delays, 2 dropped sockets, fair | `TradesOnFreshFeed`, `DriftSeen`, `FeedComesBack` | 229,296 |
| `settings` | first `.env`s that break one rule of the builders each, or none, 2 old tables, 8 edits, 3 edits per behaviour | `AcceptedRuns`, `ConfiguredWindowsTrade`, `BlockedRefuses`, `MovesStayApproved` | 103,280 |

What they show:

- **Orders.** Whatever is lost, late or cut short, the venue holds at most one resting
  order of a slot and accepts no id twice; a slot passes its approved size by no more than
  the fills that replaced orders' rows had not counted; an order whose
  row is filled, cancelled or rejected is off the book, unless the venue answered its cancel or its
  placement with a refusal; the books never claim more than was executed.  With the paper
  adapter no slot is ever exposed to more than its approved size,
  after the sweep nothing rests, and the paper account never shows as available what an
  order may still cost, in no step of a fill, a move, a restart or a settlement.
- **Switches.** The flags in force are those a restart would load; no order goes out
  while the spec status on record is not VERIFIED (although recording a FAILED status
  and clearing the flag are separate commits, a crash between them is caught, because gate 1 asks
  for both); only a verified spec check lifts a disable that is not the feed's; STOP and PAUSE stop
  the next decision; a fresh feed lifts its own disable.
- **Decisions.** Each window is decided and traded once, on one side, across restarts;
  nothing is decided on a trigger that has grown old or for a market that has closed;
  a fired window ends in an order or NO_TRADE.
- **Markets.** An opening price is the official one of its own window, on the row and on
  the instance, whoever asked and in whatever order the answers came; the live instances
  are what their rows say, also when a restart or a clock set back reopens a market.
  No outcome is ever replaced.  While the clock goes forward: every live market has a
  collector; markets open in order and are not opened again; one is SETTLED once, on the
  TWAP and PTB its row records, wherever a crash fell between the commits, not before its
  grace is over and on samples of its own window; without a crash, on exactly
  the samples routed to it, as often as they were delivered and in whatever order.  A closed
  market with a sample is settled in the end.
- **Control plane.** Never two runtimes at once, a cancelled one that is winding up
  included; nothing may trade from the moment a stop took hold, even if ARM is pressed
  meanwhile; whatever fails, every open connection is still somebody's to close and every
  request is answered.
- **Feed.** No pass trades unless a sample was *accepted* within the critical age, however
  many frames, refused samples and reconnects arrive; a clock known to be ahead by the
  critical drift stops trading at once, one that is behind with the first prompt sample; the
  feed comes back by itself while its reference is in reach.
- **Configuration.** What the dashboard accepted last is what the next process runs,
  whatever became of `.env`; every window that a process runs has a bid at which an order
  passes the nineteen gates, the direction gate and the split; what the dashboard shows as
  blocked refuses; a moved order stays at prices its window approved.

### Bounds, and why they are enough

Most counters have a limit of their own: fills are bounded by sizes, generations by
`MaxRetries`, passes by the value after which the code no longer looks at them (`NextPass`
saturates at `PreAttempts + 1`), silence at the critical age (`Older`), spec samples at
`SampleTarget`.  Bounds that cut behaviours: `MaxFaults` (crashes and backward steps of
the clock), `M`, `Emits` and `Deliveries` in `rotation`; `MaxRequests` and `MaxBuild` in `supervisor`;
`MaxDrops` in `feed`; `MaxEdits` in `settings`.  Restarts are not bounded in the other modules.

- *Two slots* let orders of different chains interleave in one sweep, poll or reprice
  loop; the code relates no three of them.  *Two units* give a partial fill.  *Three
  generations* make a chain with a middle.  `live_chain` has one slot with everything that
  can happen to it; `live_engine` affords a second slot with one unit and one retry, and
  there the two are interchangeable (`SYMMETRY`, used in this run only, which checks no
  liveness).  What both check of safety is proved for any number.
- *Two live markets* is `MAX_LIVE_MARKETS` itself.
- *Two windows* let one decide while the other waits, in both orders; the two entry
  modes that are instantiated cover all branches of `Buffer` (TWAP support differs from
  BTC in the reference alone, and its outcome is the same free choice).  *Three bid
  levels* distinguish none, below and at the trigger, and all orders of the two sides.
- *Three markets* are a closed, a closing and an open one at once, with the second both
  closing and current in its life.  A tick is half a market; samples at 2 and 4 are those of
  two boundaries, which go to two markets, and the last of a settlement window each.  A sample may be
  one tick old or one ahead (`MaxAge`, `MaxFuture`): it arrives before or after the boundary and
  the later one may overtake the earlier.  *Two deliveries* are two samples or one that comes twice.
  *One fault* lets a death or a step of the clock fall anywhere.  All seven properties were checked
  once with a sample inside the first window too (`Emits = {1, 2, 4}`, so that two of one window
  overtake each other; 538,202 states, four minutes) and the safety properties with three deliveries
  (1,113,982 states).  The proofs hold for any number.
- *Two handlers, three requests*: the lock orders handlers, and what two of them can do to each
  other needs a start of the process, a stop and a start.  The number of a configuration tells
  nothing to these four properties, so one is enough (`MaxCfg = 1`).
- *Three prices* need two moves to jump further than a sample may.  The *offsets* are right,
  ahead and behind by more than a signature allows, and behind by what a delay of 2 hides; the
  *delays* prompt, late and too old.  *Two drops* let a counter be wrong by one in each
  direction.
- *A dollar of 20 units, ticks of 2, sizes in half shares*: off-ladder prices and broken shares
  exist.  The first `.env`s break one rule of the builders each.  *Three edits* save, change and
  load a profile.
- `CHECK_DEADLOCK FALSE` in the runs of `MajorityWindow`, where a market whose interval
  has passed and whose process is gone has nothing left to do, and of `MarketRotation`,
  where the grid ends with its last market.

### Fairness

`LimitOrders`: weak fairness of `Recovery` and of `Loop`, the next step of the one
coroutine, which includes the venue's answer to a call it awaits (a client timeout turns
silence into `lost`).  `TradingGate` and `MajorityWindow`: weak fairness of the steps
of a pass.  `MarketRotation`: weak fairness of `Process` and of `Start` (the process
manager restarts it), strong fairness of `Tick`, because time passes only in the states in
which the model's coroutine waits, and of `PtbFrozen` for each market but the last: the
venue does publish the metadata of a closed market, and not every read of it fails.
`Supervisor`: weak fairness of each handler and of the end of each task that was cancelled
or is in its `finally`; the lock is first come first served in the code, and finitely many requests
make weak fairness enough.  `PriceFeed`: weak fairness of the feed task's steps, of a pass, and
of `GoodFrame`: an open stream carries a prompt sample of the market now and then.
An asyncio task that is ready is run; no more than that is used.  Otherwise the
venue's own actions, the clock, the book, the operator, the relay and crashes are never
fair, so each liveness property either holds without them or names in its premise what
it needs (`FeedRecovers`: the feed stays fresh; `TriggeredResolves`: the gates stay
open; `FeedComesBack`: the relay stays reachable, the clock right, the market within reach),
and each leaves room for the process to die.  `ClosedSettles` excepts a market the
clock reopened, and one whose collector a restart lost while it was closing: it is settled only
after the next boundary has archived it.

### Disagreements between the code and what it says

Each is a run that TLC ends with a counterexample; `PROJECT.json` quotes the lines.

| run | what happens |
|---|---|
| `v_exposure` | Live: a fill between the poll and the cancel of a reprice is not in the local row, and the successor adds it back: more than the approved size is held and resting. |
| `v_opposing` | Two windows of a market buy opposite sides: gate 9 reads lists that nothing fills. |
| `v_feed` | The relay closes the socket, the keepalive's ping raises during the backoff, and the `finally` that awaits the keepalive lets that exception out of the feed task, which nobody restarts: the watchdog blocks trading until an operator restarts the runtime. |

Smaller ones met on the way, without a run.

*Orders and recovery.*  The adapter calls every error status that is no rate limit a refusal, 401, 403
and 5xx included (`v2_live.py:106-111`, 120-121: "a definite answer"), and the sweep takes a refusal
for an order that "is already gone.  Recording it as cancelled is accurate" (`sweep.py:123-129`); the
reasons of `not_canceled` are not looked at.  After such an answer the row is CANCELLED while the order
rests into settlement: with the live adapter TLC violates `CancelledMeansGone`, one slot of one unit
being enough.  A placement answered like that is booked as REJECTED, and the venue may have accepted
it.  `ClosedUnlessRefused`, which `live_chain` checks, says that nothing else leaves an order behind a
closed row.  The process dies between the venue's acceptance and the save of
SUBMITTED: recovery closes the row out as never submitted while the order rests
(`recovery.py:217-219`).  It dies between the fill row and the order row: the fill's id is known from
then on and the order never counts it (`fill_engine.py:8-10`).  `markets_needing_sweep` is
described as used after recovery (`recovery.py:261-264`) and has no caller, so the live rows
of a market that closed while the process was down are swept by nobody.

*Switches.*  Recovery that leaves orders unresolved while trading is already off for the feed
records no reason of its own (`recovery.py:68-70`, `runtime/engine.py:1785`): the feed recovers
and trading is enabled with the orders still unresolved.  `state.py:197-199` says there is no moment in which a FAILED verification is
recorded and the flag has not caught up, and there is one, between two commits; a crash
between the two commits of a *disable* leaves `enabled = false` with the old, empty
reason, which the health gate then lifts (this is why `LatchedReason` speaks of the recorded
reason).  After a failed wallet reading of the loop (DISCONNECTED, no balance) a frame of the
dashboard can set the status to CONNECTED; until the loop's next reading an order passes
gate 17 on the frame's status and gate 19 because no figure is no opinion
(`runtime/engine.py:872-895`, `risk/engine.py:688-692`).  A tick translated from Data Streams
carries no window field, so the spec check always fails on it and a fresh database with
`TWAP_PROVIDER=CHAINLINK` never trades (proved: `DataStreamsNeverTrades`), though
`providers.py:1-7` says swapping changes nothing; the check's verdict is the last message's;
`record_settled_market` has no caller; the status is applied only when a bounded run ends.

*Decisions.*  NO_TRADE and the BTC reference are in memory only, so a restart evaluates
the window again from a new reference; the two bids of a fresh read are two awaited calls,
so the side that is locked need not have been the majority at any one moment
(`trigger.py:83` says "read at one instant").

*Rotation.*  A process that dies in one window and comes up in the next leaves the old row
ACTIVE, and no path settles it (`runtime/engine.py:1599-1601`).  `observations_between` does not
ask for a market, so a boundary sample, stored once for each of two markets, counts twice
in a rebuilt TWAP (`engine.py:1586-1589`: "the same samples, the same arithmetic, the same
answer"); a process that restarts inside the settlement window settles live on the samples
after the restart only, though the earlier ones are on disk; a sample the relay delivers twice is
stored and counted twice (`validation.py:307-339`, `settlement_feed.py:144-155`: neither order nor
duplicates are looked at, and `observations` has no key that would refuse one); when the clock steps back just
after a boundary, the market reopened is the one being archived, and `_cleanup_market` drops
its new collector, token ids and MAJORITY state by name (`LiveHasCollector` speaks of a
clock that goes forward for this reason); the accumulator is saved at close and archive
only, so the signal TWAP of a market restarted inside its window is not that of an
uninterrupted one (`rotation.py:180-181` says it is).

*Control plane.*  A configuration sent with START TRADING is saved and the runtime
rebuilt, but from the settings the *process* booted with: it runs after a restart of the
process only.  Its handler does not look at the armed lock that `POST /settings` holds, and that one
looks before it awaits the body.

*Feed.*  There is one `ObservationValidator` per runtime, never reset on a reconnect
(`validation.py:279-283` says per connection): after an outage in which the market moved by more
than 5 %, or a bad first print, every sample is refused until a restart (this is the third
premise of `FeedComesBack`).  `FeedWatchdog.mark_disconnected` and `runtime/reconnect.py` have
no caller.  `ChainlinkFeed.connected` stays true while it reconnects, and the disconnect figure is
refreshed only when a frame arrives.  An error of SQLite in `save_observation` ends the feed task;
a dead feed task is noticed when the runtime stops.  A delay adds to the offset, so a late
sample hides a slow clock (`DriftSeen` asks for a prompt one).  A report with more than 18
decimals is passed on unscaled; its feed id is not compared.

*Configuration.*  Loading a profile leaves keys and overrides it does not hold.  Editing a shared
key after seeding has no effect, since every window then has an override of its own.  A value
accepted by the dashboard is validated against the *running* tick and minimum, and without what
`.env` will fill in, so on an upgraded table or with a profile of another minimum the next boot
may refuse it (`routes.py:421-422`).  A MAJORITY window list in `.env` that does not parse refuses
the boot though the table wins.  `env_majority_config_values` says the older window key takes
precedence; the code prefers the list.  An off-ladder target is accepted and refused by the direction
gate; a share count that is no whole number yields an empty plan after the intent is spent
(`runtime/engine.py:612-618`); `Reachable` excepts both.  A MAJORITY band has no upper limit below 1,
and its windows are not checked against the cancel lead.  `_limits_from_window` sets the loss limits
to 0 and the position limit to 999, so the configured ones never bind.  `gate_readiness` shows the loss
limits as blocked when they are off, shows trading as allowed while it is paused or the spec is
unverified, and an OFF strategy as blocked by a gate that never refuses.

*Reporting.*  Nothing writes the table `windows` any more, so the ledger views and the count of working
orders are empty for MAJORITY (`models.py:335-342`, `ledger.py:18`); `ledger_totals` counts a
market's profit once per window; the wallet panel nets profits where the loss gate sums losses.
`TokenBucket.acquire` is called several times in a pass with one, by then stale, instant: the refill
time is set back and the same interval is refilled twice, so that more than the sustained rate may
go out.

## 4. What is proved

All theorems hold for every value of the constants the named `ASSUME`s admit (at least one unit,
natural bounds, any set of slots; at least one live market; any number of windows, any
modes, any number of bid levels; any grid of markets, grace, feed and number of faults; any set
of handlers and number of requests; any prices, messages, limits, offsets and delays; any
`.env`s, edits and old tables).  No other assumption is made, except where a theorem
states it.

**LimitOrdersProofs.** `Soundness` proves `Spec => []IInv`.  `OneRestingPerSlot` is not
inductive: that a successor may be placed depends on its predecessor being gone *and on
no request for it being on the wire*, which depends on what the answer in hand was
about.  `IInv` says so in named parts: `RowsSound` (what a row says of its own order),
`WireSound` (a request on the wire has not been accepted), `ChainSound` (every order
before another of its chain is cancelled and can never rest again), `CallSound` (what
the call in hand is about), `TodoSound` (what the rows still to be visited are),
`PendingSound` (a PENDING row is the one being placed, or waits for recovery).  The
proof goes part by part (`TypeStep`, `BooksStep`, `CallStep`, `TodoStep`,
`PendingStep`), one step per action.  From it: `TypeCorrect`, `NoDuplicateLiveOrder`
(OneRestingPerSlot), `AtMostOnce` (AcceptedOnce).  `AllRowsStep` lists how a step may
change any row, `VenueStep` which steps the venue or the fills table sees; they give
`RowsMoveLegally` (LegalSteps: along the table only, a final row never) and
`RemainderHandedOnOnce` (ChainConserved: a successor exists only behind a cancelled order, and
carries what its row left open).

Three invariants stand on top of `IInv`:

- `ClosedSound`, assuming the paper adapter or a recovery that gets no listing: every
  counted unit has its fill row (`Backed`), what the fills table and the venue hold of an
  order (`FillsSound`), that what is repriced has something left
  (`WorkSound`), what an answer in hand says (`AnswersSound`).  From it: `CountedOnce`
  (NeverOverstated).  `GoneSound` (a filled row is neither on the book nor on the wire, a cancelled or
  rejected one only behind a refusal) and `RefusalSound` (a refusal in hand is in the history) give
  `OnlyRefusedRest` (ClosedUnlessRefused); they need the wire, since a placement in flight would bring a
  closed order back.  With the paper adapter nothing is refused that rests: `PaperCancelledIsGone`
  (CancelledMeansGone, which the live one violates).
- `CountsSound`: the repricer counts per chain, the property speaks of orders.  The count is
  never ahead of the passes the order has rested in (`PriceTried`) for every row that may be taken
  for resting *or may be again*, which includes an INDETERMINATE row that is linked; that a
  replayed chain starts from zero needs `FreshChains` and `CountsFromZero`.  From it:
  `EveryMoveIsEarned` (EveryPriceTried, an action property).
- those of `SlotLedgerProofs`.

**SlotLedgerProofs.** `LedgerWithinApproval` is about `SlotLedger` alone.  For the paper
adapter, `PaperSound`: no live row is closed while the venue may still add to it (`VenueSound`,
with `StaysLive`), the poll has caught up wherever the repricer or the sweep looks
(`PassSound`), the sweep has every resting order before it (`SweepSound`), and the approved
size is shared out along a chain (`Shared`: what is recorded before an order and its own size
add up).  From it: `SweepLeavesNothing` (SweptBeforeSettlement), `AccountHoldsEnough`
(AccountCovers), `NeverOverexposed` (ExposureWithinApproval) and `EngineImplementsLedger`
(ImplementsLedger): `Init` maps to the ledger's initial state, a placement to `Work`, a
recorded fill to `Book`, a cancel and a restart to `Withdraw`, all else to a stutter.

For either adapter and any recovery, `Planned`: what the rows before an order *count* and its own
size add up to the approved size.  From it and `FillsSound`: `ExcessIsBounded`
(ExcessIsUncounted).  With `v_exposure` it says that the figure `maybe_reprice` reads is the one
way past the approval, and how far it can go.

**TradingGateProofs.** `MemoryMatchesRecord` with `TypeOK` and `Driving` (a market being
driven is one of those left) is inductive; `OnlyVerifiedTrades` and `DisableLatches`
look at the one action that can make the change, and so does `StopTakes` (StopTakesHold):
`Drive` reads `armed` and `paused` themselves, not the snapshot.  `DataStreamsNeverTrades` is inductive by itself:
without a message that declares the window no status becomes VERIFIED.

**MajorityWindowProofs.** `WindowInv` adds `Stand` (where the pass stands, and that the
window it submits for is unspent and not late) and `Decided` (what is on disk, in memory
and before the decision).  From it: `LockSurvives`, `StaleNotTraded`, `ClosedNotTraded`,
and `OneShotPerWindow`: initial states map to initial states, and every step to a step
of `OneShot` or a stutter.

**MarketRotationProofs.** `RotationInv` adds `Working` to the properties: `RotateSound` (how
far a rotation has got: nothing is live before recovery is over, a market being
activated has no price and no instance), `TodoSound`, `AskSound` and `SettleSound` (the
rows still to be visited, the market asked about and the one being settled are SETTLING,
and only the live job is about an instance), `PricesSound` (who has no instance holds no
price).  A stranded row settled by the background retry could otherwise be the current
market's.  `WindowOnGrid` is the one arithmetic fact: a clock on the grid is in one of its
markets.  From it: `TypeCorrect`, `OfficialPrice` (PtbIsOfficial), `LiveRows`
(LiveMatchesRows).

The four properties of collectors and settlements hold as long as the clock has not
stepped back (`backs = 0`), and need an invariant of their own, `Forward`: a pass works with
the clock it read or an older one (`ClockSound`), a row that settles has closed
(`PhasesSound`), the market archived is not one of the two that stay live (`ArchivedSound`),
each of the three commits of an outcome finds what the one before it wrote
(`CommitsSound`), what a crash between them leaves (`OutcomeSound`: a TWAP on a row of a market that
has closed, an outcome only with a TWAP), the grace of a process that was never interrupted
(`GraceSound`), that its collector holds every delivery its rows hold (`HeardSound`).  `Hours` is the arithmetic of
the grid.  From it: `EveryLiveCollects` (LiveHasCollector), `OutcomeIsRecorded`
(SettledAsRecorded), `SettlesAfterClose` (SettledAfterClose), `NothingHeardIsLost`
(SettledOnWhatWasHeard).

`RotationImplementsLife` (ImplementsLife) is the refinement: `CloseCurrent` maps to `Shut`,
`Activate` to `Open`, `Restore` to `Open`, `Reopen` or a stutter, `SaveOutcome` to `Decide` or, if the
market has an outcome, a stutter, `SavePhase` to `Settle`, `StepBack` to `Disturb`, all else
(`LifeWriters`) to a stutter.  It rests on `CommitsSound`, which needs no steady clock, on
`OutcomeSound` for what is booked, and on `OrderSound` (only markets the clock has reached have a
row) for the order of the openings.

**SupervisorProofs.** `IInv` is proved inductive (`SupervisorInv`): `Guarded` (the handler with the
lock, and it alone, is between lock and answer), `Holding` (what a handler that waits inside
the supervisor may rely on: nothing runs while it builds, no task is remembered while it joins, nobody
is left when it tears down), `Owned` (a task that is not over is the supervisor's or the one a stop
waits for, and then it is not ready), `Numbered`, `NoLeak`.  `OnlyCurrentRuns` is not inductive without
`Holding`: a build must find nothing running when it ends, two awaits after it looked.  From it:
`OneRuntime`, `StopHolds`, `ConnectionsHeld`, `SupervisorTypes`.

**PriceFeedProofs.** `IInv` relates the reader, its socket and the counter (`Ledger`), the watchdog's age and
the silence it stands for (`age = heard`), and the drift reading and the clock it was taken under
(`Reading`).  From it: `FreshOnly` (TradesOnFreshFeed), `DriftStops` (DriftSeen), `DropsAreDrops` and
`FeedTypes`.

**SettingsProofs.** `OnlyBuiltRuns`: a process runs only what both builders accepted.  From that,
`WindowsCanTrade` (ConfiguredWindowsTrade) exhibits the bid, case by case of the trigger switch, and
goes through all nineteen gates; `ReadinessAgrees` (BlockedRefuses) is a finite argument over the gates that does not depend
on the configuration; `MoveKeepsApproval` shows that one move keeps a price in the band and on the ladder.
A chain makes three moves at most (`MaxMoves`: generations 0 to 2 are moved), so `ChainsStayApproved` (MovesStayApproved)
unrolls them.

`WhatWasAcceptedRuns` (AcceptedRuns) is the round trip of a configuration through the table.
`KeptSound` says for *every* `.env` that reads, not only the present one, that the table boots and builds
what was accepted; otherwise an edit of `.env` would not keep it.  `AsStorage` writes windows as a list in
ascending order and buffers by window; `AscendingSorts` (an ascending list of a finite set exists, by the rank of
its members) and `SameTrading` show that the builders do not see the difference
(`TradingRoundTrip`, `MajorityRoundTrip`); `FillChangesNothing` that filling a complete table from
`.env` changes nothing; `SeedRoundTrip`, `SaveKeeps` and `BootKeeps` do the steps.  It assumes what the
modules state: that a blank or unreadable text is no value (`TextAssumption`) and that every `.env` has every
field (`EnvAssumption`, the defaults of `ArcSettings`).

Every invariant and every action property of the passing runs is stated by a theorem.
Model-checked only is liveness (`KeepsTurning`, `CloseRetractsAll`, `FeedRecovers`, `TriggeredResolves`,
`ClosedSettles`, `Answered`, `FeedComesBack`): it needs the fairness of the loops and `ENABLED`, which
are out of this prover's reach.  Where an invariant holds under a condition, the theorem states it: the
paper adapter for the ledger, the sweep and the account; the paper adapter or `~ TokensKnown` for
`NeverOverstated` and `ClosedUnlessRefused`.

Two properties hold only with the wiring the supervisor ships.  With `TokensKnown =
TRUE` reconciliation adopts the venue's filled size and the next poll counts the same
fills again (`NeverOverstated` fails), and a row whose venue id was never saved is
closed out while it rests (`ClosedUnlessRefused` fails).

## 5. Plan

1. Proofs: the split of an approved size over a ladder (`SplitSize`) for any number of orders;
   that a configuration the builders refuse leaves no trace in the table.
2. The profit of an outcome (`runtime/ledger.py`) and a fill that is recorded after its
   market was settled; MAJORITY windows removed from the configuration between two processes.

### Not modelled

Wallet keys and client construction, HTTP serialisation and the read-only routes, the
websocket's frames and the event hub, the web deck, discovery's requests, reports, statistics,
recording, notifications and logging: I/O or observers that reach no decision.  The token bucket
(`ratelimit.py`) delays requests and changes none, and `LimitOrders` lets every request take any
time.  `runtime/reconnect.py` is used by nothing.
