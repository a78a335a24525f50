---------------------------- MODULE TradingGate ----------------------------
(***************************************************************************)
(* The switches an order has to pass: the persisted flags of RuntimeState, *)
(* the operator's buttons, the feed watchdog, the verdict of recovery, the *)
(* settlement-spec check made on the feed's own messages, the wallet, and  *)
(* the one health snapshot a pass decides with.                            *)
(*                                                                         *)
(* The main loop is one coroutine.  The operator (HTTP handlers) and the   *)
(* feed task act only where it awaits; a crash strikes anywhere, between   *)
(* the two commits of one _persist included.  What a market's decision is  *)
(* about is left out: here it is one order that goes out, or none.         *)
(***************************************************************************)
EXTENDS Naturals

CONSTANTS
  MaxLive,     \* MAX_LIVE_MARKETS: the closing market and the current one
  Live,        \* mode V2 with a client: the wallet is the venue's account
  Provider     \* TWAP_PROVIDER

ASSUME LiveAssumption == MaxLive \in Nat \ {0}
ASSUME ModeAssumption == Live \in BOOLEAN /\ Provider \in {"RTDS", "CHAINLINK"}

SpecStatus == {"UNVERIFIED", "VERIFIED", "FAILED"}
\* The reason of a spec check that failed or is incomplete counts as SPEC.
Reasons    == {"", "SPEC", "FEED_STALE", "RECOVERY_UNRESOLVED"}
Reports    == {"none", "safe", "unresolved", "orphans"}
WalletStatus == {"", "CONNECTED", "DISCONNECTED", "PAPER"}
\* A balance against the cost of one order; "None" is no figure.
Balances   == {"None", "short", "enough"}

VARIABLES
  \* table runtime_state
  dbEnabled,   \* trading_enabled
  dbReason,    \* trading_disabled_reason, "absent" before its row exists
  dbSpec,      \* settlement_spec_status
  \* RuntimeState and the engine around it, lost with the process
  enabled, reason, spec,
  armed,       \* the operator's gate
  paused,
  blocked,     \* FeedWatchdog.blocked
  report,      \* what recovery found
  samples,     \* SpecChecker: messages that declared the window, up to SampleTarget
  verdict,     \* and the status of its running result
  status,      \* _wallet_status, "" before the first read
  available,   \* _wallet_available
  refreshed,   \* the loop has read the wallet once
  \* where the main loop stands
  pc,
  pend,        \* the second half of a _persist, or NoWrite
  left,        \* markets of this pass still to be driven
  snap         \* the pass's RuntimeHealth, or NoHealth

durable == <<dbEnabled, dbReason, dbSpec>>
flags   == <<enabled, reason, spec>>
buttons == <<armed, paused>>
checker == <<samples, verdict>>
wallet  == <<status, available, refreshed>>
pass    == <<pend, left, snap>>
vars    == <<durable, flags, buttons, blocked, report, checker, wallet, pc, pass>>

NoWrite  == [none |-> TRUE]
NoHealth == [none |-> TRUE]

\* A fresh RuntimeState: disabled until something verifies otherwise.
Unloaded ==
  /\ enabled' = FALSE /\ reason' = "SPEC" /\ spec' = "UNVERIFIED"
  /\ armed' = FALSE /\ paused' = FALSE /\ blocked' = TRUE /\ report' = "none"
  /\ samples' = 0 /\ verdict' = "UNVERIFIED"
  /\ status' = "" /\ available' = "None" /\ refreshed' = FALSE
  /\ pend' = NoWrite /\ left' = 0 /\ snap' = NoHealth

Init ==
  /\ dbEnabled = FALSE /\ dbReason = "absent" /\ dbSpec = "UNVERIFIED"
  /\ enabled = FALSE /\ reason = "SPEC" /\ spec = "UNVERIFIED"
  /\ armed = FALSE /\ paused = FALSE /\ blocked = TRUE /\ report = "none"
  /\ samples = 0 /\ verdict = "UNVERIFIED"
  /\ status = "" /\ available = "None" /\ refreshed = FALSE
  /\ pc = "off" /\ pend = NoWrite /\ left = 0 /\ snap = NoHealth

\* The main loop is at an await: handlers and the feed task may run.
Awaits == pc \in {"recover", "loop", "tick", "send", "poll"}

------------------------------------------------------------------------------
(* Flags *)

\* Without a reason on record an enabled flag has none, a cleared one the default.
StoredReason ==
  IF dbReason # "absent" THEN dbReason ELSE IF dbEnabled THEN "" ELSE "SPEC"

Load ==
  /\ enabled' = dbEnabled
  /\ reason'  = StoredReason
  /\ spec'    = dbSpec

\* Mutant of Persist: only the reason reaches the database.
PersistReasonOnly(e, r, next) ==
  /\ pend' = [enabled |-> e, reason |-> r, next |-> next]
  /\ pc' = "persist"
  /\ UNCHANGED dbEnabled

\* _persist(): the flag is committed first, its reason in a second commit.
Persist(e, r, next) ==
  /\ dbEnabled' = e
  /\ pend' = [enabled |-> e, reason |-> r, next |-> next]
  /\ pc' = "persist"

\* The second commit; only then does the flag in memory move.
Persisted ==
  /\ pc = "persist"
  /\ dbReason' = pend.reason
  /\ enabled' = pend.enabled
  /\ reason'  = pend.reason
  /\ pc' = pend.next
  /\ pend' = NoWrite
  /\ UNCHANGED <<dbEnabled, dbSpec, spec, buttons, blocked, report, checker, wallet, left, snap>>

------------------------------------------------------------------------------
(* Life of a runtime *)

\* RuntimeSupervisor.start(): a fresh object graph, disarmed.
Start ==
  /\ pc = "off"
  /\ Load
  /\ pc' = "recover"
  /\ UNCHANGED <<durable, buttons, blocked, report, checker, wallet, pass>>

\* The last lines of recover(), after the recovery steps were awaited.
Recovered ==
  /\ pc = "recover"
  /\ report' \in Reports \ {"none"}
  /\ IF report' # "safe" /\ enabled
       THEN Persist(FALSE, "RECOVERY_UNRESOLVED", "loop")
       ELSE pc' = "loop" /\ UNCHANGED <<dbEnabled, pend>>
  /\ UNCHANGED <<dbReason, dbSpec, flags, buttons, blocked, checker, wallet, left, snap>>

\* A bounded run ends: the spec check's running result is recorded ...
RecordSpecStatus ==
  /\ pc = "loop"
  /\ dbSpec' = verdict
  /\ spec' = dbSpec'
  /\ pc' = "apply"
  /\ UNCHANGED <<dbEnabled, dbReason, enabled, reason, buttons, blocked, report>>
  /\ UNCHANGED <<checker, wallet, pass>>

\* ... and the flag follows it.
ApplySpec ==
  /\ pc = "apply"
  /\ IF spec = "VERIFIED" THEN Persist(TRUE, "", "ended") ELSE Persist(FALSE, "SPEC", "ended")
  /\ UNCHANGED <<dbReason, dbSpec, flags, buttons, blocked, report, checker, wallet, left, snap>>

Ended ==
  /\ pc = "ended"
  /\ pc' = "off"
  /\ Unloaded
  /\ UNCHANGED durable

\* A crash, an exception out of the loop, or the operator's STOP, which disarms
\* and cancels the task in one go: nothing in memory survives any of them.
Down ==
  /\ pc # "off"
  /\ pc' = "off"
  /\ Unloaded
  /\ UNCHANGED durable

------------------------------------------------------------------------------
(* Handlers and the feed task, where the loop awaits *)

Arm ==
  /\ Awaits /\ ~ armed
  /\ armed' = TRUE
  /\ UNCHANGED <<durable, flags, paused, blocked, report, checker, wallet, pc, pass>>

Disarm ==
  /\ Awaits /\ armed
  /\ armed' = FALSE
  /\ UNCHANGED <<durable, flags, paused, blocked, report, checker, wallet, pc, pass>>

Pause ==
  /\ Awaits /\ ~ paused
  /\ paused' = TRUE
  /\ UNCHANGED <<durable, flags, armed, blocked, report, checker, wallet, pc, pass>>

Resume ==
  /\ Awaits /\ paused
  /\ paused' = FALSE
  /\ UNCHANGED <<durable, flags, armed, blocked, report, checker, wallet, pc, pass>>

\* _SAMPLE_TARGET
SampleTarget == 3

\* assert_settlement_window(): does a message declare the 30 seconds in a field of its
\* own?  A report of Data Streams is translated to a tick without that field.
Declared == IF Provider = "RTDS" THEN BOOLEAN ELSE {FALSE}

\* SpecChecker.offer(): the result is the last message's, and a good one needs enough
\* good ones before it.
Offer(declares) ==
  IF declares
    THEN /\ samples' = IF samples < SampleTarget THEN samples + 1 ELSE samples
         /\ verdict' = IF samples' = SampleTarget THEN "VERIFIED" ELSE "UNVERIFIED"
    ELSE verdict' = "FAILED" /\ UNCHANGED samples

\* A message of the feed, whose task starts after recovery: the spec check sees it
\* first, then it is accepted as an observation, or not.
FeedMessage ==
  /\ Awaits /\ pc # "recover"
  /\ \E declares \in Declared : Offer(declares)
  /\ blocked' \in {blocked, FALSE}
  /\ UNCHANGED <<durable, flags, buttons, report, wallet, pc, pass>>

------------------------------------------------------------------------------
(* The wallet *)

\* What a reading can be.  The venue's account is three requests: one that fails
\* makes it DISCONNECTED, and the balance is known when its own request was
\* answered.  The paper wallet publishes no balance.
Readings ==
  IF Live
    THEN [status : {"CONNECTED"}, balance : {"short", "enough"}]
           \union [status : {"DISCONNECTED"}, balance : Balances]
    ELSE [status : {"PAPER"}, balance : {"None"}]

\* wallet_snapshot() for the dashboard's status frame, once a second: it moves
\* the status the gates read, never the balance.
WalletPanel ==
  /\ Awaits
  /\ \E r \in Readings : status' = r.status
  /\ UNCHANGED <<durable, flags, buttons, blocked, report, checker, available, refreshed, pc, pass>>

\* _refresh_wallet(): the loop's own reading, when one is due.
RefreshWallet ==
  \/ refreshed /\ UNCHANGED wallet
  \/ \E r \in Readings : status' = r.status /\ available' = r.balance /\ refreshed' = TRUE

------------------------------------------------------------------------------
(* A pass *)

\* Mutant of Recoverable: a recovered feed lifts every disable.
RecoverableAlways == spec = "VERIFIED"

\* Mutant of Recoverable: a feed that was stale once is never trusted again.
RecoverableNever == spec = "VERIFIED" /\ reason = ""

\* The disable a recovered feed may lift.
Recoverable == spec = "VERIFIED" /\ reason \in {"FEED_STALE", ""}

\* The wallet's reading was the last await; then FeedWatchdog.evaluate(), which can
\* only hold or worsen, and _gate_on_health().
GateOnHealth ==
  /\ pc = "loop"
  /\ RefreshWallet
  /\ blocked' \in {blocked, TRUE}
  /\ left' \in 1 .. MaxLive
  /\ CASE blocked' /\ enabled                     -> Persist(FALSE, "FEED_STALE", "drive")
       [] ~ blocked' /\ ~ enabled /\ Recoverable  -> Persist(TRUE, "", "drive")
       [] OTHER -> pc' = "drive" /\ UNCHANGED <<dbEnabled, pend>>
  /\ UNCHANGED <<dbReason, dbSpec, flags, buttons, report, checker, snap>>

\* health(): taken once per pass.
Health == [enabled |-> enabled, spec |-> spec, armed |-> armed, paused |-> paused,
           blocked |-> blocked, connected |-> status # "DISCONNECTED",
           orphans |-> report = "orphans", balance |-> available]

\* Mutant of Drive: a pass that has its snapshot asks nothing else.
DriveOnSnapshot ==
  /\ pc = "drive"
  /\ left > 0
  /\ IF snap # NoHealth \/ (enabled /\ armed /\ ~ paused)
       THEN pc' = "tick" /\ snap' = IF snap = NoHealth THEN Health ELSE snap
       ELSE pc' = "poll" /\ UNCHANGED snap
  /\ UNCHANGED <<durable, flags, buttons, blocked, report, checker, wallet, pend, left>>

\* The decision engine runs for the next market when the gates are open NOW.
Drive ==
  /\ pc = "drive"
  /\ left > 0
  /\ IF enabled /\ armed /\ ~ paused
       THEN pc' = "tick" /\ snap' = IF snap = NoHealth THEN Health ELSE snap
       ELSE pc' = "poll" /\ UNCHANGED snap
  /\ UNCHANGED <<durable, flags, buttons, blocked, report, checker, wallet, pend, left>>

\* Mutant of Allows: the spec status is left to the trading_enabled flag.
AllowsUnverified(h) ==
  h.enabled /\ ~ h.paused /\ h.armed /\ ~ h.blocked /\ h.connected /\ ~ h.orphans

\* RiskEngine.evaluate(), the gates that read the process (1, 2, 14, 17, 18) and
\* gate 19, for which no figure is no opinion.  The gates that read the trade may
\* deny as well: Submit is never forced.
Allows(h) ==
  /\ h.spec = "VERIFIED" /\ ~ h.paused /\ h.enabled /\ h.armed /\ ~ h.blocked
  /\ h.connected /\ ~ h.orphans
  /\ h.balance # "short"

\* After its reads of the book were awaited, a window sends its order.
Submit ==
  /\ pc = "tick"
  /\ Allows(snap)
  /\ pc' = "send"
  /\ UNCHANGED <<durable, flags, buttons, blocked, report, checker, wallet, pass>>

Sent ==
  /\ pc = "send"
  /\ pc' \in {"tick", "poll"}     \* the next window of the market, or none left
  /\ UNCHANGED <<durable, flags, buttons, blocked, report, checker, wallet, pass>>

TickDone ==
  /\ pc = "tick"
  /\ pc' = "poll"
  /\ UNCHANGED <<durable, flags, buttons, blocked, report, checker, wallet, pass>>

\* Fills polled and orders repriced: on to the next market.
Polled ==
  /\ pc = "poll"
  /\ pc' = "drive"
  /\ left' = left - 1
  /\ UNCHANGED <<durable, flags, buttons, blocked, report, checker, wallet, pend, snap>>

PassDone ==
  /\ pc = "drive"
  /\ left = 0
  /\ pc' = "loop"
  /\ snap' = NoHealth
  /\ UNCHANGED <<durable, flags, buttons, blocked, report, checker, wallet, pend, left>>

Lifecycle == Start \/ Recovered \/ RecordSpecStatus \/ ApplySpec \/ Ended \/ Persisted
Handlers  == Arm \/ Disarm \/ Pause \/ Resume \/ FeedMessage \/ WalletPanel
Pass      == GateOnHealth \/ Drive \/ Submit \/ Sent \/ TickDone \/ Polled \/ PassDone

Next == Lifecycle \/ Handlers \/ Pass \/ Down
Spec == Init /\ [][Next]_vars

------------------------------------------------------------------------------
(* Properties *)

Write  == [enabled : BOOLEAN, reason : Reasons, next : {"loop", "drive", "ended"}]
Snapshot == [enabled : BOOLEAN, spec : SpecStatus, armed : BOOLEAN, paused : BOOLEAN,
             blocked : BOOLEAN, connected : BOOLEAN, orphans : BOOLEAN,
             balance : Balances]

TypeOK ==
  /\ dbEnabled \in BOOLEAN
  /\ dbReason  \in Reasons \union {"absent"}
  /\ dbSpec    \in SpecStatus
  /\ enabled \in BOOLEAN /\ reason \in Reasons /\ spec \in SpecStatus
  /\ armed \in BOOLEAN /\ paused \in BOOLEAN /\ blocked \in BOOLEAN
  /\ report \in Reports
  /\ samples \in 0 .. SampleTarget /\ verdict \in SpecStatus
  /\ status \in WalletStatus /\ available \in Balances /\ refreshed \in BOOLEAN
  /\ pc \in {"off", "recover", "loop", "persist", "apply", "ended",
             "drive", "tick", "send", "poll"}
  /\ pend \in Write \union {NoWrite}
  /\ left \in 0 .. MaxLive
  /\ snap \in Snapshot \union {NoHealth}

\* Outside a _persist the process and the database tell the same story: a restart
\* would load the flags that are in force, with the reason they are in force for
\* (the process never believes trading is enabled on a state not recorded),
\* and the snapshot a decision is made with is about the spec status on record.
MemoryMatchesRecord ==
  /\ pc \notin {"off", "persist"} => enabled = dbEnabled /\ reason = StoredReason
  /\ pc = "persist" => pend \in Write /\ dbEnabled = pend.enabled
  /\ pc = "off" => ~ enabled
  /\ pc # "off" => spec = dbSpec
  /\ snap # NoHealth => pc \in {"drive", "tick", "send", "poll"} /\ snap.spec = dbSpec
  /\ pc \in {"tick", "send"} => snap # NoHealth

\* No order goes out while the recorded spec status is not VERIFIED: not after a
\* crash between recording a FAILED status and clearing the flag, either.
NoOrderOnUnverifiedSpec == [][pc = "tick" /\ pc' = "send" => dbSpec = "VERIFIED"]_vars

\* Sessions on Data Streams send no order on a database that no session on another provider
\* has verified (Init): their messages do not declare the window the spec check asks for
\* (ChainlinkFeed._translate, SpecChecker.offer).
ChainlinkNeverTrades == [][Provider = "CHAINLINK" => ~ (pc = "tick" /\ pc' = "send")]_vars

\* A disable that is not the feed's is lifted by a verified spec check alone, in
\* this process or in any later one (_gate_on_health, RuntimeState.load).
LatchedReason ==
  [][~ dbEnabled /\ dbEnabled' => pc = "apply" \/ dbReason \in {"FEED_STALE", ""}]_vars

\* STOP and PAUSE take hold: outside a decision under way, a stopped engine
\* begins none before the operator lets it, whatever snapshot the pass holds.
Halted == (~ armed \/ paused) /\ pc \notin {"tick", "send"}
StopTakesHold == [][Halted => Halted' \/ (armed' /\ ~ paused')]_vars

\* The coroutine goes on by itself.
FairSpec == Spec /\ WF_vars(Pass \/ Persisted \/ Recovered)

\* A feed that stays fresh lifts its own disable: a start-up warm-up or a hiccup
\* does not block the rest of the session.
FeedRecovers ==
  <>[](/\ pc \notin {"off", "apply", "ended"}
       /\ ~ blocked /\ spec = "VERIFIED" /\ reason \in {"FEED_STALE", ""})
    => <>[]enabled
=============================================================================
