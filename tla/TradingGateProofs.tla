------------------------- MODULE TradingGateProofs -------------------------
(***************************************************************************)
(* Proofs about the trading switches, for any number of live markets.      *)
(* MemoryMatchesRecord is inductive together with the types; the theorems  *)
(* about single steps look at the one action that can make the change.     *)
(***************************************************************************)
EXTENDS TradingGate, TLAPS

\* A market being driven is one of those the pass has still to drive.
Driving == pc \in {"tick", "send", "poll"} => left # 0

GateInv == TypeOK /\ MemoryMatchesRecord /\ Driving

LEMMA NotASnapshot == NoHealth \notin Snapshot /\ NoWrite \notin Write
  BY DEF NoHealth, Snapshot, NoWrite, Write

LEMMA HealthIsASnapshot ==
  ASSUME TypeOK
  PROVE  Health \in Snapshot /\ Health.spec = spec
  BY DEF TypeOK, Health, Snapshot

LEMMA NoneLeft == 0 \in 0 .. MaxLive /\ 0 \in 0 .. SampleTarget
  BY LiveAssumption DEF SampleTarget

LEMMA SomeLeft == 1 .. MaxLive \subseteq 0 .. MaxLive
  BY LiveAssumption

LEMMA OneLess ==
  ASSUME NEW n \in 0 .. MaxLive, n # 0
  PROVE  n - 1 \in 0 .. MaxLive
  BY LiveAssumption

LEMMA InitGate == Init => GateInv
  BY NoneLeft
  DEF Init, Driving, GateInv, TypeOK, MemoryMatchesRecord, StoredReason, Reasons, SpecStatus, Reports,
      WalletStatus, Balances

\* What _persist begins: the flag is on record, its reason is still to be written.
LEMMA PersistBegins ==
  ASSUME GateInv, NEW e \in BOOLEAN, NEW r \in Reasons, NEW n \in {"loop", "drive", "ended"},
         Persist(e, r, n)
  PROVE  /\ pc' = "persist" /\ pend' \in Write
         /\ dbEnabled' \in BOOLEAN /\ dbEnabled' = pend'.enabled
  BY DEF Persist, Write

------------------------------------------------------------------------------
(* Every step keeps the invariant *)

\* What the decision and its awaits leave alone: everything but where it stands.
LEMMA StutterStep == ASSUME GateInv, UNCHANGED vars PROVE GateInv'
  <1>1. TypeOK'
    BY DEF GateInv, TypeOK, vars, durable, flags, buttons, checker, wallet, pass
  <1>2. StoredReason' = StoredReason
    BY DEF StoredReason, vars, durable
  <1>3. MemoryMatchesRecord'
    BY <1>2 DEF GateInv, MemoryMatchesRecord, vars, durable, flags, pass
  <1>4. Driving'
    BY DEF GateInv, Driving, vars, pass
  <1> QED BY <1>1, <1>3, <1>4 DEF GateInv

LEMMA LifecycleStep == ASSUME GateInv, Lifecycle PROVE GateInv'
  <1>1. CASE Start
    <2>1. StoredReason' = StoredReason /\ reason' = StoredReason /\ enabled' = dbEnabled
      BY <1>1 DEF GateInv, TypeOK, Start, Load, StoredReason, durable
    <2>2. StoredReason \in Reasons
      BY DEF GateInv, TypeOK, StoredReason, Reasons
    <2>3. TypeOK'
      BY <1>1, <2>1, <2>2 DEF GateInv, TypeOK, Start, Load, durable, buttons, checker, wallet, pass
    <2>4. MemoryMatchesRecord' /\ Driving'
      BY <1>1, <2>1 DEF GateInv, Driving, Start, Load, MemoryMatchesRecord, durable, pass
    <2> QED BY <2>3, <2>4 DEF GateInv
  <1> USE DEF GateInv, TypeOK, Driving
  <1>2. CASE Recovered
    <2>1. CASE report' # "safe" /\ enabled
      <3>1. Persist(FALSE, "RECOVERY_UNRESOLVED", "loop")
        BY <1>2, <2>1 DEF Recovered
      <3> QED BY <1>2, <3>1, PersistBegins, ZenonT(60) DEF Recovered, MemoryMatchesRecord, flags, buttons, checker, wallet, Reasons
    <2>2. CASE ~ (report' # "safe" /\ enabled)
      BY <1>2, <2>2 DEF Recovered, MemoryMatchesRecord, StoredReason, flags, buttons, checker, wallet
    <2> QED BY <2>1, <2>2
  <1>3. CASE RecordSpecStatus
    BY <1>3 DEF RecordSpecStatus, MemoryMatchesRecord, StoredReason, buttons, checker, wallet, pass
  <1>4. CASE ApplySpec
    <2>1. PICK e \in BOOLEAN, r \in Reasons : Persist(e, r, "ended")
      BY <1>4 DEF ApplySpec, Reasons
    <2> QED BY <1>4, <2>1, PersistBegins, ZenonT(60) DEF ApplySpec, MemoryMatchesRecord, flags, buttons, checker, wallet
  <1>5. CASE Ended
    BY <1>5, NoneLeft
    DEF Ended, Unloaded, MemoryMatchesRecord, durable, Reasons, SpecStatus, Reports,
      WalletStatus, Balances
  <1>6. CASE Persisted
    BY <1>6, ZenonT(60) DEF Persisted, MemoryMatchesRecord, StoredReason, buttons, checker, wallet, Write, Reasons
  <1> QED BY <1>1, <1>2, <1>3, <1>4, <1>5, <1>6 DEF Lifecycle

\* A reading is a status the venue's account or the paper wallet can have.
LEMMA ReadingTypes ==
  ASSUME NEW r \in Readings
  PROVE  /\ r.status \in WalletStatus
         /\ r.balance \in Balances
  <1>1. CASE Live
    BY <1>1 DEF Readings, WalletStatus, Balances
  <1>2. CASE ~ Live
    BY <1>2 DEF Readings, WalletStatus, Balances
  <1> QED BY <1>1, <1>2

\* One message more, and the running result is one of the three.
LEMMA OfferTypes ==
  ASSUME samples \in 0 .. SampleTarget, verdict \in SpecStatus,
         \E declares \in Declared : Offer(declares)
  PROVE  samples' \in 0 .. SampleTarget /\ verdict' \in SpecStatus
  BY DEF Offer, SampleTarget, SpecStatus

LEMMA HandlersStep == ASSUME GateInv, Handlers PROVE GateInv'
  <1>1. /\ UNCHANGED <<dbEnabled, dbReason, dbSpec, enabled, reason, spec, pc, pend, left, snap>>
        /\ armed' \in BOOLEAN /\ paused' \in BOOLEAN /\ blocked' \in BOOLEAN /\ report' = report
        /\ status' \in WalletStatus
        /\ available' = available /\ refreshed' = refreshed
        /\ samples' \in 0 .. SampleTarget /\ verdict' \in SpecStatus
    <2> USE DEF GateInv, TypeOK, durable, flags, checker, wallet, pass
    <2>1. CASE Arm
      BY <2>1 DEF Arm
    <2>2. CASE Disarm
      BY <2>2 DEF Disarm
    <2>3. CASE Pause
      BY <2>3 DEF Pause
    <2>4. CASE Resume
      BY <2>4 DEF Resume
    <2>5. CASE FeedMessage
      <3>1. samples' \in 0 .. SampleTarget /\ verdict' \in SpecStatus
        BY <2>5, OfferTypes DEF FeedMessage
      <3> QED BY <2>5, <3>1 DEF FeedMessage, buttons
    <2>6. CASE WalletPanel
      BY <2>6, ReadingTypes DEF WalletPanel, buttons
    <2> QED BY <2>1, <2>2, <2>3, <2>4, <2>5, <2>6 DEF Handlers
  <1>2. StoredReason' = StoredReason
    BY <1>1 DEF StoredReason
  <1>3. TypeOK'
    BY <1>1 DEF GateInv, TypeOK
  <1>4. MemoryMatchesRecord' /\ Driving'
    BY <1>1, <1>2 DEF GateInv, MemoryMatchesRecord, Driving
  <1> QED BY <1>3, <1>4 DEF GateInv

LEMMA PassStep == ASSUME GateInv, Pass PROVE GateInv'
  <1> USE DEF GateInv, TypeOK, Driving
  <1>1. CASE GateOnHealth
    <2>0. /\ status' \in WalletStatus
          /\ available' \in Balances /\ refreshed' \in BOOLEAN
      <3>1. RefreshWallet
        BY <1>1 DEF GateOnHealth
      <3> QED BY <3>1, ReadingTypes DEF RefreshWallet, checker, wallet
    <2>1. snap = NoHealth /\ snap' = snap /\ left' \in 0 .. MaxLive
      <3>1. left' \in 0 .. MaxLive
        BY <1>1, SomeLeft DEF GateOnHealth
      <3>2. pc = "loop" /\ snap' = snap
        BY <1>1 DEF GateOnHealth
      <3>3. snap = NoHealth
        BY <3>2 DEF MemoryMatchesRecord
      <3> QED BY <3>1, <3>2, <3>3
    <2>2. CASE \E e \in BOOLEAN, r \in Reasons : Persist(e, r, "drive")
      <3>1. PICK e \in BOOLEAN, r \in Reasons : Persist(e, r, "drive")
        BY <2>2
      <3>2. "FEED_STALE" \in Reasons /\ pc' = "persist"
        BY <3>1 DEF Persist, Reasons
      <3>3. pend' \in Write /\ dbEnabled' \in BOOLEAN /\ dbEnabled' = pend'.enabled
        BY <3>1, PersistBegins
      <3>4. /\ UNCHANGED <<dbReason, dbSpec, enabled, reason, spec, armed, paused, report>>
            /\ UNCHANGED <<samples, verdict>> /\ blocked' \in BOOLEAN
        BY <1>1 DEF GateOnHealth, flags, buttons, checker
      <3>5. spec = dbSpec
        BY <1>1 DEF GateOnHealth, MemoryMatchesRecord
      <3>6. MemoryMatchesRecord'
        BY <2>1, <3>2, <3>3, <3>4, <3>5 DEF MemoryMatchesRecord
      <3> QED BY <2>0, <2>1, <3>2, <3>3, <3>4, <3>6
    <2>3. CASE pc' = "drive" /\ UNCHANGED <<dbEnabled, pend>>
      BY <1>1, <2>0, <2>1, <2>3 DEF GateOnHealth, MemoryMatchesRecord, StoredReason, flags, buttons, checker
    <2> QED BY <1>1, <2>2, <2>3 DEF GateOnHealth, Reasons
  <1>2. CASE Drive
    <2>1. snap' = snap \/ snap' = Health
      BY <1>2 DEF Drive
    <2>2. snap' \in Snapshot \union {NoHealth}
      BY <2>1, HealthIsASnapshot
    <2>3. pc' \in {"tick", "poll"} /\ (pc' = "tick" => snap' # NoHealth)
      BY <1>2, HealthIsASnapshot, NotASnapshot DEF Drive
    <2>4. snap' # NoHealth => snap'.spec = dbSpec
      BY <1>2, <2>1, HealthIsASnapshot DEF Drive, MemoryMatchesRecord
    <2>5. left # 0
      BY <1>2 DEF Drive
    <2> QED BY <1>2, <2>2, <2>3, <2>4, <2>5, ZenonT(60) DEF Drive, MemoryMatchesRecord, StoredReason, durable, flags, buttons, checker, wallet
  <1>3. CASE Submit \/ Sent \/ TickDone
    <2>1. /\ UNCHANGED <<durable, flags, buttons, blocked, report, checker, wallet, pass>>
          /\ pc \in {"tick", "send"} /\ pc' \in {"tick", "send", "poll"}
      BY <1>3 DEF Submit, Sent, TickDone
    <2>2. StoredReason' = StoredReason
      BY <2>1 DEF StoredReason, durable
    <2> QED BY <2>1, <2>2 DEF MemoryMatchesRecord, durable, flags, buttons, checker, wallet, pass
  <1>4. CASE PassDone
    BY <1>4 DEF PassDone, MemoryMatchesRecord, StoredReason, durable, flags, buttons, checker, wallet
  <1>5. CASE Polled
    <2>1. left \in 0 .. MaxLive /\ left # 0 /\ left' = left - 1 /\ pc' = "drive"
      BY <1>5 DEF Polled
    <2>2. left' \in 0 .. MaxLive
      BY <2>1, OneLess
    <2>3. /\ UNCHANGED <<dbEnabled, dbReason, dbSpec, enabled, reason, spec, armed, paused>>
          /\ UNCHANGED <<blocked, report, status, available, refreshed, pend, snap, samples, verdict>>
      BY <1>5 DEF Polled, durable, flags, buttons, checker, wallet
    <2>4. StoredReason' = StoredReason
      BY <2>3 DEF StoredReason
    <2>5. MemoryMatchesRecord'
      BY <1>5, <2>1, <2>3, <2>4 DEF Polled, MemoryMatchesRecord
    <2> QED BY <2>1, <2>2, <2>3, <2>5
  <1> QED BY <1>1, <1>2, <1>3, <1>4, <1>5 DEF Pass

LEMMA DownStep == ASSUME GateInv, Down PROVE GateInv'
  BY NoneLeft
  DEF GateInv, TypeOK, Driving, Down, Unloaded, MemoryMatchesRecord, durable, Reasons, SpecStatus, Reports,
      WalletStatus, Balances

LEMMA GateStep == GateInv /\ [Next]_vars => GateInv'
  BY LifecycleStep, HandlersStep, PassStep, DownStep, StutterStep DEF Next

THEOREM GateSound == Spec => []GateInv
  BY InitGate, GateStep, PTL DEF Spec

------------------------------------------------------------------------------
(* The theorems *)

\* The flags in force, the snapshot of a pass and the database never disagree
\* outside a _persist, whatever crashes cut short (RuntimeState).
THEOREM RecordIsTheTruth == Spec => []MemoryMatchesRecord
  BY GateSound, PTL DEF GateInv

\* Only a submission leaves "tick" for "send".
LEMMA OnlySubmitSends ==
  ASSUME Next, pc = "tick", pc' = "send"
  PROVE  Allows(snap)
  BY DEF Next, Lifecycle, Handlers, Pass, Start, Recovered, RecordSpecStatus, ApplySpec, Ended,
         Persisted, Arm, Disarm, Pause, Resume, FeedMessage, WalletPanel, GateOnHealth, Drive, Submit, Sent,
         TickDone, Polled, PassDone, Down, Persist

\* No order goes out while the spec status on record is not VERIFIED, in any
\* interleaving and after any crash: the boundary of gate 1 of the risk engine.
THEOREM OnlyVerifiedTrades == Spec => NoOrderOnUnverifiedSpec
  <1>1. ASSUME GateInv, [Next]_vars, pc = "tick", pc' = "send"
        PROVE  dbSpec = "VERIFIED"
    <2>1. Next
      BY <1>1 DEF vars
    <2>2. snap.spec = "VERIFIED"
      BY <1>1, <2>1, OnlySubmitSends DEF Allows
    <2> QED BY <1>1, <2>2 DEF GateInv, MemoryMatchesRecord
  <1>2. GateInv /\ [Next]_vars => [pc = "tick" /\ pc' = "send" => dbSpec = "VERIFIED"]_vars
    BY <1>1
  <1> QED BY <1>2, GateSound, PTL DEF Spec, NoOrderOnUnverifiedSpec

\* A disable that is not the feed's is lifted by a verified spec check alone, in
\* this process and in every later one.
THEOREM DisableLatches == Spec => LatchedReason
  <1>1. ASSUME GateInv, Next, ~ dbEnabled, dbEnabled'
        PROVE  pc = "apply" \/ dbReason \in {"FEED_STALE", ""}
    <2>1. ApplySpec \/ GateOnHealth
      BY <1>1 DEF Next, Lifecycle, Handlers, Pass, Start, Recovered, RecordSpecStatus, Ended,
         Persisted, Arm, Disarm, Pause, Resume, FeedMessage, WalletPanel, Drive, Submit, Sent,
         TickDone, Polled, PassDone, Down, Persist, durable
    <2>2. CASE ApplySpec
      BY <2>2 DEF ApplySpec
    <2>3. CASE GateOnHealth
      <3>0. pc = "loop"
        BY <2>3 DEF GateOnHealth
      <3>1. ~ enabled
        BY <1>1, <3>0 DEF GateInv, MemoryMatchesRecord
      <3>2. reason \in {"FEED_STALE", ""}
        BY <1>1, <2>3, <3>1 DEF GateOnHealth, Persist, Recoverable, GateInv, TypeOK
      <3>3. reason = StoredReason
        BY <1>1, <3>0 DEF GateInv, MemoryMatchesRecord
      <3> QED BY <1>1, <3>2, <3>3 DEF StoredReason
    <2> QED BY <2>1, <2>2, <2>3
  <1>2. GateInv /\ [Next]_vars =>
          [~ dbEnabled /\ dbEnabled' => pc = "apply" \/ dbReason \in {"FEED_STALE", ""}]_vars
    BY <1>1
  <1> QED BY <1>2, GateSound, PTL DEF Spec, LatchedReason

\* Only _drive_execution begins a decision, and it reads the buttons themselves.
LEMMA OnlyDriveDecides ==
  ASSUME GateInv, Next, pc \notin {"tick", "send"}, pc' \in {"tick", "send"}
  PROVE  armed /\ ~ paused /\ UNCHANGED <<armed, paused>>
  <1>1. ASSUME Persisted PROVE pc' \notin {"tick", "send"}
    BY <1>1 DEF Persisted, GateInv, MemoryMatchesRecord, Write
  <1>2. ASSUME GateOnHealth \/ Recovered \/ ApplySpec PROVE pc' \notin {"tick", "send"}
    BY <1>2 DEF GateOnHealth, Recovered, ApplySpec, Persist
  <1>3. Drive
    BY <1>1, <1>2
    DEF Next, Lifecycle, Handlers, Pass, Start, RecordSpecStatus, Ended, Arm, Disarm, Pause, Resume,
        FeedMessage, WalletPanel, Submit, Sent, TickDone, Polled, PassDone, Down
  <1> QED BY <1>3 DEF Drive, buttons

\* A stopped or paused engine begins no decision before the operator lets it, whatever
\* health snapshot the pass still holds (operator gate, _drive_execution).
THEOREM StopTakes == Spec => StopTakesHold
  <1>1. ASSUME GateInv, Next, Halted PROVE Halted' \/ (armed' /\ ~ paused')
    BY <1>1, OnlyDriveDecides DEF Halted
  <1>2. GateInv /\ [Next]_vars => [Halted => Halted' \/ (armed' /\ ~ paused')]_vars
    BY <1>1
  <1> QED BY <1>2, GateSound, PTL DEF Spec, StopTakesHold
------------------------------------------------------------------------------
(* Data Streams *)

\* With Data Streams no message declares the window: nothing is verified, ever.
Undeclared ==
  Provider = "CHAINLINK" => samples = 0 /\ verdict # "VERIFIED" /\ dbSpec # "VERIFIED"

LEMMA NeverVerified == Spec => []Undeclared
  <1>1. Init => Undeclared
    BY DEF Init, Undeclared
  <1>2. ASSUME Undeclared, [Next]_vars PROVE Undeclared'
    <2>1. CASE UNCHANGED <<samples, verdict, dbSpec>>
      BY <1>2, <2>1 DEF Undeclared
    <2>2. CASE RecordSpecStatus
      BY <1>2, <2>2 DEF Undeclared, RecordSpecStatus, checker
    <2>3. CASE FeedMessage
      BY <1>2, <2>3 DEF Undeclared, FeedMessage, Declared, Offer, durable
    <2>4. CASE Ended \/ Down
      BY <1>2, <2>4 DEF Undeclared, Ended, Down, Unloaded, durable
    <2>5. \/ RecordSpecStatus \/ FeedMessage \/ Ended \/ Down
          \/ UNCHANGED <<samples, verdict, dbSpec>>
      BY <1>2
      DEF Next, Lifecycle, Handlers, Pass, Start, Recovered, ApplySpec, Persisted, Arm, Disarm,
          Pause, Resume, WalletPanel, GateOnHealth, Drive, Submit, Sent, TickDone, Polled,
          PassDone, vars, durable, checker
    <2> QED BY <2>1, <2>2, <2>3, <2>4, <2>5
  <1> QED BY <1>1, <1>2, PTL DEF Spec

\* From a fresh database, sessions whose prices come from Data Streams send no order,
\* whatever they are told and however often they are restarted: no message declares the
\* window SpecChecker asks for.
THEOREM DataStreamsNeverTrades == Spec => ChainlinkNeverTrades
  <1>1. ASSUME Undeclared, [pc = "tick" /\ pc' = "send" => dbSpec = "VERIFIED"]_vars
        PROVE  [Provider = "CHAINLINK" => ~ (pc = "tick" /\ pc' = "send")]_vars
    BY <1>1 DEF Undeclared
  <1> QED BY <1>1, NeverVerified, OnlyVerifiedTrades, PTL DEF NoOrderOnUnverifiedSpec, ChainlinkNeverTrades
=============================================================================
