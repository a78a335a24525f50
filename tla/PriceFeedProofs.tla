--------------------------- MODULE PriceFeedProofs ---------------------------
(***************************************************************************)
(* The safety of the price stream for every provider, market, threshold,   *)
(* offset and delay: its types, the counter of drops, and the two gates    *)
(* that read it.  FeedComesBack stays with TLC.                            *)
(***************************************************************************)
EXTENDS PriceFeed, TLAPS

\* Where the reader is says what it holds and how far the counter lags the relay.
Ledger ==
  /\ reader \in {"connecting", "waiting"} => sock # "open" /\ ~up /\ disconnects = drops
  /\ reader = "connecting" => sock = "none"
  /\ reader = "reading" => up /\ sock # "none"
  /\ reader = "reading" /\ sock = "open" => disconnects = drops
  /\ reader = "reading" /\ sock = "closed" => disconnects + 1 = drops
  /\ disconnects <= drops
  /\ reader = "off" => sock = "none"

\* The last drift reading speaks of the clock that is in force.
Reading ==
  /\ measured # "none" /\ off >= DriftCritical => drift
  /\ measured = "prompt" /\ 0 - off >= DriftCritical => drift

IInv == TypeOK /\ Ledger /\ age = heard /\ Reading

LEMMA InitIInv == ASSUME FeedAssumption, Init PROVE IInv
<1>1. 0 \in 0..MaxDrops /\ Critical \in 0..Critical  BY FeedAssumption DEF FeedAssumption
<1>2. TypeOK   BY <1>1 DEF Init, TypeOK, Readers
<1>3. Ledger   BY DEF Init, Ledger
<1> QED BY <1>2, <1>3 DEF IInv, Init, Reading

\* A step of the socket's side leaves the health alone and keeps the ledger.
LEMMA SocketSteps ==
  ASSUME IInv, FeedAssumption, RelayCloses \/ Connect \/ ConnectFails \/ Notice \/ KeeperSends
                                 \/ WaitOver \/ Stop
  PROVE  IInv'
<1> USE DEF IInv, TypeOK, Ledger, Reading, Readers, world, health
<1>1. CASE RelayCloses   BY <1>1, FeedAssumption DEF RelayCloses
<1>2. CASE Connect       BY <1>2, FeedAssumption DEF Connect, Opened
<1>3. CASE ConnectFails
  <2>1. ~up /\ disconnects \in 0..MaxDrops /\ shown \in BOOLEAN  BY <1>3 DEF ConnectFails
  <2>2. (IF up THEN 1 ELSE 0) = 0  BY <2>1
  <2>3. disconnects' = disconnects + 0  BY <1>3, <2>2 DEF ConnectFails, Lost
  <2>4. disconnects' = disconnects  BY <2>3, <2>1, FeedAssumption DEF FeedAssumption
  <2>5. shown' \in BOOLEAN  BY <1>3, <2>1 DEF ConnectFails, Lost
  <2>6. up' = FALSE /\ reader' = "waiting" /\ UNCHANGED <<world, sock, keeper, cause, drops, health, drove>>
    BY <1>3 DEF ConnectFails, Lost
  <2>7. reader = "connecting"  BY <1>3 DEF ConnectFails
  <2> QED BY <2>1, <2>4, <2>5, <2>6, <2>7, ZenonT(60)
<1>4. CASE Notice
  <2>1. up /\ disconnects + 1 = drops /\ drops \in 0..MaxDrops /\ shown \in BOOLEAN
    BY <1>4 DEF Notice
  <2>2. (IF up THEN 1 ELSE 0) = 1  BY <2>1
  <2>3. disconnects' = disconnects + 1  BY <1>4, <2>2 DEF Notice, Lost
  <2>4. disconnects' = drops  BY <2>3, <2>1
  <2>5. shown' \in BOOLEAN  BY <1>4, <2>1 DEF Notice, Lost
  <2>6. up' = FALSE /\ reader' = "waiting" /\ UNCHANGED <<world, sock, keeper, cause, drops, health, drove>>
    BY <1>4 DEF Notice, Lost
  <2>7. sock = "closed"  BY <1>4 DEF Notice
  <2>8. drops <= drops  BY <2>1, FeedAssumption DEF FeedAssumption
  <2>9. TypeOK'
    <3>1. disconnects' \in 0..MaxDrops /\ drops' \in 0..MaxDrops  BY <2>1, <2>4, <2>6
    <3>2. up' \in BOOLEAN /\ reader' \in Readers  BY <2>6
    <3> QED BY <3>1, <3>2, <2>5, <2>6
  <2>10. Ledger'
    <3>1. disconnects' = drops' /\ disconnects' <= drops'  BY <2>4, <2>6, <2>8
    <3> QED BY <3>1, <2>6, <2>7
  <2> QED BY <2>6, <2>9, <2>10
<1>5. CASE KeeperSends   BY <1>5, FeedAssumption DEF KeeperSends
<1>6. CASE WaitOver      BY <1>6, FeedAssumption DEF WaitOver, Reaped
<1>7. CASE Stop          BY <1>7, FeedAssumption DEF Stop
<1> QED BY <1>1, <1>2, <1>3, <1>4, <1>5, <1>6, <1>7

\* What an accepted sample makes the drift monitor say of the clock.
LEMMA DriftOfSample ==
  ASSUME FeedAssumption, NEW o \in Offsets, NEW l \in Lags
  PROVE  /\ IsCritical(o + l) \in BOOLEAN
         /\ o >= DriftCritical => IsCritical(o + l)
         /\ l = 0 /\ 0 - o >= DriftCritical => IsCritical(o + l)
  BY FeedAssumption DEF IsCritical, Abs

\* What a message is read as is a natural number, whatever its form.
LEMMA ReadNat == ASSUME NEW m PROVE Read(m) \in Nat
<1>1. \A f : ExactPrice(f) \in Nat /\ PlainPrice(f) \in Nat
  BY DEF ExactPrice, PlainPrice, Positive, NoPrice
<1>2. \A t : ParsedPrice(t) \in Nat  BY <1>1 DEF ParsedPrice, NoPrice
<1> QED BY <1>2 DEF Read, ReportedPrice, NoPrice

LEMMA FrameStep == ASSUME IInv, FeedAssumption, NEW lag \in Lags, NEW m \in Sent, Frame(lag, m) PROVE IInv'
<1> USE DEF IInv, world
<1>1. CASE Read(m) # NoPrice /\ Usable(off + lag, Read(m)) /\ Accepted(lag, Read(m))
  <2>1. TypeOK'
    <3>1. IsCritical(off + lag) \in BOOLEAN  BY DriftOfSample, FeedAssumption DEF TypeOK
    <3>2. reader' \in {"reading", "ended"} /\ cause' \in {"none", "keeper", "store"}
      BY <1>1 DEF Frame, TypeOK, Refused, health
    <3> QED BY <1>1, <3>1, <3>2, ReadNat, FeedAssumption DEF Frame, Accepted, TypeOK, Readers
  <2>2. Ledger'
    BY <1>1 DEF Frame, Ledger, TypeOK, Refused, health
  <2>3. (age = heard)'    BY <1>1 DEF Accepted
  <2>4. Reading'
    <3>1. off' = off /\ off \in Offsets  BY DEF Frame, TypeOK
    <3>2. drift' = IsCritical(off + lag) /\ measured' = (IF lag = 0 THEN "prompt" ELSE "late")
      BY <1>1 DEF Accepted
    <3> QED BY <3>1, <3>2, DriftOfSample, FeedAssumption DEF Reading
  <2> QED BY <2>1, <2>2, <2>3, <2>4
<1>2. CASE ~(Read(m) # NoPrice /\ Usable(off + lag, Read(m)) /\ Accepted(lag, Read(m)))
  BY <1>2 DEF Frame, TypeOK, Ledger, Reading, Refused, health, Readers
<1> QED BY <1>1, <1>2

LEMMA WorldSteps ==
  ASSUME IInv, FeedAssumption, Tick \/ Move \/ Outage \/ ClockStep
  PROVE  IInv'
<1> USE DEF IInv, TypeOK, Ledger, Reading, Readers, world, health, socket
<1>1. CASE Tick       BY <1>1, FeedAssumption DEF Tick, Older
<1>2. CASE Move       BY <1>2, FeedAssumption DEF Move
<1>3. CASE Outage     BY <1>3, FeedAssumption DEF Outage
<1>4. CASE ClockStep  BY <1>4, FeedAssumption DEF ClockStep
<1> QED BY <1>1, <1>2, <1>3, <1>4

LEMMA PassStep == ASSUME IInv, FeedAssumption, Pass PROVE IInv'
  BY FeedAssumption
  DEF Pass, Evaluated, IInv, TypeOK, Ledger, Reading, Readers, world, socket

LEMMA StepIInv == ASSUME IInv, FeedAssumption, [Next]_vars PROVE IInv'
<1>1. CASE UNCHANGED vars
  BY <1>1 DEF vars, world, socket, health, IInv, TypeOK, Ledger, Reading, Readers
<1>2. CASE Next
  BY <1>2, SocketSteps, FrameStep, WorldSteps, PassStep DEF Next
<1> QED BY <1>1, <1>2

\* The invariant of the stream, in every reachable state.
THEOREM FeedInv == Spec => []IInv
<1>1. Init => IInv  BY InitIInv, FeedAssumption
<1>2. IInv /\ [Next]_vars => IInv'  BY StepIInv, FeedAssumption
<1> QED BY <1>1, <1>2, PTL DEF Spec

\* The variables keep their types for any thresholds.
THEOREM FeedTypes == Spec => []TypeOK
<1>1. IInv => TypeOK  BY DEF IInv
<1> QED BY <1>1, FeedInv, PTL

\* The counter of drops is the number of sockets lost, through every outage of the relay.
THEOREM DropsAreDrops == Spec => []DropsCounted
<1>1. IInv => DropsCounted  BY DEF IInv, Ledger, DropsCounted
<1> QED BY <1>1, FeedInv, PTL

\* No pass gets through gate 14 on a feed whose last ACCEPTED sample is too old.
THEOREM FreshOnly == Spec => TradesOnFreshFeed
<1>1. ASSUME IInv, Pass, drove'
      PROVE  heard < Critical
  <2>1. Evaluated # "BLOCKED"  BY <1>1 DEF Pass
  <2>2. ~(age >= Critical)     BY <2>1 DEF Evaluated
  <2>3. age \in Nat /\ Critical \in Nat /\ age = heard  BY <1>1, FeedAssumption DEF FeedAssumption, IInv, TypeOK
  <2> QED BY <2>2, <2>3
<1>2. IInv /\ [Next]_vars => [Pass /\ drove' => heard < Critical]_vars
  BY <1>1
<1> QED BY <1>2, FeedInv, PTL DEF Spec, TradesOnFreshFeed

\* A clock that is off by the critical drift stops trading as soon as a sample has shown it.
THEOREM DriftStops == Spec => DriftSeen
<1>1. IInv /\ [Next]_vars =>
        [Pass /\ drove' =>
           /\ ~(measured # "none" /\ off >= DriftCritical)
           /\ ~(measured = "prompt" /\ 0 - off >= DriftCritical)]_vars
  BY DEF IInv, Reading, Pass
<1> QED BY <1>1, FeedInv, PTL DEF Spec, DriftSeen

==============================================================================
