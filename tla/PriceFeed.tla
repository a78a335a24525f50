----------------------------- MODULE PriceFeed -------------------------------
(***************************************************************************)
(* The price stream from the relay's socket to the gates that read it: the *)
(* provider's reconnect loop and, with RTDS, the keepalive task beside it; *)
(* the validation of every sample; the watchdog's age and the clock drift  *)
(* measured on the same sample; the pass of the main loop that reads both. *)
(*                                                                         *)
(* The feed task, the keepalive, the main loop, the relay, the market and  *)
(* the host's clock take their steps in any order.  Seconds are kept for   *)
(* clock offsets and delays, ticks for the silence of the feed.  Left out: *)
(* the length of a backoff (any wait), and what an accepted sample is      *)
(* routed to, which is MarketRotation's.                                   *)
(***************************************************************************)
EXTENDS Samples

CONSTANTS
  Envs,           \* what .env may configure as the provider
  Prices,         \* the prices of the market
  Ticks, Reports, \* at each price: what the relay, or Data Streams, may send
  MaxMove,        \* max_deviation_percent
  MaxAge,         \* max_age_ms, in seconds
  MaxFuture,      \* max_future_ms, in seconds
  Warn, Critical, \* feed_stale_warn_ms and feed_stale_critical_ms, in ticks
  DriftCritical,  \* clock_drift_critical_ms, in seconds
  Offsets,        \* what the local clock may be ahead of the venue's, in seconds
  Lags,           \* the delays of a sample, in seconds
  SignedFor,      \* Data Streams: what a signature's timestamp may be off, in seconds
  MaxDrops        \* bound: sockets the relay closes

ASSUME FeedAssumption ==
  /\ Envs \subseteq Env /\ Prices \subseteq Nat \ {0}
  /\ Ticks \in [Prices -> SUBSET RelayTick] /\ Reports \in [Prices -> SUBSET Report]
  /\ MaxMove \in Nat /\ MaxAge \in Nat /\ MaxFuture \in Nat
  /\ Warn \in Nat \ {0} /\ Critical \in Nat /\ Warn < Critical
  /\ DriftCritical \in Nat \ {0}
  /\ Offsets \subseteq Int /\ Lags \subseteq Nat /\ 0 \in Lags
  /\ SignedFor \in Nat /\ MaxDrops \in Nat

VARIABLES
  env,          \* the configuration of the provider
  reachable,    \* the relay: an attempt to connect succeeds
  price,        \* the market's
  off,          \* the local clock minus the venue's
  reader,       \* where the feed task is
  sock,         \* the socket it holds
  keeper,       \* the keepalive task of that socket
  up,           \* connected, as the reconnect ladder counts with it
  shown,        \* connected, as the System page reads it
  disconnects,  \* and its counter
  cause,        \* what ended the feed task
  last,         \* ObservationValidator._last_price, NoPrice: none yet
  age, status,  \* FeedWatchdog: ticks since _last_tick (Critical: None or older), _status
  drift,        \* DriftMonitor._last: critical or not
  drove,        \* the last pass was let through by gates 14 and 15
  drops,        \* history: sockets the relay has closed
  heard,        \* history: ticks since a sample was accepted
  measured      \* history: the sample accepted last under this offset: none, late, prompt

socket == <<reader, sock, keeper, up, shown, disconnects, cause, drops>>
health == <<last, age, status, drift, heard, measured>>
world  == <<env, reachable, price, off>>
vars   == <<world, socket, health, drove>>

Init ==
  /\ env \in {e \in Envs : Named(e) /\ Builds(e)} /\ reachable \in BOOLEAN
  /\ price \in Prices /\ off \in Offsets
  /\ reader = "connecting" /\ sock = "none" /\ keeper = "none"
  /\ up = FALSE /\ shown = FALSE /\ disconnects = 0 /\ cause = "none" /\ drops = 0
  /\ last = 0 /\ age = Critical /\ status = "BLOCKED" /\ drift = FALSE
  /\ heard = Critical /\ measured = "none" /\ drove = FALSE

------------------------------------------------------------------------------
(* The world outside *)

Abs(n) == IF n < 0 THEN 0 - n ELSE n

Near(p, q) == Abs(p - q) * 100 <= MaxMove * q

Older(n) == IF n < Critical THEN n + 1 ELSE Critical

\* Monotonic time passes: everybody's silence grows.
Tick ==
  /\ age' = Older(age) /\ heard' = Older(heard)
  /\ UNCHANGED <<world, socket, last, status, drift, measured, drove>>

\* The market moves, by less than one sample may.
Move ==
  /\ price' \in {p \in Prices \ {price} : Near(p, price)}
  /\ UNCHANGED <<env, reachable, off, socket, health, drove>>

Outage ==
  /\ reachable' = ~reachable
  /\ UNCHANGED <<env, price, off, socket, health, drove>>

\* The host's clock is set: wall time steps, monotonic time does not.
ClockStep ==
  /\ off' \in Offsets \ {off} /\ measured' = "none"
  /\ UNCHANGED <<env, reachable, price, socket, last, age, status, drift, heard, drove>>

RelayCloses ==
  /\ sock = "open" /\ drops < MaxDrops
  /\ sock' = "closed" /\ drops' = drops + 1
  /\ UNCHANGED <<world, reader, keeper, up, shown, disconnects, cause, health, drove>>

------------------------------------------------------------------------------
(* The feed task: connect, read, wait, again *)

Opened ==
  /\ sock' = "open" /\ reader' = "reading"
  /\ keeper' = IF env.twap = "RTDS" THEN "asleep" ELSE "none"
  /\ up' = TRUE /\ shown' = TRUE
  /\ UNCHANGED <<disconnects, cause, drops>>

\* The except branch: only a socket that was up counts as dropped.  The Chainlink feed's
\* own flag is not the one the ladder clears.
Lost ==
  /\ disconnects' = disconnects + (IF up THEN 1 ELSE 0)
  /\ up' = FALSE /\ shown' = IF env.twap = "RTDS" THEN FALSE ELSE shown
  /\ reader' = "waiting"
  /\ UNCHANGED <<sock, keeper, cause, drops>>

\* Data Streams refuses a signature whose timestamp, the local clock's, is off too far.
Signs == env.twap = "CHAINLINK" => Abs(off) <= SignedFor

\* Signed at connect time, not at construction.
Opens == reachable /\ Signs

Connect ==
  /\ reader = "connecting" /\ Opens /\ Opened
  /\ UNCHANGED <<world, health, drove>>

ConnectFails ==
  /\ reader = "connecting" /\ ~Opens /\ Lost
  /\ UNCHANGED <<world, health, drove>>

Notice ==
  /\ reader = "reading" /\ sock = "closed" /\ Lost
  /\ UNCHANGED <<world, health, drove>>

\* The keepalive wakes and sends: on a closed socket that raises, and the task is done.
KeeperSends ==
  /\ keeper = "asleep" /\ sock = "closed"
  /\ keeper' = "failed"
  /\ UNCHANGED <<world, reader, sock, up, shown, disconnects, cause, drops, health, drove>>

\* A ladder that gives up at the bound.
ReapedOnce ==
  /\ reader = "waiting" /\ disconnects < MaxDrops
  /\ keeper' = "none" /\ sock' = "none" /\ reader' = "connecting"
  /\ UNCHANGED <<up, shown, disconnects, cause, drops>>

\* The backoff is over and the finally clause runs: it awaits the keepalive, suppressing
\* its cancellation and nothing else, and closes the socket.
Reaped ==
  /\ reader = "waiting"
  /\ keeper' = "none" /\ sock' = "none"
  /\ IF keeper = "failed" THEN reader' = "ended" /\ cause' = "keeper"
                          ELSE reader' = "connecting" /\ cause' = cause
  /\ UNCHANGED <<up, shown, disconnects, drops>>

WaitOver == Reaped /\ UNCHANGED <<world, health, drove>>

------------------------------------------------------------------------------
(* A sample *)

Reaches(p) == last = 0 \/ Near(p, last)

WithinReach == Reaches(price)

\* validate: neither too old nor from the future, and no jump from the last one accepted.
Usable(seconds, p) == seconds <= MaxAge /\ 0 - seconds <= MaxFuture /\ Reaches(p)

\* The messages of this moment, and the price each is read as.
Sent == IF env.twap = "RTDS" THEN Ticks[price] ELSE Reports[price]

Read(m) == IF env.twap = "RTDS" THEN ParsedPrice(m) ELSE ReportedPrice(m, env.decimals)

IsCriticalAhead(seconds) == seconds >= DriftCritical

\* Both ways: a clock that is behind is as bad as one that is ahead.
IsCritical(seconds) == Abs(seconds) >= DriftCritical

\* The reference is the sample just accepted, the watchdog ticks, the drift is measured.
Accepted(lag, p) ==
  /\ last' = p /\ age' = 0 /\ status' = "OK"
  /\ drift' = IsCritical(off + lag)
  /\ heard' = 0 /\ measured' = IF lag = 0 THEN "prompt" ELSE "late"

RefusedAlive == age' = 0 /\ status' = "OK" /\ UNCHANGED <<last, drift, heard, measured>>

\* Counted, and nothing else: neither the reference nor the watchdog nor the drift moves.
Refused == UNCHANGED health

\* A message of a frame.  Recording it may raise out of the feed task; the generator it
\* iterated is then left as it is, its socket open and its keepalive running.
Frame(lag, m) ==
  /\ reader = "reading" /\ sock = "open"
  /\ shown' = up
  /\ \/ /\ Read(m) # NoPrice /\ Usable(off + lag, Read(m))
        /\ Accepted(lag, Read(m))
        /\ reader' \in {"reading", "ended"}
        /\ cause' = IF reader' = "ended" THEN "store" ELSE cause
     \/ /\ Read(m) = NoPrice \/ ~Usable(off + lag, Read(m))
        /\ Refused
        /\ UNCHANGED <<reader, cause>>
  /\ UNCHANGED <<world, sock, keeper, up, disconnects, drops, drove>>

\* A prompt message that carries the market's price.
GoodFrame == \E m \in Sent : Read(m) = price /\ Frame(0, m)

Stop ==
  /\ reader # "off"
  /\ reader' = "off" /\ keeper' = "none" /\ sock' = "none"
  /\ UNCHANGED <<world, up, shown, disconnects, cause, drops, health, drove>>

------------------------------------------------------------------------------
(* The main loop *)

Evaluated == IF age >= Critical THEN "BLOCKED" ELSE IF age >= Warn THEN "WARN" ELSE "OK"

\* evaluate, and the decisions of the pass behind gates 14 and 15.
Pass ==
  /\ reader # "off"
  /\ status' = Evaluated
  /\ drove' = (Evaluated # "BLOCKED" /\ ~drift)
  /\ UNCHANGED <<world, socket, last, age, drift, heard, measured>>

Next ==
  \/ Tick \/ Move \/ Outage \/ ClockStep \/ RelayCloses
  \/ Connect \/ ConnectFails \/ Notice \/ KeeperSends \/ WaitOver
  \/ \E lag \in Lags, m \in Sent : Frame(lag, m)
  \/ Stop \/ Pass

Spec == Init /\ [][Next]_vars

\* The feed task and the main loop run whenever they can, and an open stream carries a
\* prompt sample now and then.  Nothing is asked of the relay's other moods.
Fairness ==
  /\ WF_vars(Connect) /\ WF_vars(ConnectFails) /\ WF_vars(Notice) /\ WF_vars(WaitOver)
  /\ WF_vars(GoodFrame) /\ WF_vars(Pass)

FairSpec == Spec /\ Fairness

------------------------------------------------------------------------------
(* What the feed is for *)

Readers == {"connecting", "reading", "waiting", "ended", "off"}

TypeOK ==
  /\ env \in Envs /\ reachable \in BOOLEAN /\ price \in Prices /\ off \in Offsets
  /\ reader \in Readers /\ sock \in {"none", "open", "closed"}
  /\ keeper \in {"none", "asleep", "failed"}
  /\ up \in BOOLEAN /\ shown \in BOOLEAN /\ disconnects \in 0..MaxDrops
  /\ cause \in {"none", "keeper", "store"} /\ drops \in 0..MaxDrops
  /\ last \in Nat /\ age \in 0..Critical /\ heard \in 0..Critical
  /\ status \in {"OK", "WARN", "BLOCKED"} /\ drift \in BOOLEAN
  /\ measured \in {"none", "late", "prompt"} /\ drove \in BOOLEAN

\* A pass is never let through gate 14 when no ACCEPTED sample arrived within the critical
\* age, however many frames, reconnects and refused samples arrived meanwhile, and before
\* the first sample ever (watchdog.tick on acceptance only, evaluate on every pass).
TradesOnFreshFeed == [][Pass /\ drove' => heard < Critical]_vars

\* Whenever the ladder waits or tries again, its counter is the number of sockets the relay
\* took away: a failed attempt is no drop, and one drop is one whatever follows it (the
\* comment beside disconnects in ReconnectingStream and RtdsFeed).
DropsCounted == reader \in {"waiting", "connecting"} => disconnects = drops

\* A clock that is ahead by the critical drift stops trading with the first sample accepted
\* under that clock, and one that is behind with the first PROMPT one: a sample's delay adds
\* to the offset, so it hides a slow clock and never a fast one (DriftMonitor.observe).
DriftSeen ==
  [][Pass /\ drove' =>
       /\ ~(measured # "none" /\ off >= DriftCritical)
       /\ ~(measured = "prompt" /\ 0 - off >= DriftCritical)]_vars

\* Once the relay stays reachable, the clock right and the market within reach of the last
\* sample accepted, the feed is healthy again and again, or its task is over.  The third
\* premise is needed: the reference survives a reconnect, so a market that moved beyond
\* max_deviation_percent during an outage is refused until the process is restarted.
FeedComesBack ==
  <>[](reachable /\ off = 0 /\ WithinReach)
    => []<>(status = "OK" \/ reader \in {"ended", "off"})

\* RtdsFeed.messages: only the caller's own cancellation ends the loop.
OnlyCancelEnds == cause # "keeper"

==============================================================================
