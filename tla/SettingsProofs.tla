--------------------------- MODULE SettingsProofs ---------------------------
(***************************************************************************)
(* Proofs about Settings: every configuration a process runs has gone      *)
(* through the builders; so a window of it can trade, its chains stay at   *)
(* approved prices, and readiness and evaluation of the gates agree on     *)
(* what stands in the way.  The last part is the way through the table:    *)
(* what was accepted last is what the next process loads (KeptSound).      *)
(***************************************************************************)
EXTENDS Settings, FiniteSetTheorems, TLAPS

\* evaluate() stops no later than at a gate that refuses.
LEMMA FirstRefusal ==
  ASSUME NEW x, NEW g \in 1 .. 19, Refuses(x)[g]
  PROVE  Evaluate(x) \in 1 .. g
<1> DEFINE R == {i \in 1 .. 19 : Refuses(x)[i]}
<1>1. R \subseteq Nat /\ g \in R
  OBVIOUS
<1>2. PICK f \in R : \A i \in R : ~ (<<i, f>> \in OpToRel(<, Nat))
  <2>1. IsWellFoundedOn(OpToRel(<, Nat), Nat)
    BY NatLessThanWellFounded
  <2>2. R # {}
    BY <1>1
  <2> HIDE DEF R
  <2> QED
    BY <1>1, <2>1, <2>2, WFMin
<1>3. \A i \in R : f <= i
  <2> TAKE i \in R
  <2>1. ~ (<<i, f>> \in OpToRel(<, Nat)) /\ i \in Nat /\ f \in Nat
    BY <1>1, <1>2
  <2> QED
    BY <2>1 DEF OpToRel
<1>4. f \in 1 .. 19 /\ Refuses(x)[f]
  OBVIOUS
<1>5. \A j \in 1 .. f - 1 : ~Refuses(x)[j]
  <2> SUFFICES ASSUME NEW j \in 1 .. f - 1, Refuses(x)[j]
               PROVE  FALSE
    OBVIOUS
  <2>1. j \in R /\ j < f
    BY <1>4
  <2> QED
    BY <2>1, <1>3, <1>4
<1>6. \E i \in 1 .. 19 : Refuses(x)[i] /\ \A j \in 1 .. i - 1 : ~Refuses(x)[j]
  BY <1>4, <1>5
<1> DEFINE e == Evaluate(x)
<1>7. e \in 1 .. 19 /\ Refuses(x)[e] /\ \A j \in 1 .. e - 1 : ~Refuses(x)[j]
  BY <1>4, <1>6 DEF Evaluate
<1>8. e <= g
  BY <1>7
<1> QED
  BY <1>7, <1>8

\* A gate shown as BLOCKED refuses a context built from the same health.
LEMMA BlockedIsRefused ==
  ASSUME NEW c, NEW h, NEW m, NEW s, NEW side, NEW price,
         NEW g \in Blocked(c, h),
         GateOrder[g] \notin {"strategy_enabled", "loss_limits"}
  PROVE  g \in 1 .. 19 /\ Refuses(Context(h, m, s, side, price))[g]
<1> DEFINE x == Context(h, m, s, side, price)
<1>1. x.h = h
  BY DEF Context
<1>2. g \in 1 .. 19
  BY DEF Blocked, GateOrder
<1>3. \/ g = 1 /\ ~h.enabled
      \/ g = 2 /\ ~h.armed
      \/ g = 14 /\ h.feedBlocked
      \/ g = 15 /\ (~h.running \/ h.driftCritical)
      \/ g = 16 /\ ~h.supervisorReady
      \/ g = 17 /\ ~h.walletConnected
      \/ g = 18 /\ h.orphans
  BY <1>2 DEF Blocked, GateOrder
<1> DEFINE R == Refuses(x)
<1>4. /\ TradingEnabledRefuses(x)   => R[1]
      /\ ExecutionArmedRefuses(x)   => R[2]
      /\ FeedFreshnessRefuses(x)    => R[14]
      /\ RuntimeHealthRefuses(x)    => R[15]
      /\ SupervisorReadyRefuses(x)  => R[16]
      /\ WalletConnectedRefuses(x)  => R[17]
      /\ OrphanOrdersRefuses(x)     => R[18]
  <2> HIDE DEF x
  <2> QED
    BY DEF Refuses
<1> HIDE DEF x, R
<1>5. R[g]
  <2>1. CASE g = 1
    BY <1>1, <1>3, <1>4, <2>1 DEF TradingEnabledRefuses
  <2>2. CASE g = 2
    BY <1>1, <1>3, <1>4, <2>2 DEF ExecutionArmedRefuses
  <2>3. CASE g = 14
    BY <1>1, <1>3, <1>4, <2>3 DEF FeedFreshnessRefuses
  <2>4. CASE g = 15
    BY <1>1, <1>3, <1>4, <2>4 DEF RuntimeHealthRefuses
  <2>5. CASE g = 16
    BY <1>1, <1>3, <1>4, <2>5 DEF SupervisorReadyRefuses
  <2>6. CASE g = 17
    BY <1>1, <1>3, <1>4, <2>6 DEF WalletConnectedRefuses
  <2>7. CASE g = 18
    BY <1>1, <1>3, <1>4, <2>7 DEF OrphanOrdersRefuses
  <2> QED
    BY <1>3, <2>1, <2>2, <2>3, <2>4, <2>5, <2>6, <2>7
<1> QED
  BY <1>2, <1>5 DEF x, R

\* What gate_readiness() shows as BLOCKED, evaluate() refuses, whatever the settings,
\* the windows and the health are (the strategy and loss-limit rows apart).
THEOREM ReadinessAgrees == Spec => []BlockedRefuses
<1>1. BlockedRefuses
  BY BlockedIsRefused, FirstRefusal DEF BlockedRefuses
<1> QED
  BY <1>1, PTL

------------------------------------------------------------------------------
(* A window can trade *)

\* With nothing in its way, a price inside the band passes every gate.
LEMMA ClearAllows ==
  ASSUME NEW s, NEW price \in Int,
         s["majority_entry_price_min"] \in Int, s["majority_entry_price_max"] \in Int,
         s["majority_shares"] \in Int, s["majority_shares"] > 0,
         s["majority_entry_price_min"] <= price, price <= s["majority_entry_price_max"]
  PROVE  Evaluate(Context(ClearHealth, ClearMarket, s, "UP", price)) = 0
<1> DEFINE x == Context(ClearHealth, ClearMarket, s, "UP", price)
           R == Refuses(x)
<1>1. /\ ~R[1] /\ ~R[2] /\ ~R[3] /\ ~R[4] /\ ~R[5] /\ ~R[6] /\ ~R[7]
      /\ ~R[9] /\ ~R[14] /\ ~R[15] /\ ~R[16] /\ ~R[17] /\ ~R[18]
  <2>1. /\ x.h = ClearHealth /\ x.m = ClearMarket /\ x.side = "UP"
        /\ x.triggered /\ x.strategy
    BY DEF Context
  <2>2. /\ R[1] => TradingEnabledRefuses(x)
        /\ R[2] => ExecutionArmedRefuses(x)
        /\ R[3] => MarketPhaseRefuses(x)
        /\ R[4] => WindowTriggeredRefuses(x)
        /\ R[5] => PriceToBeatRefuses(x)
        /\ R[6] => StrategyEnabledRefuses(x)
        /\ R[7] => DuplicateIntentRefuses(x)
        /\ R[9] => OpposingDirectionRefuses(x)
    <3> HIDE DEF x
    <3> QED
      BY DEF Refuses
  <2>3. /\ R[14] => FeedFreshnessRefuses(x)
        /\ R[15] => RuntimeHealthRefuses(x)
        /\ R[16] => SupervisorReadyRefuses(x)
        /\ R[17] => WalletConnectedRefuses(x)
        /\ R[18] => OrphanOrdersRefuses(x)
    <3> HIDE DEF x
    <3> QED
      BY DEF Refuses
  <2> HIDE DEF x, R
  <2>4. ~TradingEnabledRefuses(x) /\ ~ExecutionArmedRefuses(x)
    BY <2>1 DEF ClearHealth, TradingEnabledRefuses, ExecutionArmedRefuses
  <2>5. /\ ~MarketPhaseRefuses(x) /\ ~DuplicateIntentRefuses(x)
        /\ ~OpposingDirectionRefuses(x)
    BY <2>1 DEF ClearMarket, MarketPhaseRefuses, DuplicateIntentRefuses,
                OpposingDirectionRefuses, Opposite
  <2>6. /\ ~WindowTriggeredRefuses(x) /\ ~PriceToBeatRefuses(x)
        /\ ~StrategyEnabledRefuses(x)
    BY <2>1 DEF WindowTriggeredRefuses, PriceToBeatRefuses, StrategyEnabledRefuses
  <2>7. ~FeedFreshnessRefuses(x) /\ ~RuntimeHealthRefuses(x)
    BY <2>1 DEF ClearHealth, FeedFreshnessRefuses, RuntimeHealthRefuses
  <2>8. /\ ~SupervisorReadyRefuses(x) /\ ~WalletConnectedRefuses(x)
        /\ ~OrphanOrdersRefuses(x)
    BY <2>1 DEF ClearHealth, SupervisorReadyRefuses, WalletConnectedRefuses,
                OrphanOrdersRefuses
  <2> QED
    BY <2>2, <2>3, <2>4, <2>5, <2>6, <2>7, <2>8, Zenon
<1>2. /\ x.used = 0 /\ x.reserved = 0 /\ x.limits.trades = 1
      /\ x.h.orders = 0 /\ x.limits.positions = 999
      /\ x.price = price /\ x.size = s["majority_shares"]
      /\ x.limits.max = s["majority_entry_price_max"]
      /\ x.limits.min = s["majority_entry_price_min"]
      /\ x.limits.least = s["majority_shares"]
      /\ x.limits.loss = 0 /\ x.limits.streak = 0 /\ x.h.balance = -1
  BY DEF Context, ClearHealth, Limits
<1>3. /\ R[8]  => TradeQuotaRefuses(x)
      /\ R[10] => PositionLimitRefuses(x)
      /\ R[11] => EntryBandRefuses(x)
      /\ R[12] => ExchangeMinimumRefuses(x)
      /\ R[13] => LossLimitsRefuses(x)
      /\ R[19] => AvailableBalanceRefuses(x)
  <2> HIDE DEF x
  <2> QED
    BY DEF Refuses
<1>4. ~R[8] /\ ~R[10] /\ ~R[11] /\ ~R[12] /\ ~R[13] /\ ~R[19]
  <2> HIDE DEF x, R
  <2>1. ~TradeQuotaRefuses(x) /\ ~PositionLimitRefuses(x)
    BY <1>2 DEF TradeQuotaRefuses, PositionLimitRefuses
  <2>2. ~EntryBandRefuses(x) /\ ~ExchangeMinimumRefuses(x)
    BY <1>2 DEF EntryBandRefuses, ExchangeMinimumRefuses
  <2>3. ~LossLimitsRefuses(x) /\ ~AvailableBalanceRefuses(x)
    BY <1>2 DEF LossLimitsRefuses, AvailableBalanceRefuses
  <2> QED
    BY <1>3, <2>1, <2>2, <2>3
<1>5. \A i \in 1 .. 19 : ~R[i]
  <2> HIDE DEF R
  <2> QED
    BY <1>1, <1>4
<1> QED
  BY <1>5 DEF Evaluate

\* Quantizing is idempotent, goes down, and by less than a tick.
LEMMA Ladder ==
  ASSUME NEW p \in Int, NEW t \in Int, t > 0
  PROVE  /\ Quantized(p, t) \in Int
         /\ Quantized(p, t) <= p /\ p < Quantized(p, t) + t
         /\ Quantized(Quantized(p, t), t) = Quantized(p, t)
<1>1. p % t \in 0 .. t - 1
  OBVIOUS
<1>2. p = (p \div t) * t + (p % t)
  OBVIOUS
<1>3. Quantized(p, t) = (p \div t) * t
  BY <1>1, <1>2 DEF Quantized
<1>4. ((p \div t) * t) % t = 0
  BY Z3
<1> QED
  BY <1>1, <1>3, <1>4 DEF Quantized

\* A set of numbers has a least one.
LEMMA LeastOf ==
  ASSUME NEW S \in SUBSET Nat, S # {}
  PROVE  \E n \in S : \A k \in S : n <= k
<1>1. PICK n \in S : \A k \in S : ~ (<<k, n>> \in OpToRel(<, Nat))
  BY NatLessThanWellFounded, WFMin
<1>2. \A k \in S : n <= k
  <2> TAKE k \in S
  <2>1. k \in Nat /\ n \in Nat /\ ~ (<<k, n>> \in OpToRel(<, Nat))
    BY <1>1
  <2> QED
    BY <2>1 DEF OpToRel
<1> QED
  BY <1>2

\* A size that clears the minimum once cut to whole steps is one order.
LEMMA OneOrder ==
  ASSUME NEW total \in Int, NEW least \in Int, NEW step \in Int, least > 0, step > 0,
         Quantized(total, step) >= least
  PROVE  SplitSize(total, 1, least, step) # <<>>
<1> DEFINE q == Quantized(total, step)
<1>1. q \in Int
  BY Ladder
<1> HIDE DEF q
<1>2. 1 <= q \div least
  BY <1>1, Z3 DEF q
<1> DEFINE base == Quantized(q \div 1, step)
           size(i) == IF i <= (q - base * 1) \div step THEN base + step ELSE base
<1>3. SplitSize(total, 1, least, step) = [i \in 1 .. 1 |-> size(i)]
  BY <1>1, <1>2 DEF SplitSize, q
<1> HIDE DEF size
<1>4. 1 \in DOMAIN [i \in 1 .. 1 |-> size(i)] /\ 1 \notin DOMAIN <<>>
  OBVIOUS
<1> QED
  BY <1>3, <1>4

\* A window the builder accepted can trade, at its target or at a bid of its band.
LEMMA WindowTrades ==
  ASSUME NEW c, NEW w \in DOMAIN c.majority.windows, NEW least,
         Tradable(c.majority),
         c.trading["tick_size"] \in Int, c.trading["tick_size"] > 0,
         \A o \in DOMAIN c.majority.windows :
           WindowAccepts(o, c.majority.windows[o], c.trading["tick_size"], least),
         Reachable(c, c.majority.windows[w])
  PROVE  \E bid \in 1 .. One : Submits(c, w, ClearHealth, ClearMarket, "UP", bid)
<1> DEFINE s    == c.majority.windows[w]
           tick == c.trading["tick_size"]
           min  == s["majority_entry_price_min"]
           max  == s["majority_entry_price_max"]
           to   == s["majority_target_limit_price"]
<1>1. /\ min \in Int /\ max \in Int /\ to \in Int
      /\ s["majority_shares"] \in Int /\ s["majority_shares"] > 0
      /\ min > 0 /\ max - min >= tick /\ min <= to /\ to <= max
  BY DEF WindowAccepts, Number, Shared
<1>2. One \in Nat /\ One > 0
  BY OneAssumption
<1>5. OrderSizes(c, s) # <<>>
  <2> DEFINE shares == {c.majority.windows[o]["majority_shares"] : o \in DOMAIN c.majority.windows}
             n      == SmallestShares(c)
  <2>1. shares \subseteq Nat \ {0}
    BY DEF WindowAccepts, Number, Shared
  <2>2. shares # {} /\ shares \in SUBSET Nat
    BY <2>1
  <2>3. n \in shares
    <3>1. \E k \in shares : \A j \in shares : k <= j
      <4> HIDE DEF shares
      <4> QED
        BY <2>2, LeastOf
    <3> QED
      BY <3>1 DEF SmallestShares
  <2>4. n \in Nat /\ n > 0
    <3> HIDE DEF shares, n
    <3> QED
      BY <2>1, <2>3
  <2>5. Quantized(s["majority_shares"], Share) >= n
    BY DEF Reachable
  <2> HIDE DEF shares, n
  <2>6. SplitSize(s["majority_shares"], 1, n, Share) # <<>>
    BY <1>1, <2>4, <2>5, OneOrder, ShareAssumption
  <2> QED
    BY <2>6 DEF OrderSizes, n
<1> HIDE DEF s, tick
<1>3. CASE c.majority.triggerLimit
  <2>1. Price(c, w, 1) = [at |-> to]
    BY <1>3 DEF Price, s
  <2>2. Price(c, w, 1) # Unpriced /\ Price(c, w, 1).at = to
    BY <2>1 DEF Unpriced
  <2>3. Evaluate(Context(ClearHealth, ClearMarket, s, "UP", to)) = 0
    BY <1>1, ClearAllows
  <2>4. OnLadder(c, s, to)
    BY <1>1, <1>3 DEF OnLadder, Reachable, s
  <2>5. Submits(c, w, ClearHealth, ClearMarket, "UP", 1)
    BY <1>5, <2>2, <2>3, <2>4 DEF Submits, s
  <2> QED
    BY <2>5, <1>2
<1>4. CASE ~c.majority.triggerLimit
  <2> DEFINE bid == min + tick - 1
             p   == Quantized(bid, tick)
  <2>1. tick \in Int /\ tick > 0 /\ min + tick <= One
    BY <1>4 DEF Reachable, s, tick
  <2>2. bid \in 1 .. One
    BY <1>1, <1>2, <2>1
  <2>3. /\ p \in Int /\ p <= bid /\ bid < p + tick
        /\ Quantized(p, tick) = p
    <3>1. bid \in Int
      BY <1>1, <2>1
    <3> HIDE DEF bid
    <3> QED
      BY <2>1, <3>1, Ladder
  <2>4. min <= p /\ p <= max /\ p > 0
    BY <1>1, <2>1, <2>3
  <2> HIDE DEF bid, p
  <2>5. Price(c, w, bid) = [at |-> p]
    BY <1>4, <2>4 DEF Price, s, tick, p
  <2>6. Price(c, w, bid) # Unpriced /\ Price(c, w, bid).at = p
    BY <2>5 DEF Unpriced
  <2>7. Evaluate(Context(ClearHealth, ClearMarket, s, "UP", p)) = 0
    BY <1>1, <2>3, <2>4, ClearAllows
  <2>8. OnLadder(c, s, p)
    BY <1>1, <2>3, <2>4 DEF OnLadder, tick
  <2>9. Submits(c, w, ClearHealth, ClearMarket, "UP", bid)
    BY <1>5, <2>6, <2>7, <2>8 DEF Submits, s
  <2> QED
    BY <2>2, <2>9
<1> QED
  BY <1>3, <1>4

\* The configuration of the process is what the builders made of values they accepted.
Built ==
  running # NoConfig =>
    \E v : /\ running = Config(v)
           /\ TradingAccepts(v.flat) /\ Accepts(v, Trading(v.flat))

\* Only Boot sets it, and only from values that validated.
THEOREM OnlyBuiltRuns == Spec => []Built
<1>1. Init => Built
  BY DEF Init, Built
<1>2. Built /\ [Next]_vars => Built'
  <2> SUFFICES ASSUME Built, [Next]_vars
               PROVE  Built'
    OBVIOUS
  <2>1. CASE Boot
    BY <2>1 DEF Boot, Boots, Built
  <2>2. CASE Down
    BY <2>2 DEF Down, Built
  <2>3. CASE EditEnv \/ SaveConfig \/ LoadConfig \/ UNCHANGED vars
    BY <2>3 DEF EditEnv, SaveConfig, LoadConfig, vars, Built
  <2>4. CASE \E b \in Bodies : Save(b)
    BY <2>4 DEF Save, Built
  <2> QED
    BY <2>1, <2>2, <2>3, <2>4 DEF Next
<1> QED
  BY <1>1, <1>2, PTL DEF Spec

\* What the builders have checked of the windows of a configuration they made.
LEMMA BuiltWindows ==
  ASSUME NEW v, TradingAccepts(v.flat), Accepts(v, Trading(v.flat)),
         NEW c, c = Config(v), NEW w \in DOMAIN c.majority.windows
  PROVE  /\ Tradable(c.majority)
         /\ c.trading["tick_size"] \in Int /\ c.trading["tick_size"] > 0
         /\ \A o \in DOMAIN c.majority.windows :
              WindowAccepts(o, c.majority.windows[o], c.trading["tick_size"], c.trading["min_tradable_size"])
<1>1. c.majority = Majority(v) /\ c.trading = Trading(v.flat)
  BY DEF Config
<1>2. /\ c.trading["tick_size"] = v.flat["tick_size"]
      /\ v.flat["tick_size"] \in Int /\ v.flat["tick_size"] > 0
  <2>1. Trading(v.flat)["tick_size"] = v.flat["tick_size"]
    BY DEF Trading, TradingKeys, TradingNumbers
  <2>2. v.flat["tick_size"] \in Int /\ v.flat["tick_size"] > 0
    BY DEF TradingAccepts, BandValid, Number, TradingNumbers
  <2> QED
    BY <1>1, <2>1, <2>2
<1>3. Flag(v.flat, "majority_enabled")
  <2> SUFFICES ASSUME ~Flag(v.flat, "majority_enabled")
               PROVE  FALSE
    OBVIOUS
  <2>1. c.majority.windows = [o \in {} |-> NoKeys]
    BY <1>1 DEF Majority, Disabled
  <2> QED
    BY <2>1
<1>4. /\ c.majority.enabled
      /\ c.majority.windows = [o \in Windows(v.flat) |-> WindowValues(v, o)]
  BY <1>1, <1>3 DEF Majority
<1>5. Tradable(c.majority)
  BY <1>4 DEF Tradable
<1>6. \A o \in DOMAIN c.majority.windows :
        WindowAccepts(o, c.majority.windows[o], c.trading["tick_size"], c.trading["min_tradable_size"])
  BY <1>1, <1>3, <1>4 DEF Accepts, MajorityAccepts
<1> QED
  BY <1>2, <1>5, <1>6

\* Every window of a configuration that runs can trade: _build_one_window, _submit and
\* the gates agree for all settings, prices, sizes and ticks.
THEOREM WindowsCanTrade == Spec => []ConfiguredWindowsTrade
<1>1. Built => ConfiguredWindowsTrade
  <2> SUFFICES ASSUME Built, running # NoConfig,
                      NEW w \in DOMAIN running.majority.windows,
                      Reachable(running, running.majority.windows[w])
               PROVE  \E bid \in 1 .. One :
                        Submits(running, w, ClearHealth, ClearMarket, "UP", bid)
    BY DEF ConfiguredWindowsTrade
  <2>1. PICK v : /\ running = Config(v)
                 /\ TradingAccepts(v.flat) /\ Accepts(v, Trading(v.flat))
    BY DEF Built
  <2> QED
    BY <2>1, BuiltWindows, WindowTrades
<1> QED
  BY <1>1, OnlyBuiltRuns, PTL

\* One tick up or down from the ladder is on the ladder.
LEMMA LadderStep ==
  ASSUME NEW p \in Int, NEW t \in Int, t > 0, Quantized(p, t) = p
  PROVE  Quantized(p + t, t) = p + t /\ Quantized(p - t, t) = p - t
<1> DEFINE k == p \div t
<1>1. k \in Int /\ p % t = 0 /\ p = k * t + (p % t)
  BY DEF Quantized
<1>2. p + t = (k + 1) * t /\ p - t = (k - 1) * t
  <2> HIDE DEF k
  <2> QED
    BY <1>1
<1>3. \A j \in Int : (j * t) % t = 0
  BY Z3
<1>4. (p + t) % t = 0 /\ (p - t) % t = 0
  <2> HIDE DEF k
  <2>1. k + 1 \in Int /\ k - 1 \in Int
    BY <1>1
  <2> QED
    BY <1>2, <1>3, <2>1
<1> QED
  BY <1>4 DEF Quantized

\* A move keeps what the gates approved, for every band, tick and price: with it, a chain of
\* any length stays in the band of its window and on the ladder.
THEOREM MoveKeepsApproval ==
  ASSUME NEW c, NEW w, NEW side \in {"UP", "DOWN"}, NEW price \in Int,
         c.trading["tick_size"] \in Int, c.trading["tick_size"] > 0,
         c.majority.windows[w]["majority_entry_price_min"] \in Int,
         c.majority.windows[w]["majority_entry_price_max"] \in Int,
         Approved(c, w, side, price)
  PROVE  /\ Target(c, w, side, price) \in Int
         /\ Approved(c, w, side, Target(c, w, side, price))
<1> DEFINE s    == c.majority.windows[w]
           tick == c.trading["tick_size"]
           to   == IF side = "UP" THEN price + tick ELSE price - tick
           move == Target(c, w, side, price)
<1>1. /\ OnLadder(c, s, price)
      /\ price > 0 /\ Quantized(price, tick) = price /\ s["majority_shares"] > 0
  BY DEF Approved, OnLadder
<1>2. CASE move = price
  BY <1>2
<1>3. CASE move # price
  <2>1. /\ move = to /\ to > 0
        /\ to >= s["majority_entry_price_min"] /\ to <= s["majority_entry_price_max"]
    BY <1>3 DEF Target, Band
  <2>2. to \in Int /\ Quantized(to, tick) = to
    <3>1. CASE side = "UP"
      <4>1. to = price + tick
        BY <3>1
      <4> QED
        BY <4>1, <1>1, LadderStep
    <3>2. CASE side # "UP"
      <4>1. to = price - tick
        BY <3>2
      <4> QED
        BY <4>1, <1>1, LadderStep
    <3> QED
      BY <3>1, <3>2
  <2> HIDE DEF to
  <2>3. OnLadder(c, s, to)
    BY <1>1, <2>1, <2>2 DEF OnLadder
  <2>4. ~EntryBandRefuses(Context(ClearHealth, ClearMarket, s, side, to))
    <3> DEFINE x == Context(ClearHealth, ClearMarket, s, side, to)
    <3>1. /\ x.price = to
          /\ x.limits.max = s["majority_entry_price_max"]
          /\ x.limits.min = s["majority_entry_price_min"]
      BY DEF Context, Limits
    <3> HIDE DEF x
    <3> QED
      BY <2>1, <2>2, <3>1 DEF EntryBandRefuses, x
  <2> QED
    BY <2>1, <2>2, <2>3, <2>4 DEF Approved
<1> QED
  BY <1>2, <1>3

\* The price an order is submitted at is approved: it is gate 11 that looked at it.
LEMMA SubmittedIsApproved ==
  ASSUME NEW c, NEW w, NEW h, NEW m, NEW side, NEW bid, Submits(c, w, h, m, side, bid)
  PROVE  Approved(c, w, side, Price(c, w, bid).at)
<1> DEFINE s     == c.majority.windows[w]
           price == Price(c, w, bid).at
           x     == Context(h, m, s, side, price)
           y     == Context(ClearHealth, ClearMarket, s, side, price)
<1>1. OnLadder(c, s, price) /\ Evaluate(x) = 0
  BY DEF Submits
<1>2. x.price = y.price /\ x.limits = y.limits
  BY DEF Context
<1>3. ~Refuses(x)[11]
  <2> HIDE DEF x
  <2> SUFFICES ASSUME Refuses(x)[11]
               PROVE  FALSE
    OBVIOUS
  <2>1. Evaluate(x) \in 1 .. 11
    BY FirstRefusal
  <2> QED
    BY <1>1, <2>1
<1>4. ~EntryBandRefuses(x)
  <2> HIDE DEF x
  <2> QED
    BY <1>3 DEF Refuses
<1>5. ~EntryBandRefuses(y)
  <2> HIDE DEF x, y
  <2> QED
    BY <1>2, <1>4 DEF EntryBandRefuses
<1> QED
  BY <1>1, <1>5 DEF Approved

\* A chain rests where it was placed and, if it is moved, where its moves take it.
LEMMA RestsAfterMoves ==
  ASSUME NEW c, NEW w, NEW side, NEW price, NEW p \in Rests(c, w, side, price)
  PROVE  LET p1 == Target(c, w, side, price)
             p2 == Target(c, w, side, p1)
             p3 == Target(c, w, side, p2)
         IN  p \in {price, p1, p2, p3}
<1> DEFINE T(q) == Target(c, w, side, q)
           F(g) == [n \in 0 .. MaxMoves |-> IF n = 0 THEN price ELSE T(g[n - 1])]
           after == CHOOSE g : g = F(g)
           chain == [n \in 0 .. MaxMoves |->
                       CASE n = 0 -> price [] n = 1 -> T(price) [] n = 2 -> T(T(price))
                         [] OTHER -> T(T(T(price)))]
<1>1. p \in {after[n] : n \in 0 .. MaxMoves} \cup {price}
  BY DEF Rests
<1> HIDE DEF T
<1>2. chain = F(chain)
  BY DEF MaxMoves
<1>3. after = F(after)
  BY <1>2
<1> HIDE DEF after, chain
<1>4. /\ after[0] = price /\ after[1] = T(after[0]) /\ after[2] = T(after[1])
      /\ after[3] = T(after[2])
  BY <1>3 DEF MaxMoves
<1>5. p \in {price, after[0], after[1], after[2], after[3]}
  BY <1>1 DEF MaxMoves
<1> QED
  BY <1>4, <1>5 DEF T

\* Whatever configuration a process starts with, an order of it that is submitted and then
\* moved rests, at every generation, at a price the gates would have approved
\* (_majority_repricers, RepricePolicy.target).
THEOREM ChainsStayApproved == Spec => MovesStayApproved
<1>1. ASSUME Built', running' # NoConfig,
             NEW w \in DOMAIN running'.majority.windows, NEW side \in {"UP", "DOWN"},
             NEW bid \in 1 .. One, Submits(running', w, ClearHealth, ClearMarket, side, bid),
             NEW p \in Rests(running', w, side, Price(running', w, bid).at)
      PROVE  Approved(running', w, side, p)
  <2> DEFINE c == running'
             s == c.majority.windows[w]
             price == Price(c, w, bid).at
  <2>1. PICK v : /\ c = Config(v)
                 /\ TradingAccepts(v.flat) /\ Accepts(v, Trading(v.flat))
    BY <1>1 DEF Built
  <2>2. /\ c.trading["tick_size"] \in Int /\ c.trading["tick_size"] > 0
        /\ WindowAccepts(w, s, c.trading["tick_size"], c.trading["min_tradable_size"])
    BY <1>1, <2>1, BuiltWindows
  <2>3. /\ s["majority_entry_price_min"] \in Int /\ s["majority_entry_price_max"] \in Int
        /\ s["majority_target_limit_price"] \in Int
    BY <2>2 DEF WindowAccepts, Number, Shared
  <2>4. Approved(c, w, side, price)
    BY <1>1, SubmittedIsApproved
  <2>5. price \in Int
    <3>1. Price(c, w, bid) # Unpriced
      BY <1>1 DEF Submits
    <3>2. Quantized(bid, c.trading["tick_size"]) \in Int
      <4>1. \A t \in Int : t > 0 => Quantized(bid, t) \in Int
        BY Ladder, OneAssumption
      <4> QED
        BY <2>2, <4>1
    <3> QED
      BY <2>3, <3>1, <3>2 DEF Price
  <2> HIDE DEF s, price
  <2>6. \A q \in Int : Approved(c, w, side, q) =>
          Target(c, w, side, q) \in Int /\ Approved(c, w, side, Target(c, w, side, q))
    BY <2>2, <2>3, MoveKeepsApproval DEF s
  <2> DEFINE p1 == Target(c, w, side, price)
             p2 == Target(c, w, side, p1)
             p3 == Target(c, w, side, p2)
  <2>7. p \in {price, p1, p2, p3}
    BY <1>1, RestsAfterMoves DEF price
  <2>8. p1 \in Int /\ Approved(c, w, side, p1)
    BY <2>4, <2>5, <2>6
  <2> HIDE DEF p1
  <2>9. p2 \in Int /\ Approved(c, w, side, p2)
    BY <2>6, <2>8
  <2> HIDE DEF p2
  <2>10. p3 \in Int /\ Approved(c, w, side, p3)
    BY <2>6, <2>9
  <2> HIDE DEF p3
  <2> QED
    BY <2>4, <2>7, <2>8, <2>9, <2>10
<1> DEFINE Stay == running' # running /\ running' # NoConfig =>
                     \A w \in DOMAIN running'.majority.windows, side \in {"UP", "DOWN"}, bid \in 1 .. One :
                       Submits(running', w, ClearHealth, ClearMarket, side, bid) =>
                         \A p \in Rests(running', w, side, Price(running', w, bid).at) :
                           Approved(running', w, side, p)
<1>2. Built' => Stay
  BY <1>1
<1>3. Built' => [Stay]_vars
  BY <1>2
<1> HIDE DEF Stay
<1>4. Spec => [][Stay]_vars
  BY <1>3, OnlyBuiltRuns, PTL
<1> QED
  BY <1>4 DEF MovesStayApproved, Stay
------------------------------------------------------------------------------
(* What was accepted runs *)

\* A finite set of numbers can be listed in ascending order: each at its rank.
LEMMA AscendingExists ==
  ASSUME NEW S \in SUBSET Int, IsFiniteSet(S)
  PROVE  \E s \in [1 .. Cardinality(S) -> S] : \A i, j \in DOMAIN s : i < j => s[i] < s[j]
<1> DEFINE n == Cardinality(S)
           below(x) == {y \in S : y <= x}
           rank == [x \in S |-> Cardinality(below(x))]
<1>1. n \in Nat
  BY FS_CardinalityType
<1>2. \A x \in S : IsFiniteSet(below(x)) /\ Cardinality(below(x)) <= n
  BY FS_Subset
<1>3. \A x \in S : rank[x] \in 1 .. n
  <2> TAKE x \in S
  <2>1. Cardinality(below(x)) \in Nat
    BY <1>2, FS_CardinalityType
  <2>2. x \in below(x)
    OBVIOUS
  <2>3. Cardinality(below(x)) # 0
    BY <1>2, <2>2, FS_EmptySet
  <2> QED
    BY <1>1, <1>2, <2>1, <2>3
<1>4. \A x, y \in S : x < y => rank[x] < rank[y]
  <2> SUFFICES ASSUME NEW x \in S, NEW y \in S, x < y
               PROVE  Cardinality(below(x)) < Cardinality(below(y))
    OBVIOUS
  <2>1. below(x) \in SUBSET below(y)
    <3> SUFFICES ASSUME NEW z \in S, z <= x
                 PROVE  z <= y
      OBVIOUS
    <3>1. x \in Int /\ y \in Int /\ z \in Int
      OBVIOUS
    <3> QED
      BY <3>1
  <2>2. y \in below(y) /\ y \notin below(x)
    OBVIOUS
  <2>3. IsFiniteSet(below(x)) /\ IsFiniteSet(below(y))
    BY <1>2
  <2> HIDE DEF below
  <2>4. /\ Cardinality(below(x)) <= Cardinality(below(y))
        /\ Cardinality(below(x)) # Cardinality(below(y))
    BY <2>1, <2>2, <2>3, FS_Subset
  <2>5. Cardinality(below(x)) \in Nat /\ Cardinality(below(y)) \in Nat
    BY <2>3, FS_CardinalityType
  <2> QED
    BY <2>4, <2>5
<1> HIDE DEF below
<1>5. rank \in Injection(S, 1 .. n)
  <2>1. rank \in [S -> 1 .. n]
    BY <1>3
  <2>2. \A x, y \in S : rank[x] = rank[y] => x = y
    <3> SUFFICES ASSUME NEW x \in S, NEW y \in S, rank[x] = rank[y], x # y
                 PROVE  FALSE
      OBVIOUS
    <3>1. x < y \/ y < x
      OBVIOUS
    <3>2. rank[x] \in Int /\ rank[y] \in Int
      BY <1>3
    <3> HIDE DEF rank
    <3> QED
      BY <1>4, <3>1, <3>2
  <2> HIDE DEF rank, n
  <2> QED
    BY <2>1, <2>2 DEF Injection, IsInjective
<1>6. rank \in Surjection(S, 1 .. n)
  <2>1. IsFiniteSet(1 .. n) /\ Cardinality(1 .. n) = n
    BY <1>1, FS_Interval
  <2> HIDE DEF rank
  <2> QED
    BY <1>5, <2>1, FS_Injection
<1> HIDE DEF rank
<1>7. \A i \in 1 .. n : \E x \in S : rank[x] = i
  BY <1>6 DEF Surjection
<1> DEFINE s == [i \in 1 .. n |-> CHOOSE x \in S : rank[x] = i]
<1>8. \A i \in 1 .. n : s[i] \in S /\ rank[s[i]] = i
  BY <1>7
<1>9. s \in [1 .. n -> S]
  BY <1>8
<1>10. ASSUME NEW i \in 1 .. n, NEW j \in 1 .. n, i < j
       PROVE  s[i] < s[j]
  <2>1. s[i] \in Int /\ s[j] \in Int /\ rank[s[i]] = i /\ rank[s[j]] = j
    BY <1>8
  <2> HIDE DEF s
  <2>2. s[i] # s[j]
    BY <1>10, <2>1
  <2>3. ~ (s[j] < s[i])
    <3> SUFFICES ASSUME s[j] < s[i]
                 PROVE  FALSE
      OBVIOUS
    <3>1. rank[s[j]] < rank[s[i]]
      BY <1>4, <1>8
    <3> QED
      BY <1>10, <2>1, <3>1
  <2> QED
    BY <2>1, <2>2, <2>3
<1> HIDE DEF s
<1> QED
  BY <1>9, <1>10

\* Ascending(S) is strictly ascending, and has the members of S.
LEMMA AscendingSorts ==
  ASSUME NEW S \in SUBSET Int, IsFiniteSet(S)
  PROVE  /\ Ascending(S) \in [1 .. Cardinality(S) -> S] /\ Cardinality(S) \in Nat
         /\ \A i, j \in 1 .. Cardinality(S) : i # j => Ascending(S)[i] # Ascending(S)[j]
         /\ Members(Ascending(S)) = S
         /\ Ascending(S) \in Seq(Int) /\ Len(Ascending(S)) = Cardinality(S)
<1> DEFINE n == Cardinality(S)
           s == Ascending(S)
<1>1. n \in Nat
  BY FS_CardinalityType
<1>2. s \in [1 .. n -> S] /\ \A i, j \in DOMAIN s : i < j => s[i] < s[j]
  BY AscendingExists DEF Ascending
<1> HIDE DEF n, s
<1>3. \A i, j \in 1 .. n : i # j => s[i] # s[j]
  <2> SUFFICES ASSUME NEW i \in 1 .. n, NEW j \in 1 .. n, i # j
               PROVE  s[i] # s[j]
    OBVIOUS
  <2>1. i < j \/ j < i
    BY <1>1
  <2>2. s[i] \in Int /\ s[j] \in Int
    BY <1>2
  <2> QED
    BY <1>2, <2>1, <2>2
<1>4. s \in Surjection(1 .. n, S)
  <2>1. s \in Injection(1 .. n, S)
    BY <1>2, <1>3 DEF Injection, IsInjective
  <2>2. Cardinality(1 .. n) = n
    BY <1>1, FS_Interval
  <2> QED
    BY <2>1, <2>2, FS_Injection DEF n
<1>5. Members(s) = S
  BY <1>2, <1>4 DEF Members, Surjection
<1>6. s \in Seq(Int) /\ Len(s) = n
  <2>1. s \in [1 .. n -> Int]
    BY <1>2
  <2> QED
    BY <1>1, <2>1
<1> QED
  BY <1>1, <1>2, <1>3, <1>5, <1>6 DEF n, s

\* The members of a list of numbers are finitely many numbers.
LEMMA MembersFinite ==
  ASSUME NEW w \in Seq(Int)
  PROVE  Members(w) \in SUBSET Int /\ IsFiniteSet(Members(w))
<1>1. w \in Surjection(1 .. Len(w), Members(w))
  BY DEF Surjection, Members
<1>2. IsFiniteSet(1 .. Len(w))
  BY FS_Interval
<1>3. IsFiniteSet(Members(w))
  BY <1>1, <1>2, FS_Surjection
<1> QED
  BY <1>3 DEF Members

\* The trading half reads its own keys and no other.
LEMMA SameTrading ==
  ASSUME NEW f, NEW h, TradingAccepts(f),
         \A k \in TradingKeys :
           (k \in DOMAIN h <=> k \in DOMAIN f) /\ (k \in DOMAIN f => h[k] = f[k])
  PROVE  TradingAccepts(h) /\ Trading(h) = Trading(f)
<1>1. \A k \in TradingNumbers \cup {"execution_windows", "buffers"} :
        k \in DOMAIN f /\ k \in DOMAIN h /\ h[k] = f[k]
  BY DEF TradingAccepts, Number, Parses, Given, TradingKeys
<1>2. /\ IsFlag(h, "allow_opposing_directions")
      /\ Flag(h, "allow_opposing_directions") = Flag(f, "allow_opposing_directions")
  BY DEF TradingAccepts, IsFlag, Flag, TradingKeys
<1>3. /\ \A k \in TradingNumbers : Number(h, k)
      /\ \A k \in {"execution_windows", "buffers"} : Parses(h, k)
  BY <1>1 DEF TradingAccepts, Number, Parses, Given
<1>4. /\ OffsetsValid(h) /\ BuffersValid(h)
  BY <1>1 DEF TradingAccepts, OffsetsValid, BuffersValid
<1>5. CapsValid(h) /\ BandValid(h) /\ SplitsValid(h) /\ SweepValid(h) /\ ThresholdsValid(h)
  BY <1>1 DEF TradingAccepts, TradingNumbers, CapsValid, BandValid, SplitsValid, SweepValid,
              ThresholdsValid
<1>6. Trading(h) = Trading(f)
  <2> DEFINE sound(g, ws, bs) ==
               LET windows == Ascending(Members(ws))
                   buffer(o) == CHOOSE b \in Members(bs) : b[1] = o IN
               [k \in TradingKeys |->
                  CASE k = "execution_windows" -> windows
                    [] k = "buffers" -> [i \in DOMAIN windows |-> buffer(windows[i])]
                    [] k = "allow_opposing_directions" -> Flag(g, k)
                    [] OTHER -> g[k]]
  <2>1. /\ Trading(f) = sound(f, f["execution_windows"], f["buffers"])
        /\ Trading(h) = sound(h, h["execution_windows"], h["buffers"])
    BY Zenon DEF Trading
  <2>2. ASSUME NEW ws, NEW bs
        PROVE  sound(h, ws, bs) = sound(f, ws, bs)
    <3> DEFINE windows == Ascending(Members(ws))
               buffers == [i \in DOMAIN windows |->
                             CHOOSE b \in Members(bs) : b[1] = windows[i]]
               value(g, k) == CASE k = "execution_windows" -> windows
                                [] k = "buffers" -> buffers
                                [] k = "allow_opposing_directions" -> Flag(g, k)
                                [] OTHER -> g[k]
    <3>1. /\ sound(f, ws, bs) = [k \in TradingKeys |-> value(f, k)]
          /\ sound(h, ws, bs) = [k \in TradingKeys |-> value(h, k)]
      BY Zenon
    <3> HIDE DEF windows, buffers, sound
    <3>2. \A k \in TradingKeys : value(h, k) = value(f, k)
      BY <1>1, <1>2 DEF TradingKeys
    <3> HIDE DEF value
    <3> QED
      BY <3>1, <3>2
  <2> HIDE DEF sound
  <2> QED
    BY <1>1, <2>1, <2>2
<1> QED
  BY <1>2, <1>3, <1>4, <1>5, <1>6 DEF TradingAccepts

\* The keys .env fills in where a table that validated lacks them change nothing: every
\* switch is there, and a window that lacked a number would not have validated.
LEMMA FillChangesNothing ==
  ASSUME NEW f, NEW o, NEW g, DOMAIN g = MajorityKeys, NEW tick, NEW least,
         Complete([flat |-> f, over |-> o]),
         TradingAccepts(f), MajorityAccepts([flat |-> f, over |-> o], tick, least)
  PROVE  /\ TradingAccepts(Over(g, f))
         /\ MajorityAccepts([flat |-> Over(g, f), over |-> o], tick, least)
         /\ Config([flat |-> Over(g, f), over |-> o]) = Config([flat |-> f, over |-> o])
<1> DEFINE h == Over(g, f)
           v == [flat |-> f, over |-> o]
           w == [flat |-> h, over |-> o]
<1>1. /\ \A k \in DOMAIN f : k \in DOMAIN h /\ h[k] = f[k]
      /\ DOMAIN h = DOMAIN f \cup MajorityKeys
  BY DEF Over
<1> HIDE DEF h
<1>2. TradingAccepts(h) /\ Trading(h) = Trading(f)
  <2>1. \A k \in TradingKeys : k \notin MajorityKeys
    BY DEF TradingKeys, TradingNumbers, MajorityKeys, Switches, Shared
  <2> QED
    BY <1>1, <2>1, SameTrading
<1>3. \A k \in {"majority_enabled", "majority_price_retry_attempts", "majority_execution_windows"}
                 \cup Switches : k \in DOMAIN f /\ k \in DOMAIN h /\ h[k] = f[k]
  BY <1>1 DEF Complete
<1>4. /\ Flag(h, "majority_enabled") <=> Flag(f, "majority_enabled")
      /\ IsFlag(h, "majority_enabled")
      /\ \A k \in Switches : (Flag(h, k) <=> Flag(f, k)) /\ (IsFlag(h, k) <=> IsFlag(f, k))
  BY <1>3 DEF Flag, IsFlag, MajorityAccepts
<1>5. /\ AttemptsValid(h) <=> AttemptsValid(f)
      /\ Given(h, "majority_price_retry_attempts") <=> Given(f, "majority_price_retry_attempts")
  BY <1>3 DEF AttemptsValid, Given
<1>6. /\ WindowsRead(h) <=> WindowsRead(f)
      /\ Windows(h) = Windows(f)
  <2>1. /\ LegacyKey \in DOMAIN h <=> LegacyKey \in DOMAIN f
        /\ LegacyKey \in DOMAIN f => h[LegacyKey] = f[LegacyKey]
    BY <1>1 DEF LegacyKey, MajorityKeys, Switches, Shared
  <2> QED
    BY <1>3, <2>1 DEF WindowsRead, Windows, Given
<1>7. CASE ~Flag(f, "majority_enabled")
  <2>1. Majority(w) = Majority(v)
    BY <1>4, <1>7 DEF Majority
  <2>2. MajorityAccepts(w, tick, least)
    BY <1>4, <1>7 DEF MajorityAccepts
  <2> QED
    BY <1>2, <2>1, <2>2 DEF Config, h
<1>8. CASE Flag(f, "majority_enabled")
  <2>1. \A x \in Windows(f) : WindowAccepts(x, WindowValues(v, x), tick, least)
    BY <1>8 DEF MajorityAccepts
  <2>2. \A x \in Windows(f) : WindowValues(w, x) = WindowValues(v, x)
    <3> TAKE x \in Windows(f)
    <3>1. \A k \in Shared : WindowValues(v, x)[k] \in Int
      BY <2>1 DEF WindowAccepts, Number
    <3>2. \A k \in Shared : WindowValues(w, x)[k] = WindowValues(v, x)[k]
      <4> TAKE k \in Shared
      <4>1. CASE Given(o, <<x, k>>)
        BY <4>1 DEF WindowValues
      <4>2. CASE ~Given(o, <<x, k>>)
        <5>1. WindowValues(v, x)[k] = IF k \in DOMAIN f THEN f[k] ELSE Blank
          BY <4>2 DEF WindowValues
        <5>2. WindowValues(w, x)[k] = IF k \in DOMAIN h THEN h[k] ELSE Blank
          BY <4>2 DEF WindowValues
        <5>3. k \in DOMAIN f
          BY <3>1, <5>1, TextAssumption
        <5> QED
          BY <1>1, <5>1, <5>2, <5>3
      <4> QED
        BY <4>1, <4>2
    <3> QED
      BY <3>2 DEF WindowValues
  <2>3. MajorityAccepts(w, tick, least)
    <3>1. \A x \in Windows(h) : WindowAccepts(x, WindowValues(w, x), tick, least)
      BY <1>6, <2>1, <2>2
    <3>2. AttemptsValid(h) /\ WindowsRead(h) /\ \A k \in Switches : IsFlag(h, k)
      BY <1>4, <1>5, <1>6, <1>8 DEF MajorityAccepts
    <3> QED
      BY <1>4, <3>1, <3>2 DEF MajorityAccepts
  <2>4. Majority(w) = Majority(v)
    <3>1. [x \in Windows(h) |-> WindowValues(w, x)] = [x \in Windows(f) |-> WindowValues(v, x)]
      BY <1>6, <2>2
    <3>2. (IF Given(h, "majority_price_retry_attempts")
             THEN h["majority_price_retry_attempts"] ELSE 5)
            = (IF Given(f, "majority_price_retry_attempts")
                 THEN f["majority_price_retry_attempts"] ELSE 5)
      BY <1>3, <1>5
    <3>3. \A k \in Switches : Flag(h, k) = Flag(f, k)
      BY <1>4 DEF Flag
    <3> QED
      BY <1>4, <1>8, <3>1, <3>2, <3>3 DEF Majority, Switches
  <2> QED
    BY <1>2, <2>3, <2>4 DEF Config, h
<1> QED
  BY <1>7, <1>8

\* The trading half of a configuration, written to the table and read again, is accepted
\* and is the same: the windows stay in order, and each finds its own buffer.
LEMMA TradingRoundTrip ==
  ASSUME NEW f, TradingAccepts(f),
         f["execution_windows"] \in Seq(Int), f["buffers"] \in Seq(Int \X Int)
  PROVE  TradingAccepts(Trading(f)) /\ Trading(Trading(f)) = Trading(f)
<1> DEFINE t == Trading(f)
           ws == f["execution_windows"]
           bs == f["buffers"]
           A == Ascending(Members(ws))
           n == Cardinality(Members(ws))
           buffer(o) == CHOOSE b \in Members(bs) : b[1] = o
           nb == [i \in DOMAIN A |-> buffer(A[i])]
           value(k) == CASE k = "execution_windows" -> A
                         [] k = "buffers" -> nb
                         [] k = "allow_opposing_directions" -> Flag(f, k)
                         [] OTHER -> f[k]
<1>1. /\ A \in [1 .. n -> Members(ws)] /\ n \in Nat
      /\ \A i, j \in 1 .. n : i # j => A[i] # A[j]
      /\ Members(A) = Members(ws)
      /\ A \in Seq(Int) /\ Len(A) = n
  BY MembersFinite, AscendingSorts
<1>2. t = [k \in TradingKeys |-> value(k)]
  BY Zenon DEF Trading
<1> HIDE DEF A, buffer, nb, n
<1>3. /\ DOMAIN t = TradingKeys
      /\ t["execution_windows"] = A /\ t["buffers"] = nb
      /\ t["allow_opposing_directions"] = Flag(f, "allow_opposing_directions")
      /\ \A k \in TradingNumbers : t[k] = f[k]
  BY <1>2 DEF TradingKeys, TradingNumbers
<1> HIDE DEF t
<1>4. OffsetsValid(f) /\ BuffersValid(f)
  BY DEF TradingAccepts
<1>5. DOMAIN nb = 1 .. n /\ DOMAIN A = 1 .. n
  BY <1>1 DEF nb
<1>6. \A i \in 1 .. n : nb[i] \in Members(bs) /\ nb[i][1] = A[i] /\ nb[i][2] > 0
  <2> TAKE i \in 1 .. n
  <2>1. A[i] \in Members(ws)
    BY <1>1
  <2>2. \E b \in Members(bs) : b[1] = A[i]
    <3>1. {bs[k][1] : k \in DOMAIN bs} = Members(ws)
      BY <1>4 DEF BuffersValid
    <3>2. PICK k \in DOMAIN bs : bs[k][1] = A[i]
      BY <2>1, <3>1
    <3>3. bs[k] \in Members(bs)
      BY DEF Members
    <3> QED
      BY <3>2, <3>3
  <2>3. nb[i] = buffer(A[i])
    BY <1>5 DEF nb
  <2>4. nb[i] \in Members(bs) /\ nb[i][1] = A[i]
    BY <2>2, <2>3 DEF buffer
  <2>5. \A b \in Members(bs) : b[2] > 0
    BY <1>4 DEF BuffersValid, Members
  <2> QED
    BY <2>4, <2>5
<1>7. Members(ws) # {} /\ n # 0
  <2>1. 1 \in DOMAIN ws
    BY <1>4 DEF OffsetsValid
  <2>2. Members(ws) # {}
    BY <2>1 DEF Members
  <2> QED
    BY <2>2, MembersFinite, FS_EmptySet DEF n
<1>8. OffsetsValid(t)
  BY <1>1, <1>3, <1>4, <1>7 DEF OffsetsValid, n
<1>9. BuffersValid(t)
  <2>1. nb # <<>>
    BY <1>1, <1>5, <1>7
  <2>2. \A i, j \in DOMAIN nb : nb[i][1] = nb[j][1] => i = j
    BY <1>1, <1>5, <1>6
  <2>3. {nb[i][1] : i \in DOMAIN nb} = Members(A)
    BY <1>5, <1>6 DEF Members
  <2>4. \A i \in DOMAIN nb : nb[i][2] > 0
    BY <1>5, <1>6
  <2> QED
    BY <1>3, <2>1, <2>2, <2>3, <2>4 DEF BuffersValid
<1>10. CapsValid(t) /\ BandValid(t) /\ SplitsValid(t) /\ SweepValid(t) /\ ThresholdsValid(t)
  BY <1>1, <1>3 DEF TradingAccepts, TradingNumbers, CapsValid, BandValid, SplitsValid,
                    SweepValid, ThresholdsValid
<1>11. /\ \A k \in TradingNumbers : Number(t, k)
       /\ \A k \in {"execution_windows", "buffers"} : Parses(t, k)
       /\ IsFlag(t, "allow_opposing_directions")
  <2>1. \A k \in TradingNumbers : Number(t, k)
    BY <1>3 DEF TradingAccepts, Number, TradingKeys
  <2>2. nb \in Seq(Int \X Int)
    <3>1. \A i \in 1 .. n : nb[i] \in Int \X Int
      BY <1>6 DEF Members
    <3> DEFINE P == Int \X Int
    <3>2. nb \in [1 .. n -> P]
      BY <1>5, <3>1 DEF nb
    <3> HIDE DEF P
    <3>3. nb \in Seq(P)
      BY <1>1, <3>2
    <3> QED
      BY <3>3 DEF P
  <2>3. \A k \in {"execution_windows", "buffers"} : Parses(t, k)
    BY <1>1, <1>3, <2>2, TextAssumption DEF Parses, Given, TradingKeys
  <2>4. IsFlag(t, "allow_opposing_directions")
    BY <1>3, TextAssumption DEF IsFlag, Flag
  <2> QED
    BY <2>1, <2>3, <2>4
<1>12. Trading(t) = t
  <2> DEFINE again(o) == CHOOSE b \in Members(nb) : b[1] = o
             nb2 == [i \in DOMAIN A |-> again(A[i])]
             value2(k) == CASE k = "execution_windows" -> A
                            [] k = "buffers" -> nb2
                            [] k = "allow_opposing_directions" -> Flag(t, k)
                            [] OTHER -> t[k]
  <2>1. Trading(t) = [k \in TradingKeys |-> value2(k)]
    <3> DEFINE sound(W, B) ==
                 [k \in TradingKeys |->
                    CASE k = "execution_windows" -> W
                      [] k = "buffers" ->
                           [i \in DOMAIN W |-> CHOOSE b \in Members(B) : b[1] = W[i]]
                      [] k = "allow_opposing_directions" -> Flag(t, k)
                      [] OTHER -> t[k]]
    <3>1. Trading(t) = sound(Ascending(Members(t["execution_windows"])), t["buffers"])
      BY Zenon DEF Trading
    <3>2. Ascending(Members(t["execution_windows"])) = A
      BY <1>1, <1>3 DEF A
    <3>3. sound(A, nb) = [k \in TradingKeys |-> value2(k)]
      BY Zenon
    <3> HIDE DEF sound, value2
    <3> QED
      BY <1>3, <3>1, <3>2, <3>3
  <2>2. \A i \in 1 .. n : again(A[i]) = nb[i]
    <3> TAKE i \in 1 .. n
    <3>1. nb[i] \in Members(nb) /\ nb[i][1] = A[i]
      BY <1>5, <1>6 DEF Members
    <3>2. \A b \in Members(nb) : b[1] = A[i] => b = nb[i]
      <4> SUFFICES ASSUME NEW j \in 1 .. n, nb[j][1] = A[i]
                   PROVE  nb[j] = nb[i]
        BY <1>5 DEF Members
      <4> QED
        BY <1>1, <1>6
    <3> QED
      BY <3>1, <3>2
  <2> HIDE DEF again
  <2>3. nb2 = nb
    BY <1>5, <2>2 DEF nb
  <2>4. Flag(t, "allow_opposing_directions") = t["allow_opposing_directions"]
    BY <1>3 DEF Flag, TradingKeys
  <2> HIDE DEF nb2
  <2>5. \A k \in TradingKeys : value2(k) = value(k)
    BY <1>3, <2>3, <2>4 DEF TradingKeys
  <2> HIDE DEF value, value2
  <2> QED
    BY <1>2, <2>1, <2>5
<1> QED
  BY <1>8, <1>9, <1>10, <1>11, <1>12 DEF TradingAccepts, t

\* The switch keys, which MajorityRows always writes.
SwitchKeys ==
  {"majority_enabled", "majority_price_retry_attempts", "majority_execution_windows"}
    \cup Switches

\* What MajorityRows writes under them.
LEMMA SwitchesWritten ==
  ASSUME NEW m
  PROVE  LET r == MajorityRows(m).flat IN
         /\ SwitchKeys \subseteq DOMAIN r
         /\ DOMAIN m.windows = {} => DOMAIN r = SwitchKeys
         /\ r["majority_enabled"] = m.enabled
         /\ r["majority_trigger_limit_enabled"] = m.triggerLimit
         /\ r["majority_buffer_enabled"] = m.bufferOn
         /\ r["majority_price_retry_enabled"] = m.retry
         /\ r["majority_price_retry_attempts"] = m.attempts
         /\ r["majority_execution_windows"] =
              IF DOMAIN m.windows = {} THEN Blank ELSE Ascending(DOMAIN m.windows)
<1> DEFINE W == DOMAIN m.windows
           lowest == CHOOSE w \in W : \A x \in W : w <= x
           low == IF W = {} THEN NoKeys ELSE m.windows[lowest]
           list == IF W = {} THEN Blank ELSE Ascending(W)
           new == [majority_enabled |-> m.enabled,
                   majority_trigger_limit_enabled |-> m.triggerLimit,
                   majority_buffer_enabled |-> m.bufferOn,
                   majority_price_retry_enabled |-> m.retry,
                   majority_price_retry_attempts |-> m.attempts,
                   majority_execution_windows |-> list]
<1>1. MajorityRows(m).flat = Over(low, new)
  BY DEF MajorityRows
<1>2. SwitchKeys = DOMAIN new
  BY DEF SwitchKeys, Switches
<1>5. W = {} => DOMAIN Over(low, new) = SwitchKeys
  BY <1>2 DEF Over, NoKeys
<1> HIDE DEF low, list
<1>3. \A k \in SwitchKeys : k \in DOMAIN Over(low, new) /\ Over(low, new)[k] = new[k]
  BY <1>2 DEF Over
<1>4. /\ new["majority_enabled"] = m.enabled
      /\ new["majority_trigger_limit_enabled"] = m.triggerLimit
      /\ new["majority_buffer_enabled"] = m.bufferOn
      /\ new["majority_price_retry_enabled"] = m.retry
      /\ new["majority_price_retry_attempts"] = m.attempts
      /\ new["majority_execution_windows"] = list
  OBVIOUS
<1> HIDE DEF new
<1> QED
  BY <1>1, <1>3, <1>4, <1>5 DEF SwitchKeys, Switches, list

\* The MAJORITY half of a configuration, written to the table and read again, is accepted
\* and is the same: one that is off comes back off, and every window has its own numbers.
LEMMA MajorityRoundTrip ==
  ASSUME NEW v, NEW tick, NEW least, MajorityAccepts(v, tick, least),
         Windows(v.flat) \in SUBSET Int, IsFiniteSet(Windows(v.flat)),
         NEW h, DOMAIN Majority(v).windows = {} => LegacyKey \notin DOMAIN h,
         SwitchKeys \subseteq DOMAIN h,
         \A k \in SwitchKeys : h[k] = MajorityRows(Majority(v)).flat[k]
  PROVE  LET w == [flat |-> h, over |-> MajorityRows(Majority(v)).over] IN
         MajorityAccepts(w, tick, least) /\ Majority(w) = Majority(v)
<1> DEFINE f == v.flat
           m == Majority(v)
           W == DOMAIN m.windows
           w == [flat |-> h, over |-> MajorityRows(m).over]
<1>1. /\ h["majority_enabled"] = m.enabled
      /\ h["majority_trigger_limit_enabled"] = m.triggerLimit
      /\ h["majority_buffer_enabled"] = m.bufferOn
      /\ h["majority_price_retry_enabled"] = m.retry
      /\ h["majority_price_retry_attempts"] = m.attempts
      /\ h["majority_execution_windows"] = IF W = {} THEN Blank ELSE Ascending(W)
  BY SwitchesWritten DEF SwitchKeys, Switches
<1>2. CASE ~Flag(f, "majority_enabled")
  <2>1. m = Disabled /\ m.enabled = FALSE
    BY <1>2 DEF Majority, Disabled
  <2>2. ~Flag(h, "majority_enabled")
    BY <1>1, <2>1 DEF Flag
  <2>3. IsFlag(h, "majority_enabled")
    BY <1>1, <2>1, TextAssumption DEF IsFlag
  <2>4. MajorityAccepts(w, tick, least) /\ Majority(w) = Disabled
    BY <2>2, <2>3 DEF MajorityAccepts, Majority
  <2> QED
    BY <2>1, <2>4
<1>3. CASE Flag(f, "majority_enabled")
  <2>1. /\ m.enabled = TRUE
        /\ m.triggerLimit = Flag(f, "majority_trigger_limit_enabled")
        /\ m.bufferOn = Flag(f, "majority_buffer_enabled")
        /\ m.retry = Flag(f, "majority_price_retry_enabled")
        /\ m.attempts = IF Given(f, "majority_price_retry_attempts")
                          THEN f["majority_price_retry_attempts"] ELSE 5
        /\ m.windows = [x \in Windows(f) |-> WindowValues(v, x)]
        /\ m = [enabled |-> TRUE, triggerLimit |-> m.triggerLimit, bufferOn |-> m.bufferOn,
                retry |-> m.retry, attempts |-> m.attempts, windows |-> m.windows]
    BY <1>3 DEF Majority
  <2>2. /\ AttemptsValid(f)
        /\ \A x \in Windows(f) : WindowAccepts(x, WindowValues(v, x), tick, least)
    BY <1>3 DEF MajorityAccepts
  <2>3. MajorityRows(m).over = [p \in W \X Shared |-> m.windows[p[1]][p[2]]]
    BY DEF MajorityRows
  <2> HIDE DEF m
  <2>4. /\ W = Windows(f)
        /\ \A x \in W : m.windows[x] = WindowValues(v, x)
    BY <2>1
  <2>5. m.attempts \in 5 .. 10
    BY <2>1, <2>2 DEF AttemptsValid
  <2>6. /\ IsFlag(h, "majority_enabled") /\ Flag(h, "majority_enabled")
        /\ \A k \in Switches : IsFlag(h, k)
        /\ Flag(h, "majority_trigger_limit_enabled") = m.triggerLimit
        /\ Flag(h, "majority_buffer_enabled") = m.bufferOn
        /\ Flag(h, "majority_price_retry_enabled") = m.retry
    <3>1. m.triggerLimit \in BOOLEAN /\ m.bufferOn \in BOOLEAN /\ m.retry \in BOOLEAN
      BY <2>1 DEF Flag
    <3> QED
      BY <1>1, <2>1, <3>1, TextAssumption DEF Flag, IsFlag, SwitchKeys, Switches
  <2>7. /\ AttemptsValid(h)
        /\ Given(h, "majority_price_retry_attempts")
        /\ h["majority_price_retry_attempts"] = m.attempts
    <3>1. m.attempts \in Int
      BY <2>5
    <3> QED
      BY <1>1, <2>5, <3>1, TextAssumption DEF AttemptsValid, Given, SwitchKeys
  <2>8. Windows(h) = W /\ WindowsRead(h)
    <3>1. CASE W = {}
      <4>1. ~Given(h, "majority_execution_windows") /\ ~Given(h, LegacyKey)
        BY <1>1, <3>1 DEF Given, m
      <4> QED
        BY <3>1, <4>1 DEF Windows, WindowsRead
    <3>2. CASE W # {}
      <4>1. Ascending(W) \in Seq(Int) /\ Members(Ascending(W)) = W
        BY <2>4, AscendingSorts
      <4>2. h["majority_execution_windows"] = Ascending(W)
        BY <1>1, <3>2
      <4>3. /\ Given(h, "majority_execution_windows")
            /\ h["majority_execution_windows"] # Garbage
        BY <4>1, <4>2, TextAssumption DEF Given, SwitchKeys
      <4>4. \A x \in W : x > 0
        BY <2>2, <2>4 DEF WindowAccepts
      <4> QED
        BY <4>1, <4>2, <4>3, <4>4 DEF Windows, WindowsRead, ListReads
    <3> QED
      BY <3>1, <3>2
  <2>9. \A x \in W : WindowValues(w, x) = m.windows[x]
    <3> TAKE x \in W
    <3> DEFINE s == m.windows[x]
    <3>1. s = WindowValues(v, x) /\ \A k \in Shared : s[k] \in Int
      BY <2>2, <2>4 DEF WindowAccepts, Number
    <3>2. s = [k \in Shared |-> s[k]]
      BY <3>1 DEF WindowValues
    <3>3. \A k \in Shared : Given(w.over, <<x, k>>) /\ w.over[<<x, k>>] = s[k]
      BY <2>3, <3>1, TextAssumption DEF Given
    <3>4. WindowValues(w, x) = [k \in Shared |-> s[k]]
      BY <3>3 DEF WindowValues
    <3> QED
      BY <3>2, <3>4
  <2>10. MajorityAccepts(w, tick, least)
    <3>1. \A x \in Windows(h) : WindowAccepts(x, WindowValues(w, x), tick, least)
      BY <2>2, <2>4, <2>8, <2>9
    <3> QED
      BY <2>6, <2>7, <2>8, <3>1 DEF MajorityAccepts
  <2>11. Majority(w) = m
    <3>1. [x \in Windows(h) |-> WindowValues(w, x)] = m.windows
      BY <2>1, <2>4, <2>8, <2>9
    <3>2. Majority(w) =
            [enabled |-> TRUE, triggerLimit |-> m.triggerLimit, bufferOn |-> m.bufferOn,
             retry |-> m.retry, attempts |-> m.attempts, windows |-> m.windows]
      BY <2>6, <2>7, <3>1 DEF Majority
    <3> QED
      BY <2>1, <3>2
  <2> QED
    BY <2>10, <2>11 DEF m
<1> QED
  BY <1>2, <1>3

AllEnvs == FirstEnvs \cup Envs

\* What .env gives the first boot: its trading values as they are, a window list that is
\* a finite set of numbers, and nothing under the older window key.
LEMMA FirstValues ==
  ASSUME NEW e \in AllEnvs, EnvReads(e)
  PROVE  LET f == Loaded(e, NoSheet).flat IN
         /\ Loaded(e, NoSheet) = [flat |-> f, over |-> NoKeys]
         /\ DOMAIN EnvMajority(e) = MajorityKeys
         /\ LegacyKey \notin DOMAIN f
         /\ f["execution_windows"] = e.trading["execution_windows"]
         /\ f["buffers"] = e.trading["buffers"]
         /\ Windows(f) \in SUBSET Int /\ IsFiniteSet(Windows(f))
<1> DEFINE g == EnvMajority(e)
           f == Over(g, e.trading)
           raw == e.majority["majority_execution_windows"]
           list == IF raw # Blank THEN Ascending(Members(raw))
                   ELSE IF e.legacy > 0 THEN <<e.legacy>> ELSE Blank
<1>1. /\ DOMAIN e.trading = TradingKeys /\ DOMAIN e.majority = MajorityKeys
      /\ raw \in Seq(Int) \cup {Blank, Garbage} /\ e.legacy \in Int
  BY EnvAssumption DEF AllEnvs
<1>2. Loaded(e, NoSheet) = [flat |-> f, over |-> NoKeys]
  <2> HIDE DEF g
  <2>1. Loaded(e, NoSheet) =
          [[flat |-> e.trading, over |-> NoKeys] EXCEPT
             !.flat = Over(g, [flat |-> e.trading, over |-> NoKeys].flat)]
    BY DEF Loaded, g
  <2> QED
    BY <2>1
<1>3. /\ DOMAIN g = MajorityKeys
      /\ g["majority_execution_windows"] = list
  <2>1. g = [e.majority EXCEPT !["majority_execution_windows"] = list]
    BY DEF EnvMajority
  <2> HIDE DEF list, g
  <2> QED
    BY <1>1, <2>1 DEF MajorityKeys
<1> HIDE DEF g
<1>4. /\ DOMAIN f = TradingKeys \cup MajorityKeys
      /\ \A k \in TradingKeys : f[k] = e.trading[k]
      /\ \A k \in MajorityKeys \ TradingKeys : f[k] = g[k]
  BY <1>1, <1>3 DEF Over
<1> HIDE DEF f
<1>5. /\ LegacyKey \notin DOMAIN f
      /\ f["execution_windows"] = e.trading["execution_windows"]
      /\ f["buffers"] = e.trading["buffers"]
      /\ "majority_execution_windows" \in DOMAIN f
      /\ f["majority_execution_windows"] = list
  BY <1>3, <1>4 DEF LegacyKey, TradingKeys, TradingNumbers, MajorityKeys, Switches, Shared
<1>6. Windows(f) \in SUBSET Int /\ IsFiniteSet(Windows(f))
  <2>1. CASE raw # Blank
    <3>1. raw \in Seq(Int)
      BY <1>1, <2>1 DEF EnvReads, ListReads
    <3>2. Members(raw) \in SUBSET Int /\ IsFiniteSet(Members(raw))
      BY <3>1, MembersFinite
    <3>3. Ascending(Members(raw)) \in Seq(Int) /\ list = Ascending(Members(raw))
      BY <2>1, <3>2, AscendingSorts
    <3>4. Windows(f) = Members(list)
      BY <1>5, <3>3, TextAssumption DEF Windows, Given
    <3> QED
      BY <3>2, <3>3, <3>4, AscendingSorts
  <2>2. CASE raw = Blank /\ e.legacy > 0
    <3>1. list = <<e.legacy>> /\ <<e.legacy>> \in Seq(Int)
      BY <1>1, <2>2
    <3>2. Windows(f) = Members(<<e.legacy>>)
      BY <1>5, <3>1, TextAssumption DEF Windows, Given
    <3> QED
      BY <3>1, <3>2, MembersFinite
  <2>3. CASE raw = Blank /\ ~(e.legacy > 0)
    <3>1. list = Blank
      BY <2>3
    <3>2. Windows(f) = {}
      BY <1>5, <3>1 DEF Windows, Given
    <3> QED
      BY <3>2, FS_EmptySet
  <2> QED
    BY <2>1, <2>2, <2>3
<1> QED
  BY <1>2, <1>3, <1>5, <1>6 DEF g, f

\* What seeds an empty table comes back from it as it was.
LEMMA SeedRoundTrip ==
  ASSUME NEW e \in AllEnvs, Boots(e, NoSheet)
  PROVE  LET c == Config(Loaded(e, NoSheet))
             r == AsStorage(c) IN
         /\ r = [flat |-> r.flat, over |-> r.over]
         /\ Complete(r) /\ TradingAccepts(r.flat)
         /\ MajorityAccepts(r, r.flat["tick_size"], r.flat["min_tradable_size"])
         /\ Config(r) = c
<1> DEFINE v == Loaded(e, NoSheet)
           f == v.flat
           t == Trading(f)
           m == Majority(v)
           rows0 == MajorityRows(m)
           h == Over(rows0.flat, t)
           tick == t["tick_size"]
           least == t["min_tradable_size"]
<1>1. EnvReads(e) /\ TradingAccepts(f) /\ MajorityAccepts(v, tick, least)
  BY DEF Boots, Accepts
<1>2. /\ LegacyKey \notin DOMAIN f
      /\ f["execution_windows"] = e.trading["execution_windows"]
      /\ f["buffers"] = e.trading["buffers"]
      /\ Windows(f) \in SUBSET Int /\ IsFiniteSet(Windows(f))
  BY <1>1, FirstValues
<1>3. f["execution_windows"] \in Seq(Int) /\ f["buffers"] \in Seq(Int \X Int)
  <2>1. /\ f["execution_windows"] \notin {Blank, Garbage}
        /\ f["buffers"] \notin {Blank, Garbage}
    BY <1>1 DEF TradingAccepts, Parses, Given
  <2>2. /\ e.trading["execution_windows"] \in Seq(Int) \cup {Blank, Garbage}
        /\ e.trading["buffers"] \in Seq(Int \X Int) \cup {Blank, Garbage}
    BY EnvAssumption DEF AllEnvs
  <2> DEFINE P == Int \X Int
  <2> HIDE DEF P, f
  <2> QED
    BY <1>2, <2>1, <2>2 DEF P
<1> HIDE DEF v
<1>4. TradingAccepts(t) /\ Trading(t) = t
  BY <1>1, <1>3, TradingRoundTrip
<1>5. DOMAIN t = TradingKeys
  BY DEF Trading
<1>6. Config(v) = [trading |-> t, majority |-> m]
  BY DEF Config
<1> HIDE DEF t, m
<1>7. /\ DOMAIN h = TradingKeys \cup DOMAIN rows0.flat
      /\ \A k \in TradingKeys : h[k] = t[k]
      /\ \A k \in DOMAIN rows0.flat \ TradingKeys : h[k] = rows0.flat[k]
  BY <1>5 DEF Over
<1>8. rows0 = [flat |-> rows0.flat, over |-> rows0.over]
  BY DEF MajorityRows
<1>9. AsStorage(Config(v)) = [flat |-> h, over |-> rows0.over]
  <2>1. AsStorage(Config(v)) = [rows0 EXCEPT !.flat = h]
    BY <1>6 DEF AsStorage
  <2> HIDE DEF h, rows0
  <2> QED
    BY <1>8, <2>1
<1> HIDE DEF h
<1>10. SwitchKeys \subseteq DOMAIN h /\ \A k \in SwitchKeys : h[k] = rows0.flat[k]
  <2>1. SwitchKeys \subseteq DOMAIN rows0.flat
    BY SwitchesWritten
  <2>2. \A k \in SwitchKeys : k \notin TradingKeys
    BY DEF SwitchKeys, Switches, TradingKeys, TradingNumbers
  <2> HIDE DEF rows0
  <2> QED
    BY <1>7, <2>1, <2>2
<1>11. DOMAIN m.windows = {} => LegacyKey \notin DOMAIN h
  <2>1. DOMAIN m.windows = {} => DOMAIN rows0.flat = SwitchKeys
    BY SwitchesWritten
  <2> HIDE DEF rows0
  <2> QED
    BY <1>7, <2>1 DEF LegacyKey, SwitchKeys, Switches, TradingKeys, TradingNumbers
<1> HIDE DEF rows0
<1>12. TradingAccepts(h) /\ Trading(h) = t
  BY <1>4, <1>5, <1>7, SameTrading
<1>13. /\ MajorityAccepts([flat |-> h, over |-> rows0.over], tick, least)
       /\ Majority([flat |-> h, over |-> rows0.over]) = m
  BY <1>1, <1>2, <1>10, <1>11, MajorityRoundTrip DEF rows0, m
<1>14. tick = h["tick_size"] /\ least = h["min_tradable_size"]
  BY <1>7 DEF TradingKeys, TradingNumbers
<1>15. Complete([flat |-> h, over |-> rows0.over])
  BY <1>10 DEF Complete, SwitchKeys
<1>16. Config([flat |-> h, over |-> rows0.over]) = Config(v)
  BY <1>6, <1>12, <1>13 DEF Config
<1> QED
  BY <1>9, <1>12, <1>13, <1>14, <1>15, <1>16 DEF v

\* A table with every switch boots whatever .env holds, and runs what it says.
LEMMA CompleteRuns ==
  ASSUME NEW f, NEW o, NEW e \in AllEnvs, EnvReads(e),
         Complete([flat |-> f, over |-> o]), TradingAccepts(f),
         MajorityAccepts([flat |-> f, over |-> o], f["tick_size"], f["min_tradable_size"])
  PROVE  /\ Boots(e, [flat |-> f, over |-> o])
         /\ Config(Loaded(e, [flat |-> f, over |-> o])) = Config([flat |-> f, over |-> o])
<1> DEFINE r == [flat |-> f, over |-> o]
           g == EnvMajority(e)
           h == Over(g, f)
<1>1. DOMAIN g = MajorityKeys
  BY FirstValues
<1>2. r # NoSheet
  <2>1. "majority_enabled" \in DOMAIN f
    BY DEF Complete
  <2>2. "majority_enabled" \notin DOMAIN NoKeys
    BY DEF NoKeys
  <2>3. r.flat = f /\ NoSheet.flat = NoKeys
    BY DEF NoSheet
  <2> QED
    BY <2>1, <2>2, <2>3
<1>3. Loaded(e, r) = [flat |-> h, over |-> o]
  <2>1. Loaded(e, r) = [r EXCEPT !.flat = Over(g, r.flat)]
    BY <1>2 DEF Loaded
  <2> HIDE DEF g
  <2> QED
    BY <2>1
<1> HIDE DEF g
<1>4. /\ TradingAccepts(h)
      /\ MajorityAccepts([flat |-> h, over |-> o], f["tick_size"], f["min_tradable_size"])
      /\ Config([flat |-> h, over |-> o]) = Config(r)
  BY <1>1, FillChangesNothing
<1>5. /\ Trading(h)["tick_size"] = f["tick_size"]
      /\ Trading(h)["min_tradable_size"] = f["min_tradable_size"]
  <2>1. Trading(h) = Trading(f)
    BY <1>4 DEF Config
  <2>2. /\ Trading(f)["tick_size"] = f["tick_size"]
        /\ Trading(f)["min_tradable_size"] = f["min_tradable_size"]
    BY DEF Trading, TradingKeys, TradingNumbers
  <2> QED
    BY <2>1, <2>2
<1> HIDE DEF h
<1>6. Boots(e, r)
  BY <1>3, <1>4, <1>5 DEF Boots, Accepts
<1> QED
  BY <1>3, <1>4, <1>6

\* What the dashboard has accepted, or the seeding, is what any .env that reads will run.
KeptSound ==
  accepted # NoConfig =>
    \A e \in AllEnvs : EnvReads(e) =>
      Boots(e, rows) /\ Config(Loaded(e, rows)) = accepted

\* Writing the merged sheet over the table it was merged from leaves that sheet.
LEMMA MergeIsWhole ==
  ASSUME NEW base, NEW body
  PROVE  LET merged == Written(base, body) IN
         /\ Written(base, merged) = merged
         /\ merged = [flat |-> merged.flat, over |-> merged.over]
<1>1. \A x, y : Over(x, Over(x, y)) = Over(x, y)
  BY DEF Over
<1> QED
  BY <1>1 DEF Written

\* A save that is known to run is a whole table that validated by itself.
LEMMA SaveKeeps ==
  ASSUME NEW body, Save(body)
  PROVE  KeptSound'
<1> DEFINE merged == Written(rows, body)
           f == merged.flat
           o == merged.over
<1> SUFFICES ASSUME accepted' # NoConfig, NEW e \in AllEnvs, EnvReads(e)
             PROVE  Boots(e, rows') /\ Config(Loaded(e, rows')) = accepted'
  BY DEF KeptSound, AllEnvs
<1>1. rows' = merged /\ merged = [flat |-> f, over |-> o]
  BY MergeIsWhole DEF Save
<1>2. Accepts(merged, running.trading) /\ accepted' = Accepted(merged)
  BY DEF Save
<1> HIDE DEF merged
<1>3. /\ Complete(merged) /\ accepted' = Config(merged)
      /\ f["tick_size"] = running.trading["tick_size"]
      /\ f["min_tradable_size"] = running.trading["min_tradable_size"]
  BY <1>2 DEF Accepted
<1>4. TradingAccepts(f) /\ MajorityAccepts(merged, f["tick_size"], f["min_tradable_size"])
  BY <1>2, <1>3 DEF Accepts
<1> QED
  BY <1>1, <1>3, <1>4, CompleteRuns

\* The seeding writes what it runs, and that comes back whatever .env says by then.
LEMMA BootKeeps ==
  ASSUME env \in AllEnvs, KeptSound, Boot
  PROVE  KeptSound'
<1>1. CASE rows # NoSheet
  BY <1>1 DEF Boot, KeptSound
<1>2. CASE rows = NoSheet
  <2> DEFINE c == Config(Loaded(env, NoSheet))
             r == AsStorage(c)
             f == r.flat
             o == r.over
  <2>1. Boots(env, NoSheet) /\ rows' = r /\ accepted' = c
    BY <1>2 DEF Boot
  <2>2. /\ r = [flat |-> f, over |-> o]
        /\ Complete(r) /\ TradingAccepts(f)
        /\ MajorityAccepts(r, f["tick_size"], f["min_tradable_size"])
        /\ Config(r) = c
    BY <2>1, SeedRoundTrip
  <2> HIDE DEF c, r
  <2>3. ASSUME NEW e \in AllEnvs, EnvReads(e)
        PROVE  Boots(e, r) /\ Config(Loaded(e, r)) = c
    BY <2>2, <2>3, CompleteRuns
  <2> QED
    BY <2>1, <2>3 DEF KeptSound
<1> QED
  BY <1>1, <1>2

\* Whatever edits, profiles, restarts and rewrites of .env there are: the configuration
\* the operator last had accepted is the one a restart runs (load_settings,
\* as_storage_dict and the merge of POST /settings are inverse to each other).
THEOREM WhatWasAcceptedRuns == Spec => []AcceptedRuns
<1> DEFINE Inv == env \in AllEnvs /\ KeptSound
<1>1. Init => Inv
  BY DEF Init, KeptSound, AllEnvs
<1>2. Inv /\ [Next]_vars => Inv'
  <2> SUFFICES ASSUME env \in AllEnvs, KeptSound, [Next]_vars
               PROVE  Inv'
    OBVIOUS
  <2>1. CASE EditEnv
    BY <2>1 DEF EditEnv, KeptSound, AllEnvs
  <2>2. CASE Boot
    <3>1. KeptSound'
      BY <2>2, BootKeeps
    <3> QED
      BY <2>2, <3>1 DEF Boot, AllEnvs
  <2>3. CASE \E b \in Bodies : Save(b)
    <3>1. KeptSound'
      BY <2>3, SaveKeeps
    <3> QED
      BY <2>3, <3>1 DEF Save, AllEnvs
  <2>4. CASE LoadConfig
    BY <2>4 DEF LoadConfig, KeptSound, AllEnvs
  <2>5. CASE Down \/ SaveConfig \/ UNCHANGED vars
    BY <2>5 DEF Down, SaveConfig, vars, KeptSound, AllEnvs
  <2> QED
    BY <2>1, <2>2, <2>3, <2>4, <2>5 DEF Next
<1>3. Inv => AcceptedRuns
  BY DEF KeptSound, AcceptedRuns
<1> QED
  BY <1>1, <1>2, <1>3, PTL DEF Spec
=============================================================================
