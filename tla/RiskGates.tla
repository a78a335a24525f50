----------------------------- MODULE RiskGates -----------------------------
(***************************************************************************)
(* The nineteen gates of the risk engine, the context MAJORITY hands them, *)
(* the price and the sizes a window submits, the prices its orders may be  *)
(* moved to, and the gate readiness the dashboard shows.  All of it is     *)
(* stateless: each operator reads the process's health h, the market m, a  *)
(* window and its values w, and says which gate refuses.                   *)
(***************************************************************************)
EXTENDS Configs

CONSTANT Share   \* a share in the units sizes are counted in: sizes may be fractions

ASSUME ShareAssumption == Share \in Nat \ {0}

Unpriced == [none |-> TRUE]

Health ==
  [enabled : BOOLEAN, verified : BOOLEAN, armed : BOOLEAN, paused : BOOLEAN,
   feedBlocked : BOOLEAN, driftCritical : BOOLEAN, running : BOOLEAN,
   supervisorReady : BOOLEAN, walletConnected : BOOLEAN, orphans : BOOLEAN,
   orders : Nat, loss : Nat, streak : Nat,
   balance : Int]          \* a negative balance stands for none published

Market == [phase : {"DISCOVERED", "ACTIVE", "CANCELLING", "SETTLING", "SETTLED", "DEAD"},
           intent : BOOLEAN, held : SUBSET {"UP", "DOWN"}]

------------------------------------------------------------------------------
(* The context of a submission *)

\* quantize_price(): down to the tick ladder.
Quantized(p, tick) == p - (p % tick)

\* The target while the trigger/target switch is on; otherwise _live_entry_price(),
\* the majority side's bid on the ladder, refused outside the window's band.
Price(c, w, bid) ==
  LET s == c.majority.windows[w]
      p == Quantized(bid, c.trading["tick_size"]) IN
  IF c.majority.triggerLimit THEN [at |-> s["majority_target_limit_price"]]
  ELSE IF /\ p > 0
          /\ p >= s["majority_entry_price_min"]
          /\ p <= s["majority_entry_price_max"] THEN [at |-> p]
  ELSE Unpriced

\* _limits_from_window(): one trade, no loss limit, the window's own band and size.
Limits(s) ==
  [trades |-> 1, positions |-> 999, loss |-> 0, streak |-> 0, opposing |-> FALSE,
   min |-> s["majority_entry_price_min"], max |-> s["majority_entry_price_max"],
   least |-> s["majority_shares"]]

\* limits_from_trading(): what readiness is measured against.
TradingLimits(t) ==
  [trades |-> t["max_trades_per_market"], positions |-> t["max_concurrent_positions"],
   loss |-> t["max_daily_loss_usd"], streak |-> t["max_consecutive_losses"],
   opposing |-> t["allow_opposing_directions"],
   min |-> t["entry_price_min"], max |-> t["entry_price_max"],
   least |-> t["min_tradable_size"]]

\* _risk_context(): the trigger has fired, no trade is counted, MAJORITY is enabled.
Context(h, m, s, side, price) ==
  [h |-> h, m |-> m, side |-> side, triggered |-> TRUE, strategy |-> TRUE,
   used |-> 0, reserved |-> 0, limits |-> Limits(s),
   price |-> price, size |-> s["majority_shares"]]

------------------------------------------------------------------------------
(* The gates: each holds when it refuses *)

Opposite(d) == IF d = "UP" THEN "DOWN" ELSE "UP"

TradingEnabledRefuses(x)    == ~x.h.verified \/ x.h.paused \/ ~x.h.enabled
ExecutionArmedRefuses(x)    == ~x.h.armed
MarketPhaseRefuses(x)       == x.m.phase # "ACTIVE"
WindowTriggeredRefuses(x)   == ~x.triggered
\* The price to beat is shown, and gates nothing.
PriceToBeatRefuses(x)       == FALSE
StrategyEnabledRefuses(x)   == ~x.strategy
DuplicateIntentRefuses(x)   == x.m.intent
TradeQuotaRefuses(x)        == x.used + x.reserved >= x.limits.trades
OpposingDirectionRefuses(x) == ~x.limits.opposing /\ Opposite(x.side) \in x.m.held
PositionLimitRefuses(x)     == x.h.orders >= x.limits.positions
EntryBandRefuses(x)         == x.price > x.limits.max \/ x.price < x.limits.min
ExchangeMinimumRefuses(x)   == x.size < x.limits.least \/ x.size <= 0
\* A limit of zero is off.
LossLimitsRefuses(x) ==
  \/ x.limits.loss > 0 /\ x.h.loss >= x.limits.loss
  \/ x.limits.streak > 0 /\ x.h.streak >= x.limits.streak
FeedFreshnessRefuses(x)     == x.h.feedBlocked
RuntimeHealthRefuses(x)     == x.h.driftCritical \/ ~x.h.running
\* Mutant of SupervisorReadyRefuses: the gate is lost.
SupervisorReadyLost(x)      == FALSE
SupervisorReadyRefuses(x)   == ~x.h.supervisorReady
WalletConnectedRefuses(x)   == ~x.h.walletConnected
OrphanOrdersRefuses(x)      == x.h.orphans
\* No published balance is no opinion.
AvailableBalanceRefuses(x)  == x.h.balance >= 0 /\ x.price * x.size > x.h.balance

GateOrder ==
  <<"trading_enabled", "execution_armed", "market_phase", "window_triggered",
    "price_to_beat", "strategy_enabled", "duplicate_intent", "trade_quota",
    "opposing_direction", "position_limit", "entry_band", "exchange_minimum",
    "loss_limits", "feed_freshness", "runtime_health", "supervisor_ready",
    "wallet_connected", "orphan_orders", "available_balance">>

Refuses(x) ==
  <<TradingEnabledRefuses(x), ExecutionArmedRefuses(x), MarketPhaseRefuses(x),
    WindowTriggeredRefuses(x), PriceToBeatRefuses(x), StrategyEnabledRefuses(x),
    DuplicateIntentRefuses(x), TradeQuotaRefuses(x), OpposingDirectionRefuses(x),
    PositionLimitRefuses(x), EntryBandRefuses(x), ExchangeMinimumRefuses(x),
    LossLimitsRefuses(x), FeedFreshnessRefuses(x), RuntimeHealthRefuses(x),
    SupervisorReadyRefuses(x), WalletConnectedRefuses(x), OrphanOrdersRefuses(x),
    AvailableBalanceRefuses(x)>>

\* evaluate(): the index of the first gate that refuses, 0 if all allow.
Evaluate(x) ==
  LET r == Refuses(x) IN
  IF \A i \in 1 .. 19 : ~r[i] THEN 0
  ELSE CHOOSE i \in 1 .. 19 : r[i] /\ \A j \in 1 .. i - 1 : ~r[j]

\* _gate_direction(), checks 8 and 9: the price is on the ladder, the size positive.
OnLadder(c, s, price) ==
  /\ price > 0 /\ Quantized(price, c.trading["tick_size"]) = price
  /\ s["majority_shares"] > 0

\* The submitter's minimum: the smallest share count of any window.
SmallestShares(c) ==
  LET shares == {c.majority.windows[w]["majority_shares"] : w \in DOMAIN c.majority.windows} IN
  CHOOSE n \in shares : \A k \in shares : n <= k

\* split_size(): whole steps in at most `count` even orders none of which is below the
\* minimum, the first ones a step larger; no order when not even one clears it.
SplitSize(total, count, least, step) ==
  LET q      == Quantized(total, step)
      usable == IF count <= q \div least THEN count ELSE q \div least
      base   == Quantized(q \div usable, step)
      extra  == (q - base * usable) \div step IN
  IF q < least THEN <<>>
  ELSE [i \in 1 .. usable |-> IF i <= extra THEN base + step ELSE base]

\* plan(): MAJORITY always asks for one order.
OrderSizes(c, s) == SplitSize(s["majority_shares"], 1, SmallestShares(c), Share)

\* _submit(): priced, allowed by every gate and by the direction gate, and not an empty
\* ladder, which spends the intent and places nothing.
Submits(c, w, h, m, side, bid) ==
  LET s == c.majority.windows[w]
      p == Price(c, w, bid) IN
  /\ Tradable(c.majority)
  /\ p # Unpriced
  /\ Evaluate(Context(h, m, s, side, p.at)) = 0
  /\ OnLadder(c, s, p.at)
  /\ OrderSizes(c, s) # <<>>

------------------------------------------------------------------------------
(* Repricing *)

\* The next generation is compared with MAX_PRICE_RETRIES: generations 0 to 2 are moved.
MaxMoves == 3

\* One repricer per window, and only for orders that do not rest at a target.
Repriced(c, w) ==
  c.majority.retry /\ ~c.majority.triggerLimit /\ w \in DOMAIN c.majority.windows

\* Mutant of Band: the band of the TRADING settings.
BandForeign(c, w) == [min |-> c.trading["entry_price_min"], max |-> c.trading["entry_price_max"]]

\* The band of the window the order belongs to.
Band(c, w) == LET s == c.majority.windows[w] IN
  [min |-> s["majority_entry_price_min"], max |-> s["majority_entry_price_max"]]

\* RepricePolicy.target(), the best bid having left the order behind: one tick in the
\* order's direction, or no move at all when that is out of the band.
Target(c, w, side, price) ==
  LET to   == IF side = "UP" THEN price + c.trading["tick_size"]
                             ELSE price - c.trading["tick_size"]
      band == Band(c, w) IN
  IF to > 0 /\ to >= band.min /\ to <= band.max THEN to ELSE price

\* Where the chain of an order placed at `price` rests after n moves.
Rests(c, w, side, price) ==
  LET after[n \in 0 .. MaxMoves] ==
        IF n = 0 THEN price ELSE Target(c, w, side, after[n - 1]) IN
  IF Repriced(c, w) THEN {after[n] : n \in 0 .. MaxMoves} ELSE {price}

------------------------------------------------------------------------------
(* Gate readiness *)

\* gate_readiness(): the gates that stand in the way of every window.
Blocked(c, h) ==
  {g \in DOMAIN GateOrder :
     CASE GateOrder[g] = "trading_enabled"  -> ~h.enabled
       [] GateOrder[g] = "execution_armed"  -> ~h.armed
       [] GateOrder[g] = "strategy_enabled" -> ~c.majority.enabled
       [] GateOrder[g] = "loss_limits"      ->
            LET l == TradingLimits(c.trading) IN ~(h.loss <= l.loss /\ h.streak < l.streak)
       [] GateOrder[g] = "feed_freshness"   -> h.feedBlocked
       [] GateOrder[g] = "runtime_health"   -> ~h.running \/ h.driftCritical
       [] GateOrder[g] = "supervisor_ready" -> ~h.supervisorReady
       [] GateOrder[g] = "wallet_connected" -> ~h.walletConnected
       [] GateOrder[g] = "orphan_orders"    -> h.orphans
       [] OTHER                             -> FALSE}
=============================================================================
