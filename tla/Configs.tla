------------------------------ MODULE Configs ------------------------------
(***************************************************************************)
(* The two configurations a process runs, TradingConfig and                *)
(* MajorityConfig, as their builders read them from settings values: which *)
(* values are refused, what is built from the rest, what is written back   *)
(* to the settings table, and what load_settings makes of the table and    *)
(* of .env.                                                                *)
(*                                                                         *)
(* A sheet of settings is [flat, over]: the plain keys, and the overrides  *)
(* majority_w_<window>_<field>, keyed here by window and field.  A text    *)
(* is the value it parses to; Blank stands for an empty text and Garbage   *)
(* for one that does not parse.  Prices and money are integers of one      *)
(* unit (One of them is a dollar), so the comparisons are exact, as those  *)
(* of the Decimals are; comma lists are sequences.                         *)
(***************************************************************************)
EXTENDS Integers, Sequences, FiniteSets

CONSTANTS
  Blank, Garbage,  \* an empty text, and one that parses to nothing
  MarketSeconds,   \* MARKET_DURATION_SECONDS
  One              \* a price of one dollar, in price units

ASSUME MarketAssumption == MarketSeconds \in Nat \ {0}
ASSUME OneAssumption    == One \in Nat \ {0}
\* A text that is empty or does not parse is no value.
ASSUME TextAssumption ==
  \A x \in {Blank, Garbage} :
    x \notin Int /\ x \notin BOOLEAN /\ x \notin Seq(Int) /\ x \notin Seq(Int \X Int)

NoKeys    == [k \in {} |-> Blank]
NoSheet   == [flat |-> NoKeys, over |-> NoKeys]

Given(v, k)  == k \in DOMAIN v /\ v[k] # Blank
Parses(v, k) == Given(v, k) /\ v[k] # Garbage
Number(v, k) == k \in DOMAIN v /\ v[k] \in Int
\* _bool_value(): absent and blank read as off, anything else must parse.
IsFlag(v, k) == k \in DOMAIN v => v[k] # Garbage
Flag(v, k)   == k \in DOMAIN v /\ v[k] = TRUE

Members(s) == {s[i] : i \in DOMAIN s}
Ascending(S) ==
  CHOOSE s \in [1 .. Cardinality(S) -> S] : \A i, j \in DOMAIN s : i < j => s[i] < s[j]

\* {**base, **new}: the keys of `base`, and those of `new` written over them.
Over(base, new) ==
  [k \in DOMAIN base \cup DOMAIN new |-> IF k \in DOMAIN new THEN new[k] ELSE base[k]]

\* `base` with the settings of `new` written over it.
Written(base, new) ==
  [flat |-> Over(base.flat, new.flat), over |-> Over(base.over, new.over)]

------------------------------------------------------------------------------
(* TradingConfig *)

TradingNumbers ==
  {"position_notional_usd", "max_trades_per_market", "max_concurrent_positions",
   "max_daily_loss_usd", "max_consecutive_losses", "entry_price_min", "entry_price_max",
   "tick_size", "min_tradable_size", "submission_count", "cancel_lead_ms",
   "cancel_ack_timeout_ms", "feed_stale_warn_ms", "feed_stale_critical_ms",
   "clock_drift_warn_ms", "clock_drift_critical_ms", "outbound_rate_sustained",
   "outbound_rate_burst", "observation_retention_days"}
TradingKeys ==
  TradingNumbers \cup {"execution_windows", "buffers", "allow_opposing_directions"}

\* 1, 2: offsets are distinct and lie inside the market.
OffsetsValid(v) ==
  LET w == v["execution_windows"] IN
  /\ w # <<>> /\ Cardinality(Members(w)) = Len(w)
  /\ \A o \in Members(w) : 0 < o /\ o < MarketSeconds

\* _parse_buffers, 3-5: one positive buffer per window and for no other offset.
\* The text is a sequence of <<offset, buffer>>.
BuffersValid(v) ==
  LET b == v["buffers"] IN
  /\ b # <<>>
  /\ \A i, j \in DOMAIN b : b[i][1] = b[j][1] => i = j
  /\ {b[i][1] : i \in DOMAIN b} = Members(v["execution_windows"])
  /\ \A i \in DOMAIN b : b[i][2] > 0

\* 14, 15: a cap of zero would refuse every trade; a loss limit of zero is off.
CapsValid(v) ==
  /\ v["position_notional_usd"] > 0 /\ v["max_trades_per_market"] > 0
  /\ v["max_concurrent_positions"] > 0
  /\ v["max_daily_loss_usd"] >= 0 /\ v["max_consecutive_losses"] >= 0

\* 6, 7: the entry band is ordered, inside 0 and 1, and at least a tick wide.
BandValid(v) ==
  /\ v["tick_size"] > 0 /\ v["min_tradable_size"] > 0
  /\ v["entry_price_min"] < v["entry_price_max"]
  /\ v["entry_price_min"] > 0 /\ v["entry_price_max"] < One
  /\ v["entry_price_max"] - v["entry_price_min"] >= v["tick_size"]

\* 8, 16: the budget buys the minimum at the top of the band, and every split does.
SplitsValid(v) ==
  LET least == v["min_tradable_size"] * v["entry_price_max"] IN
  /\ v["position_notional_usd"] >= least
  /\ 0 < v["submission_count"]
  /\ v["submission_count"] <= v["position_notional_usd"] \div least

\* 9, 10: every window opens before the cancellation sweep.
SweepValid(v) ==
  /\ v["cancel_lead_ms"] > 0 /\ v["cancel_ack_timeout_ms"] > 0
  /\ \A o \in Members(v["execution_windows"]) : o * 1000 > v["cancel_lead_ms"]

\* 11-13: the warning precedes the fault, and the bucket holds its refill.
ThresholdsValid(v) ==
  /\ 0 < v["feed_stale_warn_ms"] /\ v["feed_stale_warn_ms"] < v["feed_stale_critical_ms"]
  /\ 0 < v["clock_drift_warn_ms"] /\ v["clock_drift_warn_ms"] < v["clock_drift_critical_ms"]
  /\ 0 < v["outbound_rate_sustained"]
  /\ v["outbound_rate_sustained"] <= v["outbound_rate_burst"]
  /\ v["observation_retention_days"] > 0

\* build_trading_config() raises ConfigInvariantError unless ...
TradingAccepts(v) ==
  /\ \A k \in TradingNumbers : Number(v, k)
  /\ \A k \in {"execution_windows", "buffers"} : Parses(v, k)
  /\ IsFlag(v, "allow_opposing_directions")
  /\ OffsetsValid(v) /\ BuffersValid(v) /\ CapsValid(v) /\ BandValid(v)
  /\ SplitsValid(v) /\ SweepValid(v) /\ ThresholdsValid(v)

\* The built configuration: windows ascending, a buffer for each.
Trading(v) ==
  LET windows == Ascending(Members(v["execution_windows"]))
      buffer(o) == CHOOSE b \in Members(v["buffers"]) : b[1] = o IN
  [k \in TradingKeys |->
     CASE k = "execution_windows" -> windows
       [] k = "buffers" -> [i \in DOMAIN windows |-> buffer(windows[i])]
       [] k = "allow_opposing_directions" -> Flag(v, k)
       [] OTHER -> v[k]]

------------------------------------------------------------------------------
(* MajorityConfig *)

Switches == {"majority_trigger_limit_enabled", "majority_buffer_enabled",
             "majority_price_retry_enabled"}
Shared   == {"majority_buffer", "majority_trigger_price", "majority_target_limit_price",
             "majority_shares", "majority_entry_price_min", "majority_entry_price_max"}
MajorityKeys ==
  {"majority_enabled", "majority_price_retry_attempts", "majority_execution_windows"}
    \cup Switches \cup Shared

\* _parse_window_list(): a list of positive integers, blank for none.
ListReads(raw) == raw # Garbage /\ (raw # Blank => \A w \in Members(raw) : w > 0)

LegacyKey == "majority_execution_window_seconds"
WindowsRead(f) ==
  IF Given(f, "majority_execution_windows")
    THEN ListReads(f["majority_execution_windows"])
    ELSE Given(f, LegacyKey) => f[LegacyKey] # Garbage

\* The window list, or the one window of the key it replaced.
Windows(f) ==
  IF Given(f, "majority_execution_windows") THEN Members(f["majority_execution_windows"])
  ELSE IF Given(f, LegacyKey) THEN {f[LegacyKey]}
  ELSE {}

\* _split_window_values(): a window's own value, else the shared one.
WindowValues(v, w) ==
  [f \in Shared |-> IF Given(v.over, <<w, f>>) THEN v.over[<<w, f>>]
                    ELSE IF f \in DOMAIN v.flat THEN v.flat[f] ELSE Blank]

\* Mutant of WindowAccepts: a target under the entry band is let through.
WindowAcceptsLowTarget(w, s, tick, least) ==
  /\ 0 < w /\ w < MarketSeconds
  /\ \A f \in Shared : Number(s, f)
  /\ s["majority_buffer"] >= 0
  /\ s["majority_target_limit_price"] > 0 /\ s["majority_entry_price_min"] > 0
  /\ s["majority_entry_price_max"] - s["majority_entry_price_min"] >= tick
  /\ s["majority_target_limit_price"] <= s["majority_entry_price_max"]
  /\ s["majority_shares"] > 0 /\ s["majority_shares"] >= least

\* _build_one_window() raises unless ...  `least` and `tick` are the venue's.
WindowAccepts(w, s, tick, least) ==
  /\ 0 < w /\ w < MarketSeconds
  /\ \A f \in Shared : Number(s, f)
  /\ s["majority_buffer"] >= 0
  /\ s["majority_trigger_price"] > 0 /\ s["majority_target_limit_price"] > 0
  /\ s["majority_entry_price_min"] < s["majority_entry_price_max"]
  /\ s["majority_entry_price_min"] > 0
  /\ s["majority_entry_price_max"] - s["majority_entry_price_min"] >= tick
  /\ s["majority_target_limit_price"] <= s["majority_entry_price_max"]
  /\ s["majority_target_limit_price"] >= s["majority_entry_price_min"]
  /\ s["majority_shares"] > 0 /\ s["majority_shares"] >= least

AttemptsValid(f) ==
  Given(f, "majority_price_retry_attempts") =>
    /\ f["majority_price_retry_attempts"] # Garbage
    /\ f["majority_price_retry_attempts"] \in 5 .. 10

\* build_majority_config() raises unless ...  Nothing is validated while it is off.
MajorityAccepts(v, tick, least) ==
  /\ IsFlag(v.flat, "majority_enabled")
  /\ Flag(v.flat, "majority_enabled") =>
       /\ \A k \in Switches : IsFlag(v.flat, k)
       /\ AttemptsValid(v.flat)
       /\ WindowsRead(v.flat)
       /\ \A w \in Windows(v.flat) : WindowAccepts(w, WindowValues(v, w), tick, least)

\* MAJORITY_DISABLED: the numbers of a configuration that is off are not kept.
Disabled == [enabled |-> FALSE, triggerLimit |-> FALSE, bufferOn |-> FALSE,
             retry |-> FALSE, attempts |-> 5, windows |-> [w \in {} |-> NoKeys]]

Majority(v) ==
  IF ~Flag(v.flat, "majority_enabled") THEN Disabled ELSE
  [enabled      |-> TRUE,
   triggerLimit |-> Flag(v.flat, "majority_trigger_limit_enabled"),
   bufferOn     |-> Flag(v.flat, "majority_buffer_enabled"),
   retry        |-> Flag(v.flat, "majority_price_retry_enabled"),
   attempts     |-> IF Given(v.flat, "majority_price_retry_attempts")
                      THEN v.flat["majority_price_retry_attempts"] ELSE 5,
   windows      |-> [w \in Windows(v.flat) |-> WindowValues(v, w)]]

\* MajorityConfig.tradable
Tradable(m) == m.enabled /\ DOMAIN m.windows # {}

------------------------------------------------------------------------------
(* Settings *)

\* MajorityConfig.as_storage_dict(): the lowest window's numbers become the shared
\* ones, and every window has its own; none are written for no window.
MajorityRows(m) ==
  LET W == DOMAIN m.windows
      lowest == CHOOSE w \in W : \A x \in W : w <= x IN
  [flat |-> Over(IF W = {} THEN NoKeys ELSE m.windows[lowest],
                 [majority_enabled |-> m.enabled,
                  majority_trigger_limit_enabled |-> m.triggerLimit,
                  majority_buffer_enabled |-> m.bufferOn,
                  majority_price_retry_enabled |-> m.retry,
                  majority_price_retry_attempts |-> m.attempts,
                  majority_execution_windows |-> IF W = {} THEN Blank ELSE Ascending(W)]),
   over |-> [p \in W \X Shared |-> m.windows[p[1]][p[2]]]]

\* Mutant of AsStorage: only the trading half of the settings is written.
AsStorageTrading(c) == [flat |-> c.trading, over |-> NoKeys]

\* Settings.as_storage_dict(): both halves in one dict.
AsStorage(c) ==
  LET m == MajorityRows(c.majority) IN [m EXCEPT !.flat = Over(m.flat, c.trading)]

\* env_majority_config_values(): the window list of .env, else its one old window.
EnvMajority(env) ==
  LET raw == env.majority["majority_execution_windows"]
      windows == IF raw # Blank THEN Ascending(Members(raw))
                 ELSE IF env.legacy > 0 THEN <<env.legacy>> ELSE Blank IN
  [env.majority EXCEPT !["majority_execution_windows"] = windows]

\* .env is read on every boot, also where the table holds every key.
EnvReads(env) == ListReads(env.majority["majority_execution_windows"])

\* load_settings(): the table if it holds anything, else .env; then .env fills the
\* MAJORITY keys that are absent.
Loaded(env, rows) ==
  LET base == IF rows = NoSheet THEN [flat |-> env.trading, over |-> NoKeys] ELSE rows IN
  [base EXCEPT !.flat = Over(EnvMajority(env), base.flat)]

Accepts(v, venue) ==
  /\ TradingAccepts(v.flat)
  /\ MajorityAccepts(v, venue["tick_size"], venue["min_tradable_size"])

Config(v) == [trading |-> Trading(v.flat), majority |-> Majority(v)]
=============================================================================
