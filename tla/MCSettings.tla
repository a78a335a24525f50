----------------------------- MODULE MCSettings -----------------------------
(***************************************************************************)
(* A small instance of Settings: a dollar is 20 price units and a tick is  *)
(* 2, so that prices off the ladder exist; sizes count half shares; a      *)
(* market lasts 60 seconds.                                                *)
(***************************************************************************)
EXTENDS Settings, TLC

TradingBase ==
  [execution_windows |-> <<5, 3>>, buffers |-> <<<<3, 1>>, <<5, 2>>>>,
   position_notional_usd |-> 380, max_trades_per_market |-> 1,
   max_concurrent_positions |-> 1, max_daily_loss_usd |-> 0,
   max_consecutive_losses |-> 0, entry_price_min |-> 2, entry_price_max |-> 18,
   tick_size |-> 2, min_tradable_size |-> 10, submission_count |-> 2,
   cancel_lead_ms |-> 2000, cancel_ack_timeout_ms |-> 1000,
   feed_stale_warn_ms |-> 1, feed_stale_critical_ms |-> 2,
   clock_drift_warn_ms |-> 1, clock_drift_critical_ms |-> 2,
   outbound_rate_sustained |-> 1, outbound_rate_burst |-> 1,
   observation_retention_days |-> 1, allow_opposing_directions |-> FALSE]

MajorityBase ==
  [majority_enabled |-> TRUE, majority_trigger_limit_enabled |-> TRUE,
   majority_buffer_enabled |-> FALSE, majority_price_retry_enabled |-> FALSE,
   majority_price_retry_attempts |-> 5, majority_execution_windows |-> <<45, 15>>,
   majority_buffer |-> 0, majority_trigger_price |-> 12,
   majority_target_limit_price |-> 12, majority_shares |-> 10,
   majority_entry_price_min |-> 7, majority_entry_price_max |-> 14]

Env(t, m, legacy) == [trading |-> t, majority |-> m, legacy |-> legacy]
EnvA == Env(TradingBase, MajorityBase, 0)

\* The values of .env, each with one thing wrong.
FaultyTrading ==
  {[TradingBase EXCEPT ![f[1]] = f[2]] : f \in
    {<<"position_notional_usd", 179>>, <<"max_trades_per_market", 0>>,
     <<"max_concurrent_positions", 0>>, <<"max_daily_loss_usd", -1>>,
     <<"max_consecutive_losses", -1>>, <<"entry_price_min", 18>>,
     <<"entry_price_min", 17>>, <<"entry_price_min", 0>>, <<"entry_price_max", 20>>,
     <<"tick_size", 0>>, <<"min_tradable_size", 0>>, <<"submission_count", 3>>,
     <<"submission_count", 0>>, <<"cancel_lead_ms", 0>>, <<"cancel_lead_ms", 3000>>,
     <<"cancel_ack_timeout_ms", 0>>, <<"feed_stale_warn_ms", 2>>,
     <<"feed_stale_critical_ms", 0>>, <<"clock_drift_warn_ms", 2>>,
     <<"clock_drift_critical_ms", 0>>, <<"outbound_rate_burst", 0>>,
     <<"outbound_rate_sustained", 0>>, <<"observation_retention_days", 0>>,
     <<"entry_price_max", Garbage>>, <<"position_notional_usd", Blank>>}}
  \cup {[TradingBase EXCEPT !.execution_windows = w] : w \in
          {<<3, 5, 3>>, <<5, 0>>, <<5, 60>>, <<5>>, <<5, 3, 7>>, Blank}}
  \cup {[TradingBase EXCEPT !.buffers = b] : b \in
          {<<<<3, 0>>, <<5, 2>>>>, <<<<3, 1>>, <<5, 2>>, <<3, 1>>>>, Blank}}
FaultyMajority ==
  {[MajorityBase EXCEPT ![f[1]] = f[2]] : f \in
    {<<"majority_price_retry_attempts", 4>>, <<"majority_price_retry_attempts", 11>>,
     <<"majority_buffer", -1>>, <<"majority_buffer", Blank>>,
     <<"majority_trigger_price", 0>>, <<"majority_trigger_price", Garbage>>,
     <<"majority_target_limit_price", 0>>, <<"majority_target_limit_price", 6>>,
     <<"majority_target_limit_price", 16>>, <<"majority_shares", 0>>,
     <<"majority_shares", 9>>, <<"majority_entry_price_min", 0>>,
     <<"majority_entry_price_min", 14>>, <<"majority_entry_price_min", 13>>}}
  \cup {[MajorityBase EXCEPT !.majority_execution_windows = w] : w \in
          {<<15, 0>>, <<60>>, Garbage}}

\* Off with its numbers blank, as .env ships; the one window of the older key; another
\* target; a window list that does not read.
MajorityOff ==
  [k \in DOMAIN MajorityBase |->
     IF k \in Switches \cup {"majority_enabled"} THEN FALSE
     ELSE IF k = "majority_price_retry_attempts" THEN 5 ELSE Blank]
OneWindow == [MajorityBase EXCEPT !.majority_execution_windows = Blank,
                                  !.majority_trigger_limit_enabled = FALSE,
                                  !.majority_price_retry_enabled = TRUE]
OtherTarget == [MajorityBase EXCEPT !.majority_target_limit_price = 8,
                                    !.majority_price_retry_attempts = 6]
Unread == [MajorityBase EXCEPT !.majority_execution_windows = Garbage]

MCEnvs ==
  {EnvA, Env(TradingBase, MajorityOff, 0), Env(TradingBase, OneWindow, 30),
   Env([TradingBase EXCEPT !.min_tradable_size = 12, !.submission_count = 1],
       [OtherTarget EXCEPT !.majority_shares = 12], 0),
   Env(TradingBase, Unread, 0)}
MCFirstEnvs ==
  MCEnvs \cup {Env(t, MajorityBase, 0) : t \in FaultyTrading}
         \cup {Env(TradingBase, m, 0) : m \in FaultyMajority}

\* A database from before MAJORITY, and one from before its switches.
MCOldRows ==
  {[flat |-> TradingBase, over |-> NoKeys],
   [flat |-> TradingBase @@ [k \in {"majority_enabled", LegacyKey} \cup Shared |->
                               IF k = LegacyKey THEN 30 ELSE MajorityBase[k]],
    over |-> NoKeys]}

Flat(f) == [flat |-> f, over |-> NoKeys]
MCBodies ==
  {Flat([majority_enabled |-> FALSE]),
   Flat([majority_enabled |-> TRUE] @@ MajorityBase),
   Flat([majority_target_limit_price |-> 10, majority_price_retry_attempts |-> 10]),
   Flat([majority_execution_windows |-> <<15>>, majority_trigger_limit_enabled |-> FALSE]),
   Flat([majority_shares |-> 9]), Flat([majority_execution_windows |-> <<15, 59>>]),
   [flat |-> NoKeys, over |-> (<<15, "majority_target_limit_price">> :> 14) @@
                              (<<15, "majority_shares">> :> 11)],
   [flat |-> NoKeys, over |-> (<<15, "majority_target_limit_price">> :> 6)]}
=============================================================================
