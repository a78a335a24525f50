---------------------------- MODULE MCPriceFeed ------------------------------
(***************************************************************************)
(* PriceFeed with a market that needs two moves to jump further than one   *)
(* sample may, offsets and delays on both sides of every limit, messages   *)
(* with one thing wrong, and a stream with two decimals: Full is 3.        *)
(***************************************************************************)
EXTENDS PriceFeed

MCPrices == {100000, 104000, 108000}

SlowRightFast == {-6, -2, 0, 5}

RtdsEnv == [twap |-> "RTDS", key |-> FALSE, secret |-> FALSE, feed |-> FALSE, decimals |-> 0]
ChainlinkEnv == [twap |-> "CHAINLINK", key |-> TRUE, secret |-> TRUE, feed |-> TRUE,
                 decimals |-> 2]
MCEnvs ==
  {RtdsEnv, ChainlinkEnv, [RtdsEnv EXCEPT !.twap = "OTHER"],
   [ChainlinkEnv EXCEPT !.key = FALSE], [ChainlinkEnv EXCEPT !.secret = FALSE],
   [ChainlinkEnv EXCEPT !.feed = FALSE], [ChainlinkEnv EXCEPT !.decimals = 0]}

\* The live relay's tick: the exact text beside a lossy float.
Live(p) == [symbol |-> "ours", stamp |-> "millis", exact |-> Number(p),
            plain |-> [form |-> "float", n |-> 0]]
Faulty(t) ==
  {[t EXCEPT !.symbol = "none"], [t EXCEPT !.symbol = "other"], [t EXCEPT !.stamp = "none"],
   [t EXCEPT !.stamp = "elsewhen"], [t EXCEPT !.exact = Absent],
   [t EXCEPT !.exact = Number(-t.exact.n)], [t EXCEPT !.exact.form = "float"]}

\* Also the plain spelling, and a bad print at about half the price.
MCTicks ==
  [p \in MCPrices |->
     {Live(p), [Live(p) EXCEPT !.exact = Absent, !.plain = Number(p \div 1000)],
      [Live(p) EXCEPT !.exact = Number(52000)]} \cup Faulty(Live(p))]

V3(p) == [form |-> "v3", stamp |-> "seconds", price |-> p \div 10]
MCReports ==
  [p \in MCPrices |->
     {V3(p), [V3(p) EXCEPT !.price = 5200], [V3(p) EXCEPT !.price = -1],
      [V3(p) EXCEPT !.stamp = "elsewhen"], [V3(p) EXCEPT !.form = "schema"],
      [V3(p) EXCEPT !.form = "bare"]}]

==============================================================================
