------------------------------- MODULE Samples -------------------------------
(***************************************************************************)
(* What the provider hands over and what is made of it: the ticks of the   *)
(* RTDS relay, the reports of Chainlink Data Streams translated to such    *)
(* ticks at the boundary, the parsing of a tick into a price, and the      *)
(* configurations that get a provider at all.                              *)
(*                                                                         *)
(* A price is a number of 10^-Full dollars.  A field is kept by its form   *)
(* and its number; an instant by its form, the seconds it denotes are the  *)
(* sample's delay in PriceFeed.                                            *)
(***************************************************************************)
EXTENDS Integers

CONSTANT Full   \* the decimals of full_accuracy_value, 18

ASSUME FullAssumption == Full \in Nat

\* A field that is not there; a JSON number with a fraction; one of another type, or text
\* that is no number; NaN or an infinity; an integer, or text that is one.
Forms  == {"none", "float", "other", "endless", "number"}
Stamps == {"none", "other", "endless", "seconds", "millis", "elsewhen"}

Field  == [form : Forms, n : Int]
Absent == [form |-> "none", n |-> 0]
Number(k) == [form |-> "number", n |-> k]

\* One message of the relay, its fields under any of their known spellings.
RelayTick == [symbol : {"none", "other", "ours"}, stamp : Stamps, exact : Field, plain : Field]

\* One message of Data Streams: what stops it from being decoded, or the v3 report.
Report == [form : {"text", "bare", "blob", "short", "schema", "cut", "v3"},
           stamp : Stamps, price : Int]

------------------------------------------------------------------------------
(* A tick *)

NoPrice == 0

Positive(n) == IF n \in Nat \ {0} THEN n ELSE NoPrice

\* _as_full_accuracy_price: the fixed-point integer; a float has lost its digits.
ExactPrice(f) == IF f.form = "number" THEN Positive(f.n) ELSE NoPrice

\* _as_price: whole dollars here; a float is refused for the same reason.
PlainPrice(f) == IF f.form = "number" THEN Positive(f.n * 10^Full) ELSE NoPrice

\* _as_seconds: a stamp in milliseconds is the same instant; one out of range is another
\* field that was read as a stamp.
Timed(s) == s \in {"seconds", "millis"}

\* parse_payload: the market's symbol, a time, and the exact price if the field is there,
\* even when it is unusable and the plain one is not.
ParsedPrice(t) ==
  IF t.symbol # "ours" \/ ~Timed(t.stamp) THEN NoPrice
  ELSE IF t.exact.form # "none" THEN ExactPrice(t.exact) ELSE PlainPrice(t.plain)

------------------------------------------------------------------------------
(* A report *)

\* decode_full_report: only the v3 layout is read.
Decodes(r) == r.form = "v3"

\* _translate: the integer of the report in the fixed point of full_accuracy_value; one
\* with more decimals than that is passed on as it is.
Scaled(raw, decimals) == IF decimals <= Full THEN raw * 10^(Full - decimals) ELSE raw

Translated(r, decimals) ==
  [symbol |-> "ours", stamp |-> r.stamp, exact |-> Number(Scaled(r.price, decimals)),
   plain |-> Absent]

\* The price a message is read as: what does not decode is dropped, what does not parse is
\* rejected, and neither is repaired.
ReportedPrice(r, decimals) ==
  IF Decodes(r) THEN ParsedPrice(Translated(r, decimals)) ELSE NoPrice

------------------------------------------------------------------------------
(* A provider *)

Env == [twap : {"RTDS", "CHAINLINK", "OTHER"}, key : BOOLEAN, secret : BOOLEAN,
        feed : BOOLEAN, decimals : Nat]

\* ArcSettings refuses any other name before anything is built.
Named(e) == e.twap \in {"RTDS", "CHAINLINK"}

\* build_chainlink_feed: refused with the missing item named.
ChainlinkComplete(e) == e.key /\ e.secret /\ e.feed /\ e.decimals > 0

\* build_provider: exactly the configured one, or none.
Builds(e) ==
  \/ e.twap = "RTDS"
  \/ e.twap = "CHAINLINK" /\ ChainlinkComplete(e)

==============================================================================
