------------------------------ MODULE Settings ------------------------------
(***************************************************************************)
(* Where a process's configuration comes from: .env on the first boot, the *)
(* settings table afterwards, the edits the dashboard writes to that table *)
(* and the profiles beside it.  A configuration is fixed for the life of a *)
(* process; an edit takes effect at the next boot.                         *)
(*                                                                         *)
(* Configuration edits are refused while trading is armed; that lock, and  *)
(* the START body that does not look at it, are in Supervisor.tla.  Here   *)
(* an edit may come at any time.                                           *)
(***************************************************************************)
EXTENDS RiskGates

CONSTANTS
  FirstEnvs,   \* what .env may hold at the start, values that are refused included
  Envs,        \* what the operator may change it to
  Bodies,      \* the settings a request may carry
  OldRows,     \* tables a database may already hold at the start
  MaxEdits     \* bound on the edits of a behaviour

ASSUME EditsAssumption == MaxEdits \in Nat
\* .env always has every field (ArcSettings gives the missing ones a default); a list is
\* the offsets, or offsets and buffers, that its text parses to.
ASSUME EnvAssumption ==
  \A e \in FirstEnvs \cup Envs :
    /\ DOMAIN e.trading = TradingKeys /\ DOMAIN e.majority = MajorityKeys
    /\ e.trading["execution_windows"] \in Seq(Int) \cup {Blank, Garbage}
    /\ e.trading["buffers"] \in Seq(Int \X Int) \cup {Blank, Garbage}
    /\ e.majority["majority_execution_windows"] \in Seq(Int) \cup {Blank, Garbage}
    /\ e.legacy \in Int

VARIABLES
  env,       \* .env
  rows,      \* table settings, a sheet
  profile,   \* a named profile on disk, or NoSheet
  running,   \* the configuration of the process, or NoConfig
  accepted,  \* what the last edit the dashboard accepted, or the seeding, was built to
  edits      \* edits so far

vars == <<env, rows, profile, running, accepted, edits>>

NoConfig == [none |-> TRUE]

Init ==
  /\ env \in FirstEnvs
  /\ rows \in OldRows \cup {NoSheet}
  /\ profile = NoSheet
  /\ running = NoConfig
  /\ accepted = NoConfig
  /\ edits = 0

\* The operator rewrites .env; nothing reads it before the next boot.
EditEnv ==
  /\ env' \in Envs \ {env}
  /\ UNCHANGED <<rows, profile, running, accepted, edits>>

\* What the next boot validates, with the venue constraints it will have built.
Boots(e, r) ==
  LET v == Loaded(e, r) IN EnvReads(e) /\ TradingAccepts(v.flat) /\ Accepts(v, Trading(v.flat))

\* cli.run: load and validate; only values that validated seed an empty table.
Boot ==
  /\ running = NoConfig
  /\ Boots(env, rows)
  /\ running' = Config(Loaded(env, rows))
  /\ IF rows = NoSheet
       THEN rows' = AsStorage(running') /\ accepted' = running'
       ELSE UNCHANGED <<rows, accepted>>
  /\ UNCHANGED <<env, profile, edits>>

\* The process ends, or crashes.
Down ==
  /\ running # NoConfig
  /\ running' = NoConfig
  /\ UNCHANGED <<env, rows, profile, accepted, edits>>

\* Every switch is there, so nothing that was validated as absent is filled from .env
\* by the next boot.  (It fills the shared numbers too; but a window that validated has
\* a number of its own, or the shared one is there.)
Complete(v) ==
  {"majority_enabled", "majority_price_retry_attempts", "majority_execution_windows"}
    \cup Switches \subseteq DOMAIN v.flat

\* An edit is validated against the venue constraints of the running process: it is
\* known what it will run as only if the table holds the same ones, and every switch.
Accepted(v) ==
  IF /\ Complete(v)
     /\ v.flat["tick_size"] = running.trading["tick_size"]
     /\ v.flat["min_tradable_size"] = running.trading["min_tradable_size"]
  THEN Config(v) ELSE NoConfig

\* POST /settings, and the body of START TRADING: the table with the edit over it,
\* validated as a whole and written as a whole; a refused edit changes nothing.
Save(body) ==
  /\ running # NoConfig
  /\ edits < MaxEdits
  /\ LET merged == Written(rows, body) IN
       /\ Accepts(merged, running.trading)
       /\ rows' = Written(rows, merged)
       /\ accepted' = Accepted(merged)
  /\ edits' = edits + 1
  /\ UNCHANGED <<env, profile, running>>

\* POST /settings?action=save_config
SaveConfig ==
  /\ running # NoConfig
  /\ edits < MaxEdits
  /\ profile' = rows
  /\ edits' = edits + 1
  /\ UNCHANGED <<env, rows, running, accepted>>

\* POST /settings?action=load_config: the profile is validated by itself and written
\* over the table, whose other keys stay.
LoadConfig ==
  /\ running # NoConfig
  /\ profile # NoSheet
  /\ edits < MaxEdits
  /\ Accepts(profile, running.trading)
  /\ rows' = Written(rows, profile)
  /\ accepted' = NoConfig
  /\ edits' = edits + 1
  /\ UNCHANGED <<env, profile, running>>

Next ==
  \/ EditEnv \/ Boot \/ Down
  \/ \E b \in Bodies : Save(b)
  \/ SaveConfig \/ LoadConfig

Spec == Init /\ [][Next]_vars

------------------------------------------------------------------------------
(* Properties *)

\* What the operator last had accepted is what a restart runs, whatever .env says by
\* then: load_settings, as_storage_dict and the merge of POST /settings.  Only a .env
\* whose own window list does not read stands in the way of the boot.
AcceptedRuns ==
  accepted # NoConfig /\ EnvReads(env) =>
    Boots(env, rows) /\ Config(Loaded(env, rows)) = accepted

\* Health and market in which nothing stands in the way of an order.
ClearHealth ==
  [enabled |-> TRUE, verified |-> TRUE, armed |-> TRUE, paused |-> FALSE,
   feedBlocked |-> FALSE, driftCritical |-> FALSE, running |-> TRUE,
   supervisorReady |-> TRUE, walletConnected |-> TRUE, orphans |-> FALSE,
   orders |-> 0, loss |-> 0, streak |-> 0, balance |-> -1]
ClearMarket == [phase |-> "ACTIVE", intent |-> FALSE, held |-> {}]

\* The builder looks at none of it: whether the target lies on the tick ladder, whether
\* the band starts where a bid can be, and whether the smallest share count, which is the
\* submitter's minimum, is still cleared once the size is cut to whole shares.
Reachable(c, s) ==
  /\ IF c.majority.triggerLimit
       THEN Quantized(s["majority_target_limit_price"], c.trading["tick_size"])
              = s["majority_target_limit_price"]
       ELSE s["majority_entry_price_min"] + c.trading["tick_size"] <= One
  /\ Quantized(s["majority_shares"], Share) >= SmallestShares(c)

\* A window of a configuration that runs can trade: with nothing in its way some bid
\* is priced, passes the nineteen gates and the direction gate, and is an order.
\* _build_one_window, _submit, the gates and split_size agree on a valid price and size.
ConfiguredWindowsTrade ==
  running # NoConfig =>
    \A w \in DOMAIN running.majority.windows :
      Reachable(running, running.majority.windows[w]) =>
        \E bid \in 1 .. One : Submits(running, w, ClearHealth, ClearMarket, "UP", bid)

\* One fact wrong at a time.
Faults ==
  {ClearHealth}
    \cup {[ClearHealth EXCEPT ![f] = FALSE] :
            f \in {"enabled", "armed", "running", "supervisorReady", "walletConnected"}}
    \cup {[ClearHealth EXCEPT ![f] = TRUE] :
            f \in {"feedBlocked", "driftCritical", "orphans"}}

\* A gate the dashboard shows as BLOCKED refuses, unless an earlier gate does: the
\* readiness of gate_readiness() and the evaluation read one health snapshot and must
\* not disagree.  Two rows have an answer of their own and are left out: strategy
\* (MAJORITY always passes it) and the loss limits (its own are off).
BlockedRefuses ==
  running # NoConfig =>
    \A w \in DOMAIN running.majority.windows, h \in Faults :
      LET s == running.majority.windows[w]
          x == Context(h, ClearMarket, s, "UP", s["majority_target_limit_price"]) IN
      \A g \in Blocked(running, h) :
        GateOrder[g] \notin {"strategy_enabled", "loss_limits"} => Evaluate(x) \in 1 .. g

\* A price at which window w of configuration c has an order rest, and that the gates and
\* the direction gate of that window would have approved.
Approved(c, w, side, price) ==
  LET s == c.majority.windows[w] IN
  /\ ~EntryBandRefuses(Context(ClearHealth, ClearMarket, s, side, price))
  /\ OnLadder(c, s, price)

\* Whatever configuration a process starts with, the moves of an order's chain leave it at
\* prices the gates would have approved: inside the band gate 11 looked at, and on the
\* ladder (the comment above _majority_repricers: a foreign band would move an order past
\* what was approved).
MovesStayApproved ==
  [][running' # running /\ running' # NoConfig =>
       \A w \in DOMAIN running'.majority.windows, side \in {"UP", "DOWN"}, bid \in 1 .. One :
         Submits(running', w, ClearHealth, ClearMarket, side, bid) =>
           \A p \in Rests(running', w, side, Price(running', w, bid).at) :
             Approved(running', w, side, p)]_vars
=============================================================================
