----------------------------- MODULE LimitOrders -----------------------------
(***************************************************************************)
(* The limit order engine of one market: submission, fill polling,         *)
(* repricing, the sweep at close and restart recovery, against a venue     *)
(* that fills orders, loses answers and may be asked through two adapters. *)
(*                                                                         *)
(* The process is ONE coroutine (ArcRuntime._main_loop), so the steps      *)
(* of a pass are sequential; what interleaves with them is the venue, the  *)
(* clock and the death of the process.  A step ends where the code awaits  *)
(* the venue or commits to SQLite, because a crash there is observable.    *)
(*                                                                         *)
(* Quantities are counted in unit fills.  An order id is <<slot, gen>>:    *)
(* the slot is the reprice chain (market, window, ladder index) and gen is *)
(* the position in that chain.                                             *)
(***************************************************************************)
EXTENDS OrderStates, FiniteSets

CONSTANTS
  Slots,         \* the submission slots (reprice chains) of the market
  Size,          \* the approved size of every slot, in unit fills
  MaxRetries,    \* MAX_PRICE_RETRIES: generations after the first
  PreAttempts,   \* pre_reprice_attempts: passes an order rests before a move
  Paper,         \* TRUE: PaperExecutor (V1).  FALSE: LiveExecutor (V2)
  TokensKnown    \* TRUE: the token cache answers while recovery runs

ASSUME SizeAssumption  == Size \in Nat \ {0}
ASSUME BoundAssumption == MaxRetries \in Nat /\ PreAttempts \in Nat
ASSUME ModeAssumption  == Paper \in BOOLEAN /\ TokensKnown \in BOOLEAN

None == <<>>                                \* no order is being worked on
Gens == 0 .. MaxRetries
Oids == Slots \X Gens

VARIABLES
  \* SQLite, which survives the process
  orders,       \* orders[o]: the row of order o, or NoRow
  recorded,     \* recorded[o]: unit fills of o in the fills table
  marketRow,    \* the market's phase column, or "NONE" before its row exists
  \* the world
  accepted,     \* accepted[o]: how often the venue accepted order o
  resting,      \* the orders on the venue's book
  executed,     \* executed[o]: unit fills of o the venue has executed
  latePlaces,   \* placements without a true answer that may still take effect
  lateCancels,  \* cancels likewise
  closed,       \* the wall clock has crossed the market's close
  \* the process, lost in a crash
  pc,           \* where the main loop stands
  cur,          \* the order a venue call is about, or None
  call,         \* the answer to that call, "none" until the venue has acted
  todo,         \* what remains of the loop the code is in
  phase,        \* MarketInstance.phase, "NONE" when the market is not held
  passes        \* Repricer._passes, per chain

durable  == <<orders, recorded, marketRow>>
venues   == <<accepted, resting, executed>>
lost     == <<latePlaces, lateCancels>>
world    == <<venues, lost, closed>>
memory   == <<cur, call, todo, phase, passes>>
vars     == <<durable, world, pc, memory>>

\* A fresh database, an idle venue and no process.
Init ==
  /\ orders    = [o \in Oids |-> NoRow]
  /\ recorded  = [o \in Oids |-> 0]
  /\ marketRow = "NONE"
  /\ accepted  = [o \in Oids |-> 0]
  /\ resting   = {}
  /\ executed  = [o \in Oids |-> 0]
  /\ latePlaces  = {}
  /\ lateCancels = {}
  /\ closed    = FALSE
  /\ pc        = "down"
  /\ cur       = None
  /\ call      = "none"
  /\ todo      = {}
  /\ phase     = "NONE"
  /\ passes    = [s \in Slots |-> 0]

------------------------------------------------------------------------------
(* Helpers *)

\* Mutant of LiveRows: a partly filled order is no longer looked for.
LiveRowsLessPartial == {o \in Oids : orders[o].state \in LiveStates \ {"PARTIAL"}}

LiveRows       == {o \in Oids : IsLive(orders[o])}
Save(o, row)   == orders' = [orders EXCEPT ![o] = row]
SaveState(o, state) == Save(o, Transition(orders[o], state))
Successor(o)   == <<o[1], o[2] + 1>>

\* Fills the adapter can name: V2 knows an order only by the venue id it saved.
Reported(o) == IF Paper \/ orders[o].linked THEN executed[o] ELSE 0
Unrecorded  == {o \in Oids : Reported(o) > recorded[o]}

\* The code between two awaits: the venue cannot be seen to act in it.
Synchronous == pc \in {"resolve", "ingest", "apply"}

------------------------------------------------------------------------------
(* The venue and the clock *)

\* A counterparty trades one unit of a resting order.  The paper venue trades
\* only from _refresh_books, between the sweep and the drive of a pass.
VenueFill(o) ==
  /\ o \in resting
  /\ ~ Synchronous
  /\ Paper => pc = "drive" /\ phase # "NONE"
  /\ executed' = [executed EXCEPT ![o] = @ + 1]
  /\ resting'  = IF executed[o] + 1 < orders[o].size THEN resting ELSE resting \ {o}
  /\ UNCHANGED <<durable, accepted, lost, closed, pc, memory>>

\* A placement whose answer was lost, or an error, takes effect after all.
LatePlacement(o) ==
  /\ o \in latePlaces
  /\ ~ Synchronous
  /\ latePlaces' = latePlaces \ {o}
  /\ accepted' = [accepted EXCEPT ![o] = @ + 1]
  /\ resting'  = resting \union {o}
  /\ UNCHANGED <<durable, executed, lateCancels, closed, pc, memory>>

\* So does a cancel.
LateCancel(o) ==
  /\ o \in lateCancels
  /\ ~ Synchronous
  /\ lateCancels' = lateCancels \ {o}
  /\ resting' = resting \ {o}
  /\ UNCHANGED <<durable, accepted, executed, latePlaces, closed, pc, memory>>

ClockCloses ==
  /\ ~ closed
  /\ closed' = TRUE
  /\ UNCHANGED <<durable, venues, lost, pc, memory>>

------------------------------------------------------------------------------
(* Restart: RecoveryRunner.run, from ArcRuntime.recover *)

\* A new runtime.  The paper venue is rebuilt empty with it.
Start ==
  /\ pc = "down"
  /\ pc' = "reconcile"
  /\ resting'  = IF Paper THEN {} ELSE resting
  /\ executed' = IF Paper THEN [o \in Oids |-> 0] ELSE executed
  /\ UNCHANGED <<durable, accepted, lost, closed, memory>>

\* unsettled_markets() lists the market.
Unsettled == marketRow \notin {"NONE", "SETTLED"}

\* open_orders() answered, or there was nothing to ask about.
ReconcileListed ==
  /\ pc = "reconcile"
  /\ Unsettled /\ ~ Paper => TokensKnown
  /\ pc' = "resolve"
  /\ todo' = IF Unsettled THEN {o \in Oids : orders[o].state = "INDETERMINATE"} ELSE {}
  /\ UNCHANGED <<durable, world, cur, call, phase, passes>>

\* open_orders() raised: the pass is given up and recovery goes on.  A cold
\* token cache makes it raise always, an unreachable venue makes it raise too.
ReconcileFailed ==
  /\ pc = "reconcile"
  /\ Unsettled /\ ~ Paper
  /\ pc' = "expire"
  /\ UNCHANGED <<durable, world, memory>>

\* The listed row of an order.  V2 recognises a venue row by the id it saved.
Listed(o) == o \in resting /\ (Paper \/ orders[o].linked)

\* _resolve() on a row the venue lists: its filled size wins.
Adopted(o) ==
  LET filled == IF executed[o] > orders[o].size THEN orders[o].size ELSE executed[o]
  IN  [orders[o] EXCEPT !.filled = filled,
                        !.state  = IF filled > 0 THEN "PARTIAL" ELSE "SUBMITTED"]

\* _resolve() on a row the venue does not list.
Vanished(o) ==
  Transition(orders[o], IF orders[o].filled >= orders[o].size THEN "FILLED" ELSE "CANCELLED")

Resolve(o) ==
  /\ pc = "resolve"
  /\ o \in todo
  /\ todo' = todo \ {o}
  /\ Save(o, IF Listed(o) THEN Adopted(o) ELSE Vanished(o))
  /\ UNCHANGED <<recorded, marketRow, world, pc, cur, call, phase, passes>>

ResolveDone ==
  /\ pc = "resolve"
  /\ todo = {}
  /\ pc' = "expire"
  /\ UNCHANGED <<durable, world, memory>>

\* _recover_pending(): rows that "never reached the venue".  One row at most is
\* PENDING when a process dies, so the loop over them is one step.
ExpirePending ==
  /\ pc = "expire"
  /\ pc' = "settle"
  /\ orders' = IF Unsettled
                 THEN [o \in Oids |-> IF orders[o].state = "PENDING"
                                        THEN Transition(orders[o], "EXPIRED")
                                        ELSE orders[o]]
                 ELSE orders
  /\ UNCHANGED <<recorded, marketRow, world, memory>>

\* _settle_recovered(): paper only, and only when the observations are there.
SettleRecovered ==
  /\ pc = "settle"
  /\ pc' = "top"
  /\ marketRow' \in {marketRow} \union
                    (IF Paper /\ marketRow = "SETTLING" THEN {"SETTLED"} ELSE {})
  /\ UNCHANGED <<orders, recorded, world, memory>>

------------------------------------------------------------------------------
(* The top of a pass: ArcRuntime._main_loop and MarketRotator.advance *)

\* The market's window is the current one and no instance holds it.
Open ==
  /\ pc = "top"
  /\ ~ closed
  /\ phase = "NONE"
  /\ pc' = "drive"
  /\ phase' = "ACTIVE"
  /\ marketRow' = "ACTIVE"
  /\ UNCHANGED <<orders, recorded, world, cur, call, todo, passes>>

\* The boundary: the market closes and the sweep starts over its live rows.
Close ==
  /\ pc = "top"
  /\ closed
  /\ phase = "ACTIVE"
  /\ pc' = "sweep"
  /\ phase' = "SETTLING"
  /\ marketRow' = "SETTLING"
  /\ todo' = LiveRows
  /\ UNCHANGED <<orders, recorded, world, cur, call, passes>>

\* Neither: the pass goes on with the market it holds.
Advance ==
  /\ pc = "top"
  /\ phase = "SETTLING" \/ (phase = "ACTIVE" /\ ~ closed)
  /\ pc' = "drive"
  /\ UNCHANGED <<durable, world, memory>>

\* The market leaves: archived at the next boundary, or (paper) settled first.  Its
\* row may be settled later as well; only the next recovery could tell.
Archive ==
  /\ pc = "top"
  /\ phase = "SETTLING"
  /\ phase' = "NONE"
  /\ marketRow' \in {marketRow} \union (IF Paper THEN {"SETTLED"} ELSE {})
  /\ UNCHANGED <<orders, recorded, world, pc, cur, call, todo, passes>>

------------------------------------------------------------------------------
(* The sweep at close: SettlementSweeper.sweep and _cancel_one *)

\* Ask the venue to cancel the next live row.  (A PENDING row would be EXPIRED
\* without a call; recovery leaves none for a sweep to meet.)
SweepNext(o) ==
  /\ pc = "sweep"
  /\ cur = None
  /\ o \in todo
  /\ todo' = todo \ {o}
  /\ IF orders[o].state = "PENDING"
       THEN SaveState(o, "EXPIRED") /\ UNCHANGED <<cur, call>>
       ELSE cur' = o /\ call' = "none" /\ UNCHANGED orders
  /\ UNCHANGED <<recorded, marketRow, world, pc, phase, passes>>

\* Mutant of SweepAnswered: a cancel without an answer is booked as cancelled.
SweepAssumesCancelled ==
  /\ pc = "sweep"
  /\ cur # None
  /\ call # "none"
  /\ SaveState(cur, "CANCELLED")
  /\ cur' = None
  /\ call' = "none"
  /\ UNCHANGED <<recorded, marketRow, world, pc, todo, phase, passes>>

\* A refusal is booked as if the order were gone; anything unanswered stays unknown.
SweepAnswered ==
  /\ pc = "sweep"
  /\ cur # None
  /\ call # "none"
  /\ SaveState(cur, IF call \in {"ok", "refused"} THEN "CANCELLED" ELSE "INDETERMINATE")
  /\ cur' = None
  /\ call' = "none"
  /\ UNCHANGED <<recorded, marketRow, world, pc, todo, phase, passes>>

SweepDone ==
  /\ pc = "sweep"
  /\ cur = None
  /\ todo = {}
  /\ pc' = "drive"
  /\ UNCHANGED <<durable, world, memory>>

------------------------------------------------------------------------------
(* A cancel at the venue: PaperExecutor.cancel, LiveExecutor.cancel *)

Cancelling == cur # None /\ call = "none" /\ pc \in {"sweep", "reprice"}
CanReach   == Paper \/ orders[cur].linked     \* V2 needs the saved venue id

CancelAccepted ==
  /\ Cancelling
  /\ CanReach
  /\ cur \in resting
  /\ resting' = resting \ {cur}
  /\ call' = "ok"
  /\ UNCHANGED <<durable, accepted, executed, lost, closed, pc, cur, todo, phase, passes>>

\* A definite answer, and nothing happened.  The paper venue refuses what it does not hold;
\* a live refusal (not_canceled, a 401 or 403) may be about an order that still rests.
CancelRefused ==
  /\ Cancelling
  /\ CanReach
  /\ Paper => cur \notin resting
  /\ call' = "refused"
  /\ UNCHANGED <<durable, world, pc, cur, todo, phase, passes>>

\* An error status of the server is taken for a refusal too, and the venue may still act.
CancelErrored ==
  /\ Cancelling
  /\ ~ Paper
  /\ CanReach
  /\ call' = "refused"
  /\ lateCancels' = lateCancels \union {cur}
  /\ UNCHANGED <<durable, venues, latePlaces, closed, pc, cur, todo, phase, passes>>

\* No answer came; the request may still arrive, now or later.
CancelLost ==
  /\ Cancelling
  /\ ~ Paper
  /\ call' = "lost"
  /\ lateCancels' = IF CanReach THEN lateCancels \union {cur} ELSE lateCancels
  /\ UNCHANGED <<durable, venues, latePlaces, closed, pc, cur, todo, phase, passes>>

\* A transient reject: nothing happened, and a cancel is not repeated.
CancelThrottled ==
  /\ Cancelling
  /\ ~ Paper
  /\ CanReach
  /\ call' = "throttled"
  /\ UNCHANGED <<durable, world, pc, cur, todo, phase, passes>>

------------------------------------------------------------------------------
(* Submission: ArcRuntime._drive_execution and Submitter *)

\* The decision engine submits its ladder.  When it does is not decided here:
\* any pass may, and again, because the replay guard must make that harmless.
SubmitLadder ==
  /\ pc = "drive"
  /\ phase = "ACTIVE"
  /\ pc' = "ladder"
  /\ todo' = Slots \X {0}
  /\ UNCHANGED <<durable, world, cur, call, phase, passes>>

\* Mutant of Replayed: the ladder is not advanced past a replayed order.
ReplayedForever(o) ==
  /\ pc = "ladder"
  /\ o \in todo
  /\ orders[o] # NoRow
  /\ UNCHANGED vars

\* _existing(): a row is returned as it stands.
Replayed(o) ==
  /\ pc = "ladder"
  /\ o \in todo
  /\ orders[o] # NoRow
  /\ todo' = todo \ {o}
  /\ UNCHANGED <<durable, world, pc, cur, call, phase, passes>>

\* Mutant of SavePending: no replay guard, the row is written anew and sent again.
SavePendingAgain(o) ==
  /\ pc = "ladder"
  /\ o \in todo
  /\ todo' = todo \ {o}
  /\ Save(o, NewOrder(Size))
  /\ pc' = "place"
  /\ cur' = o
  /\ call' = "none"
  /\ UNCHANGED <<recorded, marketRow, world, phase, passes>>

\* Write before act: the PENDING row is committed, then the venue is called.
SavePending(o) ==
  /\ pc = "ladder"
  /\ o \in todo
  /\ orders[o] = NoRow
  /\ todo' = todo \ {o}
  /\ Save(o, NewOrder(Size))
  /\ pc' = "place"
  /\ cur' = o
  /\ call' = "none"
  /\ UNCHANGED <<recorded, marketRow, world, phase, passes>>

\* The fill poll follows, in the same pass; the first pass of a process that
\* holds no instance of this market drives another one.
Poll ==
  /\ \/ pc = "drive" /\ phase # "NONE"
     \/ pc = "ladder" /\ todo = {}
  /\ pc' = "ingest"
  /\ UNCHANGED <<durable, world, memory>>

\* The venue's listing raised: nothing in the loop catches it.
PollRaises ==
  /\ ~ Paper
  /\ \/ pc = "drive" /\ phase # "NONE"
     \/ pc = "ladder" /\ todo = {}
  /\ pc' = "down"
  /\ cur' = None /\ call' = "none" /\ todo' = {} /\ phase' = "NONE"
  /\ passes' = [s \in Slots |-> 0]
  /\ UNCHANGED <<durable, world>>

------------------------------------------------------------------------------
(* A placement at the venue: PaperExecutor.place, LiveExecutor.place *)

Placing == pc = "place" /\ call = "none"

PlaceAccepted ==
  /\ Placing
  /\ accepted' = [accepted EXCEPT ![cur] = @ + 1]
  /\ resting'  = resting \union {cur}
  /\ call' = "ok"
  /\ UNCHANGED <<durable, executed, lost, closed, pc, cur, todo, phase, passes>>

\* A definite refusal, or the last of the immediate retries was throttled.
PlaceRefused ==
  /\ Placing
  /\ ~ Paper
  /\ call' = "refused"
  /\ UNCHANGED <<durable, world, pc, cur, todo, phase, passes>>

\* An error status of the server, which may accept the order all the same.
PlaceErrored ==
  /\ Placing
  /\ ~ Paper
  /\ call' = "refused"
  /\ latePlaces' = latePlaces \union {cur}
  /\ UNCHANGED <<durable, venues, lateCancels, closed, pc, cur, todo, phase, passes>>

PlaceLost ==
  /\ Placing
  /\ ~ Paper
  /\ call' = "lost"
  /\ latePlaces' = latePlaces \union {cur}
  /\ UNCHANGED <<durable, venues, lateCancels, closed, pc, cur, todo, phase, passes>>

\* The row once the venue has answered, or once its answer is given up.
Answered(row) ==
  CASE call = "ok"   -> [row EXCEPT !.state = "SUBMITTED", !.linked = TRUE]
    [] call = "lost" -> Transition(row, "INDETERMINATE")
    [] OTHER         -> Transition(row, "REJECTED")

\* Mutant of PlaceAnswered: a successor inherits the passes of its predecessor.
PlaceAnsweredKeepingPasses ==
  /\ pc = "place"
  /\ call # "none"
  /\ Save(cur, Answered(orders[cur]))
  /\ pc' = IF cur[2] > 0 THEN "reprice" ELSE "ladder"
  /\ cur' = None
  /\ call' = "none"
  /\ UNCHANGED <<recorded, marketRow, world, todo, phase, passes>>

\* The answer is saved; a successor that rests starts its own count of passes.
PlaceAnswered ==
  /\ pc = "place"
  /\ call # "none"
  /\ Save(cur, Answered(orders[cur]))
  /\ passes' = IF cur[2] > 0 /\ call = "ok" THEN [passes EXCEPT ![cur[1]] = 0] ELSE passes
  /\ pc' = IF cur[2] > 0 THEN "reprice" ELSE "ladder"
  /\ cur' = None
  /\ call' = "none"
  /\ UNCHANGED <<recorded, marketRow, world, todo, phase>>

------------------------------------------------------------------------------
(* Fill ingestion: FillEngine.ingest *)

\* Mutant of RecordFill: novelty is not arbitrated by the fills table, so every
\* poll applies the venue's whole history again.
RecordFillAgain(o) ==
  /\ pc = "ingest"
  /\ Reported(o) > 0
  /\ IsLive(orders[o])
  /\ recorded' = [recorded EXCEPT ![o] = IF o \in Unrecorded THEN @ + 1 ELSE @]
  /\ pc' = "apply"
  /\ cur' = o
  /\ UNCHANGED <<orders, marketRow, world, call, todo, phase, passes>>

\* save_fill(): the fill row is committed first, on its own.
RecordFill(o) ==
  /\ pc = "ingest"
  /\ o \in Unrecorded
  /\ recorded' = [recorded EXCEPT ![o] = @ + 1]
  /\ pc' = "apply"
  /\ cur' = o
  /\ UNCHANGED <<orders, marketRow, world, call, todo, phase, passes>>

\* apply_fill() and save_order().
CountFill ==
  /\ pc = "apply"
  /\ IsLive(orders[cur])
  /\ Save(cur, ApplyFill(orders[cur]))
  /\ pc' = "ingest"
  /\ cur' = None
  /\ UNCHANGED <<recorded, marketRow, world, call, todo, phase, passes>>

\* apply_fill() raises on a final row, and nothing in the loop catches it.
FillRefused ==
  /\ pc = "apply"
  /\ ~ IsLive(orders[cur])
  /\ pc' = "down"
  /\ cur' = None /\ call' = "none" /\ todo' = {} /\ phase' = "NONE"
  /\ passes' = [s \in Slots |-> 0]
  /\ UNCHANGED <<durable, world>>

IngestDone ==
  /\ pc = "ingest"
  /\ Unrecorded = {}
  /\ pc' = "reprice"
  /\ todo' = {o \in LiveRows : Remaining(orders[o]) > 0}
  /\ UNCHANGED <<durable, world, cur, call, phase, passes>>

------------------------------------------------------------------------------
(* Repricing: ArcRuntime._reprice_open and Repricer.maybe_reprice *)

Movable(o)   == orders[o].state \in {"SUBMITTED", "PARTIAL"} /\ o[2] < MaxRetries
\* The count of passes; beyond PreAttempts + 1 its value makes no difference.
NextPass(s)  == IF passes[s] > PreAttempts THEN passes[s] ELSE passes[s] + 1
Repricing(o) == pc = "reprice" /\ cur = None /\ o \in todo

\* Not resting for sure, or the chain is used up: its count is dropped.
LeaveAlone(o) ==
  /\ Repricing(o)
  /\ ~ Movable(o)
  /\ todo' = todo \ {o}
  /\ passes' = [passes EXCEPT ![o[1]] = 0]
  /\ UNCHANGED <<durable, world, pc, cur, call, phase>>

\* The price is kept: too few passes yet, or the book names no better price.
KeepPrice(o) ==
  /\ Repricing(o)
  /\ Movable(o)
  /\ todo' = todo \ {o}
  /\ passes' = [passes EXCEPT ![o[1]] = NextPass(o[1])]
  /\ UNCHANGED <<durable, world, pc, cur, call, phase>>

\* The book moved: the cancel goes out first.
BeginMove(o) ==
  /\ Repricing(o)
  /\ Movable(o)
  /\ NextPass(o[1]) > PreAttempts
  /\ todo' = todo \ {o}
  /\ passes' = [passes EXCEPT ![o[1]] = NextPass(o[1])]
  /\ cur' = o
  /\ call' = "none"
  /\ UNCHANGED <<durable, world, pc, phase>>

\* The cancel was not acknowledged: the original stays what it was, or unknown.
MoveAbandoned ==
  /\ pc = "reprice"
  /\ cur # None
  /\ call \in {"refused", "throttled", "lost"}
  /\ IF call = "lost" THEN SaveState(cur, "INDETERMINATE") ELSE UNCHANGED orders
  /\ cur' = None
  /\ call' = "none"
  /\ UNCHANGED <<recorded, marketRow, world, pc, todo, phase, passes>>

\* Mutant of MoveCancelled: a lost answer to the cancel is taken for success.
MoveUnacknowledged ==
  /\ pc = "reprice"
  /\ cur # None
  /\ call \in {"ok", "lost"}
  /\ SaveState(cur, "CANCELLED")
  /\ pc' = "replace"
  /\ UNCHANGED <<recorded, marketRow, world, memory>>

MoveCancelled ==
  /\ pc = "reprice"
  /\ cur # None
  /\ call = "ok"
  /\ SaveState(cur, "CANCELLED")
  /\ pc' = "replace"
  /\ UNCHANGED <<recorded, marketRow, world, memory>>

\* The successor carries what the LOCAL row says is left.
SaveSuccessor ==
  /\ pc = "replace"
  /\ Save(Successor(cur), NewOrder(Remaining(orders[cur])))
  /\ pc' = "place"
  /\ cur' = Successor(cur)
  /\ call' = "none"
  /\ UNCHANGED <<recorded, marketRow, world, todo, phase, passes>>

RepriceDone ==
  /\ pc = "reprice"
  /\ cur = None
  /\ todo = {}
  /\ pc' = "top"
  /\ UNCHANGED <<durable, world, memory>>

------------------------------------------------------------------------------
\* The process is killed anywhere: its memory is gone.
Crash ==
  /\ pc # "down"
  /\ pc' = "down"
  /\ cur' = None /\ call' = "none" /\ todo' = {} /\ phase' = "NONE"
  /\ passes' = [s \in Slots |-> 0]
  /\ UNCHANGED <<durable, world>>

Recovery  == \/ Start \/ ReconcileListed \/ ReconcileFailed \/ ResolveDone
             \/ ExpirePending \/ SettleRecovered
             \/ \E o \in Oids : Resolve(o)
TopOfPass == Open \/ Close \/ Advance \/ Archive
Sweep     == SweepAnswered \/ SweepDone \/ \E o \in Oids : SweepNext(o)
CancelAtVenue == \/ CancelAccepted \/ CancelRefused \/ CancelErrored
                 \/ CancelLost \/ CancelThrottled
Submit    == \/ SubmitLadder
             \/ \E o \in Oids : Replayed(o) \/ SavePending(o)
PlaceAtVenue == PlaceAccepted \/ PlaceRefused \/ PlaceErrored \/ PlaceLost
Ingest    == \/ Poll \/ PollRaises \/ CountFill \/ FillRefused \/ IngestDone
             \/ \E o \in Oids : RecordFill(o)
Reprice   == \/ MoveAbandoned \/ MoveCancelled \/ SaveSuccessor \/ RepriceDone
             \/ \E o \in Oids : LeaveAlone(o) \/ KeepPrice(o) \/ BeginMove(o)

\* What the coroutine does next, the venue's answer to its call included.
Loop == \/ TopOfPass \/ Sweep \/ CancelAtVenue \/ Submit
        \/ PlaceAtVenue \/ PlaceAnswered \/ Ingest \/ Reprice

World == ClockCloses \/ \E o \in Oids : VenueFill(o) \/ LatePlacement(o) \/ LateCancel(o)

Next == Recovery \/ Loop \/ World \/ Crash

Spec == Init /\ [][Next]_vars

------------------------------------------------------------------------------
(* Properties *)

Row == [state : OrderState \union {"NONE"}, size : 0 .. Size,
        filled : 0 .. Size, linked : BOOLEAN]

TypeOK ==
  /\ orders    \in [Oids -> Row]
  /\ recorded  \in [Oids -> Nat]
  /\ marketRow \in {"NONE", "ACTIVE", "SETTLING", "SETTLED"}
  /\ accepted  \in [Oids -> Nat]
  /\ resting   \subseteq Oids
  /\ executed  \in [Oids -> Nat]
  /\ latePlaces  \subseteq Oids
  /\ lateCancels \subseteq Oids
  /\ closed    \in BOOLEAN
  /\ pc \in {"down", "reconcile", "resolve", "expire", "settle", "top", "sweep",
             "drive", "ladder", "place", "ingest", "apply", "reprice", "replace"}
  /\ cur       \in Oids \union {None}
  /\ call      \in {"none", "ok", "refused", "throttled", "lost"}
  /\ todo      \subseteq Oids
  /\ phase     \in {"NONE", "ACTIVE", "SETTLING"}
  /\ passes    \in [Slots -> 0 .. PreAttempts + 1]

\* No path asks transition() for a move its table refuses: every change of a
\* row is a legal one, and a final row never changes again.
LegalSteps ==
  [][\A o \in Oids :
       /\ orders[o] = NoRow /\ orders'[o] # NoRow => orders'[o].state = "PENDING"
       /\ orders[o] # NoRow /\ orders'[o].state # orders[o].state
            => CanMove(orders[o], orders'[o].state)
       /\ IsTerminal(orders[o]) => orders'[o] = orders[o]]_vars

\* "A retry can never leave a duplicate live order": at no time does the venue
\* hold two resting orders of one slot, whatever was lost, late or cut short.
OneRestingPerSlot ==
  \A o, p \in Oids :
    o[1] = p[1] /\ o \in resting /\ p \in resting => o = p

\* No order id is accepted twice: a request of unknown outcome is not repeated,
\* not by the submitter, not by a replay after a restart.
AcceptedOnce == \A o \in Oids : accepted[o] <= 1

\* "Recording it as cancelled is accurate": an order the books call cancelled is not on the
\* venue's book (SettlementSweeper._cancel_one, where a cancel was refused).
CancelledMeansGone ==
  \A o \in Oids : orders[o].state = "CANCELLED" => o \notin resting

\* The books never claim more than was executed: not after a replayed history, a
\* restart or a reconciliation.  (The paper venue forgets; the fills table holds.)
NeverOverstated ==
  \A o \in Oids : orders[o].filled <= recorded[o] \/ orders[o].filled <= executed[o]

\* A chain hands its unfilled remainder on exactly once: a successor exists only
\* behind a cancelled order, with the quantity that order's row left open.
ChainConserved ==
  \A o \in Oids :
    o[2] > 0 /\ orders[o] # NoRow =>
      LET before == orders[<<o[1], o[2] - 1>>]
      IN  before.state = "CANCELLED" /\ orders[o].size = before.size - before.filled

\* Once the sweep of a closed market is over, nothing of it rests at the venue:
\* no fill can follow against a book that knows the outcome.
SweptBeforeSettlement ==
  phase = "SETTLING" /\ pc # "sweep" => \A o \in Oids : o \notin resting

------------------------------------------------------------------------------
(* Sums over the orders of a slot *)

\* The units of S when an order o stands for h[o] of them, and how many they are.
Units(h, S) == UNION {{o} \X (1 .. h[o]) : o \in S}
Total(h, S) == Cardinality(Units(h, S))
Chain(s)    == {s} \X Gens

\* What slot s holds and may still come to hold without another placement.
Held == [o \in Oids |-> IF o \in resting THEN orders[o].size ELSE executed[o]]

\* Repricing, replay and restarts never expose a slot to more than was approved.
ExposureWithinApproval == \A s \in Slots : Total(Held, Chain(s)) <= Size

\* What an order had executed beyond the count its row was replaced with.
Replaced(o) == o[2] < MaxRetries /\ orders[Successor(o)] # NoRow
Uncounted ==
  [o \in Oids |-> IF Replaced(o) /\ executed[o] > orders[o].filled
                    THEN executed[o] - orders[o].filled ELSE 0]

\* What takes a slot past its approval is the fills of replaced orders that their rows had
\* not counted, and nothing else: not a replay, a restart, a refused placement, a lost or
\* late answer, a reconciliation or the sweep (maybe_reprice builds on remaining_size).
ExcessIsUncounted ==
  \A s \in Slots : Total(Held, Chain(s)) <= Size + Total(Uncounted, Chain(s))

\* What the venue may still add to the fills table: what is left of a resting
\* order, and what it executed that no poll has recorded.
Outstanding ==
  [o \in Oids |-> IF o \in resting THEN orders[o].size - recorded[o]
                  ELSE IF executed[o] > recorded[o] THEN executed[o] - recorded[o] ELSE 0]

Booked  == [s \in Slots |-> Total(recorded, Chain(s))]
Working == [s \in Slots |-> Total(Outstanding, Chain(s))]

Ledger == INSTANCE SlotLedger WITH booked <- Booked, working <- Working

\* With the paper adapter every behaviour of the engine is one of the ledger.
ImplementsLedger == Ledger!Spec

------------------------------------------------------------------------------
(* The paper account *)

\* Mutant of Committed: the cost of a position is read off the rows, not off the fills.
CommittedFromRows(o) ==
  IF ~Unsettled THEN 0 ELSE IF o \in LiveRows THEN orders[o].size ELSE orders[o].filled

\* What the account holds back for an order: its recorded fills, and what a live row has
\* left, as long as the market is unsettled.  (Times the price of the order, which the
\* comparison below does not need.)
Committed(o) ==
  IF ~Unsettled THEN 0
  ELSE recorded[o] + (IF o \in LiveRows THEN Remaining(orders[o]) ELSE 0)

\* What an order may cost: all of it while it rests, and what it has executed.
AtStake(o) ==
  IF o \in resting THEN orders[o].size
  ELSE IF ~Unsettled THEN 0
  ELSE IF executed[o] > recorded[o] THEN executed[o] ELSE recorded[o]

\* The account never shows as available what an order of it may still cost, in no step of a
\* pass, of a restart or of the settlement: the rows it joins are the venue's, or ahead.
AccountCovers == \A o \in Oids : Committed(o) >= AtStake(o)

------------------------------------------------------------------------------
(***************************************************************************)
(* The inductive invariant.  OneRestingPerSlot rests on a fact about whole *)
(* chains (ChainSound), which a reprice keeps only because a cancel that   *)
(* was acknowledged leaves nothing resting and nothing on the wire, and    *)
(* that in turn rests on what the answer in flight is about (CallSound).   *)
(***************************************************************************)

MayRest(o) == o \in resting \/ o \in latePlaces

\* What every row says of its own order.
RowsSound ==
  \A o \in Oids :
    /\ orders[o].filled <= orders[o].size
    /\ orders[o].state = "NONE" => orders[o] = NoRow /\ accepted[o] = 0 /\ ~ MayRest(o)
    /\ orders[o].state = "PENDING" => ~ orders[o].linked
    /\ orders[o].state \in {"SUBMITTED", "PARTIAL"} \/ orders[o].linked
         => o \notin latePlaces

\* A request on the wire has not been accepted, and is never the paper venue's.
WireSound ==
  \A o \in Oids :
    /\ accepted[o] <= 1
    /\ o \in latePlaces => accepted[o] = 0 /\ ~ Paper

\* Every order before another of its chain is cancelled, and gone for good.
ChainSound ==
  \A o, p \in Oids :
    o[1] = p[1] /\ o[2] < p[2] /\ orders[p].state # "NONE" =>
      orders[o].state = "CANCELLED" /\ ~ MayRest(o)

\* What the call in flight, and the loop around it, are about.
CallSound ==
  /\ pc = "place" =>
       /\ cur \in Oids \ (IF cur[2] > 0 THEN todo ELSE {})
       /\ orders[cur].state = "PENDING"
       /\ call = "none" => accepted[cur] = 0 /\ ~ MayRest(cur)
       /\ call = "ok" => cur \notin latePlaces
  /\ pc = "replace" =>
       /\ cur \in Oids \ todo
       /\ cur[2] < MaxRetries
       /\ orders[cur].state = "CANCELLED"
       /\ ~ MayRest(cur)
       /\ orders[Successor(cur)].state = "NONE"
  /\ pc = "reprice" /\ cur # None =>
       /\ cur \in Oids \ todo
       /\ Movable(cur)
       /\ call = "ok" => cur \notin resting
  /\ pc = "sweep" /\ cur # None =>
       cur \in Oids \ todo /\ orders[cur].state \in LiveStates \ {"PENDING"}
  /\ pc = "apply" => cur \in Oids /\ cur \notin latePlaces
  /\ pc \notin {"place", "replace", "reprice", "sweep", "apply"} => cur = None

\* What the rows of a loop still to be visited are.
TodoSound ==
  /\ pc \in {"sweep", "reprice", "replace"} \/ (pc = "place" /\ cur[2] > 0)
       => todo \subseteq LiveRows
  /\ pc = "resolve" => \A o \in todo : orders[o].state = "INDETERMINATE"
  /\ pc \in {"ladder"} \/ (pc = "place" /\ cur[2] = 0) => todo \subseteq Slots \X {0}

\* A PENDING row is the one being placed, or waits for recovery to close it out;
\* only a process that holds the market works its orders.
PendingSound ==
  /\ \A o \in Oids : orders[o].state = "PENDING" =>
       /\ Unsettled
       /\ (pc = "place" /\ cur = o) \/ pc \in {"down", "reconcile", "resolve", "expire"}
  /\ phase # "NONE" => Unsettled
  /\ pc \in {"sweep", "ladder", "place", "ingest", "apply", "reprice", "replace"}
       => phase # "NONE"
  /\ pc \in {"down", "reconcile", "resolve", "expire", "settle"} => phase = "NONE"

IInv == TypeOK /\ RowsSound /\ WireSound /\ ChainSound /\ CallSound /\ TodoSound /\ PendingSound
==============================================================================
