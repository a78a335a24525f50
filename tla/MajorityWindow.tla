--------------------------- MODULE MajorityWindow ----------------------------
(***************************************************************************)
(* The MAJORITY decision engine over the life of one market: every window  *)
(* waits for its entry condition, reads the book afresh on a later pass,   *)
(* locks the side with the higher bid, and records one intent before it    *)
(* has one order placed.                                                   *)
(*                                                                         *)
(* A pass visits the windows one after the other in one coroutine.  The    *)
(* book, the operator and the clock move where it awaits; a crash strikes  *)
(* anywhere.  Intents and orders are on disk, everything else is lost.     *)
(* What is left free: whether a BTC level or the TWAP distance is reached, *)
(* and every refusal of the risk and direction gates except the phase and  *)
(* the duplicate check.  With the paper adapter a book read does not       *)
(* really suspend: its steps are the ones in which the book stands still.  *)
(***************************************************************************)
EXTENDS Naturals

CONSTANTS
  N,             \* configured windows, visited in the order 1 .. N
  Mode,          \* EntryMode of each window
  TriggerLimit,  \* trigger_limit_enabled: the trigger/target switch
  TriggerPrice,  \* trigger_price, in the levels of Bids
  MaxBid         \* bound: levels of the book told apart

ASSUME WindowsAssumption ==
  /\ N \in Nat \ {0}
  /\ Mode \in [1 .. N -> {"DIRECT", "BTC_TRIGGER", "TWAP_SUPPORT"}]
  /\ TriggerLimit \in BOOLEAN
  /\ MaxBid \in Nat \ {0}
  /\ TriggerPrice \in 1 .. MaxBid

Windows == 1 .. N
Sides   == {"UP", "DOWN"}
Bids    == 0 .. MaxBid          \* 0: nobody bids on this side
Books   == [Sides -> Bids]

VARIABLES
  intent,     \* durable: the side of each window's intent, or "none"
  order,      \* durable: the side of the order row saved for it, or "none"
  over,       \* the market's interval has passed
  open,       \* windows the clock has opened
  book,       \* best bids at the venue
  gates,      \* the operator gates of _drive_execution are open
  phase,      \* of the MarketInstance this process holds, or "none"
  st, side,   \* MajorityMarketState: state and _selected_side
  latched,    \* price_trigger_reached
  ref,        \* windows with a btc_reference
  submitted,  \* the engine's _submitted set
  late,       \* triggered windows whose fresh read comes too late
  pc, win,    \* where the pass stands, and in which window
  up          \* the first of the two bids of a read

durable == <<intent, order>>
outside == <<over, open, book, gates>>
memory  == <<st, side, latched, ref, submitted>>
vars    == <<durable, outside, phase, memory, late, pc, win, up>>

Waiting == {"WAITING_WINDOW", "WINDOW_OPEN", "WAITING_TRIGGER"}
States  == Waiting \union
  {"TRIGGERED", "READING_CLOB", "SIDE_SELECTED", "INTENT_CREATED", "SUBMITTED", "NO_TRADE"}

Undecided == [w \in Windows |-> "none"]

Init ==
  /\ intent = Undecided /\ order = Undecided
  /\ over = FALSE /\ open = {} /\ book \in Books /\ gates = FALSE
  /\ phase = "none" /\ pc = "off" /\ win = 0 /\ up = 0
  /\ st = [w \in Windows |-> "WAITING_WINDOW"] /\ side = Undecided
  /\ latched = {} /\ ref = {} /\ submitted = {} /\ late = {}

\* Where the coroutine awaits.
Awaits == pc \in {"top", "trigUp", "trigDown", "readUp", "readDown", "placing"}

------------------------------------------------------------------------------
(* The world outside *)

BookMoves ==
  /\ Awaits
  /\ book' \in Books
  /\ UNCHANGED <<durable, over, open, gates, phase, memory, late, pc, win, up>>

\* Start, Stop, Pause, Resume and whatever else moves the gates.
GatesMove ==
  /\ Awaits
  /\ gates' = ~ gates
  /\ UNCHANGED <<durable, over, open, book, phase, memory, late, pc, win, up>>

IntervalEnds ==
  /\ Awaits \/ pc = "off"
  /\ ~ over
  /\ over' = TRUE
  /\ UNCHANGED <<durable, open, book, gates, phase, memory, late, pc, win, up>>

------------------------------------------------------------------------------
(* The intents table: UNIQUE(engine, market, window) *)

\* has_intent()
HasIntent(w) == intent[w] # "none"

\* intents_for(): MAJORITY's own rows; another engine's are never seen.
Intents == {w \in Windows : HasIntent(w)}

\* save_intent(): INSERT OR IGNORE, the first decision stays.
SaveIntent(w) == intent' = [intent EXCEPT ![w] = IF HasIntent(w) THEN @ ELSE side[w]]

------------------------------------------------------------------------------
(* The market in this process *)

\* reconstruct_locked_side(): the lock comes back, nothing of the read behind it does.
Reconstructed(locked) ==
  /\ side' = [w \in Windows |-> IF w \in locked THEN intent[w] ELSE "none"]
  /\ st' = [w \in Windows |-> IF w \in locked THEN "SIDE_SELECTED" ELSE "WAITING_WINDOW"]

\* Mutant of Restored: the lock comes back, its being spent does not.
RestoredUnspent == Reconstructed(Intents) /\ submitted' = {}

\* open_market(), then restore_from_intents(): fresh state for every window, the
\* lock and the spent opportunity of those that already have an intent.
Restored == Reconstructed(Intents) /\ submitted' = Intents

Open ==
  /\ pc = "off" /\ ~ over
  /\ phase' = "ACTIVE"
  /\ Restored
  /\ latched' = {} /\ ref' = {}
  /\ pc' = "top"
  /\ UNCHANGED <<durable, outside, late, win, up>>

Close ==
  /\ pc = "top" /\ phase = "ACTIVE" /\ over
  /\ phase' = "SETTLING"
  /\ UNCHANGED <<durable, outside, memory, late, pc, win, up>>

Forgotten ==
  /\ phase' = "none" /\ pc' = "off" /\ win' = 0 /\ up' = 0
  /\ st' = [w \in Windows |-> "WAITING_WINDOW"] /\ side' = Undecided
  /\ latched' = {} /\ ref' = {} /\ submitted' = {} /\ late' = {}

\* drop_market(), when the rotator archives the market.
Drop ==
  /\ pc = "top" /\ phase = "SETTLING"
  /\ Forgotten
  /\ UNCHANGED <<durable, outside>>

\* The process dies, by an exception out of a book read as well.
Crash ==
  /\ pc # "off"
  /\ Forgotten
  /\ gates' = FALSE
  /\ UNCHANGED <<durable, over, open, book>>

------------------------------------------------------------------------------
(* A pass over the windows *)

\* The clock is read once per pass: which windows have opened, and which
\* triggers are older than _FRESH_MAX_AGE_SECONDS, is fixed here.
BeginPass ==
  /\ pc = "top" /\ gates
  /\ open' \in {o \in SUBSET Windows : open \subseteq o}
  /\ late' \in {late \union l : l \in SUBSET {w \in Windows : st[w] = "TRIGGERED"}}
  /\ pc' = "window" /\ win' = 1
  /\ UNCHANGED <<durable, over, book, gates, phase, memory, up>>

NextWindow == IF win = N THEN pc' = "top" /\ win' = 0 ELSE pc' = "window" /\ win' = win + 1

At(w, s) == st' = [st EXCEPT ![w] = s]

\* Mutant of Idle: a trigger that has grown old is passed over, not resolved.
IdleWhenLate(w) == w \in submitted \/ st[w] = "NO_TRADE" \/ w \notin open \/ w \in late

Idle(w) == w \in submitted \/ st[w] = "NO_TRADE" \/ w \notin open

SkipWindow ==
  /\ pc = "window" /\ Idle(win)
  /\ NextWindow
  /\ UNCHANGED <<durable, outside, phase, memory, late, up>>

\* The trigger gate comes first and reads the book.
NeedsTrigger(w) == TriggerLimit /\ w \notin latched

ReadTrigger ==
  /\ pc = "window" /\ ~ Idle(win) /\ st[win] \in Waiting /\ NeedsTrigger(win)
  /\ At(win, IF st[win] = "WAITING_WINDOW" THEN "WINDOW_OPEN" ELSE st[win])
  /\ pc' = "trigUp"
  /\ UNCHANGED <<durable, outside, phase, side, latched, ref, submitted, late, win, up>>

\* _fire(), or await_trigger().
Fired(w) == At(w, "TRIGGERED")
Keeps(w) == At(w, "WAITING_TRIGGER")

\* The buffer gate.  The pass that captures the BTC reference cannot cross it.
Buffer(w) ==
  CASE Mode[w] = "DIRECT" -> Fired(w) /\ UNCHANGED ref
    [] Mode[w] = "BTC_TRIGGER" /\ w \notin ref -> Keeps(w) /\ ref' \in {ref, ref \union {w}}
    [] OTHER -> (Fired(w) \/ Keeps(w)) /\ UNCHANGED ref

EnterBuffer ==
  /\ pc = "window" /\ ~ Idle(win) /\ st[win] \in Waiting /\ ~ NeedsTrigger(win)
  /\ Buffer(win)
  /\ NextWindow
  /\ UNCHANGED <<durable, outside, phase, side, latched, submitted, late, up>>

TriggerUp ==
  /\ pc = "trigUp"
  /\ up' = book["UP"]
  /\ pc' = "trigDown"
  /\ UNCHANGED <<durable, outside, phase, memory, late, win>>

\* is_triggered(): inclusive, and never on a one-sided book.
Reached(a, b) == a > 0 /\ b > 0 /\ (a >= TriggerPrice \/ b >= TriggerPrice)

TriggerDown ==
  /\ pc = "trigDown"
  /\ IF Reached(up, book["DOWN"])
       THEN latched' = latched \union {win} /\ Buffer(win)
       ELSE Keeps(win) /\ UNCHANGED <<latched, ref>>
  /\ NextWindow
  /\ up' = 0
  /\ UNCHANGED <<durable, outside, phase, side, submitted, late>>

\* mark_reading(): the fresh read of a window that fired on an earlier pass.
ReadBook ==
  /\ pc = "window" /\ ~ Idle(win) /\ st[win] = "TRIGGERED"
  /\ At(win, "READING_CLOB")
  /\ pc' = "readUp"
  /\ UNCHANGED <<durable, outside, phase, side, latched, ref, submitted, late, win, up>>

ReadUp ==
  /\ pc = "readUp"
  /\ up' = book["UP"]
  /\ pc' = "readDown"
  /\ UNCHANGED <<durable, outside, phase, memory, late, win>>

\* determine_majority(): strict, and only on a complete book.
Majority(a, b) ==
  CASE a > 0 /\ b > 0 /\ a > b -> "UP"
    [] a > 0 /\ b > 0 /\ b > a -> "DOWN"
    [] OTHER -> "none"

\* Mutant of Verdict: the age of the trigger is not looked at.
VerdictAtAnyAge(w, a, b) == Majority(a, b)

Verdict(w, a, b) == IF w \in late THEN "none" ELSE Majority(a, b)

\* select_side() works once, and refuses a verdict that names no side.
Lockable(w, v)   == v # "none" /\ side[w] = "none"
SelectSide(w, v) == side' = [side EXCEPT ![w] = v] /\ At(w, "SIDE_SELECTED")

\* A window that gets its side goes on to _submit() in the same pass.
ReadDown ==
  /\ pc = "readDown"
  /\ LET v == Verdict(win, up, book["DOWN"]) IN
       IF Lockable(win, v)
         THEN SelectSide(win, v) /\ pc' = "submit" /\ UNCHANGED win
         ELSE At(win, "NO_TRADE") /\ NextWindow /\ UNCHANGED side
  /\ up' = 0
  /\ UNCHANGED <<durable, outside, phase, latched, ref, submitted, late>>

\* Mutant of MayTrade: the risk gates do not ask for the market's phase.
MayTradeAnyPhase(w) == ~ HasIntent(w) /\ w \notin submitted

\* The gates that are modelled: 3 (phase), 7 (duplicate intent), check 12.
MayTrade(w) == phase = "ACTIVE" /\ ~ HasIntent(w) /\ w \notin submitted

\* Any gate may refuse: the window is spent without a trade.
Refuse ==
  /\ pc = "submit"
  /\ At(win, "NO_TRADE")
  /\ NextWindow
  /\ UNCHANGED <<durable, outside, phase, side, latched, ref, submitted, late, up>>

\* Mutant of Submit: act before write.
SubmitUnrecorded ==
  /\ pc = "submit" /\ MayTrade(win)
  /\ At(win, "INTENT_CREATED")
  /\ submitted' = submitted \union {win}
  /\ pc' = "row"
  /\ UNCHANGED <<durable, outside, phase, side, latched, ref, late, win, up>>

\* The intent goes to disk before anything is asked of the venue.
Submit ==
  /\ pc = "submit" /\ MayTrade(win)
  /\ SaveIntent(win)
  /\ At(win, "INTENT_CREATED")
  /\ submitted' = submitted \union {win}
  /\ pc' = "row"
  /\ UNCHANGED <<order, outside, phase, side, latched, ref, late, win, up>>

\* The Submitter's own write, a second commit, before it awaits the venue.
SaveRow ==
  /\ pc = "row"
  /\ order' = [order EXCEPT ![win] = side[win]]
  /\ pc' = "placing"
  /\ UNCHANGED <<intent, outside, phase, memory, late, win, up>>

\* Whatever the venue answered, the ladder is in the order engine's hands.
Placed ==
  /\ pc = "placing"
  /\ At(win, "SUBMITTED")
  /\ NextWindow
  /\ UNCHANGED <<durable, outside, phase, side, latched, ref, submitted, late, up>>

Market  == Open \/ Close \/ Drop
Reading == TriggerUp \/ TriggerDown \/ ReadUp \/ ReadDown
Visit   == SkipWindow \/ ReadTrigger \/ EnterBuffer \/ ReadBook
Trade   == Refuse \/ Submit \/ SaveRow \/ Placed
Outside == BookMoves \/ GatesMove \/ IntervalEnds

Next == Market \/ BeginPass \/ Visit \/ Reading \/ Trade \/ Outside \/ Crash
Spec == Init /\ [][Next]_vars

\* The coroutine goes on by itself; the book, the clock and the operator need not.
FairSpec == Spec /\ WF_vars(BeginPass \/ Visit \/ Reading \/ Trade)

------------------------------------------------------------------------------
(* Properties *)

TypeOK ==
  /\ intent \in [Windows -> Sides \union {"none"}]
  /\ order  \in [Windows -> Sides \union {"none"}]
  /\ over \in BOOLEAN /\ open \subseteq Windows /\ book \in Books /\ gates \in BOOLEAN
  /\ phase \in {"none", "ACTIVE", "SETTLING"}
  /\ st \in [Windows -> States] /\ side \in [Windows -> Sides \union {"none"}]
  /\ latched \subseteq Windows /\ ref \subseteq Windows
  /\ submitted \subseteq Windows /\ late \subseteq Windows
  /\ pc \in {"off", "top", "window", "trigUp", "trigDown", "readUp", "readDown",
             "submit", "row", "placing"}
  /\ win \in 0 .. N /\ up \in Bids

\* While a market is held, the lock in memory and the intent on disk are the same
\* decision, after any number of restarts: a window with an intent is locked on
\* the intent's side and never fires again (restore_from_intents).
LockMatchesIntent ==
  phase # "none" =>
    \A w \in Windows :
      /\ intent[w] # "none" => side[w] = intent[w] /\ w \in submitted
      /\ w \in submitted => intent[w] # "none"

\* A side read too long after its trigger is not traded (_FRESH_MAX_AGE_SECONDS).
NoStaleTrade == \A w \in late : intent[w] = "none"

\* Nothing is decided or sent for a market that has closed in the engine's hands,
\* although the closing market is visited by every pass (risk gate 3).
TradesWhileActive == [][durable' # durable => phase = "ACTIVE"]_vars

\* Intents and order rows are what OneShot promises, whatever dies in between.
Shot == INSTANCE OneShot WITH decided <- intent, traded <- order
ImplementsOneShot == Shot!Spec

\* While the gates stay open a window that has fired comes to an end: an order,
\* or NO_TRADE.
TriggeredResolves ==
  <>[]gates =>
    \A w \in Windows :
      st[w] = "TRIGGERED" ~> st[w] \in {"SUBMITTED", "NO_TRADE"} \/ pc = "off"
==============================================================================
