------------------------ MODULE MajorityWindowProofs -------------------------
(***************************************************************************)
(* Proofs about the decision engine, for any number of windows and levels  *)
(* of the book.  WindowInv says where the pass may stand and what a window *)
(* in each place has decided; the theorems follow from it.                 *)
(***************************************************************************)
EXTENDS MajorityWindow, TLAPS

\* Places of a pass that are inside a window.
Inside == {"window", "trigUp", "trigDown", "readUp", "readDown", "submit", "row", "placing"}

\* Where the pass stands, and what it may rely on there.
Stand ==
  /\ pc = "off" <=> phase = "none"
  /\ pc \in Inside => win \in Windows
  /\ pc \in {"trigUp", "trigDown", "readUp", "readDown", "submit"} => win \notin submitted
  /\ pc = "submit" => side[win] \in Sides /\ win \notin late
  /\ pc = "row" => phase = "ACTIVE" /\ win \in submitted /\ order[win] = "none"

\* What each window has decided: on disk, in memory, and before it is spent.
Decided ==
  \A w \in Windows :
    /\ order[w] \in {"none", intent[w]}
    /\ phase # "none" /\ w \in submitted => intent[w] # "none"
    /\ phase # "none" /\ intent[w] # "none" => side[w] = intent[w] /\ w \in submitted
    /\ st[w] = "TRIGGERED" => phase # "none" /\ w \notin submitted
    /\ w \in late => intent[w] = "none"

WindowInv == TypeOK /\ Stand /\ Decided

------------------------------------------------------------------------------
(* Lemmas *)

LEMMA NextWindowMoves ==
  ASSUME win \in Windows, NextWindow
  PROVE  /\ win' \in 0 .. N
         /\ pc' \in {"top", "window"}
         /\ pc' = "window" => win' \in Windows
  BY WindowsAssumption DEF NextWindow, Windows

LEMMA AtMoves ==
  ASSUME st \in [Windows -> States], NEW w \in Windows, NEW s \in States, At(w, s)
  PROVE  /\ st' \in [Windows -> States]
         /\ \A v \in Windows : st'[v] = IF v = w THEN s ELSE st[v]
  BY DEF At

LEMMA BufferMoves ==
  ASSUME st \in [Windows -> States], ref \subseteq Windows, NEW w \in Windows, Buffer(w)
  PROVE  /\ st' \in [Windows -> States]
         /\ ref' \subseteq Windows
         /\ \A v \in Windows : v # w => st'[v] = st[v]
  <1>1. At(w, "TRIGGERED") \/ At(w, "WAITING_TRIGGER")
    BY DEF Buffer, Fired, Keeps
  <1>2. ref' \subseteq Windows
    BY DEF Buffer
  <1>3. {"TRIGGERED", "WAITING_TRIGGER"} \subseteq States
    BY DEF States, Waiting
  <1> QED BY <1>1, <1>2, <1>3, AtMoves

\* A step that decides nothing keeps Decided when no spent window becomes TRIGGERED
\* and no decided one late.
LEMMA NothingDecided ==
  ASSUME Decided,
         UNCHANGED <<intent, order, side, submitted>>,
         phase' = phase \/ (phase # "none" /\ phase' # "none"),
         \A w \in Windows : st'[w] = "TRIGGERED" =>
           st[w] = "TRIGGERED" \/ (phase # "none" /\ w \notin submitted),
         \A w \in Windows : w \in late' => w \in late \/ intent[w] = "none"
  PROVE  Decided'
  BY DEF Decided

LEMMA NoLevel == 0 \in Bids
  BY WindowsAssumption DEF Bids

LEMMA StatesNamed ==
  /\ Waiting \subseteq States
  /\ {"TRIGGERED", "READING_CLOB", "SIDE_SELECTED", "INTENT_CREATED", "SUBMITTED", "NO_TRADE"}
       \subseteq States
  /\ {"WAITING_WINDOW", "WINDOW_OPEN", "WAITING_TRIGGER"} \subseteq States
  BY DEF States, Waiting

LEMMA InitWindow == Init => WindowInv
  <1> SUFFICES ASSUME Init PROVE WindowInv
    OBVIOUS
  <1>1. 0 \in 0 .. N
    BY WindowsAssumption
  <1>2. TypeOK
    BY <1>1, NoLevel, StatesNamed DEF Init, TypeOK, Undecided
  <1>3. Stand
    BY DEF Init, Stand, Inside
  <1>4. Decided
    BY DEF Init, Decided, Undecided
  <1> QED BY <1>2, <1>3, <1>4 DEF WindowInv
------------------------------------------------------------------------------
(* Every step keeps the invariant *)

LEMMA OutsideStep == ASSUME WindowInv, Outside PROVE WindowInv'
  <1>1. /\ UNCHANGED <<durable, phase, memory, late, pc, win, up>>
        /\ over' \in BOOLEAN /\ book' \in Books /\ gates' \in BOOLEAN /\ open' = open
    <2> USE DEF WindowInv, TypeOK
    <2>1. CASE BookMoves
      BY <2>1 DEF BookMoves
    <2>2. CASE GatesMove
      BY <2>2 DEF GatesMove
    <2>3. CASE IntervalEnds
      BY <2>3 DEF IntervalEnds
    <2> QED BY <2>1, <2>2, <2>3 DEF Outside
  <1>2. TypeOK'
    BY <1>1 DEF WindowInv, TypeOK, durable, memory
  <1>3. Stand'
    BY <1>1 DEF WindowInv, Stand, durable, memory
  <1>4. Decided'
    BY <1>1, NothingDecided DEF WindowInv, durable, memory
  <1> QED BY <1>2, <1>3, <1>4 DEF WindowInv

LEMMA StutterStep == ASSUME WindowInv, UNCHANGED vars PROVE WindowInv'
  <1>1. UNCHANGED <<intent, order, over, open, book, gates, phase, st, side, latched, ref,
                    submitted, late, pc, win, up>>
    BY DEF vars, durable, outside, memory
  <1>2. TypeOK' /\ Stand'
    BY <1>1 DEF WindowInv, TypeOK, Stand
  <1>3. Decided'
    BY <1>1, NothingDecided DEF WindowInv
  <1> QED BY <1>2, <1>3 DEF WindowInv

\* What the market's end and the process's leave behind.
LEMMA ForgottenStep ==
  ASSUME WindowInv, Forgotten, UNCHANGED <<durable, over, open, book>>, gates' \in BOOLEAN
  PROVE  WindowInv'
  <1>1. 0 \in 0 .. N
    BY WindowsAssumption
  <1>2. TypeOK'
    BY <1>1, NoLevel, StatesNamed DEF WindowInv, TypeOK, Forgotten, Undecided, durable
  <1>3. Stand'
    BY DEF Stand, Forgotten, Inside
  <1>4. Decided'
    BY DEF WindowInv, Decided, Forgotten, durable
  <1> QED BY <1>2, <1>3, <1>4 DEF WindowInv

LEMMA MarketStep == ASSUME WindowInv, Market PROVE WindowInv'
  <1>1. CASE Open
    <2>1. TypeOK'
      BY <1>1, StatesNamed
      DEF WindowInv, TypeOK, Open, Restored, Reconstructed, Intents, HasIntent, durable, outside
    <2>2. Stand'
      BY <1>1 DEF WindowInv, Stand, Inside, Open
    <2>3. Decided'
      BY <1>1 DEF WindowInv, Decided, Open, Restored, Reconstructed, Intents, HasIntent, durable
    <2> QED BY <2>1, <2>2, <2>3 DEF WindowInv
  <1>2. CASE Close
    <2>1. UNCHANGED <<intent, order, over, open, book, gates, st, side, latched, ref,
                      submitted, late, pc, win, up>> /\ phase' = "SETTLING" /\ phase # "none"
          /\ pc = "top"
      BY <1>2 DEF Close, durable, outside, memory
    <2>2. TypeOK'
      BY <2>1 DEF WindowInv, TypeOK
    <2>3. Stand'
      BY <2>1 DEF WindowInv, Stand
    <2>4. Decided'
      BY <2>1, NothingDecided DEF WindowInv
    <2> QED BY <2>2, <2>3, <2>4 DEF WindowInv
  <1>3. CASE Drop
    BY <1>3, ForgottenStep DEF Drop, outside, WindowInv, TypeOK
  <1> QED BY <1>1, <1>2, <1>3 DEF Market

LEMMA CrashStep == ASSUME WindowInv, Crash PROVE WindowInv'
  BY ForgottenStep DEF Crash

LEMMA BeginPassStep == ASSUME WindowInv, BeginPass PROVE WindowInv'
  <1>1. UNCHANGED <<intent, order, over, book, gates, phase, st, side, latched, ref,
                    submitted, up>>
        /\ pc = "top" /\ pc' = "window" /\ win' = 1
    BY DEF BeginPass, durable, memory
  <1>2. open' \subseteq Windows
    BY DEF BeginPass
  <1>3. PICK l \in SUBSET {w \in Windows : st[w] = "TRIGGERED"} : late' = late \union l
    BY DEF BeginPass
  <1>4. 1 \in Windows /\ 1 \in 0 .. N
    BY WindowsAssumption DEF Windows
  <1>5. TypeOK'
    BY <1>1, <1>2, <1>3, <1>4 DEF WindowInv, TypeOK
  <1>6. Stand'
    BY <1>1, <1>4 DEF WindowInv, Stand, Inside
  <1>7. \A w \in Windows : w \in late' => w \in late \/ intent[w] = "none"
    BY <1>3 DEF WindowInv, Decided
  <1>8. Decided'
    BY <1>1, <1>7, NothingDecided DEF WindowInv
  <1> QED BY <1>5, <1>6, <1>8 DEF WindowInv
\* What a visit does that neither locks a side nor writes: it moves the pass on
\* and, at most, fires the window it is in.
LEMMA Moves ==
  ASSUME WindowInv, pc \in Inside,
         UNCHANGED <<intent, order, over, open, book, gates, phase, side, submitted, late>>,
         st' \in [Windows -> States], latched' \subseteq Windows, ref' \subseteq Windows,
         up' \in Bids, win' \in 0 .. N,
         pc' \in {"top", "window", "trigUp", "trigDown", "readUp", "readDown"},
         pc' # "top" => win' \in Windows,
         pc' \in {"trigUp", "trigDown", "readUp", "readDown"} => win' \notin submitted,
         \A w \in Windows : st'[w] = "TRIGGERED" => st[w] = "TRIGGERED" \/ w \notin submitted
  PROVE  WindowInv'
  <1>0. phase # "none"
    BY DEF WindowInv, Stand, Inside
  <1>1. TypeOK'
    BY DEF WindowInv, TypeOK
  <1>2. Stand'
    BY <1>0 DEF WindowInv, Stand, Inside
  <1>3. Decided'
    BY <1>0, NothingDecided DEF WindowInv
  <1> QED BY <1>1, <1>2, <1>3 DEF WindowInv

\* The facts a visit starts from.
LEMMA Inside1 ==
  ASSUME WindowInv, pc \in Inside
  PROVE  /\ win \in Windows /\ win \in 0 .. N
         /\ st \in [Windows -> States] /\ latched \subseteq Windows /\ ref \subseteq Windows
         /\ up \in Bids /\ book["UP"] \in Bids /\ book["DOWN"] \in Bids
  <1>1. win \in Windows
    BY DEF WindowInv, Stand
  <1>2. book["UP"] \in Bids /\ book["DOWN"] \in Bids
    BY DEF WindowInv, TypeOK, Books, Sides
  <1> QED BY <1>1, <1>2 DEF WindowInv, TypeOK

LEMMA VisitStep == ASSUME WindowInv, Visit PROVE WindowInv'
  <1>1. pc = "window" /\ pc \in Inside
    BY DEF Visit, SkipWindow, ReadTrigger, EnterBuffer, ReadBook, Inside
  <1>2. CASE SkipWindow
    <2>1. UNCHANGED <<durable, outside, phase, memory, late, up>> /\ NextWindow
      BY <1>2 DEF SkipWindow
    <2> QED BY <1>1, <2>1, Inside1, NextWindowMoves, Moves DEF durable, outside, memory
  <1>3. CASE ReadTrigger
    <2>1. UNCHANGED <<intent, order, over, open, book, gates, phase, side, latched, ref,
                      submitted, late, win, up>> /\ pc' = "trigUp" /\ win \notin submitted
      BY <1>3 DEF ReadTrigger, Idle, durable, outside
    <2>2. PICK s \in Waiting : At(win, s)
      BY <1>3 DEF ReadTrigger, Waiting
    <2>3. s \in States /\ s # "TRIGGERED"
      BY StatesNamed DEF Waiting
    <2>4. st' \in [Windows -> States] /\ \A w \in Windows : st'[w] = "TRIGGERED" => st[w] = "TRIGGERED"
      BY <1>1, <2>2, <2>3, Inside1, AtMoves
    <2> QED BY <1>1, <2>1, <2>4, Inside1, Moves
  <1>4. CASE EnterBuffer
    <2>1. UNCHANGED <<intent, order, over, open, book, gates, phase, side, latched,
                      submitted, late, up>> /\ Buffer(win) /\ NextWindow /\ win \notin submitted
      BY <1>4 DEF EnterBuffer, Idle, durable, outside
    <2>2. st' \in [Windows -> States] /\ ref' \subseteq Windows
          /\ \A w \in Windows : w # win => st'[w] = st[w]
      BY <1>1, <2>1, Inside1, BufferMoves
    <2> QED BY <1>1, <2>1, <2>2, Inside1, NextWindowMoves, Moves
  <1>5. CASE ReadBook
    <2>1. UNCHANGED <<intent, order, over, open, book, gates, phase, side, latched, ref,
                      submitted, late, win, up>> /\ pc' = "readUp" /\ win \notin submitted
          /\ At(win, "READING_CLOB")
      BY <1>5 DEF ReadBook, Idle, durable, outside
    <2>2. st' \in [Windows -> States] /\ \A w \in Windows : st'[w] = "TRIGGERED" => st[w] = "TRIGGERED"
      BY <1>1, <2>1, Inside1, AtMoves, StatesNamed
    <2> QED BY <1>1, <2>1, <2>2, Inside1, Moves
  <1> QED BY <1>2, <1>3, <1>4, <1>5 DEF Visit

LEMMA TriggerStep == ASSUME WindowInv, TriggerUp \/ TriggerDown PROVE WindowInv'
  <1>1. pc \in {"trigUp", "trigDown"} /\ pc \in Inside /\ win \notin submitted
    BY DEF TriggerUp, TriggerDown, Inside, WindowInv, Stand
  <1>2. CASE TriggerUp
    <2>1. UNCHANGED <<intent, order, over, open, book, gates, phase, st, side, latched, ref,
                      submitted, late, win>> /\ up' = book["UP"] /\ pc' = "trigDown"
      BY <1>2 DEF TriggerUp, durable, outside, memory
    <2> QED BY <1>1, <2>1, Inside1, Moves
  <1>3. CASE TriggerDown
    <2>1. UNCHANGED <<intent, order, over, open, book, gates, phase, side, submitted, late>>
          /\ up' = 0 /\ NextWindow
      BY <1>3 DEF TriggerDown, durable, outside
    <2>2. CASE latched' = latched \union {win} /\ Buffer(win)
      <3>1. st' \in [Windows -> States] /\ ref' \subseteq Windows
            /\ \A w \in Windows : w # win => st'[w] = st[w]
        BY <1>1, <2>2, Inside1, BufferMoves
      <3> QED BY <1>1, <2>1, <2>2, <3>1, Inside1, NextWindowMoves, NoLevel, Moves
    <2>3. CASE Keeps(win) /\ UNCHANGED <<latched, ref>>
      <3>1. st' \in [Windows -> States]
            /\ \A w \in Windows : st'[w] = "TRIGGERED" => st[w] = "TRIGGERED"
        BY <1>1, <2>3, Inside1, AtMoves, StatesNamed DEF Keeps
      <3> QED BY <1>1, <2>1, <2>3, <3>1, Inside1, NextWindowMoves, NoLevel, Moves
    <2> QED BY <1>3, <2>2, <2>3 DEF TriggerDown
  <1> QED BY <1>2, <1>3

LEMMA FreshReadStep == ASSUME WindowInv, ReadUp \/ ReadDown PROVE WindowInv'
  <1>1. pc \in {"readUp", "readDown"} /\ pc \in Inside /\ win \notin submitted
    BY DEF ReadUp, ReadDown, Inside, WindowInv, Stand
  <1>2. CASE ReadUp
    <2>1. UNCHANGED <<intent, order, over, open, book, gates, phase, st, side, latched, ref,
                      submitted, late, win>> /\ up' = book["UP"] /\ pc' = "readDown"
      BY <1>2 DEF ReadUp, durable, outside, memory
    <2> QED BY <1>1, <2>1, Inside1, Moves
  <1>3. CASE ReadDown
    <2> DEFINE v == Verdict(win, up, book["DOWN"])
    <2>1. UNCHANGED <<intent, order, over, open, book, gates, phase, latched, ref,
                      submitted, late>> /\ up' = 0
      BY <1>3 DEF ReadDown, durable, outside
    <2>2. CASE ~ Lockable(win, v)
      <3>1. At(win, "NO_TRADE") /\ NextWindow /\ UNCHANGED side
        BY <1>3, <2>2 DEF ReadDown
      <3>2. st' \in [Windows -> States]
            /\ \A w \in Windows : st'[w] = "TRIGGERED" => st[w] = "TRIGGERED"
        BY <1>1, <3>1, Inside1, AtMoves, StatesNamed
      <3> QED BY <1>1, <2>1, <3>1, <3>2, Inside1, NextWindowMoves, NoLevel, Moves
    <2>3. CASE Lockable(win, v)
      <3>1. At(win, "SIDE_SELECTED") /\ side' = [side EXCEPT ![win] = v]
            /\ pc' = "submit" /\ win' = win
        BY <1>3, <2>3 DEF ReadDown, SelectSide
      <3>2. v \in Sides /\ win \notin late
        BY <2>3 DEF Lockable, Verdict, Majority, Sides
      <3>3. win \in Windows
        BY <1>1, Inside1
      <3>4. st' \in [Windows -> States]
            /\ \A w \in Windows : st'[w] = "TRIGGERED" => st[w] = "TRIGGERED"
        BY <1>1, <3>1, Inside1, AtMoves, StatesNamed
      <3>5. side' \in [Windows -> Sides \union {"none"}] /\ side'[win] = v
            /\ \A w \in Windows : w # win => side'[w] = side[w]
        BY <3>1, <3>2, <3>3 DEF WindowInv, TypeOK
      <3> HIDE DEF v
      <3>6. TypeOK'
        BY <2>1, <3>1, <3>4, <3>5, NoLevel DEF WindowInv, TypeOK
      <3>7. phase # "none"
        BY <1>1 DEF WindowInv, Stand
      <3>8. Stand'
        BY <1>1, <2>1, <3>1, <3>2, <3>3, <3>5, <3>7 DEF Stand, Inside
      <3>9. Decided'
        BY <1>1, <2>1, <3>4, <3>5, <3>7 DEF WindowInv, Decided
      <3> QED BY <3>6, <3>8, <3>9 DEF WindowInv
    <2> QED BY <2>2, <2>3
  <1> QED BY <1>2, <1>3
LEMMA TradeStep == ASSUME WindowInv, Trade PROVE WindowInv'
  <1>1. pc \in Inside
    BY DEF Trade, Refuse, Submit, SaveRow, Placed, Inside
  <1>2. win \in Windows /\ phase # "none"
    BY <1>1 DEF WindowInv, Stand, Inside
  <1>3. CASE Refuse
    <2>1. UNCHANGED <<intent, order, over, open, book, gates, phase, side, latched, ref,
                      submitted, late, up>> /\ At(win, "NO_TRADE") /\ NextWindow
      BY <1>3 DEF Refuse, durable, outside
    <2>2. st' \in [Windows -> States]
          /\ \A w \in Windows : st'[w] = "TRIGGERED" => st[w] = "TRIGGERED"
      BY <1>1, <2>1, Inside1, AtMoves, StatesNamed
    <2> QED BY <1>1, <2>1, <2>2, Inside1, NextWindowMoves, Moves
  <1>4. CASE Submit
    <2>1. UNCHANGED <<order, over, open, book, gates, phase, side, latched, ref, late, win, up>>
          /\ At(win, "INTENT_CREATED") /\ pc' = "row"
          /\ intent' = [intent EXCEPT ![win] = side[win]]
          /\ submitted' = submitted \union {win}
      BY <1>4 DEF Submit, SaveIntent, MayTrade, outside
    <2>2. phase = "ACTIVE" /\ intent[win] = "none" /\ side[win] \in Sides /\ win \notin late
      BY <1>4 DEF Submit, MayTrade, HasIntent, WindowInv, Stand
    <2>3. st' \in [Windows -> States]
          /\ \A w \in Windows : st'[w] = "TRIGGERED" => st[w] = "TRIGGERED" /\ w # win
      BY <1>1, <2>1, Inside1, AtMoves, StatesNamed
    <2>4. intent' \in [Windows -> Sides \union {"none"}] /\ intent'[win] = side[win]
          /\ \A w \in Windows : w # win => intent'[w] = intent[w]
      BY <1>2, <2>1, <2>2 DEF WindowInv, TypeOK
    <2>5. order[win] = "none" /\ side[win] # "none"
      BY <1>2, <2>2 DEF WindowInv, Decided, Sides
    <2>6. TypeOK'
      BY <1>2, <2>1, <2>3, <2>4 DEF WindowInv, TypeOK
    <2>7. Stand'
      BY <1>2, <2>1, <2>2, <2>5 DEF WindowInv, Stand, Inside
    <2>8. Decided'
      BY <1>2, <2>1, <2>2, <2>3, <2>4, <2>5 DEF WindowInv, Decided
    <2> QED BY <2>6, <2>7, <2>8 DEF WindowInv
  <1>5. CASE SaveRow
    <2>1. UNCHANGED <<intent, over, open, book, gates, phase, st, side, latched, ref,
                      submitted, late, win, up>>
          /\ pc = "row" /\ pc' = "placing" /\ order' = [order EXCEPT ![win] = side[win]]
      BY <1>5 DEF SaveRow, outside, memory
    <2>2. side[win] = intent[win]
      BY <1>2, <2>1 DEF WindowInv, Stand, Decided
    <2>3. order' \in [Windows -> Sides \union {"none"}] /\ order'[win] = intent[win]
          /\ \A w \in Windows : w # win => order'[w] = order[w]
      BY <1>2, <2>1, <2>2 DEF WindowInv, TypeOK
    <2>4. TypeOK'
      BY <2>1, <2>3 DEF WindowInv, TypeOK
    <2>5. Stand'
      BY <1>2, <2>1 DEF WindowInv, Stand, Inside
    <2>6. Decided'
      BY <1>2, <2>1, <2>3 DEF WindowInv, Decided
    <2> QED BY <2>4, <2>5, <2>6 DEF WindowInv
  <1>6. CASE Placed
    <2>1. UNCHANGED <<intent, order, over, open, book, gates, phase, side, latched, ref,
                      submitted, late, up>> /\ At(win, "SUBMITTED") /\ NextWindow
      BY <1>6 DEF Placed, durable, outside
    <2>2. st' \in [Windows -> States]
          /\ \A w \in Windows : st'[w] = "TRIGGERED" => st[w] = "TRIGGERED"
      BY <1>1, <2>1, Inside1, AtMoves, StatesNamed
    <2> QED BY <1>1, <2>1, <2>2, Inside1, NextWindowMoves, Moves
  <1> QED BY <1>3, <1>4, <1>5, <1>6 DEF Trade

LEMMA WindowStep == WindowInv /\ [Next]_vars => WindowInv'
  BY OutsideStep, StutterStep, MarketStep, CrashStep, BeginPassStep, VisitStep, TriggerStep,
     FreshReadStep, TradeStep DEF Next, Reading

THEOREM WindowSound == Spec => []WindowInv
  BY InitWindow, WindowStep, PTL DEF Spec

------------------------------------------------------------------------------
(* The theorems *)

\* The variables keep their types, the place of the pass included.
THEOREM WindowTypes == Spec => []TypeOK
  BY WindowSound, PTL DEF WindowInv

\* The lock in memory and the intent on disk are one decision, for any number of
\* windows and restarts (restore_from_intents).
THEOREM LockSurvives == Spec => []LockMatchesIntent
  <1>1. WindowInv => LockMatchesIntent
    BY DEF WindowInv, Decided, LockMatchesIntent
  <1> QED BY <1>1, WindowSound, PTL

\* A window whose fresh read came too late after its trigger has no intent
\* (_FRESH_MAX_AGE_SECONDS).
THEOREM StaleNotTraded == Spec => []NoStaleTrade
  <1>1. WindowInv => NoStaleTrade
    BY DEF WindowInv, TypeOK, Decided, NoStaleTrade
  <1> QED BY <1>1, WindowSound, PTL

\* The only writers of intents and order rows.
LEMMA OnlyTradesWrite ==
  ASSUME Next, durable' # durable
  PROVE  Submit \/ SaveRow
  BY DEF Next, Market, Open, Close, Drop, BeginPass, Visit, SkipWindow, ReadTrigger, EnterBuffer,
         ReadBook, Reading, TriggerUp, TriggerDown, ReadUp, ReadDown, Trade, Refuse, Placed,
         Outside, BookMoves, GatesMove, IntervalEnds, Crash, durable

\* Nothing is recorded or sent for a market that has closed in the engine's hands.
THEOREM ClosedNotTraded == Spec => TradesWhileActive
  <1>1. ASSUME WindowInv, Next, durable' # durable
        PROVE  phase = "ACTIVE"
    BY <1>1, OnlyTradesWrite DEF Submit, MayTrade, SaveRow, WindowInv, Stand
  <1>2. WindowInv /\ [Next]_vars => [durable' # durable => phase = "ACTIVE"]_vars
    BY <1>1
  <1> QED BY <1>2, WindowSound, PTL DEF Spec, TradesWhileActive

\* The engine implements OneShot: every window is decided at most once and traded
\* at most once, on the decided side, whatever dies in between.
THEOREM OneShotPerWindow == Spec => ImplementsOneShot
  <1>1. Init => Shot!Init
    BY DEF Init, Shot!Init, Shot!Undone, Undecided
  <1>2. ASSUME WindowInv, [Next]_vars
        PROVE  [Shot!Next]_(Shot!shots)
    <2>1. CASE durable' = durable
      BY <2>1 DEF Shot!shots, durable
    <2>2. CASE durable' # durable
      <3>1. Next
        BY <1>2, <2>2 DEF vars, durable
      <3>2. CASE Submit
        <4>1. win \in Windows /\ side[win] \in Sides
          BY <1>2, <3>2 DEF Submit, WindowInv, Stand, Inside
        <4>2. Shot!Decide(win, side[win])
          BY <3>2 DEF Submit, SaveIntent, HasIntent, MayTrade, Shot!Decide
        <4> QED BY <4>1, <4>2 DEF Shot!Next
      <3>3. CASE SaveRow
        <4>1. win \in Windows /\ win \in submitted /\ phase = "ACTIVE" /\ order[win] = "none"
          BY <1>2, <3>3 DEF SaveRow, WindowInv, Stand, Inside
        <4>2. intent[win] # "none" /\ side[win] = intent[win]
          BY <1>2, <4>1 DEF WindowInv, Decided
        <4>3. Shot!Trade(win)
          BY <3>3, <4>1, <4>2 DEF SaveRow, Shot!Trade
        <4> QED BY <4>1, <4>3 DEF Shot!Next
      <3> QED BY <2>2, <3>1, <3>2, <3>3, OnlyTradesWrite
    <2> QED BY <2>1, <2>2
  <1> QED BY <1>1, <1>2, WindowSound, PTL DEF Spec, ImplementsOneShot, Shot!Spec
==============================================================================
