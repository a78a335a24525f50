-------------------------- MODULE SupervisorProofs --------------------------
(***************************************************************************)
(* The control plane keeps its invariant for any number of handlers: who   *)
(* holds the lock decides which task may be there, and everything a        *)
(* handler relies on after an await follows from it.                       *)
(***************************************************************************)
EXTENDS Supervisor, TLAPS

LEMMA BuildBounds ==
  MaxBuild \in Nat /\ MaxBuild >= 3 /\ Builds = 1 .. MaxBuild /\ 1 \in Builds /\ 0 \notin Builds
  BY SupervisorAssumption DEF MaxBuild, Builds

\* The typing of the handlers' part of the state, apart from the rest.
HandlersOK ==
  /\ kind \in [Requests -> {"none", "start", "stop", "save", "trade"}]
  /\ pc \in [Requests -> Labels] /\ ref \in [Requests -> Builds \union {0}]
  /\ cfg \in [Requests -> Configs \union {0}] /\ want \in [Requests -> Modes]

LEMMA AnswerType == ASSUME HandlersOK, NEW r \in Requests, Answer(r) PROVE HandlersOK'
  BY DEF HandlersOK, Answer, At, Labels, Modes

LEMMA MovesType ==
  ASSUME HandlersOK, NEW r \in Requests, NEW l \in Labels, NEW g \in Builds \union {0}, Moves(r, l, g)
  PROVE  HandlersOK'
  BY DEF HandlersOK, Moves, At

\* A step of a runtime's task, which is not over, to any other point of its life.
LEMMA LivesKeep ==
  ASSUME IInv, NEW g \in Builds, life[g] \in Undone, NEW l \in Lives, Lives_to(g, l)
  PROVE  IInv'
<1>1. TypeOK'
  BY SupervisorAssumption, BuildBounds
  DEF IInv, TypeOK, Labels, Lives, Lives_to, Undone, vars, process, sup, runtimes, gates,
      handlers
<1>2. Guarded'
  BY SupervisorAssumption, BuildBounds
  DEF IInv, TypeOK, Guarded, Labels, Locked, Lives_to, Undone, vars, process, sup, runtimes,
      gates, handlers
<1>3. Holding'
  BY SupervisorAssumption, BuildBounds
  DEF IInv, TypeOK, Guarded, Holding, Owned, Numbered, NoLeak, Locked, Running, Lives_to,
      Undone, vars, process, sup, runtimes, gates, handlers
<1>4. Owned'
  BY SupervisorAssumption, BuildBounds
  DEF IInv, TypeOK, Guarded, Holding, Owned, Numbered, Locked, Running, Lives_to, Undone, vars,
      process, sup, runtimes, gates, handlers
<1>5. Numbered'
  BY SupervisorAssumption, BuildBounds
  DEF IInv, TypeOK, Guarded, Holding, Numbered, Locked, Lives_to, Undone, vars, process, sup,
      runtimes, gates, handlers
<1>6. NoLeak'
  BY SupervisorAssumption, BuildBounds
  DEF IInv, TypeOK, Guarded, Holding, NoLeak, Locked, Lives_to, Undone, vars, process, sup,
      runtimes, gates, handlers
<1> QED  BY <1>1, <1>2, <1>3, <1>4, <1>5, <1>6 DEF IInv

LEMMA TaskKeeps == ASSUME IInv, NEW g \in Builds, Task(g) PROVE IInv'
<1>1. CASE Recovered(g)     BY <1>1, LivesKeep DEF Recovered, Undone, Lives
<1>2. CASE RecoverFails(g)  BY <1>2, LivesKeep DEF RecoverFails, Undone, Over, Lives
<1>3. CASE LeavesLoop(g)
  <2>1. PICK l \in {"ending", "erring"} : Lives_to(g, l)  BY <1>3 DEF LeavesLoop
  <2> QED  BY <1>3, <2>1, LivesKeep DEF LeavesLoop, Undone, Lives
<1>4. CASE CancelLands(g)
  <2>1. CASE life[g] = "recover" /\ Lives_to(g, "gone")
    BY <2>1, LivesKeep DEF Undone, Over, Lives
  <2>2. CASE life[g] = "loop" /\ Lives_to(g, "ending")
    BY <2>2, LivesKeep DEF Undone, Lives
  <2> QED  BY <1>4, <2>1, <2>2 DEF CancelLands
<1>5. CASE Finish(g)
  <2>1. life[g] \in Undone /\ \E l \in Over : Lives_to(g, l)
    BY <1>5 DEF Finish, Undone, Over
  <2>2. PICK l \in Over : Lives_to(g, l)  BY <2>1
  <2> QED  BY <2>1, <2>2, LivesKeep DEF Lives
<1> QED  BY <1>1, <1>2, <1>3, <1>4, <1>5 DEF Task, Shuts

LEMMA BeginStartKeeps == ASSUME IInv, NEW r \in Requests, BeginStart(r) PROVE IInv'
<1>1. TypeOK'
  BY SupervisorAssumption, BuildBounds
  DEF IInv, TypeOK, Labels, Lives, BeginStart, Begins, At, Undone, Over, Modes, Configs, vars,
      process, sup, runtimes, gates, handlers
<1>2. Guarded'
  BY SupervisorAssumption, BuildBounds
  DEF IInv, TypeOK, Guarded, Labels, Locked, BeginStart, Begins, At, Undone, Over, Modes,
      Configs, vars, process, sup, runtimes, gates, handlers
<1>3. Holding'
  BY SupervisorAssumption, BuildBounds
  DEF IInv, TypeOK, Guarded, Holding, Owned, Numbered, NoLeak, Locked, Running, BeginStart,
      Begins, At, Undone, Over, Modes, Configs, vars, process, sup, runtimes, gates, handlers
<1>4. Owned'
  BY SupervisorAssumption, BuildBounds
  DEF IInv, TypeOK, Guarded, Holding, Owned, Numbered, Locked, Running, BeginStart, Begins, At,
      Undone, Over, Modes, Configs, vars, process, sup, runtimes, gates, handlers
<1>5. Numbered'
  BY SupervisorAssumption, BuildBounds
  DEF IInv, TypeOK, Guarded, Holding, Numbered, Locked, BeginStart, Begins, At, Undone, Over,
      Modes, Configs, vars, process, sup, runtimes, gates, handlers
<1>6. NoLeak'
  <2>1. pc[r] = "idle" /\ open' = open /\ held' = held /\ pc' = [pc EXCEPT ![r] = pc'[r]]
                      /\ ref' = [ref EXCEPT ![r] = ref'[r]]
    BY DEF BeginStart, Begins, At, sup, IInv, TypeOK
  <2> QED  BY <2>1 DEF IInv, NoLeak, TypeOK
<1> QED  BY <1>1, <1>2, <1>3, <1>4, <1>5, <1>6 DEF IInv

LEMMA BeginStopKeeps == ASSUME IInv, NEW r \in Requests, BeginStop(r) PROVE IInv'
<1>1. TypeOK'
  BY SupervisorAssumption, BuildBounds
  DEF IInv, TypeOK, Labels, Lives, BeginStop, Begins, At, Undone, Over, Modes, Configs, vars,
      process, sup, runtimes, gates, handlers
<1>2. Guarded'
  BY SupervisorAssumption, BuildBounds
  DEF IInv, TypeOK, Guarded, Labels, Locked, BeginStop, Begins, At, Undone, Over, Modes,
      Configs, vars, process, sup, runtimes, gates, handlers
<1>3. Holding'
  BY SupervisorAssumption, BuildBounds
  DEF IInv, TypeOK, Guarded, Holding, Owned, Numbered, NoLeak, Locked, Running, BeginStop,
      Begins, At, Undone, Over, Modes, Configs, vars, process, sup, runtimes, gates, handlers
<1>4. Owned'
  BY SupervisorAssumption, BuildBounds
  DEF IInv, TypeOK, Guarded, Holding, Owned, Numbered, Locked, Running, BeginStop, Begins, At,
      Undone, Over, Modes, Configs, vars, process, sup, runtimes, gates, handlers
<1>5. Numbered'
  BY SupervisorAssumption, BuildBounds
  DEF IInv, TypeOK, Guarded, Holding, Numbered, Locked, BeginStop, Begins, At, Undone, Over,
      Modes, Configs, vars, process, sup, runtimes, gates, handlers
<1>6. NoLeak'
  BY SupervisorAssumption, BuildBounds
  DEF IInv, TypeOK, Guarded, Holding, NoLeak, Locked, BeginStop, Begins, At, Undone, Over,
      Modes, Configs, vars, process, sup, runtimes, gates, handlers
<1> QED  BY <1>1, <1>2, <1>3, <1>4, <1>5, <1>6 DEF IInv

LEMMA BeginSaveKeeps == ASSUME IInv, NEW r \in Requests, BeginSave(r) PROVE IInv'
<1>1. TypeOK'
  BY SupervisorAssumption, BuildBounds
  DEF IInv, TypeOK, Labels, Lives, BeginSave, Begins, At, Undone, Over, Modes, Configs, vars,
      process, sup, runtimes, gates, handlers
<1>2. Guarded'
  BY SupervisorAssumption, BuildBounds
  DEF IInv, TypeOK, Guarded, Labels, Locked, BeginSave, Begins, At, Undone, Over, Modes,
      Configs, vars, process, sup, runtimes, gates, handlers
<1>3. Holding'
  BY SupervisorAssumption, BuildBounds
  DEF IInv, TypeOK, Guarded, Holding, Owned, Numbered, NoLeak, Locked, Running, BeginSave,
      Begins, At, Undone, Over, Modes, Configs, vars, process, sup, runtimes, gates, handlers
<1>4. Owned'
  BY SupervisorAssumption, BuildBounds
  DEF IInv, TypeOK, Guarded, Holding, Owned, Numbered, Locked, Running, BeginSave, Begins, At,
      Undone, Over, Modes, Configs, vars, process, sup, runtimes, gates, handlers
<1>5. Numbered'
  BY SupervisorAssumption, BuildBounds
  DEF IInv, TypeOK, Guarded, Holding, Numbered, Locked, BeginSave, Begins, At, Undone, Over,
      Modes, Configs, vars, process, sup, runtimes, gates, handlers
<1>6. NoLeak'
  BY SupervisorAssumption, BuildBounds
  DEF IInv, TypeOK, Guarded, Holding, NoLeak, Locked, BeginSave, Begins, At, Undone, Over,
      Modes, Configs, vars, process, sup, runtimes, gates, handlers
<1> QED  BY <1>1, <1>2, <1>3, <1>4, <1>5, <1>6 DEF IInv

LEMMA BeginTradeKeeps == ASSUME IInv, NEW r \in Requests, BeginTrade(r) PROVE IInv'
<1>1. TypeOK'
  BY SupervisorAssumption, BuildBounds
  DEF IInv, TypeOK, Labels, Lives, BeginTrade, Begins, At, Undone, Over, Modes, Configs, vars,
      process, sup, runtimes, gates, handlers
<1>2. Guarded'
  BY SupervisorAssumption, BuildBounds
  DEF IInv, TypeOK, Guarded, Labels, Locked, BeginTrade, Begins, At, Undone, Over, Modes,
      Configs, vars, process, sup, runtimes, gates, handlers
<1>3. Holding'
  BY SupervisorAssumption, BuildBounds
  DEF IInv, TypeOK, Guarded, Holding, Owned, Numbered, NoLeak, Locked, Running, BeginTrade,
      Begins, At, Undone, Over, Modes, Configs, vars, process, sup, runtimes, gates, handlers
<1>4. Owned'
  BY SupervisorAssumption, BuildBounds
  DEF IInv, TypeOK, Guarded, Holding, Owned, Numbered, Locked, Running, BeginTrade, Begins, At,
      Undone, Over, Modes, Configs, vars, process, sup, runtimes, gates, handlers
<1>5. Numbered'
  BY SupervisorAssumption, BuildBounds
  DEF IInv, TypeOK, Guarded, Holding, Numbered, Locked, BeginTrade, Begins, At, Undone, Over,
      Modes, Configs, vars, process, sup, runtimes, gates, handlers
<1>6. NoLeak'
  BY SupervisorAssumption, BuildBounds
  DEF IInv, TypeOK, Guarded, Holding, NoLeak, Locked, BeginTrade, Begins, At, Undone, Over,
      Modes, Configs, vars, process, sup, runtimes, gates, handlers
<1> QED  BY <1>1, <1>2, <1>3, <1>4, <1>5, <1>6 DEF IInv

LEMMA RejectedKeeps == ASSUME IInv, NEW r \in Requests, Rejected(r) PROVE IInv'
<1>1. TypeOK'
  BY SupervisorAssumption, BuildBounds
  DEF IInv, TypeOK, Labels, Lives, Rejected, Answer, At, Undone, Over, Modes, Configs, vars,
      process, sup, runtimes, gates, handlers
<1>2. Guarded'
  BY SupervisorAssumption, BuildBounds
  DEF IInv, TypeOK, Guarded, Labels, Locked, Rejected, Answer, At, Undone, Over, Modes, Configs,
      vars, process, sup, runtimes, gates, handlers
<1>3. Holding'
  BY SupervisorAssumption, BuildBounds
  DEF IInv, TypeOK, Guarded, Holding, Owned, Numbered, NoLeak, Locked, Running, Rejected,
      Answer, At, Undone, Over, Modes, Configs, vars, process, sup, runtimes, gates, handlers
<1>4. Owned'
  BY SupervisorAssumption, BuildBounds
  DEF IInv, TypeOK, Guarded, Holding, Owned, Numbered, Locked, Running, Rejected, Answer, At,
      Undone, Over, Modes, Configs, vars, process, sup, runtimes, gates, handlers
<1>5. Numbered'
  BY SupervisorAssumption, BuildBounds
  DEF IInv, TypeOK, Guarded, Holding, Numbered, Locked, Rejected, Answer, At, Undone, Over,
      Modes, Configs, vars, process, sup, runtimes, gates, handlers
<1>6. NoLeak'
  BY SupervisorAssumption, BuildBounds
  DEF IInv, TypeOK, Guarded, Holding, NoLeak, Locked, Rejected, Answer, At, Undone, Over, Modes,
      Configs, vars, process, sup, runtimes, gates, handlers
<1> QED  BY <1>1, <1>2, <1>3, <1>4, <1>5, <1>6 DEF IInv

LEMMA SaveKeeps == ASSUME IInv, NEW r \in Requests, Save(r) PROVE IInv'
<1>1. TypeOK'
  <2>1. HandlersOK'
    BY AnswerType DEF IInv, TypeOK, HandlersOK, Save
  <2> QED
    BY <2>1, SupervisorAssumption, BuildBounds
    DEF IInv, TypeOK, HandlersOK, Holding, Lives, Undone, Save, process, sup, runtimes, gates, handlers
<1>2. Guarded'
  BY SupervisorAssumption, BuildBounds
  DEF IInv, TypeOK, Guarded, Labels, Locked, Save, Answer, At, Undone, Over, Modes, Configs,
      vars, process, sup, runtimes, gates, handlers
<1>3. Holding'
  BY SupervisorAssumption, BuildBounds
  DEF IInv, TypeOK, Guarded, Holding, Owned, Numbered, NoLeak, Locked, Running, Save, Answer,
      At, Undone, Over, Modes, Configs, vars, process, sup, runtimes, gates, handlers
<1>4. Owned'
  BY SupervisorAssumption, BuildBounds
  DEF IInv, TypeOK, Guarded, Holding, Owned, Numbered, Locked, Running, Save, Answer, At,
      Undone, Over, Modes, Configs, vars, process, sup, runtimes, gates, handlers
<1>5. Numbered'
  BY SupervisorAssumption, BuildBounds
  DEF IInv, TypeOK, Guarded, Holding, Numbered, Locked, Save, Answer, At, Undone, Over, Modes,
      Configs, vars, process, sup, runtimes, gates, handlers
<1>6. NoLeak'
  BY SupervisorAssumption, BuildBounds
  DEF IInv, TypeOK, Guarded, Holding, NoLeak, Locked, Save, Answer, At, Undone, Over, Modes,
      Configs, vars, process, sup, runtimes, gates, handlers
<1> QED  BY <1>1, <1>2, <1>3, <1>4, <1>5, <1>6 DEF IInv

LEMMA TradeBodyKeeps == ASSUME IInv, NEW r \in Requests, TradeBody(r) PROVE IInv'
<1>1. TypeOK'
  <2>1. HandlersOK'
    <3>1. CASE At(r, "wantStart", 0) /\ want' = [want EXCEPT ![r] = mode] /\ UNCHANGED <<kind, cfg>>
      BY <3>1 DEF IInv, TypeOK, HandlersOK, At, Labels
    <3>2. CASE Moves(r, "wantStop", 0)
      BY <3>2, MovesType DEF IInv, TypeOK, HandlersOK, Labels
    <3>3. CASE Answer(r)  BY <3>3, AnswerType DEF IInv, TypeOK, HandlersOK
    <3> QED  BY <3>1, <3>2, <3>3 DEF TradeBody
  <2>2. armed' \subseteq Builds
    <3>1. ref[r] \in Builds  BY DEF IInv, Holding, TradeBody
    <3> QED  BY <3>1 DEF IInv, TypeOK, TradeBody, StoredBy
  <2>3. stored' \in Configs
    BY DEF IInv, TypeOK, TradeBody, StoredBy
  <2> QED
    BY <2>1, <2>2, <2>3 DEF IInv, TypeOK, HandlersOK, TradeBody, process, sup
<1>2. Guarded'
  BY SupervisorAssumption, BuildBounds
  DEF IInv, TypeOK, Guarded, Labels, Locked, TradeBody, StoredBy, Answer, Moves, At, Undone, Over, Modes,
      Configs, vars, process, sup, runtimes, gates, handlers
<1>3. Holding'
  BY SupervisorAssumption, BuildBounds
  DEF IInv, TypeOK, Guarded, Holding, Owned, Numbered, NoLeak, Locked, Running, TradeBody,
      Answer, Moves, At, Undone, Over, Modes, Configs, vars, process, sup, runtimes, gates, handlers
<1>4. Owned'
  BY SupervisorAssumption, BuildBounds
  DEF IInv, TypeOK, Guarded, Holding, Owned, Numbered, Locked, Running, TradeBody, StoredBy, Answer,
      Moves, At, Undone, Over, Modes, Configs, vars, process, sup, runtimes, gates, handlers
<1>5. Numbered'
  BY SupervisorAssumption, BuildBounds
  DEF IInv, TypeOK, Guarded, Holding, Numbered, Locked, TradeBody, StoredBy, Answer, Moves, At, Undone,
      Over, Modes, Configs, vars, process, sup, runtimes, gates, handlers
<1>6. NoLeak'
  BY SupervisorAssumption, BuildBounds
  DEF IInv, TypeOK, Guarded, Holding, NoLeak, Locked, TradeBody, StoredBy, Answer, Moves, At, Undone,
      Over, Modes, Configs, vars, process, sup, runtimes, gates, handlers
<1> QED  BY <1>1, <1>2, <1>3, <1>4, <1>5, <1>6 DEF IInv

LEMMA TakeStartKeeps == ASSUME IInv, NEW r \in Requests, TakeStart(r) PROVE IInv'
<1>1. TypeOK'
  <2>1. HandlersOK'
    <3>1. CASE Answer(r)  BY <3>1, AnswerType DEF IInv, TypeOK, HandlersOK
    <3>2. CASE Moves(r, "closing", held)
      BY <3>2, MovesType DEF IInv, TypeOK, HandlersOK, Labels
    <3> QED  BY <3>1, <3>2 DEF TakeStart
  <2> QED
    BY <2>1, SupervisorAssumption, BuildBounds
    DEF IInv, TypeOK, HandlersOK, Holding, Lives, Undone, TakeStart, process, sup, runtimes, gates, handlers
<1>2. Guarded'
  BY SupervisorAssumption, BuildBounds
  DEF IInv, TypeOK, Guarded, Labels, Locked, TakeStart, Answer, Moves, At, Undone, Over, Modes,
      Configs, vars, process, sup, runtimes, gates, handlers
<1>3. Holding'
  <2>1. \A q \in Requests \ {r} : /\ pc'[q] = pc[q] /\ ref'[q] = ref[q]
                                 /\ kind'[q] = kind[q] /\ cfg'[q] = cfg[q]
    BY DEF IInv, TypeOK, TakeStart, Answer, Moves, At
  <2>2. \A q \in Requests \ {r} : pc[q] \notin Locked
    BY SupervisorAssumption DEF IInv, Guarded, TakeStart
  <2>3. UNCHANGED <<task, life, built, cancelled>>
    BY DEF TakeStart, runtimes, gates
  <2>4. CASE Running
    <3>1. pc'[r] = "idle" /\ kind'[r] = "none"
      BY <2>4 DEF IInv, TypeOK, TakeStart, Answer, At
    <3> QED  BY <2>1, <2>2, <2>3, <3>1 DEF IInv, Holding, Locked
  <2>5. CASE ~ Running
    <3>1. pc'[r] = "closing" /\ held' = 0 /\ kind'[r] = kind[r] /\ cfg'[r] = cfg[r]
      BY <2>5 DEF IInv, TypeOK, TakeStart, Moves, At
    <3>2. ~ Running'
      BY <2>3, <2>5 DEF Running
    <3> QED  BY <2>1, <2>2, <2>3, <3>1, <3>2 DEF IInv, Holding, Locked
  <2> QED  BY <2>4, <2>5
<1>4. Owned'
  BY SupervisorAssumption, BuildBounds
  DEF IInv, TypeOK, Guarded, Holding, Owned, Numbered, Locked, Running, TakeStart, Answer,
      Moves, At, Undone, Over, Modes, Configs, vars, process, sup, runtimes, gates, handlers
<1>5. Numbered'
  BY SupervisorAssumption, BuildBounds
  DEF IInv, TypeOK, Guarded, Holding, Numbered, Locked, TakeStart, Answer, Moves, At, Undone,
      Over, Modes, Configs, vars, process, sup, runtimes, gates, handlers
<1>6. NoLeak'
  BY SupervisorAssumption, BuildBounds
  DEF IInv, TypeOK, Guarded, Holding, NoLeak, Locked, TakeStart, Answer, Moves, At, Undone,
      Over, Modes, Configs, vars, process, sup, runtimes, gates, handlers
<1> QED  BY <1>1, <1>2, <1>3, <1>4, <1>5, <1>6 DEF IInv

LEMMA ClosedKeeps == ASSUME IInv, NEW r \in Requests, Closed(r) PROVE IInv'
<1>1. TypeOK'
  <2>1. HandlersOK'
    <3>1. built' \in Builds
      <4>0. built \in 1 .. MaxBuild  BY BuildBounds DEF IInv, TypeOK
      <4>1. built < MaxBuild /\ built' = built + 1  BY DEF Closed
      <4> QED  BY <4>0, <4>1, BuildBounds
    <3> QED  BY <3>1, MovesType DEF IInv, TypeOK, HandlersOK, Labels, Closed
  <2>2. built' \in Builds
    <3>1. built \in 1 .. MaxBuild  BY BuildBounds DEF IInv, TypeOK
    <3>2. built < MaxBuild /\ built' = built + 1  BY DEF Closed
    <3> QED  BY <3>1, <3>2, BuildBounds
  <2>3. mode' \in Modes  BY DEF Closed, IInv, TypeOK
  <2>4. held' \in Builds \union {0} /\ open' \subseteq Builds
    BY <2>2 DEF Closed, IInv, TypeOK
  <2> QED
    BY <2>1, <2>2, <2>3, <2>4 DEF IInv, TypeOK, HandlersOK, Closed, process, runtimes, gates
<1>2. Guarded'
  BY SupervisorAssumption, BuildBounds
  DEF IInv, TypeOK, Guarded, Labels, Locked, Closed, Moves, At, Undone, Over, Modes, Configs,
      vars, process, sup, runtimes, gates, handlers
<1>3. Holding'
  BY SupervisorAssumption, BuildBounds
  DEF IInv, TypeOK, Guarded, Holding, Owned, Numbered, NoLeak, Locked, Running, Closed, Moves,
      At, Undone, Over, Modes, Configs, vars, process, sup, runtimes, gates, handlers
<1>4. Owned'
  BY SupervisorAssumption, BuildBounds
  DEF IInv, TypeOK, Guarded, Holding, Owned, Numbered, Locked, Running, Closed, Moves, At,
      Undone, Over, Modes, Configs, vars, process, sup, runtimes, gates, handlers
<1>5. Numbered'
  BY SupervisorAssumption, BuildBounds
  DEF IInv, TypeOK, Guarded, Holding, Numbered, Locked, Closed, Moves, At, Undone, Over, Modes,
      Configs, vars, process, sup, runtimes, gates, handlers
<1>6. NoLeak'
  BY SupervisorAssumption, BuildBounds
  DEF IInv, TypeOK, Guarded, Holding, NoLeak, Locked, Closed, Moves, At, Undone, Over, Modes,
      Configs, vars, process, sup, runtimes, gates, handlers
<1> QED  BY <1>1, <1>2, <1>3, <1>4, <1>5, <1>6 DEF IInv

LEMMA BuildFailsKeeps == ASSUME IInv, NEW r \in Requests, BuildFails(r) PROVE IInv'
<1>1. TypeOK'
  BY SupervisorAssumption, BuildBounds
  DEF IInv, TypeOK, Labels, Lives, BuildFails, Answer, At, Undone, Over, Modes, Configs, vars,
      process, sup, runtimes, gates, handlers
<1>2. Guarded'
  BY SupervisorAssumption, BuildBounds
  DEF IInv, TypeOK, Guarded, Labels, Locked, BuildFails, Answer, At, Undone, Over, Modes,
      Configs, vars, process, sup, runtimes, gates, handlers
<1>3. Holding'
  BY SupervisorAssumption, BuildBounds
  DEF IInv, TypeOK, Guarded, Holding, Owned, Numbered, NoLeak, Locked, Running, BuildFails,
      Answer, At, Undone, Over, Modes, Configs, vars, process, sup, runtimes, gates, handlers
<1>4. Owned'
  BY SupervisorAssumption, BuildBounds
  DEF IInv, TypeOK, Guarded, Holding, Owned, Numbered, Locked, Running, BuildFails, Answer, At,
      Undone, Over, Modes, Configs, vars, process, sup, runtimes, gates, handlers
<1>5. Numbered'
  BY SupervisorAssumption, BuildBounds
  DEF IInv, TypeOK, Guarded, Holding, Numbered, Locked, BuildFails, Answer, At, Undone, Over,
      Modes, Configs, vars, process, sup, runtimes, gates, handlers
<1>6. NoLeak'
  BY SupervisorAssumption, BuildBounds
  DEF IInv, TypeOK, Guarded, Holding, NoLeak, Locked, BuildFails, Answer, At, Undone, Over,
      Modes, Configs, vars, process, sup, runtimes, gates, handlers
<1> QED  BY <1>1, <1>2, <1>3, <1>4, <1>5, <1>6 DEF IInv

LEMMA BuiltKeeps == ASSUME IInv, NEW r \in Requests, Built(r) PROVE IInv'
<1>1. TypeOK'
  <2>1. HandlersOK'
    BY MovesType DEF IInv, TypeOK, HandlersOK, Labels, Built
  <2> QED
    BY <2>1, SupervisorAssumption, BuildBounds, ZenonT(60)
    DEF IInv, TypeOK, HandlersOK, Holding, Lives, Undone, Built, process, sup, runtimes, gates, handlers
<1>2. Guarded'
  BY SupervisorAssumption, BuildBounds
  DEF IInv, TypeOK, Guarded, Labels, Locked, Built, Moves, At, Undone, Over, Modes, Configs,
      vars, process, sup, runtimes, gates, handlers
<1>3. Holding'
  BY SupervisorAssumption, BuildBounds
  DEF IInv, TypeOK, Guarded, Holding, Owned, Numbered, NoLeak, Locked, Running, Built, Moves,
      At, Undone, Over, Modes, Configs, vars, process, sup, runtimes, gates, handlers
<1>4. Owned'
  BY SupervisorAssumption, BuildBounds
  DEF IInv, TypeOK, Guarded, Holding, Owned, Numbered, Locked, Running, Built, Moves, At,
      Undone, Over, Modes, Configs, vars, process, sup, runtimes, gates, handlers
<1>5. Numbered'
  BY SupervisorAssumption, BuildBounds
  DEF IInv, TypeOK, Guarded, Holding, Numbered, Locked, Built, Moves, At, Undone, Over, Modes,
      Configs, vars, process, sup, runtimes, gates, handlers
<1>6. NoLeak'
  BY SupervisorAssumption, BuildBounds
  DEF IInv, TypeOK, Guarded, Holding, NoLeak, Locked, Built, Moves, At, Undone, Over, Modes,
      Configs, vars, process, sup, runtimes, gates, handlers
<1> QED  BY <1>1, <1>2, <1>3, <1>4, <1>5, <1>6 DEF IInv

LEMMA StartedKeeps == ASSUME IInv, NEW r \in Requests, Started(r) PROVE IInv'
<1>1. TypeOK'
  <2>1. HandlersOK'
    BY AnswerType DEF IInv, TypeOK, HandlersOK, Started
  <2> QED
    BY <2>1, SupervisorAssumption, BuildBounds
    DEF IInv, TypeOK, HandlersOK, Holding, Lives, Undone, Started, process, sup, runtimes, gates, handlers
<1>2. Guarded'
  BY SupervisorAssumption, BuildBounds
  DEF IInv, TypeOK, Guarded, Labels, Locked, Started, Answer, At, Undone, Over, Modes, Configs,
      vars, process, sup, runtimes, gates, handlers
<1>3. Holding'
  BY SupervisorAssumption, BuildBounds
  DEF IInv, TypeOK, Guarded, Holding, Owned, Numbered, NoLeak, Locked, Running, Started, Answer,
      At, Undone, Over, Modes, Configs, vars, process, sup, runtimes, gates, handlers
<1>4. Owned'
  BY SupervisorAssumption, BuildBounds
  DEF IInv, TypeOK, Guarded, Holding, Owned, Numbered, Locked, Running, Started, Answer, At,
      Undone, Over, Modes, Configs, vars, process, sup, runtimes, gates, handlers
<1>5. Numbered'
  BY SupervisorAssumption, BuildBounds
  DEF IInv, TypeOK, Guarded, Holding, Numbered, Locked, Started, Answer, At, Undone, Over,
      Modes, Configs, vars, process, sup, runtimes, gates, handlers
<1>6. NoLeak'
  BY SupervisorAssumption, BuildBounds
  DEF IInv, TypeOK, Guarded, Holding, NoLeak, Locked, Started, Answer, At, Undone, Over, Modes,
      Configs, vars, process, sup, runtimes, gates, handlers
<1> QED  BY <1>1, <1>2, <1>3, <1>4, <1>5, <1>6 DEF IInv

LEMMA TakeStopKeeps == ASSUME IInv, NEW r \in Requests, TakeStop(r) PROVE IInv'
<1>1. TypeOK'
  <2>1. HandlersOK'
    <3>1. HandlersOK /\ task \in Builds \union {0} /\ held \in Builds \union {0}
      BY DEF IInv, TypeOK, HandlersOK
    <3>2. {"joining", "tearing"} \subseteq Labels  BY DEF Labels
    <3>3. Moves(r, "joining", task) \/ Moves(r, "tearing", held)  BY DEF TakeStop
    <3> QED  BY <3>1, <3>2, <3>3, MovesType
  <2>2. lock' \in Requests \union {Nobody} /\ task' \in Builds \union {0}
    BY DEF TakeStop
  <2>3. held' \in Builds \union {0}  BY DEF TakeStop, IInv, TypeOK
  <2>4. armed' \subseteq Builds /\ ready' \subseteq Builds /\ cancelled' \subseteq Builds
    <3>1. CASE Running
      <4>1. task \in Builds  BY <3>1 DEF Running, IInv, TypeOK
      <4> QED  BY <3>1, <4>1 DEF TakeStop, IInv, TypeOK
    <3>2. CASE ~ Running  BY <3>2 DEF TakeStop, IInv, TypeOK, gates
    <3> QED  BY <3>1, <3>2
  <2> QED
    BY <2>1, <2>2, <2>3, <2>4 DEF IInv, TypeOK, HandlersOK, TakeStop, process
<1>2. Guarded'
  BY SupervisorAssumption, BuildBounds
  DEF IInv, TypeOK, Guarded, Labels, Locked, TakeStop, Moves, At, Undone, Over, Modes, Configs,
      vars, process, sup, runtimes, gates, handlers
<1>3. Holding'
  <2> SUFFICES ASSUME NEW q \in Requests
               PROVE  /\ pc'[q] \in {"closing", "building"} => ~ Running'
                      /\ pc'[q] \in {"joining", "tearing"} => task' = 0
                      /\ pc'[q] \in {"closing", "tearing"} => held' = 0
                      /\ pc'[q] = "building" => ref'[q] = built' /\ built' \notin cancelled'
                      /\ pc'[q] \in {"body", "yield"} => ref'[q] \in Builds
                      /\ kind'[q] = "save" => cfg'[q] \in Configs
                      /\ pc'[q] = "tearing" => \A g \in Builds : life'[g] \notin Undone
    BY DEF Holding
  <2>1. CASE q = r
    <3>1. pc[r] = "wantStop" /\ task' = 0 /\ life' = life /\ kind' = kind /\ cfg' = cfg
      BY DEF TakeStop, Moves
    <3>2. pc'[r] = "joining" \/ (pc'[r] = "tearing" /\ held' = 0 /\ ~ Running)
      BY DEF TakeStop, Moves, At, IInv, TypeOK
    <3>3. \A p \in Requests : pc[p] # "joining"
      BY SupervisorAssumption DEF TakeStop, IInv, Guarded, Locked
    <3>4. ~ Running => \A g \in Builds : life[g] \notin Undone
      BY <3>3, BuildBounds DEF IInv, Owned, Running
    <3> QED  BY <2>1, <3>1, <3>2, <3>4 DEF IInv, Holding
  <2>2. CASE q # r
    <3>1. pc'[q] = pc[q] /\ ref'[q] = ref[q] /\ kind' = kind /\ cfg' = cfg
      BY <2>2 DEF TakeStop, Moves, At, IInv, TypeOK
    <3>2. pc[q] \notin Locked
      BY SupervisorAssumption DEF TakeStop, IInv, Guarded
    <3> QED  BY <3>1, <3>2 DEF IInv, Holding, Locked
  <2> QED  BY <2>1, <2>2
<1>4. Owned'
  BY SupervisorAssumption, BuildBounds
  DEF IInv, TypeOK, Guarded, Holding, Owned, Numbered, Locked, Running, TakeStop, Moves, At,
      Undone, Over, Modes, Configs, vars, process, sup, runtimes, gates, handlers
<1>5. Numbered'
  <2>1. task' = 0 /\ built' = built /\ cancelled' \subseteq cancelled \union {task}
    BY DEF TakeStop, gates
  <2>2. built \in Nat  BY BuildBounds DEF IInv, TypeOK
  <2> QED  BY <2>1, <2>2 DEF IInv, Numbered
<1>6. NoLeak'
  BY SupervisorAssumption, BuildBounds
  DEF IInv, TypeOK, Guarded, Holding, NoLeak, Locked, TakeStop, Moves, At, Undone, Over, Modes,
      Configs, vars, process, sup, runtimes, gates, handlers
<1> QED  BY <1>1, <1>2, <1>3, <1>4, <1>5, <1>6 DEF IInv

LEMMA JoinedKeeps == ASSUME IInv, NEW r \in Requests, Joined(r) PROVE IInv'
<1>1. TypeOK'
  BY SupervisorAssumption, BuildBounds
  DEF IInv, TypeOK, Labels, Lives, Joined, Moves, At, Undone, Over, Modes, Configs, vars,
      process, sup, runtimes, gates, handlers
<1>2. Guarded'
  BY SupervisorAssumption, BuildBounds
  DEF IInv, TypeOK, Guarded, Labels, Locked, Joined, Moves, At, Undone, Over, Modes, Configs,
      vars, process, sup, runtimes, gates, handlers
<1>3. Holding'
  BY SupervisorAssumption, BuildBounds
  DEF IInv, TypeOK, Guarded, Holding, Owned, Numbered, NoLeak, Locked, Running, Joined, Moves,
      At, Undone, Over, Modes, Configs, vars, process, sup, runtimes, gates, handlers
<1>4. Owned'
  BY SupervisorAssumption, BuildBounds
  DEF IInv, TypeOK, Guarded, Holding, Owned, Numbered, Locked, Running, Joined, Moves, At,
      Undone, Over, Modes, Configs, vars, process, sup, runtimes, gates, handlers
<1>5. Numbered'
  BY SupervisorAssumption, BuildBounds
  DEF IInv, TypeOK, Guarded, Holding, Numbered, Locked, Joined, Moves, At, Undone, Over, Modes,
      Configs, vars, process, sup, runtimes, gates, handlers
<1>6. NoLeak'
  BY SupervisorAssumption, BuildBounds
  DEF IInv, TypeOK, Guarded, Holding, NoLeak, Locked, Joined, Moves, At, Undone, Over, Modes,
      Configs, vars, process, sup, runtimes, gates, handlers
<1> QED  BY <1>1, <1>2, <1>3, <1>4, <1>5, <1>6 DEF IInv

LEMMA JoinRaisesKeeps == ASSUME IInv, NEW r \in Requests, JoinRaises(r) PROVE IInv'
<1>1. TypeOK'
  BY SupervisorAssumption, BuildBounds
  DEF IInv, TypeOK, Labels, Lives, JoinRaises, Answer, At, Undone, Over, Modes, Configs, vars,
      process, sup, runtimes, gates, handlers
<1>2. Guarded'
  BY SupervisorAssumption, BuildBounds
  DEF IInv, TypeOK, Guarded, Labels, Locked, JoinRaises, Answer, At, Undone, Over, Modes,
      Configs, vars, process, sup, runtimes, gates, handlers
<1>3. Holding'
  BY SupervisorAssumption, BuildBounds
  DEF IInv, TypeOK, Guarded, Holding, Owned, Numbered, NoLeak, Locked, Running, JoinRaises,
      Answer, At, Undone, Over, Modes, Configs, vars, process, sup, runtimes, gates, handlers
<1>4. Owned'
  BY SupervisorAssumption, BuildBounds
  DEF IInv, TypeOK, Guarded, Holding, Owned, Numbered, Locked, Running, JoinRaises, Answer, At,
      Undone, Over, Modes, Configs, vars, process, sup, runtimes, gates, handlers
<1>5. Numbered'
  BY SupervisorAssumption, BuildBounds
  DEF IInv, TypeOK, Guarded, Holding, Numbered, Locked, JoinRaises, Answer, At, Undone, Over,
      Modes, Configs, vars, process, sup, runtimes, gates, handlers
<1>6. NoLeak'
  BY SupervisorAssumption, BuildBounds
  DEF IInv, TypeOK, Guarded, Holding, NoLeak, Locked, JoinRaises, Answer, At, Undone, Over,
      Modes, Configs, vars, process, sup, runtimes, gates, handlers
<1> QED  BY <1>1, <1>2, <1>3, <1>4, <1>5, <1>6 DEF IInv

LEMMA TornDownKeeps == ASSUME IInv, NEW r \in Requests, TornDown(r) PROVE IInv'
<1>1. TypeOK'
  <2>1. HandlersOK'
    <3>1. CASE At(r, "wantStart", 0) /\ want' = [want EXCEPT ![r] = mode] /\ UNCHANGED <<kind, cfg>>
      BY <3>1 DEF IInv, TypeOK, HandlersOK, At, Labels
    <3>2. CASE Answer(r)
      <4>1. HandlersOK  BY DEF IInv, TypeOK, HandlersOK
      <4> QED  BY <3>2, <4>1, AnswerType
    <3> QED  BY <3>1, <3>2 DEF TornDown
  <2>2. built' \in Builds
    <3>1. built \in 1 .. MaxBuild  BY BuildBounds DEF IInv, TypeOK
    <3>2. built < MaxBuild /\ built' = built + 1  BY DEF TornDown
    <3> QED  BY <3>1, <3>2, BuildBounds
  <2>3. held' \in Builds \union {0} /\ cur' \in Builds /\ open' \subseteq Builds
    BY <2>2 DEF TornDown, IInv, TypeOK
  <2>4. life' \in [Builds -> Lives] /\ rmode' \in [Builds -> Modes] /\ rcfg' \in [Builds -> Configs]
    BY DEF TornDown, IInv, TypeOK, Lives
  <2> QED
    BY <2>1, <2>2, <2>3, <2>4 DEF IInv, TypeOK, HandlersOK, TornDown, process, gates
<1>2. Guarded'
  BY SupervisorAssumption, BuildBounds
  DEF IInv, TypeOK, Guarded, Labels, Locked, TornDown, Answer, At, Undone, Over, Modes, Configs,
      vars, process, sup, runtimes, gates, handlers
<1>3. Holding'
  <2>1. \A q \in Requests : q # r => pc[q] \notin Locked /\ pc'[q] = pc[q] /\ ref'[q] = ref[q]
                                   /\ kind'[q] = kind[q] /\ cfg'[q] = cfg[q]
    BY DEF TornDown, Answer, At, IInv, TypeOK, Guarded, Locked
  <2>2. pc'[r] \in {"wantStart", "idle"} /\ kind'[r] \in {"trade", "none"}
    BY DEF TornDown, Answer, At, IInv, TypeOK
  <2> QED  BY <2>1, <2>2 DEF IInv, Holding, Locked
<1>4. Owned'
  BY SupervisorAssumption, BuildBounds
  DEF IInv, TypeOK, Guarded, Holding, Owned, Numbered, Locked, Running, TornDown, Answer, At,
      Undone, Over, Modes, Configs, vars, process, sup, runtimes, gates, handlers
<1>5. Numbered'
  BY SupervisorAssumption, BuildBounds
  DEF IInv, TypeOK, Guarded, Holding, Numbered, Locked, TornDown, Answer, At, Undone, Over,
      Modes, Configs, vars, process, sup, runtimes, gates, handlers
<1>6. NoLeak'
  BY SupervisorAssumption, BuildBounds
  DEF IInv, TypeOK, Guarded, Holding, NoLeak, Locked, TornDown, Answer, At, Undone, Over, Modes,
      Configs, vars, process, sup, runtimes, gates, handlers
<1> QED  BY <1>1, <1>2, <1>3, <1>4, <1>5, <1>6 DEF IInv

LEMMA ArmKeeps == ASSUME IInv, Arm PROVE IInv'
<1>1. TypeOK'
  BY SupervisorAssumption, BuildBounds
  DEF IInv, TypeOK, Labels, Lives, Arm, Undone, Over, Modes, Configs, vars, process, sup,
      runtimes, gates, handlers
<1>2. Guarded'
  BY SupervisorAssumption, BuildBounds
  DEF IInv, TypeOK, Guarded, Labels, Locked, Arm, Undone, Over, Modes, Configs, vars, process,
      sup, runtimes, gates, handlers
<1>3. Holding'
  BY SupervisorAssumption, BuildBounds
  DEF IInv, TypeOK, Guarded, Holding, Owned, Numbered, NoLeak, Locked, Running, Arm, Undone,
      Over, Modes, Configs, vars, process, sup, runtimes, gates, handlers
<1>4. Owned'
  BY SupervisorAssumption, BuildBounds
  DEF IInv, TypeOK, Guarded, Holding, Owned, Numbered, Locked, Running, Arm, Undone, Over,
      Modes, Configs, vars, process, sup, runtimes, gates, handlers
<1>5. Numbered'
  BY SupervisorAssumption, BuildBounds
  DEF IInv, TypeOK, Guarded, Holding, Numbered, Locked, Arm, Undone, Over, Modes, Configs, vars,
      process, sup, runtimes, gates, handlers
<1>6. NoLeak'
  BY SupervisorAssumption, BuildBounds
  DEF IInv, TypeOK, Guarded, Holding, NoLeak, Locked, Arm, Undone, Over, Modes, Configs, vars,
      process, sup, runtimes, gates, handlers
<1> QED  BY <1>1, <1>2, <1>3, <1>4, <1>5, <1>6 DEF IInv

LEMMA DisarmKeeps == ASSUME IInv, Disarm PROVE IInv'
<1>1. TypeOK'
  BY SupervisorAssumption, BuildBounds
  DEF IInv, TypeOK, Labels, Lives, Disarm, Undone, Over, Modes, Configs, vars, process, sup,
      runtimes, gates, handlers
<1>2. Guarded'
  BY SupervisorAssumption, BuildBounds
  DEF IInv, TypeOK, Guarded, Labels, Locked, Disarm, Undone, Over, Modes, Configs, vars,
      process, sup, runtimes, gates, handlers
<1>3. Holding'
  BY SupervisorAssumption, BuildBounds
  DEF IInv, TypeOK, Guarded, Holding, Owned, Numbered, NoLeak, Locked, Running, Disarm, Undone,
      Over, Modes, Configs, vars, process, sup, runtimes, gates, handlers
<1>4. Owned'
  BY SupervisorAssumption, BuildBounds
  DEF IInv, TypeOK, Guarded, Holding, Owned, Numbered, Locked, Running, Disarm, Undone, Over,
      Modes, Configs, vars, process, sup, runtimes, gates, handlers
<1>5. Numbered'
  BY SupervisorAssumption, BuildBounds
  DEF IInv, TypeOK, Guarded, Holding, Numbered, Locked, Disarm, Undone, Over, Modes, Configs,
      vars, process, sup, runtimes, gates, handlers
<1>6. NoLeak'
  BY SupervisorAssumption, BuildBounds
  DEF IInv, TypeOK, Guarded, Holding, NoLeak, Locked, Disarm, Undone, Over, Modes, Configs,
      vars, process, sup, runtimes, gates, handlers
<1> QED  BY <1>1, <1>2, <1>3, <1>4, <1>5, <1>6 DEF IInv

LEMMA RebootKeeps == ASSUME IInv, Reboot PROVE IInv'
<1>1. TypeOK'
  BY SupervisorAssumption, BuildBounds
  DEF IInv, TypeOK, Labels, Lives, Reboot, Starting, Once, Undone, Over, Modes, Configs, vars,
      process, sup, runtimes, gates, handlers
<1>2. Guarded'
  BY SupervisorAssumption, BuildBounds
  DEF IInv, TypeOK, Guarded, Labels, Locked, Reboot, Starting, Once, Undone, Over, Modes,
      Configs, vars, process, sup, runtimes, gates, handlers
<1>3. Holding'
  BY SupervisorAssumption, BuildBounds
  DEF IInv, TypeOK, Guarded, Holding, Owned, Numbered, NoLeak, Locked, Running, Reboot,
      Starting, Once, Undone, Over, Modes, Configs, vars, process, sup, runtimes, gates, handlers
<1>4. Owned'
  BY SupervisorAssumption, BuildBounds
  DEF IInv, TypeOK, Guarded, Holding, Owned, Numbered, Locked, Running, Reboot, Starting, Once,
      Undone, Over, Modes, Configs, vars, process, sup, runtimes, gates, handlers
<1>5. Numbered'
  BY SupervisorAssumption, BuildBounds
  DEF IInv, TypeOK, Guarded, Holding, Numbered, Locked, Reboot, Starting, Once, Undone, Over,
      Modes, Configs, vars, process, sup, runtimes, gates, handlers
<1>6. NoLeak'
  BY SupervisorAssumption, BuildBounds
  DEF IInv, TypeOK, Guarded, Holding, NoLeak, Locked, Reboot, Starting, Once, Undone, Over,
      Modes, Configs, vars, process, sup, runtimes, gates, handlers
<1> QED  BY <1>1, <1>2, <1>3, <1>4, <1>5, <1>6 DEF IInv

THEOREM SupervisorInv == Spec => []IInv
<1>1. Init => IInv
  <2> SUFFICES ASSUME Init PROVE IInv  OBVIOUS
  <2>1. TypeOK
    BY SupervisorAssumption, BuildBounds
    DEF Init, TypeOK, Starting, Once, Labels, Lives, Modes, Configs
  <2>2. Guarded /\ Holding /\ Owned /\ Numbered /\ NoLeak
    BY <2>1, SupervisorAssumption, BuildBounds
    DEF Init, Guarded, Holding, Owned, Numbered, NoLeak, Starting, Once, Locked, Running, Undone
  <2> QED  BY <2>1, <2>2 DEF IInv
<1>2. IInv /\ [Next]_vars => IInv'
  <2> SUFFICES ASSUME IInv, [Next]_vars PROVE IInv'  OBVIOUS
  <2>1. ASSUME NEW r \in Requests, Begin(r) PROVE IInv'
    BY <2>1, BeginStartKeeps, BeginStopKeeps, BeginSaveKeeps, BeginTradeKeeps DEF Begin
  <2>2. ASSUME NEW r \in Requests, Start(r) PROVE IInv'
    BY <2>2, TakeStartKeeps, ClosedKeeps, BuildFailsKeeps, BuiltKeeps, StartedKeeps DEF Start
  <2>3. ASSUME NEW r \in Requests, Stop(r) PROVE IInv'
    BY <2>3, TakeStopKeeps, JoinedKeeps, JoinRaisesKeeps, TornDownKeeps DEF Stop
  <2>4. ASSUME NEW r \in Requests, Handler(r) PROVE IInv'
    BY <2>2, <2>3, <2>4, RejectedKeeps, SaveKeeps, TradeBodyKeeps DEF Handler
  <2>5. CASE UNCHANGED vars
    BY <2>5 DEF IInv, TypeOK, Guarded, Holding, Owned, Numbered, NoLeak, Running, vars, process,
                sup, runtimes, gates, handlers
  <2> QED
    BY <2>1, <2>4, <2>5, TaskKeeps, ArmKeeps, DisarmKeeps, RebootKeeps DEF Next
<1> QED  BY <1>1, <1>2, PTL DEF Spec

\* Never two runtimes at once, whatever the operators press and in whatever order.
THEOREM OneRuntime == Spec => []OnlyCurrentRuns
<1>1. IInv => OnlyCurrentRuns  BY DEF IInv, Owned, OnlyCurrentRuns
<1> QED  BY <1>1, SupervisorInv, PTL

\* A runtime that is being stopped does not trade, armed again or not.
THEOREM StopHolds == Spec => []StoppingNeverTrades
<1>1. IInv => StoppingNeverTrades
  BY DEF IInv, Owned, StoppingNeverTrades, MayTrade
<1> QED  BY <1>1, SupervisorInv, PTL

\* No connection is left behind by a stop, a start or a start that failed.
THEOREM ConnectionsHeld == Spec => []NoLeak
<1>1. IInv => NoLeak  BY DEF IInv
<1> QED  BY <1>1, SupervisorInv, PTL

\* The state stays well-formed.
THEOREM SupervisorTypes == Spec => []TypeOK
<1>1. IInv => TypeOK  BY DEF IInv
<1> QED  BY <1>1, SupervisorInv, PTL
=============================================================================
