----------------------------- MODULE Supervisor -----------------------------
(***************************************************************************)
(* The control plane: RuntimeSupervisor, the HTTP handlers that drive it,  *)
(* the task of the runtime it owns, and the process around them.           *)
(*                                                                         *)
(* Runtimes are numbered in the order they are constructed; number 0 is    *)
(* None.  A handler runs until it awaits: the body of its request, the     *)
(* supervisor's lock, a connection being closed or opened, the task it     *)
(* cancelled.  Everything else may happen there.  A configuration is a     *)
(* number: which one the process was booted with, which one is stored,     *)
(* which one a runtime was constructed with.                               *)
(***************************************************************************)
EXTENDS Naturals

CONSTANTS
  Requests,      \* handlers that may be under way at the same time
  Nobody,        \* the lock is free
  BootMode,      \* the --mode of the command line, the same at every start
  MaxRequests,   \* bound on the requests and process starts of a behaviour
  MaxCfg         \* bound on the configurations an operator writes

ASSUME SupervisorAssumption ==
  /\ Requests # {} /\ Nobody \notin Requests
  /\ BootMode \in {"V1", "V2"}
  /\ MaxRequests \in Nat \ {0} /\ MaxCfg \in Nat \ {0}

Modes   == {"V1", "V2"}
Configs == 1 .. MaxCfg
\* Bound on the runtimes a process constructs: an inert one, and a request at most
\* two more, so that no request is ever without a number.
MaxBuild == 2 * MaxRequests + 1
Builds   == 1 .. MaxBuild

\* A runtime's task: recovering, in its main loop, in run()'s finally block (after
\* an exception or not).  Over: with its session row (done, crashed) or without
\* (failed: an exception left run() past it; gone: cancelled before the loop).
Undone == {"recover", "loop", "ending", "erring"}
Over   == {"done", "crashed", "failed", "gone"}
Lives  == {"none", "inert"} \union Undone \union Over

VARIABLES
  \* the process
  boot,        \* RuntimeSupervisor._settings
  stored,      \* table settings
  begun,       \* requests begun, to bound a behaviour
  \* RuntimeSupervisor
  mode, cur, task, lock,
  held,        \* the runtime whose connections _client, _book_client, _discovery hold
  built,
  \* the runtimes
  life, rmode, rcfg, armed, ready, cancelled,
  open,        \* runtimes with a connection open
  \* the handlers
  kind, pc, ref, cfg, want

sup      == <<mode, cur, task, lock, held, built>>
gates    == <<armed, ready, cancelled>>
runtimes == <<life, rmode, rcfg, gates>>
handlers == <<kind, pc, ref, cfg, want>>
process  == <<boot, stored, begun>>
vars     == <<process, sup, runtimes, open, handlers>>

Running == task # 0 /\ life[task] \in Undone

\* Handler r goes on at label l with a reference to runtime g.
At(r, l, g) ==
  /\ pc'  = [pc EXCEPT ![r] = l]
  /\ ref' = [ref EXCEPT ![r] = g]

\* Handler r answers.
Answer(r) ==
  /\ At(r, "idle", 0)
  /\ kind' = [kind EXCEPT ![r] = "none"]
  /\ cfg'  = [cfg EXCEPT ![r] = 0]
  /\ want' = [want EXCEPT ![r] = "V1"]

Moves(r, l, g) == At(r, l, g) /\ UNCHANGED <<kind, cfg, want>>

\* A process that was just started: one inert runtime, and `arc run`, which has the
\* lock before the dashboard serves anybody, starting the mode it was given.
Starting(r, x, y) == [q \in Requests |-> IF q = r THEN x ELSE y]
Once(x, y) == [g \in Builds |-> IF g = 1 THEN x ELSE y]

Init ==
  /\ boot = 1 /\ stored = 1 /\ begun = 1
  /\ mode = BootMode /\ cur = 1 /\ task = 0 /\ held = 0 /\ built = 1
  /\ life = Once("inert", "none") /\ rmode = Once(BootMode, "V1") /\ rcfg = Once(1, 1)
  /\ armed = {} /\ ready = {} /\ cancelled = {} /\ open = {1}
  /\ \E r \in Requests :
       /\ lock = r
       /\ kind = Starting(r, "start", "none") /\ pc = Starting(r, "closing", "idle")
       /\ ref = Starting(r, 1, 0) /\ cfg = Starting(r, 0, 0) /\ want = Starting(r, BootMode, "V1")

------------------------------------------------------------------------------
(* Handlers without an await *)

\* arm(): the operator gate of the current runtime, whatever state it is in.
Arm ==
  /\ cur \notin armed
  /\ armed' = armed \union {cur}
  /\ UNCHANGED <<process, sup, life, rmode, rcfg, ready, cancelled, open, handlers>>

Disarm ==
  /\ cur \in armed
  /\ armed' = armed \ {cur}
  /\ UNCHANGED <<process, sup, life, rmode, rcfg, ready, cancelled, open, handlers>>

------------------------------------------------------------------------------
(* Handlers that await *)

Begins(r, k, l, g, c, m) ==
  /\ pc[r] = "idle"
  /\ begun < MaxRequests
  /\ begun' = begun + 1
  /\ At(r, l, g)
  /\ kind' = [kind EXCEPT ![r] = k]
  /\ cfg'  = [cfg EXCEPT ![r] = c]
  /\ want' = [want EXCEPT ![r] = m]
  /\ UNCHANGED <<boot, stored, sup, runtimes, open>>

\* POST /start: refused while a runtime runs (and by a failed preflight of V2).
BeginStart(r) == \E m \in Modes : ~ Running /\ Begins(r, "start", "wantStart", 0, 0, m)

BeginStop(r) == Begins(r, "stop", "wantStop", 0, 0, "V1")

\* POST /settings: the armed check, then the body is awaited.
BeginSave(r) == \E c \in Configs : cur \notin armed /\ Begins(r, "save", "body", cur, c, "V1")

\* START TRADING, with a configuration or without (0): the runtime is looked up first.
BeginTrade(r) == \E c \in Configs \union {0} : Begins(r, "trade", "body", cur, c, "V1")

\* The body does not validate: 400.
Rejected(r) ==
  /\ pc[r] = "body"
  /\ Answer(r)
  /\ UNCHANGED <<process, sup, runtimes, open>>

Save(r) ==
  /\ pc[r] = "body" /\ kind[r] = "save"
  /\ stored' = cfg[r]
  /\ Answer(r)
  /\ UNCHANGED <<boot, begun, sup, runtimes, open>>

\* The configuration on record after START TRADING.
StoredBy(r) == IF cfg[r] = 0 THEN stored ELSE cfg[r]

\* The body of START TRADING is stored, if there is one, and the runtime is started,
\* restarted when the configuration changed under it, or else armed at once.
TradeBody(r) ==
  /\ pc[r] = "body" /\ kind[r] = "trade"
  /\ stored' = StoredBy(r)
  /\ \/ /\ ~ Running
        /\ At(r, "wantStart", 0)
        /\ want' = [want EXCEPT ![r] = mode]
        /\ UNCHANGED <<armed, kind, cfg>>
     \/ /\ Running /\ cfg[r] # 0
        /\ Moves(r, "wantStop", 0)
        /\ UNCHANGED armed
     \/ /\ Running /\ cfg[r] = 0
        /\ armed' = armed \union {ref[r]}
        /\ Answer(r)
  /\ UNCHANGED <<boot, begun, sup, life, rmode, rcfg, ready, cancelled, open>>

------------------------------------------------------------------------------
(* RuntimeSupervisor.start() *)

\* Under the lock: refused while a runtime runs; else the connections of the
\* runtime before are let go of ...
TakeStart(r) ==
  /\ pc[r] = "wantStart" /\ lock = Nobody
  /\ IF Running
       THEN Answer(r) /\ UNCHANGED <<lock, held>>
       ELSE lock' = r /\ held' = 0 /\ Moves(r, "closing", held)
  /\ UNCHANGED <<process, mode, cur, task, built, runtimes, open>>

\* Mutant of Closed: the old connections are dropped, not closed.
ClosedNot(r) ==
  /\ pc[r] = "closing" /\ built < MaxBuild
  /\ built' = built + 1 /\ held' = built' /\ mode' = want[r]
  /\ open' = open \union {built'}
  /\ Moves(r, "building", built')
  /\ UNCHANGED <<process, cur, task, lock, runtimes>>

\* ... and closed; _build_live() makes the new discovery and awaits the executor.
Closed(r) ==
  /\ pc[r] = "closing" /\ built < MaxBuild
  /\ built' = built + 1 /\ held' = built' /\ mode' = want[r]
  /\ open' = (open \ {ref[r]}) \union {built'}
  /\ Moves(r, "building", built')
  /\ UNCHANGED <<process, cur, task, lock, runtimes>>

\* Mutant of BuildFails: the lock is released by the path that succeeds alone.
BuildFailsLocked(r) ==
  /\ pc[r] = "building"
  /\ Answer(r)
  /\ UNCHANGED <<process, sup, runtimes, open>>

\* No credentials, no venue: the runtime before stays attached, under the new mode.
BuildFails(r) ==
  /\ pc[r] = "building"
  /\ lock' = Nobody
  /\ Answer(r)
  /\ UNCHANGED <<process, mode, cur, task, held, built, runtimes, open>>

\* The runtime's configuration is the supervisor's own, and its task is scheduled.
Built(r) ==
  /\ pc[r] = "building"
  /\ cur' = ref[r] /\ task' = ref[r]
  /\ life'  = [life EXCEPT ![ref[r]] = "recover"]
  /\ rmode' = [rmode EXCEPT ![ref[r]] = mode]
  /\ rcfg'  = [rcfg EXCEPT ![ref[r]] = boot]
  /\ ready' = ready \union {ref[r]}
  /\ Moves(r, "yield", ref[r])
  /\ UNCHANGED <<process, mode, lock, held, built, armed, cancelled, open>>

\* The caller has the runtime; START TRADING arms it before anyone else runs.
Started(r) ==
  /\ pc[r] = "yield"
  /\ lock' = Nobody
  /\ armed' = IF kind[r] = "trade" THEN armed \union {ref[r]} ELSE armed
  /\ Answer(r)
  /\ UNCHANGED <<process, mode, cur, task, held, built, life, rmode, rcfg, ready,
                 cancelled, open>>

------------------------------------------------------------------------------
(* RuntimeSupervisor.stop(), and the first half of switch() *)

\* Mutant of TakeStop: the runtime is disarmed, but the supervisor's gate stays open.
TakeStopReady(r) ==
  /\ pc[r] = "wantStop" /\ lock = Nobody
  /\ lock' = r /\ task' = 0
  /\ IF Running
       THEN /\ armed' = armed \ {cur} /\ cancelled' = cancelled \union {task}
            /\ Moves(r, "joining", task) /\ UNCHANGED held
       ELSE held' = 0 /\ Moves(r, "tearing", held) /\ UNCHANGED <<armed, cancelled>>
  /\ UNCHANGED <<process, mode, cur, built, life, rmode, rcfg, ready, open>>

\* Under the lock the task is forgotten; one that runs is disarmed and cancelled.
TakeStop(r) ==
  /\ pc[r] = "wantStop" /\ lock = Nobody
  /\ lock' = r /\ task' = 0
  /\ IF Running
       THEN /\ armed' = armed \ {cur} /\ ready' = ready \ {cur}
            /\ cancelled' = cancelled \union {task}
            /\ Moves(r, "joining", task) /\ UNCHANGED held
       ELSE held' = 0 /\ Moves(r, "tearing", held) /\ UNCHANGED gates
  /\ UNCHANGED <<process, mode, cur, built, life, rmode, rcfg, open>>

\* Mutant of Joined: the timeout of wait_for gives the task up.
JoinedLate(r) ==
  /\ pc[r] = "joining"
  /\ held' = 0 /\ Moves(r, "tearing", held)
  /\ UNCHANGED <<process, mode, cur, task, lock, built, runtimes, open>>

\* wait_for() returns when the task is over: on its timeout it cancels it once more
\* and goes on waiting for it.
Joined(r) ==
  /\ pc[r] = "joining" /\ life[ref[r]] \in Over
  /\ held' = 0 /\ Moves(r, "tearing", held)
  /\ UNCHANGED <<process, mode, cur, task, lock, built, runtimes, open>>

\* An exception of the task that is not one of ARC's leaves stop() as well.
JoinRaises(r) ==
  /\ pc[r] = "joining" /\ life[ref[r]] \in {"failed", "crashed"}
  /\ lock' = Nobody
  /\ Answer(r)
  /\ UNCHANGED <<process, mode, cur, task, held, built, runtimes, open>>

\* The connections are closed, a fresh inert runtime is attached; a switch starts next.
TornDown(r) ==
  /\ pc[r] = "tearing" /\ built < MaxBuild
  /\ lock' = Nobody
  /\ built' = built + 1 /\ cur' = built' /\ held' = built'
  /\ life'  = [life EXCEPT ![built'] = "inert"]
  /\ rmode' = [rmode EXCEPT ![built'] = mode]
  /\ rcfg'  = [rcfg EXCEPT ![built'] = boot]
  /\ open' = (open \ {ref[r]}) \union {built'}
  /\ IF kind[r] = "trade"
       THEN At(r, "wantStart", 0) /\ want' = [want EXCEPT ![r] = mode]
            /\ UNCHANGED <<kind, cfg>>
       ELSE Answer(r)
  /\ UNCHANGED <<process, mode, task, gates>>

------------------------------------------------------------------------------
(* ArcRuntime.run() *)

Lives_to(g, l) ==
  /\ life' = [life EXCEPT ![g] = l]
  /\ UNCHANGED <<process, sup, rmode, rcfg, gates, open, handlers>>

Recovered(g) == life[g] = "recover" /\ g \notin cancelled /\ Lives_to(g, "loop")

\* Recovery runs before the try block.
RecoverFails(g) == life[g] = "recover" /\ g \notin cancelled /\ Lives_to(g, "failed")

\* A bounded run has its markets, or an exception leaves the loop.
LeavesLoop(g) ==
  /\ life[g] = "loop" /\ g \notin cancelled
  /\ \E l \in {"ending", "erring"} : Lives_to(g, l)

\* The CancelledError arrives at the await the task stands at.
CancelLands(g) ==
  /\ g \in cancelled
  /\ \/ life[g] = "recover" /\ Lives_to(g, "gone")
     \/ life[g] = "loop" /\ Lives_to(g, "ending")

\* The feed and the notifier were joined and the session row is written; a feed task
\* that had died on its own raises here, before the row.
Finish(g) ==
  \/ life[g] = "ending" /\ \E l \in {"done", "failed"} : Lives_to(g, l)
  \/ life[g] = "erring" /\ \E l \in {"crashed", "failed"} : Lives_to(g, l)

------------------------------------------------------------------------------
(* The process *)

\* The process is killed, or ends, and is started again: `arc run` reads the
\* stored configuration and starts its mode.
Reboot ==
  /\ begun < MaxRequests
  /\ begun' = begun + 1
  /\ boot' = stored /\ stored' = stored
  /\ mode' = BootMode /\ cur' = 1 /\ task' = 0 /\ held' = 0 /\ built' = 1
  /\ life' = Once("inert", "none") /\ rmode' = Once(BootMode, "V1") /\ rcfg' = Once(stored, 1)
  /\ armed' = {} /\ ready' = {} /\ cancelled' = {} /\ open' = {1}
  /\ \E r \in Requests :
       /\ lock' = r
       /\ kind' = Starting(r, "start", "none") /\ pc' = Starting(r, "closing", "idle")
       /\ ref' = Starting(r, 1, 0) /\ cfg' = Starting(r, 0, 0) /\ want' = Starting(r, BootMode, "V1")

------------------------------------------------------------------------------
Start(r)   == TakeStart(r) \/ Closed(r) \/ BuildFails(r) \/ Built(r) \/ Started(r)
Stop(r)    == TakeStop(r) \/ Joined(r) \/ JoinRaises(r) \/ TornDown(r)
Handler(r) == Rejected(r) \/ Save(r) \/ TradeBody(r) \/ Start(r) \/ Stop(r)
Begin(r)   == BeginStart(r) \/ BeginStop(r) \/ BeginSave(r) \/ BeginTrade(r)
Shuts(g)   == CancelLands(g) \/ Finish(g)
Task(g)    == Recovered(g) \/ RecoverFails(g) \/ LeavesLoop(g) \/ Shuts(g)

Next ==
  \/ \E r \in Requests : Begin(r) \/ Handler(r)
  \/ \E g \in Builds : Task(g)
  \/ Arm \/ Disarm \/ Reboot

Spec == Init /\ [][Next]_vars

\* A handler goes on, and a task that was cancelled or is in its finally block comes
\* to its end.  (The lock is first come first served; a behaviour has finitely many
\* requests, so that weak fairness is enough to get it.)
FairSpec ==
  /\ Spec
  /\ \A r \in Requests : WF_vars(Handler(r))
  /\ \A g \in Builds : WF_vars(Shuts(g))

------------------------------------------------------------------------------
(* Properties *)

Labels == {"idle", "body", "wantStart", "closing", "building", "yield",
           "wantStop", "joining", "tearing"}
Locked == {"closing", "building", "yield", "joining", "tearing"}

TypeOK ==
  /\ boot \in Configs /\ stored \in Configs /\ begun \in 1 .. MaxRequests
  /\ mode \in Modes /\ cur \in Builds /\ task \in Builds \union {0}
  /\ lock \in Requests \union {Nobody}
  /\ held \in Builds \union {0} /\ built \in Builds
  /\ life \in [Builds -> Lives] /\ rmode \in [Builds -> Modes] /\ rcfg \in [Builds -> Configs]
  /\ armed \subseteq Builds /\ ready \subseteq Builds /\ cancelled \subseteq Builds
  /\ open \subseteq Builds
  /\ kind \in [Requests -> {"none", "start", "stop", "save", "trade"}]
  /\ pc \in [Requests -> Labels] /\ ref \in [Requests -> Builds \union {0}]
  /\ cfg \in [Requests -> Configs \union {0}] /\ want \in [Requests -> Modes]

\* Never two runtimes at once: a task that is not over, one being stopped included,
\* belongs to the runtime the dashboard shows, in the mode that is selected.
OnlyCurrentRuns ==
  \A g \in Builds : life[g] \in Undone => g = cur /\ rmode[g] = mode

\* From the moment a stop took hold nothing may trade any more, even when the
\* operator's arm button is pressed while the task is winding up.
MayTrade(g) == life[g] \in Undone /\ g \in armed /\ g \in ready
StoppingNeverTrades ==
  \A g \in Builds : MayTrade(g) => g = task /\ g \notin cancelled

\* A connection that is open is one the supervisor will close: it holds it, or the
\* handler with the lock is closing it.
NoLeak ==
  \A g \in open : g = held \/ \E r \in Requests : pc[r] \in {"closing", "tearing"} /\ ref[r] = g

\* Every request is answered: nobody waits for the lock, or for a cancelled task,
\* for ever.
Answered == \A r \in Requests : pc[r] # "idle" ~> pc[r] = "idle"

\* The handler with the lock, and it alone, is between its lock and its answer.
Guarded == \A r \in Requests : pc[r] \in Locked <=> lock = r

\* What a handler that waits inside the supervisor may rely on.
Holding ==
  \A r \in Requests :
    /\ pc[r] \in {"closing", "building"} => ~ Running
    /\ pc[r] \in {"joining", "tearing"} => task = 0
    /\ pc[r] \in {"closing", "tearing"} => held = 0
    /\ pc[r] = "building" => ref[r] = built /\ built \notin cancelled
    /\ pc[r] \in {"body", "yield"} => ref[r] \in Builds
    /\ kind[r] = "save" => cfg[r] \in Configs
    /\ pc[r] = "tearing" => \A g \in Builds : life[g] \notin Undone

\* A task that is not over is the supervisor's, or the one a stop is waiting for.
Owned ==
  \A g \in Builds : life[g] \in Undone =>
    /\ g = cur /\ rmode[g] = mode
    /\ \/ g = task /\ g \notin cancelled
       \/ g \notin ready /\ \E r \in Requests : pc[r] = "joining" /\ ref[r] = g

\* Numbers are given in order.
Numbered == task \in 0 .. built /\ \A g \in cancelled : g <= built

IInv == TypeOK /\ Guarded /\ Holding /\ Owned /\ Numbered /\ NoLeak
=============================================================================
