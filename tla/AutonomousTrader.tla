-------------------------- MODULE AutonomousTrader --------------------------
(***************************************************************************)
(* AutonomousTrader (services/autonomous_trader.py) with the part of       *)
(* ExecutionService it uses: submit_parent_order queues a task that routes *)
(* one market order through the risk orchestrator.                         *)
(*                                                                         *)
(* One symbol at price 1.  A step awaits the bars, then the positions, and *)
(* trades on that answer and on pending_leaves as they are by then; the    *)
(* reservation of an order is made when its task runs.  Steps are run by   *)
(* the loop task and, once, by every start.                                *)
(***************************************************************************)
EXTENDS Integers, FiniteSetsExt

CONSTANTS
  MaxStarts,      \* bound: calls of start
  TraderStops,    \* calls of stop
  MaxLoops,       \* bound: loop tasks created
  MaxParents,     \* bound: parent orders accepted
  MaxErrors,      \* errors in a row that put the engine into ERROR (10)
  MaxTraderFaults,\* bound: failing calls, refusals, kills, new priors, pauses
  Equity,         \* in lots
  UniverseSize,
  MinLots         \* min_trade_notional at price 1

ASSUME TraderAssumption ==
  /\ {MaxLoops, MaxErrors, UniverseSize, MinLots} \subseteq Nat \ {0}
  /\ {MaxStarts, MaxParents, MaxTraderFaults, Equity} \subseteq Nat

(* Workers are numbered: the loop tasks, then the calls of start.          *)
Nobody == 0
LoopIds == 1..MaxLoops
TraderStarts == (MaxLoops + 1)..(MaxLoops + MaxStarts)
Workers == TraderStarts \cup LoopIds
ParentIds == 1..MaxParents

VARIABLES
  engine,     \* _state
  handle,     \* _loop_task
  at,         \* each worker: idle, bars, positions, answered, sleep, done
  cancelled,  \* loop tasks cancelled and not yet ended
  seenKill,   \* is_kill_active as each step read it
  snap,       \* the positions each step was answered
  called,     \* the stops called so far
  halting,    \* each stop: the loop it awaits, or Nobody
  errors,     \* _error_count
  prior,      \* _forward_alpha_priors of the symbol, in percent
  killed,     \* the kill switch is thrown
  parent,     \* each parent order: none, queued, connecting, routing, working, closed
  lots,       \* its signed size
  leaves,     \* pending_leaves of the symbol
  holding     \* the venue's position

(* History.                                                                *)
VARIABLES
  traderFaults,
  raced,      \* a start overlapped a stop
  adrift      \* ledger and venue came apart: a step traded before an earlier
              \* order's task had reserved its lots; an order closed later than
              \* its answer, or between the positions' answer and their use; an
              \* order was refused after a later one had been sized with it

venue == <<parent, lots, leaves, holding>>
traderHistory == <<traderFaults, raced, adrift>>
traderVars == <<engine, handle, at, cancelled, seenKill, snap, called, halting, errors, prior, killed,
                venue, traderHistory>>

TraderInit ==
  /\ engine = "IDLE" /\ handle = Nobody
  /\ at = [w \in Workers |-> "idle"]
  /\ cancelled = {}
  /\ seenKill = [w \in Workers |-> FALSE]
  /\ snap = [w \in Workers |-> 0]
  /\ called = {} /\ halting = [z \in TraderStops |-> Nobody]
  /\ errors = 0 /\ prior = 0 /\ killed = FALSE
  /\ parent = [p \in ParentIds |-> "none"]
  /\ lots = [p \in ParentIds |-> 0]
  /\ leaves = 0 /\ holding = 0
  /\ traderFaults = 0 /\ raced = FALSE /\ adrift = FALSE

-----------------------------------------------------------------------------
LoopAlive(l) == l # Nobody /\ at[l] \notin {"idle", "done"}
Stepping(w) == at[w] \in {"bars", "positions", "answered"}
Halting(z) == halting[z] # Nobody

Fault == traderFaults < MaxTraderFaults /\ traderFaults' = traderFaults + 1

(* _compute_target_allocations: 60 percent of the equity over the universe,*)
(* scaled by the prior, at most 20 percent of the equity.                  *)
TargetLots ==
  Min({(Equity * 60 * (200 + prior)) \div (UniverseSize * 20000), (Equity * 20) \div 100})

(* A loop task is created unless the handle has a live one.                *)
EnsureLoop(moved) ==
  IF LoopAlive(handle) THEN at' = moved /\ UNCHANGED handle
  ELSE \E l \in LoopIds :
         /\ at[l] = "idle" /\ \A k \in 1..(l - 1) : at[k] # "idle"
         /\ at' = [moved EXCEPT ![l] = "sleep"]
         /\ handle' = l

(* start: state, first step, loop.                                         *)
TraderStart(c) ==
  /\ at[c] = "idle" /\ \A b \in TraderStarts : b < c => at[b] # "idle"
  /\ ~(engine = "RUNNING" /\ LoopAlive(handle))
  /\ engine' = "RUNNING"
  /\ at' = [at EXCEPT ![c] = "bars"]
  /\ raced' = (raced \/ \E z \in TraderStops : Halting(z))
  /\ UNCHANGED <<handle, cancelled, seenKill, snap, called, halting, errors, prior, killed, venue,
                 traderFaults, adrift>>

(* Where a worker goes after its step.                                     *)
AfterStep(w) ==
  /\ seenKill' = [seenKill EXCEPT ![w] = FALSE]
  /\ snap' = [snap EXCEPT ![w] = 0]
  /\ IF w \in LoopIds
     THEN at' = [at EXCEPT ![w] = "sleep"] /\ errors' = 0 /\ UNCHANGED handle
     ELSE EnsureLoop([at EXCEPT ![w] = "done"]) /\ UNCHANGED errors

-----------------------------------------------------------------------------
(* The three parts of step_once.                                           *)
BarsArrive(w) ==
  /\ at[w] = "bars" /\ w \notin cancelled
  /\ at' = [at EXCEPT ![w] = "positions"]
  /\ seenKill' = [seenKill EXCEPT ![w] = killed]
  /\ UNCHANGED <<engine, handle, cancelled, snap, called, halting, errors, prior, killed,
                 venue, traderHistory>>

(* The gateway answers get_positions.                                      *)
PositionsArrive(w) ==
  /\ at[w] = "positions" /\ w \notin cancelled
  /\ at' = [at EXCEPT ![w] = "answered"]
  /\ snap' = [snap EXCEPT ![w] = holding]
  /\ UNCHANGED <<engine, handle, cancelled, seenKill, called, halting, errors, prior, killed,
                 venue, traderHistory>>

(* The trade the step wants: the effective position counts the leaves.     *)
Delta(w) == TargetLots - (snap[w] + leaves)

Wants(w) == Delta(w) >= MinLots \/ -Delta(w) >= MinLots

(* submit_parent_order refuses when the switch is thrown by now, whatever  *)
(* the step has read.                                                      *)
StepTrades(w) ==
  /\ at[w] = "answered" /\ w \notin cancelled
  /\ ~seenKill[w] /\ ~killed /\ Wants(w)
  /\ \E p \in ParentIds :
       /\ parent[p] = "none" /\ \A k \in 1..(p - 1) : parent[k] # "none"
       /\ parent' = [parent EXCEPT ![p] = "queued"]
       /\ lots' = [lots EXCEPT ![p] = Delta(w)]
  /\ adrift' = (adrift \/ \E p \in ParentIds : parent[p] \in {"queued", "connecting"})
  /\ AfterStep(w)
  /\ UNCHANGED <<engine, cancelled, called, halting, prior, killed, leaves, holding,
                 traderFaults, raced>>

StepPasses(w) ==
  /\ at[w] = "answered" /\ w \notin cancelled
  /\ seenKill[w] \/ killed \/ ~Wants(w)
  /\ AfterStep(w)
  /\ UNCHANGED <<engine, cancelled, called, halting, prior, killed, venue, traderHistory>>

(* PreTradeDecisionGate blocks the order, or there is no equity.           *)
StepBlocked(w) ==
  /\ at[w] = "answered" /\ w \notin cancelled
  /\ Fault
  /\ AfterStep(w)
  /\ UNCHANGED <<engine, cancelled, called, halting, prior, killed, venue,
                 raced, adrift>>

(* A feed or gateway call raises: start swallows it, the loop counts.      *)
StepFails(w) ==
  /\ at[w] \in {"bars", "positions"} /\ w \notin cancelled
  /\ Fault
  /\ IF w \in LoopIds
     THEN /\ errors' = errors + 1
          /\ engine' = IF errors' >= MaxErrors THEN "ERROR" ELSE engine
          /\ at' = [at EXCEPT ![w] = IF errors' >= MaxErrors THEN "done" ELSE "sleep"]
          /\ seenKill' = [seenKill EXCEPT ![w] = FALSE]
          /\ UNCHANGED <<handle, snap>>
     ELSE AfterStep(w) /\ UNCHANGED engine
  /\ UNCHANGED <<cancelled, called, halting, prior, killed, venue, raced, adrift>>

-----------------------------------------------------------------------------
(* _run_loop between two steps.  A task created before the sleep has run   *)
(* its first part when the sleep is over.                                  *)
LoopWakes(l) ==
  /\ at[l] = "sleep" /\ l \notin cancelled
  /\ \A p \in ParentIds : parent[p] # "queued"
  /\ engine = "RUNNING"
  /\ at' = [at EXCEPT ![l] = "bars"]
  /\ UNCHANGED <<engine, handle, cancelled, seenKill, snap, called, halting, errors, prior, killed, venue,
                 traderFaults, raced, adrift>>

LoopReturns(l) ==
  /\ \/ l \in cancelled /\ LoopAlive(l)
     \/ at[l] = "sleep" /\ engine \notin {"RUNNING", "PAUSED"}
  /\ at' = [at EXCEPT ![l] = "done"]
  /\ seenKill' = [seenKill EXCEPT ![l] = FALSE]
  /\ snap' = [snap EXCEPT ![l] = 0]
  /\ cancelled' = cancelled \ {l}
  /\ UNCHANGED <<engine, handle, called, halting, errors, prior, killed, venue, traderHistory>>

TraderStop(z) ==
  /\ z \notin called
  /\ engine' = "STOPPED"
  /\ halting' = [halting EXCEPT ![z] = IF LoopAlive(handle) THEN handle ELSE Nobody]
  /\ called' = called \cup {z}
  /\ cancelled' = IF LoopAlive(handle) THEN cancelled \cup {handle} ELSE cancelled
  /\ raced' = (raced \/ \E c \in TraderStarts : Stepping(c))
  /\ UNCHANGED <<handle, at, seenKill, snap, errors, prior, killed, venue,
                 traderFaults, adrift>>

(* The awaited task has ended: whatever the handle has by now is dropped.  *)
TraderStopped(z) ==
  /\ Halting(z)
  /\ ~LoopAlive(halting[z])
  /\ halting' = [halting EXCEPT ![z] = Nobody]
  /\ handle' = Nobody
  /\ UNCHANGED <<engine, at, cancelled, seenKill, snap, called, errors, prior, killed, venue,
                 traderHistory>>

TraderPause ==
  /\ Fault
  /\ engine = "RUNNING"
  /\ engine' = "PAUSED"
  /\ UNCHANGED <<handle, at, cancelled, seenKill, snap, called, halting, errors, prior, killed, venue,
                 raced, adrift>>

TraderResume ==
  /\ engine = "PAUSED"
  /\ engine' = "RUNNING"
  /\ EnsureLoop(at)
  /\ UNCHANGED <<cancelled, seenKill, snap, called, halting, errors, prior, killed, venue,
                 traderHistory>>

(* update_news_alpha_priors clamps to [-1, 1].                             *)
UpdatePriors(v) ==
  /\ Fault
  /\ prior' = Max({-100, Min({v, 100})})
  /\ UNCHANGED <<engine, handle, at, cancelled, seenKill, snap, called, halting, errors, killed, venue,
                 raced, adrift>>

-----------------------------------------------------------------------------
(* The parent's task finds the gateway disconnected and awaits connect.    *)
TaskConnects(p) ==
  /\ Fault
  /\ parent[p] = "queued" /\ ~killed
  /\ parent' = [parent EXCEPT ![p] = "connecting"]
  /\ UNCHANGED <<engine, handle, at, cancelled, seenKill, snap, called, halting, errors, prior, killed,
                 lots, leaves, holding, raced, adrift>>

Close(p) ==
  /\ parent' = [parent EXCEPT ![p] = "closed"]
  /\ lots' = [lots EXCEPT ![p] = 0]

(* Faulty variant: the switch is not looked at again.                      *)
TaskRoutesUnchecked(p) ==
  /\ parent[p] \in {"queued", "connecting"}
  /\ parent' = [parent EXCEPT ![p] = "routing"] /\ leaves' = leaves + lots[p] /\ UNCHANGED lots
  /\ UNCHANGED <<engine, handle, at, cancelled, seenKill, snap, called, halting, errors, prior, killed,
                 holding, traderHistory>>

(* The switch again, the reservation, the gateway.                         *)
TaskRoutes(p) ==
  /\ parent[p] \in {"queued", "connecting"}
  /\ IF killed
     THEN Close(p) /\ UNCHANGED leaves
     ELSE parent' = [parent EXCEPT ![p] = "routing"] /\ leaves' = leaves + lots[p] /\ UNCHANGED lots
  /\ UNCHANGED <<engine, handle, at, cancelled, seenKill, snap, called, halting, errors, prior, killed,
                 holding, traderHistory>>

SnapshotOut == \E w \in Workers : at[w] = "answered"

(* The market order is filled with the answer, as at the paper gateway.    *)
AnsweredFilled(p) ==
  /\ parent[p] = "routing"
  /\ Close(p)
  /\ holding' = holding + lots[p]
  /\ leaves' = leaves - lots[p]
  /\ adrift' = (adrift \/ SnapshotOut)
  /\ UNCHANGED <<engine, handle, at, cancelled, seenKill, snap, called, halting, errors, prior, killed,
                 traderFaults, raced>>

AnsweredRejected(p) ==
  /\ Fault
  /\ parent[p] = "routing"
  /\ Close(p)
  /\ leaves' = leaves - lots[p]
  /\ adrift' = (adrift \/ SnapshotOut \/ \E q \in ParentIds : q > p /\ parent[q] # "none")
  /\ UNCHANGED <<engine, handle, at, cancelled, seenKill, snap, called, halting, errors, prior, killed,
                 holding, raced>>

(* An asynchronous venue only accepts it; what becomes of it later, nobody *)
(* books: the reservation stays.                                           *)
AnsweredNew(p) ==
  /\ Fault
  /\ parent[p] = "routing"
  /\ parent' = [parent EXCEPT ![p] = "working"]
  /\ UNCHANGED <<engine, handle, at, cancelled, seenKill, snap, called, halting, errors, prior, killed, lots,
                 leaves, holding, raced, adrift>>

WorkingCloses(p, filled) ==
  /\ parent[p] = "working"
  /\ Close(p)
  /\ holding' = IF filled THEN holding + lots[p] ELSE holding
  /\ adrift' = TRUE
  /\ UNCHANGED <<engine, handle, at, cancelled, seenKill, snap, called, halting, errors, prior, killed,
                 leaves, traderFaults, raced>>

SetKill(k) ==
  /\ Fault
  /\ killed # k
  /\ killed' = k
  /\ UNCHANGED <<engine, handle, at, cancelled, seenKill, snap, called, halting, errors, prior, venue,
                 raced, adrift>>

-----------------------------------------------------------------------------
TraderNext ==
  \/ \E c \in TraderStarts : TraderStart(c)
  \/ \E w \in Workers :
       \/ BarsArrive(w) \/ PositionsArrive(w)
       \/ StepTrades(w) \/ StepPasses(w) \/ StepBlocked(w) \/ StepFails(w)
  \/ \E l \in LoopIds : LoopWakes(l) \/ LoopReturns(l)
  \/ \E z \in TraderStops : TraderStop(z) \/ TraderStopped(z)
  \/ TraderPause \/ TraderResume
  \/ \E v \in {-200, 100} : UpdatePriors(v)
  \/ \E p \in ParentIds :
       \/ TaskConnects(p) \/ TaskRoutes(p) \/ AnsweredFilled(p) \/ AnsweredRejected(p) \/ AnsweredNew(p)
       \/ \E filled \in BOOLEAN : WorkingCloses(p, filled)
  \/ \E k \in BOOLEAN : SetKill(k)

(* Awaited calls return, and a created task runs.                          *)
TraderFairness ==
  /\ \A l \in LoopIds : WF_traderVars(LoopReturns(l)) /\ WF_traderVars(LoopWakes(l))
  /\ \A w \in Workers :
       /\ WF_traderVars(BarsArrive(w))
       /\ WF_traderVars(PositionsArrive(w))
       /\ WF_traderVars((StepTrades(w) \/ StepPasses(w)))
  /\ \A z \in TraderStops : WF_traderVars(TraderStopped(z))
  /\ \A p \in ParentIds : WF_traderVars(TaskRoutes(p)) /\ WF_traderVars(AnsweredFilled(p))

TraderSpec == TraderInit /\ [][TraderNext]_traderVars /\ TraderFairness

-----------------------------------------------------------------------------
TraderTypeOK ==
  /\ engine \in {"IDLE", "RUNNING", "PAUSED", "STOPPED", "ERROR"}
  /\ handle \in LoopIds \cup {Nobody}
  /\ at \in [Workers -> {"idle", "bars", "positions", "answered", "sleep", "done"}]
  /\ cancelled \subseteq LoopIds
  /\ seenKill \in [Workers -> BOOLEAN] /\ snap \in [Workers -> Int]
  /\ halting \in [TraderStops -> LoopIds \cup {Nobody}] /\ called \subseteq TraderStops
  /\ errors \in Nat /\ prior \in -100..100 /\ killed \in BOOLEAN
  /\ parent \in [ParentIds -> {"none", "queued", "connecting", "routing", "working", "closed"}]
  /\ lots \in [ParentIds -> Int] /\ leaves \in Int /\ holding \in Int

(* INV-SWARM-003: at most one loop task is alive and the handle has it; a  *)
(* second one, or a loop without a handle, takes a start that overlaps a   *)
(* stop, whose last statement drops the handle of the new task.            *)
SingleSwarmLoop ==
  ~raced => \A l \in LoopIds : LoopAlive(l) => handle = l

(* A stopped engine whose stops are done has no loop that would step again.*)
StoppedSwarmIsIdle ==
  engine = "STOPPED" /\ ~raced /\ (\A z \in TraderStops : ~Halting(z)) =>
    \A l \in LoopIds : ~LoopAlive(l)

(* Lots held, working or about to be sent.                                 *)
Exposed ==
  holding + MapThenSumSet(LAMBDA p : lots[p], ParentIds)

(* The largest target a prior allows.                                      *)
CapLots == Min({(Equity * 60 * 300) \div (UniverseSize * 20000), (Equity * 20) \div 100})

(* The engine never builds more than the largest allocation nor sells what *)
(* it does not have, counting what is under way, however its steps overlap:*)
(* unless the ledger's leaves and the venue's positions came apart.        *)
AllocationRespected ==
  ~adrift => Exposed \in 0..CapLots

(* INV-SWARM-001: once the switch is thrown, only orders whose submission  *)
(* was already under way reach the venue: one for each routing task.       *)
KillStopsSwarm ==
  [][killed /\ killed' => \A p \in ParentIds :
       parent'[p] \in {"routing", "working"} => parent[p] \notin {"queued", "connecting"}]_traderVars

(* The engine runs one loop, none when stopped, stays within its           *)
(* allocation, and sends nothing new once the kill switch is thrown.       *)
SwarmControlled ==
  /\ []TraderTypeOK
  /\ []SingleSwarmLoop
  /\ []StoppedSwarmIsIdle
  /\ []AllocationRespected
  /\ KillStopsSwarm

(* Each stop ends, and the loop it cancelled is gone.                      *)
SwarmStops ==
  (\E z \in TraderStops : Halting(z)) ~> (\A z \in TraderStops : ~Halting(z))
=============================================================================
