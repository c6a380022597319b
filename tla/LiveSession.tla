----------------------------- MODULE LiveSession -----------------------------
(***************************************************************************)
(* LiveTradingSession (services/live_session.py), the hotkeys that drive it*)
(* (execution/hotkeys.py), its header on the terminal (terminal_hud.py) and*)
(* the program that runs it (scripts/run_live_trader.py).                  *)
(*                                                                         *)
(* Everything runs on one asyncio loop: an action is the code between two  *)
(* awaits.  start awaits the gateway's connect, stop awaits the loop task, *)
(* the query of open orders, each cancellation and the disconnect, and the *)
(* loop task awaits a panic sweep, every order it routes and its sleep.    *)
(* The program ends when its main coroutine returns, which cancels every   *)
(* task still running.  What one routed order does to the risk ledger is in*)
(* RiskLedger, what a panic sweep does in KillSwitch.                      *)
(***************************************************************************)
EXTENDS Integers, FiniteSets

CONSTANTS
  MaxSessionStarts, \* bound: calls of start
  Stoppers,       \* calls of stop: signal handlers and the shutdown key
  MaxSessionOrders, \* bound: orders the loops may send
  NumSymbols,     \* config.symbols, rebalanced one after the other
  MaxKeys,        \* bound: operator commands (pause, resume, panic, disarm, arm)
  MaxGatewayFaults, \* bound: gateway calls that fail
  Main            \* the stop call in the teardown of the main coroutine

ASSUME SessionAssumption ==
  /\ NumSymbols \in Nat \ {0}
  /\ MaxSessionOrders \in Nat /\ MaxKeys \in Nat /\ MaxGatewayFaults \in Nat
  /\ MaxSessionStarts \in Nat
  /\ Main \notin Stoppers

NoTask == 0
Starters == 1..MaxSessionStarts
Stops == Stoppers \cup {Main}
SessionOrders == 1..MaxSessionOrders

VARIABLES
  status,      \* _status
  looping,     \* _is_loop_running
  task,        \* _loop_task: the start call that created it, or NoTask
  connected,   \* the gateway's is_connected
  kill,        \* the state of the kill switch
  starting,    \* each start: idle, connecting, done
  loop,        \* the loop each start created: none, ready, panic, sending, done
  cancelling,  \* loops whose task has been cancelled
  left,        \* symbols each loop has still to rebalance in this cycle
  current,     \* the order a sending loop awaits
  stopping,    \* each stop: idle, join, query, cancel, done
  joined,      \* the loop a stop awaits
  sweep,       \* the orders a stop has still to cancel
  placed,      \* each order: new, sending, limbo (cut off), open, closed
  main         \* the program: watch, teardown, exited

(* History.                                                                *)
VARIABLES
  keys,        \* operator commands so far
  faults,      \* gateway calls failed so far
  overlapped,  \* a start ran while another start or a stop was under way
  idleDisarm,  \* disarm was called while no loop was meant to run
  cut,         \* a stop was cancelled by the end of the program
  missed,      \* orders whose cancellation a stop tried in vain
  panicked,    \* a breach threw the switch since the status became RUNNING
  late         \* orders sent since the status left RUNNING or the breach

control == <<status, looping, task>>
loops == <<loop, cancelling, left, current>>
stops == <<stopping, joined, sweep>>
sessionHistory == <<keys, faults, overlapped, idleDisarm, cut, missed, panicked, late>>
sessionVars == <<control, connected, kill, starting, loops, stops, placed, main, sessionHistory>>

SessionInit ==
  /\ status = "INITIALIZING" /\ looping = FALSE /\ task = NoTask
  /\ connected = FALSE
  /\ kill = "ARMED_STANDBY"
  /\ starting = [s \in Starters |-> "idle"]
  /\ loop = [s \in Starters |-> "none"]
  /\ cancelling = {}
  /\ left = [s \in Starters |-> 0]
  /\ current = [s \in Starters |-> NoTask]
  /\ stopping = [q \in Stops |-> "idle"]
  /\ joined = [q \in Stops |-> NoTask]
  /\ sweep = [q \in Stops |-> {}]
  /\ placed = [o \in SessionOrders |-> "new"]
  /\ main = "watch"
  /\ keys = 0 /\ faults = 0 /\ overlapped = FALSE /\ idleDisarm = FALSE
  /\ cut = FALSE /\ missed = {} /\ panicked = FALSE /\ late = 0

-----------------------------------------------------------------------------
Alive(s) == loop[s] \in {"ready", "panic", "sending"}
Busy(q) == stopping[q] \notin {"idle", "done"}
OpenOrders == {o \in SessionOrders : placed[o] = "open"}

Running == main # "exited"

(* Whether a gateway call fails this time, within the bound.               *)
GatewayFails == faults < MaxGatewayFaults /\ faults' = faults + 1

SetStatus(new) ==
  /\ status' = new
  /\ late' = IF new = "RUNNING" THEN 0 ELSE late
  /\ panicked' = (panicked /\ new # "RUNNING")

KeepStatus == UNCHANGED <<status, panicked, late>>

-----------------------------------------------------------------------------
(* Faulty variant: a start trusts the status alone.                        *)
MayStartStatusOnly == status # "RUNNING"

(* start.  A refused call raises and changes nothing.  The tail after the  *)
(* await does not look at the status again.                                *)
MayStart == status # "RUNNING" /\ ~looping

StartTail(s) ==
  /\ SetStatus("RUNNING")
  /\ looping' = TRUE
  /\ task' = s
  /\ loop' = [loop EXCEPT ![s] = "ready"]

OverlapsStart(s) ==
  \/ \E r \in Starters \ {s} : starting[r] = "connecting"
  \/ \E q \in Stops : Busy(q)

StartCall(s) ==
  /\ Running
  /\ starting[s] = "idle" /\ \A r \in 1..(s - 1) : starting[r] # "idle"
  /\ MayStart
  /\ overlapped' = (overlapped \/ OverlapsStart(s))
  /\ IF connected
     THEN StartTail(s) /\ starting' = [starting EXCEPT ![s] = "done"]
     ELSE /\ starting' = [starting EXCEPT ![s] = "connecting"]
          /\ KeepStatus /\ UNCHANGED <<looping, task, loop>>
  /\ UNCHANGED <<connected, kill, cancelling, left, current, stops, placed, main,
                 keys, faults, idleDisarm, cut, missed>>

StartConnected(s) ==
  /\ Running
  /\ starting[s] = "connecting"
  /\ starting' = [starting EXCEPT ![s] = "done"]
  /\ connected' = TRUE
  /\ StartTail(s)
  /\ overlapped' = (overlapped \/ OverlapsStart(s))
  /\ UNCHANGED <<kill, cancelling, left, current, stops, placed, main,
                 keys, faults, idleDisarm, cut, missed>>

StartFails(s) ==
  /\ Running
  /\ starting[s] = "connecting"
  /\ GatewayFails
  /\ starting' = [starting EXCEPT ![s] = "done"]
  /\ UNCHANGED <<control, connected, kill, loops, stops, placed, main,
                 keys, overlapped, idleDisarm, cut, missed, panicked, late>>

-----------------------------------------------------------------------------
(* The commands without an await: the keys SPACE, K and R, or a caller.    *)
(* The key R ("Re-Arm Risk") disarms.                                      *)
Key == Running /\ keys < MaxKeys /\ keys' = keys + 1

Pause ==
  /\ Key
  /\ status = "RUNNING"
  /\ SetStatus("PAUSED")
  /\ UNCHANGED <<looping, task, connected, kill, starting, loops, stops, placed, main,
                 faults, overlapped, idleDisarm, cut, missed>>

Resume ==
  /\ Key
  /\ kill # "PANIC_TRIGGERED"
  /\ status = "PAUSED"
  /\ SetStatus("RUNNING")
  /\ UNCHANGED <<looping, task, connected, kill, starting, loops, stops, placed, main,
                 faults, overlapped, idleDisarm, cut, missed>>

(* trigger_panic raises when the switch is disarmed, after the status was  *)
(* set; otherwise the switch is thrown before the first await.             *)
PanicKill ==
  /\ Key
  /\ SetStatus("PANIC_KILLED")
  /\ kill' = IF kill = "DISARMED" THEN kill ELSE "PANIC_TRIGGERED"
  /\ UNCHANGED <<looping, task, connected, starting, loops, stops, placed, main,
                 faults, overlapped, idleDisarm, cut, missed>>

Disarm ==
  /\ Key
  /\ kill' = "DISARMED"
  /\ SetStatus("PAUSED")
  /\ idleDisarm' = (idleDisarm \/ ~looping)
  /\ UNCHANGED <<looping, task, connected, starting, loops, stops, placed, main,
                 faults, overlapped, cut, missed>>

(* arm or reset, through the risk service.  A loop that still awaits the   *)
(* sweep of its own breach never sees that the switch was thrown.          *)
Rearm ==
  /\ Key
  /\ kill' = "ARMED_STANDBY"
  /\ panicked' = (panicked /\ \A s \in Starters : loop[s] # "panic")
  /\ UNCHANGED <<status, late>>
  /\ UNCHANGED <<looping, task, connected, starting, loops, stops, placed, main,
                 faults, overlapped, idleDisarm, cut, missed>>

-----------------------------------------------------------------------------
(* The loop task: step_cycle, then a sleep.  The rebalancing goes on       *)
(* without an await until an order is routed; a symbol within its          *)
(* threshold, one the firewall refuses, and every symbol while the switch  *)
(* is thrown, is passed over.  n symbols are to go, book is order as the   *)
(* answer before has left it.                                              *)
Rebalance(s, n, book) ==
  \/ /\ loop' = [loop EXCEPT ![s] = "ready"]
     /\ left' = [left EXCEPT ![s] = 0]
     /\ current' = [current EXCEPT ![s] = NoTask]
     /\ placed' = book
     /\ KeepStatus
  \/ \E m \in 0..(n - 1), o \in SessionOrders :
       /\ kill # "PANIC_TRIGGERED"
       /\ book[o] = "new" /\ \A p \in 1..(o - 1) : book[p] # "new"
       /\ placed' = [book EXCEPT ![o] = "sending"]
       /\ loop' = [loop EXCEPT ![s] = "sending"]
       /\ left' = [left EXCEPT ![s] = m]
       /\ current' = [current EXCEPT ![s] = o]
       /\ late' = IF status = "RUNNING" /\ ~panicked THEN late ELSE late + 1
       /\ UNCHANGED <<status, panicked>>

(* After the prices: a thrown switch is noticed, and only a RUNNING session*)
(* trades.                                                                 *)
AfterPrices(s) ==
  \/ /\ status = "RUNNING" /\ kill # "PANIC_TRIGGERED"
     /\ Rebalance(s, NumSymbols, placed)
  \/ /\ status # "RUNNING" \/ kill = "PANIC_TRIGGERED"
     /\ SetStatus(IF status = "RUNNING" THEN "PANIC_KILLED" ELSE status)
     /\ loop' = [loop EXCEPT ![s] = "ready"]
     /\ UNCHANGED <<left, current, placed>>

MayStep(s) == Running /\ s \notin cancelling

(* Wake up, look at the flag, and run a cycle with harmless prices.        *)
Cycle(s) ==
  /\ MayStep(s)
  /\ loop[s] = "ready"
  /\ looping
  /\ AfterPrices(s)
  /\ UNCHANGED <<looping, task, connected, kill, starting, cancelling, stops, main,
                 keys, faults, overlapped, idleDisarm, cut, missed>>

(* A price breaches the drawdown: update_market_price throws the switch and*)
(* awaits the sweep.  With the switch disarmed the exception ends the      *)
(* cycle, with the switch already thrown nothing happens (Cycle).          *)
CycleBreach(s) ==
  /\ MayStep(s)
  /\ loop[s] = "ready"
  /\ looping
  /\ keys < MaxKeys /\ keys' = keys + 1
  /\ kill \in {"ARMED_STANDBY", "DISARMED"}
  /\ IF kill = "ARMED_STANDBY"
     THEN /\ kill' = "PANIC_TRIGGERED" /\ panicked' = TRUE
          /\ loop' = [loop EXCEPT ![s] = "panic"]
     ELSE UNCHANGED <<kill, panicked, loop>>
  /\ UNCHANGED <<status, late>>
  /\ UNCHANGED <<looping, task, connected, starting, cancelling, left, current, stops, placed, main,
                 faults, overlapped, idleDisarm, cut, missed>>

SweepReturns(s) ==
  /\ MayStep(s)
  /\ loop[s] = "panic"
  /\ AfterPrices(s)
  /\ UNCHANGED <<looping, task, connected, kill, starting, cancelling, stops, main,
                 keys, faults, overlapped, idleDisarm, cut, missed>>

(* The gateway answers: the order works, is filled or refused, and the loop*)
(* goes on with the remaining symbols.                                     *)
Answered(s, outcome) ==
  /\ MayStep(s)
  /\ loop[s] = "sending"
  /\ Rebalance(s, left[s], [placed EXCEPT ![current[s]] = outcome])
  /\ UNCHANGED <<looping, task, connected, kill, starting, cancelling, stops, main,
                 keys, faults, overlapped, idleDisarm, cut, missed>>

(* The while test fails, or the cancellation arrives at the await the loop *)
(* is in; an order under way may or may not reach the venue.               *)
LoopEnds(s) ==
  /\ Running
  /\ \/ s \in cancelling /\ Alive(s)
     \/ loop[s] = "ready" /\ ~looping
  /\ loop' = [loop EXCEPT ![s] = "done"]
  /\ placed' = IF loop[s] = "sending" THEN [placed EXCEPT ![current[s]] = "limbo"] ELSE placed
  /\ current' = [current EXCEPT ![s] = NoTask]
  /\ left' = [left EXCEPT ![s] = 0]
  /\ cancelling' = cancelling \ {s}
  /\ UNCHANGED <<control, connected, kill, starting, stops, main, sessionHistory>>

-----------------------------------------------------------------------------
(* stop, called by a signal handler, the key Q or the main coroutine.      *)
StopReturnsAtOnce == status \in {"STOPPING", "STOPPED"}

(* Faulty variant: only the flag is cleared, the sleeping task is awaited. *)
StopCallNoCancel(q) ==
  /\ Running
  /\ stopping[q] = "idle"
  /\ ~StopReturnsAtOnce
  /\ SetStatus("STOPPING")
  /\ UNCHANGED <<looping, cancelling>>
  /\ IF task # NoTask /\ Alive(task)
     THEN /\ joined' = [joined EXCEPT ![q] = task]
          /\ stopping' = [stopping EXCEPT ![q] = "join"]
     ELSE /\ stopping' = [stopping EXCEPT ![q] = "query"]
          /\ UNCHANGED joined
  /\ overlapped' = (overlapped \/ \E s \in Starters : starting[s] = "connecting")
  /\ UNCHANGED <<task, connected, kill, starting, loop, left, current, sweep, placed,
                 keys, faults, idleDisarm, cut, missed>>

StopCall(q) ==
  /\ Running
  /\ stopping[q] = "idle"
  /\ ~StopReturnsAtOnce
  /\ SetStatus("STOPPING")
  /\ looping' = FALSE
  /\ IF task # NoTask /\ Alive(task)
     THEN /\ cancelling' = cancelling \cup {task}
          /\ joined' = [joined EXCEPT ![q] = task]
          /\ stopping' = [stopping EXCEPT ![q] = "join"]
     ELSE /\ stopping' = [stopping EXCEPT ![q] = "query"]
          /\ UNCHANGED <<cancelling, joined>>
  /\ overlapped' = (overlapped \/ \E s \in Starters : starting[s] = "connecting")
  /\ UNCHANGED <<task, connected, kill, starting, loop, left, current, sweep, placed,
                 keys, faults, idleDisarm, cut, missed>>

StopStep(q, from, to) ==
  /\ Running
  /\ stopping[q] = from
  /\ stopping' = [stopping EXCEPT ![q] = to]

StopJoined(q) ==
  /\ StopStep(q, "join", "query")
  /\ loop[joined[q]] = "done"
  /\ joined' = [joined EXCEPT ![q] = NoTask]
  /\ UNCHANGED <<control, connected, kill, starting, loops, sweep, placed, main,
                 sessionHistory>>

StopQueried(q) ==
  /\ StopStep(q, "query", "cancel")
  /\ sweep' = [sweep EXCEPT ![q] = OpenOrders]
  /\ UNCHANGED <<control, connected, kill, starting, loops, joined, placed, main,
                 sessionHistory>>

StopQueryFails(q) ==
  /\ StopStep(q, "query", "cancel")
  /\ GatewayFails
  /\ missed' = missed \cup OpenOrders
  /\ UNCHANGED <<control, connected, kill, starting, loops, joined, sweep, placed, main,
                 keys, overlapped, idleDisarm, cut, panicked, late>>

StopCancels(q, o) ==
  /\ StopStep(q, "cancel", "cancel")
  /\ o \in sweep[q]
  /\ sweep' = [sweep EXCEPT ![q] = @ \ {o}]
  /\ placed' = IF placed[o] = "open" THEN [placed EXCEPT ![o] = "closed"] ELSE placed
  /\ UNCHANGED <<control, connected, kill, starting, loops, joined, main, sessionHistory>>

StopCancelFails(q, o) ==
  /\ StopStep(q, "cancel", "cancel")
  /\ o \in sweep[q]
  /\ GatewayFails
  /\ sweep' = [sweep EXCEPT ![q] = @ \ {o}]
  /\ missed' = missed \cup {o}
  /\ UNCHANGED <<control, connected, kill, starting, loops, joined, placed, main,
                 keys, overlapped, idleDisarm, cut, panicked, late>>

(* What the end of the program does: asyncio.run cancels every task left.  *)
Exit(others) ==
  /\ main' = "exited"
  /\ cut' = (cut \/ \E q \in others : Busy(q))
  /\ loop' = [s \in Starters |-> IF Alive(s) THEN "done" ELSE loop[s]]
  /\ placed' = [o \in SessionOrders |-> IF placed[o] = "sending" THEN "limbo" ELSE placed[o]]

(* The last cancellation is answered, and so is the disconnect.  The main  *)
(* coroutine returns with its own stop.                                    *)
StopEnds(q) ==
  /\ StopStep(q, "cancel", "done")
  /\ sweep[q] = {}
  /\ \/ connected' = FALSE /\ UNCHANGED faults
     \/ connected /\ GatewayFails /\ UNCHANGED connected
  /\ SetStatus("STOPPED")
  /\ IF q = Main THEN Exit(Stoppers) ELSE UNCHANGED <<main, cut, loop, placed>>
  /\ UNCHANGED <<looping, task, kill, starting, cancelling, left, current, joined, sweep,
                 keys, overlapped, idleDisarm, missed>>

-----------------------------------------------------------------------------
(* async_main awaits start and looks at the status every 0.1s.  The session*)
(* left the watched statuses, or max_iterations were run: the teardown     *)
(* calls stop, or finds that another call has begun and returns.           *)
MainLeaves ==
  /\ main = "watch"
  /\ \E s \in Starters : loop[s] # "none"
  /\ \/ StopCall(Main) /\ main' = "teardown"
     \/ /\ StopReturnsAtOnce
        /\ Exit(Stoppers)
        /\ UNCHANGED <<control, connected, kill, starting, cancelling, left, current, stops,
                       keys, faults, overlapped, idleDisarm, missed, panicked, late>>

-----------------------------------------------------------------------------
(* The venue fills, refuses or cancels (a panic sweep asks for that) an    *)
(* order that works or whose submission was cut off.                       *)
VenueCloses(o) ==
  /\ Running
  /\ placed[o] \in {"open", "limbo"}
  /\ placed' = [placed EXCEPT ![o] = "closed"]
  /\ UNCHANGED <<control, connected, kill, starting, loops, stops, main, sessionHistory>>

-----------------------------------------------------------------------------
SessionNext ==
  \/ \E s \in Starters :
       \/ StartCall(s) \/ StartConnected(s) \/ StartFails(s)
       \/ Cycle(s) \/ CycleBreach(s) \/ SweepReturns(s) \/ LoopEnds(s)
       \/ \E outcome \in {"open", "closed"} : Answered(s, outcome)
  \/ Pause \/ Resume \/ PanicKill \/ Disarm \/ Rearm
  \/ \E q \in Stoppers : StopCall(q) /\ UNCHANGED main
  \/ \E q \in Stops :
       \/ StopJoined(q) \/ StopQueried(q) \/ StopQueryFails(q)
       \/ \E o \in SessionOrders : StopCancels(q, o) \/ StopCancelFails(q, o)
       \/ StopEnds(q)
  \/ MainLeaves
  \/ \E o \in SessionOrders : VenueCloses(o)

(* An awaited task goes on when what it awaits is there, and the gateway   *)
(* answers.                                                                *)
SessionFairness ==
  /\ \A s \in Starters :
       /\ WF_sessionVars(LoopEnds(s))
       /\ WF_sessionVars(StartConnected(s))
  /\ \A q \in Stops :
       WF_sessionVars(\/ StopJoined(q) \/ StopQueried(q) \/ StopEnds(q)
                      \/ \E o \in SessionOrders : StopCancels(q, o))

SessionSpec == SessionInit /\ [][SessionNext]_sessionVars /\ SessionFairness

-----------------------------------------------------------------------------
SessionTypeOK ==
  /\ status \in {"INITIALIZING", "RUNNING", "PAUSED", "STOPPING", "STOPPED", "PANIC_KILLED"}
  /\ looping \in BOOLEAN /\ task \in Starters \cup {NoTask}
  /\ connected \in BOOLEAN
  /\ kill \in {"ARMED_STANDBY", "PANIC_TRIGGERED", "DISARMED"}
  /\ starting \in [Starters -> {"idle", "connecting", "done"}]
  /\ loop \in [Starters -> {"none", "ready", "panic", "sending", "done"}]
  /\ cancelling \subseteq Starters
  /\ left \in [Starters -> 0..(NumSymbols - 1)]
  /\ current \in [Starters -> SessionOrders \cup {NoTask}]
  /\ stopping \in [Stops -> {"idle", "join", "query", "cancel", "done"}]
  /\ joined \in [Stops -> Starters \cup {NoTask}]
  /\ sweep \in [Stops -> SUBSET SessionOrders]
  /\ placed \in [SessionOrders -> {"new", "sending", "limbo", "open", "closed"}]
  /\ main \in {"watch", "teardown", "exited"}

(* At most one trading loop is alive and _loop_task names it, so stop can  *)
(* reach it: unless a start overlapped another start or a stop.            *)
OneLoop ==
  ~overlapped => \A s \in Starters : Alive(s) => s = task

(* INV-LIVE-004 as far as it holds: in a stopped session no loop is alive  *)
(* to send another order and no order works, unless a start overlapped, a  *)
(* gateway call failed, or the order's submission was cut off.             *)
StoppedIsQuiet ==
  status = "STOPPED" /\ ~overlapped =>
    /\ \A s \in Starters : ~Alive(s)
    /\ \A o \in SessionOrders : placed[o] \notin {"new", "limbo"} =>
         o \in missed \/ placed[o] = "closed"

(* The program never ends with a working order that no stop tried to       *)
(* cancel, unless the end itself cancelled a stop under way.               *)
ExitIsClean ==
  main = "exited" /\ ~overlapped /\ ~cut => OpenOrders \subseteq missed

(* Pausing, stopping or killing the session lets the cycle under way       *)
(* finish: it sends at most one order for each of its remaining symbols.   *)
(* After a breach nothing more is sent until an operator resumes or starts *)
(* the session, even if the switch is re-armed: unless it is re-armed while*)
(* the loop awaits its sweep, which then trades on as if nothing had been. *)
LateOrdersBounded ==
  ~overlapped => late <= NumSymbols - 1

(* A session that says RUNNING has a loop, so start's refusal is right:    *)
(* unless a start overlapped, or disarm (which always says PAUSED, and so  *)
(* allows resume) was called when no loop was alive.                       *)
RunningHasLoop ==
  status = "RUNNING" /\ ~overlapped /\ ~idleDisarm /\ Running => \E s \in Starters : Alive(s)

(* The session keeps hold of its trading loop and of its orders: one loop  *)
(* that stop can reach, no order left or sent behind a stop, a pause or    *)
(* the end of the program, but for the races and failures the parts name.  *)
SessionControlled ==
  /\ SessionTypeOK
  /\ OneLoop
  /\ RunningHasLoop
  /\ StoppedIsQuiet
  /\ ExitIsClean
  /\ LateOrdersBounded

(* Every stop comes to an end, whatever the loop was awaiting when it was  *)
(* cancelled and whatever the operator does meanwhile.                     *)
StopTerminates ==
  (\E q \in Stops : Busy(q)) ~> (~Running \/ \A q \in Stops : ~Busy(q))
=============================================================================
