----------------------------- MODULE KillSwitch -----------------------------
(***************************************************************************)
(* EmergencyKillSwitch (execution/kill_switch.py) with the two ways orders *)
(* meet it: RiskOrchestrator.route_order, which asks validate_submission   *)
(* and then awaits the gateway, and the gateways whose open orders the     *)
(* panic sweep cancels.                                                    *)
(*                                                                         *)
(* trigger_panic is a coroutine: it runs its critical section under an     *)
(* asyncio.Lock and awaits the scheduler hooks, one query per gateway, one *)
(* cancellation per order, the flattening orders and the listeners.        *)
(* Between two awaits nothing else runs.  An await may also end in the     *)
(* cancellation of the task (Abort).                                       *)
(***************************************************************************)
EXTENDS Integers, FiniteSets

CONSTANTS
  Triggers,     \* calls of trigger_panic
  Orders,       \* orders of one lot
  Gateways,
  GatewayOf,    \* order -> gateway
  SideOf,       \* order -> 1 (BUY) or -1 (SELL)
  ModeOf,       \* trigger -> "CANCEL_ONLY" or "CANCEL_AND_FLATTEN"
  InitialState, \* the constructor's initial_state
  MaxFaults,    \* bound: task cancellations, gateways leaving or returning
  MaxPanics,    \* bound: panics started
  None

ASSUME KillSwitchAssumption ==
  /\ GatewayOf \in [Orders -> Gateways]
  /\ SideOf \in [Orders -> {1, -1}]
  /\ ModeOf \in [Triggers -> {"CANCEL_ONLY", "CANCEL_AND_FLATTEN"}]
  /\ InitialState \in {"ARMED_STANDBY", "PANIC_TRIGGERED", "DISARMED"}
  /\ MaxFaults \in Nat
  /\ MaxPanics \in Nat
  /\ IsFiniteSet(Gateways)
  /\ None \notin Triggers \cup Nat
  /\ None \notin {"hooks", "fetch", "cancel", "flatten", "submit", "notify"}

VARIABLES
  state,       \* _state
  registered,  \* the keys of _gateways
  lastEvent,   \* _last_event: None, or the number of the panic it reports
  lock,        \* the trigger holding _lock, or None
  caller,      \* where each trigger call is
  result,      \* the event a finished trigger call returned
  life,        \* each order: idle, routing, open, filled, cancelled, failed
  position     \* the net position at each gateway

(* The local variables of the one running sweep.                           *)
VARIABLES
  phase,    \* hooks, fetch, cancel, flatten, submit, notify, or None
  todo,     \* gateways (fetch, flatten, submit) or orders (cancel) to go
  found,    \* the orders to cancel
  size,     \* the size of _gateways when the flattening loop began
  flat      \* gateway -> total of the flattening orders, 0 if none

(* History.                                                                *)
VARIABLES
  panics,     \* panics started so far; the current one has this number
  atPanic,    \* orders open when the current panic started
  inFlight,   \* orders already past validate_submission at that moment
  missed,     \* orders the sweep could not reach: gateway or cancel failed
  disturbed,  \* gateways where a fill came after their flatten read
  faults      \* faults so far

sweep   == <<phase, todo, found, size, flat>>
history == <<panics, atPanic, inFlight, missed, disturbed, faults>>
vars == <<state, registered, lastEvent, lock, caller, result, life, position,
          sweep, history>>

Open == {o \in Orders : life[o] = "open"}
OpenAt(g) == {o \in Open : GatewayOf[o] = g}
NoPositions == [g \in Gateways |-> 0]

Init ==
  /\ state = InitialState
  /\ registered = Gateways
  /\ lastEvent = None
  /\ lock = None
  /\ caller = [t \in Triggers |-> "idle"]
  /\ result = [t \in Triggers |-> None]
  /\ life = [o \in Orders |-> "idle"]
  /\ position = NoPositions
  /\ phase = None /\ todo = {} /\ found = {} /\ size = 0 /\ flat = NoPositions
  /\ panics = 0 /\ atPanic = {} /\ inFlight = {} /\ missed = {} /\ disturbed = {}
  /\ faults = 0

-----------------------------------------------------------------------------
(* Orders: route_order passes validate_submission and the order then spends*)
(* the gateway's latency before it rests, fills or fails.                  *)
RouteUnchecked(o) ==
  /\ life[o] = "idle"
  /\ GatewayOf[o] \in registered
  /\ life' = [life EXCEPT ![o] = "routing"]
  /\ UNCHANGED <<state, registered, lastEvent, lock, caller, result, position, sweep, history>>

Route(o) ==
  /\ life[o] = "idle"
  /\ state # "PANIC_TRIGGERED"
  /\ GatewayOf[o] \in registered
  /\ life' = [life EXCEPT ![o] = "routing"]
  /\ UNCHANGED <<state, registered, lastEvent, lock, caller, result, position, sweep, history>>

Booked(o) ==
  /\ life' = [life EXCEPT ![o] = "filled"]
  /\ position' = [position EXCEPT ![GatewayOf[o]] = @ + SideOf[o]]
  /\ disturbed' = IF lock = None THEN disturbed ELSE disturbed \cup {GatewayOf[o]}
  /\ UNCHANGED <<state, registered, lastEvent, lock, caller, result, sweep,
                 panics, atPanic, inFlight, missed, faults>>

Land(o) ==
  /\ life[o] = "routing"
  /\ \/ \E s \in {"open", "failed"} :
          /\ life' = [life EXCEPT ![o] = s]
          /\ UNCHANGED <<state, registered, lastEvent, lock, caller, result, position,
                         sweep, history>>
     \/ Booked(o)

Fill(o) == life[o] = "open" /\ Booked(o)

-----------------------------------------------------------------------------
(* reset and arm (back to standby) and disarm: an admin token suffices, in *)
(* any state, without the lock.                                            *)
Operate(s) ==
  /\ state # s
  /\ state' = s
  /\ UNCHANGED <<registered, lastEvent, lock, caller, result, life, position, sweep, history>>

Fault == faults < MaxFaults /\ faults' = faults + 1

(* The gateways come and go.  The flattening loop iterates over the dict   *)
(* itself: a new key is appended and will be visited, a deleted one not.   *)
RegisterGateway(g) ==
  /\ g \notin registered /\ Fault
  /\ registered' = registered \cup {g}
  /\ todo' = IF phase = "flatten" THEN todo \cup {g} ELSE todo
  /\ disturbed' = IF lock = None THEN disturbed ELSE disturbed \cup {g}
  /\ UNCHANGED <<state, lastEvent, lock, caller, result, life, position,
                 phase, found, size, flat, panics, atPanic, inFlight, missed>>

UnregisterGateway(g) ==
  /\ g \in registered /\ Fault
  /\ registered' = registered \ {g}
  /\ todo' = IF phase = "flatten" THEN todo \ {g} ELSE todo
  /\ UNCHANGED <<state, lastEvent, lock, caller, result, life, position,
                 phase, found, size, flat,
                 panics, atPanic, inFlight, missed, disturbed>>

-----------------------------------------------------------------------------
(* trigger_panic up to the lock.                                           *)
Call(t) ==
  /\ caller[t] = "idle"
  /\ caller' = [caller EXCEPT ![t] = "waiting"]
  /\ UNCHANGED <<state, registered, lastEvent, lock, result, life, position, sweep, history>>

(* The lock is free and the call returns or raises at once: the switch is  *)
(* disarmed, or a panic was already triggered.                             *)
EnterAndLeave(t) ==
  /\ caller[t] = "waiting" /\ lock = None
  /\ \/ /\ state = "DISARMED"
        /\ caller' = [caller EXCEPT ![t] = "raised"]
        /\ UNCHANGED result
     \/ /\ state = "PANIC_TRIGGERED" /\ lastEvent = None
        /\ caller' = [caller EXCEPT ![t] = "asserted"]
        /\ UNCHANGED result
     \/ /\ state = "PANIC_TRIGGERED" /\ lastEvent # None
        /\ caller' = [caller EXCEPT ![t] = "returned"]
        /\ result' = [result EXCEPT ![t] = lastEvent]
  /\ UNCHANGED <<state, registered, lastEvent, lock, life, position, sweep, history>>

Enter(t) ==
  /\ caller[t] = "waiting" /\ lock = None
  /\ state = "ARMED_STANDBY"
  /\ panics < MaxPanics
  /\ state' = "PANIC_TRIGGERED"
  /\ lock' = t
  /\ caller' = [caller EXCEPT ![t] = "sweeping"]
  /\ phase' = "hooks" /\ todo' = {} /\ found' = {} /\ size' = 0 /\ flat' = NoPositions
  /\ panics' = panics + 1
  /\ atPanic' = Open
  /\ inFlight' = {o \in Orders : life[o] = "routing"}
  /\ missed' = {} /\ disturbed' = {}
  /\ UNCHANGED <<registered, lastEvent, result, life, position, faults>>

(* The coroutine ends and its locals are gone.                             *)
SweepOver ==
  /\ phase' = None /\ todo' = {} /\ found' = {} /\ size' = 0 /\ flat' = NoPositions
  /\ disturbed' = {}
  /\ UNCHANGED <<panics, atPanic, inFlight, missed>>

(* The outer state that no step of the sweep itself touches.               *)
Elsewhere == <<state, registered, lock, caller, result>>

(* Everything after the last cancellation that runs without an await: the  *)
(* event is stored and the listeners are called.                           *)
ReportFirstOnly ==
  /\ phase' = "notify" /\ todo' = {}
  /\ lastEvent' = IF lastEvent = None THEN panics ELSE lastEvent

Report ==
  /\ phase' = "notify" /\ todo' = {}
  /\ lastEvent' = panics

(* The hooks are done (their exceptions are ignored); query the gateways.  *)
Freeze ==
  /\ phase = "hooks"
  /\ phase' = "fetch" /\ todo' = registered
  /\ missed' = {o \in Orders : GatewayOf[o] \notin registered}
  /\ UNCHANGED <<Elsewhere, lastEvent, life, position, found, size, flat,
                 panics, atPanic, inFlight, disturbed, faults>>

Fetch(g) ==
  /\ phase = "fetch" /\ g \in todo
  /\ todo' = todo \ {g}
  /\ found' = found \cup OpenAt(g)
  /\ UNCHANGED <<Elsewhere, lastEvent, life, position, phase, size, flat, history>>

(* The query raised or timed out: the gateway is left out of the sweep.    *)
FetchFailed(g) ==
  /\ phase = "fetch" /\ g \in todo
  /\ todo' = todo \ {g}
  /\ missed' = missed \cup {o \in Orders : GatewayOf[o] = g}
  /\ UNCHANGED <<Elsewhere, lastEvent, life, position, phase, found, size, flat,
                 panics, atPanic, inFlight, disturbed, faults>>

(* All queries are done.  Orders of gateways that were unregistered        *)
(* meanwhile are dropped.                                                  *)
StartCancels ==
  /\ phase = "fetch" /\ todo = {}
  /\ phase' = "cancel"
  /\ todo' = {o \in found : GatewayOf[o] \in registered}
  /\ missed' = missed \cup {o \in Orders : GatewayOf[o] \notin registered}
  /\ UNCHANGED <<Elsewhere, lastEvent, life, position, found, size, flat,
                 panics, atPanic, inFlight, disturbed, faults>>

(* One cancellation succeeds or comes too late.                            *)
Cancel(o) ==
  /\ phase = "cancel" /\ o \in todo
  /\ todo' = todo \ {o}
  /\ life' = [life EXCEPT ![o] = IF @ = "open" THEN "cancelled" ELSE @]
  /\ UNCHANGED <<Elsewhere, lastEvent, position, phase, found, size, flat, history>>

(* It raises or times out; after a timeout the venue may still have        *)
(* cancelled the order.                                                    *)
CancelFailed(o) ==
  /\ phase = "cancel" /\ o \in todo
  /\ todo' = todo \ {o}
  /\ missed' = missed \cup {o}
  /\ life' \in {life, [life EXCEPT ![o] = IF @ = "open" THEN "cancelled" ELSE @]}
  /\ UNCHANGED <<Elsewhere, lastEvent, position, phase, found, size, flat,
                 panics, atPanic, inFlight, disturbed, faults>>

FinishCancels ==
  /\ phase = "cancel" /\ todo = {}
  /\ \/ /\ ModeOf[lock] = "CANCEL_ONLY"
        /\ Report
        /\ UNCHANGED size
     \/ /\ ModeOf[lock] = "CANCEL_AND_FLATTEN"
        /\ phase' = "flatten" /\ todo' = registered
        /\ size' = Cardinality(registered)
        /\ UNCHANGED lastEvent
  /\ UNCHANGED <<Elsewhere, life, position, found, flat, history>>

(* The loop over _gateways with an await in its body: reads a position and *)
(* prepares an order, or skips a gateway whose query failed.  A gateway    *)
(* that left and came back is visited twice.                               *)
ReadPosition(g) ==
  /\ phase = "flatten" /\ g \in todo
  /\ Cardinality(registered) = size
  /\ todo' = todo \ {g}
  /\ \/ /\ flat' = [flat EXCEPT ![g] = @ + position[g]]
        /\ disturbed' = IF flat[g] = 0 THEN disturbed \ {g} ELSE disturbed \cup {g}
     \/ UNCHANGED flat /\ disturbed' = disturbed \cup {g}
  /\ UNCHANGED <<Elsewhere, lastEvent, life, position, phase, found, size,
                 panics, atPanic, inFlight, missed, faults>>

StartFlattening ==
  /\ phase = "flatten" /\ todo = {}
  /\ Cardinality(registered) = size
  /\ phase' = "submit" /\ todo' = {g \in Gateways : flat[g] # 0}
  /\ UNCHANGED <<Elsewhere, lastEvent, life, position, found, size, flat, history>>

(* "dictionary changed size during iteration" leaves trigger_panic: the    *)
(* lock is released and no event is stored.                                *)
FlattenCrash ==
  /\ phase = "flatten"
  /\ Cardinality(registered) # size
  /\ SweepOver
  /\ lock' = None
  /\ caller' = [caller EXCEPT ![lock] = "raised"]
  /\ UNCHANGED <<state, registered, lastEvent, result, life, position, faults>>

(* The flattening orders of a gateway fill at once, or fail (and after a   *)
(* timeout may still have filled); they go to it directly and so bypass the*)
(* lockout.                                                                *)
Flatten(g) ==
  /\ phase = "submit" /\ g \in todo
  /\ todo' = todo \ {g}
  /\ \/ position' = [position EXCEPT ![g] = @ - flat[g]] /\ UNCHANGED disturbed
     \/ /\ position' \in {position, [position EXCEPT ![g] = @ - flat[g]]}
        /\ disturbed' = disturbed \cup {g}
  /\ UNCHANGED <<Elsewhere, lastEvent, life, phase, found, size, flat,
                 panics, atPanic, inFlight, missed, faults>>

FinishFlattening ==
  /\ phase = "submit" /\ todo = {}
  /\ Report
  /\ UNCHANGED <<Elsewhere, life, position, found, size, flat, history>>

NotifiedKeepsLock ==
  /\ phase = "notify"
  /\ SweepOver
  /\ caller' = [caller EXCEPT ![lock] = "returned"]
  /\ result' = [result EXCEPT ![lock] = lastEvent]
  /\ UNCHANGED <<state, registered, lastEvent, lock, life, position, faults>>

Notified ==
  /\ phase = "notify"
  /\ SweepOver
  /\ lock' = None
  /\ caller' = [caller EXCEPT ![lock] = "returned"]
  /\ result' = [result EXCEPT ![lock] = lastEvent]
  /\ UNCHANGED <<state, registered, lastEvent, life, position, faults>>

(* The task is cancelled at an await: the lock is released, no event is    *)
(* stored, and the state stays PANIC_TRIGGERED.                            *)
Abort ==
  /\ lock # None /\ Fault
  /\ SweepOver
  /\ lock' = None
  /\ caller' = [caller EXCEPT ![lock] = "aborted"]
  /\ UNCHANGED <<state, registered, lastEvent, result, life, position>>

-----------------------------------------------------------------------------
SweepStep ==
  \/ Freeze \/ StartCancels \/ FinishCancels
  \/ StartFlattening \/ FlattenCrash \/ FinishFlattening \/ Notified
  \/ \E g \in Gateways : Fetch(g) \/ FetchFailed(g) \/ ReadPosition(g) \/ Flatten(g)
  \/ \E o \in Orders : Cancel(o) \/ CancelFailed(o)

Next ==
  \/ \E o \in Orders : Route(o) \/ Land(o) \/ Fill(o)
  \/ \E s \in {"ARMED_STANDBY", "DISARMED"} : Operate(s)
  \/ \E g \in Gateways : RegisterGateway(g) \/ UnregisterGateway(g)
  \/ \E t \in Triggers : Call(t) \/ EnterAndLeave(t) \/ Enter(t)
  \/ SweepStep
  \/ Abort

Spec == Init /\ [][Next]_vars

(* Timeouts bound every gateway call of the sweep and the lock passes on;  *)
(* that hooks and listeners come back is assumed, the code does not bound  *)
(* them.                                                                   *)
FairSpec ==
  /\ Spec
  /\ WF_vars(SweepStep)
  /\ \A t \in Triggers : WF_vars(EnterAndLeave(t) \/ Enter(t))

-----------------------------------------------------------------------------
TypeOK ==
  /\ state \in {"ARMED_STANDBY", "PANIC_TRIGGERED", "DISARMED"}
  /\ registered \subseteq Gateways
  /\ lastEvent \in {None} \cup 1..MaxPanics
  /\ lock \in {None} \cup Triggers
  /\ caller \in [Triggers -> {"idle", "waiting", "sweeping", "returned", "raised",
                              "asserted", "aborted"}]
  /\ result \in [Triggers -> {None} \cup 1..MaxPanics]
  /\ life \in [Orders -> {"idle", "routing", "open", "filled", "cancelled", "failed"}]
  /\ position \in [Gateways -> Int] /\ flat \in [Gateways -> Int]
  /\ size \in 0..Cardinality(Gateways)
  /\ phase \in {None, "hooks", "fetch", "cancel", "flatten", "submit", "notify"}
  /\ (phase = None) <=> (lock = None)
  /\ panics \in 0..MaxPanics
  /\ faults \in 0..MaxFaults
  /\ atPanic \cup inFlight \cup missed \cup found \subseteq Orders

(* INV-RSK-008: the sweep spares no order that was resting when the panic  *)
(* began, unless its gateway or its own cancellation failed.               *)
SweepCoversOpen ==
  phase \in {"flatten", "submit", "notify"} =>
    atPanic \cap Open \subseteq missed

(* After a completed panic, and until an operator resets the switch, every *)
(* order still open is explained: it had passed validate_submission before *)
(* the panic, or the sweep failed to reach it.  Nothing else got through.  *)
SurvivorsExplained ==
  state = "PANIC_TRIGGERED" /\ lock = None /\ lastEvent = panics =>
    Open \subseteq inFlight \cup missed

(* Flattening leaves a gateway flat unless a fill raced the flattening     *)
(* order or a call to that gateway failed.                                 *)
FlattenLeavesFlat ==
  phase = "notify" /\ ModeOf[lock] = "CANCEL_AND_FLATTEN" =>
    \A g \in registered \ disturbed : position[g] = 0

(* A panic reaches every open order and position (INV-RSK-008): what is    *)
(* left after it had passed validate_submission before, raced the          *)
(* flattening, or is at a gateway that failed.                             *)
PanicSweeps ==
  /\ TypeOK
  /\ SweepCoversOpen
  /\ SurvivorsExplained
  /\ FlattenLeavesFlat

(* As long as no sweep dies half-way, the event handed to a late caller is *)
(* the one of the panic in force, never an older one.                      *)
EventOfThisPanic ==
  state = "PANIC_TRIGGERED" /\ lock = None => lastEvent = panics

(* A call of trigger_panic is never stuck behind another one: it always    *)
(* ends, even if gateways hang and several calls race.                     *)
TriggerEnds ==
  \A t \in Triggers :
    caller[t] = "waiting" ~> caller[t] \in {"returned", "raised", "asserted"}

(* "assert self._last_event is not None" in trigger_panic: a call that     *)
(* finds the panic already triggered finds its event too.                  *)
PanicHasEvent == \A t \in Triggers : caller[t] # "asserted"
=============================================================================
