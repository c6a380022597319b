--------------------------- MODULE GatewayRegistry ---------------------------
(***************************************************************************)
(* The gateways of RiskOrchestrator (execution/risk_orchestrator.py): which*)
(* ones orders may be routed to, which one is the default, which watchdog  *)
(* watches them, and what a watchdog's disconnect does.  The orchestrator  *)
(* starts as api/dependencies.py builds it.                                *)
(*                                                                         *)
(* Registration and a liveness check are synchronous; the panic of a lost  *)
(* connection is a background task that runs later.  What the panic then   *)
(* does is in KillSwitch, how a watchdog decides in HeartbeatWatchdog.     *)
(***************************************************************************)
EXTENDS Integers, SequencesExt

CONSTANTS
  GatewayIds,       \* names gateways are registered under
  Gateways,         \* gateway objects
  Watchdogs,        \* watchdog objects
  NoWatchdog, NoId, \* None
  PAPER, ALPACA,    \* the two the application registers
  MaxRegistrations, \* bound: calls of register_gateway
  MaxAdmin          \* bound: operator commands, losses, heartbeats, routed orders

ASSUME RegistryAssumption ==
  /\ {PAPER, ALPACA} \subseteq GatewayIds /\ NoId \notin GatewayIds
  /\ {PAPER, ALPACA} \subseteq Gateways /\ PAPER # ALPACA /\ NoWatchdog \notin Watchdogs
  /\ MaxRegistrations \in Nat /\ MaxAdmin \in Nat

Callbacks == 1..MaxRegistrations

VARIABLES
  registered,   \* _gateways: its keys in insertion order
  gatewayOf,    \* _gateways: its values
  swept,        \* the kill switch's own dictionary
  defaultId,    \* _default_gateway_id
  watchdogOf,   \* _watchdogs
  callbackOf,   \* _disconnect_callbacks: the registration that made each one
  listeners,    \* each watchdog's disconnect listeners
  lost,         \* watchdogs whose status is DISCONNECTED
  panics,       \* background tasks not yet run
  switch        \* the kill switch

(* History.                                                                *)
VARIABLES
  registrations, admin,
  superseded,   \* callbacks whose id was registered again with a watchdog
  heard,        \* losses that found a listener, with the switch not disarmed,
                \* and no operator command since
  used,         \* gateways orders have been routed to
  dropped       \* gateways unregistered or replaced since

registryHistory == <<registrations, admin, superseded, heard, used, dropped>>
registryVars == <<registered, gatewayOf, swept, defaultId, watchdogOf, callbackOf, listeners, lost,
                  panics, switch, registryHistory>>

NoCallback == 0
Registered(i) == Contains(registered, i)
Admin == admin < MaxAdmin /\ admin' = admin + 1

(* get_risk_orchestrator: the paper gateway and, with a live broker, the   *)
(* live one, each with a watchdog of its own.                              *)
RegistryInit ==
  \E wd \in [{PAPER, ALPACA} -> Watchdogs], live \in BOOLEAN :
    LET ids == IF live THEN <<PAPER, ALPACA>> ELSE <<PAPER>>
        first == [i \in GatewayIds |-> IF i \in ToSet(ids) THEN i ELSE NoId]
    IN /\ wd[PAPER] # wd[ALPACA]
       /\ registered = ids
       /\ gatewayOf = first
       /\ swept = first
       /\ defaultId = Last(ids)
       /\ watchdogOf = [i \in GatewayIds |-> IF i \in ToSet(ids) THEN wd[i] ELSE NoWatchdog]
       /\ callbackOf = [i \in GatewayIds |-> IF i \in ToSet(ids) THEN (IF i = PAPER THEN 1 ELSE 2) ELSE NoCallback]
       /\ listeners = [w \in Watchdogs |-> {callbackOf[i] : i \in {j \in ToSet(ids) : wd[j] = w}}]
       /\ lost = {} /\ panics = {} /\ switch = "ARMED_STANDBY"
       /\ registrations = 2 /\ admin = 0
       /\ superseded = {} /\ heard = {} /\ used = {} /\ dropped = {}

-----------------------------------------------------------------------------
(* Faulty variant: an id the orchestrator knows is not registered again    *)
(* with the kill switch.                                                   *)
SweptAfterKnown(i, g) == IF Registered(i) THEN swept ELSE [swept EXCEPT ![i] = g]

SweptAfter(i, g) == [swept EXCEPT ![i] = g]

(* register_gateway.  A known id keeps its place in the dictionary; the    *)
(* callback of its previous watchdog stays where it is.                    *)
RegisterGateway(i, g, w, isDefault) ==
  /\ registrations < MaxRegistrations /\ registrations' = registrations + 1
  /\ swept' = SweptAfter(i, g)
  /\ registered' = IF Registered(i) THEN registered ELSE Append(registered, i)
  /\ gatewayOf' = [gatewayOf EXCEPT ![i] = g]
  /\ defaultId' = IF isDefault \/ defaultId = NoId THEN i ELSE defaultId
  /\ IF w = NoWatchdog THEN UNCHANGED <<watchdogOf, callbackOf, listeners, superseded>>
     ELSE /\ watchdogOf' = [watchdogOf EXCEPT ![i] = w]
          /\ callbackOf' = [callbackOf EXCEPT ![i] = registrations']
          /\ listeners' = [listeners EXCEPT ![w] = @ \cup {registrations'}]
          /\ superseded' = superseded \cup ({callbackOf[i]} \ {NoCallback})
  /\ dropped' = (dropped \cup ({gatewayOf[i]} \ {NoId})) \ {g}
  /\ UNCHANGED <<lost, panics, switch, admin, heard, used>>

(* The listener is removed from the watchdog that is current.              *)
Detach(i) ==
  listeners' = IF watchdogOf[i] = NoWatchdog THEN listeners
               ELSE [listeners EXCEPT ![watchdogOf[i]] = @ \ {callbackOf[i]}]

DefaultWithout(i, rest) ==
  IF defaultId # i THEN defaultId ELSE IF rest = <<>> THEN NoId ELSE Head(rest)

UnregisterGateway(i) ==
  /\ Admin
  /\ Registered(i)
  /\ \E k \in 1..Len(registered) :
       /\ registered[k] = i
       /\ registered' = RemoveAt(registered, k)
  /\ defaultId' = DefaultWithout(i, registered')
  /\ Detach(i)
  /\ gatewayOf' = [gatewayOf EXCEPT ![i] = NoId]
  /\ swept' = [swept EXCEPT ![i] = NoId]
  /\ watchdogOf' = [watchdogOf EXCEPT ![i] = NoWatchdog]
  /\ callbackOf' = [callbackOf EXCEPT ![i] = NoCallback]
  /\ dropped' = dropped \cup {gatewayOf[i]}
  /\ UNCHANGED <<lost, panics, switch, registrations, superseded, heard, used>>

SetDefaultGateway(i) ==
  /\ Admin
  /\ Registered(i)
  /\ defaultId' = i
  /\ UNCHANGED <<registered, gatewayOf, swept, watchdogOf, callbackOf, listeners, lost, panics, switch,
                 registrations, superseded, heard, used, dropped>>

(* _resolve_gateway, for a target or for None.                             *)
Resolve(target) ==
  IF target # NoId THEN gatewayOf[target]
  ELSE IF defaultId # NoId /\ Registered(defaultId) THEN gatewayOf[defaultId]
  ELSE IF registered # <<>> THEN gatewayOf[Head(registered)]
  ELSE NoId

(* route_order past the firewall: an unknown target raises.                *)
RouteTo(target) ==
  /\ Admin
  /\ switch # "PANIC_TRIGGERED"
  /\ Resolve(target) # NoId
  /\ used' = used \cup {Resolve(target)}
  /\ UNCHANGED <<registered, gatewayOf, swept, defaultId, watchdogOf, callbackOf, listeners, lost, panics,
                 switch, registrations, superseded, heard, dropped>>

-----------------------------------------------------------------------------
(* check_liveness finds the silence too long; only a change of the status  *)
(* calls the listeners, each of which creates a task.                      *)
CheckLiveness(w) ==
  /\ Admin
  /\ w \notin lost
  /\ lost' = lost \cup {w}
  /\ panics' = panics \cup listeners[w]
  /\ heard' = IF listeners[w] # {} /\ switch # "DISARMED" THEN heard \cup {w} ELSE heard
  /\ UNCHANGED <<registered, gatewayOf, swept, defaultId, watchdogOf, callbackOf, listeners, switch,
                 registrations, superseded, used, dropped>>

(* record_gateway_heartbeat, through the risk service: an id without a     *)
(* watchdog raises.                                                        *)
RecordGatewayHeartbeat(i) ==
  /\ Admin
  /\ watchdogOf[i] \in lost
  /\ lost' = lost \ {watchdogOf[i]}
  /\ heard' = heard \ {watchdogOf[i]}
  /\ UNCHANGED <<registered, gatewayOf, swept, defaultId, watchdogOf, callbackOf, listeners, panics, switch,
                 registrations, superseded, used, dropped>>

(* The background task: trigger_panic raises when the switch is disarmed,  *)
(* and the exception stays in the task.                                    *)
DisconnectPanic(c) ==
  /\ c \in panics
  /\ panics' = panics \ {c}
  /\ switch' = IF switch = "ARMED_STANDBY" THEN "PANIC_TRIGGERED" ELSE switch
  /\ UNCHANGED <<registered, gatewayOf, swept, defaultId, watchdogOf, callbackOf, listeners,
                 lost, registryHistory>>

(* handle_gateway_disconnect and trigger_emergency_panic.                  *)
EmergencyPanic ==
  /\ Admin
  /\ switch = "ARMED_STANDBY"
  /\ switch' = "PANIC_TRIGGERED"
  /\ UNCHANGED <<registered, gatewayOf, swept, defaultId, watchdogOf, callbackOf, listeners, lost, panics,
                 registrations, superseded, heard, used, dropped>>

(* reset, arm and disarm with the right token.                             *)
OperateSwitch(s) ==
  /\ Admin
  /\ switch' = s
  /\ heard' = {}
  /\ UNCHANGED <<registered, gatewayOf, swept, defaultId, watchdogOf, callbackOf, listeners, lost, panics,
                 registrations, superseded, used, dropped>>

-----------------------------------------------------------------------------
RegistryNext ==
  \/ /\ registrations < MaxRegistrations
     /\ \E i \in GatewayIds, g \in Gateways, w \in Watchdogs \cup {NoWatchdog}, b \in BOOLEAN :
          RegisterGateway(i, g, w, b)
  \/ \E i \in GatewayIds :
       UnregisterGateway(i) \/ SetDefaultGateway(i) \/ RecordGatewayHeartbeat(i)
  \/ \E i \in GatewayIds \cup {NoId} : RouteTo(i)
  \/ \E w \in Watchdogs : CheckLiveness(w)
  \/ \E c \in Callbacks : DisconnectPanic(c)
  \/ EmergencyPanic
  \/ \E s \in {"ARMED_STANDBY", "DISARMED"} : OperateSwitch(s)

RegistrySpec == RegistryInit /\ [][RegistryNext]_registryVars

-----------------------------------------------------------------------------
(* INV-ORC: an order without a target finds a gateway exactly when one is  *)
(* registered, and it is the default: register, unregister and             *)
(* set_default_gateway in any order never leave a default that is gone.    *)
DefaultIsRegistered ==
  IF registered = <<>> THEN defaultId = NoId ELSE Registered(defaultId)

(* A listener left on a watchdog belongs to a gateway that is registered   *)
(* with that watchdog, unless its id was registered again: register_gateway*)
(* forgets the first callback, unregister_gateway removes only the last.   *)
StrayListenersExplained ==
  \A w \in Watchdogs : \A c \in listeners[w] :
    \/ c \in superseded
    \/ \E i \in GatewayIds : Registered(i) /\ watchdogOf[i] = w /\ callbackOf[i] = c

(* A gateway that has been sent orders is in the kill switch's sweep until *)
(* it is unregistered or replaced under its id: then its working orders are*)
(* beyond the reach of a panic.                                            *)
UsedIsSwept ==
  \A g \in used \ dropped : \E i \in GatewayIds : swept[i] = g

(* A loss somebody listened to ends in a panic, whatever happens to the    *)
(* registration before the task runs: until an operator resets, arms or    *)
(* disarms the switch.                                                     *)
LossIsActedOn ==
  heard # {} => switch = "PANIC_TRIGGERED" \/ panics # {}

(* Registering and unregistering in any order leaves no default that is    *)
(* gone, no listener and no used gateway unaccounted for, and no lost      *)
(* connection without its panic.                                           *)
LinksUnderControl ==
  /\ DefaultIsRegistered
  /\ StrayListenersExplained
  /\ UsedIsSwept
  /\ LossIsActedOn
=============================================================================
