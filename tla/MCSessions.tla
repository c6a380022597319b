---------------------------- MODULE MCSessions ----------------------------
(* What runs in asyncio tasks of its own: the live session with its        *)
(* hotkeys, the autonomous trader, the circuit breaker and an order between*)
(* client and broker.  A behaviour moves one unit, which never changes.    *)
EXTENDS LiveSession, AutonomousTrader, CircuitBreaker, OrderLifecycle, TLC

(* Orders are interchangeable.                                             *)
OrderSymmetry == Permutations(Orders)

VARIABLE unit

sessionsVars == <<unit, sessionVars, traderVars, breakerVars, vars>>

SessionsInit ==
  /\ unit \in {"session", "trader", "breaker", "order"}
  /\ SessionInit /\ TraderInit /\ BreakerInit /\ Init

SessionsNext ==
  /\ UNCHANGED unit
  /\ \/ unit = "session" /\ SessionNext /\ UNCHANGED <<traderVars, breakerVars, vars>>
     \/ unit = "trader" /\ TraderNext /\ UNCHANGED <<sessionVars, breakerVars, vars>>
     \/ unit = "breaker" /\ BreakerNext /\ UNCHANGED <<sessionVars, traderVars, vars>>
     \/ unit = "order" /\ Next /\ UNCHANGED <<sessionVars, traderVars, breakerVars>>

SessionsSpec == SessionsInit /\ [][SessionsNext]_sessionsVars

(* With fairness, and reports delivered at least once.  The tasks of the   *)
(* units that stand still await nothing; only the breaker could move.      *)
LiveSessionsSpec ==
  /\ SessionsInit
  /\ [][SessionsNext /\ (unit = "order" => ReliableNext)]_sessionsVars
  /\ SessionFairness /\ TraderFairness /\ TransportFairness
  /\ WF_breakerVars(unit = "breaker" /\ BreakerNext)

(* Every stop ends, of the session whatever its loop was awaiting and      *)
(* whatever the operator does meanwhile, and of the trader.                *)
StopsEnd == StopTerminates /\ SwarmStops
=============================================================================
