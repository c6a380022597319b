----------------------------- MODULE MCPlatform -----------------------------
(* The research pipeline (bars, labels, cross-validation, evolutionary     *)
(* search, replay) and the parts of execution that plan and watch: the     *)
(* execution service with its schedules and parent orders, the gateway     *)
(* registry, the watchdog and the duplicate window.  A behaviour moves one *)
(* unit, which never changes.                                              *)
EXTENDS BacktestReplay, Chromosomes, EvolutionSearch, HistoricalIngest, PurgedSplits,
        MCTripleBarrier, Schedules, ParentOrder, ExecutionService, GatewayRegistry,
        HeartbeatWatchdog, DedupWindow

CONSTANT w1       \* a watchdog

(* Replay: one asset that loses much or gains a little.                    *)
MCReturns == {-8, 5}
MCCvar == <<1>>
MCHoldings == -3..3
MCImpact == [n \in 0..8 |-> IF n > 1 THEN 1 ELSE 0]

MCKicks == {-9, -3, 1}

(* Candidates: two with the same residuals and near scores, one without    *)
(* variance, one whose evaluation fails.                                   *)
MCTrait(score, loss, direction, evaluated) ==
  [dsr |-> score, regret |-> loss, dir |-> direction, ok |-> evaluated]
MCTraits ==
  {MCTrait(4, 1, "x", TRUE), MCTrait(3, 1, "x", TRUE), MCTrait(3, 0, "flat", TRUE),
   MCTrait(4, 0, "y", FALSE)}
MCDistances == {<<1, 2, 3, 4>>, <<4, 3, 2, 1>>}
MCSteps == [min |-> 44000, init |-> 50000, max |-> 56000]

MCParents ==
  [side : {"BUY", "SELL"}, total : {0, 5}, arrival : {10}, decision : {0, 11},
   start : {2}, duration : {5}]

(* Zero quantities, one slice, more slices than the horizon has gaps,      *)
(* curves that are flat, empty or end in nothing, volumes that fall short. *)
MCRequests ==
  [algorithm : {"POISSON_TWAP"}, total : {0, 8, 12}, n : {1, 3, 4, 8},
   horizon : {6, 40}, jitter : {0, 99}, timeJitter : {20}]
  \cup
  [algorithm : {"VOLUME_ADAPTIVE_VWAP"}, total : {0, 5, 8},
   curve : {<<>>, <<0, 0>>, <<2>>, <<1, 0, 3>>, <<1, 2, 0>>, <<0, 1, 1>>},
   rate : {50, 100}, smoothing : {100, 40}, horizon : {6},
   expected : {<<>>, <<6, 0, 6>>, <<0, 0, 0>>, <<10, 10, 10>>},
   realtime : {<<>>, <<0, 10, 2>>, <<1>>}]
  \cup
  [algorithm : {"ARRIVAL_PRICE"}, total : {0, 4}, n : {1, 3, 4}, horizon : {2, 9},
   volatility : {1}, aversion : {1}, impact : {0, 1}]
  \cup
  [algorithm : {"IMMEDIATE"}, total : {0, 5}]

(* Responses out of order, with a bad bar, without an adjusted close, and  *)
(* with a day given twice.                                                 *)
MCRow(day, close, good, adjusted) ==
  [day |-> day, price |-> close, good |-> good, adjusted |-> adjusted]
MCResponses ==
  {<<MCRow(3, 4, TRUE, TRUE), MCRow(1, 2, TRUE, FALSE), MCRow(2, 9, FALSE, TRUE)>>,
   <<MCRow(2, 7, TRUE, TRUE), MCRow(1, 3, TRUE, TRUE), MCRow(2, 5, TRUE, TRUE)>>}
MCCredentials == {{"polygon"}}
MCSymbols == <<"SPY", "QQQ">>
MCHours == [polygon |-> 4, alpaca |-> 4, yahoo |-> 13]
MCWindows == {<<1, 3>>}

(* The parent orders are alike, and no property is a liveness property.    *)
ClientSymmetry == Permutations(Clients)

VARIABLE unit

replaying == <<breakerVars, replayVars>>
evolving == <<chromosomeVars, evolutionVars>>
labelling == <<ingestVars, splitVars, barrierVars>>
planning == <<scheduleVars, parentVars>>
linking == <<registryVars, watchdogVars, dedupVars>>
platformVars ==
  <<unit, sizerVars, replaying, evolving, labelling, planning, serviceVars, linking>>

(* Of the units that stand still, only the registry has several states to  *)
(* start from.  The sizer is only there for its operators.                 *)
PlatformInit ==
  /\ unit \in {"replay", "chromosome", "evolution", "ingest", "splits", "barrier", "schedules", "parent",
               "service", "registry", "watchdog", "dedup"}
  /\ BreakerInit /\ SizerInit /\ ReplayInit /\ ChromosomeInit /\ EvolutionInit
  /\ IngestInit /\ SplitsInit /\ BarrierInit /\ SchedulesInit /\ ParentInit /\ ServiceInit
  /\ RegistryInit /\ WatchdogInit /\ DedupInit
  /\ unit # "registry" => watchdogOf[PAPER] = w1 /\ Len(registered) = 1

PlatformNext ==
  /\ UNCHANGED <<unit, sizerVars>>
  /\ \/ /\ unit = "replay" /\ ReplayNext
        /\ UNCHANGED <<evolving, labelling, planning, serviceVars, linking>>
     \/ /\ UNCHANGED <<replaying, labelling, planning, serviceVars, linking>>
        /\ \/ unit = "chromosome" /\ ChromosomeNext /\ UNCHANGED evolutionVars
           \/ unit = "evolution" /\ EvolutionNext /\ UNCHANGED chromosomeVars
     \/ /\ UNCHANGED <<replaying, evolving, planning, serviceVars, linking>>
        /\ \/ unit = "ingest" /\ IngestNext /\ UNCHANGED <<splitVars, barrierVars>>
           \/ unit = "splits" /\ SplitsNext /\ UNCHANGED <<ingestVars, barrierVars>>
           \/ unit = "barrier" /\ BarrierNext /\ UNCHANGED <<ingestVars, splitVars>>
     \/ /\ UNCHANGED <<replaying, evolving, labelling, serviceVars, linking>>
        /\ \/ unit = "schedules" /\ SchedulesNext /\ UNCHANGED parentVars
           \/ unit = "parent" /\ ParentNext /\ UNCHANGED scheduleVars
     \/ /\ unit = "service" /\ ServiceNext
        /\ UNCHANGED <<replaying, evolving, labelling, planning, linking>>
     \/ /\ UNCHANGED <<replaying, evolving, labelling, planning, serviceVars>>
        /\ \/ unit = "registry" /\ RegistryNext /\ UNCHANGED <<watchdogVars, dedupVars>>
           \/ unit = "watchdog" /\ WatchdogNext /\ UNCHANGED <<registryVars, dedupVars>>
           \/ unit = "dedup" /\ DedupNext /\ UNCHANGED <<registryVars, watchdogVars>>

PlatformSpec == PlatformInit /\ [][PlatformNext]_platformVars
=============================================================================
