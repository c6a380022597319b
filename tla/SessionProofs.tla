---------------------------- MODULE SessionProofs ----------------------------
(***************************************************************************)
(* Proofs about what runs in asyncio tasks of its own: LiveSession,        *)
(* CircuitBreaker, AutonomousTrader and OrderLifecycle, for any number of  *)
(* starts, stops, orders, symbols, faults and operator commands, and for   *)
(* any thresholds, weights and dwell time the configuration accepts.       *)
(***************************************************************************)
EXTENDS LiveSession, CircuitBreaker, AutonomousTrader, OrderLifecycle, SumTheorems, TLAPS

(* What the local variables of the loops and the stops say of the shared   *)
(* state, overlapping starts or not.                                       *)
Ties ==
  /\ late \in Nat
  /\ main = "watch" => stopping[Main] = "idle"
  /\ main = "exited" => \A s \in Starters : ~Alive(s)
  /\ Running => \A s \in cancelling : Alive(s)
  /\ \A s \in Starters : starting[s] # "done" => loop[s] = "none"
  /\ \A q \in Stops : stopping[q] = "join" => joined[q] \in Starters
  /\ status = "STOPPING" => \E q \in Stops : Busy(q)

(* Every order under way belongs to exactly one loop, which awaits it.     *)
SendersOwn ==
  /\ \A s \in Starters :
       loop[s] = "sending" => current[s] \in SessionOrders /\ placed[current[s]] = "sending"
  /\ \A s, r \in Starters :
       loop[s] = "sending" /\ loop[r] = "sending" /\ s # r => current[s] # current[r]
  /\ \A o \in SessionOrders :
       placed[o] = "sending" => \E s \in Starters : loop[s] = "sending" /\ current[s] = o

(* The calls of stop.                                                      *)
LEMMA StopCalls == Stoppers \subseteq Stops /\ Main \in Stops /\ Main \notin Stoppers
  BY SessionAssumption DEF Stops

LEMMA TasksNamed == NoTask \notin Starters
  BY SessionAssumption DEF NoTask, Starters

LEMMA SessionTypeInit == SessionInit => SessionTypeOK
<1> SUFFICES ASSUME SessionInit PROVE SessionTypeOK
  OBVIOUS
<1>1. left \in [Starters -> 0..(NumSymbols - 1)] /\ sweep \in [Stops -> SUBSET SessionOrders]
  BY SessionAssumption DEF SessionInit
<1> QED
  BY <1>1 DEF SessionInit, SessionTypeOK

LEMMA StopCallTyped ==
  ASSUME SessionTypeOK, NEW q \in Stops, StopCall(q), main' \in {"watch", "teardown", "exited"}
  PROVE  SessionTypeOK'
<1> USE DEF SessionTypeOK
<1>1. /\ cancelling' \subseteq Starters /\ joined' \in [Stops -> Starters \cup {NoTask}]
      /\ stopping' \in [Stops -> {"idle", "join", "query", "cancel", "done"}]
  BY DEF StopCall
<1> QED
  BY <1>1 DEF StopCall, SetStatus

LEMMA SessionTypeStep == SessionTypeOK /\ [SessionNext]_sessionVars => SessionTypeOK'
<1> SUFFICES ASSUME SessionTypeOK, [SessionNext]_sessionVars PROVE SessionTypeOK'
  OBVIOUS
<1> USE SessionAssumption
    DEF SessionTypeOK,
        control, loops, stops, sessionHistory, SetStatus, KeepStatus, Key, GatewayFails, StopStep
<1>1. ASSUME NEW s \in Starters, StartCall(s) PROVE SessionTypeOK'
  BY <1>1 DEF StartCall, StartTail
<1>2. ASSUME NEW s \in Starters, StartConnected(s) PROVE SessionTypeOK'
  BY <1>2 DEF StartConnected, StartTail
<1>3. ASSUME NEW s \in Starters, StartFails(s) PROVE SessionTypeOK'
  BY <1>3 DEF StartFails
<1>4. CASE Pause
  BY <1>4 DEF Pause
<1>5. CASE Resume
  BY <1>5 DEF Resume
<1>6. CASE PanicKill
  BY <1>6 DEF PanicKill
<1>7. CASE Disarm
  BY <1>7 DEF Disarm
<1>8. CASE Rearm
  BY <1>8 DEF Rearm
<1>9. ASSUME NEW s \in Starters, Cycle(s) PROVE SessionTypeOK'
  BY <1>9 DEF Cycle, AfterPrices, Rebalance, MayStep
<1>10. ASSUME NEW s \in Starters, CycleBreach(s) PROVE SessionTypeOK'
  BY <1>10 DEF CycleBreach, MayStep
<1>11. ASSUME NEW s \in Starters, SweepReturns(s) PROVE SessionTypeOK'
  BY <1>11 DEF SweepReturns, AfterPrices, Rebalance, MayStep
<1>12. ASSUME NEW s \in Starters, NEW outcome \in {"open", "closed"}, Answered(s, outcome)
      PROVE SessionTypeOK'
  BY <1>12 DEF Answered, Rebalance, MayStep
<1>13. ASSUME NEW s \in Starters, LoopEnds(s) PROVE SessionTypeOK'
  <2>1. left' \in [Starters -> 0..(NumSymbols - 1)] /\ cancelling' \subseteq Starters
    BY <1>13 DEF LoopEnds
  <2> QED
    BY <1>13, <2>1 DEF LoopEnds
<1>14. ASSUME NEW q \in Stoppers, StopCall(q), UNCHANGED main PROVE SessionTypeOK'
  BY <1>14, StopCalls, StopCallTyped
<1>15. ASSUME NEW q \in Stops, StopJoined(q) PROVE SessionTypeOK'
  BY <1>15 DEF StopJoined
<1>16. ASSUME NEW q \in Stops, StopQueried(q) PROVE SessionTypeOK'
  BY <1>16 DEF StopQueried, OpenOrders
<1>17. ASSUME NEW q \in Stops, StopQueryFails(q) PROVE SessionTypeOK'
  BY <1>17 DEF StopQueryFails, OpenOrders
<1>18. ASSUME NEW q \in Stops, NEW o \in SessionOrders, StopCancels(q, o) PROVE SessionTypeOK'
  BY <1>18 DEF StopCancels
<1>19. ASSUME NEW q \in Stops, NEW o \in SessionOrders, StopCancelFails(q, o)
      PROVE SessionTypeOK'
  BY <1>19 DEF StopCancelFails
<1>20. ASSUME NEW q \in Stops, StopEnds(q) PROVE SessionTypeOK'
  <2>1. CASE q = Main
    <3>1. /\ loop' \in [Starters -> {"none", "ready", "panic", "sending", "done"}]
          /\ placed' \in [SessionOrders -> {"new", "sending", "limbo", "open", "closed"}]
      BY <1>20, <2>1 DEF StopEnds, Exit
    <3>2. /\ main' = "exited" /\ status' \in {status, "STOPPED"} /\ connected' \in BOOLEAN
          /\ stopping' = [stopping EXCEPT ![q] = "done"]
          /\ UNCHANGED <<looping, task, kill, starting, cancelling, left, current, joined, sweep>>
      BY <1>20, <2>1 DEF StopEnds, Exit
    <3> QED
      BY <3>1, <3>2
  <2>2. CASE q # Main
    BY <1>20, <2>2 DEF StopEnds
  <2> QED
    BY <2>1, <2>2
<1>21. CASE MainLeaves
  <2>1. CASE StopCall(Main) /\ main' = "teardown"
    BY <2>1, StopCalls, StopCallTyped
  <2>2. CASE ~StopCall(Main)
    BY <1>21, <2>2 DEF MainLeaves, Exit
  <2> QED
    BY <1>21, <2>1, <2>2 DEF MainLeaves, StopCall, StopReturnsAtOnce
<1>22. ASSUME NEW o \in SessionOrders, VenueCloses(o) PROVE SessionTypeOK'
  BY <1>22 DEF VenueCloses
<1>23. CASE UNCHANGED sessionVars
  BY <1>23 DEF sessionVars
<1> QED
  BY <1>1, <1>2, <1>3, <1>4, <1>5, <1>6, <1>7, <1>8, <1>9, <1>10, <1>11, <1>12, <1>13,
     <1>14, <1>15, <1>16, <1>17, <1>18, <1>19, <1>20, <1>21, <1>22, <1>23 DEF SessionNext

LEMMA TiesInit == SessionInit => Ties
  BY StopCalls DEF SessionInit, Ties, Alive, Busy, Running

LEMMA TiesStep == SessionTypeOK /\ Ties /\ [SessionNext]_sessionVars => Ties'
<1> SUFFICES ASSUME SessionTypeOK, Ties, [SessionNext]_sessionVars PROVE Ties'
  OBVIOUS
<1> USE SessionAssumption
    DEF SessionTypeOK, Ties, Alive, Busy, Running,
        control, loops, stops, sessionHistory, SetStatus, KeepStatus, Key, GatewayFails, StopStep
<1>1. ASSUME NEW s \in Starters, StartCall(s) PROVE Ties'
  BY <1>1 DEF StartCall, StartTail
<1>2. ASSUME NEW s \in Starters, StartConnected(s) PROVE Ties'
  BY <1>2 DEF StartConnected, StartTail
<1>3. ASSUME NEW s \in Starters, StartFails(s) PROVE Ties'
  BY <1>3 DEF StartFails
<1>4. CASE Pause
  BY <1>4 DEF Pause
<1>5. CASE Resume
  BY <1>5 DEF Resume
<1>6. CASE PanicKill
  BY <1>6 DEF PanicKill
<1>7. CASE Disarm
  BY <1>7 DEF Disarm
<1>8. CASE Rearm
  BY <1>8 DEF Rearm
<1>9. ASSUME NEW s \in Starters, Cycle(s) PROVE Ties'
  BY <1>9 DEF Cycle, AfterPrices, Rebalance, MayStep
<1>10. ASSUME NEW s \in Starters, CycleBreach(s) PROVE Ties'
  BY <1>10 DEF CycleBreach, MayStep
<1>11. ASSUME NEW s \in Starters, SweepReturns(s) PROVE Ties'
  BY <1>11 DEF SweepReturns, AfterPrices, Rebalance, MayStep
<1>12. ASSUME NEW s \in Starters, NEW outcome \in {"open", "closed"}, Answered(s, outcome)
      PROVE Ties'
  BY <1>12 DEF Answered, Rebalance, MayStep
<1>13. ASSUME NEW s \in Starters, LoopEnds(s) PROVE Ties'
  BY <1>13 DEF LoopEnds
<1>14. ASSUME NEW q \in Stoppers, StopCall(q), UNCHANGED main PROVE Ties'
  BY <1>14, StopCalls DEF StopCall, StopReturnsAtOnce
<1>15. ASSUME NEW q \in Stops, StopJoined(q) PROVE Ties'
  BY <1>15 DEF StopJoined
<1>16. ASSUME NEW q \in Stops, StopQueried(q) PROVE Ties'
  BY <1>16 DEF StopQueried, OpenOrders
<1>17. ASSUME NEW q \in Stops, StopQueryFails(q) PROVE Ties'
  BY <1>17 DEF StopQueryFails, OpenOrders
<1>18. ASSUME NEW q \in Stops, NEW o \in SessionOrders, StopCancels(q, o) PROVE Ties'
  BY <1>18 DEF StopCancels
<1>19. ASSUME NEW q \in Stops, NEW o \in SessionOrders, StopCancelFails(q, o)
      PROVE Ties'
  BY <1>19 DEF StopCancelFails
<1>20. ASSUME NEW q \in Stops, StopEnds(q) PROVE Ties'
  BY <1>20, StopCalls DEF StopEnds, Exit
<1>21. CASE MainLeaves
  BY <1>21, StopCalls DEF MainLeaves, StopCall, StopReturnsAtOnce, Exit
<1>22. ASSUME NEW o \in SessionOrders, VenueCloses(o) PROVE Ties'
  BY <1>22 DEF VenueCloses
<1>23. CASE UNCHANGED sessionVars
  BY <1>23 DEF sessionVars
<1> QED
  BY <1>1, <1>2, <1>3, <1>4, <1>5, <1>6, <1>7, <1>8, <1>9, <1>10, <1>11, <1>12, <1>13,
     <1>14, <1>15, <1>16, <1>17, <1>18, <1>19, <1>20, <1>21, <1>22, <1>23 DEF SessionNext

LEMMA SendersOwnInit == SessionInit => SendersOwn
  BY DEF SessionInit, SendersOwn

LEMMA SendersOwnStep ==
  SessionTypeOK /\ Ties /\ SendersOwn /\ [SessionNext]_sessionVars => SendersOwn'
<1> SUFFICES ASSUME SessionTypeOK, Ties, SendersOwn, [SessionNext]_sessionVars PROVE SendersOwn'
  OBVIOUS
<1> USE SessionAssumption
    DEF SessionTypeOK, Ties, SendersOwn, Alive, Running,
        control, loops, stops, sessionHistory, SetStatus, KeepStatus, Key, GatewayFails, StopStep
<1>1. ASSUME NEW s \in Starters, StartCall(s) PROVE SendersOwn'
  BY <1>1 DEF StartCall, StartTail
<1>2. ASSUME NEW s \in Starters, StartConnected(s) PROVE SendersOwn'
  BY <1>2 DEF StartConnected, StartTail
<1>3. ASSUME NEW s \in Starters, StartFails(s) PROVE SendersOwn'
  BY <1>3 DEF StartFails
<1>4. CASE Pause
  BY <1>4 DEF Pause
<1>5. CASE Resume
  BY <1>5 DEF Resume
<1>6. CASE PanicKill
  BY <1>6 DEF PanicKill
<1>7. CASE Disarm
  BY <1>7 DEF Disarm
<1>8. CASE Rearm
  BY <1>8 DEF Rearm
<1>9. ASSUME NEW s \in Starters, Cycle(s) PROVE SendersOwn'
  BY <1>9 DEF Cycle, AfterPrices, Rebalance, MayStep
<1>10. ASSUME NEW s \in Starters, CycleBreach(s) PROVE SendersOwn'
  BY <1>10 DEF CycleBreach, MayStep
<1>11. ASSUME NEW s \in Starters, SweepReturns(s) PROVE SendersOwn'
  BY <1>11 DEF SweepReturns, AfterPrices, Rebalance, MayStep
<1>12. ASSUME NEW s \in Starters, NEW outcome \in {"open", "closed"}, Answered(s, outcome)
      PROVE SendersOwn'
  BY <1>12 DEF Answered, Rebalance, MayStep
<1>13. ASSUME NEW s \in Starters, LoopEnds(s) PROVE SendersOwn'
  BY <1>13 DEF LoopEnds
<1>14. ASSUME NEW q \in Stoppers, StopCall(q), UNCHANGED main PROVE SendersOwn'
  BY <1>14, StopCalls DEF StopCall, StopReturnsAtOnce
<1>15. ASSUME NEW q \in Stops, StopJoined(q) PROVE SendersOwn'
  BY <1>15 DEF StopJoined
<1>16. ASSUME NEW q \in Stops, StopQueried(q) PROVE SendersOwn'
  BY <1>16 DEF StopQueried, OpenOrders
<1>17. ASSUME NEW q \in Stops, StopQueryFails(q) PROVE SendersOwn'
  BY <1>17 DEF StopQueryFails, OpenOrders
<1>18. ASSUME NEW q \in Stops, NEW o \in SessionOrders, StopCancels(q, o) PROVE SendersOwn'
  BY <1>18 DEF StopCancels
<1>19. ASSUME NEW q \in Stops, NEW o \in SessionOrders, StopCancelFails(q, o)
      PROVE SendersOwn'
  BY <1>19 DEF StopCancelFails
<1>20. ASSUME NEW q \in Stops, StopEnds(q) PROVE SendersOwn'
  BY <1>20 DEF StopEnds, Exit
<1>21. CASE MainLeaves
  BY <1>21, StopCalls DEF MainLeaves, StopCall, StopReturnsAtOnce, Exit
<1>22. ASSUME NEW o \in SessionOrders, VenueCloses(o) PROVE SendersOwn'
  BY <1>22 DEF VenueCloses
<1>23. CASE UNCHANGED sessionVars
  BY <1>23 DEF sessionVars
<1> QED
  BY <1>1, <1>2, <1>3, <1>4, <1>5, <1>6, <1>7, <1>8, <1>9, <1>10, <1>11, <1>12, <1>13,
     <1>14, <1>15, <1>16, <1>17, <1>18, <1>19, <1>20, <1>21, <1>22, <1>23 DEF SessionNext

-----------------------------------------------------------------------------
(* As long as no start overlapped another start or a stop: the one loop    *)
(* is the one _loop_task names, a stop that cleared the flag awaits it, and *)
(* a stop past its join finds no loop alive and no order it does not know.  *)
LoopHeld ==
  ~overlapped =>
    /\ \A s \in Starters : Alive(s) => s = task
    /\ \A s \in Starters : starting[s] = "connecting" =>
         /\ ~looping
         /\ \A q \in Stops : ~Busy(q)
         /\ \A r \in Starters : starting[r] = "connecting" => r = s
    /\ \A q \in Stops : stopping[q] = "join" => joined[q] = task
    /\ ~looping => \A s \in Starters : Alive(s) => \E q \in Stops : stopping[q] = "join"
    /\ looping /\ Running => task \in Starters /\ Alive(task) /\ task \notin cancelling
    /\ \A q \in Stops : stopping[q] \in {"query", "cancel"} => \A s \in Starters : ~Alive(s)
    /\ ~idleDisarm /\ Running /\ status \in {"RUNNING", "PAUSED"} => looping
    /\ status = "STOPPED" => \A s \in Starters : ~Alive(s)
    /\ status = "RUNNING" => late = 0
    /\ status = "RUNNING" /\ panicked /\ Running =>
         kill = "PANIC_TRIGGERED" /\ looping /\ \E s \in Starters : loop[s] = "panic"

LEMMA LoopHeldInit == SessionInit => LoopHeld
  BY DEF SessionInit, LoopHeld, Alive, Busy

LEMMA LoopHeldStep ==
  SessionTypeOK /\ Ties /\ LoopHeld /\ [SessionNext]_sessionVars => LoopHeld'
<1> SUFFICES ASSUME SessionTypeOK, Ties, LoopHeld, [SessionNext]_sessionVars PROVE LoopHeld'
  OBVIOUS
<1> USE SessionAssumption
    DEF SessionTypeOK, Ties, LoopHeld, Alive, Busy, Running,
        control, loops, stops, sessionHistory, SetStatus, KeepStatus, Key, GatewayFails, StopStep
<1>1. ASSUME NEW s \in Starters, StartCall(s) PROVE LoopHeld'
  <2>1. ~overlapped' => ~overlapped /\ ~OverlapsStart(s)
    BY <1>1 DEF StartCall
  <2> QED
    BY <1>1, <2>1 DEF StartCall, StartTail, OverlapsStart, MayStart
<1>2. ASSUME NEW s \in Starters, StartConnected(s) PROVE LoopHeld'
  <2>1. ~overlapped' => ~overlapped /\ ~OverlapsStart(s)
    BY <1>2 DEF StartConnected
  <2> QED
    BY <1>2, <2>1 DEF StartConnected, StartTail, OverlapsStart
<1>3. ASSUME NEW s \in Starters, StartFails(s) PROVE LoopHeld'
  BY <1>3 DEF StartFails
<1>4. CASE Pause
  BY <1>4 DEF Pause
<1>5. CASE Resume
  <2>1. ~panicked'
    BY <1>5 DEF Resume
  <2> QED
    BY <1>5, <2>1 DEF Resume
<1>6. CASE PanicKill
  BY <1>6 DEF PanicKill
<1>7. CASE Disarm
  <2>1. ~idleDisarm' => ~idleDisarm /\ looping
    BY <1>7 DEF Disarm
  <2> QED
    BY <1>7, <2>1 DEF Disarm
<1>8. CASE Rearm
  <2>1. panicked' => panicked /\ \A s \in Starters : loop[s] # "panic"
    BY <1>8 DEF Rearm
  <2> QED
    BY <1>8, <2>1 DEF Rearm
<1>9. ASSUME NEW s \in Starters, Cycle(s) PROVE LoopHeld'
  BY <1>9 DEF Cycle, AfterPrices, Rebalance, MayStep
<1>10. ASSUME NEW s \in Starters, CycleBreach(s) PROVE LoopHeld'
  BY <1>10 DEF CycleBreach, MayStep
<1>11. ASSUME NEW s \in Starters, SweepReturns(s) PROVE LoopHeld'
  BY <1>11 DEF SweepReturns, AfterPrices, Rebalance, MayStep
<1>12. ASSUME NEW s \in Starters, NEW outcome \in {"open", "closed"}, Answered(s, outcome)
      PROVE LoopHeld'
  BY <1>12 DEF Answered, Rebalance, MayStep
<1>13. ASSUME NEW s \in Starters, LoopEnds(s) PROVE LoopHeld'
  BY <1>13 DEF LoopEnds
<1>14. ASSUME NEW q \in Stoppers, StopCall(q), UNCHANGED main PROVE LoopHeld'
  <2>1. ~overlapped' => ~overlapped /\ \A s \in Starters : starting[s] # "connecting"
    BY <1>14 DEF StopCall
  <2> QED
    BY <1>14, <2>1, StopCalls, TasksNamed DEF StopCall, StopReturnsAtOnce
<1>15. ASSUME NEW q \in Stops, StopJoined(q) PROVE LoopHeld'
  BY <1>15 DEF StopJoined
<1>16. ASSUME NEW q \in Stops, StopQueried(q) PROVE LoopHeld'
  BY <1>16 DEF StopQueried, OpenOrders
<1>17. ASSUME NEW q \in Stops, StopQueryFails(q) PROVE LoopHeld'
  BY <1>17 DEF StopQueryFails, OpenOrders
<1>18. ASSUME NEW q \in Stops, NEW o \in SessionOrders, StopCancels(q, o) PROVE LoopHeld'
  BY <1>18 DEF StopCancels
<1>19. ASSUME NEW q \in Stops, NEW o \in SessionOrders, StopCancelFails(q, o)
      PROVE LoopHeld'
  BY <1>19 DEF StopCancelFails
<1>20. ASSUME NEW q \in Stops, StopEnds(q) PROVE LoopHeld'
  BY <1>20, StopCalls DEF StopEnds, Exit
<1>21. CASE MainLeaves
  <2>1. CASE StopCall(Main) /\ main' = "teardown"
    <3>1. ~overlapped' => ~overlapped /\ \A s \in Starters : starting[s] # "connecting"
      BY <2>1 DEF StopCall
    <3> QED
      BY <2>1, <3>1, StopCalls, TasksNamed DEF StopCall
  <2>2. CASE StopReturnsAtOnce
    <3>1. main = "watch" /\ Exit(Stoppers) /\ (~cut' => \A q \in Stoppers : ~Busy(q))
      BY <1>21, <2>2 DEF MainLeaves, StopCall, Exit
    <3> QED
      BY <1>21, <2>2, <3>1, StopCalls DEF MainLeaves, StopCall, StopReturnsAtOnce, Exit, Stops
  <2> QED
    BY <1>21, <2>1, <2>2 DEF MainLeaves
<1>22. ASSUME NEW o \in SessionOrders, VenueCloses(o) PROVE LoopHeld'
  BY <1>22 DEF VenueCloses
<1>23. CASE UNCHANGED sessionVars
  BY <1>23 DEF sessionVars
<1> QED
  BY <1>1, <1>2, <1>3, <1>4, <1>5, <1>6, <1>7, <1>8, <1>9, <1>10, <1>11, <1>12, <1>13,
     <1>14, <1>15, <1>16, <1>17, <1>18, <1>19, <1>20, <1>21, <1>22, <1>23 DEF SessionNext

(* Then no stop and no end of the program leaves an order behind, and a    *)
(* cycle that is overtaken by a pause or a stop has a bounded rest.        *)
OrdersHeld ==
  ~overlapped =>
    /\ \A q \in Stops : stopping[q] = "cancel" => OpenOrders \subseteq sweep[q] \cup missed
    /\ status = "STOPPED" => OpenOrders \subseteq missed
    /\ main = "exited" /\ ~cut => OpenOrders \subseteq missed
    /\ late <= NumSymbols - 1
    /\ \A s \in Starters : loop[s] = "sending" => late + left[s] <= NumSymbols - 1

LEMMA OrdersHeldInit == SessionInit => OrdersHeld
  BY SessionAssumption DEF SessionInit, OrdersHeld, OpenOrders

LEMMA OrdersHeldStep ==
  SessionTypeOK /\ Ties /\ SendersOwn /\ LoopHeld /\ OrdersHeld /\ [SessionNext]_sessionVars => OrdersHeld'
<1> SUFFICES ASSUME SessionTypeOK, Ties, SendersOwn, LoopHeld, OrdersHeld, [SessionNext]_sessionVars PROVE OrdersHeld'
  OBVIOUS
<1> USE SessionAssumption
    DEF SessionTypeOK, Ties, SendersOwn, LoopHeld, OrdersHeld, Alive, Busy, Running, OpenOrders,
        control, loops, stops, sessionHistory, SetStatus, KeepStatus, Key, GatewayFails, StopStep
<1>1. ASSUME NEW s \in Starters, StartCall(s) PROVE OrdersHeld'
  <2>1. ~overlapped' => ~overlapped /\ ~OverlapsStart(s)
    BY <1>1 DEF StartCall
  <2> QED
    BY <1>1, <2>1 DEF StartCall, StartTail, OverlapsStart, MayStart
<1>2. ASSUME NEW s \in Starters, StartConnected(s) PROVE OrdersHeld'
  <2>1. ~overlapped' => ~overlapped /\ ~OverlapsStart(s)
    BY <1>2 DEF StartConnected
  <2> QED
    BY <1>2, <2>1 DEF StartConnected, StartTail, OverlapsStart
<1>3. ASSUME NEW s \in Starters, StartFails(s) PROVE OrdersHeld'
  BY <1>3 DEF StartFails
<1>4. CASE Pause
  BY <1>4 DEF Pause
<1>5. CASE Resume
  BY <1>5 DEF Resume
<1>6. CASE PanicKill
  BY <1>6 DEF PanicKill
<1>7. CASE Disarm
  <2>1. ~idleDisarm' => ~idleDisarm /\ looping
    BY <1>7 DEF Disarm
  <2> QED
    BY <1>7, <2>1 DEF Disarm
<1>8. CASE Rearm
  BY <1>8 DEF Rearm
<1>9. ASSUME NEW s \in Starters, Cycle(s) PROVE OrdersHeld'
  BY <1>9 DEF Cycle, AfterPrices, Rebalance, MayStep
<1>10. ASSUME NEW s \in Starters, CycleBreach(s) PROVE OrdersHeld'
  BY <1>10 DEF CycleBreach, MayStep
<1>11. ASSUME NEW s \in Starters, SweepReturns(s) PROVE OrdersHeld'
  BY <1>11 DEF SweepReturns, AfterPrices, Rebalance, MayStep
<1>12. ASSUME NEW s \in Starters, NEW outcome \in {"open", "closed"}, Answered(s, outcome)
      PROVE OrdersHeld'
  BY <1>12 DEF Answered, Rebalance, MayStep
<1>13. ASSUME NEW s \in Starters, LoopEnds(s) PROVE OrdersHeld'
  BY <1>13 DEF LoopEnds
<1>14. ASSUME NEW q \in Stoppers, StopCall(q), UNCHANGED main PROVE OrdersHeld'
  <2>1. ~overlapped' => ~overlapped /\ \A s \in Starters : starting[s] # "connecting"
    BY <1>14 DEF StopCall
  <2> QED
    BY <1>14, <2>1, StopCalls, TasksNamed DEF StopCall, StopReturnsAtOnce
<1>15. ASSUME NEW q \in Stops, StopJoined(q) PROVE OrdersHeld'
  BY <1>15 DEF StopJoined
<1>16. ASSUME NEW q \in Stops, StopQueried(q) PROVE OrdersHeld'
  BY <1>16 DEF StopQueried, OpenOrders
<1>17. ASSUME NEW q \in Stops, StopQueryFails(q) PROVE OrdersHeld'
  BY <1>17 DEF StopQueryFails, OpenOrders
<1>18. ASSUME NEW q \in Stops, NEW o \in SessionOrders, StopCancels(q, o) PROVE OrdersHeld'
  BY <1>18 DEF StopCancels
<1>19. ASSUME NEW q \in Stops, NEW o \in SessionOrders, StopCancelFails(q, o)
      PROVE OrdersHeld'
  BY <1>19 DEF StopCancelFails
<1>20. ASSUME NEW q \in Stops, StopEnds(q) PROVE OrdersHeld'
  BY <1>20, StopCalls DEF StopEnds, Exit
<1>21. CASE MainLeaves
  <2>1. CASE StopCall(Main) /\ main' = "teardown"
    <3>1. ~overlapped' => ~overlapped /\ \A s \in Starters : starting[s] # "connecting"
      BY <2>1 DEF StopCall
    <3> QED
      BY <2>1, <3>1, StopCalls, TasksNamed DEF StopCall
  <2>2. CASE StopReturnsAtOnce
    <3>1. main = "watch" /\ Exit(Stoppers) /\ (~cut' => \A q \in Stoppers : ~Busy(q))
      BY <1>21, <2>2 DEF MainLeaves, StopCall, Exit
    <3> QED
      BY <1>21, <2>2, <3>1, StopCalls DEF MainLeaves, StopCall, StopReturnsAtOnce, Exit, Stops
  <2> QED
    BY <1>21, <2>1, <2>2 DEF MainLeaves
<1>22. ASSUME NEW o \in SessionOrders, VenueCloses(o) PROVE OrdersHeld'
  BY <1>22 DEF VenueCloses
<1>23. CASE UNCHANGED sessionVars
  BY <1>23 DEF sessionVars
<1> QED
  BY <1>1, <1>2, <1>3, <1>4, <1>5, <1>6, <1>7, <1>8, <1>9, <1>10, <1>11, <1>12, <1>13,
     <1>14, <1>15, <1>16, <1>17, <1>18, <1>19, <1>20, <1>21, <1>22, <1>23 DEF SessionNext

-----------------------------------------------------------------------------
SessionInvariant == SessionTypeOK /\ Ties /\ SendersOwn /\ LoopHeld /\ OrdersHeld

LEMMA SessionInductive ==
  /\ SessionInit => SessionInvariant
  /\ SessionInvariant /\ [SessionNext]_sessionVars => SessionInvariant'
<1>1. SessionInit => SessionInvariant
  BY SessionTypeInit, TiesInit, SendersOwnInit, LoopHeldInit, OrdersHeldInit DEF SessionInvariant
<1>2. SessionInvariant /\ [SessionNext]_sessionVars => SessionInvariant'
  BY SessionTypeStep, TiesStep, SendersOwnStep, LoopHeldStep, OrdersHeldStep DEF SessionInvariant
<1> QED
  BY <1>1, <1>2

(* The session keeps hold of its loop and of its orders, whatever starts,  *)
(* stops, keys, signals and failed gateway calls are interleaved: one loop *)
(* that stop reaches, a quiet market after STOPPED and after the program   *)
(* has ended (INV-LIVE-004), a bounded rest of a cycle after a pause, a    *)
(* stop or a panic (INV-LIVE-002), re-armed or not, but for the overlapping*)
(* starts and failed calls the parts name.                                 *)
THEOREM SessionControlledHolds == SessionSpec => []SessionControlled
<1>1. SessionInvariant => SessionControlled
  <2> SUFFICES ASSUME SessionInvariant PROVE SessionControlled
    OBVIOUS
  <2> USE DEF SessionInvariant, SessionTypeOK, Ties, SendersOwn, LoopHeld, OrdersHeld
  <2>1. OneLoop /\ LateOrdersBounded
    BY DEF OneLoop, LateOrdersBounded
  <2>2. RunningHasLoop
    BY DEF RunningHasLoop
  <2>3. StoppedIsQuiet
    BY DEF StoppedIsQuiet, OpenOrders, Alive
  <2>4. ExitIsClean
    BY DEF ExitIsClean
  <2> QED
    BY <2>1, <2>2, <2>3, <2>4 DEF SessionControlled
<1> QED
  BY <1>1, SessionInductive, PTL DEF SessionSpec

-----------------------------------------------------------------------------
LEMMA ClampInRange ==
  ASSUME NEW x \in Int
  PROVE  Clamp(x) \in 0..Scale
  BY SmallerOfTwo, LargerOfTwo, BreakerAssumption DEF Clamp, BreakerConfig

LEMMA ShockInRange ==
  ASSUME NEW entropy \in Readings, NEW ratio \in Readings, NEW beta \in Readings
  PROVE  CompositeShock(entropy, ratio, beta) \in 0..Scale
<1>1. /\ entropy \in Nat /\ ratio \in Nat /\ beta \in Nat
      /\ WeightEntropy \in Nat /\ WeightRatio \in Nat /\ WeightAmbiguity \in Nat
      /\ Scale \in Nat \ {0}
  BY BreakerAssumption DEF BreakerConfig
<1>2. /\ WeightEntropy * entropy \in Nat /\ WeightRatio * ratio \in Nat
      /\ WeightAmbiguity * beta \in Nat
  BY <1>1
<1>3. (WeightEntropy * entropy + WeightRatio * ratio + WeightAmbiguity * beta) \div Scale \in Int
  BY <1>1, <1>2
<1> QED
  BY <1>3, ClampInRange DEF CompositeShock

(* How far a recovery has come.  From HALT the breaker comes to DERISK and *)
(* from there to CAUTION, each only after a full dwell time, so the bars   *)
(* since the halt are at least the dwell times behind it and the bars spent*)
(* in the present tier; sinceHalt stops at its bound.                      *)
Recovering ==
  /\ tier \in 0..3 /\ bars \in Nat /\ sinceHalt \in Nat
  /\ tier = HALT => sinceHalt >= bars
  /\ tier = DERISK => sinceHalt >= Dwell + bars \/ sinceHalt = MaxBars
  /\ tier \in {CAUTION, NORMAL} => sinceHalt > 2 * Dwell \/ sinceHalt = MaxBars
  /\ haircut > 0 => tier \in {CAUTION, NORMAL}

LEMMA NextTierSteps ==
  ASSUME tier \in 0..3, NEW score \in 0..Scale, NEW panic \in BOOLEAN
  PROVE  /\ NextTier(score, panic) \in 0..3
         /\ \/ NextTier(score, panic) >= tier
            \/ NextTier(score, panic) = tier - 1 /\ (tier >= DERISK => bars >= Dwell)
  BY BreakerAssumption
     DEF NextTier, Candidate, Lowered, NORMAL, CAUTION, DERISK, HALT, BreakerConfig

LEMMA RecoveringInit == BreakerInit => Recovering
  BY BreakerAssumption DEF BreakerInit, Recovering, NORMAL, CAUTION, DERISK, HALT, BreakerConfig

LEMMA RecoveringStep ==
  Recovering /\ [BreakerNext]_breakerVars => Recovering'
<1> SUFFICES ASSUME Recovering, BreakerNext PROVE Recovering'
  BY DEF Recovering, breakerVars
<1>1. PICK e, r, b \in Readings, panic \in BOOLEAN : Evaluate(e, r, b, panic)
  BY DEF BreakerNext
<1> DEFINE score == CompositeShock(e, r, b)
           new == NextTier(score, panic)
<1>2. score \in 0..Scale
  BY ShockInRange
<1> HIDE DEF score
<1>3. /\ new \in 0..3
      /\ \/ new >= tier
         \/ new = tier - 1 /\ (tier >= DERISK => bars >= Dwell)
  <2>1. tier \in 0..3
    BY DEF Recovering
  <2> QED
    BY <1>2, <2>1, NextTierSteps, Zenon
<1>4. /\ tier' = new /\ bars' = NextBars(new) /\ haircut' = ExecutionHaircut(new, score)
      /\ sinceHalt' = IF new = HALT /\ tier # HALT THEN 1 ELSE Min({sinceHalt + 1, MaxBars})
  BY <1>1 DEF Evaluate, score
<1> HIDE DEF new
<1>5. Min({sinceHalt + 1, MaxBars}) = IF sinceHalt + 1 <= MaxBars THEN sinceHalt + 1 ELSE MaxBars
  BY SmallerOfTwo, BreakerAssumption DEF Recovering
<1>6. bars' = IF new = tier THEN (IF bars + 1 <= MaxBars THEN bars + 1 ELSE MaxBars) ELSE 1
  BY <1>4, SmallerOfTwo, BreakerAssumption DEF Recovering, NextBars
<1>7. new \in {HALT, DERISK} => haircut' = 0
  BY <1>4 DEF ExecutionHaircut, CAUTION, DERISK, HALT
<1> QED
  BY <1>3, <1>4, <1>5, <1>6, <1>7, BreakerAssumption
     DEF Recovering, NORMAL, CAUTION, DERISK, HALT, BreakerConfig

LEMMA StepwiseStep ==
  ASSUME Recovering, BreakerNext
  PROVE  /\ tier \in {HALT, DERISK} => haircut' <= Scale \div 2
         /\ tier' < tier => tier' = tier - 1
<1>1. PICK e, r, b \in Readings, panic \in BOOLEAN : Evaluate(e, r, b, panic)
  BY DEF BreakerNext
<1> DEFINE score == CompositeShock(e, r, b)
           new == NextTier(score, panic)
<1>2. score \in 0..Scale
  BY ShockInRange
<1> HIDE DEF score
<1>3. new \in 0..3 /\ (new >= tier \/ new = tier - 1)
  BY <1>2, NextTierSteps DEF Recovering
<1>4. tier' = new /\ haircut' = ExecutionHaircut(new, score)
  BY <1>1 DEF Evaluate, score
<1> HIDE DEF new
<1>5. Scale \div 2 \in Nat /\ Scale - score \in Int
  BY <1>2, BreakerAssumption DEF BreakerConfig
<1>6. Min({Scale \div 2, ContinuousHaircut(score)}) <= Scale \div 2
  BY <1>5, ClampInRange, SmallerOfTwo DEF ContinuousHaircut
<1>7. new \in {HALT, DERISK, CAUTION} => haircut' <= Scale \div 2
  BY <1>4, <1>5, <1>6 DEF ExecutionHaircut, NORMAL, CAUTION, DERISK, HALT
<1> QED
  BY <1>3, <1>4, <1>7 DEF Recovering, NORMAL, CAUTION, DERISK, HALT

(* INV-CB-003: whatever the readings do, exposure comes back no sooner than*)
(* two dwell times after a halt, at most half sized after a bar without    *)
(* exposure, and one tier at a time.                                       *)
THEOREM RecoveryIsGradualHolds == BreakerSpec => RecoveryIsGradual
<1> DEFINE Stepwise == /\ tier \in {HALT, DERISK} => haircut' <= Scale \div 2
                       /\ tier' < tier => tier' = tier - 1
<1>1. Recovering => RecoveryTakesTwoDwells
  BY DEF Recovering, RecoveryTakesTwoDwells
<1>2. Recovering /\ [BreakerNext]_breakerVars => [Stepwise]_breakerVars
  BY StepwiseStep
<1> QED
  BY <1>1, <1>2, RecoveringInit, RecoveringStep, PTL
     DEF BreakerSpec, RecoveryIsGradual, ExposureReturnsInSteps

-----------------------------------------------------------------------------
(* AutonomousTrader.  Loop tasks and starts are different workers.         *)
LEMMA WorkersNamed ==
  /\ LoopIds \subseteq Workers /\ TraderStarts \subseteq Workers
  /\ LoopIds \cap TraderStarts = {} /\ LoopIds \cup TraderStarts = Workers
  /\ Nobody \notin Workers /\ LoopIds \subseteq Int
  BY TraderAssumption DEF Workers, LoopIds, TraderStarts, Nobody

LEMMA TargetInRange ==
  /\ CapLots \in Nat
  /\ prior \in -100..100 => TargetLots \in 0..CapLots
<1>1. UniverseSize * 20000 \in Nat \ {0} /\ Equity * 60 * 300 \in Nat /\ Equity * 20 \in Nat
  BY TraderAssumption
<1>2. (Equity * 60 * 300) \div (UniverseSize * 20000) \in Nat /\ (Equity * 20) \div 100 \in Nat
  <2>1. (Equity * 60 * 300) \div (UniverseSize * 20000) \in Nat
    BY <1>1, QuotientGrows
  <2>2. (Equity * 20) \div 100 \in Nat
    BY <1>1, QuotientGrows
  <2> QED BY <2>1, <2>2
<1>3. CapLots \in Nat
  BY <1>2, SmallerOfTwo DEF CapLots
<1>4. ASSUME prior \in -100..100 PROVE TargetLots \in 0..CapLots
  <2> DEFINE e == Equity * 60
  <2>0. e \in Nat /\ 200 + prior \in 0..300
    BY <1>4, TraderAssumption
  <2> HIDE DEF e
  <2>1. e * (200 + prior) \in Nat /\ e * (200 + prior) <= e * 300
    BY <2>0
  <2> DEFINE x == e * (200 + prior)
             y == e * 300
             u == UniverseSize * 20000
  <2>2. x \in Nat /\ y \in Nat /\ x <= y /\ u \in Nat \ {0}
    BY <2>1, <2>0, <1>1
  <2> HIDE DEF x, y, u
  <2>3. x \div u \in Nat /\ x \div u <= y \div u
    BY <2>2, QuotientGrows
  <2> QED BY <2>3, <1>2, SmallerOfTwo DEF TargetLots, CapLots, e, x, y, u
<1> QED BY <1>3, <1>4

LEMMA TraderTypeInit == TraderInit => TraderTypeOK
<1> SUFFICES ASSUME TraderInit PROVE TraderTypeOK
  OBVIOUS
<1> USE DEF TraderInit
<1>1. /\ at \in [Workers -> {"idle", "bars", "positions", "answered", "sleep", "done"}]
      /\ seenKill \in [Workers -> BOOLEAN] /\ snap \in [Workers -> Int]
      /\ halting \in [TraderStops -> LoopIds \cup {Nobody}]
  OBVIOUS
<1>2. /\ parent \in [ParentIds -> {"none", "queued", "connecting", "routing", "working", "closed"}]
      /\ lots \in [ParentIds -> Int]
  OBVIOUS
<1>3. /\ engine \in {"IDLE", "RUNNING", "PAUSED", "STOPPED", "ERROR"} /\ handle \in LoopIds \cup {Nobody}
      /\ cancelled \subseteq LoopIds /\ called \subseteq TraderStops
      /\ errors \in Nat /\ prior \in -100..100 /\ leaves \in Int /\ holding \in Int
  OBVIOUS
<1>4. killed \in BOOLEAN
  OBVIOUS
<1> HIDE DEF TraderInit
<1> QED BY <1>1, <1>2, <1>3, <1>4 DEF TraderTypeOK

(* What EnsureLoop and the end of a step do to the workers.                *)
LEMMA LoopEnsured ==
  ASSUME TraderTypeOK, NEW moved \in [Workers -> {"idle", "bars", "positions", "answered", "sleep", "done"}],
         EnsureLoop(moved)
  PROVE  /\ handle' \in LoopIds \cup {Nobody}
         /\ at' \in [Workers -> {"idle", "bars", "positions", "answered", "sleep", "done"}]
         /\ \A w \in Workers : at'[w] # moved[w] => at[w] = "idle" /\ at'[w] = "sleep"
<1>1. CASE LoopAlive(handle)
  BY <1>1 DEF EnsureLoop, TraderTypeOK
<1>2. CASE ~LoopAlive(handle)
  <2>1. PICK l \in LoopIds : /\ at[l] = "idle" /\ at' = [moved EXCEPT ![l] = "sleep"] /\ handle' = l
    BY <1>2 DEF EnsureLoop
  <2> QED BY <2>1, WorkersNamed
<1> QED BY <1>1, <1>2

LEMMA AfterStepTyped ==
  ASSUME TraderTypeOK, NEW w \in Workers, AfterStep(w)
  PROVE  /\ handle' \in LoopIds \cup {Nobody}
         /\ at' \in [Workers -> {"idle", "bars", "positions", "answered", "sleep", "done"}]
         /\ seenKill' \in [Workers -> BOOLEAN] /\ snap' \in [Workers -> Int] /\ errors' \in Nat
         /\ \A v \in Workers : at'[v] = "answered" => at[v] = "answered" /\ (v # w \/ at[w] = "idle")
                                                      /\ snap'[v] = snap[v]
<1> USE DEF TraderTypeOK
<1>1. seenKill' \in [Workers -> BOOLEAN] /\ snap' \in [Workers -> Int] /\ errors' \in Nat
  BY DEF AfterStep
<1>2. CASE w \in LoopIds
  BY <1>1, <1>2 DEF AfterStep
<1>3. CASE w \notin LoopIds
  <2>1. EnsureLoop([at EXCEPT ![w] = "done"])
    BY <1>3 DEF AfterStep
  <2>2. [at EXCEPT ![w] = "done"] \in [Workers -> {"idle", "bars", "positions", "answered", "sleep", "done"}]
    OBVIOUS
  <2>3. /\ handle' \in LoopIds \cup {Nobody}
        /\ at' \in [Workers -> {"idle", "bars", "positions", "answered", "sleep", "done"}]
        /\ \A v \in Workers : at'[v] # [at EXCEPT ![w] = "done"][v] => at[v] = "idle" /\ at'[v] = "sleep"
    BY <2>1, <2>2, LoopEnsured
  <2> QED BY <1>1, <2>3 DEF AfterStep
<1> QED BY <1>2, <1>3

LEMMA TraderTypeStep == TraderTypeOK /\ [TraderNext]_traderVars => TraderTypeOK'
<1> SUFFICES ASSUME TraderTypeOK, [TraderNext]_traderVars PROVE TraderTypeOK'
  OBVIOUS
<1> USE DEF TraderTypeOK
<1>1. ASSUME NEW c \in TraderStarts, TraderStart(c) PROVE TraderTypeOK'
  BY <1>1 DEF TraderStart, venue
<1>2. ASSUME NEW w \in Workers, BarsArrive(w) \/ PositionsArrive(w) PROVE TraderTypeOK'
  BY <1>2 DEF BarsArrive, PositionsArrive, venue
<1>3. ASSUME NEW w \in Workers, StepTrades(w) PROVE TraderTypeOK'
  <2>1. Delta(w) \in Int
    BY TargetInRange DEF Delta
  <2>2. parent' \in [ParentIds -> {"none", "queued", "connecting", "routing", "working", "closed"}]
        /\ lots' \in [ParentIds -> Int]
    BY <1>3, <2>1 DEF StepTrades
  <2> QED BY <1>3, <2>2, AfterStepTyped DEF StepTrades
<1>4. ASSUME NEW w \in Workers, StepPasses(w) \/ StepBlocked(w) PROVE TraderTypeOK'
  BY <1>4, AfterStepTyped DEF StepPasses, StepBlocked, venue
<1>5. ASSUME NEW w \in Workers, StepFails(w) PROVE TraderTypeOK'
  <2>1. CASE w \in LoopIds
    <3>1. engine' \in {"RUNNING", "IDLE", "PAUSED", "STOPPED", "ERROR"} /\ errors' \in Nat
      BY <1>5, <2>1 DEF StepFails
    <3> QED BY <1>5, <2>1, <3>1 DEF StepFails, venue
  <2>2. CASE w \notin LoopIds
    BY <1>5, <2>2, AfterStepTyped DEF StepFails, venue
  <2> QED BY <2>1, <2>2
<1>6. ASSUME NEW l \in LoopIds, LoopWakes(l) \/ LoopReturns(l) PROVE TraderTypeOK'
  <2>1. l \in Workers /\ 0 \in Int
    BY WorkersNamed
  <2>2. CASE LoopWakes(l)
    BY <2>1, <2>2 DEF LoopWakes, venue
  <2>3. CASE LoopReturns(l)
    <3>1. /\ at' \in [Workers -> {"idle", "bars", "positions", "answered", "sleep", "done"}]
          /\ seenKill' \in [Workers -> BOOLEAN] /\ snap' \in [Workers -> Int]
      BY <2>1, <2>3 DEF LoopReturns
    <3>2. cancelled' \subseteq LoopIds
      BY <2>3 DEF LoopReturns
    <3>3. UNCHANGED <<engine, handle, called, halting, errors, prior, killed, parent, lots, leaves, holding>>
      BY <2>3 DEF LoopReturns, venue
    <3> QED BY <3>1, <3>2, <3>3
  <2> QED BY <1>6, <2>2, <2>3
<1>7. ASSUME NEW z \in TraderStops, TraderStop(z) \/ TraderStopped(z) PROVE TraderTypeOK'
  BY <1>7 DEF TraderStop, TraderStopped, LoopAlive, venue
<1>8. ASSUME TraderPause PROVE TraderTypeOK'
  BY <1>8 DEF TraderPause, venue
<1>9. ASSUME TraderResume PROVE TraderTypeOK'
  BY <1>9, LoopEnsured DEF TraderResume, venue
<1>10. ASSUME NEW v \in {-200, 100}, UpdatePriors(v) PROVE TraderTypeOK'
  <2>1. Min({v, 100}) \in Int /\ Min({v, 100}) <= 100
    BY SmallerOfTwo
  <2>2. ASSUME NEW m \in Int, m <= 100 PROVE Max({-100, m}) \in -100..100
    <3>1. ASSUME NEW a \in Int PROVE Max({a, m}) = IF a >= m THEN a ELSE m
      BY <2>2, LargerOfTwo
    <3>2. Max({-100, m}) = IF -100 >= m THEN -100 ELSE m
      BY <3>1
    <3> QED BY <2>2, <3>2
  <2>3. Max({-100, Min({v, 100})}) \in -100..100
    BY <2>1, <2>2
  <2> QED BY <1>10, <2>3 DEF UpdatePriors, venue
<1>11. ASSUME NEW p \in ParentIds, TaskConnects(p) \/ TaskRoutes(p) \/ AnsweredNew(p) PROVE TraderTypeOK'
  BY <1>11 DEF TaskConnects, TaskRoutes, AnsweredNew, Close
<1>12. ASSUME NEW p \in ParentIds,
              \/ AnsweredFilled(p) \/ AnsweredRejected(p) \/ \E filled \in BOOLEAN : WorkingCloses(p, filled)
       PROVE  TraderTypeOK'
  BY <1>12 DEF AnsweredFilled, AnsweredRejected, WorkingCloses, Close
<1>13. ASSUME NEW k \in BOOLEAN, SetKill(k) PROVE TraderTypeOK'
  BY <1>13 DEF SetKill, venue
<1>14. CASE UNCHANGED traderVars
  BY <1>14 DEF traderVars, venue
<1> QED
  BY <1>1, <1>2, <1>3, <1>4, <1>5, <1>6, <1>7, <1>8, <1>9, <1>10, <1>11, <1>12, <1>13, <1>14 DEF TraderNext

-----------------------------------------------------------------------------
(* At most one loop is alive, and it is the handle's; a running stop waits *)
(* for that loop, which it has cancelled, and nobody starts meanwhile: as  *)
(* long as no start has overlapped a stop.                                 *)
SwarmHeld ==
  /\ \A l \in cancelled : LoopAlive(l)
  /\ ~raced =>
       /\ \A l \in LoopIds : LoopAlive(l) => handle = l
       /\ \A z \in TraderStops : Halting(z) /\ LoopAlive(handle) => halting[z] = handle
       /\ (\E z \in TraderStops : Halting(z)) =>
            engine = "STOPPED" /\ \A l \in LoopIds : LoopAlive(l) => l \in cancelled
       /\ engine = "STOPPED" => \A c \in TraderStarts : ~Stepping(c)
       /\ engine = "STOPPED" /\ (\E l \in LoopIds : LoopAlive(l)) => \E z \in TraderStops : Halting(z)

LEMMA SwarmHeldInit == TraderInit => SwarmHeld
  BY WorkersNamed DEF TraderInit, SwarmHeld, LoopAlive, Halting, Stepping

(* A loop made where none was alive is the only one, and has the handle.   *)
LEMMA EnsuredHeld ==
  ASSUME TraderTypeOK, SwarmHeld, NEW moved, EnsureLoop(moved),
         \/ moved = at
         \/ \E w \in TraderStarts : Stepping(w) /\ moved = [at EXCEPT ![w] = "done"],
         UNCHANGED <<cancelled, halting, raced>>, engine \notin {"STOPPED"}, engine' # "STOPPED"
  PROVE  SwarmHeld'
<1> USE DEF TraderTypeOK, SwarmHeld, LoopAlive, Halting, Stepping
<1>1. \A l \in LoopIds : moved[l] = at[l]
  BY WorkersNamed
<1>2. moved \in [Workers -> {"idle", "bars", "positions", "answered", "sleep", "done"}]
  BY WorkersNamed
<1>3. CASE LoopAlive(handle)
  BY <1>1, <1>3, WorkersNamed DEF EnsureLoop
<1>4. CASE ~LoopAlive(handle)
  <2>1. PICK l \in LoopIds : /\ at[l] = "idle" /\ at' = [moved EXCEPT ![l] = "sleep"] /\ handle' = l
    BY <1>4 DEF EnsureLoop
  <2>2. at'[l] = "sleep" /\ \A k \in LoopIds : k # l => at'[k] = at[k]
    BY <2>1, <1>1, <1>2, WorkersNamed
  <2>3. ~raced => \A k \in LoopIds : LoopAlive(k)' => k = l
    BY <2>2, <1>4
  <2> QED BY <2>1, <2>2, <2>3, WorkersNamed
<1> QED BY <1>3, <1>4

LEMMA StepEndsHeld ==
  ASSUME TraderTypeOK, SwarmHeld, NEW w \in Workers, Stepping(w), w \notin cancelled, AfterStep(w),
         UNCHANGED <<engine, cancelled, halting, raced>>
  PROVE  SwarmHeld'
<1>1. CASE w \in LoopIds
  BY <1>1, WorkersNamed DEF AfterStep, TraderTypeOK, SwarmHeld, LoopAlive, Halting, Stepping
<1>2. CASE w \notin LoopIds
  <2>1. w \in TraderStarts /\ EnsureLoop([at EXCEPT ![w] = "done"])
    BY <1>2, WorkersNamed DEF AfterStep
  <2>2. CASE raced
    <3>1. \A l \in cancelled : at'[l] = at[l] \/ at'[l] = "sleep"
      BY <2>1, WorkersNamed DEF EnsureLoop, TraderTypeOK
    <3> QED BY <3>1, <2>2 DEF SwarmHeld, LoopAlive
  <2>3. CASE ~raced
    BY <2>1, <2>3, EnsuredHeld DEF SwarmHeld
  <2> QED BY <2>2, <2>3
<1> QED BY <1>1, <1>2

LEMMA SwarmHeldStep == TraderTypeOK /\ SwarmHeld /\ [TraderNext]_traderVars => SwarmHeld'
<1> SUFFICES ASSUME TraderTypeOK, SwarmHeld, [TraderNext]_traderVars PROVE SwarmHeld'
  OBVIOUS
<1> DEFINE Same == UNCHANGED <<engine, handle, at, cancelled, halting, raced>>
<1>0. ASSUME Same PROVE SwarmHeld'
  BY <1>0 DEF SwarmHeld, LoopAlive, Halting, Stepping
<1> HIDE DEF Same
<1>1. ASSUME NEW c \in TraderStarts, TraderStart(c) PROVE SwarmHeld'
  BY <1>1, WorkersNamed DEF TraderStart, TraderTypeOK, SwarmHeld, LoopAlive, Halting, Stepping
<1>2. ASSUME NEW w \in Workers, BarsArrive(w) \/ PositionsArrive(w) PROVE SwarmHeld'
  <2>1. /\ Stepping(w) /\ UNCHANGED <<engine, handle, cancelled, halting, raced>>
        /\ at'[w] \in {"positions", "answered"} /\ \A v \in Workers : v # w => at'[v] = at[v]
    BY <1>2 DEF BarsArrive, PositionsArrive, traderHistory, TraderTypeOK, Stepping
  <2> QED BY <2>1, WorkersNamed DEF TraderTypeOK, SwarmHeld, LoopAlive, Halting, Stepping
<1>3. ASSUME NEW w \in Workers, StepTrades(w) \/ StepPasses(w) \/ StepBlocked(w) PROVE SwarmHeld'
  BY <1>3, StepEndsHeld DEF StepTrades, StepPasses, StepBlocked, traderHistory, Stepping
<1>4. ASSUME NEW w \in Workers, StepFails(w) PROVE SwarmHeld'
  <2>1. CASE w \in LoopIds
    BY <1>4, <2>1, WorkersNamed DEF StepFails, TraderTypeOK, SwarmHeld, LoopAlive, Halting, Stepping
  <2>2. CASE w \notin LoopIds
    BY <1>4, <2>2, StepEndsHeld DEF StepFails, Stepping
  <2> QED BY <2>1, <2>2
<1>5. ASSUME NEW l \in LoopIds, LoopWakes(l) PROVE SwarmHeld'
  BY <1>5, WorkersNamed DEF LoopWakes, TraderTypeOK, SwarmHeld, LoopAlive, Halting, Stepping
<1>6. ASSUME NEW l \in LoopIds, LoopReturns(l) PROVE SwarmHeld'
  <2>1. /\ at'[l] = "done" /\ \A k \in Workers : k # l => at'[k] = at[k]
        /\ cancelled' = cancelled \ {l} /\ UNCHANGED <<engine, handle, halting, raced>>
    BY <1>6, WorkersNamed DEF LoopReturns, traderHistory, TraderTypeOK
  <2> QED BY <2>1, WorkersNamed DEF TraderTypeOK, SwarmHeld, LoopAlive, Halting, Stepping
<1>7. ASSUME NEW z \in TraderStops, TraderStop(z) PROVE SwarmHeld'
  <2> USE DEF TraderTypeOK, SwarmHeld, LoopAlive, Halting, Stepping
  <2>1. CASE LoopAlive(handle)
    <3>1. /\ handle \in LoopIds /\ halting' = [halting EXCEPT ![z] = handle] /\ engine' = "STOPPED"
          /\ cancelled' = cancelled \cup {handle} /\ UNCHANGED <<handle, at>>
          /\ ~raced' => ~raced /\ \A c \in TraderStarts : ~Stepping(c)
      BY <1>7, <2>1 DEF TraderStop
    <3>2. halting'[z] = handle /\ \A y \in TraderStops : y # z => halting'[y] = halting[y]
      BY <3>1
    <3>3. handle # Nobody /\ Halting(z)'
      BY <3>2, <2>1
    <3> QED BY <2>1, <3>1, <3>2, <3>3
  <2>2. CASE ~LoopAlive(handle)
    BY <1>7, <2>2, WorkersNamed DEF TraderStop
  <2> QED BY <2>1, <2>2
<1>8. ASSUME NEW z \in TraderStops, TraderStopped(z) PROVE SwarmHeld'
  BY <1>8, WorkersNamed DEF TraderStopped, traderHistory, TraderTypeOK, SwarmHeld, LoopAlive, Halting, Stepping
<1>9. ASSUME TraderPause PROVE SwarmHeld'
  BY <1>9 DEF TraderPause, SwarmHeld, LoopAlive, Halting, Stepping
<1>10. ASSUME TraderResume PROVE SwarmHeld'
  BY <1>10, EnsuredHeld DEF TraderResume, traderHistory
<1>11. ASSUME NEW v \in {-200, 100}, UpdatePriors(v) PROVE Same
  BY <1>11 DEF UpdatePriors, Same
<1>12. ASSUME NEW p \in ParentIds, TaskConnects(p) \/ TaskRoutes(p) \/ AnsweredNew(p) PROVE Same
  BY <1>12 DEF TaskConnects, TaskRoutes, AnsweredNew, traderHistory, Same
<1>13. ASSUME NEW p \in ParentIds,
              \/ AnsweredFilled(p) \/ AnsweredRejected(p) \/ \E filled \in BOOLEAN : WorkingCloses(p, filled)
       PROVE  Same
  BY <1>13 DEF AnsweredFilled, AnsweredRejected, WorkingCloses, Same
<1>14. ASSUME NEW k \in BOOLEAN, SetKill(k) PROVE Same
  BY <1>14 DEF SetKill, Same
<1>15. CASE UNCHANGED traderVars
  <2>1. Same
    BY <1>15 DEF traderVars, traderHistory, Same
  <2> QED BY <2>1, <1>0
<1> QED
  BY <1>0, <1>1, <1>2, <1>3, <1>4, <1>5, <1>6, <1>7, <1>8, <1>9, <1>10, <1>11, <1>12, <1>13, <1>14, <1>15
     DEF TraderNext

-----------------------------------------------------------------------------
(* The task of the order has not reserved its lots.                        *)
Pending(p) == parent[p] \in {"queued", "connecting"}
(* No later order exists.                                                  *)
Newest(p) == \A q \in ParentIds : q > p => parent[q] = "none"
(* All lots under way.                                                     *)
Sent == SumOver(lots, ParentIds)

(* Ledger and venue together: only the newest order's lots can be missing  *)
(* from leaves, and what is held and booked is within the largest target   *)
(* with those lots, without them, and if the newest order is refused.      *)
LotsBooked ==
  /\ \A p, q \in ParentIds : q < p /\ parent[p] # "none" => parent[q] # "none"
  /\ \A p \in ParentIds : parent[p] \in {"none", "closed"} => lots[p] = 0
  /\ ~adrift =>
       /\ \A w \in Workers : at[w] = "answered" => snap[w] = holding
       /\ holding + leaves \in 0..CapLots
       /\ (\A p \in ParentIds : ~Pending(p)) => Sent = leaves
       /\ \A p \in ParentIds : Pending(p) =>
            Newest(p) /\ Sent = leaves + lots[p] /\ holding + leaves + lots[p] \in 0..CapLots
       /\ \A p \in ParentIds : parent[p] = "routing" /\ Newest(p) => holding + leaves - lots[p] \in 0..CapLots

LEMMA ParentsNamed == ParentIds \subseteq Int /\ IsFiniteSet(ParentIds)
  BY TraderAssumption, FS_Interval DEF ParentIds

LEMMA SentIsSum == Exposed = holding + Sent
  BY DEF Exposed, Sent, SumOver

LEMMA LotsBookedInit == TraderInit => LotsBooked
<1> SUFFICES ASSUME TraderInit PROVE LotsBooked
  OBVIOUS
<1>1. /\ \A p \in ParentIds : parent[p] = "none" /\ lots[p] = 0
      /\ \A w \in Workers : at[w] = "idle"
      /\ holding = 0 /\ leaves = 0
  BY DEF TraderInit
<1>2. Sent = 0
  BY <1>1, ParentsNamed, SumZero DEF Sent
<1> QED BY <1>1, <1>2, TargetInRange DEF LotsBooked, Pending

(* What a step does that leaves the orders and the positions alone.        *)
LEMMA OrdersAlone ==
  ASSUME LotsBooked, UNCHANGED <<venue, adrift>>,
         \A w \in Workers : at'[w] = "answered" => snap'[w] = holding \/ (at[w] = "answered" /\ snap'[w] = snap[w])
  PROVE  LotsBooked'
<1>1. Sent' = Sent /\ CapLots' = CapLots
  BY DEF venue, Sent, CapLots
<1> QED BY <1>1 DEF LotsBooked, Pending, Newest, venue

(* What changing one order's lots does to the sum.                         *)
LEMMA SentChange ==
  ASSUME NEW f, \A q \in ParentIds : f[q] \in Int, NEW p \in ParentIds,
         NEW k, k[p] \in Int, \A q \in ParentIds \ {p} : k[q] = f[q]
  PROVE  SumOver(k, ParentIds) = SumOver(f, ParentIds) - f[p] + k[p]
<1>1. IsFiniteSet(ParentIds)
  BY ParentsNamed
<1> QED BY <1>1, SumChange

LEMMA LotsChange ==
  ASSUME TraderTypeOK, NEW p \in ParentIds, lots'[p] \in Int, \A q \in ParentIds : q # p => lots'[q] = lots[q]
  PROVE  Sent \in Int /\ Sent' = Sent - lots[p] + lots'[p]
<1>1. \A q \in ParentIds : lots[q] \in Int
  BY DEF TraderTypeOK
<1>2. Sent \in Int
  BY <1>1, ParentsNamed, SumInt DEF Sent
<1>3. SumOver(lots', ParentIds) = SumOver(lots, ParentIds) - lots[p] + lots'[p]
  BY <1>1, SentChange
<1> QED BY <1>2, <1>3 DEF Sent

LEMMA LotsBookedStep == TraderTypeOK /\ LotsBooked /\ [TraderNext]_traderVars => LotsBooked'
<1> SUFFICES ASSUME TraderTypeOK, LotsBooked, [TraderNext]_traderVars PROVE LotsBooked'
  OBVIOUS
<1>0. CapLots' = CapLots /\ CapLots \in Nat
  BY TargetInRange DEF CapLots
<1>1. ASSUME NEW c \in TraderStarts, TraderStart(c) PROVE LotsBooked'
  BY <1>1, OrdersAlone, WorkersNamed DEF TraderStart, TraderTypeOK
<1>2. ASSUME NEW w \in Workers, BarsArrive(w) PROVE LotsBooked'
  BY <1>2, OrdersAlone DEF BarsArrive, traderHistory, TraderTypeOK
<1>3. ASSUME NEW w \in Workers, PositionsArrive(w) PROVE LotsBooked'
  BY <1>3, OrdersAlone DEF PositionsArrive, traderHistory, TraderTypeOK
<1>4. ASSUME NEW w \in Workers, StepTrades(w) PROVE LotsBooked'
  <2>1. PICK p \in ParentIds :
          /\ parent[p] = "none" /\ \A k \in 1..(p - 1) : parent[k] # "none"
          /\ parent' = [parent EXCEPT ![p] = "queued"] /\ lots' = [lots EXCEPT ![p] = Delta(w)]
    BY <1>4 DEF StepTrades
  <2>2. Delta(w) \in Int /\ TargetLots \in 0..CapLots /\ Delta(w) = TargetLots - (snap[w] + leaves)
    BY TargetInRange DEF Delta, TraderTypeOK
  <2>3. /\ lots'[p] = Delta(w) /\ \A q \in ParentIds : q # p => lots'[q] = lots[q]
        /\ Sent \in Int /\ Sent' = Sent - lots[p] + Delta(w)
    <3>1. lots'[p] = Delta(w) /\ \A q \in ParentIds : q # p => lots'[q] = lots[q]
      BY <2>1 DEF TraderTypeOK
    <3> QED BY <3>1, <2>2, LotsChange
  <2>4. parent'[p] = "queued" /\ \A q \in ParentIds : q # p => parent'[q] = parent[q]
    BY <2>1 DEF TraderTypeOK
  <2>5. lots[p] = 0 /\ Newest(p)
    BY <2>1, ParentsNamed DEF LotsBooked, Newest, ParentIds
  <2>6. \A v \in Workers : at'[v] = "answered" => at[v] = "answered" /\ snap'[v] = snap[v]
    BY <1>4, AfterStepTyped DEF StepTrades
  <2>7. UNCHANGED <<leaves, holding>> /\ leaves \in Int /\ holding \in Int
    BY <1>4 DEF StepTrades, TraderTypeOK
  <2>8. (\A r, q \in ParentIds : q < r /\ parent'[r] # "none" => parent'[q] # "none")
        /\ \A q \in ParentIds : parent'[q] \in {"none", "closed"} => lots'[q] = 0
    BY <2>1, <2>3, <2>4, <2>5, ParentsNamed DEF LotsBooked, Newest, ParentIds
  <2>9. ASSUME ~adrift' PROVE
          /\ ~adrift /\ \A q \in ParentIds : ~Pending(q)
          /\ snap[w] = holding
    BY <1>4, <2>9 DEF StepTrades, LotsBooked, Pending
  <2>10. ASSUME ~adrift' PROVE
          /\ Sent' = leaves + lots'[p] /\ holding + leaves + lots'[p] \in 0..CapLots
          /\ holding + leaves \in 0..CapLots
          /\ \A v \in Workers : at'[v] = "answered" => snap'[v] = holding
    BY <2>2, <2>3, <2>5, <2>6, <2>7, <2>9, <2>10 DEF LotsBooked
  <2>11. ASSUME ~adrift', NEW q \in ParentIds, q # p PROVE
          ~Pending(q)' /\ (parent'[q] = "routing" => ~Newest(q)')
    BY <2>1, <2>4, <2>5, <2>9, <2>11, ParentsNamed DEF Pending, Newest, LotsBooked, ParentIds
  <2>12. Newest(p)' /\ Pending(p)'
    BY <2>4, <2>5, ParentsNamed DEF Newest, Pending
  <2> QED BY <1>0, <2>4, <2>7, <2>8, <2>10, <2>11, <2>12 DEF LotsBooked
<1>5. ASSUME NEW w \in Workers, StepPasses(w) \/ StepBlocked(w) PROVE LotsBooked'
  <2>1. \A v \in Workers : at'[v] = "answered" => at[v] = "answered" /\ snap'[v] = snap[v]
    BY <1>5, AfterStepTyped DEF StepPasses, StepBlocked
  <2> QED BY <1>5, <2>1, OrdersAlone DEF StepPasses, StepBlocked, traderHistory
<1>6. ASSUME NEW w \in Workers, StepFails(w) PROVE LotsBooked'
  <2>1. \A v \in Workers : at'[v] = "answered" => at[v] = "answered" /\ snap'[v] = snap[v]
    <3>1. CASE w \in LoopIds
      BY <1>6, <3>1 DEF StepFails, TraderTypeOK
    <3>2. CASE w \notin LoopIds
      BY <1>6, <3>2, AfterStepTyped DEF StepFails
    <3> QED BY <3>1, <3>2
  <2> QED BY <1>6, <2>1, OrdersAlone DEF StepFails
<1>7. ASSUME NEW l \in LoopIds, LoopWakes(l) PROVE LotsBooked'
  BY <1>7, OrdersAlone, WorkersNamed DEF LoopWakes, TraderTypeOK
<1>8. ASSUME NEW l \in LoopIds, LoopReturns(l) PROVE LotsBooked'
  BY <1>8, OrdersAlone, WorkersNamed DEF LoopReturns, traderHistory, TraderTypeOK
<1>9. ASSUME NEW z \in TraderStops, TraderStop(z) \/ TraderStopped(z) PROVE LotsBooked'
  BY <1>9, OrdersAlone DEF TraderStop, TraderStopped, traderHistory
<1>10. ASSUME TraderPause \/ (\E v \in {-200, 100} : UpdatePriors(v)) \/ (\E k \in BOOLEAN : SetKill(k))
       PROVE  LotsBooked'
  BY <1>10, OrdersAlone DEF TraderPause, UpdatePriors, SetKill
<1>11. ASSUME TraderResume PROVE LotsBooked'
  <2>1. \A v \in Workers : at'[v] = "answered" => at[v] = "answered" /\ snap'[v] = snap[v]
    <3>1. \A v \in Workers : at'[v] # at[v] => at'[v] = "sleep"
      BY <1>11, LoopEnsured DEF TraderResume, TraderTypeOK
    <3> QED BY <1>11, <3>1 DEF TraderResume
  <2> QED BY <1>11, <2>1, OrdersAlone DEF TraderResume, traderHistory
<1>12. ASSUME UNCHANGED traderVars PROVE LotsBooked'
  BY <1>12, OrdersAlone DEF traderVars, traderHistory
<1>13. ASSUME NEW p \in ParentIds, TaskConnects(p) PROVE LotsBooked'
  <2>1. /\ parent[p] = "queued" /\ parent'[p] = "connecting"
        /\ \A q \in ParentIds : q # p => parent'[q] = parent[q]
        /\ UNCHANGED <<lots, leaves, holding, adrift, at, snap>>
    BY <1>13 DEF TaskConnects, TraderTypeOK
  <2>2. Sent' = Sent
    BY <2>1 DEF Sent
  <2> QED BY <1>0, <2>1, <2>2, ParentsNamed DEF LotsBooked, Pending, Newest
<1>14. ASSUME NEW p \in ParentIds, TaskRoutes(p) PROVE LotsBooked'
  <2>0. /\ Pending(p) /\ UNCHANGED <<holding, adrift, at, snap>>
        /\ leaves \in Int /\ holding \in Int /\ \A q \in ParentIds : lots[q] \in Int
    BY <1>14 DEF TaskRoutes, traderHistory, Pending, TraderTypeOK
  <2>3. ASSUME ~adrift, NEW q \in ParentIds, q # p PROVE ~Pending(q) /\ (parent[q] = "routing" => ~Newest(q))
    <3>1. p < q \/ q < p
      BY <2>3, ParentsNamed
    <3>2. Newest(p) /\ (Pending(q) => Newest(q))
      BY <2>0, <2>3 DEF LotsBooked
    <3> QED BY <2>0, <3>1, <3>2 DEF Newest, Pending
  <2>4. ASSUME ~adrift PROVE
          /\ Sent = leaves + lots[p] /\ holding + leaves + lots[p] \in 0..CapLots
          /\ holding + leaves \in 0..CapLots /\ Newest(p)
    BY <2>0, <2>4 DEF LotsBooked
  <2>1. CASE killed
    <3>1. /\ parent' = [parent EXCEPT ![p] = "closed"] /\ lots' = [lots EXCEPT ![p] = 0] /\ leaves' = leaves
      BY <1>14, <2>1 DEF TaskRoutes, Close
    <3>2. parent'[p] = "closed" /\ \A q \in ParentIds : q # p => parent'[q] = parent[q]
      BY <3>1 DEF TraderTypeOK
    <3>3. /\ lots'[p] = 0 /\ \A q \in ParentIds : q # p => lots'[q] = lots[q]
          /\ Sent \in Int /\ Sent' = Sent - lots[p]
      <4>1. lots'[p] = 0 /\ \A q \in ParentIds : q # p => lots'[q] = lots[q]
        BY <3>1 DEF TraderTypeOK
      <4> QED BY <4>1, <2>0, LotsChange
    <3>4. \A q \in ParentIds : Newest(q)' <=> Newest(q)
      BY <2>0, <3>2 DEF Newest, Pending
    <3> QED BY <1>0, <2>0, <2>3, <2>4, <3>1, <3>2, <3>3, <3>4, ParentsNamed DEF LotsBooked, Pending
  <2>2. CASE ~killed
    <3>1. /\ parent' = [parent EXCEPT ![p] = "routing"] /\ lots' = lots /\ leaves' = leaves + lots[p]
      BY <1>14, <2>2 DEF TaskRoutes
    <3>2. parent'[p] = "routing" /\ \A q \in ParentIds : q # p => parent'[q] = parent[q]
      BY <3>1 DEF TraderTypeOK
    <3>3. Sent' = Sent
      BY <3>1 DEF Sent
    <3>4. \A q \in ParentIds : Newest(q)' <=> Newest(q)
      BY <2>0, <3>2 DEF Newest, Pending
    <3> QED BY <1>0, <2>0, <2>3, <2>4, <3>1, <3>2, <3>3, <3>4, ParentsNamed DEF LotsBooked, Pending
  <2> QED BY <2>1, <2>2
<1>15. ASSUME NEW p \in ParentIds, AnsweredFilled(p) \/ AnsweredRejected(p) PROVE LotsBooked'
  <2>0. /\ parent[p] = "routing" /\ UNCHANGED <<at, snap>>
        /\ leaves' = leaves - lots[p] /\ holding' \in {holding, holding + lots[p]}
        /\ holding' = holding + lots[p] \/ (adrift' \/ Newest(p))
        /\ leaves \in Int /\ holding \in Int /\ \A q \in ParentIds : lots[q] \in Int
        /\ parent' = [parent EXCEPT ![p] = "closed"] /\ lots' = [lots EXCEPT ![p] = 0]
    BY <1>15 DEF AnsweredFilled, AnsweredRejected, Close, Newest, TraderTypeOK
  <2>1. adrift' \/ (~adrift /\ \A w \in Workers : at[w] # "answered")
    BY <1>15 DEF AnsweredFilled, AnsweredRejected, SnapshotOut
  <2>2. parent'[p] = "closed" /\ \A q \in ParentIds : q # p => parent'[q] = parent[q]
    BY <2>0 DEF TraderTypeOK
  <2>3. /\ lots'[p] = 0 /\ \A q \in ParentIds : q # p => lots'[q] = lots[q]
        /\ Sent \in Int /\ Sent' = Sent - lots[p]
    <3>1. lots'[p] = 0 /\ \A q \in ParentIds : q # p => lots'[q] = lots[q]
      BY <2>0 DEF TraderTypeOK
    <3> QED BY <3>1, <2>0, LotsChange
  <2>5. \A q \in ParentIds : Newest(q)' <=> Newest(q)
    BY <2>0, <2>2 DEF Newest
  <2>6. ASSUME holding' = holding + lots[p] PROVE LotsBooked'
    BY <1>0, <2>0, <2>1, <2>2, <2>3, <2>5, <2>6, ParentsNamed DEF LotsBooked, Pending
  <2>7. ASSUME holding' = holding, adrift' \/ Newest(p) PROVE LotsBooked'
    <3>1. ASSUME Newest(p), ~adrift', NEW q \in ParentIds, q # p
          PROVE  ~Pending(q)' /\ (parent'[q] = "routing" => ~Newest(q)')
      <4>1. p < q \/ q < p
        BY <3>1, ParentsNamed
      <4>2. Pending(q) => Newest(q)
        BY <3>1, <2>1 DEF LotsBooked
      <4>3. q < p => ~Newest(q)
        BY <2>0 DEF Newest
      <4>4. p < q => parent[q] = "none"
        BY <3>1 DEF Newest
      <4> QED BY <3>1, <4>1, <4>2, <4>3, <4>4, <2>2, <2>5 DEF Pending, LotsBooked
    <3>2. ASSUME Newest(p), ~adrift' PROVE Sent = leaves
      BY <3>2, <3>1, <2>0, <2>1, <2>2, ParentsNamed DEF LotsBooked, Pending
    <3>3. ASSUME Newest(p), ~adrift' PROVE holding + leaves - lots[p] \in 0..CapLots
      BY <3>3, <2>0, <2>1 DEF LotsBooked
    <3>4. ~Pending(p)' /\ \A q \in ParentIds : parent'[q] # "none" <=> parent[q] # "none"
      BY <2>0, <2>2 DEF Pending
    <3>5. \A q \in ParentIds : parent'[q] \in {"none", "closed"} => lots'[q] = 0
      BY <2>2, <2>3 DEF LotsBooked
    <3>6. adrift' \/ (Newest(p) /\ ~adrift')
      BY <2>7
    <3> QED BY <1>0, <2>0, <2>1, <2>2, <2>3, <2>7, <3>1, <3>2, <3>3, <3>4, <3>5, <3>6 DEF LotsBooked
  <2> QED BY <2>0, <2>6, <2>7
<1>16. ASSUME NEW p \in ParentIds, AnsweredNew(p) PROVE LotsBooked'
  <2>1. /\ parent[p] = "routing" /\ parent'[p] = "working"
        /\ \A q \in ParentIds : q # p => parent'[q] = parent[q]
        /\ UNCHANGED <<lots, leaves, holding, adrift, at, snap>>
    BY <1>16 DEF AnsweredNew, TraderTypeOK
  <2>2. Sent' = Sent
    BY <2>1 DEF Sent
  <2> QED BY <1>0, <2>1, <2>2, ParentsNamed DEF LotsBooked, Pending, Newest
<1>17. ASSUME NEW p \in ParentIds, NEW filled \in BOOLEAN, WorkingCloses(p, filled) PROVE LotsBooked'
  <2>1. /\ parent[p] = "working" /\ parent'[p] = "closed" /\ lots'[p] = 0 /\ adrift'
        /\ \A q \in ParentIds : q # p => parent'[q] = parent[q] /\ lots'[q] = lots[q]
    BY <1>17 DEF WorkingCloses, Close, TraderTypeOK
  <2> QED BY <2>1, ParentsNamed DEF LotsBooked
<1> QED
  BY <1>1, <1>2, <1>3, <1>4, <1>5, <1>6, <1>7, <1>8, <1>9, <1>10, <1>11, <1>12, <1>13, <1>14, <1>15, <1>16,
     <1>17 DEF TraderNext

-----------------------------------------------------------------------------
SwarmInvariant == TraderTypeOK /\ SwarmHeld /\ LotsBooked

LEMMA SwarmInductive == TraderSpec => []SwarmInvariant
<1>1. TraderInit => SwarmInvariant
  BY TraderTypeInit, SwarmHeldInit, LotsBookedInit DEF SwarmInvariant
<1>2. SwarmInvariant /\ [TraderNext]_traderVars => SwarmInvariant'
  BY TraderTypeStep, SwarmHeldStep, LotsBookedStep DEF SwarmInvariant
<1> QED BY <1>1, <1>2, PTL DEF TraderSpec

(* One loop under its handle, none left by a finished stop, no more lots   *)
(* than the largest target, no order sent after the switch: for any number *)
(* of starts, stops, loops, orders and faults and for any equity.          *)
THEOREM SwarmControlledHolds == TraderSpec => SwarmControlled
<1>1. SwarmInvariant => TraderTypeOK /\ SingleSwarmLoop /\ StoppedSwarmIsIdle
  BY DEF SwarmInvariant, SwarmHeld, SingleSwarmLoop, StoppedSwarmIsIdle
<1>2. SwarmInvariant => AllocationRespected
  <2> SUFFICES ASSUME SwarmInvariant, ~adrift PROVE Exposed \in 0..CapLots
    BY DEF AllocationRespected
  <2>1. /\ holding \in Int /\ leaves \in Int /\ \A p \in ParentIds : lots[p] \in Int
        /\ CapLots \in Nat
    BY TargetInRange DEF SwarmInvariant, TraderTypeOK
  <2>2. CASE \A p \in ParentIds : ~Pending(p)
    BY <2>1, <2>2, SentIsSum DEF SwarmInvariant, LotsBooked
  <2>3. ASSUME NEW p \in ParentIds, Pending(p) PROVE Exposed \in 0..CapLots
    BY <2>1, <2>3, SentIsSum DEF SwarmInvariant, LotsBooked
  <2> QED BY <2>2, <2>3
<1>3. SwarmInvariant /\ [TraderNext]_traderVars =>
        [killed /\ killed' => \A p \in ParentIds :
           parent'[p] \in {"routing", "working"} => parent[p] \notin {"queued", "connecting"}]_traderVars
  <2> SUFFICES ASSUME TraderTypeOK, TraderNext, killed, killed', NEW p \in ParentIds,
                      parent'[p] \in {"routing", "working"}
               PROVE  parent[p] \notin {"queued", "connecting"}
    BY DEF SwarmInvariant
  <2>0. ASSUME UNCHANGED parent PROVE parent[p] \notin {"queued", "connecting"}
    BY <2>0
  <2>1. ASSUME NEW w \in Workers, StepTrades(w) PROVE FALSE
    BY <2>1 DEF StepTrades
  <2>2. ASSUME NEW q \in ParentIds, TaskConnects(q) PROVE FALSE
    BY <2>2 DEF TaskConnects
  <2>3. ASSUME NEW q \in ParentIds, TaskRoutes(q) PROVE parent[p] \notin {"queued", "connecting"}
    BY <2>3 DEF TaskRoutes, Close, TraderTypeOK
  <2>4. ASSUME NEW q \in ParentIds,
               \/ AnsweredFilled(q) \/ AnsweredRejected(q) \/ AnsweredNew(q)
               \/ \E filled \in BOOLEAN : WorkingCloses(q, filled)
        PROVE  parent[p] \notin {"queued", "connecting"}
    BY <2>4 DEF AnsweredFilled, AnsweredRejected, AnsweredNew, WorkingCloses, Close, TraderTypeOK
  <2> QED
    BY <2>0, <2>1, <2>2, <2>3, <2>4
       DEF TraderNext, TraderStart, BarsArrive, PositionsArrive, StepPasses, StepBlocked, StepFails, LoopWakes,
           LoopReturns, TraderStop, TraderStopped, TraderPause, TraderResume, UpdatePriors, SetKill, venue
<1> QED BY <1>1, <1>2, <1>3, SwarmInductive, PTL DEF SwarmControlled, KillStopsSwarm, TraderSpec

-----------------------------------------------------------------------------
(* OrderLifecycle: one order between client and broker.                    *)

OrderRecord ==
  [clOrdId : Orders, state : OrderStates, quantity : {Quantity},
   filled : 0..Quantity, quote : 0..Quantity, fees : Nat]

(* A report on the wire is a truthful snapshot of the broker's past: its   *)
(* quantity was reached, and a terminal report is the broker's last word.  *)
WireTruthful ==
  \A r \in wire :
    /\ r.cum <= broker[r.clOrdId].cum
    /\ r.execType \in TerminalStates =>
         /\ r.execType = broker[r.clOrdId].state
         /\ r.cum = broker[r.clOrdId].cum

IdsMatch == \A i \in Orders : order[i].clOrdId = i

(* The inductive invariant behind NeverAheadOfBroker and TerminalAgreement.*)
IInv ==
  /\ TypeOK
  /\ IdsMatch
  /\ WireTruthful
  /\ NeverAheadOfBroker
  /\ TerminalAgreement

-----------------------------------------------------------------------------
(* What apply_execution_report may do to an order: either nothing but an   *)
(* acknowledgement, or exactly what the report says, and then the order    *)
(* was not terminal and its quantity does not shrink.                      *)
LEMMA ApplyEffect ==
  ASSUME NEW o \in OrderRecord, NEW r \in Reports
  PROVE  /\ ApplyExecutionReport(o, r) \in OrderRecord
         /\ ApplyExecutionReport(o, r).clOrdId = o.clOrdId
         /\ IsTerminal(o) => ApplyExecutionReport(o, r) = o
         /\ ApplyExecutionReport(o, r).filled >= o.filled
         /\ \/ /\ ApplyExecutionReport(o, r).filled = o.filled
               /\ \/ ApplyExecutionReport(o, r).state = o.state
                  \/ ApplyExecutionReport(o, r).state = "NEW"
            \/ /\ ApplyExecutionReport(o, r).filled = r.cum
               /\ ApplyExecutionReport(o, r).state = r.execType
<1> USE QuantityAssumption DEF OrderRecord, Reports
<1>1. CASE ~ReportAdmissible(o, r)
  BY <1>1 DEF ApplyExecutionReport
<1>2. CASE ReportAdmissible(o, r)
  <2> DEFINE a == Acknowledged(o, r.execType)
  <2>1. /\ a \in OrderRecord
        /\ a.clOrdId = o.clOrdId
        /\ a.filled = o.filled
        /\ a.fees = o.fees
        /\ a.state = o.state \/ a.state = "NEW"
    BY DEF Acknowledged, OrderStates
  <2>2. r.cum >= o.filled /\ ~IsTerminal(o)
    BY <1>2 DEF ReportAdmissible
  <2> HIDE DEF a
  <2>3. CASE ~CanTransition(a.state, r.execType)
    <3>1. ApplyExecutionReport(o, r) = a
      BY <1>2, <2>3 DEF ApplyExecutionReport, a
    <3> QED
      BY <3>1, <2>1, <2>2
  <2>4. CASE CanTransition(a.state, r.execType)
    <3>1. ApplyExecutionReport(o, r) =
            [a EXCEPT !.filled = r.cum, !.quote = r.quote,
                      !.fees = @ + r.fee, !.state = r.execType]
      BY <1>2, <2>4 DEF ApplyExecutionReport, a
    <3> DEFINE n == ApplyExecutionReport(o, r)
    <3>2. /\ n.filled = r.cum
          /\ n.state = r.execType
          /\ n.clOrdId = o.clOrdId
      BY <3>1, <2>1
    <3>3. a.fees + r.fee \in Nat /\ r.cum \in 0..Quantity /\ r.quote \in 0..Quantity
      BY <2>1
    <3>4. n \in OrderRecord
      BY <3>1, <3>3, <2>1
    <3>5. r.cum >= o.filled
      BY <2>2
    <3> QED
      BY <3>2, <3>4, <3>5, <2>2
  <2> QED
    BY <2>3, <2>4
<1> QED
  BY <1>1, <1>2

(* A transition requested by the client changes the state of a live order  *)
(* only, and to PENDING_CANCEL here.                                       *)
LEMMA CancelEffect ==
  ASSUME NEW o \in OrderRecord, CanTransition(o.state, "PENDING_CANCEL")
  PROVE  /\ Transition(o, "PENDING_CANCEL") = [o EXCEPT !.state = "PENDING_CANCEL"]
         /\ ~IsTerminal(o)
<1>1. ~IsTerminal(o) /\ o.state \in OrderStates
  BY DEF CanTransition, ValidTransitions, IsTerminal, TerminalStates, OrderStates, OrderRecord
<1>2. Acknowledged(o, "PENDING_CANCEL") = o
  BY DEF Acknowledged
<1> QED
  BY <1>1, <1>2 DEF Transition

(* The broker's reports and its own state: Send keeps the wire truthful and*)
(* touches nothing of the client.                                          *)
LEMMA SendStep ==
  ASSUME IInv, NEW i \in Orders, NEW s \in OrderStates, NEW q \in 0..Quantity,
         broker[i].state \notin TerminalStates,
         broker[i].cum + q <= Quantity,
         Send(i, s, q)
  PROVE  IInv'
<1> USE QuantityAssumption
<1> DEFINE c == broker[i].cum + q
           r == [clOrdId |-> i, execType |-> s, cum |-> c, quote |-> c, fee |-> q]
<1>1. /\ TypeOK /\ WireTruthful /\ IdsMatch
      /\ NeverAheadOfBroker /\ TerminalAgreement
  BY DEF IInv
<1>2. /\ c \in 0..Quantity
      /\ c >= broker[i].cum
      /\ broker[i].cum \in 0..Quantity
      /\ broker[i].fees + q \in Nat
  BY <1>1 DEF TypeOK
<1>3. /\ broker' = [broker EXCEPT ![i] = [state |-> s, cum |-> c, fees |-> broker[i].fees + q]]
      /\ wire' = wire \cup {r}
      /\ UNCHANGED <<order, dups>>
  BY <1>1 DEF Send, TypeOK
<1> HIDE DEF c
<1>4. TypeOK'
  BY <1>1, <1>2, <1>3 DEF TypeOK, Reports
<1>5. WireTruthful'
  <2>1. \A x \in wire : x.clOrdId = i => x.execType \notin TerminalStates
    BY <1>1 DEF WireTruthful, TypeOK, Reports
  <2>2. \A x \in wire : x.clOrdId \in Orders /\ x.cum \in 0..Quantity
    BY <1>1 DEF TypeOK, Reports
  <2>3. /\ broker'[i].cum = c /\ broker'[i].state = s
        /\ \A j \in Orders : j # i => broker'[j] = broker[j]
    BY <1>1, <1>3 DEF TypeOK
  <2>4. \A x \in wire : x.cum <= broker'[x.clOrdId].cum
    BY <1>1, <1>2, <2>2, <2>3 DEF WireTruthful
  <2> QED
    BY <1>1, <1>2, <1>3, <2>1, <2>2, <2>3, <2>4 DEF WireTruthful
<1>6. NeverAheadOfBroker'
  BY <1>1, <1>2, <1>3 DEF NeverAheadOfBroker, TypeOK
<1>7. TerminalAgreement'
  BY <1>1, <1>3 DEF TerminalAgreement, TypeOK, IsTerminal
<1>8. IdsMatch'
  BY <1>1, <1>3 DEF IdsMatch
<1> QED
  BY <1>4, <1>5, <1>6, <1>7, <1>8 DEF IInv

(* Handing a report of the wire to the state machine, whether it is        *)
(* accepted or refused and whether or not a copy stays behind.             *)
LEMMA ApplyStep ==
  ASSUME IInv, NEW r \in wire,
         Update(r.clOrdId, ApplyExecutionReport(order[r.clOrdId], r)),
         wire' \subseteq wire, dups' \in 0..MaxDups, UNCHANGED broker
  PROVE  IInv'
<1> DEFINE i == r.clOrdId
           o == order[i]
           n == ApplyExecutionReport(o, r)
<1>1. /\ TypeOK /\ WireTruthful /\ IdsMatch
      /\ NeverAheadOfBroker /\ TerminalAgreement
  BY DEF IInv
<1>2. /\ r \in Reports /\ i \in Orders /\ o \in OrderRecord
      /\ order \in [Orders -> OrderRecord]
  BY <1>1 DEF TypeOK, Reports, OrderRecord
<1>3. /\ n \in OrderRecord
      /\ n.clOrdId = o.clOrdId
      /\ IsTerminal(o) => n = o
      /\ \/ n.filled = o.filled /\ (n.state = o.state \/ n.state = "NEW")
         \/ n.filled = r.cum /\ n.state = r.execType
  BY <1>2, ApplyEffect
<1>4. order' = [order EXCEPT ![i] = n]
  BY DEF Update
<1> HIDE DEF n, o, i
<1>6. TypeOK'
  BY <1>1, <1>2, <1>3, <1>4 DEF TypeOK, OrderRecord
<1>7. WireTruthful'
  BY <1>1 DEF WireTruthful
<1>8. /\ r.cum <= broker[i].cum
      /\ r.execType \in TerminalStates =>
           r.execType = broker[i].state /\ r.cum = broker[i].cum
  BY <1>1 DEF WireTruthful, i
<1>9. n.filled <= broker[i].cum
  BY <1>1, <1>2, <1>3, <1>8 DEF NeverAheadOfBroker, o
<1>10. IsTerminal(n) => n.state = broker[i].state /\ n.filled = broker[i].cum
  <2>1. "NEW" \notin TerminalStates
    BY DEF TerminalStates
  <2>2. IsTerminal(o) => o.state = broker[i].state /\ o.filled = broker[i].cum
    BY <1>1, <1>2 DEF TerminalAgreement, o
  <2> QED
    BY <1>3, <1>8, <2>1, <2>2 DEF IsTerminal
<1>11. NeverAheadOfBroker'
  BY <1>1, <1>2, <1>4, <1>9 DEF NeverAheadOfBroker
<1>12. TerminalAgreement'
  BY <1>1, <1>2, <1>4, <1>10 DEF TerminalAgreement, IsTerminal
<1>13. IdsMatch'
  BY <1>1, <1>2, <1>3, <1>4 DEF IdsMatch, o
<1> QED
  BY <1>6, <1>7, <1>11, <1>12, <1>13 DEF IInv

-----------------------------------------------------------------------------
LEMMA InitIInv == Init => IInv
<1> SUFFICES ASSUME Init PROVE IInv
  OBVIOUS
<1> USE QuantityAssumption, MaxDupsAssumption DEF Init, NewOrder
<1>1. TypeOK
  BY DEF TypeOK, OrderStates
<1>2. IdsMatch /\ WireTruthful /\ NeverAheadOfBroker
  BY DEF IdsMatch, WireTruthful, NeverAheadOfBroker
<1>3. TerminalAgreement
  BY DEF TerminalAgreement, IsTerminal, TerminalStates
<1> QED
  BY <1>1, <1>2, <1>3 DEF IInv

LEMMA NextIInv == IInv /\ [Next]_vars => IInv'
<1> SUFFICES ASSUME IInv, [Next]_vars PROVE IInv'
  OBVIOUS
<1> USE QuantityAssumption, MaxDupsAssumption
<1>1. TypeOK
  BY DEF IInv
<1>2. ASSUME NEW i \in Orders,
             \/ BrokerAck(i) \/ BrokerReject(i) \/ BrokerCancel(i) \/ BrokerExpire(i)
      PROVE  IInv'
  <2>1. PICK s \in OrderStates : Send(i, s, 0)
    BY <1>2 DEF BrokerAck, BrokerReject, BrokerCancel, BrokerExpire, OrderStates
  <2>2. broker[i].state \notin TerminalStates
    BY <1>2 DEF BrokerAck, BrokerReject, BrokerCancel, BrokerExpire, BrokerLive, TerminalStates
  <2>3. broker[i].cum + 0 <= Quantity
    BY <1>1 DEF TypeOK
  <2> QED
    BY <2>1, <2>2, <2>3, SendStep
<1>3. ASSUME NEW i \in Orders, NEW q \in 1..Quantity, BrokerFill(i, q)
      PROVE  IInv'
  <2>1. PICK s \in OrderStates : Send(i, s, q)
    BY <1>3 DEF BrokerFill, OrderStates
  <2>2. broker[i].state \notin TerminalStates /\ broker[i].cum + q <= Quantity
    BY <1>3 DEF BrokerFill, BrokerLive, TerminalStates
  <2> QED
    BY <2>1, <2>2, SendStep
<1>4. ASSUME NEW i \in Orders, RequestCancel(i)
      PROVE  IInv'
  <2> DEFINE n == [order[i] EXCEPT !.state = "PENDING_CANCEL"]
  <2>1. order[i] \in OrderRecord
    BY <1>1 DEF TypeOK, OrderRecord
  <2>2. Update(i, n) /\ UNCHANGED <<broker, wire, dups>>
    BY <1>4, <2>1, CancelEffect DEF RequestCancel
  <2>3. order' = [order EXCEPT ![i] = n]
    BY <2>2 DEF Update
  <2>4. n \in OrderRecord /\ n.clOrdId = order[i].clOrdId
        /\ n.filled = order[i].filled /\ n.state = "PENDING_CANCEL"
    BY <2>1 DEF OrderRecord, OrderStates
  <2> HIDE DEF n
  <2>5. TypeOK'
    BY <1>1, <2>2, <2>3, <2>4 DEF TypeOK, OrderRecord
  <2>6. IdsMatch' /\ WireTruthful' /\ NeverAheadOfBroker'
    BY <1>1, <2>2, <2>3, <2>4
       DEF IInv, IdsMatch, WireTruthful, NeverAheadOfBroker, TypeOK
  <2>7. TerminalAgreement'
    BY <1>1, <2>2, <2>3, <2>4
       DEF IInv, TerminalAgreement, IsTerminal, TerminalStates, TypeOK
  <2> QED
    BY <2>5, <2>6, <2>7 DEF IInv
<1>5. ASSUME NEW r \in wire, Deliver(r) \/ Redeliver(r) \/ Refuse(r)
      PROVE  IInv'
  <2>1. /\ Update(r.clOrdId, ApplyExecutionReport(order[r.clOrdId], r))
        /\ wire' \subseteq wire
        /\ UNCHANGED broker
    BY <1>5 DEF Deliver, Redeliver, Refuse
  <2>2. dups' \in 0..MaxDups
    BY <1>1, <1>5 DEF Deliver, Redeliver, Refuse, TypeOK
  <2> QED
    BY <2>1, <2>2, ApplyStep
<1>6. ASSUME wire' \subseteq wire, UNCHANGED <<order, broker, dups>>
      PROVE  IInv'
  BY <1>6 DEF IInv, TypeOK, IdsMatch, WireTruthful, NeverAheadOfBroker, TerminalAgreement
<1>7. ASSUME NEW r \in wire, Lose(r)
      PROVE  IInv'
  BY <1>6, <1>7 DEF Lose
<1>8. CASE UNCHANGED vars
  BY <1>6, <1>8 DEF vars
<1> QED
  BY <1>2, <1>3, <1>4, <1>5, <1>7, <1>8 DEF Next, ReliableNext, BrokerNext

(* However reports are lost, repeated or reordered, the orders of the      *)
(* client stay well-typed: no report can push a quantity above the order's.*)
THEOREM TypeCorrect == Spec => []TypeOK
<1>1. IInv => TypeOK
  BY DEF IInv
<1> QED
  BY <1>1, InitIInv, NextIInv, PTL DEF Spec

(* ... the client never believes in a fill the broker did not make ...     *)
THEOREM NeverAhead == Spec => []NeverAheadOfBroker
<1>1. IInv => NeverAheadOfBroker
  BY DEF IInv
<1> QED
  BY <1>1, InitIInv, NextIInv, PTL DEF Spec

(* ... and an order that is terminal for the client ended the same way,    *)
(* with the same quantity, at the broker.                                  *)
THEOREM TerminalAgrees == Spec => []TerminalAgreement
<1>1. IInv => TerminalAgreement
  BY DEF IInv
<1> QED
  BY <1>1, InitIInv, NextIInv, PTL DEF Spec

(* Filled quantities only grow and terminal orders are never touched.      *)
THEOREM MonotoneLifecycle == Spec => MonotoneUntilTerminal
<1> DEFINE A == \A i \in Orders :
                  /\ order'[i].filled >= order[i].filled
                  /\ IsTerminal(order[i]) => order'[i] = order[i]
<1>1. ASSUME IInv, Next PROVE A
  <2>1. TypeOK /\ order \in [Orders -> OrderRecord]
    BY <1>1 DEF IInv, TypeOK, OrderRecord
  <2>2. ASSUME UNCHANGED order PROVE A
    BY <2>1, <2>2 DEF OrderRecord
  <2>3. ASSUME NEW i \in Orders, NEW n, Update(i, n), n.filled >= order[i].filled,
               IsTerminal(order[i]) => n = order[i]
        PROVE  A
    BY <2>1, <2>3 DEF Update, OrderRecord
  <2>4. ASSUME NEW i \in Orders, RequestCancel(i) PROVE A
    <3>1. /\ Update(i, [order[i] EXCEPT !.state = "PENDING_CANCEL"])
          /\ ~IsTerminal(order[i])
      BY <2>1, <2>4, CancelEffect DEF RequestCancel
    <3> QED
      BY <2>1, <2>3, <3>1 DEF OrderRecord
  <2>5. ASSUME NEW r \in wire, Deliver(r) \/ Redeliver(r) \/ Refuse(r) PROVE A
    <3>1. r \in Reports /\ r.clOrdId \in Orders /\ order[r.clOrdId] \in OrderRecord
      BY <2>1 DEF TypeOK, Reports
    <3>2. Update(r.clOrdId, ApplyExecutionReport(order[r.clOrdId], r))
      BY <2>5 DEF Deliver, Redeliver, Refuse
    <3> QED
      BY <2>3, <3>1, <3>2, ApplyEffect
  <2>6. ASSUME NEW i \in Orders,
               \/ BrokerAck(i) \/ BrokerReject(i) \/ BrokerCancel(i) \/ BrokerExpire(i)
               \/ \E q \in 1..Quantity : BrokerFill(i, q)
        PROVE  A
    BY <2>2, <2>6 DEF BrokerAck, BrokerReject, BrokerCancel, BrokerExpire, BrokerFill, Send
  <2>7. ASSUME NEW r \in wire, Lose(r) PROVE A
    BY <2>2, <2>7 DEF Lose
  <2> QED
    BY <1>1, <2>4, <2>5, <2>6, <2>7 DEF Next, ReliableNext, BrokerNext
<1>2. IInv /\ [Next]_vars => [A]_vars
  BY <1>1
<1> QED
  BY <1>2, InitIInv, NextIInv, PTL DEF Spec, MonotoneUntilTerminal

(* Together: the client's view of an order follows the broker's, for any   *)
(* number of orders, any quantity and any number of repeated reports.      *)
THEOREM ClientFollows == Spec => []ClientFollowsBroker
<1>1. TypeOK /\ NeverAheadOfBroker /\ TerminalAgreement => ClientFollowsBroker
  BY DEF ClientFollowsBroker
<1> QED
  BY <1>1, TypeCorrect, NeverAhead, TerminalAgrees, PTL
=============================================================================
