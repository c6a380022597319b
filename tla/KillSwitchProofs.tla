-------------------------- MODULE KillSwitchProofs --------------------------
(***************************************************************************)
(* Proofs about KillSwitch, for any orders, gateways and calls, any number *)
(* of panics and any number of cancelled tasks and gateways that come and  *)
(* go during a sweep.                                                      *)
(***************************************************************************)
EXTENDS KillSwitch, FiniteSetTheorems, TLAPS

(* Beyond TypeOK: what the running sweep iterates over, and that an event  *)
(* never belongs to a panic that has not begun.                            *)
SweepTyped ==
  /\ phase \in {"fetch", "flatten", "submit"} => todo \subseteq Gateways
  /\ phase = "cancel" => todo \subseteq Orders
  /\ phase # None => panics \in 1..MaxPanics
  /\ lastEvent # None => lastEvent <= panics
  /\ lastEvent = panics => phase \in {None, "notify"}
  /\ disturbed \subseteq Gateways

Typed == TypeOK /\ SweepTyped

-----------------------------------------------------------------------------
LEMMA RegisteredBounded ==
  ASSUME NEW S \in SUBSET Gateways
  PROVE  Cardinality(S) \in 0..Cardinality(Gateways)
<1>1. IsFiniteSet(Gateways)
  BY KillSwitchAssumption
<1>2. /\ IsFiniteSet(S) /\ Cardinality(S) <= Cardinality(Gateways)
  BY <1>1, FS_Subset
<1>3. Cardinality(S) \in Nat /\ Cardinality(Gateways) \in Nat
  BY <1>1, <1>2, FS_CardinalityType
<1> QED
  BY <1>2, <1>3

LEMMA TypedInit == Init => Typed
<1> SUFFICES ASSUME Init PROVE Typed
  OBVIOUS
<1>1. Cardinality(Gateways) \in Nat
  BY KillSwitchAssumption, FS_CardinalityType
<1> QED
  BY <1>1, KillSwitchAssumption DEF Init, Typed, TypeOK, SweepTyped, NoPositions

(* One step per action.                                                    *)
LEMMA TypedStep == Typed /\ [Next]_vars => Typed'
<1> SUFFICES ASSUME Typed, [Next]_vars PROVE Typed'
  OBVIOUS
<1> USE KillSwitchAssumption DEF Typed, TypeOK, SweepTyped, history, sweep
<1>0. Cardinality(Gateways) \in Nat
  BY FS_CardinalityType
<1>1. ASSUME NEW o \in Orders, Route(o) PROVE Typed'
  BY <1>1 DEF Route
<1>2. ASSUME NEW o \in Orders, Land(o) PROVE Typed'
  BY <1>2 DEF Land, Booked
<1>3. ASSUME NEW o \in Orders, Fill(o) PROVE Typed'
  BY <1>3 DEF Fill, Booked
<1>4. ASSUME NEW s \in {"ARMED_STANDBY", "DISARMED"}, Operate(s) PROVE Typed'
  BY <1>4 DEF Operate
<1>5. ASSUME NEW g \in Gateways, RegisterGateway(g) PROVE Typed'
  BY <1>5 DEF RegisterGateway, Fault
<1>6. ASSUME NEW g \in Gateways, UnregisterGateway(g) PROVE Typed'
  BY <1>6 DEF UnregisterGateway, Fault
<1>7. ASSUME NEW t \in Triggers, Call(t) PROVE Typed'
  BY <1>7 DEF Call
<1>8. ASSUME NEW t \in Triggers, EnterAndLeave(t) PROVE Typed'
  BY <1>8 DEF EnterAndLeave
<1>9. ASSUME NEW t \in Triggers, Enter(t) PROVE Typed'
  BY <1>0, <1>9 DEF Enter, Open, NoPositions
<1>10. CASE Freeze
  BY <1>10 DEF Freeze, Elsewhere
<1>11. CASE StartCancels
  BY <1>11 DEF StartCancels, Elsewhere
<1>12. CASE FinishCancels
  BY <1>12, RegisteredBounded DEF FinishCancels, Report, Elsewhere
<1>13. CASE StartFlattening
  BY <1>13 DEF StartFlattening, Elsewhere
<1>14. CASE FlattenCrash
  BY <1>0, <1>14 DEF FlattenCrash, SweepOver, NoPositions
<1>15. CASE FinishFlattening
  BY <1>15 DEF FinishFlattening, Report, Elsewhere
<1>16. CASE Notified
  BY <1>0, <1>16 DEF Notified, SweepOver, NoPositions
<1>17. ASSUME NEW g \in Gateways, Fetch(g) PROVE Typed'
  BY <1>17 DEF Fetch, Elsewhere, OpenAt, Open
<1>18. ASSUME NEW g \in Gateways, FetchFailed(g) PROVE Typed'
  BY <1>18 DEF FetchFailed, Elsewhere
<1>19. ASSUME NEW g \in Gateways, ReadPosition(g) PROVE Typed'
  BY <1>19 DEF ReadPosition, Elsewhere
<1>20. ASSUME NEW g \in Gateways, Flatten(g) PROVE Typed'
  BY <1>20 DEF Flatten, Elsewhere
<1>21. ASSUME NEW o \in Orders, Cancel(o) PROVE Typed'
  BY <1>21 DEF Cancel, Elsewhere
<1>22. ASSUME NEW o \in Orders, CancelFailed(o) PROVE Typed'
  BY <1>22 DEF CancelFailed, Elsewhere
<1>23. CASE Abort
  BY <1>0, <1>23 DEF Abort, Fault, SweepOver, NoPositions
<1>24. CASE UNCHANGED vars
  BY <1>24 DEF vars
<1> QED
  BY <1>1, <1>2, <1>3, <1>4, <1>5, <1>6, <1>7, <1>8, <1>9, <1>10, <1>11, <1>12, <1>13,
     <1>14, <1>15, <1>16, <1>17, <1>18, <1>19, <1>20, <1>21, <1>22, <1>23, <1>24
     DEF Next, SweepStep

-----------------------------------------------------------------------------
(* How the sweep reaches what was open: an order that was resting when the *)
(* panic began is at a gateway still to be queried, or found, or missed;   *)
(* then still to be cancelled, or missed.  It never becomes open again.    *)
StillToReach ==
  /\ \A o \in atPanic : life[o] \notin {"idle", "routing"}
  /\ phase = "fetch" =>
       \A o \in atPanic \cap Open : GatewayOf[o] \in todo \/ o \in found \/ o \in missed
  /\ phase = "cancel" => \A o \in atPanic \cap Open : o \in todo \/ o \in missed

(* While the switch is thrown no order passes validate_submission.         *)
NothingNew ==
  state = "PANIC_TRIGGERED" =>
    /\ \A o \in Orders : life[o] = "routing" => o \in inFlight
    /\ Open \subseteq atPanic \cup inFlight

(* SurvivorsExplained from the moment the event is stored, lock or no lock.*)
Explained ==
  state = "PANIC_TRIGGERED" /\ lastEvent = panics => Open \subseteq inFlight \cup missed

Coverage == StillToReach /\ SweepCoversOpen /\ NothingNew /\ Explained

LEMMA CoverageInit == Init => Coverage
  BY KillSwitchAssumption
     DEF Init, Coverage, StillToReach, SweepCoversOpen, NothingNew, Explained, Open

LEMMA CoverageStep == Typed /\ Coverage /\ [Next]_vars => Coverage'
<1> SUFFICES ASSUME Typed, Coverage, [Next]_vars PROVE Coverage'
  OBVIOUS
<1> USE KillSwitchAssumption
    DEF Typed, TypeOK, SweepTyped, history, sweep, Open,
        Coverage, StillToReach, SweepCoversOpen, NothingNew, Explained
<1>1. ASSUME NEW o \in Orders, Route(o) PROVE Coverage'
  BY <1>1 DEF Route
<1>2. ASSUME NEW o \in Orders, Land(o) PROVE Coverage'
  BY <1>2 DEF Land, Booked
<1>3. ASSUME NEW o \in Orders, Fill(o) PROVE Coverage'
  BY <1>3 DEF Fill, Booked
<1>4. ASSUME NEW s \in {"ARMED_STANDBY", "DISARMED"}, Operate(s) PROVE Coverage'
  BY <1>4 DEF Operate
<1>5. ASSUME NEW g \in Gateways, RegisterGateway(g) PROVE Coverage'
  BY <1>5 DEF RegisterGateway, Fault
<1>6. ASSUME NEW g \in Gateways, UnregisterGateway(g) PROVE Coverage'
  BY <1>6 DEF UnregisterGateway, Fault
<1>7. ASSUME NEW t \in Triggers, Call(t) \/ EnterAndLeave(t) PROVE Coverage'
  BY <1>7 DEF Call, EnterAndLeave
<1>8. ASSUME NEW t \in Triggers, Enter(t) PROVE Coverage'
  BY <1>8 DEF Enter
<1>9. CASE Freeze
  BY <1>9 DEF Freeze, Elsewhere
<1>10. ASSUME NEW g \in Gateways, Fetch(g) PROVE Coverage'
  BY <1>10 DEF Fetch, Elsewhere, OpenAt
<1>11. ASSUME NEW g \in Gateways, FetchFailed(g) PROVE Coverage'
  BY <1>11 DEF FetchFailed, Elsewhere
<1>12. CASE StartCancels
  BY <1>12 DEF StartCancels, Elsewhere
<1>13. ASSUME NEW o \in Orders, Cancel(o) PROVE Coverage'
  BY <1>13 DEF Cancel, Elsewhere
<1>14. ASSUME NEW o \in Orders, CancelFailed(o) PROVE Coverage'
  BY <1>14 DEF CancelFailed, Elsewhere
<1>15. CASE FinishCancels
  BY <1>15 DEF FinishCancels, Report, Elsewhere
<1>16. ASSUME NEW g \in Gateways, ReadPosition(g) \/ Flatten(g) PROVE Coverage'
  BY <1>16 DEF ReadPosition, Flatten, Elsewhere
<1>17. CASE StartFlattening
  BY <1>17 DEF StartFlattening, Elsewhere
<1>18. CASE FinishFlattening
  BY <1>18 DEF FinishFlattening, Report, Elsewhere
<1>19. CASE FlattenCrash \/ Notified \/ Abort
  BY <1>19 DEF FlattenCrash, Notified, Abort, Fault, SweepOver
<1>20. CASE UNCHANGED vars
  BY <1>20 DEF vars
<1> QED
  BY <1>1, <1>2, <1>3, <1>4, <1>5, <1>6, <1>7, <1>8, <1>9, <1>10, <1>11, <1>12, <1>13,
     <1>14, <1>15, <1>16, <1>17, <1>18, <1>19, <1>20 DEF Next, SweepStep

-----------------------------------------------------------------------------
(* How the flattening reaches the positions: before it, nothing is prepared;*)
(* then an undisturbed gateway is still to be read or its order is prepared *)
(* for exactly its position; then the order is still to go, or it is flat.  *)
Prepared ==
  /\ phase \in {"hooks", "fetch", "cancel"} => flat = NoPositions
  /\ phase = "flatten" =>
       \A g \in registered \ disturbed : g \in todo \/ flat[g] = position[g]
  /\ phase = "submit" =>
       \A g \in registered \ disturbed : position[g] = IF g \in todo THEN flat[g] ELSE 0

Flatness == Prepared /\ FlattenLeavesFlat

LEMMA FlatnessInit == Init => Flatness
  BY KillSwitchAssumption DEF Init, Flatness, Prepared, FlattenLeavesFlat

LEMMA FlatnessStep == Typed /\ Flatness /\ [Next]_vars => Flatness'
<1> SUFFICES ASSUME Typed, Flatness, [Next]_vars PROVE Flatness'
  OBVIOUS
<1> USE KillSwitchAssumption
    DEF Typed, TypeOK, SweepTyped, history, sweep, Flatness, Prepared, FlattenLeavesFlat
<1>1. ASSUME NEW o \in Orders, Route(o) PROVE Flatness'
  BY <1>1 DEF Route
<1>2. ASSUME NEW o \in Orders, Land(o) \/ Fill(o) PROVE Flatness'
  BY <1>2 DEF Land, Fill, Booked
<1>3. ASSUME NEW s \in {"ARMED_STANDBY", "DISARMED"}, Operate(s) PROVE Flatness'
  BY <1>3 DEF Operate
<1>4. ASSUME NEW g \in Gateways, RegisterGateway(g) PROVE Flatness'
  BY <1>4 DEF RegisterGateway, Fault
<1>5. ASSUME NEW g \in Gateways, UnregisterGateway(g) PROVE Flatness'
  BY <1>5 DEF UnregisterGateway, Fault
<1>6. ASSUME NEW t \in Triggers, Call(t) \/ EnterAndLeave(t) PROVE Flatness'
  BY <1>6 DEF Call, EnterAndLeave
<1>7. ASSUME NEW t \in Triggers, Enter(t) PROVE Flatness'
  BY <1>7 DEF Enter
<1>8. CASE Freeze \/ StartCancels
  BY <1>8 DEF Freeze, StartCancels, Elsewhere
<1>9. ASSUME NEW g \in Gateways, Fetch(g) \/ FetchFailed(g) PROVE Flatness'
  BY <1>9 DEF Fetch, FetchFailed, Elsewhere
<1>10. ASSUME NEW o \in Orders, Cancel(o) \/ CancelFailed(o) PROVE Flatness'
  BY <1>10 DEF Cancel, CancelFailed, Elsewhere
<1>11. CASE FinishCancels
  BY <1>11 DEF FinishCancels, Report, Elsewhere
<1>12. ASSUME NEW g \in Gateways, ReadPosition(g) PROVE Flatness'
  BY <1>12 DEF ReadPosition, Elsewhere
<1>13. CASE StartFlattening
  BY <1>13 DEF StartFlattening, Elsewhere
<1>14. ASSUME NEW g \in Gateways, Flatten(g) PROVE Flatness'
  BY <1>14 DEF Flatten, Elsewhere
<1>15. CASE FinishFlattening
  BY <1>15 DEF FinishFlattening, Report, Elsewhere
<1>16. CASE FlattenCrash \/ Notified \/ Abort
  BY <1>16 DEF FlattenCrash, Notified, Abort, Fault, SweepOver
<1>17. CASE UNCHANGED vars
  BY <1>17 DEF vars
<1> QED
  BY <1>1, <1>2, <1>3, <1>4, <1>5, <1>6, <1>7, <1>8, <1>9, <1>10, <1>11, <1>12, <1>13,
     <1>14, <1>15, <1>16, <1>17 DEF Next, SweepStep

-----------------------------------------------------------------------------
(* INV-RSK-008: whatever is interleaved with trigger_panic, orders landing *)
(* and filling, gateways failing, leaving and returning, the task being    *)
(* cancelled, an operator resetting the switch in the middle of the sweep, *)
(* a panic reaches every open order and position: what is left had passed  *)
(* validate_submission before, raced the flattening, or is at a gateway    *)
(* that failed.                                                            *)
THEOREM PanicSweepsHolds == Spec => []PanicSweeps
<1> DEFINE IInv == Typed /\ Coverage /\ Flatness
<1>1. Init => IInv
  BY TypedInit, CoverageInit, FlatnessInit
<1>2. IInv /\ [Next]_vars => IInv'
  BY TypedStep, CoverageStep, FlatnessStep
<1>3. IInv => PanicSweeps
  BY DEF Typed, Coverage, Flatness, PanicSweeps, Explained, SurvivorsExplained
<1> HIDE DEF IInv
<1> QED
  BY <1>1, <1>2, <1>3, PTL DEF Spec

-----------------------------------------------------------------------------
(* Why the stored event is the current panic's: as long as no task is      *)
(* cancelled and no gateway comes or goes, the flattening loop never sees  *)
(* _gateways change size, so every sweep ends in _last_event = event.      *)
EventStored ==
  faults = 0 =>
    /\ registered = Gateways
    /\ phase = "flatten" => size = Cardinality(Gateways)
    /\ phase = "notify" => lastEvent = panics
    /\ EventOfThisPanic

(* A late caller of trigger_panic is handed the event of the panic in      *)
(* force, never an older one, as long as no fault killed a sweep half-way; *)
(* the switch must not be constructed already triggered, for then there is *)
(* no event to hand out.                                                   *)
THEOREM EventOfThisPanicHolds ==
  ASSUME InitialState # "PANIC_TRIGGERED"
  PROVE  Spec => [](faults = 0 => EventOfThisPanic)
<1>1. Init => EventStored
  BY KillSwitchAssumption DEF Init, EventStored, EventOfThisPanic
<1>2. Typed /\ EventStored /\ [Next]_vars => EventStored'
  <2> SUFFICES ASSUME Typed, EventStored, [Next]_vars PROVE EventStored'
    OBVIOUS
  <2> USE KillSwitchAssumption
      DEF Typed, TypeOK, SweepTyped, history, sweep, EventStored, EventOfThisPanic
  <2>1. ASSUME NEW o \in Orders, Route(o) \/ Land(o) \/ Fill(o) PROVE EventStored'
    BY <2>1 DEF Route, Land, Fill, Booked
  <2>2. ASSUME NEW s \in {"ARMED_STANDBY", "DISARMED"}, Operate(s) PROVE EventStored'
    BY <2>2 DEF Operate
  <2>3. ASSUME NEW g \in Gateways, RegisterGateway(g) \/ UnregisterGateway(g)
        PROVE EventStored'
    BY <2>3 DEF RegisterGateway, UnregisterGateway, Fault
  <2>4. ASSUME NEW t \in Triggers, Call(t) \/ EnterAndLeave(t) \/ Enter(t)
        PROVE EventStored'
    BY <2>4 DEF Call, EnterAndLeave, Enter
  <2>5. CASE Freeze \/ StartCancels \/ StartFlattening
    BY <2>5 DEF Freeze, StartCancels, StartFlattening, Elsewhere
  <2>6. CASE FinishCancels \/ FinishFlattening
    BY <2>6 DEF FinishCancels, FinishFlattening, Report, Elsewhere
  <2>7. CASE FlattenCrash \/ Notified \/ Abort
    BY <2>7 DEF FlattenCrash, Notified, Abort, Fault, SweepOver
  <2>8. ASSUME NEW g \in Gateways, Fetch(g) \/ FetchFailed(g) \/ ReadPosition(g) \/ Flatten(g)
        PROVE EventStored'
    BY <2>8 DEF Fetch, FetchFailed, ReadPosition, Flatten, Elsewhere
  <2>9. ASSUME NEW o \in Orders, Cancel(o) \/ CancelFailed(o) PROVE EventStored'
    BY <2>9 DEF Cancel, CancelFailed, Elsewhere
  <2>10. CASE UNCHANGED vars
    BY <2>10 DEF vars
  <2> QED
    BY <2>1, <2>2, <2>3, <2>4, <2>5, <2>6, <2>7, <2>8, <2>9, <2>10 DEF Next, SweepStep
<1>3. EventStored => (faults = 0 => EventOfThisPanic)
  BY DEF EventStored
<1> QED
  BY <1>1, <1>2, <1>3, TypedInit, TypedStep, PTL DEF Spec
=============================================================================
