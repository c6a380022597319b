----------------------------- MODULE SmartRouter -----------------------------
(***************************************************************************)
(* SmartOrderRouter (execution/sor.py) over the venues of                  *)
(* execution/venues.py: how a slice is allocated, how route_slice works it *)
(* through a dark pool and the lit exchanges with one await per child      *)
(* order, and how venues with toxic fills are quarantined.                 *)
(*                                                                         *)
(* Venues are numbers, which order as their ids do.  Time is a small clock;*)
(* a markout may be recorded with an older timestamp than the clock's, and *)
(* a slice works with the time at which it began until it returns.         *)
(***************************************************************************)
EXTENDS Integers, FiniteSetsExt, Functions

CONSTANTS
  Lit, Dark,          \* the venues
  TakerFee, Latency,  \* of each venue
  FillProbability, MinOrderSize,
  SliceSizes, Depths, \* quantities and depths tried
  ToxicLimit,         \* toxic_fill_limit
  Quarantine,         \* quarantine_duration_sec
  MaxTime,            \* bound: the clock
  MaxMarkouts,        \* bound: markouts recorded
  MaxRouterFaults     \* bound: failing gateway calls

Venues == Lit \cup Dark

ValidVenue(v) ==
  /\ TakerFee[v] \in Int /\ MinOrderSize[v] \in Nat \ {0} /\ Latency[v] \in Nat
  /\ FillProbability[v] \in 0..100

ASSUME RouterAssumption ==
  /\ Venues # {} /\ Lit \cap Dark = {} /\ Venues \subseteq Nat
  /\ IsFiniteSet(Venues) /\ \A v \in Venues : ValidVenue(v)
  /\ SliceSizes \subseteq Nat \ {0} /\ Depths \subseteq Nat
  /\ ToxicLimit \in Nat \ {0} /\ Quarantine \in Nat
  /\ {MaxTime, MaxMarkouts, MaxRouterFaults} \subseteq Nat

VARIABLES
  quarantined,   \* venues with is_quarantined
  toxic,         \* consecutive_toxic_fills
  until,         \* quarantine_until_ns
  now,
  routing,       \* what route_slice awaits: idle, dark, cancel, lit; returned, raised
  asOf,          \* the now_ns route_slice was called with
  want,          \* the slice's quantity
  unfilled,      \* unfilled_quantity
  depth,         \* venue_depths of the quote, on the slice's side
  darkVenue, darkOpen,  \* the dark child and what is left of it
  todo,          \* lit children still to be sent, as allocated
  reports        \* lots in the reports collected so far

(* History.                                                                *)
VARIABLES
  executed,      \* lots executed for this slice
  raced,         \* the dark child filled between its report and its cancel
  resting,       \* lots of lit children left working
  struck,        \* venues quarantined since the children under way were chosen
  markouts,
  routerFaults

healthVars == <<quarantined, toxic, until>>
unstruckVars == <<asOf, want, unfilled, depth, darkVenue, darkOpen, todo, reports, executed, raced, resting>>
sliceVars == <<struck, unstruckVars>>
routerVars == <<healthVars, markouts, now, routing, sliceVars, routerFaults>>

NoVenue == 0
NoOrders == [v \in Lit |-> 0]

RouterInit ==
  /\ quarantined = {} /\ toxic = [v \in Venues |-> 0] /\ until = [v \in Venues |-> 0]
  /\ now = 0 /\ routing = "idle" /\ asOf = 0 /\ struck = {} /\ want = 0 /\ unfilled = 0
  /\ depth = NoOrders /\ darkVenue = NoVenue /\ darkOpen = 0
  /\ todo = NoOrders /\ reports = 0
  /\ executed = 0 /\ raced = FALSE /\ resting = 0 /\ routerFaults = 0 /\ markouts = 0

-----------------------------------------------------------------------------
(* VenueHealth.                                                            *)
Over(v, t) == until[v] > 0 /\ t >= until[v]
VenueActive(v, t) == v \notin quarantined \/ Over(v, t)

(* is_active clears a quarantine that is over, when it is asked.           *)
Asked(vs, t) ==
  LET freed == {v \in vs \cap quarantined : Over(v, t)}
  IN  /\ quarantined' = quarantined \ freed
      /\ toxic' = [v \in Venues |-> IF v \in freed THEN 0 ELSE toxic[v]]
      /\ UNCHANGED until

Strike(v) == struck' = IF routing \in {"dark", "lit"} THEN struck \cup {v} ELSE struck

(* Faulty variant: a later toxic fill overwrites the end of a quarantine.  *)
RecordFillMarkoutOverwrites(v, bad, t) ==
  LET over == v \in quarantined /\ Over(v, t)
      streak == IF bad THEN (IF over THEN 0 ELSE toxic[v]) + 1 ELSE 0
  IN  /\ markouts < MaxMarkouts /\ markouts' = markouts + 1
      /\ toxic' = [toxic EXCEPT ![v] = streak]
      /\ IF bad /\ streak >= ToxicLimit
         THEN /\ quarantined' = quarantined \cup {v}
              /\ until' = [until EXCEPT ![v] = t + Quarantine]
              /\ Strike(v)
         ELSE /\ quarantined' = IF over THEN quarantined \ {v} ELSE quarantined
              /\ UNCHANGED <<until, struck>>
      /\ UNCHANGED <<now, routing, unstruckVars, routerFaults>>

(* record_fill_markout: bad when the markout is below the threshold.       *)
RecordFillMarkout(v, bad, t) ==
  LET over == v \in quarantined /\ Over(v, t)
      streak == IF bad THEN (IF over THEN 0 ELSE toxic[v]) + 1 ELSE 0
  IN  /\ markouts < MaxMarkouts /\ markouts' = markouts + 1
      /\ toxic' = [toxic EXCEPT ![v] = streak]
      /\ IF bad /\ streak >= ToxicLimit
         THEN /\ quarantined' = quarantined \cup {v}
              /\ until' = [until EXCEPT ![v] = Max({@, t + Quarantine})]
              /\ Strike(v)
         ELSE /\ quarantined' = IF over THEN quarantined \ {v} ELSE quarantined
              /\ UNCHANGED <<until, struck>>
      /\ UNCHANGED <<now, routing, unstruckVars, routerFaults>>

GetVenueHealth(v) ==
  /\ Asked({v}, now)
  /\ UNCHANGED <<markouts, now, routing, sliceVars, routerFaults>>

Tick ==
  /\ now < MaxTime
  /\ now' = now + 1
  /\ UNCHANGED <<healthVars, markouts, routing, sliceVars, routerFaults>>

-----------------------------------------------------------------------------
(* compute_routing_allocation, called with the now_ns of route_slice also  *)
(* after the awaits of the dark phase.                                     *)
SliceClock == IF routing = "idle" THEN now ELSE asOf

DarkBefore(u, v) ==
  \/ TakerFee[u] < TakerFee[v]
  \/ TakerFee[u] = TakerFee[v] /\ FillProbability[u] > FillProbability[v]
  \/ /\ TakerFee[u] = TakerFee[v] /\ FillProbability[u] = FillProbability[v]
     /\ Latency[u] < Latency[v] \/ (Latency[u] = Latency[v] /\ u < v)

LitBefore(u, v) ==
  \/ TakerFee[u] < TakerFee[v]
  \/ /\ TakerFee[u] = TakerFee[v]
     /\ Latency[u] < Latency[v] \/ (Latency[u] = Latency[v] /\ u < v)

EligibleDark(q) == {v \in Dark : VenueActive(v, SliceClock) /\ MinOrderSize[v] <= q}
BestDark(q) == CHOOSE v \in EligibleDark(q) : \A u \in EligibleDark(q) \ {v} : DarkBefore(v, u)

Candidates(d) == {v \in Lit : VenueActive(v, SliceClock) /\ d[v] > 0}
DepthOf(d, vs) == MapThenSumSet(LAMBDA v : d[v], vs)

(* Greedy: each venue takes what the ones before it could not.             *)
Allocation(q, d) ==
  [v \in Lit |->
     IF v \notin Candidates(d) THEN 0
     ELSE Min({d[v], Max({0, q - DepthOf(d, {u \in Candidates(d) : LitBefore(u, v)})})})]

(* What is left goes to the lit venues, all of it or nothing.              *)
SendLit(q, d) ==
  IF DepthOf(d, Candidates(d)) < q
  THEN routing' = "raised" /\ UNCHANGED <<todo, struck>>
  ELSE routing' = "lit" /\ todo' = Allocation(q, d) /\ struck' = {}

-----------------------------------------------------------------------------
RouterFault == routerFaults < MaxRouterFaults /\ routerFaults' = routerFaults + 1

(* Without a dark venue the first allocation has asked the lit ones too.   *)
RouteSlice(q, d) ==
  /\ routing = "idle"
  /\ asOf' = now /\ want' = q /\ unfilled' = q /\ depth' = d
  /\ IF EligibleDark(q) # {}
     THEN /\ Asked(Dark, SliceClock)
          /\ routing' = "dark"
          /\ darkVenue' = BestDark(q) /\ darkOpen' = q
          /\ UNCHANGED <<todo, struck>>
     ELSE /\ Asked(Venues, SliceClock)
          /\ SendLit(q, d)
          /\ UNCHANGED <<darkVenue, darkOpen>>
  /\ UNCHANGED <<markouts, now, reports, executed, raced, resting, routerFaults>>

(* The gateway's answer to the dark child: lots done, and whether the order*)
(* is over (filled, expired, cancelled) or still open.                     *)
DarkAnswers(done, over) ==
  /\ routing = "dark" /\ done <= darkOpen
  /\ executed' = executed + done
  /\ reports' = reports + done
  /\ unfilled' = unfilled - done
  /\ darkOpen' = IF over THEN 0 ELSE darkOpen - done
  /\ CASE done = darkOpen -> routing' = "returned" /\ UNCHANGED <<todo, struck, healthVars>>
       [] done < darkOpen /\ over -> SendLit(unfilled', depth) /\ Asked(Lit, SliceClock)
       [] OTHER -> routing' = "cancel" /\ UNCHANGED <<todo, struck, healthVars>>
  /\ UNCHANGED <<markouts, now, asOf, want, depth, darkVenue, raced, resting, routerFaults>>

(* Rejected, or the call fails with some lots executed: the slice raises.  *)
DarkFails(done) ==
  /\ routing = "dark" /\ done <= darkOpen
  /\ RouterFault
  /\ executed' = executed + done
  /\ darkOpen' = darkOpen - done
  /\ routing' = "raised"
  /\ UNCHANGED <<healthVars, markouts, now, asOf, struck, want, unfilled, depth, darkVenue, todo, reports,
                 raced, resting>>

(* The open dark child executes while its cancellation is under way.       *)
DarkExecutes ==
  /\ routing = "cancel" /\ darkOpen > 0
  /\ executed' = executed + 1
  /\ darkOpen' = darkOpen - 1
  /\ raced' = TRUE
  /\ UNCHANGED <<healthVars, markouts, now, routing, asOf, struck, want, unfilled, depth, darkVenue, todo,
                 reports, resting, routerFaults>>

DarkCancelled ==
  /\ routing = "cancel"
  /\ darkOpen' = 0
  /\ SendLit(unfilled, depth) /\ Asked(Lit, SliceClock)
  /\ UNCHANGED <<markouts, now, asOf, want, unfilled, depth, darkVenue, reports, executed, raced,
                 resting, routerFaults>>

(* cancel_order raises, outside the try.                                   *)
DarkCancelFails ==
  /\ routing = "cancel"
  /\ RouterFault
  /\ routing' = "raised"
  /\ UNCHANGED <<healthVars, markouts, now, asOf, struck, want, unfilled, depth, darkVenue, darkOpen, todo,
                 reports, executed, raced, resting>>

ToSend == {v \in Lit : todo[v] > 0}
NextLit == CHOOSE v \in ToSend : \A u \in ToSend \ {v} : LitBefore(v, u)

(* A lit child is answered; what it did not fill may work on unattended.   *)
LitAnswers(done) ==
  /\ routing = "lit" /\ ToSend # {} /\ done <= todo[NextLit]
  /\ executed' = executed + done
  /\ reports' = reports + done
  /\ resting' = resting + todo[NextLit] - done
  /\ todo' = [todo EXCEPT ![NextLit] = 0]
  /\ routing' = IF ToSend = {NextLit} THEN "returned" ELSE "lit"
  /\ UNCHANGED <<healthVars, markouts, now, asOf, struck, want, unfilled, depth, darkVenue, darkOpen,
                 raced, routerFaults>>

LitFails(done) ==
  /\ routing = "lit" /\ ToSend # {} /\ done <= todo[NextLit]
  /\ RouterFault
  /\ executed' = executed + done
  /\ routing' = "raised"
  /\ UNCHANGED <<healthVars, markouts, now, asOf, struck, want, unfilled, depth, darkVenue, darkOpen, todo,
                 reports, raced, resting>>

(* The caller has its answer; the next slice starts afresh.                *)
NextSlice ==
  /\ routing \in {"returned", "raised"}
  /\ routing' = "idle"
  /\ asOf' = 0 /\ struck' = {} /\ want' = 0 /\ unfilled' = 0 /\ depth' = NoOrders
  /\ darkVenue' = NoVenue /\ darkOpen' = 0
  /\ todo' = NoOrders /\ reports' = 0
  /\ executed' = 0 /\ raced' = FALSE /\ resting' = 0
  /\ UNCHANGED <<healthVars, markouts, now, routerFaults>>

RouterNext ==
  \/ \E v \in Venues, bad \in BOOLEAN, t \in {now, Max({0, now - 2})} : RecordFillMarkout(v, bad, t)
  \/ \E v \in Venues : GetVenueHealth(v)
  \/ Tick
  \/ \E q \in SliceSizes, d \in [Lit -> Depths] : RouteSlice(q, d)
  \/ \E done \in 0..want :
       \/ \E over \in BOOLEAN : DarkAnswers(done, over)
       \/ DarkFails(done) \/ LitAnswers(done) \/ LitFails(done)
  \/ DarkExecutes \/ DarkCancelled \/ DarkCancelFails
  \/ NextSlice

RouterSpec == RouterInit /\ [][RouterNext]_routerVars

-----------------------------------------------------------------------------
(* The lit children are the cheapest way to fill what is left: no other    *)
(* split over the candidates' depth pays less in taker fees (INV-SOR-002). *)
Cost(a) == SumFunctionOnSet([v \in Lit |-> a[v] * TakerFee[v]], Lit)
Sum(a) == MapThenSumSet(LAMBDA v : a[v], Lit)

AllocationIsCheapest ==
  \A q \in 1..want : DepthOf(depth, Candidates(depth)) >= q =>
    LET mine == Allocation(q, depth)
        others == {a \in [Lit -> 0..q] :
                     Sum(a) = q /\ \A v \in Lit : a[v] <= IF v \in Candidates(depth) THEN depth[v] ELSE 0}
    IN  mine \in others /\ \A a \in others : Cost(mine) <= Cost(a)

(* What one slice may execute: no more than it asked for, unless the dark  *)
(* child went on executing until its cancellation came through.            *)
NoOverExecution == ~raced => executed + resting + darkOpen <= want

(* The reports of a slice that returns are all that was executed for it.   *)
ReturnedIsComplete ==
  routing = "returned" /\ ~raced => reports = executed /\ reports + resting = want

(* A child is on its way, or waits its turn, to a venue in quarantine only *)
(* if the venue was quarantined after the slice's children were chosen:    *)
(* lit children are sent one after another across awaits, and the split is *)
(* not revised.                                                            *)
QuarantineHonoured ==
  /\ routing = "dark" /\ darkVenue \in quarantined => darkVenue \in struck
  /\ routing = "lit" => ToSend \cap quarantined \subseteq struck

(* A streak of toxic fills quarantines the venue for the whole duration    *)
(* counted from every toxic fill of the streak: a late markout with an old *)
(* timestamp never shortens it.                                            *)
QuarantineHolds ==
  /\ \A v \in Venues : toxic[v] >= ToxicLimit => v \in quarantined
  /\ \A v \in quarantined : until[v] >= Quarantine

QuarantineNeverShortened == [][\A v \in Venues : until'[v] >= until[v]]_routerVars

(* A venue leaves quarantine only once it is over, whichever clock asked:  *)
(* the real one, that of an old markout or that of a slice under way.      *)
QuarantineServed == [][\A v \in quarantined \ quarantined' : until[v] <= now]_routerVars

(* A slice is split at the least cost, executes no more than it asks for   *)
(* but for the dark child's race, reports all it executed, and no child    *)
(* meets a venue whose quarantine is not served, unless it was imposed     *)
(* when the children had been chosen.                                      *)
RoutingSound ==
  /\ []AllocationIsCheapest
  /\ []NoOverExecution
  /\ []ReturnedIsComplete
  /\ []QuarantineHolds
  /\ []QuarantineHonoured
  /\ QuarantineNeverShortened
  /\ QuarantineServed
=============================================================================
