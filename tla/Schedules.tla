------------------------------ MODULE Schedules ------------------------------
(***************************************************************************)
(* The three schedulers of execution/algorithms.py and the dispatch of     *)
(* ExecutionService._generate_slices: a parent quantity is cut into slices.*)
(*                                                                         *)
(* Quantities are whole numbers of a unit of which the code's tolerance is *)
(* MassTolerance, times count from start_time_ns in units of which         *)
(* min_interval_sec is MinGap, ratios are percentages.  A random draw is   *)
(* any whole value in its range; the inventory curve of Almgren and Chriss *)
(* is any curve, as the code relies only on the clamp it applies to it.    *)
(* One step books one slice.                                               *)
(***************************************************************************)
EXTENDS Integers, Sequences, FiniteSetsExt, Functions

CONSTANTS
  Requests,     \* the requests tried
  MinGap,       \* min_interval_sec
  MassTolerance     \* MASS_CONSERVATION_TOLERANCE

(* The types of a request's fields.                                        *)
RequestTyped(r) ==
  /\ r.total \in Int
  /\ r.algorithm = "POISSON_TWAP" => {r.n, r.horizon, r.jitter, r.timeJitter} \subseteq Int
  /\ r.algorithm = "VOLUME_ADAPTIVE_VWAP" =>
       /\ {r.rate, r.smoothing, r.horizon} \subseteq Int
       /\ {r.curve, r.expected, r.realtime} \subseteq Seq(Int)
  /\ r.algorithm = "ARRIVAL_PRICE" => {r.n, r.horizon} \subseteq Int

ASSUME SchedulesAssumption ==
  /\ {MinGap, MassTolerance} \subseteq Nat \ {0}
  /\ \A r \in Requests : RequestTyped(r)

VARIABLES
  ask,          \* the request under way
  making,       \* idle, twap, vwap, capped, arrival, ready, raised
  bar,          \* the loop counter
  rest,         \* rem_quantity
  level,        \* the inventory curve at the last bar
  elapsed,      \* current_time_ns, last_timestamp_ns
  slices        \* the list built so far

scheduleVars == <<ask, making, bar, rest, level, elapsed, slices>>

NoRequest == [algorithm |-> "NONE"]

SchedulesInit ==
  /\ ask = NoRequest /\ making = "idle" /\ bar = 0
  /\ rest = 0 /\ level = 0 /\ elapsed = 0 /\ slices = <<>>

-----------------------------------------------------------------------------
TotalScheduled(s) == SumFunctionOnSet(s, DOMAIN s)
Quantities(list) == [i \in DOMAIN list |-> list[i].quantity]
Scheduled == TotalScheduled(Quantities(slices))

ValidTwap(r) ==
  /\ r.total > 0 /\ r.n >= 1
  /\ r.total >= r.n * MassTolerance
  /\ r.horizon > 0
  /\ r.jitter \in 0..99 /\ r.timeJitter \in 0..99

ValidVwap(r) ==
  /\ r.total > 0
  /\ Len(r.curve) >= 1 /\ \A k \in DOMAIN r.curve : r.curve[k] >= 0
  /\ TotalScheduled(r.curve) > 0
  /\ r.rate \in 1..100 /\ r.smoothing \in 0..100
  /\ r.horizon > 0

(* The volumes of a constrained schedule cover the curve.                  *)
ValidVolumes(r) ==
  /\ Len(r.expected) = Len(r.curve) /\ \A k \in DOMAIN r.expected : r.expected[k] >= 0
  /\ r.realtime # <<>> =>
       Len(r.realtime) = Len(r.curve) /\ \A k \in DOMAIN r.realtime : r.realtime[k] >= 0

ValidArrival(r) ==
  /\ r.total > 0 /\ r.n >= 1 /\ r.horizon > 0
  /\ r.volatility > 0 /\ r.aversion > 0 /\ r.impact > 0

Valid(r) ==
  CASE r.algorithm = "POISSON_TWAP" -> ValidTwap(r)
    [] r.algorithm = "VOLUME_ADAPTIVE_VWAP" -> ValidVwap(r) /\ (r.expected # <<>> => ValidVolumes(r))
    [] r.algorithm = "ARRIVAL_PRICE" -> ValidArrival(r)
    [] OTHER -> r.total > 0

MeanGap(r) == Max({MinGap, r.horizon \div r.n})
BarGap(r) == Max({MinGap, r.horizon \div Len(r.curve)})

(* A slice as ScheduledSlice accepts it: it raises on a quantity of zero.  *)
Usable(q, t) == q > 0 /\ t >= 0

Slice(q, t) == [index |-> Len(slices), quantity |-> q, time |-> t]

Raise == making' = "raised" /\ UNCHANGED <<ask, bar, rest, level, elapsed, slices>>

(* The check on the sum before a schedule is handed out.                   *)
Finish(total, list) ==
  IF TotalScheduled(Quantities(list)) \in (total - MassTolerance)..(total + MassTolerance)
  THEN "ready" ELSE "raised"

(* The constructor and the prologue of generate_schedule.                  *)
Generate(r) ==
  /\ making = "idle"
  /\ ask' = r
  /\ rest' = r.total /\ level' = r.total /\ elapsed' = 0
  /\ bar' = 1
  /\ making' =
       IF ~Valid(r) THEN "raised"
       ELSE CASE r.algorithm = "POISSON_TWAP" -> IF r.n = 1 THEN "ready" ELSE "twap"
              [] r.algorithm = "VOLUME_ADAPTIVE_VWAP" -> IF r.expected = <<>> THEN "vwap" ELSE "capped"
              [] r.algorithm = "ARRIVAL_PRICE" -> "arrival"
              [] OTHER -> "ready"
  /\ slices' = IF making' = "ready" THEN <<Slice(r.total, 0)>> ELSE <<>>

-----------------------------------------------------------------------------
(* POISSON_TWAP: a share of what is left, jittered, so clamped that every  *)
(* later slice keeps the tolerance.                                        *)
TwapShares ==
  LET left == ask.n - bar + 1
  IN  ((rest * (100 - ask.jitter)) \div (left * 100))..((rest * (100 + ask.jitter)) \div (left * 100))

(* Faulty variant: nothing is kept for the slices to come.                 *)
TwapClampNoReserve(q) == Max({MassTolerance, Min({rest, q})})

TwapClamp(q) == Max({MassTolerance, Min({rest - (ask.n - bar) * MassTolerance, q})})

TwapGaps ==
  {Max({MinGap, (MeanGap(ask) * (100 + x)) \div 100}) : x \in {-ask.timeJitter, 0, ask.timeJitter}}

TwapSlice ==
  /\ making = "twap" /\ bar < ask.n
  /\ \E draw \in TwapShares, gap \in TwapGaps :
       LET q == TwapClamp(draw) IN
       IF Usable(q, elapsed)
       THEN /\ slices' = Append(slices, Slice(q, elapsed))
            /\ rest' = rest - q
            /\ elapsed' = elapsed + gap
            /\ bar' = bar + 1
            /\ UNCHANGED <<ask, making, level>>
       ELSE Raise

TwapLast ==
  /\ making = "twap" /\ bar = ask.n
  /\ IF Usable(rest, elapsed)
     THEN /\ slices' = Append(slices, Slice(rest, elapsed))
          /\ making' = Finish(ask.total, slices')
          /\ UNCHANGED <<ask, bar, rest, level, elapsed>>
     ELSE Raise

-----------------------------------------------------------------------------
(* VOLUME_ADAPTIVE_VWAP without expected volumes: the curve's share of the *)
(* total for each bar but the last, which takes what is left.              *)
VwapBar ==
  /\ making = "vwap" /\ bar < Len(ask.curve)
  /\ LET q == (ask.total * ask.curve[bar]) \div TotalScheduled(ask.curve)
     IN  IF q > 0
         THEN /\ slices' = Append(slices, Slice(q, (bar - 1) * BarGap(ask)))
              /\ rest' = rest - q
         ELSE UNCHANGED <<slices, rest>>
  /\ bar' = bar + 1
  /\ UNCHANGED <<ask, making, level, elapsed>>

VwapLast ==
  /\ making = "vwap" /\ bar = Len(ask.curve)
  /\ slices' = IF rest > 0 THEN Append(slices, Slice(rest, (bar - 1) * BarGap(ask))) ELSE slices
  /\ making' = IF slices' = <<>> THEN "raised" ELSE Finish(ask.total, slices')
  /\ UNCHANGED <<ask, bar, rest, level, elapsed>>

(* With expected volumes: the share of what is left by the remaining curve,*)
(* at most the participation rate of the blended volume.                   *)
Blended(k) ==
  IF ask.realtime = <<>> THEN ask.expected[k]
  ELSE (ask.smoothing * ask.expected[k] + (100 - ask.smoothing) * ask.realtime[k]) \div 100

Cap(k) == (ask.rate * Blended(k)) \div 100

RemainingWeight(k) == SumFunctionOnSet(ask.curve, k..Len(ask.curve))

Desired(k) == (rest * ask.curve[k]) \div RemainingWeight(k)

CappedQuantity(k) ==
  IF RemainingWeight(k) > 0 /\ rest > 0 THEN Min({Desired(k), Cap(k)}) ELSE 0

CappedBar ==
  /\ making = "capped" /\ bar <= Len(ask.curve)
  /\ LET q == CappedQuantity(bar)
     IN  IF q > 0
         THEN /\ slices' = Append(slices, Slice(q, (bar - 1) * BarGap(ask)))
              /\ rest' = rest - q
         ELSE UNCHANGED <<slices, rest>>
  /\ bar' = bar + 1
  /\ UNCHANGED <<ask, making, level, elapsed>>

CappedEnd ==
  /\ making = "capped" /\ bar > Len(ask.curve)
  /\ making' = IF slices = <<>> THEN "raised" ELSE "ready"
  /\ UNCHANGED <<ask, bar, rest, level, elapsed, slices>>

-----------------------------------------------------------------------------
(* ARRIVAL_PRICE.  The curve ends at zero and never rises.                 *)
NextLevel(raw) == IF bar = ask.n THEN 0 ELSE Max({0, Min({level, raw})})

ArrivalTime(t) == IF slices # <<>> THEN Max({elapsed + 1, t}) ELSE t

ArrivalSlice ==
  /\ making = "arrival" /\ bar <= ask.n /\ rest > 0
  /\ \E raw \in 0..ask.total :
       LET drop == level - NextLevel(raw)
           q == IF bar = ask.n \/ drop >= rest THEN rest ELSE drop
           t == ArrivalTime(((bar - 1) * ask.horizon) \div ask.n)
       IN  /\ level' = NextLevel(raw)
           /\ IF q > 0
              THEN slices' = Append(slices, Slice(q, t)) /\ rest' = rest - q /\ elapsed' = t
              ELSE UNCHANGED <<slices, rest, elapsed>>
  /\ bar' = bar + 1
  /\ UNCHANGED <<ask, making>>

ArrivalEnd ==
  /\ making = "arrival" /\ (bar > ask.n \/ rest <= 0)
  /\ making' = Finish(ask.total, slices)
  /\ UNCHANGED <<ask, bar, rest, level, elapsed, slices>>

SchedulesNext ==
  \/ \E r \in Requests : Generate(r)
  \/ TwapSlice \/ TwapLast
  \/ VwapBar \/ VwapLast
  \/ CappedBar \/ CappedEnd
  \/ ArrivalSlice \/ ArrivalEnd

SchedulesSpec == SchedulesInit /\ [][SchedulesNext]_scheduleVars

-----------------------------------------------------------------------------
IsCapped == ask.algorithm = "VOLUME_ADAPTIVE_VWAP" /\ ask.expected # <<>>

(* A request the constructors accept gets a schedule: no slice is refused  *)
(* as empty and the sum check never fails on the way (the service would    *)
(* answer 500).  Only a constrained schedule can fail, for want of volume. *)
ValidRequestsAreScheduled ==
  making = "raised" /\ Valid(ask) =>
    IsCapped /\ \A k \in DOMAIN ask.curve : CappedQuantity(k) = 0

BarQuantity(k) ==
  SumFunctionOnSet(Quantities(slices), {i \in DOMAIN slices : slices[i].time = (k - 1) * BarGap(ask)})

(* The slices add up to the order (INV-SOR-001).  A constrained schedule   *)
(* never exceeds it and falls short only when the last bar that has weight *)
(* was cut by the participation cap.                                       *)
ScheduleIsWhole ==
  making = "ready" =>
    \/ Scheduled = ask.total
    \/ /\ IsCapped /\ Scheduled < ask.total
       /\ LET last == Max({k \in DOMAIN ask.curve : ask.curve[k] > 0})
          IN  BarQuantity(last) = Cap(last)

(* No slice of a constrained schedule is above its bar's participation in  *)
(* the blended volume.                                                     *)
ParticipationKept ==
  IsCapped /\ making \in {"capped", "ready"} =>
    \A i \in DOMAIN slices : slices[i].quantity <= Cap((slices[i].time \div BarGap(ask)) + 1)

(* The slice loop takes the slices in list order and sleeps until each:    *)
(* times never go back, never repeat, and indices number the list.         *)
SlicesInOrder ==
  \A i \in DOMAIN slices :
    /\ slices[i].index = i - 1
    /\ i > 1 => slices[i - 1].time < slices[i].time

(* The service drops slices later than the horizon.  A jittered schedule   *)
(* keeps clear of it when the gaps it was given can absorb the jitter.     *)
TwapWithinHorizon ==
  ask.algorithm = "POISSON_TWAP" /\ Valid(ask) /\ ask.horizon >= MinGap * ask.n
  /\ (ask.n - 1) * (100 + ask.timeJitter) <= 100 * ask.n =>
    \A i \in DOMAIN slices : slices[i].time <= ask.horizon

(* Every valid request gets a schedule that adds up to it, in order,       *)
(* within its participation and, where the gaps allow, its horizon.        *)
SchedulesSound ==
  /\ ValidRequestsAreScheduled
  /\ ScheduleIsWhole
  /\ ParticipationKept
  /\ SlicesInOrder
  /\ TwapWithinHorizon
=============================================================================
