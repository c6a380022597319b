--------------------------- MODULE TripleBarrier ---------------------------
(***************************************************************************)
(* Triple-barrier labels (analytics/labeling.py) and the meta-labels and   *)
(* bet sizes built on them (analytics/meta_labeling.py).  Prices are       *)
(* integers; the barriers' distances, volatility times a multiplier, are   *)
(* constants before they are put on the tick grid, and so is the           *)
(* round-trip friction.                                                    *)
(***************************************************************************)
EXTENDS Integers, Sequences, FiniteSetsExt, Functions

CONSTANTS
  Candles,           \* bars enumerated: [open, high, low, close]
  SeriesLength,
  EventCount,        \* events labelled, bars 1, 2, ...
  Horizon,           \* horizon_bars
  Delay,             \* execution_delay_bars
  Profit, Stop,      \* distances of the two barriers
  Ticks,             \* tick_size, 1 when there is none
  RoundTripFriction, \* round_trip_friction
  LeverageCap,       \* max_leverage
  Stakes             \* kelly_fraction * f_star / max(0.1, duration_factor), up
                     \* to ten times the edge; 0 below the hurdle

(* TripleBarrierConfig.__post_init__, MetaLabelConfig.__post_init__, the   *)
(* checks of label_arrays and of compute_parkinson_volatility.             *)
BarrierConfig ==
  /\ {SeriesLength, EventCount, Horizon, Delay, RoundTripFriction} \subseteq Nat
  /\ Horizon >= 1 /\ Profit \in Nat \ {0} /\ Stop \in Nat \ {0} /\ Ticks \subseteq Nat \ {0}
  /\ LeverageCap \in Nat \ {0} /\ Stakes \subseteq Nat
  /\ \A k \in Stakes, n \in 1..EventCount : k % n = 0    \* the shares are whole
  /\ SeriesLength >= Horizon + Delay
  /\ \A c \in Candles : /\ {c.open, c.high, c.low, c.close} \subseteq Nat
                        /\ 0 < c.low /\ c.low <= c.high
                        /\ c.open \in c.low..c.high /\ c.close \in c.low..c.high

ASSUME BarrierAssumption == BarrierConfig

LONG == 1
SHORT == -1
UNSIGNED == 0

VARIABLES
  candles,     \* the market batch
  policy,      \* pessimistic_collision, sign_expiration_returns, tick_size
  labels,      \* the BarrierLabels
  metas,       \* the MetaLabels
  sizes        \* the bets' magnitudes, with the stakes they come from

barrierVars == <<candles, policy, labels, metas, sizes>>

(* round(level / tick) * tick; halves go to the even multiple.  A tick     *)
(* coarser than the distance can put a barrier on or behind the entry.     *)
Quantised(level, tick) ==
  LET below == level \div tick
      rest == level % tick
      up == 2 * rest > tick \/ (2 * rest = tick /\ below % 2 = 1)
  IN  tick * (IF up THEN below + 1 ELSE below)

Upper(price, side, tick) == Quantised(price + (IF side = SHORT THEN Stop ELSE Profit), tick)
Lower(price, side, tick) == Quantised(price - (IF side = SHORT THEN Profit ELSE Stop), tick)

(* A variant: an opening gap is not looked for.                            *)
TouchNoGap(c, up, lo, side, pessimistic) ==
  IF c.high >= up /\ c.low <= lo
       THEN IF pessimistic THEN <<"stop", IF side = SHORT THEN up ELSE lo>> ELSE <<"upper", up>>
  ELSE IF c.high >= up THEN <<"upper", up>>
  ELSE IF c.low <= lo THEN <<"lower", lo>>
  ELSE <<"none", 0>>

(* What a bar does to a trade between its barriers: reason and exit price. *)
Touch(c, up, lo, side, pessimistic) ==
  IF c.open >= up THEN <<"upper", c.open>>
  ELSE IF c.open <= lo THEN <<"lower", c.open>>
  ELSE IF c.high >= up /\ c.low <= lo
       THEN IF pessimistic THEN <<"stop", IF side = SHORT THEN up ELSE lo>> ELSE <<"upper", up>>
  ELSE IF c.high >= up THEN <<"upper", up>>
  ELSE IF c.low <= lo THEN <<"lower", lo>>
  ELSE <<"none", 0>>

ExitBar(hits, horizon) == IF hits = {} THEN horizon ELSE Min(hits)

(* An unsigned trade earns the size of the move, whichever way it went.    *)
NetReturn(side, entry, exit) ==
  (IF side = SHORT \/ (side = UNSIGNED /\ exit < entry) THEN entry - exit ELSE exit - entry)
    - RoundTripFriction

LabelValue(reason, side, net, signed) ==
  CASE reason = "upper" -> IF side = SHORT THEN -1 ELSE 1
    [] reason \in {"lower", "stop"} -> IF side = SHORT THEN 1 ELSE -1
    [] OTHER -> IF ~signed THEN 0 ELSE IF net > 0 THEN 1 ELSE IF net < 0 THEN -1 ELSE 0

(* label_arrays for one event: entered at the open Delay bars later, left  *)
(* at the first barrier touched within the horizon or at its close.        *)
LabelOf(series, event, side, pol) ==
  LET entry == event + Delay
      price == series[entry].open
      up == Upper(price, side, pol.tick)
      lo == Lower(price, side, pol.tick)
      horizon == Min({SeriesLength, entry + Horizon})
      touch(k) == Touch(series[k], up, lo, side, pol.pessimistic)
      hits == {k \in entry..horizon : touch(k)[1] # "none"}
      exit == ExitBar(hits, horizon)
      reason == IF hits = {} THEN "vertical" ELSE touch(exit)[1]
      at == IF hits = {} THEN series[horizon].close ELSE touch(exit)[2]
      net == NetReturn(side, price, at)
  IN  [event |-> event, entry |-> entry, exit |-> exit, side |-> side, price |-> price,
       at |-> at, upper |-> up, lower |-> lo, reason |-> reason, net |-> net,
       label |-> LabelValue(reason, side, net, pol.signed)]

(* generate_meta_labels: the signal's payoff is the label's return, or its *)
(* negative when the signal takes the other side; a signal on an unsigned  *)
(* label is paid as if that were LONG.                                     *)
MetaOf(l, sig) ==
  LET payoff == IF sig = l.side \/ (l.side = UNSIGNED /\ sig = LONG) THEN l.net ELSE -l.net
  IN  [signal |-> sig, payoff |-> payoff, label |-> IF payoff > 0 THEN 1 ELSE 0]

(* compute_concurrency: trades open when this one is entered.              *)
Concurrency(ls, i) ==
  Max({1, Cardinality({j \in DOMAIN ls : ls[j].entry <= ls[i].entry /\ ls[j].exit > ls[i].entry})})

(* compute_bet_size: the stake is divided by the trades open at the entry, *)
(* and only then clamped.                                                  *)
BetSize(ls, i, stake) == Min({LeverageCap, stake \div Concurrency(ls, i)})

BarrierInit ==
  /\ candles = <<>> /\ policy = [pessimistic |-> TRUE, signed |-> FALSE, tick |-> 1]
  /\ labels = <<>> /\ metas = <<>> /\ sizes = <<>>

(* label_batch; an event too late to be entered gets no label.             *)
LabelBatch(series, sides, pol) ==
  /\ labels = <<>>
  /\ candles' = series /\ policy' = pol
  /\ labels' = [i \in {e \in DOMAIN sides : e + Delay <= SeriesLength} |-> LabelOf(series, i, sides[i], pol)]
  /\ UNCHANGED <<metas, sizes>>

(* The meta-labeler takes the labels with the primary model's signals,     *)
(* then sizes the bets, given the labels' concurrency.                     *)
MetaLabelBatch(sig, stakes) ==
  /\ labels # <<>> /\ metas = <<>>
  /\ metas' = [i \in DOMAIN labels |-> MetaOf(labels[i], sig)]
  /\ sizes' = [i \in DOMAIN labels |-> [stake |-> stakes[i], size |-> BetSize(labels, i, stakes[i])]]
  /\ UNCHANGED <<candles, policy, labels>>

BarrierNext ==
  \/ /\ labels = <<>>
     /\ \E series \in [1..SeriesLength -> Candles],
           sides \in [1..EventCount -> {LONG, SHORT, UNSIGNED}],
           pol \in [pessimistic : BOOLEAN, signed : BOOLEAN, tick : Ticks] :
          LabelBatch(series, sides, pol)
  \/ \E sig \in {LONG, SHORT}, stakes \in [1..EventCount -> Stakes] : MetaLabelBatch(sig, stakes)

BarrierSpec == BarrierInit /\ [][BarrierNext]_barrierVars

----------------------------------------------------------------------------
(* Properties                                                              *)

(* BarrierTouchReason (labeling.py:33): a dual touch is "resolved to stop  *)
(* loss"; a stopped trade is not a winning example.                        *)
StoppedTradeIsNotAWin ==
  \A i \in DOMAIN labels : labels[i].reason = "stop" => labels[i].label # 1

(* "Opening gaps execute at actual open": whatever the barriers, a trade   *)
(* leaves at a price its exit bar traded at, no later than the horizon,    *)
(* and no earlier bar of the trade had reached a barrier.                  *)
ExitWasTradable ==
  \A i \in DOMAIN labels :
    LET l == labels[i]
        c == candles[l.exit]
    IN  /\ l.at \in c.low..c.high
        /\ l.exit <= l.entry + Horizon
        /\ \A k \in l.entry..(l.exit - 1) :
             candles[k].high < l.upper /\ candles[k].low > l.lower

(* What the price did for the side of the trade.                           *)
Move(l) == IF l.side = SHORT THEN l.price - l.at ELSE l.at - l.price

(* The tick put a barrier on the entry price: the first bar opens at it.   *)
BarrierAtEntry(l) ==
  l.exit = l.entry /\ l.at = l.price /\ ~(l.lower < l.price /\ l.price < l.upper)

(* A label of +1 is a trade the price moved for, except for a SHORT stopped*)
(* by a dual touch, an unsigned trade that expired after a fall larger than*)
(* its costs, and a trade that a rounded barrier closed as it was entered; *)
(* -1 is a trade the price moved against, except for that last one and for *)
(* one that expired with less than its costs.                              *)
LabelSignExplained ==
  \A i \in DOMAIN labels :
    LET l == labels[i]
    IN  /\ (l.label = 1 /\ Move(l) <= 0) =>
             \/ l.reason = "stop" /\ l.side = SHORT
             \/ l.reason = "vertical" /\ l.side = UNSIGNED /\ Move(l) < -RoundTripFriction
             \/ BarrierAtEntry(l)
        /\ (l.label = -1 /\ Move(l) >= 0) =>
             \/ l.reason = "vertical" /\ Move(l) < RoundTripFriction
             \/ BarrierAtEntry(l)

(* A meta-label says whether its signal would have earned more than the    *)
(* costs, but for a signal against the labelled side, whose costs count as *)
(* a gain, and for signals on unsigned labels, which are paid for the size *)
(* of the move and not for its direction.                                  *)
MetaLabelCostExplained ==
  \A i \in DOMAIN metas :
    LET l == labels[i]
        gross == (l.at - l.price) * metas[i].signal
    IN  ~(metas[i].label = 1 <=> gross > RoundTripFriction) =>
          \/ l.side = -metas[i].signal /\ gross \in (1 - RoundTripFriction)..RoundTripFriction
          \/ l.side = UNSIGNED /\ metas[i].signal = LONG /\ gross < -RoundTripFriction
          \/ l.side = UNSIGNED /\ metas[i].signal = SHORT
               /\ (metas[i].label = 1 => gross < RoundTripFriction /\ -gross < RoundTripFriction)

(* The bets open at one time stay below what so many bets of the largest   *)
(* stake among them would get if each were entered after all the others:   *)
(* the stake, its half, its third..., none above the cap.  The cap holds   *)
(* for each bet, not for the book.                                         *)
OpenBetsBounded ==
  \A t \in 1..SeriesLength :
    LET open == {i \in DOMAIN sizes : labels[i].entry <= t /\ t < labels[i].exit}
        top == Max({0} \cup {sizes[i].stake : i \in open})
    IN  SumFunctionOnSet([i \in DOMAIN sizes |-> sizes[i].size], open)
          <= SumFunctionOnSet([n \in 1..EventCount |-> Min({LeverageCap, top \div n})], 1..Cardinality(open))

(* Labels, meta-labels and bet sizes stand for trades that could be made,  *)
(* but for the dual touches, rounded barriers and unsigned trades that the *)
(* parts name.                                                             *)
LabelsExplained ==
  /\ ExitWasTradable
  /\ LabelSignExplained
  /\ MetaLabelCostExplained
  /\ OpenBetsBounded
=============================================================================
