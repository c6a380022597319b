--------------------------- MODULE BacktestReplay ---------------------------
(***************************************************************************)
(* A backtest: BacktestRunner (analytics/backtest_runner.py) drives the    *)
(* ReplayEngine (analytics/simulation.py) bar by bar through the circuit   *)
(* breaker, the sizer, the cost model and the portfolio ledger, collects   *)
(* the bars' records and audits them.  Money is an integer; a holding is   *)
(* counted in units of Unit money, a return in Unit-ths, so that holding   *)
(* times return is money.  The ambiguity temperature is constant in a run, *)
(* the models' disagreement moves the entropy and the epistemic share      *)
(* together.                                                               *)
(***************************************************************************)
EXTENDS CircuitBreaker, PositionSizer

CONSTANTS
  Capital,          \* initial_capital
  Unit,
  MaxLeverage,      \* max_leverage
  MddNum, MddDen,   \* mdd_budget
  Fee,              \* cost per unit of turnover: fees and half spread
  Impact,           \* impact cost of a trade of n units, from 0
  Hurdle,           \* meta_label_thresh times the volatility
  MinReplayBars,    \* 30: the shortest record audited
  Lengths,          \* lengths of the series enumerated
  Returns           \* returns enumerated

(* SimulationConfig, BacktestRunner.__init__, ExecutionCostModel.__init__. *)
SimulationConfig ==
  /\ {Capital, Unit, MaxLeverage, MddNum, MddDen} \subseteq Nat \ {0} /\ MddNum <= MddDen
  /\ Fee \in Nat /\ Hurdle \in Nat /\ MinReplayBars \in Nat \ {0}
  /\ Impact[0] = 0 /\ \A n \in DOMAIN Impact : Impact[n] \in Nat
  /\ \A a, b \in Holdings \cup {0} : Magnitude(a - b) \in DOMAIN Impact

ASSUME ReplayAssumption == SimulationConfig /\ Lengths \subseteq Nat /\ Returns \subseteq Int

Modes == {"given", "chromosome", "batches"}

VARIABLES
  phase,      \* idle, running, reported, ruined, refused
  run,        \* what was asked: mode, number of bars, models, beta, whether the prior is a panic
  seen,       \* asset_returns up to the last bar
  slow,       \* numerator of the slow average, over 3^t
  holding,    \* the ledger's positions, in units
  equity, peak,
  records,    \* the collector's records
  report

replayVars == <<phase, run, seen, slow, holding, equity, peak, records, report>>

NoReport == [final |-> 0, worst |-> <<0, 1>>, friction |-> 0, halted |-> 0]
NoRun == [mode |-> "given", bars |-> 0, models |-> 1, beta |-> 0, panic |-> FALSE]

Flat == Zeros

ReplayInit ==
  /\ phase = "idle" /\ run = NoRun /\ seen = <<>> /\ slow = Zeros
  /\ holding = Flat /\ equity = Capital /\ peak = Capital
  /\ records = <<>> /\ report = NoReport

(* The checks of BacktestRunner.run: enough bars, timestamps that rise.    *)
(* run_on_market_batches counts the bars before one is spent on the first  *)
(* return, and run counts them again.                                      *)
Accepted(mode, length, rising) ==
  /\ rising
  /\ IF mode = "batches"
     THEN length >= MinReplayBars /\ length - 1 >= MinReplayBars
     ELSE length >= MinReplayBars

(* run, run_with_chromosome and run_on_market_batches.  The last two pass  *)
(* one prediction per asset: one model; the last passes no CUSUM shocks    *)
(* and regime probabilities that are never a panic.                        *)
StartRun(mode, length, rising, models, beta, panic) ==
  /\ phase = "idle"
  /\ mode \in {"chromosome", "batches"} => models = 1
  /\ mode = "batches" => beta = 0
  /\ mode # "chromosome" => ~panic
  /\ phase' = IF Accepted(mode, length, rising) THEN "running" ELSE "refused"
  /\ run' = [mode |-> mode, bars |-> IF mode = "batches" THEN length - 1 ELSE length,
             models |-> models, beta |-> beta, panic |-> panic]
  /\ UNCHANGED <<seen, slow, holding, equity, peak, records, report>>
  /\ UNCHANGED breakerVars

(* The averages of the returns before bar t (t >= 1): 2/(5+1) for the      *)
(* market batches; slow 2/(2+1) and fast 2/(1+1) blended evenly for a      *)
(* chromosome with the shortest half-lives.                                *)
SlowAfter(t) ==
  [i \in Assets |->
     IF t = 0 THEN 0
     ELSE IF run.mode = "batches" THEN 2 * slow[i] + seen[t][i] * 3^(t - 1)
     ELSE slow[i] + 2 * seen[t][i] * 3^(t - 1)]

(* A variant: the bar's own return enters its signal.                      *)
SignalsPeeking(t, ret) ==
  [i \in Assets |-> IF run.mode = "batches" THEN Sign(2 * SlowAfter(t)[i] + ret[i] * 3^t)
                    ELSE Sign(ret[i])]

(* The sign of the prediction; a chromosome's is dropped below its hurdle. *)
Signals(t, ret) ==
  LET s == SlowAfter(t)
  IN  [i \in Assets |->
         IF t = 0 THEN 0
         ELSE IF run.mode = "batches" THEN Sign(s[i])
         ELSE LET blend == seen[t][i] * 3^t + s[i]
              IN  IF Magnitude(blend) >= Hurdle * 3^t THEN Sign(blend) ELSE 0]

(* The haircut handed to the sizer.                                        *)
Kappa(new, score) == IF new = HALT THEN 0 ELSE ExecutionHaircut(new, score)

(* solve: the budgets are fractions of the equity before the bar; under no *)
(* haircut nothing is held.                                                *)
Targets(sig, kappa) ==
  IF kappa <= 0 THEN {Flat}
  ELSE {x \in [Assets -> Holdings] :
          /\ \A i \in Assets : x[i] # 0 => Sign(x[i]) = sig[i]
          /\ Total(Magnitudes(x)) * Unit <= MaxLeverage * equity
          /\ Weighted(Magnitudes(x)) * Unit * MddDen <= MddNum * equity}

(* compute_cost *)
Friction(new) ==
  LET trade == [i \in Assets |-> Magnitude(new[i] - holding[i])]
  IN  Fee * Total(trade) + Total([i \in Assets |-> Impact[trade[i]]])

(* PortfolioLedger.update: the old positions earn the bar's return, and    *)
(* the first bar earns nothing.                                            *)
Earned(t, ret) ==
  IF t = 0 THEN 0 ELSE Total([i \in Assets |-> holding[i] * ret[i]])

Record(new, gross, cost, worth, hwm, t) ==
  [holding |-> new, gross |-> gross, friction |-> cost, equity |-> worth,
   drawdown |-> <<hwm - worth, hwm>>, tier |-> t]

PeakAfter(worth) == Max({peak, worth})

(* A bar: the breaker, the sizer, the costs, the ledger, the collector.    *)
(* Ruin raises out of the ledger before it has changed anything, so the    *)
(* bar leaves no record.                                                   *)
Bar(ret, sig, d, panic) ==
  LET t == Len(records)
      score == CompositeShock(d, d, run.beta)
      new == NextTier(score, panic)
  IN  /\ phase = "running" /\ t < run.bars
      /\ Evaluate(d, d, run.beta, panic)
      /\ \E x \in Targets(sig, Kappa(new, score)) :
           LET cost == Friction(x)
               gross == Earned(t, ret)
               worth == equity + gross - cost
           IN  IF worth <= 0
               THEN /\ phase' = "ruined"
                    /\ UNCHANGED <<holding, equity, peak, records>>
               ELSE /\ phase' = phase
                    /\ holding' = x /\ equity' = worth /\ peak' = PeakAfter(worth)
                    /\ records' = Append(records, Record(x, gross, cost, worth, peak', new))
      /\ seen' = Append(seen, ret) /\ slow' = SlowAfter(t)
      /\ UNCHANGED <<run, report>>

(* The predictions are given, or computed from the returns so far.         *)
GivenBar ==
  /\ run.mode = "given"
  /\ \E ret \in [Assets -> Returns], sig \in [Assets -> {-1, 0, 1}], panic \in BOOLEAN,
        d \in (IF run.models > 1 THEN Readings ELSE {0}) :
       Bar(ret, sig, d, panic)

ComputedBar ==
  /\ run.mode # "given"
  /\ \E ret \in [Assets -> Returns], cusum \in BOOLEAN :
       Bar(ret, Signals(Len(records), ret), 0, cusum /\ run.panic)

Worse(p, q) == p[1] * q[2] > q[1] * p[2]
Worst(ds) == CHOOSE p \in ds : \A q \in ds : ~Worse(q, p)

(* BenchmarkAuditor.audit over the ledger's history.                       *)
Audit ==
  /\ phase = "running" /\ Len(records) = run.bars
  /\ phase' = "reported"
  /\ report' =
       [final |-> records[run.bars].equity,
        worst |-> Worst({records[i].drawdown : i \in DOMAIN records}),
        friction |-> Total([i \in DOMAIN records |-> records[i].friction]),
        halted |-> Cardinality({i \in DOMAIN records : records[i].tier = HALT})]
  /\ UNCHANGED <<run, seen, slow, holding, equity, peak, records>>
  /\ UNCHANGED breakerVars

ReplayNext ==
  \/ \E mode \in Modes, length \in Lengths, rising, panic \in BOOLEAN, models \in {1, 2},
        beta \in Readings : StartRun(mode, length, rising, models, beta, panic)
  \/ GivenBar
  \/ ComputedBar
  \/ Audit

(* The sizer here is its operators: its own state stands still.            *)
ReplaySpec ==
  /\ BreakerInit /\ SizerInit /\ ReplayInit
  /\ [][ReplayNext /\ UNCHANGED sizerVars]_<<breakerVars, replayVars, sizerVars>>

----------------------------------------------------------------------------
(* Properties                                                              *)

HoldingBefore(i) == IF i = 1 THEN Flat ELSE records[i - 1].holding
EquityAt(i) == IF i = 0 THEN Capital ELSE records[i].equity

(* INV-SIM-001, no look-ahead: a computed signal first moves a position on *)
(* the second bar, which first earns on the third, so no backtest is ahead *)
(* of its capital before that.                                             *)
NothingEarnedEarly ==
  run.mode # "given" => \A i \in DOMAIN records : i <= 2 => records[i].equity <= Capital

(* INV-SIM-002: what a backtest reports is what its log adds up to, from   *)
(* the holdings and the frictions of every bar; its drawdown is the worst  *)
(* fall between any two points of the equity curve, the start included.    *)
ReportMatchesLog ==
  phase = "reported" =>
    /\ report.final = Capital - report.friction
         + Total([i \in DOMAIN records |->
                    Total([a \in Assets |-> HoldingBefore(i)[a] * seen[i][a]])])
    /\ \A i, j \in 0..run.bars :
         i < j => ~Worse(<<EquityAt(i) - EquityAt(j), EquityAt(i)>>, report.worst)

(* INV-CB over the replay: nothing is held after a bar in DERISK or HALT,  *)
(* so the next one can only lose the cost of buying back.                  *)
HaltedBarsAreFlat ==
  \A i \in DOMAIN records :
    records[i].tier \in {DERISK, HALT} =>
      /\ records[i].holding = Flat
      /\ i + 1 \in DOMAIN records => EquityAt(i + 1) <= EquityAt(i)

(* max_leverage holds against the equity the sizer saw; the leverage a     *)
(* record shows, against the equity after the bar, exceeds it only when    *)
(* the bar lost money.                                                     *)
LeverageExcessExplained ==
  \A i \in DOMAIN records :
    Total(Magnitudes(records[i].holding)) * Unit > MaxLeverage * records[i].equity
      => EquityAt(i) < EquityAt(i - 1)

(* With one prediction per asset the ensemble cannot disagree: the breaker *)
(* stays in NORMAL unless a CUSUM shock meets a panic regime, so the two   *)
(* convenience entry points run without it (the ambiguity's weight alone   *)
(* does not reach the first threshold).                                    *)
OneModelNeverTrips ==
  (run.models = 1 /\ ~run.panic /\ run.mode # "given")
    => \A i \in DOMAIN records : records[i].tier = NORMAL

(* A backtest earns nothing before its signals can have, reports what its  *)
(* log adds up to, holds nothing under a halt, and exceeds its leverage    *)
(* only in the report of a losing bar.                                     *)
ReplayHonest ==
  /\ NothingEarnedEarly
  /\ ReportMatchesLog
  /\ HaltedBarsAreFlat
  /\ LeverageExcessExplained
  /\ OneModelNeverTrips
=============================================================================
