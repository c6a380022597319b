--------------------------- MODULE CircuitBreaker ---------------------------
(***************************************************************************)
(* The circuit-breaker overlay (analytics/circuit_breakers.py): a shock    *)
(* score per bar, four tiers with hysteresis, and the haircut on           *)
(* exposures.  Scores, weights and haircuts are fractions in units of      *)
(* 1/Scale; the entropy of the ensemble's directions and its epistemic     *)
(* share, which the score weighs, are inputs in those units, and so is the *)
(* panic flag evaluate_prediction derives from the most likely regime.     *)
(***************************************************************************)
EXTENDS Integers, FiniteSetsExt

CONSTANTS
  Scale,
  Recovery, Caution, Derisk, Halt,              \* thresholds
  Dwell,                                        \* dwell_time_bars
  WeightEntropy, WeightRatio, WeightAmbiguity,  \* of the composite shock
  Readings,     \* entropies, epistemic shares and normalised betas of a bar
  MaxBars       \* bound: bars counted

(* CircuitBreakerConfig.__post_init__ and the calculators' constructors.   *)
BreakerConfig ==
  /\ Scale \in Nat \ {0} /\ Dwell \in Nat \ {0}
  /\ {Recovery, Caution, Derisk, Halt, WeightEntropy, WeightRatio, WeightAmbiguity} \subseteq Nat
  /\ 0 < Recovery /\ Recovery < Caution /\ Caution < Derisk /\ Derisk < Halt /\ Halt <= Scale
  /\ WeightEntropy + WeightRatio + WeightAmbiguity = Scale

ASSUME BreakerAssumption == BreakerConfig /\ MaxBars \in Nat /\ Readings \subseteq 0..Scale

NORMAL == 0
CAUTION == 1
DERISK == 2
HALT == 3

VARIABLES
  tier, bars,   \* CircuitBreakerState: tier and active_bars_in_tier
  haircut,      \* execution_haircut of the decision
  shock,        \* composite_shock_score of the bar
  alarm,        \* cusum_shock and regime_is_panic of the bar
  sinceHalt     \* history: bars since HALT was entered

breakerVars == <<tier, bars, haircut, shock, alarm, sinceHalt>>

Clamp(x) == Max({0, Min({x, Scale})})

(* compute_composite_shock *)
CompositeShock(entropy, ratio, beta) ==
  Clamp((WeightEntropy * entropy + WeightRatio * ratio + WeightAmbiguity * beta) \div Scale)

(* compute_haircut: 1 at no shock, 0 at full shock, falling in between (the *)
(* normalised sigmoid; a straight line keeps its order and its ends).      *)
ContinuousHaircut(score) == Clamp(Scale - score)

(* Step 3 of evaluate. *)
Candidate(score, panic) ==
  IF panic \/ score >= Halt THEN HALT
  ELSE IF score >= Derisk THEN DERISK
  ELSE IF score >= Caution THEN CAUTION ELSE NORMAL

(* Step 4: up at once; down one tier, from HALT and DERISK only after the  *)
(* dwell time, and only on a score below the recovery threshold.           *)
(* A variant: CAUTION is never left.                                       *)
LoweredOnCaution(score) == tier # CAUTION /\ score < Recovery /\ bars >= Dwell

Lowered(score) ==
  /\ score < Recovery
  /\ tier \in {HALT, DERISK} => bars >= Dwell

(* A variant: recovery is straight to the candidate tier.                  *)
NextTierToCandidate(score, panic) ==
  LET c == Candidate(score, panic)
  IN  IF c > tier \/ Lowered(score) THEN c ELSE tier

NextTier(score, panic) ==
  LET c == Candidate(score, panic)
  IN  IF c > tier THEN c
      ELSE IF c < tier /\ Lowered(score) THEN tier - 1 ELSE tier

NextBars(new) == IF new = tier THEN Min({bars + 1, MaxBars}) ELSE 1

(* Step 5. *)
ExecutionHaircut(new, score) ==
  CASE new \in {HALT, DERISK} -> 0
    [] new = CAUTION -> Min({Scale \div 2, ContinuousHaircut(score)})
    [] OTHER -> ContinuousHaircut(score)

(* initialize_state *)
BreakerInit ==
  /\ tier = NORMAL /\ bars = 0 /\ haircut = Scale /\ shock = 0
  /\ alarm = FALSE /\ sinceHalt = MaxBars

(* evaluate *)
Evaluate(entropy, ratio, beta, panic) ==
  LET score == CompositeShock(entropy, ratio, beta)
      new == NextTier(score, panic)
  IN  /\ tier' = new /\ bars' = NextBars(new)
      /\ haircut' = ExecutionHaircut(new, score) /\ shock' = score /\ alarm' = panic
      /\ sinceHalt' = IF new = HALT /\ tier # HALT THEN 1 ELSE Min({sinceHalt + 1, MaxBars})

BreakerNext == \E e, r, b \in Readings, panic \in BOOLEAN : Evaluate(e, r, b, panic)

(* The caller evaluates it once per bar, for as long as bars arrive.       *)
BreakerFairness == WF_breakerVars(BreakerNext)

BreakerSpec == BreakerInit /\ [][BreakerNext]_breakerVars /\ BreakerFairness

----------------------------------------------------------------------------
(* Properties                                                              *)

(* INV-CB-003 over a whole recovery: exposure comes back, at half size, no *)
(* sooner than two dwell times after the halt, whatever the readings did.  *)
RecoveryTakesTwoDwells ==
  haircut > 0 => sinceHalt > 2 * Dwell \/ sinceHalt = MaxBars

(* Exposure comes back in steps: after a bar without exposure the next is  *)
(* at most half sized, and no bar lowers the breaker by two tiers.         *)
ExposureReturnsInSteps ==
  [][/\ tier \in {HALT, DERISK} => haircut' <= Scale \div 2
     /\ tier' < tier => tier' = tier - 1]_breakerVars

(* After a halt exposure comes back late and in steps (INV-CB-003).        *)
RecoveryIsGradual ==
  /\ []RecoveryTakesTwoDwells
  /\ ExposureReturnsInSteps

(* However high it stands, the breaker is back to NORMAL and stays there   *)
(* once the bars stay calm, provided that bars keep coming.                *)
CalmRestoresTrading == []<>(shock >= Recovery \/ alarm) \/ <>[](tier = NORMAL)
=============================================================================
