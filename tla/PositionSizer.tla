--------------------------- MODULE PositionSizer ---------------------------
(***************************************************************************)
(* The execution sizer (analytics/execution_sizing.py): the projection of  *)
(* a candidate allocation on the leverage and drawdown budgets, and its    *)
(* rounding to lots.  Amounts are exact fractions, counted in units of     *)
(* 1/Grain, so the divisions of the projection leave no remainder; the     *)
(* candidate itself, which the gradient steps of the solver end in, is an  *)
(* input.  With exact amounts the rescalings before each return change     *)
(* nothing, but for the last one after Dykstra's iteration, and the branch *)
(* for parallel constraints (equal shortfalls) is not reached: one of the  *)
(* budgets then implies the other.                                         *)
(***************************************************************************)
EXTENDS Integers, Sequences, SequencesExt

CONSTANTS
  Cvar,            \* asset_cvars: shortfall per unit held, one per asset
  Grain,           \* common denominator of the projection's fractions
  LotSize,         \* lot_sizes, in units of 1/Grain
  Budgets,         \* leverage and drawdown budgets enumerated
  Holdings         \* candidate holdings enumerated, per asset

Assets == DOMAIN Cvar

(* SizingConfig.__post_init__ and the argument checks of solve.            *)
SizingConfig ==
  /\ Cvar \in Seq(Nat \ {0}) /\ Cvar # <<>>
  /\ LotSize \in Nat \ {0} /\ Budgets \subseteq Nat

ASSUME SizerAssumption == SizingConfig /\ Grain \in Nat \ {0} /\ Holdings \subseteq Int

VARIABLES
  solved,                        \* solve has returned: it keeps nothing between calls
  wanted, leverage, shortfall,   \* the candidate and the two budgets, in units of 1/Grain
  target,                        \* target_allocations
  traded                         \* discretized_allocations

sizerVars == <<solved, wanted, leverage, shortfall, target, traded>>

Magnitude(x) == IF x < 0 THEN -x ELSE x
Sign(x) == IF x > 0 THEN 1 ELSE IF x < 0 THEN -1 ELSE 0
Positive(x) == IF x > 0 THEN x ELSE 0
Total(x) == SumFunctionOnSet(x, DOMAIN x)
Weighted(x) == Total([i \in Assets |-> Cvar[i] * x[i]])
Magnitudes(x) == [i \in Assets |-> Magnitude(x[i])]
Zeros == [i \in Assets |-> 0]

Within(a, b1, b2) == Total(a) <= b1 /\ Weighted(a) <= b2

(* The threshold that brings a down to the leverage budget: the last       *)
(* prefix of the descending order whose smallest entry it leaves positive. *)
Threshold(a, b1) ==
  LET s == SortSeq(a, >)
      t(j) == (Total(SubSeq(s, 1, j)) - b1) \div j
      live == {j \in Assets : s[j] - t(j) > 0}
  IN  IF live = {} THEN 0 ELSE t(Max(live))

OntoLeverage(a, b1) ==
  LET th == Threshold(a, b1) IN [i \in Assets |-> Positive(a[i] - th)]

(* The multiplier that brings a down to the drawdown budget: the first     *)
(* prefix in the order of a/c between whose last ratio and the next one it *)
(* lies.                                                                   *)
Multiplier(a, b2) ==
  LET order == SortSeq([i \in Assets |-> i], LAMBDA i, j : a[i] * Cvar[j] > a[j] * Cvar[i])
      prefix(k) == {order[l] : l \in 1..k}
      sum(S, f(_)) == Total([i \in Assets |-> IF i \in S THEN f(i) ELSE 0])
      cand(k) == (sum(prefix(k), LAMBDA i : Cvar[i] * a[i]) - b2)
                   \div sum(prefix(k), LAMBDA i : Cvar[i] * Cvar[i])
      fits(k) == /\ cand(k) * Cvar[order[k]] < a[order[k]]
                 /\ k < Len(a) => cand(k) * Cvar[order[k + 1]] >= a[order[k + 1]]
      found == {k \in Assets : fits(k)}
  IN  IF found = {} THEN 0 ELSE cand(Min(found))

OntoShortfall(a, b2) ==
  LET lam == Multiplier(a, b2) IN [i \in Assets |-> Positive(a[i] - lam * Cvar[i])]

(* Both budgets bind: a multiplier for each, which solve a linear system   *)
(* over the set S of the holdings that stay positive.                      *)
MembersSum(S, f(_)) == SumFunctionOnSet([i \in Assets |-> f(i)], S)
Determinant(S) ==
  Cardinality(S) * MembersSum(S, LAMBDA i : Cvar[i] * Cvar[i])
    - MembersSum(S, LAMBDA i : Cvar[i]) * MembersSum(S, LAMBDA i : Cvar[i])

Multipliers(a, S, b1, b2) ==
  LET sc == MembersSum(S, LAMBDA i : Cvar[i])
      over1 == MembersSum(S, LAMBDA i : a[i]) - b1
      over2 == MembersSum(S, LAMBDA i : Cvar[i] * a[i]) - b2
  IN  << (MembersSum(S, LAMBDA i : Cvar[i] * Cvar[i]) * over1 - sc * over2) \div Determinant(S),
         (Cardinality(S) * over2 - sc * over1) \div Determinant(S) >>

Lessened(a, m) == [i \in Assets |-> Positive(a[i] - Positive(m[1]) - Positive(m[2]) * Cvar[i])]
ActiveSet(a, m) == {i \in Assets : Lessened(a, m)[i] > 0}

(* A set is right when its multipliers are not negative and leave just its *)
(* members positive.  A variant forgets the comparison.                    *)
ProvesRightUnchecked(a, S, b1, b2) ==
  /\ Determinant(S) # 0
  /\ LET m == Multipliers(a, S, b1, b2) IN m[1] >= 0 /\ m[2] >= 0

ProvesRight(a, S, b1, b2) ==
  /\ Determinant(S) # 0
  /\ LET m == Multipliers(a, S, b1, b2)
     IN  m[1] >= 0 /\ m[2] >= 0 /\ ActiveSet(a, m) = S

(* The semismooth Newton iteration: fifteen sets at most, each the one the *)
(* multipliers of the last leave, from all positive holdings on.  It gives *)
(* up on a set whose system is singular and rests at one that proves right.*)
Rounds == 14
LastGuess(a, b1, b2) ==
  LET guess[r \in 0..Rounds] ==
        IF r = 0 THEN ActiveSet(a, <<0, 0>>)
        ELSE LET S == guess[r - 1]
             IN  IF Determinant(S) = 0 \/ ProvesRight(a, S, b1, b2) THEN S
                 ELSE ActiveSet(a, Multipliers(a, S, b1, b2))
  IN  guess[Rounds]

(* The allocations between which fractions are not told apart: half units. *)
Allocations == [Assets -> {k * (Grain \div 2) : k \in 0..2 * Max(Budgets)}]
InBudgets(b1, b2) == {x \in Allocations : Within(x, b1, b2)}

(* Newton gave up (the active set is one holding, or holdings of the same  *)
(* shortfall) or did not settle: Dykstra's forty rounds end anywhere near  *)
(* their limit, and the last rescaling puts that within both budgets.      *)
ToDykstra(a, b1, b2) ==
  /\ b1 > 0 /\ b2 > 0
  /\ ~Within(a, b1, b2)
  /\ Weighted(OntoLeverage(a, b1)) > b2 /\ Total(OntoShortfall(a, b2)) > b1
  /\ ~ProvesRight(a, LastGuess(a, b1, b2), b1, b2)

OntoBoth(a, b1, b2) ==
  IF ToDykstra(a, b1, b2)
    THEN {x \in InBudgets(b1, b2) : \A i \in Assets : a[i] = 0 => x[i] = 0}
    ELSE {Lessened(a, Multipliers(a, LastGuess(a, b1, b2), b1, b2))}

(* project_two_l1_constraints *)
Projected(y, b1, b2) ==
  LET a == Magnitudes(y)
      x1 == OntoLeverage(a, b1)
      x2 == OntoShortfall(a, b2)
      nearest == IF b1 <= 0 \/ b2 <= 0 THEN {Zeros}
                 ELSE IF Within(a, b1, b2) THEN {a}
                 ELSE IF Weighted(x1) <= b2 THEN {x1}
                 ELSE IF Total(x2) <= b1 THEN {x2}
                 ELSE OntoBoth(a, b1, b2)
  IN  {[i \in Assets |-> Sign(y[i]) * x[i]] : x \in nearest}

(* discretize_lot_allocations: down to whole lots, up with a probability   *)
(* that is zero exactly when nothing is left over.                         *)
LotsOf(nu) ==
  LET base == Magnitude(nu) \div LotSize
      up == IF Magnitude(nu) % LotSize = 0 THEN {0} ELSE {0, 1}
  IN  {Sign(nu) * (base + b) * LotSize : b \in up}

Rounded(x) == {r \in [Assets -> UNION {LotsOf(x[i]) : i \in Assets}] :
                 \A i \in Assets : r[i] \in LotsOf(x[i])}

SizerInit ==
  /\ solved = FALSE /\ wanted = Zeros /\ leverage = 0 /\ shortfall = 0 /\ target = Zeros /\ traded = Zeros

(* solve: nothing under a zero haircut; otherwise the candidate is         *)
(* projected and rounded.                                                  *)
SolveHalted ==
  /\ ~solved /\ solved' = TRUE
  /\ target' = Zeros /\ traded' = Zeros
  /\ UNCHANGED <<wanted, leverage, shortfall>>

Solve(y, b1, b2) ==
  /\ ~solved /\ solved' = TRUE
  /\ wanted' = y /\ leverage' = b1 /\ shortfall' = b2
  /\ target' \in Projected(y, b1, b2)
  /\ traded' \in Rounded(target')

SizerNext ==
  \/ SolveHalted
  \/ /\ ~solved
     /\ \E y \in [Assets -> Holdings], b1, b2 \in Budgets :
          Solve([i \in Assets |-> Grain * y[i]], Grain * b1, Grain * b2)

SizerSpec == SizerInit /\ [][SizerNext]_sizerVars

----------------------------------------------------------------------------
(* Properties                                                              *)

(* project_two_l1_constraints returns the admissible allocation nearest to *)
(* the candidate, which is the one no admissible allocation lies beyond:   *)
(* from the target none is in the direction of the candidate (half units   *)
(* hold every corner of the budgets, so they stand for all of them).       *)
(* Dykstra's fallback promises the two budgets only.                       *)
ProjectionIsNearest ==
  LET a == Magnitudes(wanted)
      x == Magnitudes(target)
  IN  /\ Within(x, leverage, shortfall)
      /\ \A i \in Assets : target[i] # 0 => Sign(target[i]) = Sign(wanted[i])
      /\ ~ToDykstra(a, leverage, shortfall) =>
           \A z \in InBudgets(leverage, shortfall) :
             Total([i \in Assets |-> (a[i] - x[i]) * (z[i] - x[i])]) <= 0

(* INV-TR-005 after rounding: the traded allocation may exceed the budgets *)
(* the target keeps, by less than one lot per asset.                       *)
RoundingExcessBounded ==
  /\ Total(Magnitudes(traded)) < Total(Magnitudes(target)) + Len(Cvar) * LotSize
  /\ \A i \in Assets : traded[i] # 0 => Sign(traded[i]) = Sign(target[i])

(* The target keeps both budgets and is the nearest allocation that does,  *)
(* unless the iteration fell back; rounding to lots leaves the budgets by  *)
(* less than a lot per asset (INV-TR-005).                                 *)
TargetsFeasible ==
  solved => ProjectionIsNearest /\ RoundingExcessBounded
=============================================================================
