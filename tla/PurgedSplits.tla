---------------------------- MODULE PurgedSplits ----------------------------
(***************************************************************************)
(* Combinatorial purged cross-validation (analytics/cross_validation.py):  *)
(* groups of samples, the combinations of groups that are tested, the      *)
(* training samples purged and embargoed, and the paths put together from  *)
(* the folds.  Sample i is predicted at time i; its label is known at      *)
(* ends[i].  The embargo is given in bars.                                 *)
(***************************************************************************)
EXTENDS Integers, Sequences, FiniteSets, FiniteSetsExt

CONSTANTS
  Samples,      \* n_samples
  Groups,       \* n_splits
  Lifespans,    \* lengths of a label's life enumerated
  Embargoes,    \* embargo_bars enumerated
  SplitCaps,    \* max_splits enumerated
  MinTrain      \* min_train_ratio, as a number of samples

(* CPCVConfig.__post_init__ and the first check of split.                  *)
CPCVConfig ==
  /\ Samples \in Nat /\ Groups \in Nat /\ 2 <= Groups /\ Groups <= Samples
  /\ Embargoes \subseteq Nat /\ SplitCaps \subseteq Nat \ {0} /\ MinTrain \in 0..Samples

ASSUME SplitsAssumption == CPCVConfig /\ Lifespans \subseteq Nat

VARIABLES
  config,    \* k, embargo, cap, forward
  ends,      \* eval_times
  splits,    \* the PurgedSplits yielded
  raised     \* split has raised: too little is left to train on

splitVars == <<config, ends, splits, raised>>

NoConfig == [k |-> 0, embargo |-> 0, cap |-> 1, forward |-> FALSE]

(* _partition_groups: the first groups take one sample more.               *)
GroupStart(g) == 1 + (g - 1) * (Samples \div Groups) + Min({g - 1, Samples % Groups})
Group(g) == GroupStart(g)..(GroupStart(g + 1) - 1)

SamplesOf(gs) == UNION {Group(g) : g \in gs}

(* combinations(range(n), k) in lexicographic order: the combination whose *)
(* smallest differing group is smaller comes first.                        *)
Before(a, b) == a # b /\ Min((a \ b) \cup (b \ a)) \in a

PlaceInOrder(c, k) == 1 + Cardinality({a \in kSubset(k, 1..Groups) : Before(a, c)})

Combinations(k) ==
  [i \in 1..Cardinality(kSubset(k, 1..Groups)) |->
     CHOOSE c \in kSubset(k, 1..Groups) : PlaceInOrder(c, k) = i]

(* The windows of forward chaining.                                        *)
Windows(k) == [s \in 1..(Groups - k) |-> (s + 1)..(s + k)]

(* round(linspace(0, len - 1, cap)): half to even.                         *)
RoundedShare(a, b) ==
  LET q == a \div b
      r == a % b
  IN  IF 2 * r > b \/ (2 * r = b /\ q % 2 = 1) THEN q + 1 ELSE q

Thinned(all, cap) ==
  IF Len(all) <= cap THEN all
  ELSE [i \in 1..cap |-> IF cap = 1 THEN all[1]
                         ELSE all[1 + RoundedShare((i - 1) * (Len(all) - 1), cap - 1)]]

(* _generate_test_combinations *)
TestCombinations(c) ==
  Thinned(IF c.forward THEN Windows(c.k) ELSE Combinations(c.k), c.cap)

TrainGroups(c, test) ==
  IF c.forward THEN 1..(Min(test) - 1) ELSE (1..Groups) \ test

LastSample(g) == GroupStart(g + 1) - 1

(* A variant: a training label that ends in the test block is kept.        *)
PurgedByStart(times, train, test) ==
  {i \in train : \E g \in test : i <= times[LastSample(g)] /\ i >= GroupStart(g)}

(* Purged: alive between the first prediction of a test group and the end  *)
(* of the label of its last sample.                                        *)
Purged(times, train, test) ==
  {i \in train : \E g \in test : i <= times[LastSample(g)] /\ times[i] >= GroupStart(g)}

Embargoed(times, rest, test, bars) ==
  {i \in rest : \E g \in test : i > times[LastSample(g)] /\ i <= times[LastSample(g)] + bars}

SplitOf(times, c, test) ==
  LET train == SamplesOf(TrainGroups(c, test))
      purged == Purged(times, train, test)
      embargoed == Embargoed(times, train \ purged, test, c.embargo)
  IN  [test |-> test, tested |-> SamplesOf(test), purged |-> purged,
       embargoed |-> embargoed, train |-> (train \ purged) \ embargoed]

SplitsInit ==
  /\ config = NoConfig /\ ends = [i \in 1..Samples |-> i] /\ splits = <<>> /\ raised = FALSE

(* split is called with a configuration and the labels' times, which       *)
(* _coerce_time_arrays checks.                                             *)
SplitCall(c, lives) ==
  /\ config = NoConfig
  /\ config' = c /\ ends' = [i \in 1..Samples |-> i + lives[i]]
  /\ UNCHANGED <<splits, raised>>

(* One turn of the generator.                                              *)
YieldSplit ==
  LET all == TestCombinations(config)
      s == SplitOf(ends, config, all[Len(splits) + 1])
  IN  /\ config # NoConfig /\ ~raised /\ Len(splits) < Len(all)
      /\ IF Cardinality(s.train) < MinTrain
         THEN raised' = TRUE /\ splits' = splits
         ELSE splits' = Append(splits, s) /\ raised' = raised
      /\ UNCHANGED <<config, ends>>

SplitsNext ==
  \/ /\ config = NoConfig
     /\ \E k \in 1..(Groups - 1), e \in Embargoes, cap \in SplitCaps, f \in BOOLEAN,
           lives \in [1..Samples -> Lifespans] :
          SplitCall([k |-> k, embargo |-> e, cap |-> cap, forward |-> f], lives)
  \/ YieldSplit

SplitsSpec == SplitsInit /\ [][SplitsNext]_splitVars

----------------------------------------------------------------------------
(* reconstruct_paths: for each group, the folds that tested it; path p     *)
(* takes the p-th of them.                                                 *)
FoldsOf(g) == {n \in DOMAIN splits : g \in splits[n].test}
PathCount == Min({Cardinality(FoldsOf(g)) : g \in 1..Groups})
Path(p) == [g \in 1..Groups |->
              CHOOSE n \in FoldsOf(g) : Cardinality({m \in FoldsOf(g) : m <= n}) = p]

Complete == config # NoConfig /\ Len(splits) = Len(TestCombinations(config))

----------------------------------------------------------------------------
(* Properties                                                              *)

(* The class comment of CombinatorialPurgedCV: "No sample in train_indices *)
(* has a trade lifespan overlapping any test block".  A test sample lives  *)
(* from its prediction to the end of its label.                            *)
NoTrainingSampleOverlapsTest ==
  \A n \in DOMAIN splits : \A i \in splits[n].train, j \in splits[n].tested :
    i > ends[j] \/ ends[i] < j

(* What purging does guarantee: an overlap with a test sample is left only *)
(* when that sample's label outlives the label of its group's last sample; *)
(* no training sample is purged that overlaps no test sample; and forward  *)
(* chaining trains on the past alone.                                      *)
OverlapExplained ==
  \A n \in DOMAIN splits :
    LET s == splits[n] IN
    /\ \A i \in s.train, j \in s.tested :
         (i <= ends[j] /\ ends[i] >= j) =>
           \E g \in s.test : j \in Group(g) /\ ends[j] > ends[LastSample(g)] /\ i > ends[LastSample(g)]
    /\ \A i \in s.purged : \E j \in s.tested : i <= ends[j] /\ ends[i] >= j
    /\ config.forward => \A i \in s.train, j \in s.tested : i < j

(* The embargo keeps config.embargo bars after the last label of a test    *)
(* block free of training samples.                                         *)
EmbargoKept ==
  \A n \in DOMAIN splits : \A i \in splits[n].train, g \in splits[n].test :
    i > ends[LastSample(g)] => i > ends[LastSample(g)] + config.embargo

(* Paths without gaps: the groups partition the samples, and when no       *)
(* combination was dropped every fold's share of every group is used by    *)
(* exactly one path.                                                       *)
PathsPartitionFolds ==
  (Complete /\ ~config.forward /\ ~raised) =>
    /\ SamplesOf(1..Groups) = 1..Samples
    /\ Len(splits) = Cardinality(kSubset(config.k, 1..Groups)) =>
         /\ \A g \in 1..Groups : Cardinality(FoldsOf(g)) = PathCount
         /\ \A n \in DOMAIN splits : \A g \in splits[n].test :
              \E p \in 1..PathCount : Path(p)[g] = n

(* A split purges what overlaps its test blocks as far as their last       *)
(* labels tell, keeps the embargo, and its paths use every fold once.      *)
SplitsClean ==
  /\ OverlapExplained
  /\ EmbargoKept
  /\ PathsPartitionFolds
=============================================================================
