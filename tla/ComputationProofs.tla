-------------------------- MODULE ComputationProofs --------------------------
(***************************************************************************)
(* Proofs about what the system computes from an input alone.              *)
(*                                                                         *)
(* PurgedSplits: for any numbers of samples, blocks and test blocks and    *)
(* any label times, every split is purged and the paths cover the blocks.  *)
(* RanksFill (SumTheorems) gives the enumeration of the combinations.      *)
(*                                                                         *)
(* Schedules: for any order, any curve and any volumes, every random draw  *)
(* ends in a schedule that is whole.  Each algorithm has a state predicate *)
(* (TwapState, VwapState, CappedState, ArrivalState) over the loop's       *)
(* variables; it begins true, a slice keeps it, and its end is the result. *)
(*                                                                         *)
(* TripleBarrier: labels, meta-labels and bets, for any candles, barriers  *)
(* and events.  The bets open at a time are compared with 1 + 1/2 + ... by *)
(* ranking them: the n-th to be entered shares with n at least.            *)
(*                                                                         *)
(* BacktestReplay: ReplayInvariant carries the log of a run, its sums and  *)
(* the worst fall so far, through every bar, for any returns and costs.    *)
(*                                                                         *)
(* Chromosomes: GenomeInvariant keeps, with the bounds, the grid on which  *)
(* the logits' next centring is exact: 9, 3, 1 after 0, 1, 2 decodings.    *)
(***************************************************************************)
EXTENDS PurgedSplits, Schedules, TripleBarrier, BacktestReplay, Chromosomes, SumTheorems

(* The least element of a set of naturals.                                 *)
LEMMA MinOfNats ==
  ASSUME NEW S, S \subseteq Nat, S # {}
  PROVE  Min(S) \in S /\ \A y \in S : Min(S) <= y
<1>1. PICK x \in S : \A y \in S : x <= y
  BY LeastOf
<1> QED BY <1>1 DEF Min

(* Euclidean division.                                                     *)
LEMMA Euclid ==
  ASSUME NEW a \in Nat, NEW b \in Nat \ {0}
  PROVE  /\ a \div b \in Nat /\ a % b \in 0..(b - 1)
         /\ a = b * (a \div b) + (a % b)
  OBVIOUS

(* What the constructor and split have checked.                            *)
LEMMA Blocks ==
  /\ Samples \div Groups \in Nat \ {0} /\ Samples % Groups \in 0..(Groups - 1)
  /\ Samples = Groups * (Samples \div Groups) + (Samples % Groups)
  /\ Groups \in Nat /\ Groups >= 2 /\ Samples \in Nat
<1>1. Samples \in Nat /\ Groups \in Nat /\ 2 <= Groups /\ Groups <= Samples
  BY SplitsAssumption DEF CPCVConfig
<1>2. /\ Samples \div Groups \in Nat /\ Samples % Groups \in 0..(Groups - 1)
      /\ Samples = Groups * (Samples \div Groups) + (Samples % Groups)
  <2>1. Groups \in Nat \ {0}
    BY <1>1
  <2> QED BY <1>1, <2>1, Euclid
<1>3. Samples \div Groups # 0
  BY <1>1, <1>2
<1> QED BY <1>1, <1>2, <1>3

(* The blocks follow each other, and none is empty.                        *)
LEMMA StartsRise ==
  /\ GroupStart(1) = 1 /\ GroupStart(Groups + 1) = Samples + 1
  /\ \A g \in 1..(Groups + 1) : GroupStart(g) \in Nat \ {0}
  /\ \A g, h \in 1..(Groups + 1) : g < h => GroupStart(g) < GroupStart(h)
<1> DEFINE q == Samples \div Groups
           r == Samples % Groups
<1>1. \A g \in 1..(Groups + 1) : GroupStart(g) = 1 + (g - 1) * q + (IF g - 1 <= r THEN g - 1 ELSE r)
  BY Blocks, SmallerOfTwo DEF GroupStart
<1>2. q \in Nat \ {0} /\ r \in 0..(Groups - 1) /\ Samples = Groups * q + r /\ Groups \in Nat /\ Groups >= 2
      /\ Samples \in Nat
  BY Blocks
<1> HIDE DEF q, r
<1>3. \A g \in 1..(Groups + 1) : (g - 1) * q \in Nat
  BY <1>2
<1>4. GroupStart(1) = 1
  BY <1>1, <1>2
<1>5. GroupStart(Groups + 1) = Samples + 1
  BY <1>1, <1>2
<1>6. ASSUME NEW g \in 1..(Groups + 1), NEW h \in 1..(Groups + 1), g < h
      PROVE  GroupStart(g) < GroupStart(h)
  <2>1. (h - 1) * q = (g - 1) * q + (h - g) * q
    BY <1>2
  <2>2. (h - g) * q >= 1
    BY <1>2, <1>6
  <2> QED BY <1>1, <1>2, <1>3, <1>6, <2>1, <2>2
<1>7. \A g \in 1..(Groups + 1) : GroupStart(g) \in Nat \ {0}
  BY <1>1, <1>2, <1>3
<1> QED BY <1>4, <1>5, <1>6, <1>7

(* A block is a nonempty run of samples, before every later block.         *)
LEMMA GroupShape ==
  /\ \A g \in 1..Groups : LastSample(g) \in Group(g) /\ GroupStart(g) \in Group(g)
  /\ \A g \in 1..Groups : Group(g) \subseteq 1..Samples
  /\ \A g, h \in 1..Groups : \A i \in Group(g), j \in Group(h) : g < h => i < j
<1>1. /\ \A g \in 1..(Groups + 1) : GroupStart(g) \in Nat \ {0}
      /\ \A g, h \in 1..(Groups + 1) : g < h => GroupStart(g) < GroupStart(h)
      /\ GroupStart(Groups + 1) = Samples + 1 /\ Groups \in Nat /\ Samples \in Nat
  BY StartsRise, Blocks
<1>2. \A g \in 1..Groups : g \in 1..(Groups + 1) /\ g + 1 \in 1..(Groups + 1) /\ g < g + 1
  BY <1>1
<1>3. ASSUME NEW g \in 1..Groups, NEW h \in 1..Groups, g < h PROVE GroupStart(g + 1) <= GroupStart(h)
  <2>1. g + 1 = h \/ g + 1 < h
    BY <1>3
  <2>2. GroupStart(g + 1) \in Nat
    BY <1>1, <1>2
  <2> QED BY <1>1, <1>2, <2>1, <2>2
<1>4. ASSUME NEW g \in 1..Groups PROVE GroupStart(g + 1) <= Samples + 1
  <2>1. g = Groups \/ g + 1 < Groups + 1
    BY <1>1
  <2>2. Groups + 1 \in 1..(Groups + 1)
    BY <1>1
  <2> QED BY <1>1, <1>2, <2>1, <2>2
<1>5. \A g \in 1..Groups : LastSample(g) \in Group(g) /\ GroupStart(g) \in Group(g)
  BY <1>1, <1>2 DEF Group, LastSample
<1>6. \A g \in 1..Groups : Group(g) \subseteq 1..Samples
  BY <1>1, <1>2, <1>4 DEF Group
<1>7. \A g, h \in 1..Groups : \A i \in Group(g), j \in Group(h) : g < h => i < j
  BY <1>1, <1>2, <1>3 DEF Group
<1> QED BY <1>5, <1>6, <1>7

(* The blocks leave no sample out.                                         *)
LEMMA GroupsCover == SamplesOf(1..Groups) = 1..Samples
<1>1. SamplesOf(1..Groups) \subseteq 1..Samples
  BY GroupShape DEF SamplesOf
<1>2. ASSUME NEW i \in 1..Samples PROVE \E g \in 1..Groups : i \in Group(g)
  <2> DEFINE T == {g \in 2..(Groups + 1) : i < GroupStart(g)}
  <2>0. Groups \in Nat /\ Samples \in Nat /\ GroupStart(1) = 1 /\ GroupStart(Groups + 1) = Samples + 1
        /\ \A g \in 1..(Groups + 1) : GroupStart(g) \in Nat
    BY StartsRise, Blocks
  <2>1. Groups + 1 \in T
    BY <2>0, Blocks
  <2>2. T \subseteq Nat
    BY <2>0
  <2>3. PICK h \in T : \A y \in T : h <= y
    BY <2>1, <2>2, LeastOf
  <2>4. h \in 2..(Groups + 1) /\ i < GroupStart(h)
    BY <2>3
  <2>5. h - 1 \in 1..Groups /\ h - 1 \notin T /\ (h - 1) + 1 = h
    BY <2>0, <2>3, <2>4
  <2>6. GroupStart(h - 1) <= i
    <3>1. CASE h = 2
      BY <2>0, <3>1
    <3>2. CASE h # 2
      <4>1. h - 1 \in 2..(Groups + 1) /\ h - 1 \in 1..(Groups + 1)
        BY <2>0, <2>4, <3>2
      <4>2. ~(i < GroupStart(h - 1)) /\ GroupStart(h - 1) \in Nat
        BY <2>0, <2>5, <4>1
      <4> QED BY <4>2
    <3> QED BY <3>1, <3>2
  <2>7. i \in GroupStart(h - 1)..(GroupStart((h - 1) + 1) - 1)
    <3>1. GroupStart(h) \in Nat /\ GroupStart(h - 1) \in Nat
      BY <2>0, <2>4, <2>5
    <3> QED BY <2>4, <2>5, <2>6, <3>1
  <2> QED BY <2>5, <2>7 DEF Group
<1> QED BY <1>1, <1>2 DEF SamplesOf

-----------------------------------------------------------------------------
(* The combinations in lexicographic order.                                *)

Combos(k) == kSubset(k, 1..Groups)
Lexicographic(k) == {t \in Combos(k) \X Combos(k) : Before(t[1], t[2])}

(* There are finitely many combinations, and none is empty.                *)
LEMMA CombosFinite ==
  ASSUME NEW k \in 1..(Groups - 1)
  PROVE  /\ IsFiniteSet(Combos(k)) /\ Cardinality(Combos(k)) \in Nat
         /\ \A c \in Combos(k) : c # {} /\ c \subseteq 1..Groups /\ Cardinality(c) = k /\ IsFiniteSet(c)
<1>1. IsFiniteSet(1..Groups) /\ IsFiniteSet(SUBSET (1..Groups))
  <2>1. IsFiniteSet(1..Groups)
    BY Blocks, FS_Interval
  <2> QED BY <2>1, FS_SUBSET
<1>2. Combos(k) \in SUBSET (SUBSET (1..Groups))
  BY DEF Combos, kSubset
<1>3. IsFiniteSet(Combos(k)) /\ Cardinality(Combos(k)) \in Nat
  BY <1>1, <1>2, FS_Subset, FS_CardinalityType
<1>4. \A c \in Combos(k) : c \subseteq 1..Groups /\ Cardinality(c) = k
  BY DEF Combos, kSubset
<1>5. \A c \in Combos(k) : IsFiniteSet(c)
  BY <1>1, <1>4, FS_Subset
<1>6. \A c \in Combos(k) : c # {}
  <2>1. Cardinality({}) = 0 /\ k # 0
    BY FS_EmptySet, Blocks
  <2> QED BY <1>4, <2>1
<1> QED BY <1>3, <1>4, <1>5, <1>6

Apart(a, b) == (a \ b) \cup (b \ a)

(* Two different sets of blocks have a least element apart.                *)
LEMMA ApartLeast ==
  ASSUME NEW a \in SUBSET (1..Groups), NEW b \in SUBSET (1..Groups), a # b
  PROVE  /\ Min(Apart(a, b)) \in Apart(a, b) /\ Min(Apart(a, b)) \in 1..Groups
         /\ \A y \in 1..Groups : y < Min(Apart(a, b)) => (y \in a <=> y \in b)
         /\ Apart(a, b) = Apart(b, a)
<1>1. Groups \in Nat /\ 1..Groups \subseteq Nat
  BY Blocks
<1>2. Apart(a, b) \subseteq 1..Groups /\ Apart(a, b) = Apart(b, a)
  BY DEF Apart
<1>3. Apart(a, b) # {}
  BY DEF Apart
<1>4. Min(Apart(a, b)) \in Apart(a, b) /\ \A y \in Apart(a, b) : Min(Apart(a, b)) <= y
  BY <1>1, <1>2, <1>3, MinOfNats
<1>5. ASSUME NEW y \in 1..Groups, y < Min(Apart(a, b)) PROVE y \in a <=> y \in b
  <2>1. y \notin Apart(a, b)
    <3>1. Min(Apart(a, b)) \in Nat /\ y \in Nat
      BY <1>1, <1>2, <1>4
    <3> QED BY <1>4, <1>5, <3>1
  <2> QED BY <2>1 DEF Apart
<1> QED BY <1>2, <1>4, <1>5

(* a comes before b when they agree below an element of a that b lacks.    *)
LEMMA BeforeMeans ==
  ASSUME NEW a \in SUBSET (1..Groups), NEW b \in SUBSET (1..Groups)
  PROVE  Before(a, b) <=> \E x \in a \ b : \A y \in 1..Groups : y < x => (y \in a <=> y \in b)
<1>0. Before(a, b) <=> a # b /\ Min(Apart(a, b)) \in a
  BY DEF Before, Apart
<1>1. ASSUME Before(a, b)
      PROVE  \E x \in a \ b : \A y \in 1..Groups : y < x => (y \in a <=> y \in b)
  <2>1. Min(Apart(a, b)) \in a /\ a # b
    BY <1>0, <1>1
  <2>2. Min(Apart(a, b)) \in a \ b
    BY <2>1, ApartLeast DEF Apart
  <2>3. \A y \in 1..Groups : y < Min(Apart(a, b)) => (y \in a <=> y \in b)
    BY <2>1, ApartLeast
  <2> QED BY <2>2, <2>3
<1>2. ASSUME NEW x \in a \ b, \A y \in 1..Groups : y < x => (y \in a <=> y \in b)
      PROVE  Before(a, b)
  <2>1. x \in 1..Groups /\ a # b /\ Groups \in Nat
    BY Blocks
  <2> DEFINE z == Min(Apart(a, b))
  <2>2. z \in Apart(a, b) /\ z \in 1..Groups /\ \A y \in 1..Groups : y < z => (y \in a <=> y \in b)
    BY <2>1, ApartLeast
  <2> HIDE DEF z
  <2>3. ~(z < x)
    BY <1>2, <2>2 DEF Apart
  <2>4. ~(x < z)
    BY <2>1, <2>2
  <2>5. z = x
    BY <2>1, <2>2, <2>3, <2>4
  <2> QED BY <1>0, <2>1, <2>5 DEF z
<1> QED BY <1>1, <1>2

(* Before is a strict total order.                                         *)
LEMMA LexicographicOrders ==
  ASSUME NEW k \in 1..(Groups - 1)
  PROVE  StrictOrder(Lexicographic(k), Combos(k))
<1>0. Groups \in Nat /\ \A c \in Combos(k) : c \in SUBSET (1..Groups)
  BY Blocks, CombosFinite
<1>1. \A a, b \in Combos(k) : <<a, b>> \in Lexicographic(k) <=> Before(a, b)
  BY DEF Lexicographic
<1>2. \A a \in Combos(k) : ~Before(a, a)
  BY DEF Before
<1>3. ASSUME NEW a \in Combos(k), NEW b \in Combos(k), a # b PROVE Before(a, b) \/ Before(b, a)
  <2>1. a \in SUBSET (1..Groups) /\ b \in SUBSET (1..Groups)
    BY <1>0
  <2>2. Min(Apart(a, b)) \in Apart(a, b) /\ Apart(a, b) = Apart(b, a)
    BY <1>3, <2>1, ApartLeast
  <2>3. Min(Apart(a, b)) \in a \/ Min(Apart(b, a)) \in b
    BY <2>2 DEF Apart
  <2> QED BY <1>3, <2>3 DEF Before, Apart
<1>4. ASSUME NEW a \in Combos(k), NEW b \in Combos(k), NEW c \in Combos(k), Before(a, b), Before(b, c)
      PROVE  Before(a, c)
  <2>1. PICK x \in a \ b : \A y \in 1..Groups : y < x => (y \in a <=> y \in b)
    BY <1>0, <1>4, BeforeMeans
  <2>2. PICK z \in b \ c : \A y \in 1..Groups : y < z => (y \in b <=> y \in c)
    BY <1>0, <1>4, BeforeMeans
  <2>3. x \in 1..Groups /\ z \in 1..Groups /\ x # z
    BY <1>0, <2>1, <2>2
  <2>4. CASE x < z
    <3>1. x \in a \ c
      BY <2>1, <2>2, <2>3, <2>4
    <3>2. \A y \in 1..Groups : y < x => (y \in a <=> y \in c)
      BY <2>1, <2>2, <2>3, <2>4
    <3> QED BY <1>0, <3>1, <3>2, BeforeMeans
  <2>5. CASE z < x
    <3>1. z \in a \ c
      BY <2>1, <2>2, <2>3, <2>5
    <3>2. \A y \in 1..Groups : y < z => (y \in a <=> y \in c)
      BY <2>1, <2>2, <2>3, <2>5
    <3> QED BY <1>0, <3>1, <3>2, BeforeMeans
  <2> QED BY <2>3, <2>4, <2>5
<1> QED BY <1>1, <1>2, <1>3, <1>4 DEF StrictOrder

(* Combinations lists every combination once.                              *)
LEMMA CombinationsList ==
  ASSUME NEW k \in 1..(Groups - 1)
  PROVE  /\ Combinations(k) \in [1..Cardinality(Combos(k)) -> Combos(k)]
         /\ \A c \in Combos(k) : \E i \in 1..Cardinality(Combos(k)) : Combinations(k)[i] = c
         /\ \A i, j \in 1..Cardinality(Combos(k)) : Combinations(k)[i] = Combinations(k)[j] => i = j
<1> DEFINE K == Combos(k)
           R == Lexicographic(k)
<1>1. IsFiniteSet(K) /\ StrictOrder(R, K)
  BY CombosFinite, LexicographicOrders
<1>2. \A c \in K : PlaceInOrder(c, k) = Rank(c, R, K)
  <2> SUFFICES ASSUME NEW c \in K PROVE PlaceInOrder(c, k) = Rank(c, R, K)
    OBVIOUS
  <2>1. {a \in K : Before(a, c)} = {a \in K : <<a, c>> \in R}
    BY DEF Lexicographic
  <2> QED BY <2>1 DEF PlaceInOrder, Rank, Combos
<1>3. /\ \A c \in K : PlaceInOrder(c, k) \in 1..Cardinality(K)
      /\ \A b, c \in K : PlaceInOrder(b, k) = PlaceInOrder(c, k) => b = c
      /\ \A i \in 1..Cardinality(K) : \E c \in K : PlaceInOrder(c, k) = i
  <2> HIDE DEF K, R
  <2> QED BY <1>1, <1>2, RanksFill
<1>4. Combinations(k) = [i \in 1..Cardinality(K) |-> CHOOSE c \in K : PlaceInOrder(c, k) = i]
  BY DEF Combinations, Combos
<1> HIDE DEF K, R
<1>5. \A i \in 1..Cardinality(K) : Combinations(k)[i] \in K /\ PlaceInOrder(Combinations(k)[i], k) = i
  BY <1>3, <1>4
<1> QED BY <1>3, <1>4, <1>5 DEF K

-----------------------------------------------------------------------------
(* What TestCombinations returns is a list of nonempty sets of blocks.     *)

Blocksets == {b \in SUBSET (1..Groups) : b # {}}

Configured(c) ==
  /\ c.k \in 1..(Groups - 1) /\ c.embargo \in Nat /\ c.cap \in Nat \ {0} /\ c.forward \in BOOLEAN

(* linspace ends on the last combination.                                  *)
LEMMA ShareInRange ==
  ASSUME NEW m \in Nat, NEW cap \in Nat \ {0}, cap > 1, NEW i \in 1..cap
  PROVE  RoundedShare((i - 1) * m, cap - 1) \in 0..m
<1> DEFINE b == cap - 1
           x == (i - 1) * m
<1>1. b \in Nat \ {0} /\ i - 1 \in 0..b
  OBVIOUS
<1>2. x \in Nat /\ x <= b * m
  <2>1. (b - (i - 1)) * m \in Nat
    BY <1>1
  <2> HIDE DEF b
  <2>2. b * m - (i - 1) * m = (b - (i - 1)) * m
    BY <1>1
  <2>3. (i - 1) * m \in Nat /\ b * m \in Nat
    BY <1>1
  <2> QED BY <2>1, <2>2, <2>3
<1> HIDE DEF b, x
<1> DEFINE q == x \div b
           r == x % b
<1>3. q \in Nat /\ r \in 0..(b - 1) /\ x = b * q + r
  BY <1>1, <1>2, Euclid
<1> HIDE DEF q, r
<1>4. q <= m
  <2>1. SUFFICES ASSUME q >= m + 1 PROVE FALSE
    BY <1>3
  <2>2. b * q >= b * (m + 1)
    BY <1>1, <1>3, <2>1
  <2> QED BY <1>1, <1>2, <1>3, <2>2
<1>5. q = m => r = 0
  <2>1. SUFFICES ASSUME q = m PROVE r = 0
    OBVIOUS
  <2>2. b * q = b * m /\ b * m \in Nat
    BY <1>1, <2>1
  <2> QED BY <1>2, <1>3, <2>2
<1>6. RoundedShare(x, b) = IF 2 * r > b \/ (2 * r = b /\ q % 2 = 1) THEN q + 1 ELSE q
  BY DEF RoundedShare, q, r
<1>7. RoundedShare(x, b) \in 0..m
  BY <1>1, <1>3, <1>4, <1>5, <1>6
<1> QED BY <1>7 DEF x, b

(* Thinning picks combinations of the list, and as many are all of it.     *)
LEMMA ThinnedShape ==
  ASSUME NEW S, NEW all \in Seq(S), all # <<>>, NEW cap \in Nat \ {0}
  PROVE  /\ Thinned(all, cap) \in Seq(S)
         /\ Len(Thinned(all, cap)) = Len(all) => Thinned(all, cap) = all
<1>1. Len(all) \in Nat \ {0} /\ \A i \in 1..Len(all) : all[i] \in S
  BY EmptySeq, LenProperties
<1>2. CASE Len(all) <= cap
  BY <1>2 DEF Thinned
<1>3. CASE cap < Len(all)
  <2> DEFINE t == [i \in 1..cap |-> IF cap = 1 THEN all[1]
                         ELSE all[1 + RoundedShare((i - 1) * (Len(all) - 1), cap - 1)]]
  <2>1. Thinned(all, cap) = t
    BY <1>1, <1>3 DEF Thinned
  <2>2. \A i \in 1..cap : t[i] \in S
    <3> SUFFICES ASSUME NEW i \in 1..cap, cap > 1
                 PROVE  all[1 + RoundedShare((i - 1) * (Len(all) - 1), cap - 1)] \in S
      <4>1. ASSUME NEW i \in 1..cap PROVE t[i] \in S
        <5>1. CASE cap = 1
          BY <1>1, <5>1
        <5>2. CASE cap > 1
          <6>1. all[1 + RoundedShare((i - 1) * (Len(all) - 1), cap - 1)] \in S
            BY <5>2
          <6> QED BY <6>1, <5>2
        <5> QED BY <5>1, <5>2
      <4> QED BY <4>1
    <3> DEFINE m == Len(all) - 1
    <3>1. m \in Nat
      BY <1>1
    <3>2. RoundedShare((i - 1) * m, cap - 1) \in 0..m
      <4> HIDE DEF m
      <4> QED BY <3>1, ShareInRange
    <3> QED BY <1>1, <3>2
  <2>3. t \in Seq(S) /\ Len(t) = cap
    <3>1. t \in [1..cap -> S] /\ cap \in Nat
      BY <2>2
    <3> HIDE DEF t
    <3> QED BY <3>1, LenProperties
  <2> HIDE DEF t
  <2> QED BY <1>1, <1>3, <2>1, <2>3
<1> QED BY <1>1, <1>2, <1>3

(* The combinations tried are nonempty sets of blocks, and as many as      *)
(* there are combinations are all of them.                                 *)
LEMMA TestShape ==
  ASSUME NEW c, Configured(c)
  PROVE  /\ TestCombinations(c) \in Seq(Blocksets)
         /\ (~c.forward /\ Len(TestCombinations(c)) = Cardinality(Combos(c.k)))
              => TestCombinations(c) = Combinations(c.k)
<1>1. c.k \in 1..(Groups - 1) /\ c.cap \in Nat \ {0} /\ Groups \in Nat
  BY Blocks DEF Configured
<1>2. Combinations(c.k) \in Seq(Blocksets) /\ Len(Combinations(c.k)) = Cardinality(Combos(c.k))
      /\ Combinations(c.k) # <<>>
  <2>1. Cardinality(Combos(c.k)) \in Nat /\ Combos(c.k) \subseteq Blocksets /\ IsFiniteSet(Combos(c.k))
    <3>1. c.k \in 1..(Groups - 1)
      BY <1>1
    <3> QED BY <3>1, CombosFinite DEF Blocksets
  <2>2. Combinations(c.k) \in [1..Cardinality(Combos(c.k)) -> Combos(c.k)]
    BY <1>1, CombinationsList
  <2>3. 1..c.k \in Combos(c.k)
    <3>1. Cardinality(1..c.k) = c.k
      BY <1>1, FS_Interval
    <3>2. 1..c.k \subseteq 1..Groups
      BY <1>1
    <3> QED BY <3>1, <3>2 DEF Combos, kSubset
  <2>4. Cardinality(Combos(c.k)) # 0
    BY <2>1, <2>3, FS_EmptySet
  <2>5. Combinations(c.k) \in Seq(Blocksets) /\ Len(Combinations(c.k)) = Cardinality(Combos(c.k))
    BY <2>1, <2>2, LenProperties
  <2> QED BY <2>4, <2>5, EmptySeq
<1>3. Windows(c.k) \in Seq(Blocksets) /\ Windows(c.k) # <<>>
  <2>1. \A s \in 1..(Groups - c.k) : (s + 1)..(s + c.k) \in Blocksets
    <3> SUFFICES ASSUME NEW s \in 1..(Groups - c.k) PROVE (s + 1)..(s + c.k) \in Blocksets
      OBVIOUS
    <3>1. s + 1 \in (s + 1)..(s + c.k)
      BY <1>1
    <3>2. (s + 1)..(s + c.k) \subseteq 1..Groups
      BY <1>1
    <3> QED BY <3>1, <3>2 DEF Blocksets
  <2>2. Windows(c.k) \in [1..(Groups - c.k) -> Blocksets] /\ Groups - c.k \in Nat \ {0}
    BY <1>1, <2>1 DEF Windows
  <2>3. Windows(c.k) \in Seq(Blocksets) /\ Len(Windows(c.k)) = Groups - c.k
    BY <2>2, LenProperties
  <2> QED BY <2>2, <2>3, EmptySeq
<1>4. CASE c.forward
  BY <1>1, <1>3, <1>4, ThinnedShape DEF TestCombinations
<1>5. CASE ~c.forward
  BY <1>1, <1>2, <1>5, ThinnedShape DEF TestCombinations
<1> QED BY <1>4, <1>5

-----------------------------------------------------------------------------
(* Purged cross-validation                                                 *)

SplitRecords ==
  [test : Blocksets, tested : SUBSET (1..Samples), purged : SUBSET (1..Samples),
   embargoed : SUBSET (1..Samples), train : SUBSET (1..Samples)]

(* No label ends before its sample is predicted, and the splits yielded    *)
(* are those of the list of combinations, in order.                        *)
SplitsInvariant ==
  /\ ends \in [1..Samples -> Int] /\ \A i \in 1..Samples : ends[i] >= i
  /\ splits \in Seq(SplitRecords)
  /\ config = NoConfig => splits = <<>>
  /\ config # NoConfig =>
       /\ Configured(config)
       /\ Len(splits) <= Len(TestCombinations(config))
       /\ \A n \in 1..Len(splits) : splits[n] = SplitOf(ends, config, TestCombinations(config)[n])

(* The samples of some blocks are samples.                                 *)
LEMMA SamplesInRange == ASSUME NEW gs, gs \subseteq 1..Groups PROVE SamplesOf(gs) \subseteq 1..Samples
  BY GroupShape DEF SamplesOf

(* A split holds sets of samples.                                          *)
LEMMA SplitTyped ==
  ASSUME NEW times, NEW c, Configured(c), NEW test \in Blocksets
  PROVE  SplitOf(times, c, test) \in SplitRecords
<1>1. test \subseteq 1..Groups /\ test # {} /\ test \subseteq Nat
  BY Blocks DEF Blocksets
<1>2. TrainGroups(c, test) \subseteq 1..Groups
  <2>1. Min(test) \in 1..Groups
    BY <1>1, MinOfNats
  <2>2. 1..(Min(test) - 1) \subseteq 1..Groups
    BY <2>1, Blocks
  <2> QED BY <2>2 DEF TrainGroups
<1>3. SamplesOf(TrainGroups(c, test)) \subseteq 1..Samples /\ SamplesOf(test) \subseteq 1..Samples
  BY <1>1, <1>2, SamplesInRange
<1> DEFINE train == SamplesOf(TrainGroups(c, test))
           purged == Purged(times, train, test)
           embargoed == Embargoed(times, train \ purged, test, c.embargo)
<1>4. purged \subseteq train /\ embargoed \subseteq train
  BY DEF Purged, Embargoed
<1>5. SplitOf(times, c, test) = [test |-> test, tested |-> SamplesOf(test), purged |-> purged,
        embargoed |-> embargoed, train |-> (train \ purged) \ embargoed]
  BY DEF SplitOf
<1>6. train \subseteq 1..Samples
  BY <1>3
<1> HIDE DEF train, purged, embargoed
<1> QED BY <1>3, <1>4, <1>5, <1>6 DEF SplitRecords

(* Nothing is split at first.                                              *)
LEMMA SplitsInvariantInit == SplitsInit => SplitsInvariant
<1> SUFFICES ASSUME SplitsInit PROVE SplitsInvariant
  OBVIOUS
<1>0. raised = FALSE /\ splits = <<>> /\ config = NoConfig /\ ends = [i \in 1..Samples |-> i]
  BY DEF SplitsInit
<1>1. ends \in [1..Samples -> Int] /\ \A i \in 1..Samples : ends[i] >= i
  BY <1>0, Blocks
<1>2. splits \in Seq(SplitRecords)
  BY <1>0, EmptySeq
<1> QED BY <1>0, <1>1, <1>2 DEF SplitsInvariant

(* split yields the next split of the list, and nothing else changes.      *)
LEMMA SplitsInvariantStep == SplitsInvariant /\ [SplitsNext]_splitVars => SplitsInvariant'
<1> SUFFICES ASSUME SplitsInvariant, [SplitsNext]_splitVars PROVE SplitsInvariant'
  OBVIOUS
<1>1. CASE UNCHANGED splitVars
  BY <1>1 DEF splitVars, SplitsInvariant
<1>2. ASSUME config = NoConfig, NEW k \in 1..(Groups - 1), NEW e \in Embargoes, NEW cap \in SplitCaps,
             NEW f \in BOOLEAN, NEW lives \in [1..Samples -> Lifespans],
             SplitCall([k |-> k, embargo |-> e, cap |-> cap, forward |-> f], lives)
      PROVE  SplitsInvariant'
  <2> DEFINE c == [k |-> k, embargo |-> e, cap |-> cap, forward |-> f]
  <2>1. e \in Nat /\ cap \in Nat \ {0} /\ \A i \in 1..Samples : lives[i] \in Nat
    BY SplitsAssumption DEF CPCVConfig
  <2>2. Configured(c)
    BY <2>1 DEF Configured
  <2>3. config' = c /\ ends' = [i \in 1..Samples |-> i + lives[i]] /\ UNCHANGED <<splits, raised>>
    BY <1>2 DEF SplitCall
  <2>4. splits = <<>> /\ splits \in Seq(SplitRecords) /\ Len(splits) = 0
    BY <1>2 DEF SplitsInvariant
  <2>5. ends' \in [1..Samples -> Int] /\ \A i \in 1..Samples : ends'[i] >= i
    BY <2>1, <2>3, Blocks
  <2>6. Len(TestCombinations(c)) \in Nat
    BY <2>2, TestShape, LenProperties
  <2> HIDE DEF c
  <2> QED BY <2>2, <2>3, <2>4, <2>5, <2>6 DEF SplitsInvariant
<1>3. CASE YieldSplit
  <2> DEFINE all == TestCombinations(config)
             n == Len(splits) + 1
             s == SplitOf(ends, config, all[n])
  <2>1. /\ config # NoConfig /\ Len(splits) < Len(all) /\ UNCHANGED <<config, ends>>
        /\ \/ raised' = TRUE /\ splits' = splits
           \/ splits' = Append(splits, s) /\ raised' = raised
    BY <1>3 DEF YieldSplit
  <2>2. /\ Configured(config) /\ splits \in Seq(SplitRecords) /\ ends \in [1..Samples -> Int]
        /\ \A i \in 1..Samples : ends[i] >= i
        /\ \A m \in 1..Len(splits) : splits[m] = SplitOf(ends, config, all[m])
    BY <2>1 DEF SplitsInvariant
  <2>3. all \in Seq(Blocksets) /\ Len(all) \in Nat /\ Len(splits) \in Nat
    BY <2>2, TestShape, LenProperties
  <2>4. all[n] \in Blocksets
    BY <2>1, <2>3
  <2>5. s \in SplitRecords
    BY <2>2, <2>4, SplitTyped
  <2>6. splits' \in Seq(SplitRecords) /\ Len(splits') <= Len(all)
    <3> HIDE DEF all, s
    <3> QED BY <2>1, <2>2, <2>3, <2>5
  <2>7. \A m \in 1..Len(splits') : splits'[m] = SplitOf(ends, config, all[m])
    <3> HIDE DEF all, s
    <3>1. CASE splits' = splits
      BY <2>2, <3>1
    <3>2. CASE splits' = Append(splits, s)
      BY <2>2, <2>3, <3>2 DEF s
    <3> QED BY <2>1, <3>1, <3>2
  <2> QED BY <2>1, <2>2, <2>6, <2>7 DEF SplitsInvariant
<1> QED BY <1>1, <1>2, <1>3 DEF SplitsNext

(* A split that was yielded is SplitOf of a set of blocks.                 *)
LEMMA SplitsAre ==
  ASSUME SplitsInvariant, NEW n \in DOMAIN splits
  PROVE  /\ n \in 1..Len(splits) /\ config # NoConfig /\ Configured(config)
         /\ splits[n].test \in Blocksets /\ splits[n].test = TestCombinations(config)[n]
         /\ splits[n] = SplitOf(ends, config, splits[n].test)
         /\ ends \in [1..Samples -> Int] /\ \A i \in 1..Samples : ends[i] >= i
<1>1. splits \in Seq(SplitRecords) /\ DOMAIN splits = 1..Len(splits) /\ Len(splits) \in Nat
  BY LenProperties DEF SplitsInvariant
<1>2. config # NoConfig
  <2>1. splits # <<>>
    BY <1>1, EmptySeq
  <2> QED BY <2>1 DEF SplitsInvariant
<1>3. Configured(config) /\ splits[n] = SplitOf(ends, config, TestCombinations(config)[n])
  BY <1>1, <1>2 DEF SplitsInvariant
<1>4. splits[n].test = TestCombinations(config)[n]
  BY <1>3 DEF SplitOf
<1>5. splits[n] \in SplitRecords
  BY <1>1
<1>6. splits[n].test \in Blocksets
  BY <1>5 DEF SplitRecords
<1>7. ends \in [1..Samples -> Int] /\ \A i \in 1..Samples : ends[i] >= i
  BY DEF SplitsInvariant
<1> QED BY <1>1, <1>2, <1>3, <1>4, <1>6, <1>7

(* Purging leaves only the overlaps that outlive the label of their        *)
(* block's last sample, forward chaining none. A sample purged for a block *)
(* overlaps its first sample when it comes before it, itself being no test *)
(* sample its last one otherwise.                                          *)
LEMMA OverlapHolds == SplitsInvariant => OverlapExplained
<1> SUFFICES ASSUME SplitsInvariant, NEW n \in DOMAIN splits
             PROVE  LET s == splits[n] IN
    /\ \A i \in s.train, j \in s.tested :
         (i <= ends[j] /\ ends[i] >= j) =>
           \E g \in s.test : j \in Group(g) /\ ends[j] > ends[LastSample(g)] /\ i > ends[LastSample(g)]
    /\ \A i \in s.purged : \E j \in s.tested : i <= ends[j] /\ ends[i] >= j
    /\ config.forward => \A i \in s.train, j \in s.tested : i < j
  BY DEF OverlapExplained
<1> DEFINE t == splits[n].test
           pool == SamplesOf(TrainGroups(config, t))
<1>1. /\ t \in Blocksets /\ splits[n] = SplitOf(ends, config, t) /\ ends \in [1..Samples -> Int]
      /\ \A i \in 1..Samples : ends[i] >= i
  BY SplitsAre
<1>2. /\ splits[n].tested = SamplesOf(t) /\ splits[n].test = t
      /\ splits[n].train \subseteq pool \ Purged(ends, pool, t)
      /\ splits[n].purged = Purged(ends, pool, t)
  BY <1>1 DEF SplitOf
<1>3. t \subseteq 1..Groups /\ t # {} /\ t \subseteq Nat
  <2>1. t \in SUBSET (1..Groups) /\ t # {}
    BY <1>1 DEF Blocksets
  <2>2. 1..Groups \subseteq Nat
    BY Blocks
  <2> QED BY <2>1, <2>2
<1>4. TrainGroups(config, t) \subseteq 1..Groups
  <2>1. Min(t) \in 1..Groups
    BY <1>3, MinOfNats
  <2>2. 1..(Min(t) - 1) \subseteq 1..Groups
    BY <2>1, Blocks
  <2> HIDE DEF t
  <2> QED BY <2>2 DEF TrainGroups
<1>5. pool \subseteq 1..Samples /\ SamplesOf(t) \subseteq 1..Samples /\ 1..Samples \subseteq Nat
  <2>1. 1..Samples \subseteq Nat
    BY Blocks
  <2> HIDE DEF t
  <2> QED BY <2>1, <1>3, <1>4, SamplesInRange
<1>6. ASSUME NEW i \in splits[n].train, NEW j \in splits[n].tested, i <= ends[j], ends[i] >= j
      PROVE  \E g \in t : j \in Group(g) /\ ends[j] > ends[LastSample(g)] /\ i > ends[LastSample(g)]
  <2>1. PICK g \in t : j \in Group(g)
    BY <1>2 DEF SamplesOf
  <2>2. g \in 1..Groups /\ LastSample(g) \in 1..Samples /\ j >= GroupStart(g) /\ GroupStart(g) \in 1..Samples
    BY <1>3, <2>1, GroupShape, Blocks DEF Group
  <2>3. i \in 1..Samples /\ j \in 1..Samples /\ ends[i] \in Int /\ ends[j] \in Int
        /\ ends[LastSample(g)] \in Int
    BY <1>1, <1>2, <1>5, <2>2
  <2>4. ends[i] >= GroupStart(g)
    BY <1>6, <2>2, <2>3, <1>5
  <2>5. i \in pool /\ i \notin Purged(ends, pool, t)
    BY <1>2
  <2>6. ~(i <= ends[LastSample(g)])
    <3> HIDE DEF pool, t
    <3> QED BY <2>1, <2>4, <2>5 DEF Purged
  <2> QED BY <1>5, <1>6, <2>1, <2>3, <2>6
<1>7. ASSUME config.forward, NEW i \in splits[n].train, NEW j \in splits[n].tested PROVE i < j
  <2>1. PICK b \in t : j \in Group(b)
    BY <1>2 DEF SamplesOf
  <2>2. i \in SamplesOf(1..(Min(t) - 1))
    BY <1>2, <1>7 DEF TrainGroups
  <2>3. PICK a \in 1..(Min(t) - 1) : i \in Group(a)
    BY <2>2 DEF SamplesOf
  <2>4. Min(t) \in t /\ Min(t) <= b
    BY <1>3, MinOfNats
  <2>5. a \in 1..Groups /\ b \in 1..Groups /\ a < b
    BY <1>3, <2>4, Blocks
  <2> QED BY <2>1, <2>3, <2>5, GroupShape
<1>8. ASSUME NEW i \in splits[n].purged PROVE \E j \in splits[n].tested : i <= ends[j] /\ ends[i] >= j
  <2>0. i \in pool /\ \E g \in t : i <= ends[LastSample(g)] /\ ends[i] >= GroupStart(g)
    <3> HIDE DEF pool, t
    <3> QED BY <1>2 DEF Purged
  <2>1. PICK g \in t : i <= ends[LastSample(g)] /\ ends[i] >= GroupStart(g)
    BY <2>0
  <2>2. /\ g \in 1..Groups /\ GroupStart(g) \in Group(g) /\ LastSample(g) \in Group(g)
        /\ GroupStart(g) \in 1..Samples /\ LastSample(g) \in 1..Samples
    BY <1>3, GroupShape
  <2>3. GroupStart(g) \in splits[n].tested /\ LastSample(g) \in splits[n].tested
    BY <1>2, <2>2 DEF SamplesOf
  <2>4. i \in 1..Samples /\ i \in Int /\ ends[i] \in Int /\ ends[i] >= i
        /\ ends[GroupStart(g)] \in Int /\ ends[GroupStart(g)] >= GroupStart(g)
        /\ ends[LastSample(g)] \in Int /\ GroupStart(g) \in Int /\ LastSample(g) \in Int
    BY <1>1, <1>5, <2>0, <2>2
  <2>5. CASE i < GroupStart(g)
    BY <2>1, <2>3, <2>4, <2>5
  <2>6. CASE i >= LastSample(g)
    BY <2>1, <2>3, <2>4, <2>6
  <2>7. ~(i >= GroupStart(g) /\ i <= LastSample(g))
    <3>1. SUFFICES ASSUME i >= GroupStart(g), i <= LastSample(g) PROVE FALSE
      OBVIOUS
    <3>2. i \in Group(g)
      BY <2>4, <3>1 DEF Group, LastSample
    <3>3. PICK h \in TrainGroups(config, t) : i \in Group(h)
      BY <2>0 DEF SamplesOf
    <3>4. h \notin t
      <4>1. Min(t) \in Nat /\ \A y \in t : Min(t) <= y
        BY <1>3, MinOfNats
      <4>2. h \in 1..(Min(t) - 1) \/ h \notin t
        BY <3>3 DEF TrainGroups
      <4> HIDE DEF t
      <4> QED BY <1>3, <4>1, <4>2
    <3> QED BY <1>3, <1>4, <2>2, <3>2, <3>3, <3>4, GroupShape
  <2> QED BY <2>4, <2>5, <2>6, <2>7
<1> HIDE DEF t, pool
<1> QED BY <1>2, <1>6, <1>7, <1>8

(* The embargo after the last label of a test block is free of training    *)
(* samples.                                                                *)
LEMMA EmbargoHolds == SplitsInvariant => EmbargoKept
<1> SUFFICES ASSUME SplitsInvariant, NEW n \in DOMAIN splits, NEW i \in splits[n].train,
                    NEW g \in splits[n].test, i > ends[LastSample(g)]
             PROVE  i > ends[LastSample(g)] + config.embargo
  BY DEF EmbargoKept
<1> PICK t : t = splits[n].test
  OBVIOUS
<1> DEFINE others == SamplesOf(TrainGroups(config, t)) \ Purged(ends, SamplesOf(TrainGroups(config, t)), t)
<1>1. /\ t \in Blocksets /\ splits[n] = SplitOf(ends, config, t) /\ ends \in [1..Samples -> Int]
      /\ Configured(config) /\ splits[n] \in SplitRecords
  <2>1. splits \in Seq(SplitRecords) /\ n \in 1..Len(splits)
    BY SplitsAre DEF SplitsInvariant
  <2> QED BY <2>1, SplitsAre
<1>2. splits[n].train = others \ Embargoed(ends, others, t, config.embargo)
  BY <1>1 DEF SplitOf
<1>3. i \in 1..Samples /\ g \in 1..Groups
  BY <1>1 DEF SplitRecords, Blocksets
<1>4. ends[LastSample(g)] \in Int /\ config.embargo \in Nat /\ i \in Nat
  <2>1. LastSample(g) \in 1..Samples
    BY <1>3, GroupShape
  <2>2. i \in Nat
    BY <1>3, Blocks
  <2> QED BY <1>1, <2>1, <2>2 DEF Configured
<1>5. i \in others /\ i \notin Embargoed(ends, others, t, config.embargo) /\ g \in t
  BY <1>2
<1>6. ~(i <= ends[LastSample(g)] + config.embargo)
  <2> HIDE DEF others
  <2> QED BY <1>5 DEF Embargoed
<1> QED BY <1>4, <1>6

(* As many combinations of k blocks hold g as hold h: exchange the two.    *)
With(g, k) == {c \in Combos(k) : g \in c}

(* Exchanging g for h maps the combinations with g into those with h.      *)
LEMMA WithAtMost ==
  ASSUME NEW k \in 1..(Groups - 1), NEW g \in 1..Groups, NEW h \in 1..Groups
  PROVE  Cardinality(With(g, k)) <= Cardinality(With(h, k))
<1> DEFINE Swap(c) == IF h \in c THEN c ELSE (c \ {g}) \cup {h}
           f == [c \in With(g, k) |-> Swap(c)]
<1>1. \A c \in Combos(k) : c \subseteq 1..Groups /\ Cardinality(c) = k /\ IsFiniteSet(c)
  BY CombosFinite
<1>2. ASSUME NEW c \in With(g, k) PROVE Swap(c) \in With(h, k)
  <2>1. c \in Combos(k) /\ g \in c /\ c \subseteq 1..Groups /\ Cardinality(c) = k /\ IsFiniteSet(c)
    BY <1>1 DEF With
  <2>2. CASE h \in c
    BY <2>1, <2>2 DEF With
  <2>3. CASE h \notin c
    <3>1. IsFiniteSet(c \ {g}) /\ Cardinality(c \ {g}) = k - 1
      BY <2>1, SmallerBy
    <3>2. Cardinality((c \ {g}) \cup {h}) = (k - 1) + 1
      BY <3>1, <2>3, FS_AddElement
    <3>3. (c \ {g}) \cup {h} \in Combos(k)
      <4>1. (c \ {g}) \cup {h} \subseteq 1..Groups
        BY <2>1
      <4>2. (k - 1) + 1 = k
        BY Blocks
      <4> QED BY <3>2, <4>1, <4>2 DEF Combos, kSubset
    <3> QED BY <2>3, <3>3 DEF With
  <2> QED BY <2>2, <2>3
<1>3. ASSUME NEW c \in With(g, k), NEW d \in With(g, k), Swap(c) = Swap(d) PROVE c = d
  <2>1. g \in c /\ g \in d
    BY DEF With
  <2>2. CASE h \in c /\ h \in d
    BY <1>3, <2>2
  <2>3. CASE h \in c /\ h \notin d
    BY <1>3, <2>1, <2>3
  <2>4. CASE h \notin c /\ h \in d
    BY <1>3, <2>1, <2>4
  <2>5. CASE h \notin c /\ h \notin d
    <3>1. (c \ {g}) \cup {h} = (d \ {g}) \cup {h}
      BY <1>3, <2>5
    <3>2. \A x : x \in c <=> x \in d
      BY <2>1, <2>5, <3>1
    <3> QED BY <3>2
  <2> QED BY <2>2, <2>3, <2>4, <2>5
<1>4. f \in Injection(With(g, k), With(h, k))
  <2> HIDE DEF Swap
  <2> QED BY <1>2, <1>3 DEF Injection, IsInjective
<1>5. IsFiniteSet(With(h, k))
  BY CombosFinite, FS_Subset DEF With
<1> HIDE DEF f
<1> QED BY <1>4, <1>5, FS_Injection

(* So as many combinations hold g as hold h.                               *)
LEMMA WithEqual ==
  ASSUME NEW k \in 1..(Groups - 1), NEW g \in 1..Groups, NEW h \in 1..Groups
  PROVE  Cardinality(With(g, k)) = Cardinality(With(h, k)) /\ Cardinality(With(g, k)) \in Nat
<1>1. IsFiniteSet(With(g, k)) /\ IsFiniteSet(With(h, k))
  BY CombosFinite, FS_Subset DEF With
<1>2. Cardinality(With(g, k)) \in Nat /\ Cardinality(With(h, k)) \in Nat
  BY <1>1, FS_CardinalityType
<1>3. Cardinality(With(g, k)) <= Cardinality(With(h, k)) /\ Cardinality(With(h, k)) <= Cardinality(With(g, k))
  BY WithAtMost
<1> QED BY <1>2, <1>3

(* When no combination was dropped, every block is in as many folds.       *)
LEMMA FoldsEqual ==
  ASSUME SplitsInvariant, Complete, ~config.forward,
         Len(splits) = Cardinality(kSubset(config.k, 1..Groups)), NEW g \in 1..Groups
  PROVE  /\ IsFiniteSet(FoldsOf(g)) /\ FoldsOf(g) \subseteq Nat
         /\ Cardinality(FoldsOf(g)) = Cardinality(With(1, config.k))
<1>1. /\ Configured(config) /\ splits \in Seq(SplitRecords) /\ config # NoConfig
      /\ Len(splits) = Len(TestCombinations(config))
  BY DEF SplitsInvariant, Complete
<1>2. TestCombinations(config) = Combinations(config.k)
  <2>1. Len(TestCombinations(config)) = Cardinality(Combos(config.k))
    BY <1>1 DEF Combos
  <2> QED BY <1>1, <2>1, TestShape
<1>3. config.k \in 1..(Groups - 1) /\ 1 \in 1..Groups
  BY <1>1, Blocks DEF Configured
<1> DEFINE N == Cardinality(Combos(config.k))
           C == Combinations(config.k)
<1>4. DOMAIN splits = 1..N /\ N \in Nat
  BY <1>1, LenProperties DEF Combos
<1>5. \A n \in 1..N : splits[n].test = C[n]
  BY <1>2, <1>4, SplitsAre
<1>6. FoldsOf(g) = {n \in 1..N : g \in C[n]}
  BY <1>4, <1>5 DEF FoldsOf
<1>7. /\ C \in [1..N -> Combos(config.k)]
      /\ \A c \in Combos(config.k) : \E i \in 1..N : C[i] = c
      /\ \A i, j \in 1..N : C[i] = C[j] => i = j
  BY <1>3, CombinationsList
<1> HIDE DEF N, C
<1> DEFINE f == [n \in FoldsOf(g) |-> C[n]]
<1>8. f \in Bijection(FoldsOf(g), With(g, config.k))
  <2>1. f \in [FoldsOf(g) -> With(g, config.k)]
    BY <1>6, <1>7 DEF With
  <2>2. \A i, j \in FoldsOf(g) : f[i] = f[j] => i = j
    BY <1>6, <1>7
  <2>3. \A c \in With(g, config.k) : \E i \in FoldsOf(g) : f[i] = c
    BY <1>6, <1>7 DEF With
  <2> HIDE DEF f
  <2> QED BY <2>1, <2>2, <2>3 DEF Bijection, Injection, Surjection, IsInjective
<1>9. IsFiniteSet(FoldsOf(g)) /\ FoldsOf(g) \subseteq Nat
  <2>1. IsFiniteSet(1..N) /\ 1..N \subseteq Nat
    BY <1>4, FS_Interval
  <2>2. FoldsOf(g) \subseteq 1..N
    BY <1>6
  <2> QED BY <2>1, <2>2, FS_Subset
<1>10. Cardinality(With(g, config.k)) = Cardinality(FoldsOf(g))
  <2> HIDE DEF f
  <2> QED BY <1>8, <1>9, FS_Bijection DEF ExistsBijection
<1> QED BY <1>3, <1>9, <1>10, WithEqual

(* The p-th fold of a block, for every fold of it some p.                  *)
LEMMA PathTakes ==
  ASSUME NEW F, IsFiniteSet(F), F \subseteq Nat, NEW n \in F
  PROVE  \E p \in 1..Cardinality(F) : n = CHOOSE m \in F : Cardinality({l \in F : l <= m}) = p
<1> DEFINE Upto(m) == {l \in F : l <= m}
<1>1. \A m \in F : IsFiniteSet(Upto(m)) /\ Cardinality(Upto(m)) \in 1..Cardinality(F)
  <2> SUFFICES ASSUME NEW m \in F PROVE IsFiniteSet(Upto(m)) /\ Cardinality(Upto(m)) \in 1..Cardinality(F)
    OBVIOUS
  <2>1. Upto(m) \subseteq F /\ m \in Upto(m)
    OBVIOUS
  <2>2. IsFiniteSet(Upto(m)) /\ Cardinality(Upto(m)) <= Cardinality(F)
    <3> HIDE DEF Upto
    <3> QED BY <2>1, FS_Subset
  <2>3. Cardinality(Upto(m)) \in Nat /\ Cardinality(F) \in Nat /\ Cardinality(Upto(m)) # 0
    <3>1. Upto(m) # {}
      BY <2>1
    <3> HIDE DEF Upto
    <3> QED BY <3>1, <2>2, FS_CardinalityType, FS_EmptySet
  <2> HIDE DEF Upto
  <2> QED BY <2>2, <2>3
<1>2. ASSUME NEW a \in F, NEW b \in F, a < b PROVE Cardinality(Upto(a)) # Cardinality(Upto(b))
  <2>0. \A l \in F : l \in Nat
    OBVIOUS
  <2>1. \A l \in F : (l <= a => l <= b) /\ b <= b /\ ~(b <= a)
    BY <1>2, <2>0
  <2>2. Upto(a) \subseteq Upto(b) /\ b \in Upto(b) /\ b \notin Upto(a)
    BY <2>1
  <2> HIDE DEF Upto
  <2> QED BY <1>1, <2>2, FS_Subset
<1>3. \A m \in F : Cardinality(Upto(m)) = Cardinality(Upto(n)) => m = n
  <2> SUFFICES ASSUME NEW m \in F, m # n PROVE Cardinality(Upto(m)) # Cardinality(Upto(n))
    OBVIOUS
  <2>1. m < n \/ n < m
    OBVIOUS
  <2> HIDE DEF Upto
  <2> QED BY <1>2, <2>1
<1> DEFINE p == Cardinality(Upto(n))
<1>4. p \in 1..Cardinality(F) /\ n = CHOOSE m \in F : Cardinality(Upto(m)) = p
  <2> HIDE DEF Upto
  <2> QED BY <1>1, <1>3
<1> HIDE DEF p
<1> QED BY <1>4

(* Every path takes every block once.                                      *)
LEMMA PathsHold == SplitsInvariant => PathsPartitionFolds
<1> SUFFICES ASSUME SplitsInvariant, Complete, ~config.forward,
                    Len(splits) = Cardinality(kSubset(config.k, 1..Groups))
             PROVE  /\ \A g \in 1..Groups : Cardinality(FoldsOf(g)) = PathCount
                    /\ \A n \in DOMAIN splits : \A g \in splits[n].test :
                         \E p \in 1..PathCount : Path(p)[g] = n
  BY GroupsCover DEF PathsPartitionFolds
<1> DEFINE m == Cardinality(With(1, config.k))
<1>1. \A g \in 1..Groups : IsFiniteSet(FoldsOf(g)) /\ FoldsOf(g) \subseteq Nat /\ Cardinality(FoldsOf(g)) = m
  BY FoldsEqual
<1>2. PathCount = m
  <2>1. 1 \in 1..Groups /\ m \in Nat
    <3>1. 1 \in 1..Groups
      BY Blocks
    <3> QED BY <1>1, <3>1, FS_CardinalityType
  <2>2. {Cardinality(FoldsOf(g)) : g \in 1..Groups} = {m}
    BY <1>1, <2>1
  <2>3. Min({m}) \in {m}
    BY <2>1, MinOfNats
  <2> HIDE DEF m
  <2> QED BY <2>2, <2>3 DEF PathCount
<1> HIDE DEF m
<1>3. ASSUME NEW n \in DOMAIN splits, NEW g \in splits[n].test
      PROVE  \E p \in 1..PathCount : Path(p)[g] = n
  <2>1. g \in 1..Groups /\ n \in FoldsOf(g)
    BY SplitsAre DEF FoldsOf, Blocksets
  <2>2. PICK p \in 1..Cardinality(FoldsOf(g)) :
               n = CHOOSE l \in FoldsOf(g) : Cardinality({o \in FoldsOf(g) : o <= l}) = p
    BY <1>1, <2>1, PathTakes
  <2>3. Path(p)[g] = n
    BY <2>1, <2>2 DEF Path
  <2> QED BY <1>1, <1>2, <2>1, <2>2, <2>3
<1> QED BY <1>1, <1>2, <1>3

(* SplitsClean: a split of CombinatorialPurgedCV trains on no sample that  *)
(* its test blocks, as far as their last labels tell, or their embargoes   *)
(* exclude; and when no combination was dropped, the paths of              *)
(* reconstruct_paths use every fold of every block once.                   *)
THEOREM SplitsCleanHolds == SplitsSpec => []SplitsClean
<1>1. SplitsSpec => []SplitsInvariant
  BY SplitsInvariantInit, SplitsInvariantStep, PTL DEF SplitsSpec
<1>2. SplitsInvariant => SplitsClean
  BY OverlapHolds, EmbargoHolds, PathsHold DEF SplitsClean
<1> QED BY <1>1, <1>2, PTL

-----------------------------------------------------------------------------
(* The two sums of the community modules are one.                          *)
LEMMA SumsAgree == \A f, S : SumFunctionOnSet(f, S) = SumOver(f, S)
  BY DEF SumFunctionOnSet, FoldFunctionOnSet, SumOver, MapThenSumSet

SliceSet == [index : Nat, quantity : Nat \ {0}, time : Nat]

QuantityOf == [r \in SliceSet |-> r.quantity]

SumQ(s) == SumSeq(s, QuantityOf)

(* The total of a list of slices is the sum of their quantities.           *)
LEMMA ScheduledIs == ASSUME NEW s \in Seq(SliceSet) PROVE TotalScheduled(Quantities(s)) = SumQ(s)
<1>1. DOMAIN s = 1..Len(s) /\ Len(s) \in Nat /\ \A i \in DOMAIN s : s[i] \in SliceSet
  BY LenProperties
<1>2. [i \in DOMAIN s |-> s[i].quantity] = [i \in DOMAIN s |-> QuantityOf[s[i]]]
  BY <1>1 DEF QuantityOf
<1>3. DOMAIN Quantities(s) = DOMAIN s
  BY DEF Quantities
<1> QED BY <1>2, <1>3, SumsAgree DEF TotalScheduled, Quantities, SumQ, SumSeq

(* The quantities add up to a number.                                      *)
LEMMA SumQType == ASSUME NEW s \in Seq(SliceSet) PROVE SumQ(s) \in Int
<1>1. \A r \in SliceSet : QuantityOf[r] \in Int
  BY DEF QuantityOf, SliceSet
<1> QED BY <1>1, SumSeqInt DEF SumQ

(* One more slice adds its quantity.                                       *)
LEMMA SumQAppend ==
  ASSUME NEW s \in Seq(SliceSet), NEW e \in SliceSet
  PROVE  SumQ(Append(s, e)) = SumQ(s) + e.quantity
<1>1. \A r \in SliceSet : QuantityOf[r] \in Int
  BY DEF QuantityOf, SliceSet
<1>2. QuantityOf[e] = e.quantity
  BY DEF QuantityOf
<1> QED BY <1>1, <1>2, SumAppend DEF SumQ

(* No slices have no quantity.                                             *)
LEMMA SumQEmpty == SumQ(<<>>) = 0
<1>1. DOMAIN (<<>>) = {}
  OBVIOUS
<1> QED BY <1>1, SumEmpty DEF SumQ, SumSeq

(* The weight of the bars from k on.                                       *)
Ahead(c, k) == SumOver(c, k..Len(c))

(* The weight ahead falls bar by bar, from the whole curve to nothing.     *)
LEMMA AheadShape ==
  ASSUME NEW c \in Seq(Int), \A k \in DOMAIN c : c[k] >= 0
  PROVE  /\ Len(c) \in Nat /\ DOMAIN c = 1..Len(c)
         /\ \A k \in 1..(Len(c) + 1) : Ahead(c, k) \in Nat
         /\ \A k \in 1..Len(c) : Ahead(c, k) = c[k] + Ahead(c, k + 1) /\ c[k] \in Nat
         /\ Ahead(c, Len(c) + 1) = 0
         /\ Ahead(c, 1) = TotalScheduled(c)
         /\ \A k \in 1..Len(c) : (\A j \in (k + 1)..Len(c) : c[j] = 0) => Ahead(c, k + 1) = 0
         /\ TotalScheduled(c) > 0 => \E k \in 1..Len(c) : c[k] > 0
<1>1. Len(c) \in Nat /\ DOMAIN c = 1..Len(c) /\ \A k \in 1..Len(c) : c[k] \in Nat
  <2>1. Len(c) \in Nat /\ DOMAIN c = 1..Len(c) /\ \A k \in 1..Len(c) : c[k] \in Int
    BY LenProperties
  <2> QED BY <2>1
<1>2. \A k \in 1..(Len(c) + 1) : IsFiniteSet(k..Len(c)) /\ k..Len(c) \subseteq 1..Len(c)
  BY <1>1, FS_Interval
<1>3. \A k \in 1..(Len(c) + 1) : Ahead(c, k) \in Nat
  <2> SUFFICES ASSUME NEW k \in 1..(Len(c) + 1) PROVE Ahead(c, k) \in Nat
    OBVIOUS
  <2> DEFINE z == [j \in 1..Len(c) |-> 0]
             S == k..Len(c)
  <2>1. IsFiniteSet(S) /\ \A j \in S : c[j] \in Int /\ z[j] \in Int /\ z[j] <= c[j] /\ z[j] = 0
    BY <1>1, <1>2
  <2> HIDE DEF z, S
  <2>2. SumOver(c, S) \in Int /\ SumOver(z, S) <= SumOver(c, S)
    BY <2>1, SumInt, SumAtMost
  <2>3. SumOver(z, S) = 0
    BY <2>1, SumZero
  <2> QED BY <2>2, <2>3 DEF Ahead, S
<1>4. ASSUME NEW k \in 1..Len(c) PROVE Ahead(c, k) = c[k] + Ahead(c, k + 1)
  <2> DEFINE S == k..Len(c)
  <2>1. IsFiniteSet(S) /\ k \in S /\ (\A j \in S : c[j] \in Int) /\ S \ {k} = (k + 1)..Len(c)
    BY <1>1, <1>2
  <2> HIDE DEF S
  <2>2. SumOver(c, S) = c[k] + SumOver(c, S \ {k})
    BY <2>1, SumRemove
  <2> QED BY <2>1, <2>2 DEF Ahead, S
<1>5. Ahead(c, Len(c) + 1) = 0
  <2>1. (Len(c) + 1)..Len(c) = {}
    BY <1>1
  <2> QED BY <2>1, SumEmpty DEF Ahead
<1>6. Ahead(c, 1) = TotalScheduled(c)
  BY <1>1, SumsAgree DEF Ahead, TotalScheduled
<1>7. ASSUME NEW k \in 1..Len(c), \A j \in (k + 1)..Len(c) : c[j] = 0 PROVE Ahead(c, k + 1) = 0
  <2>1. IsFiniteSet((k + 1)..Len(c))
    BY <1>1, FS_Interval
  <2> QED BY <1>7, <2>1, SumZero DEF Ahead
<1>8. ASSUME TotalScheduled(c) > 0, \A k \in 1..Len(c) : ~(c[k] > 0) PROVE FALSE
  <2>1. \A j \in 1..Len(c) : c[j] = 0
    BY <1>1, <1>8
  <2>2. IsFiniteSet(1..Len(c))
    BY <1>1, FS_Interval
  <2>3. SumOver(c, 1..Len(c)) = 0
    BY <2>1, <2>2, SumZero
  <2> QED BY <1>6, <1>8, <2>3 DEF Ahead
<1> QED BY <1>1, <1>3, <1>4, <1>5, <1>6, <1>7, <1>8

-----------------------------------------------------------------------------
(* The list grows in order.                                                *)
Numbered(s) ==
  \A i \in DOMAIN s : s[i].index = i - 1 /\ (i > 1 => s[i - 1].time < s[i].time)

NextSlice(s, q, t) == [index |-> Len(s), quantity |-> q, time |-> t]

Earlier(s, t) == \A i \in DOMAIN s : s[i].time < t

(* u is s and a slice of q at t.                                           *)
Longer(u, s, q, t) ==
  /\ u \in Seq(SliceSet) /\ Numbered(u) /\ Len(u) = Len(s) + 1 /\ SumQ(u) = SumQ(s) + q
  /\ \A i \in DOMAIN s : u[i] = s[i]
  /\ u[Len(s) + 1] = NextSlice(s, q, t) /\ DOMAIN u = DOMAIN s \cup {Len(s) + 1}

(* A later slice at the end keeps the order.                               *)
LEMMA NumberedGrows ==
  ASSUME NEW s \in Seq(SliceSet), Numbered(s), NEW q \in Nat \ {0}, NEW t \in Nat, Earlier(s, t)
  PROVE  Longer(Append(s, NextSlice(s, q, t)), s, q, t)
<1> DEFINE e == NextSlice(s, q, t)
           u == Append(s, e)
<1>1. Len(s) \in Nat /\ DOMAIN s = 1..Len(s)
  BY LenProperties
<1>2. e \in SliceSet /\ e.quantity = q /\ e.time = t /\ e.index = Len(s)
  BY <1>1 DEF SliceSet, NextSlice
<1> HIDE DEF e
<1>3. u \in Seq(SliceSet) /\ Len(u) = Len(s) + 1 /\ u[Len(s) + 1] = e /\ \A i \in 1..Len(s) : u[i] = s[i]
  BY <1>1, <1>2, AppendProperties
<1>4. DOMAIN u = DOMAIN s \cup {Len(s) + 1}
  <2>1. DOMAIN u = 1..(Len(s) + 1)
    BY <1>3, LenProperties
  <2> QED BY <1>1, <2>1
<1>5. SumQ(u) = SumQ(s) + q
  BY <1>2, SumQAppend
<1> HIDE DEF u
<1>6. Numbered(u)
  <2> SUFFICES ASSUME NEW i \in DOMAIN u PROVE u[i].index = i - 1 /\ (i > 1 => u[i - 1].time < u[i].time)
    BY DEF Numbered
  <2>1. CASE i \in DOMAIN s
    <3>1. u[i] = s[i] /\ (i > 1 => u[i - 1] = s[i - 1])
      BY <1>1, <1>3, <2>1
    <3> QED BY <2>1, <3>1 DEF Numbered
  <2>2. CASE i = Len(s) + 1
    <3>1. u[i] = e /\ (i > 1 => u[i - 1] = s[i - 1] /\ i - 1 \in DOMAIN s)
      BY <1>1, <1>3, <2>2
    <3> QED BY <1>1, <1>2, <2>2, <3>1 DEF Earlier
  <2> QED BY <1>4, <2>1, <2>2
<1>7. Longer(u, s, q, t)
  BY <1>1, <1>3, <1>4, <1>5, <1>6 DEF Longer, e
<1> QED BY <1>7 DEF u, e

-----------------------------------------------------------------------------
(* POISSON_TWAP                                                            *)

IsTwap(r) == r \in Requests /\ r.algorithm = "POISSON_TWAP" /\ ValidTwap(r)

LongestGap(r) == Max({MinGap, (MeanGap(r) * (100 + r.timeJitter)) \div 100})

Timely(r, s) == \A i \in DOMAIN s : s[i].time <= (i - 1) * LongestGap(r)

(* What is kept for the bars from b on.                                    *)
Reserve(r, b) == (r.n - b + 1) * MassTolerance

(* bar b is next, x is left, t is the time reached.                        *)
TwapState(r, b, x, t, s) ==
  /\ IsTwap(r) /\ r.n >= 2 /\ b \in 1..r.n
  /\ s \in Seq(SliceSet) /\ Numbered(s) /\ Len(s) = b - 1
  /\ x \in Int /\ x >= Reserve(r, b)
  /\ SumQ(s) + x = r.total
  /\ t \in Nat /\ t <= (b - 1) * LongestGap(r)
  /\ Earlier(s, t) /\ Timely(r, s)

LEMMA Units == MinGap \in Nat \ {0} /\ MassTolerance \in Nat \ {0}
  BY SchedulesAssumption, SMTT(30)

(* What ValidTwap has checked, and the range of the gaps.                  *)
LEMMA TwapTypes ==
  ASSUME NEW r, IsTwap(r)
  PROVE  /\ r.total \in Nat \ {0} /\ r.n \in Nat \ {0} /\ r.horizon \in Nat \ {0}
         /\ r.jitter \in 0..99 /\ r.timeJitter \in 0..99
         /\ MeanGap(r) \in Nat /\ LongestGap(r) \in Nat /\ LongestGap(r) >= MinGap
         /\ MeanGap(r) = IF MinGap >= r.horizon \div r.n THEN MinGap ELSE r.horizon \div r.n
         /\ LongestGap(r) = IF MinGap >= (MeanGap(r) * (100 + r.timeJitter)) \div 100 THEN MinGap
                             ELSE (MeanGap(r) * (100 + r.timeJitter)) \div 100
         /\ \A x \in {-r.timeJitter, 0, r.timeJitter} :
              Max({MinGap, (MeanGap(r) * (100 + x)) \div 100}) \in MinGap..LongestGap(r)
<1>1. /\ r.total \in Nat \ {0} /\ r.n \in Nat \ {0} /\ r.horizon \in Nat \ {0}
      /\ r.jitter \in 0..99 /\ r.timeJitter \in 0..99
  BY SchedulesAssumption DEF IsTwap, ValidTwap, RequestTyped
<1>2. r.horizon \div r.n \in Nat
  BY <1>1, QuotientGrows
<1>3. /\ MeanGap(r) = IF MinGap >= r.horizon \div r.n THEN MinGap ELSE r.horizon \div r.n
      /\ MeanGap(r) \in Nat
  BY <1>2, Units, LargerOfTwo DEF MeanGap
<1> DEFINE g == MeanGap(r)
           j == r.timeJitter
<1>4. g \in Nat /\ j \in 0..99 /\ MinGap \in Nat
  BY <1>1, <1>3, Units
<1> HIDE DEF g, j
<1>5. ASSUME NEW x \in {-j, 0, j}
      PROVE  /\ (g * (100 + x)) \div 100 \in Nat
             /\ (g * (100 + x)) \div 100 <= (g * (100 + j)) \div 100
  <2> DEFINE a == g * (100 + x)
             b == g * (100 + j)
  <2>1. a \in Nat /\ b \in Nat /\ a <= b
    <3>1. 100 + x \in Nat /\ 100 + j \in Nat /\ j - x \in Nat
      BY <1>4
    <3>2. g * (j - x) \in Nat
      BY <1>4, <3>1
    <3>3. g * (100 + j) = g * (100 + x) + g * (j - x)
      BY <1>4, <3>1
    <3> QED BY <1>4, <3>1, <3>2, <3>3
  <2> HIDE DEF a, b
  <2>2. a \div 100 \in Nat /\ a \div 100 <= b \div 100
    BY <2>1, QuotientGrows
  <2> QED BY <2>2 DEF a, b
<1>6. (g * (100 + j)) \div 100 \in Nat
  BY <1>5
<1>7. /\ LongestGap(r) = IF MinGap >= (g * (100 + j)) \div 100 THEN MinGap ELSE (g * (100 + j)) \div 100
      /\ LongestGap(r) \in Nat /\ LongestGap(r) >= MinGap
  BY <1>4, <1>6, LargerOfTwo DEF LongestGap, g, j
<1>8. ASSUME NEW x \in {-j, 0, j} PROVE Max({MinGap, (g * (100 + x)) \div 100}) \in MinGap..LongestGap(r)
  <2> DEFINE d == (g * (100 + x)) \div 100
  <2>1. d \in Nat /\ d <= (g * (100 + j)) \div 100
    BY <1>5
  <2> HIDE DEF d
  <2>2. Max({MinGap, d}) = IF MinGap >= d THEN MinGap ELSE d
    BY <1>4, <2>1, LargerOfTwo
  <2>3. Max({MinGap, d}) \in MinGap..LongestGap(r)
    BY <1>4, <1>6, <1>7, <2>1, <2>2
  <2> QED BY <2>3 DEF d
<1> QED BY <1>1, <1>3, <1>7, <1>8 DEF g, j

(* A slice is not empty and leaves the reserve of the later ones.          *)
LEMMA TwapStep ==
  ASSUME NEW r, NEW b, NEW x, NEW t, NEW s, TwapState(r, b, x, t, s), b < r.n,
         NEW draw \in Int, NEW gap \in MinGap..LongestGap(r),
         NEW q, q = Max({MassTolerance, Min({x - (r.n - b) * MassTolerance, draw})})
  PROVE  /\ q \in Nat \ {0}
         /\ TwapState(r, b + 1, x - q, t + gap, Append(s, NextSlice(s, q, t)))
<1>1. /\ r.n \in Nat /\ b \in 1..r.n /\ LongestGap(r) \in Nat /\ IsTwap(r)
      /\ s \in Seq(SliceSet) /\ Numbered(s) /\ Len(s) = b - 1 /\ x \in Int /\ t \in Nat
      /\ SumQ(s) + x = r.total /\ x >= Reserve(r, b)
  BY TwapTypes DEF TwapState
<1>a. t <= (b - 1) * LongestGap(r) /\ Earlier(s, t) /\ Timely(r, s)
  BY DEF TwapState
<1> DEFINE keep == (r.n - b) * MassTolerance
<1>2. keep \in Nat /\ Reserve(r, b) = keep + MassTolerance /\ Reserve(r, b + 1) = keep
  <2>1. r.n - b \in Nat /\ r.n - (b + 1) + 1 = r.n - b
    BY <1>1
  <2>2. \A m \in Nat : (m + 1) * MassTolerance = m * MassTolerance + MassTolerance
                         /\ m * MassTolerance \in Nat
    BY Units
  <2> QED BY <2>1, <2>2 DEF Reserve
<1> HIDE DEF keep
<1>3. q \in MassTolerance..(x - keep)
  <2> DEFINE l == Min({x - keep, draw})
  <2>1. l \in Int /\ l <= x - keep
    BY <1>1, <1>2, SmallerOfTwo
  <2>2. q = Max({MassTolerance, l})
    BY DEF keep
  <2> HIDE DEF l
  <2>3. q = IF MassTolerance >= l THEN MassTolerance ELSE l
    BY <2>1, <2>2, Units, LargerOfTwo
  <2> QED BY <1>1, <1>2, <2>1, <2>3, Units, SMTT(30)
<1>4. q \in Nat \ {0}
  BY <1>3, Units
<1> DEFINE u == Append(s, NextSlice(s, q, t))
<1>5. /\ u \in Seq(SliceSet) /\ Numbered(u) /\ Len(u) = Len(s) + 1 /\ SumQ(u) = SumQ(s) + q
      /\ (\A i \in DOMAIN s : u[i] = s[i]) /\ u[Len(s) + 1].time = t /\ DOMAIN u = DOMAIN s \cup {Len(s) + 1}
  <2>1. NextSlice(s, q, t).time = t
    BY DEF NextSlice
  <2>2. Longer(u, s, q, t)
    BY <1>1, <1>a, <1>4, NumberedGrows
  <2> HIDE DEF u
  <2> QED BY <2>1, <2>2 DEF Longer
<1> HIDE DEF u
<1>6. t + gap \in Nat /\ t < t + gap /\ t + gap <= b * LongestGap(r)
  <2>1. gap \in Nat \ {0} /\ gap <= LongestGap(r)
    BY <1>1, Units
  <2> DEFINE G == LongestGap(r)
  <2>2. G \in Nat /\ b \in Nat /\ t \in Nat /\ t <= (b - 1) * G /\ gap \in Nat /\ gap <= G
    BY <1>1, <1>a, <2>1
  <2> HIDE DEF G
  <2>3. b * G = (b - 1) * G + G /\ (b - 1) * G \in Int
    BY <2>2
  <2>4. t + gap <= b * G
    BY <2>2, <2>3
  <2> QED BY <1>1, <2>1, <2>4 DEF G
<1>7. Earlier(u, t + gap)
  <2>1. ASSUME NEW i \in DOMAIN s PROVE s[i].time < t /\ s[i].time \in Nat
    <3>1. s[i] \in SliceSet
      BY <1>1
    <3> QED BY <1>a, <3>1 DEF Earlier, SliceSet
  <2>2. gap \in Nat
    BY <1>1, Units
  <2> SUFFICES ASSUME NEW i \in DOMAIN u PROVE u[i].time < t + gap
    BY DEF Earlier
  <2> QED BY <1>1, <1>5, <1>6, <2>1, <2>2, SMTT(30)
<1>8. Timely(r, u)
  <2>1. \A i \in DOMAIN s : u[i].time <= (i - 1) * LongestGap(r)
    BY <1>a, <1>5 DEF Timely
  <2>2. (Len(s) + 1) - 1 = b - 1
    BY <1>1
  <2>3. u[Len(s) + 1].time <= ((Len(s) + 1) - 1) * LongestGap(r)
    BY <1>a, <1>5, <2>2, SMTT(30)
  <2> QED BY <1>5, <2>1, <2>3 DEF Timely
<1>9. x - q \in Int /\ x - q >= keep /\ SumQ(u) + (x - q) = r.total
  <2>1. SumQ(s) \in Int
    BY <1>1, SumQType
  <2> QED BY <1>1, <1>2, <1>3, <1>5, <2>1, SMTT(30)
<1>10. Len(u) = (b + 1) - 1 /\ b + 1 \in 1..r.n /\ (b + 1) - 1 = b /\ r.n >= 2
  <2>1. r.n >= 2
    BY DEF TwapState
  <2> QED BY <1>1, <1>5, <2>1
<1>11. TwapState(r, b + 1, x - q, t + gap, u)
  BY <1>1, <1>2, <1>5, <1>6, <1>7, <1>8, <1>9, <1>10 DEF TwapState
<1> QED BY <1>4, <1>11 DEF u

(* A slice is taken when it has a quantity.                                *)
Taken(s, q, t) == IF q > 0 THEN Append(s, NextSlice(s, q, t)) ELSE s

(* u is s and perhaps a slice of q at t, all before v.                     *)
Kept(u, s, q, t, v) ==
  /\ u \in Seq(SliceSet) /\ Numbered(u) /\ SumQ(u) = SumQ(s) + q /\ Earlier(u, v)
  /\ DOMAIN s = 1..Len(s) /\ Len(s) \in Nat
  /\ \A i \in DOMAIN s : i \in DOMAIN u /\ u[i] = s[i]
  /\ \A i \in DOMAIN u : i \in DOMAIN s \/ (q > 0 /\ i = Len(s) + 1 /\ u[i] = NextSlice(s, q, t))
  /\ q > 0 => Len(s) + 1 \in DOMAIN u /\ Len(s) + 1 \notin DOMAIN s

(* Taking a slice or none keeps the order.                                 *)
LEMMA TakenGrows ==
  ASSUME NEW s \in Seq(SliceSet), Numbered(s), NEW q \in Nat, NEW t \in Nat, Earlier(s, t),
         NEW v \in Nat, t < v
  PROVE  Kept(Taken(s, q, t), s, q, t, v)
<1>0. Len(s) \in Nat /\ DOMAIN s = 1..Len(s)
  BY LenProperties
<1>1. \A i \in DOMAIN s : s[i].time < t /\ s[i].time \in Nat
  <2> SUFFICES ASSUME NEW i \in DOMAIN s PROVE s[i].time < t /\ s[i].time \in Nat
    OBVIOUS
  <2>1. s[i] \in SliceSet
    OBVIOUS
  <2> QED BY <2>1 DEF Earlier, SliceSet
<1>2. CASE q = 0
  <2>1. SumQ(s) + q = SumQ(s)
    BY <1>2, SumQType
  <2>2. \A i \in DOMAIN s : s[i].time < v
    BY <1>1
  <2>3. Kept(s, s, q, t, v)
    BY <1>0, <1>2, <2>1, <2>2 DEF Kept, Earlier
  <2> QED BY <1>2, <2>3 DEF Taken
<1>3. CASE q > 0
  <2> DEFINE e == NextSlice(s, q, t)
             u == Append(s, e)
  <2>1. Longer(u, s, q, t)
    <3>1. q \in Nat \ {0}
      BY <1>3
    <3> QED BY <3>1, NumberedGrows
  <2>2. Taken(s, q, t) = u
    BY <1>3 DEF Taken
  <2>3. e.time = t
    BY DEF NextSlice
  <2> HIDE DEF u
  <2>4. Earlier(u, v)
    <3> SUFFICES ASSUME NEW i \in DOMAIN u PROVE u[i].time < v
      BY DEF Earlier
    <3>1. i \in DOMAIN s \/ i = Len(s) + 1
      BY <2>1 DEF Longer
    <3>2. u[i] = IF i \in DOMAIN s THEN s[i] ELSE e
      BY <2>1, <3>1 DEF Longer
    <3> HIDE DEF e
    <3> QED BY <1>1, <2>3, <3>1, <3>2
  <2>5. Kept(u, s, q, t, v)
    <3>1. /\ u \in Seq(SliceSet) /\ Numbered(u) /\ SumQ(u) = SumQ(s) + q
          /\ (\A i \in DOMAIN s : i \in DOMAIN u /\ u[i] = s[i])
          /\ u[Len(s) + 1] = e /\ DOMAIN u = DOMAIN s \cup {Len(s) + 1}
      BY <2>1 DEF Longer
    <3> HIDE DEF e
    <3> QED BY <1>0, <1>3, <2>4, <3>1 DEF Kept, e
  <2> QED BY <2>2, <2>5
<1> QED BY <1>2, <1>3

-----------------------------------------------------------------------------
(* VOLUME_ADAPTIVE_VWAP without volumes                                    *)
IsVwap(r) == r \in Requests /\ r.algorithm = "VOLUME_ADAPTIVE_VWAP" /\ ValidVwap(r)

(* What ValidVwap has checked.                                             *)
LEMMA VwapTypes ==
  ASSUME NEW r, IsVwap(r)
  PROVE  /\ r.total \in Nat \ {0} /\ r.rate \in 1..100 /\ r.smoothing \in 0..100
         /\ r.curve \in Seq(Int) /\ Len(r.curve) \in Nat \ {0}
         /\ \A k \in DOMAIN r.curve : r.curve[k] >= 0
         /\ TotalScheduled(r.curve) \in Nat \ {0}
         /\ r.expected \in Seq(Int) /\ r.realtime \in Seq(Int)
         /\ BarGap(r) \in Nat \ {0}
<1>1. /\ r.total \in Nat \ {0} /\ r.rate \in 1..100 /\ r.smoothing \in 0..100 /\ r.horizon \in Nat \ {0}
      /\ r.curve \in Seq(Int) /\ Len(r.curve) >= 1 /\ TotalScheduled(r.curve) > 0
      /\ (\A k \in DOMAIN r.curve : r.curve[k] >= 0)
      /\ r.expected \in Seq(Int) /\ r.realtime \in Seq(Int)
  BY SchedulesAssumption, SMTT(30) DEF IsVwap, ValidVwap, RequestTyped
<1>2. Len(r.curve) \in Nat \ {0}
  BY <1>1, LenProperties
<1>3. TotalScheduled(r.curve) \in Nat
  <2>1. 1 \in 1..(Len(r.curve) + 1)
    BY <1>2
  <2> QED BY <1>1, <2>1, AheadShape
<1>4. BarGap(r) \in Nat \ {0}
  <2> DEFINE d == r.horizon \div Len(r.curve)
  <2>1. d \in Nat
    BY <1>1, <1>2, QuotientGrows
  <2> HIDE DEF d
  <2>2. Max({MinGap, d}) = IF MinGap >= d THEN MinGap ELSE d
    BY <2>1, Units, LargerOfTwo
  <2>3. Max({MinGap, d}) \in Nat \ {0}
    BY <2>1, <2>2, Units
  <2> QED BY <2>3 DEF d, BarGap
<1> QED BY <1>1, <1>2, <1>3, <1>4

(* The time of bar b.                                                      *)
BarTime(r, b) == (b - 1) * BarGap(r)

(* The bars follow each other, and a time tells its bar.                   *)
LEMMA BarTimes ==
  ASSUME NEW r, BarGap(r) \in Nat \ {0}, NEW b \in Nat \ {0}
  PROVE  /\ BarTime(r, b) \in Nat /\ BarTime(r, b + 1) \in Nat /\ BarTime(r, b) < BarTime(r, b + 1)
         /\ BarTime(r, b) \div BarGap(r) = b - 1
<1> DEFINE g == BarGap(r)
           c == b - 1
<1>1. g \in Nat \ {0} /\ c \in Nat /\ (b + 1) - 1 = c + 1
  OBVIOUS
<1> HIDE DEF g, c
<1>2. c * g \in Nat /\ (c + 1) * g = c * g + g /\ (c * g) \div g = c
  BY <1>1
<1>3. BarTime(r, b) = c * g /\ BarTime(r, b + 1) = (c + 1) * g
  BY <1>1 DEF BarTime, g, c
<1>4. c * g + g \in Nat /\ c * g < c * g + g
  BY <1>1, <1>2
<1> QED BY <1>2, <1>3, <1>4 DEF g, c

(* What is left covers the share of the bars to come.                      *)
Covers(r, b, x) == x * TotalScheduled(r.curve) >= r.total * Ahead(r.curve, b)

VwapState(r, b, x, s) ==
  /\ IsVwap(r) /\ r.expected = <<>> /\ b \in 1..Len(r.curve)
  /\ s \in Seq(SliceSet) /\ Numbered(s) /\ Earlier(s, BarTime(r, b))
  /\ x \in Int /\ SumQ(s) + x = r.total
  /\ Covers(r, b, x)

(* What covers a share is not negative.                                    *)
LEMMA CoversPositive ==
  ASSUME NEW r, IsVwap(r), NEW b \in 1..Len(r.curve), NEW x \in Int, Covers(r, b, x)
  PROVE  x \in Nat
<1> DEFINE w == TotalScheduled(r.curve)
           a == Ahead(r.curve, b)
           y == r.total
<1>1. w \in Nat \ {0} /\ a \in Nat /\ y \in Nat /\ x * w >= y * a
  <2>1. b \in 1..(Len(r.curve) + 1)
    BY VwapTypes
  <2> QED BY <2>1, VwapTypes, AheadShape DEF Covers
<1> HIDE DEF w, a, y
<1>2. y * a \in Nat
  BY <1>1
<1>3. x * w >= 0
  <2>1. x * w \in Int
    BY <1>1
  <2> QED BY <1>1, <1>2, <2>1
<1> QED BY <1>1, <1>3

(* A bar takes its share rounded down, so what is left covers the others.  *)
LEMMA VwapStep ==
  ASSUME NEW r, NEW b, NEW x, NEW s, VwapState(r, b, x, s), b < Len(r.curve),
         NEW q, q = (r.total * r.curve[b]) \div TotalScheduled(r.curve)
  PROVE  q \in Nat /\ VwapState(r, b + 1, x - q, Taken(s, q, BarTime(r, b)))
<1>1. /\ IsVwap(r) /\ r.expected = <<>> /\ b \in 1..Len(r.curve)
      /\ s \in Seq(SliceSet) /\ Numbered(s) /\ Earlier(s, BarTime(r, b))
      /\ x \in Int /\ SumQ(s) + x = r.total /\ Covers(r, b, x)
  BY DEF VwapState
<1> DEFINE w == TotalScheduled(r.curve)
           y == r.total
           c == r.curve[b]
           a == Ahead(r.curve, b + 1)
<1>2. /\ w \in Nat \ {0} /\ y \in Nat /\ c \in Nat /\ a \in Nat /\ Len(r.curve) \in Nat
      /\ Ahead(r.curve, b) = c + a
  <2>1. b + 1 \in 1..(Len(r.curve) + 1)
    BY <1>1, VwapTypes, SMTT(30)
  <2> QED BY <1>1, <2>1, VwapTypes, AheadShape
<1>3. x * w >= y * (c + a) /\ q = (y * c) \div w
  BY <1>1, <1>2 DEF Covers
<1> HIDE DEF w, y, c, a
<1>4. q \in Nat /\ q * w <= y * c
  <2> DEFINE m == y * c
  <2>1. m \in Nat
    BY <1>2
  <2> HIDE DEF m
  <2>2. m \div w \in Nat
    BY <1>2, <2>1, QuotientGrows
  <2>3. m = w * (m \div w) + (m % w) /\ m % w \in 0..(w - 1)
    BY <1>2, <2>1
  <2>4. (m \div w) * w <= m
    BY <1>2, <2>1, <2>2, <2>3
  <2> QED BY <1>3, <2>2, <2>4 DEF m
<1>5. (x - q) * w >= y * a
  <2>1. (x - q) * w = x * w - q * w /\ y * (c + a) = y * c + y * a
    BY <1>1, <1>2, <1>4
  <2>2. x * w \in Int /\ q * w \in Int /\ y * c \in Int /\ y * a \in Int
    BY <1>1, <1>2, <1>4
  <2> QED BY <1>3, <1>4, <2>1, <2>2
<1>6. /\ BarTime(r, b) \in Nat /\ BarTime(r, b + 1) \in Nat /\ BarTime(r, b) < BarTime(r, b + 1)
      /\ b \in Nat \ {0}
  <2>1. b \in Nat \ {0}
    BY <1>1, <1>2
  <2> QED BY <1>1, <2>1, BarTimes, VwapTypes
<1>7. /\ Taken(s, q, BarTime(r, b)) \in Seq(SliceSet) /\ Numbered(Taken(s, q, BarTime(r, b)))
      /\ SumQ(Taken(s, q, BarTime(r, b))) = SumQ(s) + q
      /\ Earlier(Taken(s, q, BarTime(r, b)), BarTime(r, b + 1))
  <2>1. Kept(Taken(s, q, BarTime(r, b)), s, q, BarTime(r, b), BarTime(r, b + 1))
    BY <1>1, <1>4, <1>6, TakenGrows
  <2> QED BY <2>1 DEF Kept
<1>8. x - q \in Int /\ (SumQ(s) + q) + (x - q) = r.total /\ b + 1 \in 1..Len(r.curve)
  <2>1. SumQ(s) \in Int /\ q \in Int
    BY <1>1, <1>4, SumQType
  <2>2. x - q \in Int /\ (SumQ(s) + q) + (x - q) = SumQ(s) + x
    BY <1>1, <2>1
  <2>3. b + 1 \in 1..Len(r.curve)
    BY <1>1, <1>2
  <2> QED BY <1>1, <2>2, <2>3
<1>9. Covers(r, b + 1, x - q)
  BY <1>5 DEF Covers, w, y, a
<1> QED BY <1>1, <1>4, <1>7, <1>8, <1>9 DEF VwapState

(* The last bar takes what is left.                                        *)
LEMMA VwapEnd ==
  ASSUME NEW r, NEW b, NEW x, NEW s, VwapState(r, b, x, s)
  PROVE  /\ x \in Nat
         /\ Taken(s, x, BarTime(r, b)) \in Seq(SliceSet) /\ Numbered(Taken(s, x, BarTime(r, b)))
         /\ SumQ(Taken(s, x, BarTime(r, b))) = r.total
         /\ Taken(s, x, BarTime(r, b)) # <<>>
<1>1. /\ IsVwap(r) /\ b \in 1..Len(r.curve)
      /\ s \in Seq(SliceSet) /\ Numbered(s) /\ Earlier(s, BarTime(r, b))
      /\ x \in Int /\ SumQ(s) + x = r.total /\ Covers(r, b, x)
  BY DEF VwapState
<1>2. x \in Nat
  BY <1>1, CoversPositive
<1>3. b \in Nat \ {0} /\ BarGap(r) \in Nat \ {0} /\ r.total \in Nat \ {0}
  BY <1>1, VwapTypes
<1>4. BarTime(r, b) \in Nat /\ BarTime(r, b + 1) \in Nat /\ BarTime(r, b) < BarTime(r, b + 1)
  BY <1>3, BarTimes
<1>5. /\ Taken(s, x, BarTime(r, b)) \in Seq(SliceSet) /\ Numbered(Taken(s, x, BarTime(r, b)))
      /\ SumQ(Taken(s, x, BarTime(r, b))) = SumQ(s) + x
  <2>1. Kept(Taken(s, x, BarTime(r, b)), s, x, BarTime(r, b), BarTime(r, b + 1))
    BY <1>1, <1>2, <1>4, TakenGrows
  <2> QED BY <2>1 DEF Kept
<1> QED BY <1>1, <1>2, <1>3, <1>5, SumQEmpty

-----------------------------------------------------------------------------
(* ARRIVAL_PRICE                                                           *)
IsArrival(r) == r \in Requests /\ r.algorithm = "ARRIVAL_PRICE" /\ ValidArrival(r)

ArrivalState(r, b, x, l, t, s) ==
  /\ IsArrival(r) /\ b \in 1..(r.n + 1)
  /\ s \in Seq(SliceSet) /\ Numbered(s)
  /\ t \in Nat /\ Earlier(s, t + 1)
  /\ x \in Nat /\ l = x /\ SumQ(s) + x = r.total
  /\ b = r.n + 1 => x = 0

(* The time of a slice of bar b after a slice at t.                        *)
LaterTime(r, b, t, s) ==
  IF s # <<>> THEN Max({t + 1, ((b - 1) * r.horizon) \div r.n}) ELSE ((b - 1) * r.horizon) \div r.n

(* What ValidArrival has checked.                                          *)
LEMMA ArrivalTypes ==
  ASSUME NEW r, IsArrival(r)
  PROVE  r.total \in Nat \ {0} /\ r.n \in Nat \ {0} /\ r.horizon \in Nat \ {0}
  BY SchedulesAssumption DEF IsArrival, ValidArrival, RequestTyped

(* A bar takes what the curve falls, and the last bar the rest.            *)
LEMMA ArrivalStep ==
  ASSUME NEW r, NEW b, NEW x, NEW l, NEW t, NEW s, ArrivalState(r, b, x, l, t, s),
         b <= r.n, x > 0, NEW raw \in Int,
         NEW m, m = IF b = r.n THEN 0 ELSE Max({0, Min({l, raw})}),
         NEW q, q = IF b = r.n \/ l - m >= x THEN x ELSE l - m
  PROVE  /\ q \in Nat
         /\ ArrivalState(r, b + 1, x - q, m,
              IF q > 0 THEN LaterTime(r, b, t, s) ELSE t, Taken(s, q, LaterTime(r, b, t, s)))
<1>1. /\ IsArrival(r) /\ b \in 1..(r.n + 1) /\ s \in Seq(SliceSet) /\ Numbered(s)
      /\ t \in Nat /\ Earlier(s, t + 1) /\ x \in Nat /\ l = x /\ SumQ(s) + x = r.total
  BY DEF ArrivalState
<1>2. r.n \in Nat \ {0} /\ r.horizon \in Nat \ {0} /\ b \in 1..r.n
  BY <1>1, ArrivalTypes
<1>3. m \in 0..x
  <2> DEFINE d == Min({l, raw})
  <2>1. d \in Int /\ d <= x
    BY <1>1, SmallerOfTwo
  <2> HIDE DEF d
  <2>2. Max({0, d}) = IF 0 >= d THEN 0 ELSE d
    BY <2>1, LargerOfTwo
  <2> QED BY <1>1, <2>1, <2>2 DEF d
<1>4. q \in Nat /\ x - q \in Nat /\ m = x - q /\ (b = r.n => x - q = 0)
  BY <1>1, <1>2, <1>3
<1> DEFINE v == LaterTime(r, b, t, s)
<1>5. v \in Nat /\ Earlier(s, v) /\ v < v + 1
  <2> DEFINE y == (b - 1) * r.horizon
             z == y \div r.n
  <2>1. y \in Nat
    BY <1>2
  <2> HIDE DEF y
  <2>2. z \in Nat
    BY <1>2, <2>1, QuotientGrows
  <2> HIDE DEF z
  <2>3. v = IF s # <<>> THEN Max({t + 1, z}) ELSE z
    BY DEF LaterTime, z, y
  <2>4. Max({t + 1, z}) = IF t + 1 >= z THEN t + 1 ELSE z
    <3>1. t + 1 \in Int /\ z \in Int
      BY <1>1, <2>2
    <3> QED BY <3>1, LargerOfTwo
  <2>5. v \in Nat /\ (s # <<>> => t + 1 <= v)
    BY <1>1, <2>2, <2>3, <2>4
  <2> HIDE DEF v
  <2>6. ASSUME NEW i \in DOMAIN s PROVE s[i].time < v
    <3>1. s # <<>> /\ s[i] \in SliceSet /\ s[i].time < t + 1
      BY <1>1 DEF Earlier
    <3>2. s[i].time \in Nat
      BY <3>1 DEF SliceSet
    <3> QED BY <1>1, <2>5, <3>1, <3>2
  <2> QED BY <2>5, <2>6 DEF Earlier
<1> HIDE DEF v
<1>6. /\ Taken(s, q, v) \in Seq(SliceSet) /\ Numbered(Taken(s, q, v))
      /\ SumQ(Taken(s, q, v)) = SumQ(s) + q /\ Earlier(Taken(s, q, v), v + 1)
  <2>1. Kept(Taken(s, q, v), s, q, v, v + 1)
    BY <1>1, <1>4, <1>5, TakenGrows
  <2> QED BY <2>1 DEF Kept
<1>7. Earlier(Taken(s, q, v), (IF q > 0 THEN v ELSE t) + 1) /\ (IF q > 0 THEN v ELSE t) \in Nat
  BY <1>1, <1>4, <1>5, <1>6 DEF Taken
<1>8. SumQ(Taken(s, q, v)) + (x - q) = r.total
  <2>1. SumQ(s) \in Int
    BY <1>1, SumQType
  <2> QED BY <1>1, <1>4, <1>6, <2>1
<1>9. b + 1 \in 1..(r.n + 1) /\ (b + 1 = r.n + 1 => x - q = 0)
  BY <1>2, <1>4
<1> QED BY <1>1, <1>4, <1>6, <1>7, <1>8, <1>9 DEF ArrivalState, v

(* VOLUME_ADAPTIVE_VWAP with volumes                                       *)
Constrained(r) == IsVwap(r) /\ r.expected # <<>> /\ ValidVolumes(r)

BlendOf(r, k) ==
  IF r.realtime = <<>> THEN r.expected[k]
  ELSE (r.smoothing * r.expected[k] + (100 - r.smoothing) * r.realtime[k]) \div 100

CapOf(r, k) == (r.rate * BlendOf(r, k)) \div 100

(* What bar k takes of x.                                                  *)
TakeOf(r, x, k) ==
  IF Ahead(r.curve, k) > 0 /\ x > 0
  THEN Min({(x * r.curve[k]) \div Ahead(r.curve, k), CapOf(r, k)}) ELSE 0

LastBar(r) == Max({k \in DOMAIN r.curve : r.curve[k] > 0})

(* There is a last bar that has weight.                                    *)
LEMMA LastBarIs ==
  ASSUME NEW r, IsVwap(r)
  PROVE  /\ LastBar(r) \in 1..Len(r.curve)
         /\ r.curve[LastBar(r)] > 0
         /\ \A k \in (LastBar(r) + 1)..Len(r.curve) : r.curve[k] = 0
<1>1. /\ r.curve \in Seq(Int) /\ (\A k \in DOMAIN r.curve : r.curve[k] >= 0)
      /\ TotalScheduled(r.curve) > 0
  BY VwapTypes
<1>2. /\ Len(r.curve) \in Nat /\ DOMAIN r.curve = 1..Len(r.curve)
      /\ (\A k \in 1..Len(r.curve) : r.curve[k] \in Nat)
      /\ \E k \in 1..Len(r.curve) : r.curve[k] > 0
  BY <1>1, AheadShape
<1> DEFINE W == {k \in DOMAIN r.curve : r.curve[k] > 0}
<1>3. W \in SUBSET (1..Len(r.curve)) /\ W # {}
  BY <1>2
<1>4. \A k \in 1..Len(r.curve) : k \notin W => r.curve[k] = 0
  BY <1>2
<1> HIDE DEF W
<1>5. Max(W) \in W /\ \A k \in W : k <= Max(W)
  BY <1>2, <1>3, GreatestOf
<1>6. Max(W) \in 1..Len(r.curve)
  BY <1>3, <1>5
<1>7. ASSUME NEW k \in (Max(W) + 1)..Len(r.curve) PROVE r.curve[k] = 0
  <2>1. k \in 1..Len(r.curve) /\ ~ (k <= Max(W))
    BY <1>2, <1>6
  <2> QED BY <1>4, <1>5, <2>1
<1>8. r.curve[Max(W)] > 0
  BY <1>5 DEF W
<1> QED BY <1>6, <1>7, <1>8 DEF LastBar, W

(* A product of naturals is one.                                           *)
LEMMA Product == ASSUME NEW m \in Nat, NEW n \in Nat PROVE m * n \in Nat
  OBVIOUS

(* A cap is a natural number.                                              *)
LEMMA CapType ==
  ASSUME NEW r, Constrained(r), NEW k \in 1..Len(r.curve)
  PROVE  CapOf(r, k) \in Nat
<1>1. /\ r.rate \in 1..100 /\ r.smoothing \in 0..100
      /\ r.expected \in Seq(Int) /\ r.realtime \in Seq(Int)
  BY VwapTypes DEF Constrained
<1>a. r.rate \in Nat /\ r.smoothing \in Nat /\ 100 - r.smoothing \in Nat
  <2>1. \A x \in 0..100 : x \in Nat /\ 100 - x \in Nat
    OBVIOUS
  <2>2. \A x \in 1..100 : x \in Nat
    OBVIOUS
  <2> QED BY <1>1, <2>1, <2>2
<1>2. /\ Len(r.expected) = Len(r.curve) /\ (\A j \in DOMAIN r.expected : r.expected[j] >= 0)
      /\ r.realtime # <<>> =>
           Len(r.realtime) = Len(r.curve) /\ \A j \in DOMAIN r.realtime : r.realtime[j] >= 0
  BY DEF Constrained, ValidVolumes
<1>3. DOMAIN r.expected = 1..Len(r.expected) /\ \A j \in DOMAIN r.expected : r.expected[j] \in Int
  BY <1>1, LenProperties
<1>4. DOMAIN r.realtime = 1..Len(r.realtime) /\ \A j \in DOMAIN r.realtime : r.realtime[j] \in Int
  BY <1>1, LenProperties
<1>5. r.expected[k] \in Nat
  BY <1>2, <1>3
<1>6. r.realtime # <<>> => r.realtime[k] \in Nat
  BY <1>2, <1>4
<1>7. BlendOf(r, k) \in Nat
  <2>1. CASE r.realtime = <<>>
    BY <1>5, <2>1 DEF BlendOf
  <2>2. CASE r.realtime # <<>>
    <3> DEFINE a == r.smoothing * r.expected[k]
               b == (100 - r.smoothing) * r.realtime[k]
    <3>1. a \in Nat /\ b \in Nat
      <4> HIDE DEF a, b
      <4>1. r.smoothing * r.expected[k] \in Nat
        BY <1>5, <1>a, Product
      <4>2. (100 - r.smoothing) * r.realtime[k] \in Nat
        BY <1>6, <1>a, <2>2, Product
      <4> QED BY <4>1, <4>2 DEF a, b
    <3> HIDE DEF a, b
    <3>2. (a + b) \div 100 \in Nat
      BY <3>1, QuotientGrows
    <3> QED BY <2>2, <3>2 DEF BlendOf, a, b
  <2> QED BY <2>1, <2>2
<1> DEFINE c == r.rate * BlendOf(r, k)
<1>8. c \in Nat
  BY <1>7, <1>a, Product
<1> HIDE DEF c
<1>9. c \div 100 \in Nat
  BY <1>8, QuotientGrows
<1> QED BY <1>9 DEF CapOf, c

(* A bar takes no more than is left or than its cap; the last bar with     *)
(* weight takes all of one.                                                *)
LEMMA TakeShape ==
  ASSUME NEW r, Constrained(r), NEW k \in 1..Len(r.curve), NEW x \in Nat
  PROVE  /\ TakeOf(r, x, k) \in Nat /\ TakeOf(r, x, k) <= x
         /\ TakeOf(r, x, k) <= CapOf(r, k) /\ CapOf(r, k) \in Nat
         /\ k = LastBar(r) => TakeOf(r, x, k) = x \/ TakeOf(r, x, k) = CapOf(r, k)
         /\ k > LastBar(r) => TakeOf(r, x, k) = 0
<1> DEFINE c == r.curve[k]
           a == Ahead(r.curve, k + 1)
           m == CapOf(r, k)
           d == (x * c) \div (c + a)
           l == LastBar(r)
<1>0. IsVwap(r) /\ m \in Nat
  BY CapType DEF Constrained
<1>1. /\ r.curve \in Seq(Int) /\ (\A j \in DOMAIN r.curve : r.curve[j] >= 0)
      /\ Len(r.curve) \in Nat /\ k + 1 \in 1..(Len(r.curve) + 1)
  BY <1>0, VwapTypes
<1>2. /\ c \in Nat /\ a \in Nat /\ Ahead(r.curve, k) = c + a
      /\ (\A j \in (k + 1)..Len(r.curve) : r.curve[j] = 0) => a = 0
  BY <1>1, AheadShape
<1>3. l \in 1..Len(r.curve) /\ \A j \in (l + 1)..Len(r.curve) : r.curve[j] = 0
  BY <1>0, LastBarIs
<1>4. k >= l => a = 0
  <2> SUFFICES ASSUME k >= l PROVE a = 0
    OBVIOUS
  <2>1. \A j \in (k + 1)..Len(r.curve) : j \in (l + 1)..Len(r.curve)
    BY <1>1, <1>3
  <2> QED BY <1>2, <1>3, <2>1
<1>5. k > l => c = 0
  BY <1>1, <1>3
<1>6. TakeOf(r, x, k) = IF c + a > 0 /\ x > 0 THEN Min({d, m}) ELSE 0
  BY <1>2 DEF TakeOf
<1>8. l \in Nat /\ k \in Nat
  BY <1>1, <1>3
<1>9. k = l => c > 0
  BY <1>0, LastBarIs
<1> HIDE DEF c, a, m, l
<1>7. (c + a > 0 => d \in Nat /\ d <= x) /\ (c > 0 /\ a = 0 => d = x)
  <2> DEFINE y == x * c
             w == c + a
  <2>1. y \in Nat /\ w \in Nat /\ y <= x * w
    <3>1. x * c \in Nat /\ x * a \in Nat /\ x * (c + a) = x * c + x * a
      BY <1>2
    <3> QED BY <1>2, <3>1
  <2>2. a = 0 => y = x * w
    BY <1>2
  <2> HIDE DEF y, w
  <2>3. ASSUME w > 0 PROVE y \div w \in Nat /\ y \div w <= x /\ (y = x * w => y \div w = x)
    <3>1. w \in Nat \ {0} /\ x * w \in Nat
      BY <2>1, <2>3
    <3>2. (x * w) \div w = x
      BY <3>1
    <3>3. y \div w \in Nat /\ y \div w <= (x * w) \div w
      BY <2>1, <3>1, QuotientGrows
    <3> QED BY <3>2, <3>3
  <2> QED BY <1>2, <2>2, <2>3 DEF y, w
<1> HIDE DEF d
<1>10. c + a > 0 => Min({d, m}) = IF d <= m THEN d ELSE m
  <2> SUFFICES ASSUME c + a > 0 PROVE Min({d, m}) = IF d <= m THEN d ELSE m
    OBVIOUS
  <2>1. d \in Int /\ m \in Int
    BY <1>0, <1>7
  <2> QED BY <2>1, SmallerOfTwo
<1> DEFINE q == TakeOf(r, x, k)
<1> HIDE DEF q
<1>11. q = IF c + a > 0 /\ x > 0 THEN (IF d <= m THEN d ELSE m) ELSE 0
  BY <1>6, <1>10 DEF q
<1>12. /\ q \in Nat /\ q <= x /\ q <= m
       /\ k = l => q = x \/ q = m
       /\ k > l => q = 0
  BY <1>0, <1>2, <1>4, <1>5, <1>7, <1>8, <1>9, <1>11
<1> QED BY <1>0, <1>12 DEF q, l, m

-----------------------------------------------------------------------------
(* The quantity that a list has in bar k.                                  *)
OfBar(r, s, k) == {i \in DOMAIN s : s[i].time = BarTime(r, k)}
InBar(r, s, k) == SumOver(Quantities(s), OfBar(r, s, k))

(* Each slice is of one bar and within the participation there.            *)
InParticipation(r, s) ==
  \A i \in DOMAIN s : \E k \in 1..Len(r.curve) : s[i].time = BarTime(r, k) /\ s[i].quantity <= CapOf(r, k)

CappedState(r, b, x, s) ==
  /\ Constrained(r) /\ b \in 1..(Len(r.curve) + 1)
  /\ s \in Seq(SliceSet) /\ Numbered(s) /\ Earlier(s, BarTime(r, b))
  /\ x \in Nat /\ SumQ(s) + x = r.total
  /\ InParticipation(r, s)
  /\ s = <<>> => x = r.total /\ \A k \in 1..Len(r.curve) : k < b => TakeOf(r, r.total, k) = 0
  /\ b > LastBar(r) => x = 0 \/ InBar(r, s, LastBar(r)) = CapOf(r, LastBar(r))

(* Nothing is in a bar that has not begun.                                 *)
LEMMA InBarEmpty ==
  ASSUME NEW r, NEW s, NEW k, Earlier(s, BarTime(r, k)), BarTime(r, k) \in Int
  PROVE  InBar(r, s, k) = 0
<1>1. OfBar(r, s, k) = {}
  BY DEF OfBar, Earlier
<1> QED BY <1>1, SumEmpty DEF InBar

(* A bar holds the slice it took.                                          *)
LEMMA InBarNew ==
  ASSUME NEW r, NEW k, NEW s \in Seq(SliceSet), Numbered(s), NEW q \in Nat,
         Earlier(s, BarTime(r, k)), BarTime(r, k) \in Nat,
         NEW v \in Nat, BarTime(r, k) < v
  PROVE  InBar(r, Taken(s, q, BarTime(r, k)), k) = q
<1> DEFINE t == BarTime(r, k)
           u == Taken(s, q, t)
<1>1. /\ u \in Seq(SliceSet) /\ \A i \in DOMAIN s : u[i] = s[i]
      /\ \A i \in DOMAIN u : i \in DOMAIN s \/ (q > 0 /\ i = Len(s) + 1 /\ u[i] = NextSlice(s, q, t))
      /\ q > 0 => Len(s) + 1 \in DOMAIN u /\ Len(s) + 1 \notin DOMAIN s
  <2>1. Kept(u, s, q, t, v)
    BY TakenGrows
  <2> HIDE DEF u, t
  <2> QED BY <2>1 DEF Kept
<1>2. CASE q = 0
  BY <1>2, InBarEmpty DEF Taken
<1>3. CASE q > 0
  <2> DEFINE n == Len(s) + 1
  <2>1. u[n] = NextSlice(s, q, t) /\ n \in DOMAIN u
    BY <1>1, <1>3
  <2>2. u[n].time = t /\ u[n].quantity = q
    BY <2>1 DEF NextSlice
  <2>3. ASSUME NEW i \in DOMAIN s PROVE u[i].time # t
    <3>1. u[i] = s[i] /\ s[i] \in SliceSet /\ s[i].time < t
      BY <1>1 DEF Earlier
    <3>2. s[i].time \in Nat
      BY <3>1 DEF SliceSet
    <3> QED BY <3>1, <3>2
  <2>4. OfBar(r, u, k) = {n}
    <3>1. \A i \in DOMAIN u : i \in DOMAIN s \/ i = n
      BY <1>1
    <3> HIDE DEF u, n
    <3>2. {i \in DOMAIN u : u[i].time = t} = {n}
      BY <1>1, <2>1, <2>2, <2>3, <3>1
    <3> QED BY <3>2 DEF OfBar
  <2>5. Quantities(u)[n] = q
    BY <2>1, <2>2 DEF Quantities
  <2> HIDE DEF u, n
  <2> DEFINE f == Quantities(u)
  <2> HIDE DEF f
  <2>6. SumOver(f, {n}) = q
    <3>1. f[n] = q /\ f[n] \in Int
      BY <2>5 DEF f
    <3>2. SumOver(f, {n}) = f[n]
      BY <3>1, SumOne
    <3> QED BY <3>1, <3>2
  <2>7. InBar(r, u, k) = q
    BY <2>4, <2>6 DEF InBar, f
  <2> QED BY <2>7 DEF u
<1> QED BY <1>2, <1>3

(* A bar keeps to its cap, and the last one with weight is cut by it or    *)
(* takes all.                                                              *)
LEMMA CappedStep ==
  ASSUME NEW r, NEW b, NEW x, NEW s, CappedState(r, b, x, s), b <= Len(r.curve),
         NEW q, q = TakeOf(r, x, b)
  PROVE  q \in Nat /\ CappedState(r, b + 1, x - q, Taken(s, q, BarTime(r, b)))
<1>1. /\ Constrained(r) /\ b \in 1..(Len(r.curve) + 1)
      /\ s \in Seq(SliceSet) /\ Numbered(s) /\ Earlier(s, BarTime(r, b))
      /\ x \in Nat /\ SumQ(s) + x = r.total /\ InParticipation(r, s)
  BY DEF CappedState
<1>2. /\ s = <<>> => x = r.total /\ \A k \in 1..Len(r.curve) : k < b => TakeOf(r, r.total, k) = 0
      /\ b > LastBar(r) => x = 0 \/ InBar(r, s, LastBar(r)) = CapOf(r, LastBar(r))
  BY DEF CappedState
<1>3. /\ BarGap(r) \in Nat \ {0} /\ Len(r.curve) \in Nat /\ LastBar(r) \in 1..Len(r.curve)
  BY <1>1, VwapTypes, LastBarIs DEF Constrained
<1>4. b \in 1..Len(r.curve) /\ b \in Nat \ {0} /\ b + 1 \in 1..(Len(r.curve) + 1)
  BY <1>1, <1>3
<1>5. /\ q \in Nat /\ q <= x /\ q <= CapOf(r, b) /\ CapOf(r, b) \in Nat
      /\ b = LastBar(r) => q = x \/ q = CapOf(r, b)
      /\ b > LastBar(r) => q = 0
  BY <1>1, <1>4, TakeShape
<1> DEFINE t == BarTime(r, b)
           v == BarTime(r, b + 1)
           u == Taken(s, q, t)
<1>6. t \in Nat /\ v \in Nat /\ t < v
  BY <1>3, <1>4, BarTimes
<1>7. /\ u \in Seq(SliceSet) /\ Numbered(u) /\ SumQ(u) = SumQ(s) + q /\ Earlier(u, v)
      /\ \A i \in DOMAIN s : u[i] = s[i]
      /\ \A i \in DOMAIN u : i \in DOMAIN s \/ (q > 0 /\ u[i] = NextSlice(s, q, t))
  <2> HIDE DEF t, v, u
  <2>1. s \in Seq(SliceSet) /\ Numbered(s) /\ Earlier(s, t) /\ q \in Nat /\ t \in Nat /\ v \in Nat /\ t < v
    BY <1>1, <1>5, <1>6 DEF t
  <2>2. Kept(u, s, q, t, v)
    BY <2>1, TakenGrows DEF u
  <2> QED BY <2>2 DEF Kept
<1>8. x - q \in Nat /\ SumQ(u) + (x - q) = r.total
  <2>1. SumQ(s) \in Int
    BY <1>1, SumQType
  <2> HIDE DEF u
  <2> QED BY <1>1, <1>5, <1>7, <2>1, SMTT(30)
<1>9. InParticipation(r, u)
  <2> SUFFICES ASSUME NEW i \in DOMAIN u
               PROVE  \E k \in 1..Len(r.curve) : u[i].time = BarTime(r, k) /\ u[i].quantity <= CapOf(r, k)
    BY DEF InParticipation
  <2> HIDE DEF u
  <2>1. CASE i \in DOMAIN s
    BY <1>1, <1>7, <2>1 DEF InParticipation
  <2>2. CASE i \notin DOMAIN s
    <3>1. u[i].time = t /\ u[i].quantity = q
      BY <1>7, <2>2 DEF NextSlice
    <3> QED BY <1>4, <1>5, <3>1
  <2> QED BY <2>1, <2>2
<1>10. q > 0 => u # <<>>
  <2>1. q > 0 => Append(s, NextSlice(s, q, t)) # <<>>
    BY <1>1
  <2> QED BY <2>1 DEF Taken
<1>11. u = <<>> => x - q = r.total /\ \A k \in 1..Len(r.curve) : k < b + 1 => TakeOf(r, r.total, k) = 0
  <2> SUFFICES ASSUME u = <<>>
               PROVE  x - q = r.total /\ \A k \in 1..Len(r.curve) : k < b + 1 => TakeOf(r, r.total, k) = 0
    OBVIOUS
  <2>1. q = 0 /\ s = <<>>
    <3>1. q = 0
      BY <1>5, <1>10
    <3> QED BY <3>1 DEF Taken
  <2>2. x = r.total /\ x - q = x
    BY <1>1, <1>2, <2>1
  <2>3. ASSUME NEW k \in 1..Len(r.curve), k < b + 1 PROVE TakeOf(r, r.total, k) = 0
    <3>1. k < b \/ k = b
      BY <1>4, <2>3
    <3> QED BY <1>2, <2>1, <2>2, <3>1
  <2> QED BY <2>2, <2>3
<1>12. b + 1 > LastBar(r) => x - q = 0 \/ InBar(r, u, LastBar(r)) = CapOf(r, LastBar(r))
  <2>1. CASE b = LastBar(r)
    <3>1. InBar(r, u, b) = q
      BY <1>1, <1>5, <1>6, InBarNew
    <3> HIDE DEF u
    <3> QED BY <1>1, <1>5, <2>1, <3>1
  <2>2. CASE b > LastBar(r)
    <3>1. q = 0 /\ u = s /\ x - q = x
      BY <1>1, <1>5, <2>2 DEF Taken
    <3> QED BY <1>2, <2>2, <3>1
  <2> QED BY <1>3, <1>4, <2>1, <2>2
<1> HIDE DEF u, v
<1>13. CappedState(r, b + 1, x - q, u)
  BY <1>1, <1>4, <1>7, <1>8, <1>9, <1>11, <1>12 DEF CappedState, v
<1> QED BY <1>5, <1>13 DEF u

-----------------------------------------------------------------------------
(* A TWAP keeps clear of its horizon.                                      *)
Clear(r) == r.horizon >= MinGap * r.n /\ (r.n - 1) * (100 + r.timeJitter) <= 100 * r.n

(* The gaps stretched by the jitter still fit the horizon.                 *)
LEMMA ClearArithmetic ==
  ASSUME NEW g \in Nat, NEW h \in Nat, NEW m \in Nat, NEW n \in Nat \ {0}, NEW j \in Nat, NEW d \in Nat,
         h >= m * n, (n - 1) * (100 + j) <= 100 * n, g * n <= h,
         d = m \/ 100 * d <= g * (100 + j)
  PROVE  (n - 1) * d <= h
<1> DEFINE k == n - 1
<1>0. k \in Nat /\ n = k + 1
  OBVIOUS
<1> HIDE DEF k
<1>1. CASE d = m
  <2>1. m * n = k * m + m /\ k * m \in Nat
    BY <1>0
  <2> QED BY <1>0, <1>1, <2>1 DEF k
<1>2. CASE 100 * d <= g * (100 + j)
  <2>1. k * (100 * d) <= k * (g * (100 + j))
    <3> DEFINE a == 100 * d
               b == g * (100 + j)
    <3>1. a \in Nat /\ b \in Nat /\ a <= b
      BY <1>2
    <3> HIDE DEF a, b
    <3>2. b - a \in Nat /\ b = a + (b - a)
      BY <3>1
    <3>3. k * (b - a) \in Nat /\ k * b = k * a + k * (b - a)
      BY <1>0, <3>1, <3>2
    <3>4. k * a <= k * b
      BY <1>0, <3>1, <3>3
    <3> QED BY <3>4 DEF a, b
  <2>2. g * (k * (100 + j)) <= g * (100 * n)
    <3> DEFINE a == k * (100 + j)
               b == 100 * n
    <3>1. a \in Nat /\ b \in Nat /\ a <= b
      BY <1>0 DEF k
    <3> HIDE DEF a, b
    <3>2. b - a \in Nat /\ b = a + (b - a)
      BY <3>1
    <3>3. g * (b - a) \in Nat /\ g * b = g * a + g * (b - a)
      BY <3>1, <3>2
    <3>4. g * a <= g * b
      BY <3>1, <3>3
    <3> QED BY <3>4 DEF a, b
  <2>3. /\ k * (100 * d) = 100 * (k * d) /\ k * (g * (100 + j)) = g * (k * (100 + j))
        /\ g * (100 * n) = 100 * (g * n) /\ k * d \in Nat /\ g * n \in Nat
        /\ g * (k * (100 + j)) \in Nat
    BY <1>0
  <2>4. 100 * (k * d) <= 100 * (g * n)
    BY <2>1, <2>2, <2>3
  <2>5. k * d <= g * n
    BY <2>3, <2>4
  <2>6. k * d <= h
    BY <2>3, <2>5
  <2> QED BY <2>6 DEF k
<1> QED BY <1>1, <1>2

(* So no slice is later than the horizon.                                  *)
LEMMA TimelyClear ==
  ASSUME NEW r, IsTwap(r), Clear(r), NEW s \in Seq(SliceSet), Timely(r, s), Len(s) <= r.n
  PROVE  \A i \in DOMAIN s : s[i].time <= r.horizon
<1>a. /\ r.horizon \in Nat \ {0} /\ r.n \in Nat \ {0} /\ r.timeJitter \in 0..99
      /\ LongestGap(r) \in Nat /\ MeanGap(r) \in Nat /\ MinGap \in Nat
  BY TwapTypes, Units
<1>b. r.horizon \in Nat /\ r.timeJitter \in Nat
  <2>1. \A x \in 0..99 : x \in Nat
    OBVIOUS
  <2> QED BY <1>a, <2>1
<1> DEFINE h == r.horizon
           n == r.n
           j == r.timeJitter
           d == LongestGap(r)
<1>1. h \in Nat /\ n \in Nat \ {0} /\ j \in Nat /\ d \in Nat /\ MinGap \in Nat /\ MeanGap(r) \in Nat
  BY <1>a, <1>b
<1> DEFINE z == h \div n
           e == (MeanGap(r) * (100 + j)) \div 100
<1>2. /\ MeanGap(r) = (IF MinGap >= z THEN MinGap ELSE z)
      /\ d = (IF MinGap >= e THEN MinGap ELSE e)
  BY TwapTypes
<1>3. h >= MinGap * n /\ (n - 1) * (100 + j) <= 100 * n
  BY DEF Clear
<1> HIDE DEF h, n, j, d
<1>4. MeanGap(r) * n <= h
  <2>1. z \in Nat /\ h = n * z + (h % n) /\ h % n \in 0..(n - 1)
    BY <1>1, QuotientGrows
  <2> HIDE DEF z
  <2>2. z * n <= h
    BY <1>1, <2>1
  <2> QED BY <1>2, <1>3, <2>2
<1>5. d = MinGap \/ 100 * d <= MeanGap(r) * (100 + j)
  <2> DEFINE y == MeanGap(r) * (100 + j)
  <2>1. y \in Nat
    BY <1>1, Product
  <2>2. e = y \div 100
    OBVIOUS
  <2> HIDE DEF y, e
  <2>3. 100 * e <= y
    BY <2>1, <2>2
  <2> QED BY <1>2, <2>3 DEF y
<1>6. (n - 1) * d <= h
  BY <1>1, <1>3, <1>4, <1>5, ClearArithmetic
<1>7. ASSUME NEW i \in DOMAIN s PROVE s[i].time <= h
  <2>1. i \in Nat /\ 1 <= i /\ i <= n
    <3>1. DOMAIN s = 1..Len(s) /\ Len(s) \in Nat /\ Len(s) <= n
      BY LenProperties DEF n
    <3> QED BY <1>1, <3>1
  <2>2. s[i] \in SliceSet
    OBVIOUS
  <2>3. s[i].time \in Nat /\ s[i].time <= (i - 1) * d
    BY <2>2 DEF SliceSet, Timely, d
  <2>4. (i - 1) * d <= (n - 1) * d
    <3> DEFINE a == i - 1
               b == n - i
    <3>1. a \in Nat /\ b \in Nat /\ n - 1 = a + b
      BY <1>1, <2>1
    <3> HIDE DEF a, b
    <3>2. (a + b) * d = a * d + b * d /\ a * d \in Nat /\ b * d \in Nat
      BY <1>1, <3>1
    <3>3. a * d <= (a + b) * d
      BY <3>2
    <3> QED BY <3>1, <3>3 DEF a
  <2>5. (i - 1) * d \in Int /\ (n - 1) * d \in Int
    BY <1>1, <2>1
  <2> QED BY <1>1, <1>6, <2>3, <2>4, <2>5
<1> QED BY <1>7 DEF h

ReadyState(r, x, s) ==
  /\ r \in Requests /\ s \in Seq(SliceSet) /\ Numbered(s)
  /\ r.algorithm = "POISSON_TWAP" => IsTwap(r) /\ Timely(r, s) /\ Len(s) <= r.n
  /\ \/ SumQ(s) = r.total /\ ~ (r.algorithm = "VOLUME_ADAPTIVE_VWAP" /\ r.expected # <<>>)
     \/ CappedState(r, Len(r.curve) + 1, x, s)

RaisedState(r, x, s) ==
  /\ r \in Requests /\ s \in Seq(SliceSet) /\ Numbered(s)
  /\ r.algorithm = "POISSON_TWAP" => s = <<>>
  /\ ~Valid(r) \/ (CappedState(r, Len(r.curve) + 1, x, s) /\ s = <<>>)

ScheduleInvariant ==
  \/ making = "idle" /\ ask = NoRequest /\ slices = <<>>
  \/ making = "twap" /\ TwapState(ask, bar, rest, elapsed, slices)
  \/ making = "vwap" /\ VwapState(ask, bar, rest, slices)
  \/ making = "capped" /\ CappedState(ask, bar, rest, slices)
  \/ making = "arrival" /\ ArrivalState(ask, bar, rest, level, elapsed, slices)
  \/ making = "ready" /\ ReadyState(ask, rest, slices)
  \/ making = "raised" /\ RaisedState(ask, rest, slices)

(* A whole list passes the sum check.                                      *)
LEMMA FinishWhole ==
  ASSUME NEW s \in Seq(SliceSet), NEW y \in Nat, SumQ(s) = y
  PROVE  Finish(y, s) = "ready"
<1>1. TotalScheduled(Quantities(s)) = y
  BY ScheduledIs
<1>2. y \in (y - MassTolerance)..(y + MassTolerance)
  BY Units
<1> QED BY <1>1, <1>2 DEF Finish

(* The empty list is in order.                                             *)
LEMMA NoSlices ==
  /\ <<>> \in Seq(SliceSet) /\ Numbered(<<>>) /\ Len(<<>>) = 0 /\ DOMAIN (<<>>) = {}
  /\ \A t : Earlier(<<>>, t)
  /\ \A r : Timely(r, <<>>) /\ InParticipation(r, <<>>)
<1>1. <<>> \in Seq(SliceSet) /\ Len(<<>>) = 0 /\ DOMAIN (<<>>) = {}
  OBVIOUS
<1> QED BY <1>1 DEF Numbered, Earlier, Timely, InParticipation

(* So is the list of one slice at the start.                               *)
LEMMA OneSlice ==
  ASSUME NEW q \in Nat \ {0}
  PROVE  /\ <<NextSlice(<<>>, q, 0)>> \in Seq(SliceSet) /\ Numbered(<<NextSlice(<<>>, q, 0)>>)
         /\ SumQ(<<NextSlice(<<>>, q, 0)>>) = q
         /\ Len(<<NextSlice(<<>>, q, 0)>>) = 1
         /\ \A i \in DOMAIN <<NextSlice(<<>>, q, 0)>> : i = 1 /\ <<NextSlice(<<>>, q, 0)>>[i].time = 0
<1> DEFINE e == NextSlice(<<>>, q, 0)
<1>1. <<>> \in Seq(SliceSet) /\ Numbered(<<>>) /\ DOMAIN (<<>>) = {} /\ Len(<<>>) = 0
  BY NoSlices
<1>2. e.time = 0
  BY DEF NextSlice
<1>3. /\ Append(<<>>, e) \in Seq(SliceSet) /\ Numbered(Append(<<>>, e))
      /\ Len(Append(<<>>, e)) = Len(<<>>) + 1
      /\ SumQ(Append(<<>>, e)) = SumQ(<<>>) + q
  <2> DEFINE o == <<>>
             z == 0
  <2>1. o \in Seq(SliceSet) /\ Numbered(o) /\ DOMAIN o = {} /\ z \in Nat
    BY <1>1
  <2> HIDE DEF o, z
  <2>2. Earlier(o, z)
    BY <2>1 DEF Earlier
  <2>3. Longer(Append(o, NextSlice(o, q, z)), o, q, z)
    BY <2>1, <2>2, NumberedGrows
  <2>4. /\ Append(o, NextSlice(o, q, z)) \in Seq(SliceSet) /\ Numbered(Append(o, NextSlice(o, q, z)))
        /\ Len(Append(o, NextSlice(o, q, z))) = Len(o) + 1
        /\ SumQ(Append(o, NextSlice(o, q, z))) = SumQ(o) + q
    BY <2>3 DEF Longer
  <2> QED BY <2>4 DEF o, z
<1> HIDE DEF e
<1>4. Append(<<>>, e) = <<e>> /\ DOMAIN <<e>> = {1} /\ <<e>>[1] = e
  OBVIOUS
<1>5. SumQ(<<>>) + q = q /\ Len(<<>>) + 1 = 1
  BY <1>1, SumQEmpty
<1> QED BY <1>2, <1>3, <1>4, <1>5 DEF e

-----------------------------------------------------------------------------
(* A valid request is one of its algorithm.                                *)
LEMMA ValidIs ==
  ASSUME NEW r \in Requests, Valid(r)
  PROVE  /\ r.total \in Nat \ {0}
         /\ r.algorithm = "POISSON_TWAP" => IsTwap(r)
         /\ r.algorithm = "VOLUME_ADAPTIVE_VWAP" => IsVwap(r) /\ (r.expected # <<>> => Constrained(r))
         /\ r.algorithm = "ARRIVAL_PRICE" => IsArrival(r)
<1>1. r.total > 0
  BY DEF Valid, ValidTwap, ValidVwap, ValidArrival
<1>2. r.total \in Int
  BY SchedulesAssumption DEF RequestTyped
<1>3. CASE r.algorithm = "POISSON_TWAP"
  BY <1>1, <1>2, <1>3 DEF Valid, IsTwap
<1>4. CASE r.algorithm = "VOLUME_ADAPTIVE_VWAP"
  BY <1>1, <1>2, <1>4 DEF Valid, IsVwap, Constrained
<1>5. CASE r.algorithm = "ARRIVAL_PRICE"
  BY <1>1, <1>2, <1>5 DEF Valid, IsArrival
<1> QED BY <1>1, <1>2, <1>3, <1>4, <1>5

(* Each loop begins in its state.                                          *)
LEMMA TwapBegins ==
  ASSUME NEW r, IsTwap(r), r.n # 1
  PROVE  TwapState(r, 1, r.total, 0, <<>>)
<1>1. r.total \in Nat /\ r.n \in Nat /\ r.n >= 2 /\ 1 \in 1..r.n /\ LongestGap(r) \in Nat
  <2>1. r.total \in Nat \ {0} /\ r.n \in Nat \ {0} /\ LongestGap(r) \in Nat
    BY TwapTypes
  <2> QED BY <2>1
<1>2. r.total >= Reserve(r, 1)
  <2>1. r.total >= r.n * MassTolerance /\ r.n - 1 + 1 = r.n
    BY <1>1 DEF IsTwap, ValidTwap
  <2> QED BY <2>1 DEF Reserve
<1>3. SumQ(<<>>) + r.total = r.total
  BY <1>1, SumQEmpty
<1>4. 0 <= (1 - 1) * LongestGap(r) /\ Len(<<>>) = 1 - 1
  BY <1>1
<1> QED BY <1>1, <1>2, <1>3, <1>4, NoSlices DEF TwapState

LEMMA VwapBegins ==
  ASSUME NEW r, IsVwap(r), r.expected = <<>>
  PROVE  VwapState(r, 1, r.total, <<>>)
<1>1. /\ r.total \in Nat /\ 1 \in 1..Len(r.curve) /\ r.curve \in Seq(Int)
      /\ (\A k \in DOMAIN r.curve : r.curve[k] >= 0) /\ TotalScheduled(r.curve) \in Nat
  BY VwapTypes
<1>2. Ahead(r.curve, 1) = TotalScheduled(r.curve)
  BY <1>1, AheadShape
<1>3. Covers(r, 1, r.total)
  <2>1. r.total * TotalScheduled(r.curve) \in Nat
    BY <1>1, Product
  <2> QED BY <1>2, <2>1 DEF Covers
<1>4. SumQ(<<>>) + r.total = r.total
  BY <1>1, SumQEmpty
<1> QED BY <1>1, <1>3, <1>4, NoSlices DEF VwapState

LEMMA CappedBegins ==
  ASSUME NEW r, Constrained(r)
  PROVE  CappedState(r, 1, r.total, <<>>)
<1>1. r.total \in Nat /\ 1 \in 1..(Len(r.curve) + 1)
  BY VwapTypes DEF Constrained
<1>2. \A k \in 1..Len(r.curve) : ~ (k < 1)
  OBVIOUS
<1>3. ~ (1 > LastBar(r))
  <2>1. LastBar(r) \in 1..Len(r.curve)
    BY LastBarIs DEF Constrained
  <2> QED BY <2>1
<1>4. SumQ(<<>>) + r.total = r.total
  BY <1>1, SumQEmpty
<1> QED BY <1>1, <1>2, <1>3, <1>4, NoSlices DEF CappedState

LEMMA ArrivalBegins ==
  ASSUME NEW r, IsArrival(r)
  PROVE  ArrivalState(r, 1, r.total, r.total, 0, <<>>)
<1>1. r.total \in Nat /\ 1 \in 1..(r.n + 1) /\ 1 # r.n + 1
  BY ArrivalTypes
<1>2. SumQ(<<>>) + r.total = r.total
  BY <1>1, SumQEmpty
<1> QED BY <1>1, <1>2, NoSlices DEF ArrivalState

(* No request at first.                                                    *)
LEMMA ScheduleInvariantInit == SchedulesInit => ScheduleInvariant
  BY DEF SchedulesInit, ScheduleInvariant

(* A request is taken: the kind of schedule follows the algorithm.         *)
LEMMA GenerateStep ==
  ASSUME ScheduleInvariant, NEW r \in Requests, Generate(r)
  PROVE  ScheduleInvariant'
<1>1. /\ making = "idle" /\ ask' = r /\ rest' = r.total /\ level' = r.total /\ elapsed' = 0 /\ bar' = 1
      /\ slices' = IF making' = "ready" THEN <<Slice(r.total, 0)>> ELSE <<>>
  BY DEF Generate
<1>2. making' = IF ~Valid(r) THEN "raised"
                ELSE CASE r.algorithm = "POISSON_TWAP" -> IF r.n = 1 THEN "ready" ELSE "twap"
                       [] r.algorithm = "VOLUME_ADAPTIVE_VWAP" -> IF r.expected = <<>> THEN "vwap" ELSE "capped"
                       [] r.algorithm = "ARRIVAL_PRICE" -> "arrival"
                       [] OTHER -> "ready"
  BY DEF Generate
<1>3. slices = <<>>
  BY <1>1 DEF ScheduleInvariant
<1>4. CASE ~Valid(r)
  <2>1. making' = "raised" /\ slices' = <<>>
    BY <1>1, <1>2, <1>4
  <2> QED BY <1>1, <1>4, <2>1, NoSlices DEF ScheduleInvariant, RaisedState
<1>5. CASE Valid(r) /\ r.algorithm = "POISSON_TWAP" /\ r.n # 1
  <2>1. making' = "twap" /\ slices' = <<>>
    BY <1>1, <1>2, <1>5
  <2>2. TwapState(r, 1, r.total, 0, <<>>)
    BY <1>5, ValidIs, TwapBegins
  <2> QED BY <1>1, <2>1, <2>2 DEF ScheduleInvariant
<1>6. CASE Valid(r) /\ r.algorithm = "VOLUME_ADAPTIVE_VWAP" /\ r.expected = <<>>
  <2>1. making' = "vwap" /\ slices' = <<>>
    BY <1>1, <1>2, <1>6
  <2>2. VwapState(r, 1, r.total, <<>>)
    BY <1>6, ValidIs, VwapBegins
  <2> QED BY <1>1, <2>1, <2>2 DEF ScheduleInvariant
<1>7. CASE Valid(r) /\ r.algorithm = "VOLUME_ADAPTIVE_VWAP" /\ r.expected # <<>>
  <2>1. making' = "capped" /\ slices' = <<>>
    BY <1>1, <1>2, <1>7
  <2>2. CappedState(r, 1, r.total, <<>>)
    BY <1>7, ValidIs, CappedBegins
  <2> QED BY <1>1, <2>1, <2>2 DEF ScheduleInvariant
<1>8. CASE Valid(r) /\ r.algorithm = "ARRIVAL_PRICE"
  <2>1. making' = "arrival" /\ slices' = <<>>
    BY <1>1, <1>2, <1>8
  <2>2. ArrivalState(r, 1, r.total, r.total, 0, <<>>)
    BY <1>8, ValidIs, ArrivalBegins
  <2> QED BY <1>1, <2>1, <2>2 DEF ScheduleInvariant
<1>9. CASE /\ Valid(r) /\ r.algorithm \notin {"VOLUME_ADAPTIVE_VWAP", "ARRIVAL_PRICE"}
           /\ r.algorithm = "POISSON_TWAP" => r.n = 1
  <2>1. making' = "ready" /\ slices' = <<NextSlice(<<>>, r.total, 0)>>
    BY <1>1, <1>2, <1>3, <1>9 DEF Slice, NextSlice
  <2> DEFINE s == <<NextSlice(<<>>, r.total, 0)>>
  <2>2. r.total \in Nat \ {0}
    BY <1>9, ValidIs
  <2>3. /\ s \in Seq(SliceSet) /\ Numbered(s) /\ SumQ(s) = r.total /\ Len(s) = 1
        /\ \A i \in DOMAIN s : i = 1 /\ s[i].time = 0
    BY <2>2, OneSlice
  <2>4. ASSUME r.algorithm = "POISSON_TWAP" PROVE IsTwap(r) /\ Timely(r, s) /\ Len(s) <= r.n
    <3> HIDE DEF s
    <3>1. IsTwap(r) /\ r.n = 1
      BY <1>9, <2>4, ValidIs
    <3>2. LongestGap(r) \in Nat
      BY <3>1, TwapTypes
    <3>3. \A i \in DOMAIN s : s[i].time <= (i - 1) * LongestGap(r)
      BY <2>3, <3>2
    <3> QED BY <2>3, <3>1, <3>3 DEF Timely
  <2> HIDE DEF s
  <2>5. ReadyState(r, r.total, s)
    BY <1>9, <2>3, <2>4 DEF ReadyState
  <2> QED BY <1>1, <2>1, <2>5 DEF ScheduleInvariant, s
<1> QED BY <1>4, <1>5, <1>6, <1>7, <1>8, <1>9

(* A slice of a TWAP that is not the last.                                 *)
LEMMA TwapSliceStep == ASSUME ScheduleInvariant, TwapSlice PROVE ScheduleInvariant'
<1>1. making = "twap" /\ bar < ask.n /\ TwapState(ask, bar, rest, elapsed, slices)
  BY DEF TwapSlice, ScheduleInvariant
<1>2. IsTwap(ask) /\ elapsed \in Nat
  BY <1>1 DEF TwapState
<1>3. PICK draw \in TwapShares, gap \in TwapGaps :
        IF Usable(TwapClamp(draw), elapsed)
        THEN /\ slices' = Append(slices, Slice(TwapClamp(draw), elapsed))
             /\ rest' = rest - TwapClamp(draw) /\ elapsed' = elapsed + gap
             /\ bar' = bar + 1 /\ UNCHANGED <<ask, making, level>>
        ELSE Raise
  BY DEF TwapSlice
<1>4. draw \in Int
  BY DEF TwapShares
<1>5. gap \in MinGap..LongestGap(ask)
  <2>1. \A x \in {-ask.timeJitter, 0, ask.timeJitter} :
          Max({MinGap, (MeanGap(ask) * (100 + x)) \div 100}) \in MinGap..LongestGap(ask)
    BY <1>2, TwapTypes
  <2>2. PICK x \in {-ask.timeJitter, 0, ask.timeJitter} :
          gap = Max({MinGap, (MeanGap(ask) * (100 + x)) \div 100})
    BY DEF TwapGaps
  <2> QED BY <2>1, <2>2, ZenonT(60)
<1> DEFINE q == TwapClamp(draw)
<1>6. q = Max({MassTolerance, Min({rest - (ask.n - bar) * MassTolerance, draw})})
  BY DEF TwapClamp
<1> HIDE DEF q
<1>7. /\ q \in Nat \ {0}
      /\ TwapState(ask, bar + 1, rest - q, elapsed + gap, Append(slices, NextSlice(slices, q, elapsed)))
  BY <1>1, <1>4, <1>5, <1>6, TwapStep
<1>8. Usable(q, elapsed)
  BY <1>2, <1>7 DEF Usable
<1>9. /\ slices' = Append(slices, NextSlice(slices, q, elapsed)) /\ rest' = rest - q
      /\ elapsed' = elapsed + gap /\ bar' = bar + 1 /\ ask' = ask /\ making' = making
  BY <1>3, <1>8 DEF q, Slice, NextSlice
<1> QED BY <1>1, <1>7, <1>9 DEF ScheduleInvariant

(* Its last slice makes it whole.                                          *)
LEMMA TwapLastStep == ASSUME ScheduleInvariant, TwapLast PROVE ScheduleInvariant'
<1>1. making = "twap" /\ bar = ask.n /\ TwapState(ask, bar, rest, elapsed, slices)
  BY DEF TwapLast, ScheduleInvariant
<1>2. /\ IsTwap(ask) /\ ask.n \in Nat \ {0} /\ ask.total \in Nat /\ LongestGap(ask) \in Nat
      /\ slices \in Seq(SliceSet) /\ Numbered(slices) /\ Len(slices) = bar - 1
      /\ rest \in Int /\ rest >= Reserve(ask, bar) /\ SumQ(slices) + rest = ask.total
      /\ elapsed \in Nat /\ elapsed <= (bar - 1) * LongestGap(ask)
      /\ Earlier(slices, elapsed) /\ Timely(ask, slices)
  BY <1>1, TwapTypes DEF TwapState
<1>3. rest \in Nat \ {0}
  <2>1. ask.n - bar + 1 = 1
    BY <1>1, <1>2
  <2>2. Reserve(ask, bar) = MassTolerance
    BY <2>1, Units DEF Reserve
  <2> QED BY <1>2, <2>2, Units
<1>4. /\ slices' = Append(slices, NextSlice(slices, rest, elapsed))
      /\ making' = Finish(ask.total, slices') /\ ask' = ask /\ rest' = rest
  <2>1. Usable(rest, elapsed)
    BY <1>2, <1>3 DEF Usable
  <2> QED BY <2>1 DEF TwapLast, Slice, NextSlice
<1> DEFINE u == Append(slices, NextSlice(slices, rest, elapsed))
<1>5. /\ u \in Seq(SliceSet) /\ Numbered(u) /\ Len(u) = Len(slices) + 1 /\ SumQ(u) = SumQ(slices) + rest
      /\ (\A i \in DOMAIN slices : u[i] = slices[i])
      /\ u[Len(slices) + 1].time = elapsed /\ DOMAIN u = DOMAIN slices \cup {Len(slices) + 1}
  <2>1. NextSlice(slices, rest, elapsed).time = elapsed
    BY DEF NextSlice
  <2>2. Longer(u, slices, rest, elapsed)
    BY <1>2, <1>3, NumberedGrows
  <2> HIDE DEF u
  <2> QED BY <2>1, <2>2 DEF Longer
<1> HIDE DEF u
<1>6. Timely(ask, u) /\ Len(u) <= ask.n
  <2>1. \A i \in DOMAIN slices : u[i].time <= (i - 1) * LongestGap(ask)
    BY <1>2, <1>5 DEF Timely
  <2>2. (Len(slices) + 1) - 1 = bar - 1 /\ Len(u) = ask.n
    BY <1>1, <1>2, <1>5
  <2>3. u[Len(slices) + 1].time <= ((Len(slices) + 1) - 1) * LongestGap(ask)
    BY <1>2, <1>5, <2>2
  <2>4. Len(u) <= ask.n
    BY <1>2, <2>2
  <2> QED BY <1>5, <2>1, <2>3, <2>4 DEF Timely
<1>7. SumQ(u) = ask.total /\ Finish(ask.total, u) = "ready"
  BY <1>2, <1>5, FinishWhole
<1>8. ReadyState(ask, rest, u)
  BY <1>2, <1>5, <1>6, <1>7 DEF ReadyState, IsTwap
<1> QED BY <1>4, <1>7, <1>8 DEF ScheduleInvariant, u

(* A bar of a VWAP without volumes.                                        *)
LEMMA VwapBarStep == ASSUME ScheduleInvariant, VwapBar PROVE ScheduleInvariant'
<1>1. making = "vwap" /\ bar < Len(ask.curve) /\ VwapState(ask, bar, rest, slices)
  BY DEF VwapBar, ScheduleInvariant
<1> DEFINE q == (ask.total * ask.curve[bar]) \div TotalScheduled(ask.curve)
<1>2. /\ IF q > 0 THEN /\ slices' = Append(slices, NextSlice(slices, q, BarTime(ask, bar)))
                       /\ rest' = rest - q
                  ELSE UNCHANGED <<slices, rest>>
      /\ bar' = bar + 1 /\ ask' = ask /\ making' = making
  BY DEF VwapBar, Slice, NextSlice, BarTime
<1>3. q \in Nat /\ VwapState(ask, bar + 1, rest - q, Taken(slices, q, BarTime(ask, bar)))
  BY <1>1, VwapStep
<1>4. rest \in Int
  BY <1>1 DEF VwapState
<1> HIDE DEF q
<1>5. slices' = Taken(slices, q, BarTime(ask, bar)) /\ rest' = rest - q
  BY <1>2, <1>3, <1>4 DEF Taken
<1> QED BY <1>1, <1>2, <1>3, <1>5 DEF ScheduleInvariant

(* Its last bar makes it whole.                                            *)
LEMMA VwapLastStep == ASSUME ScheduleInvariant, VwapLast PROVE ScheduleInvariant'
<1>1. making = "vwap" /\ VwapState(ask, bar, rest, slices)
  BY DEF VwapLast, ScheduleInvariant
<1> DEFINE u == Taken(slices, rest, BarTime(ask, bar))
<1>2. slices' = u /\ ask' = ask /\ rest' = rest
      /\ making' = IF slices' = <<>> THEN "raised" ELSE Finish(ask.total, slices')
  BY DEF VwapLast, Slice, NextSlice, BarTime, Taken
<1>3. u \in Seq(SliceSet) /\ Numbered(u) /\ SumQ(u) = ask.total /\ u # <<>>
  BY <1>1, VwapEnd
<1>4. /\ IsVwap(ask) /\ ask.expected = <<>> /\ ask \in Requests /\ ask.total \in Nat
      /\ ask.algorithm = "VOLUME_ADAPTIVE_VWAP"
  BY <1>1, VwapTypes DEF VwapState, IsVwap
<1> HIDE DEF u
<1>5. making' = "ready"
  BY <1>2, <1>3, <1>4, FinishWhole
<1>6. ReadyState(ask, rest, u)
  BY <1>3, <1>4 DEF ReadyState
<1> QED BY <1>2, <1>5, <1>6 DEF ScheduleInvariant

(* The caps of the request under way.                                      *)
LEMMA CappedIs ==
  ASSUME Constrained(ask), NEW k \in 1..Len(ask.curve)
  PROVE  CappedQuantity(k) = TakeOf(ask, rest, k) /\ Cap(k) = CapOf(ask, k)
<1>1. RemainingWeight(k) = Ahead(ask.curve, k)
  BY SumsAgree DEF RemainingWeight, Ahead
<1>2. Cap(k) = CapOf(ask, k)
  BY DEF Cap, CapOf, Blended, BlendOf
<1> QED BY <1>1, <1>2 DEF CappedQuantity, Desired, TakeOf

(* A bar of a constrained VWAP.                                            *)
LEMMA CappedBarStep == ASSUME ScheduleInvariant, CappedBar PROVE ScheduleInvariant'
<1>1. making = "capped" /\ bar <= Len(ask.curve) /\ CappedState(ask, bar, rest, slices)
  BY DEF CappedBar, ScheduleInvariant
<1>2. Constrained(ask) /\ rest \in Nat /\ bar \in 1..Len(ask.curve)
  <2>1. Constrained(ask) /\ rest \in Nat /\ bar \in 1..(Len(ask.curve) + 1)
    BY <1>1 DEF CappedState
  <2>2. Len(ask.curve) \in Nat
    BY <2>1, VwapTypes DEF Constrained
  <2> QED BY <1>1, <2>1, <2>2
<1> DEFINE q == CappedQuantity(bar)
<1>3. q = TakeOf(ask, rest, bar)
  BY <1>2, CappedIs
<1>4. /\ IF q > 0 THEN /\ slices' = Append(slices, NextSlice(slices, q, BarTime(ask, bar)))
                       /\ rest' = rest - q
                  ELSE UNCHANGED <<slices, rest>>
      /\ bar' = bar + 1 /\ ask' = ask /\ making' = making
  BY DEF CappedBar, Slice, NextSlice, BarTime
<1> HIDE DEF q
<1>5. q \in Nat /\ CappedState(ask, bar + 1, rest - q, Taken(slices, q, BarTime(ask, bar)))
  BY <1>1, <1>3, CappedStep
<1>6. slices' = Taken(slices, q, BarTime(ask, bar)) /\ rest' = rest - q
  BY <1>2, <1>4, <1>5 DEF Taken
<1> QED BY <1>1, <1>4, <1>5, <1>6 DEF ScheduleInvariant

(* After its last bar a constrained VWAP is what it is.                    *)
LEMMA CappedEndStep == ASSUME ScheduleInvariant, CappedEnd PROVE ScheduleInvariant'
<1>1. making = "capped" /\ bar > Len(ask.curve) /\ CappedState(ask, bar, rest, slices)
  BY DEF CappedEnd, ScheduleInvariant
<1>2. ask' = ask /\ rest' = rest /\ slices' = slices /\ making' = IF slices = <<>> THEN "raised" ELSE "ready"
  BY DEF CappedEnd
<1>3. /\ Constrained(ask) /\ bar \in 1..(Len(ask.curve) + 1) /\ slices \in Seq(SliceSet) /\ Numbered(slices)
  BY <1>1 DEF CappedState
<1>4. bar = Len(ask.curve) + 1
  <2>1. Len(ask.curve) \in Nat
    BY <1>3, VwapTypes DEF Constrained
  <2> QED BY <1>1, <1>3, <2>1
<1>5. ask \in Requests /\ ask.algorithm = "VOLUME_ADAPTIVE_VWAP"
  BY <1>3 DEF Constrained, IsVwap
<1>6. CASE slices = <<>>
  <2>1. RaisedState(ask, rest, slices)
    BY <1>1, <1>3, <1>4, <1>5, <1>6 DEF RaisedState
  <2> QED BY <1>2, <1>6, <2>1 DEF ScheduleInvariant
<1>7. CASE slices # <<>>
  <2>1. ReadyState(ask, rest, slices)
    BY <1>1, <1>3, <1>4, <1>5, <1>7 DEF ReadyState
  <2> QED BY <1>2, <1>7, <2>1 DEF ScheduleInvariant
<1> QED BY <1>6, <1>7

(* A bar of an arrival price schedule.                                     *)
LEMMA ArrivalSliceStep == ASSUME ScheduleInvariant, ArrivalSlice PROVE ScheduleInvariant'
<1>1. making = "arrival" /\ bar <= ask.n /\ rest > 0 /\ ArrivalState(ask, bar, rest, level, elapsed, slices)
  BY DEF ArrivalSlice, ScheduleInvariant
<1>2. PICK raw \in 0..ask.total :
        LET drop == level - NextLevel(raw)
            q == IF bar = ask.n \/ drop >= rest THEN rest ELSE drop
            t == ArrivalTime(((bar - 1) * ask.horizon) \div ask.n)
        IN  /\ level' = NextLevel(raw)
            /\ IF q > 0
               THEN slices' = Append(slices, Slice(q, t)) /\ rest' = rest - q /\ elapsed' = t
               ELSE UNCHANGED <<slices, rest, elapsed>>
  BY DEF ArrivalSlice
<1> DEFINE m == NextLevel(raw)
           q == IF bar = ask.n \/ level - m >= rest THEN rest ELSE level - m
           t == LaterTime(ask, bar, elapsed, slices)
<1>3. m = IF bar = ask.n THEN 0 ELSE Max({0, Min({level, raw})})
  BY DEF NextLevel
<1>4. /\ level' = m
      /\ IF q > 0
         THEN slices' = Append(slices, NextSlice(slices, q, t)) /\ rest' = rest - q /\ elapsed' = t
         ELSE UNCHANGED <<slices, rest, elapsed>>
      /\ bar' = bar + 1 /\ ask' = ask /\ making' = making
  BY <1>2 DEF ArrivalSlice, Slice, NextSlice, ArrivalTime, LaterTime
<1>5. q = IF bar = ask.n \/ level - m >= rest THEN rest ELSE level - m
  OBVIOUS
<1>6. raw \in Int /\ rest \in Nat
  BY <1>1 DEF ArrivalState
<1> HIDE DEF m, q, t
<1>7. /\ q \in Nat
      /\ ArrivalState(ask, bar + 1, rest - q, m, IF q > 0 THEN t ELSE elapsed, Taken(slices, q, t))
  BY <1>1, <1>3, <1>5, <1>6, ArrivalStep DEF t
<1>8. /\ slices' = Taken(slices, q, t) /\ rest' = rest - q
      /\ elapsed' = IF q > 0 THEN t ELSE elapsed
  BY <1>4, <1>6, <1>7 DEF Taken
<1> QED BY <1>1, <1>4, <1>7, <1>8 DEF ScheduleInvariant

(* Nothing is left when it ends.                                           *)
LEMMA ArrivalEndStep == ASSUME ScheduleInvariant, ArrivalEnd PROVE ScheduleInvariant'
<1>1. making = "arrival" /\ (bar > ask.n \/ rest <= 0) /\ ArrivalState(ask, bar, rest, level, elapsed, slices)
  BY DEF ArrivalEnd, ScheduleInvariant
<1>2. making' = Finish(ask.total, slices) /\ ask' = ask /\ rest' = rest /\ slices' = slices
  BY DEF ArrivalEnd
<1>3. /\ IsArrival(ask) /\ bar \in 1..(ask.n + 1) /\ slices \in Seq(SliceSet) /\ Numbered(slices)
      /\ rest \in Nat /\ SumQ(slices) + rest = ask.total /\ (bar = ask.n + 1 => rest = 0)
      /\ ask.n \in Nat /\ ask.total \in Nat
  BY <1>1, ArrivalTypes DEF ArrivalState
<1>4. rest = 0
  BY <1>1, <1>3
<1>5. SumQ(slices) = ask.total
  BY <1>3, <1>4, SumQType
<1>6. making' = "ready"
  BY <1>2, <1>3, <1>5, FinishWhole
<1>7. ReadyState(ask, rest, slices)
  BY <1>3, <1>5 DEF ReadyState, IsArrival
<1> QED BY <1>2, <1>6, <1>7 DEF ScheduleInvariant

(* The invariant is inductive.                                             *)
LEMMA ScheduleInvariantStep == ScheduleInvariant /\ [SchedulesNext]_scheduleVars => ScheduleInvariant'
<1> SUFFICES ASSUME ScheduleInvariant, [SchedulesNext]_scheduleVars PROVE ScheduleInvariant'
  OBVIOUS
<1>1. CASE UNCHANGED scheduleVars
  BY <1>1 DEF scheduleVars, ScheduleInvariant
<1>2. CASE SchedulesNext
  BY <1>2, GenerateStep, TwapSliceStep, TwapLastStep, VwapBarStep, VwapLastStep, CappedBarStep,
     CappedEndStep, ArrivalSliceStep, ArrivalEndStep DEF SchedulesNext
<1> QED BY <1>1, <1>2

-----------------------------------------------------------------------------
(* The list is in order in every state.                                    *)
LEMMA ListTyped == ScheduleInvariant => slices \in Seq(SliceSet) /\ Numbered(slices)
  BY NoSlices DEF ScheduleInvariant, TwapState, VwapState, CappedState, ArrivalState, ReadyState, RaisedState

(* A valid request that raised had no volume in any bar.                   *)
LEMMA InvariantRaises == ScheduleInvariant => ValidRequestsAreScheduled
<1> SUFFICES ASSUME ScheduleInvariant, making = "raised", Valid(ask)
             PROVE  IsCapped /\ \A k \in DOMAIN ask.curve : CappedQuantity(k) = 0
  BY DEF ValidRequestsAreScheduled
<1>1. CappedState(ask, Len(ask.curve) + 1, rest, slices) /\ slices = <<>>
  BY DEF ScheduleInvariant, RaisedState
<1>2. /\ Constrained(ask) /\ rest = ask.total
      /\ \A k \in 1..Len(ask.curve) : k < Len(ask.curve) + 1 => TakeOf(ask, ask.total, k) = 0
  BY <1>1 DEF CappedState
<1>3. Len(ask.curve) \in Nat /\ DOMAIN ask.curve = 1..Len(ask.curve)
  <2>1. ask.curve \in Seq(Int)
    BY <1>2, VwapTypes DEF Constrained
  <2> QED BY <2>1, LenProperties
<1>4. \A k \in 1..Len(ask.curve) : TakeOf(ask, rest, k) = 0
  BY <1>2, <1>3
<1> QED BY <1>2, <1>3, <1>4, CappedIs DEF IsCapped, Constrained, IsVwap

(* A schedule handed out is whole, or cut by the cap of the last bar.      *)
LEMMA InvariantWhole == ScheduleInvariant => ScheduleIsWhole
<1> SUFFICES ASSUME ScheduleInvariant, making = "ready"
             PROVE  \/ Scheduled = ask.total
                    \/ /\ IsCapped /\ Scheduled < ask.total
                       /\ LET last == Max({k \in DOMAIN ask.curve : ask.curve[k] > 0})
                          IN  BarQuantity(last) = Cap(last)
  BY DEF ScheduleIsWhole
<1>1. ReadyState(ask, rest, slices)
  BY DEF ScheduleInvariant
<1>2. Scheduled = SumQ(slices)
  BY ListTyped, ScheduledIs DEF Scheduled
<1>3. CASE SumQ(slices) = ask.total
  BY <1>2, <1>3
<1>4. CASE CappedState(ask, Len(ask.curve) + 1, rest, slices)
  <2>1. /\ Constrained(ask) /\ rest \in Nat /\ SumQ(slices) + rest = ask.total /\ slices \in Seq(SliceSet)
        /\ Len(ask.curve) + 1 > LastBar(ask) => rest = 0 \/ InBar(ask, slices, LastBar(ask)) = CapOf(ask, LastBar(ask))
    BY <1>4 DEF CappedState
  <2>2. LastBar(ask) \in 1..Len(ask.curve) /\ Len(ask.curve) \in Nat
    BY <2>1, LastBarIs, VwapTypes DEF Constrained
  <2>3. Len(ask.curve) + 1 > LastBar(ask)
    BY <2>2
  <2>4. SumQ(slices) \in Int
    BY <2>1, SumQType
  <2>5. CASE rest = 0
    BY <1>2, <2>1, <2>4, <2>5
  <2>6. CASE rest # 0 /\ InBar(ask, slices, LastBar(ask)) = CapOf(ask, LastBar(ask))
    <3>1. Scheduled < ask.total
      BY <1>2, <2>1, <2>4, <2>6
    <3>2. IsCapped
      BY <2>1 DEF IsCapped, Constrained, IsVwap
    <3>3. BarQuantity(LastBar(ask)) = InBar(ask, slices, LastBar(ask))
      BY SumsAgree DEF BarQuantity, InBar, OfBar, BarTime
    <3>4. Cap(LastBar(ask)) = CapOf(ask, LastBar(ask))
      BY <2>1, <2>2, CappedIs
    <3>5. BarQuantity(LastBar(ask)) = Cap(LastBar(ask))
      BY <2>6, <3>3, <3>4
    <3> QED BY <3>1, <3>2, <3>5 DEF LastBar
  <2> QED BY <2>1, <2>3, <2>5, <2>6
<1> QED BY <1>1, <1>3, <1>4 DEF ReadyState

(* Each slice is within the participation in its bar.                      *)
LEMMA InvariantParticipates == ScheduleInvariant => ParticipationKept
<1> SUFFICES ASSUME ScheduleInvariant, IsCapped, making \in {"capped", "ready"}, NEW i \in DOMAIN slices
             PROVE  slices[i].quantity <= Cap((slices[i].time \div BarGap(ask)) + 1)
  BY DEF ParticipationKept
<1>1. Constrained(ask) /\ InParticipation(ask, slices)
  <2>1. CASE making = "capped"
    BY <2>1 DEF ScheduleInvariant, CappedState
  <2>2. CASE making = "ready"
    <3>1. ReadyState(ask, rest, slices)
      BY <2>2 DEF ScheduleInvariant
    <3>2. CappedState(ask, Len(ask.curve) + 1, rest, slices)
      BY <3>1 DEF ReadyState, IsCapped
    <3> QED BY <3>2 DEF CappedState
  <2> QED BY <2>1, <2>2
<1>2. PICK k \in 1..Len(ask.curve) : slices[i].time = BarTime(ask, k) /\ slices[i].quantity <= CapOf(ask, k)
  BY <1>1 DEF InParticipation
<1>3. BarGap(ask) \in Nat \ {0} /\ k \in Nat \ {0}
  BY <1>1, VwapTypes DEF Constrained
<1>4. BarTime(ask, k) \div BarGap(ask) = k - 1
  BY <1>3, BarTimes
<1>5. (slices[i].time \div BarGap(ask)) + 1 = k
  BY <1>2, <1>3, <1>4
<1> QED BY <1>1, <1>2, <1>5, CappedIs

(* A jittered schedule keeps its horizon.                                  *)
LEMMA InvariantClear == ScheduleInvariant => TwapWithinHorizon
<1> SUFFICES ASSUME ScheduleInvariant, ask.algorithm = "POISSON_TWAP", Valid(ask), Clear(ask)
             PROVE  \A i \in DOMAIN slices : slices[i].time <= ask.horizon
  BY DEF TwapWithinHorizon, Clear
<1>1. CASE slices = <<>>
  BY <1>1, NoSlices
<1>2. CASE slices # <<>>
  <2>1. IsTwap(ask) /\ slices \in Seq(SliceSet) /\ Timely(ask, slices) /\ Len(slices) <= ask.n
    <3>1. CASE making = "twap"
      <4>1. TwapState(ask, bar, rest, elapsed, slices)
        BY <3>1 DEF ScheduleInvariant
      <4>2. ask.n \in Nat /\ bar \in 1..ask.n /\ Len(slices) = bar - 1
        BY <4>1, TwapTypes DEF TwapState
      <4>3. Len(slices) <= ask.n
        BY <4>2
      <4> QED BY <4>1, <4>3 DEF TwapState
    <3>2. CASE making = "ready"
      BY <3>2 DEF ScheduleInvariant, ReadyState
    <3>3. making \notin {"vwap", "capped", "arrival"}
      BY DEF ScheduleInvariant, VwapState, CappedState, ArrivalState, Constrained, IsVwap, IsArrival
    <3>4. making \notin {"idle", "raised"}
      BY <1>2 DEF ScheduleInvariant, RaisedState
    <3> QED BY <3>1, <3>2, <3>3, <3>4 DEF ScheduleInvariant
  <2> QED BY <2>1, TimelyClear
<1> QED BY <1>1, <1>2

(* SchedulesSound: every request the constructors accept gets a schedule   *)
(* that adds up to it, in order, within its participation and, where the   *)
(* gaps allow, its horizon (generate_schedule of the three schedulers).    *)
THEOREM SchedulesSoundHolds == SchedulesSpec => []SchedulesSound
<1>1. ScheduleInvariant => SchedulesSound
  <2>1. ScheduleInvariant => SlicesInOrder
    BY ListTyped DEF Numbered, SlicesInOrder
  <2> QED BY <2>1, InvariantRaises, InvariantWhole, InvariantParticipates, InvariantClear DEF SchedulesSound
<1> QED BY <1>1, ScheduleInvariantInit, ScheduleInvariantStep, PTL DEF SchedulesSpec


-----------------------------------------------------------------------------
(* Triple-barrier labels                                                    *)

(* What the constructors check.                                            *)
LEMMA BarrierTypes ==
  /\ SeriesLength \in Nat /\ EventCount \in Nat /\ Horizon \in Nat \ {0} /\ Delay \in Nat
  /\ RoundTripFriction \in Nat /\ Profit \in Nat \ {0} /\ Stop \in Nat \ {0}
  /\ LeverageCap \in Nat \ {0} /\ Stakes \subseteq Nat /\ Ticks \subseteq Nat \ {0}
  BY BarrierAssumption DEF BarrierConfig

LEMMA CandleTypes ==
  ASSUME NEW c \in Candles
  PROVE  /\ c.open \in Int /\ c.high \in Int /\ c.low \in Int /\ c.close \in Int
         /\ c.low <= c.high /\ c.open \in c.low..c.high /\ c.close \in c.low..c.high
<1>1. /\ {c.open, c.high, c.low, c.close} \subseteq Nat
      /\ c.low <= c.high /\ c.open \in c.low..c.high /\ c.close \in c.low..c.high
  BY BarrierAssumption DEF BarrierConfig
<1> QED BY <1>1

Sides == {LONG, SHORT, UNSIGNED}

(* The barriers are prices, wherever the tick puts them.                   *)
LEMMA QuantisedIs ==
  ASSUME NEW x \in Int, NEW tick \in Nat \ {0}
  PROVE  Quantised(x, tick) \in Int
<1> DEFINE q == x \div tick
           up == 2 * (x % tick) > tick \/ (2 * (x % tick) = tick /\ q % 2 = 1)
           m == IF up THEN q + 1 ELSE q
<1>1. q \in Int
  OBVIOUS
<1>2. Quantised(x, tick) = tick * m
  BY DEF Quantised
<1> HIDE DEF q, up
<1>3. m \in Int
  BY <1>1
<1> HIDE DEF m
<1> QED BY <1>2, <1>3

LEMMA BarrierIs ==
  ASSUME NEW price \in Int, NEW side \in Sides, NEW tick \in Ticks
  PROVE  Upper(price, side, tick) \in Int /\ Lower(price, side, tick) \in Int
<1>1. tick \in Nat \ {0}
  BY BarrierTypes
<1>2. /\ price + (IF side = SHORT THEN Stop ELSE Profit) \in Int
      /\ price - (IF side = SHORT THEN Profit ELSE Stop) \in Int
  BY BarrierTypes
<1> QED BY <1>1, <1>2, QuantisedIs DEF Upper, Lower

(* What a bar did, as reason and price.                                    *)
Touched(c, up, lo, side, t) ==
  /\ t[1] \in {"none", "upper", "lower", "stop"}
  /\ t[1] = "none" => c.high < up /\ c.low > lo
  /\ t[1] # "none" => t[2] \in c.low..c.high
  /\ t[1] = "upper" => t[2] >= up
  /\ t[1] = "lower" => t[2] <= lo
  /\ t[1] = "stop" => t[2] = IF side = SHORT THEN up ELSE lo

LEMMA TouchSound ==
  ASSUME NEW c \in Candles, NEW up \in Int, NEW lo \in Int,
         NEW side \in Sides, NEW p \in BOOLEAN
  PROVE  /\ Touched(c, up, lo, side, Touch(c, up, lo, side, p))
         /\ ~(lo < c.open /\ c.open < up) =>
              Touch(c, up, lo, side, p)[1] # "none" /\ Touch(c, up, lo, side, p)[2] = c.open
<1>1. /\ c.open \in Int /\ c.high \in Int /\ c.low \in Int
      /\ c.low <= c.high /\ c.open \in c.low..c.high
  BY CandleTypes
<1>2. CASE c.open >= up \/ c.open <= lo
  BY <1>1, <1>2 DEF Touch, Touched
<1>3. CASE c.open < up /\ c.open > lo
  BY <1>1, <1>3 DEF Touch, Touched
<1> QED BY <1>1, <1>2, <1>3

(* The value of a label follows the side on which its trade was left.      *)
SignRight(l) ==
  /\ (l.label = 1 /\ Move(l) <= 0) =>
       \/ l.reason = "stop" /\ l.side = SHORT
       \/ l.reason = "vertical" /\ l.side = UNSIGNED /\ Move(l) < -RoundTripFriction
       \/ BarrierAtEntry(l)
  /\ (l.label = -1 /\ Move(l) >= 0) =>
       \/ l.reason = "vertical" /\ Move(l) < RoundTripFriction
       \/ BarrierAtEntry(l)

LeftSide(l) ==
  /\ l.reason \in {"vertical", "upper", "lower", "stop"}
  /\ l.reason = "upper" => l.at >= l.upper
  /\ l.reason = "lower" => l.at <= l.lower
  /\ l.reason = "stop" => l.at = IF l.side = SHORT THEN l.upper ELSE l.lower
  /\ (l.lower < l.price /\ l.price < l.upper) \/ BarrierAtEntry(l)

LEMMA SignFollows ==
  ASSUME NEW l, l.side \in Sides, l.price \in Int, l.at \in Int, l.upper \in Int, l.lower \in Int,
         LeftSide(l), l.net = NetReturn(l.side, l.price, l.at),
         NEW signed \in BOOLEAN, l.label = LabelValue(l.reason, l.side, l.net, signed)
  PROVE  SignRight(l)
<1>1. CASE BarrierAtEntry(l)
  BY <1>1 DEF SignRight
<1>2. CASE ~BarrierAtEntry(l)
  <2>1. l.lower < l.price /\ l.price < l.upper
    BY <1>2 DEF LeftSide
  <2>2. CASE l.reason = "vertical"
    <3>1. l.label = IF ~signed THEN 0 ELSE IF l.net > 0 THEN 1 ELSE IF l.net < 0 THEN -1 ELSE 0
      BY <2>2 DEF LabelValue
    <3>2. CASE l.side # UNSIGNED \/ ~(l.at < l.price)
      <4>1. l.net = Move(l) - RoundTripFriction /\ Move(l) \in Int
        BY <3>2, BarrierTypes DEF NetReturn, Move, Sides, SHORT, LONG, UNSIGNED
      <4> QED BY <2>2, <3>1, <4>1, BarrierTypes DEF SignRight
    <3>3. CASE l.side = UNSIGNED /\ l.at < l.price
      <4>1. l.net = -Move(l) - RoundTripFriction /\ Move(l) \in Int /\ Move(l) < 0
        BY <3>3, BarrierTypes DEF NetReturn, Move, SHORT, LONG, UNSIGNED
      <4> QED BY <2>2, <3>1, <3>3, <4>1, BarrierTypes DEF SignRight
    <3> QED BY <3>2, <3>3
  <2>3. CASE l.reason = "upper"
    <3>1. l.label = (IF l.side = SHORT THEN -1 ELSE 1) /\ l.at > l.price
      BY <2>1, <2>3 DEF LabelValue, LeftSide
    <3> QED BY <3>1 DEF SignRight, Move, SHORT, LONG, UNSIGNED
  <2>4. CASE l.reason = "lower"
    <3>1. l.label = (IF l.side = SHORT THEN 1 ELSE -1) /\ l.at < l.price
      BY <2>1, <2>4 DEF LabelValue, LeftSide
    <3> QED BY <3>1 DEF SignRight, Move, SHORT, LONG, UNSIGNED
  <2>5. CASE l.reason = "stop"
    <3>1. l.label = (IF l.side = SHORT THEN 1 ELSE -1) /\ (l.side # SHORT => l.at < l.price)
      BY <2>1, <2>5 DEF LabelValue, LeftSide
    <3> QED BY <2>5, <3>1 DEF SignRight, Move, SHORT, LONG, UNSIGNED
  <2> QED BY <2>2, <2>3, <2>4, <2>5 DEF LeftSide
<1> QED BY <1>1, <1>2

(* A label stands for a trade that could be made.                          *)
TradeSound(series, l) ==
  /\ l.side \in Sides /\ l.price \in Int /\ l.at \in Int /\ l.exit \in Int
  /\ l.net = NetReturn(l.side, l.price, l.at)
  /\ l.at \in series[l.exit].low..series[l.exit].high
  /\ l.exit <= l.entry + Horizon
  /\ \A k \in l.entry..(l.exit - 1) : series[k].high < l.upper /\ series[k].low > l.lower
  /\ SignRight(l)

(* The first of the bars that touch.                                       *)
LEMMA FirstHit ==
  ASSUME NEW a \in Nat, NEW b \in Nat, NEW hits \in SUBSET (a..b), hits # {}
  PROVE  Min(hits) \in hits /\ \A k \in hits : Min(hits) <= k
<1>1. hits \subseteq Nat
  OBVIOUS
<1>2. PICK x \in hits : \A y \in hits : x <= y
  BY <1>1, LeastOf
<1> QED BY <1>2 DEF Min

LEMMA LabelSound ==
  ASSUME NEW series \in [1..SeriesLength -> Candles], NEW event \in Nat \ {0},
         event + Delay <= SeriesLength, NEW side \in Sides,
         NEW pol \in [pessimistic : BOOLEAN, signed : BOOLEAN, tick : Ticks]
  PROVE  /\ LabelOf(series, event, side, pol).entry = event + Delay
         /\ TradeSound(series, LabelOf(series, event, side, pol))
<1> DEFINE entry == event + Delay
           price == series[entry].open
           up == Upper(price, side, pol.tick)
           lo == Lower(price, side, pol.tick)
           last == Min({SeriesLength, entry + Horizon})
           touch == [k \in 1..SeriesLength |-> Touch(series[k], up, lo, side, pol.pessimistic)]
           hits == {k \in entry..last : touch[k][1] # "none"}
           exit == ExitBar(hits, last)
           reason == IF hits = {} THEN "vertical" ELSE touch[exit][1]
           at == IF hits = {} THEN series[last].close ELSE touch[exit][2]
           net == NetReturn(side, price, at)
           l == [event |-> event, entry |-> entry, exit |-> exit, side |-> side, price |-> price,
                 at |-> at, upper |-> up, lower |-> lo, reason |-> reason, net |-> net,
                 label |-> LabelValue(reason, side, net, pol.signed)]
<1>1. /\ entry \in 1..SeriesLength /\ last \in entry..SeriesLength /\ last <= entry + Horizon
  <2>1. last = IF SeriesLength <= entry + Horizon THEN SeriesLength ELSE entry + Horizon
    BY BarrierTypes, SmallerOfTwo
  <2> HIDE DEF last
  <2> QED BY <2>1, BarrierTypes
<1>2. price \in Int /\ up \in Int /\ lo \in Int
  <2>1. price \in Int
    BY <1>1, CandleTypes
  <2>2. pol.tick \in Ticks
    OBVIOUS
  <2> HIDE DEF price
  <2> QED BY <2>1, <2>2, BarrierIs
<1>3. \A k \in entry..last : /\ k \in 1..SeriesLength /\ series[k] \in Candles
                             /\ touch[k] = Touch(series[k], up, lo, side, pol.pessimistic)
  <2> SUFFICES ASSUME NEW k \in entry..last
               PROVE  /\ k \in 1..SeriesLength /\ series[k] \in Candles
                      /\ touch[k] = Touch(series[k], up, lo, side, pol.pessimistic)
    OBVIOUS
  <2> HIDE DEF entry, last, up, lo
  <2>1. k \in 1..SeriesLength
    BY <1>1, BarrierTypes
  <2> QED BY <2>1
<1>4. \A k \in entry..last : Touched(series[k], up, lo, side, touch[k])
  <2> HIDE DEF up, lo, touch, entry, last
  <2> QED BY <1>2, <1>3, TouchSound
<1>20. ~(lo < price /\ price < up) => touch[entry][1] # "none" /\ touch[entry][2] = price
  <2>1. entry \in entry..last /\ price = series[entry].open
    BY <1>1
  <2>2. /\ series[entry] \in Candles
        /\ touch[entry] = Touch(series[entry], up, lo, side, pol.pessimistic)
    BY <1>3, <2>1
  <2> HIDE DEF up, lo, touch, entry, last, price
  <2> QED BY <1>2, <2>1, <2>2, TouchSound
<1>5. LabelOf(series, event, side, pol) = l
  <2>1. hits = {k \in entry..last : Touch(series[k], up, lo, side, pol.pessimistic)[1] # "none"}
    <3> HIDE DEF up, lo, touch, entry, last
    <3> QED BY <1>3
  <2>2. hits # {} => exit \in entry..last
    <3> SUFFICES ASSUME hits # {} PROVE exit \in entry..last
      OBVIOUS
    <3>1. hits \in SUBSET (entry..last) /\ entry \in Nat /\ last \in Nat
      BY <1>1, BarrierTypes
    <3> HIDE DEF hits, entry, last
    <3>2. Min(hits) \in hits
      BY <3>1, FirstHit
    <3> QED BY <3>1, <3>2 DEF ExitBar
  <2>3. hits # {} => touch[exit] = Touch(series[exit], up, lo, side, pol.pessimistic)
    <3> HIDE DEF up, lo, touch, entry, last, exit, hits
    <3> QED BY <1>3, <2>2
  <2> DEFINE h == {k \in entry..last : Touch(series[k], up, lo, side, pol.pessimistic)[1] # "none"}
             x == ExitBar(h, last)
             why == IF h = {} THEN "vertical" ELSE Touch(series[x], up, lo, side, pol.pessimistic)[1]
             out == IF h = {} THEN series[last].close ELSE Touch(series[x], up, lo, side, pol.pessimistic)[2]
  <2>4. LabelOf(series, event, side, pol) =
          [event |-> event, entry |-> entry, exit |-> x, side |-> side, price |-> price,
           at |-> out, upper |-> up, lower |-> lo, reason |-> why, net |-> NetReturn(side, price, out),
           label |-> LabelValue(why, side, NetReturn(side, price, out), pol.signed)]
    BY DEF LabelOf
  <2>5. h = hits
    BY <2>1
  <2> HIDE DEF h, hits
  <2>6. x = exit
    BY <2>5
  <2> HIDE DEF exit, x, touch, up, lo
  <2>7. why = reason /\ out = at
    BY <2>3, <2>5, <2>6
  <2> HIDE DEF why, out, reason, at
  <2> QED BY <2>4, <2>6, <2>7
<1>6. /\ exit \in entry..last
      /\ hits # {} => exit \in hits /\ \A k \in hits : exit <= k
      /\ \A k \in entry..(exit - 1) : k \notin hits /\ k \in entry..last
  <2>1. hits \in SUBSET (entry..last) /\ entry \in Nat /\ last \in Nat /\ entry <= last
    BY <1>1, BarrierTypes
  <2> HIDE DEF hits, entry, last
  <2>2. CASE hits = {}
    BY <2>1, <2>2 DEF ExitBar
  <2>3. CASE hits # {}
    <3>1. Min(hits) \in hits /\ \A k \in hits : Min(hits) <= k
      BY <2>1, <2>3, FirstHit
    <3>2. exit = Min(hits)
      BY <2>3 DEF ExitBar
    <3>3. exit \in hits /\ exit \in entry..last /\ \A k \in hits : exit <= k
      BY <2>1, <3>1, <3>2
    <3> HIDE DEF exit
    <3> QED BY <2>1, <3>3
  <2> QED BY <2>2, <2>3
<1>7. hits = {k \in entry..last : touch[k][1] # "none"}
  OBVIOUS
<1>8. series[exit] \in Candles
  <2> HIDE DEF exit, entry, last
  <2> QED BY <1>3, <1>6
<1>9. /\ (hits = {} => reason = "vertical" /\ at = series[exit].close)
      /\ (hits # {} => reason = touch[exit][1] /\ at = touch[exit][2] /\ reason # "none")
  <2>1. hits = {} => exit = last
    BY DEF ExitBar
  <2>2. hits # {} => touch[exit][1] # "none"
    <3> HIDE DEF exit, entry, last, hits, touch
    <3> QED BY <1>6, <1>7
  <2> HIDE DEF exit, entry, last, hits, touch
  <2> QED BY <2>1, <2>2
<1>10. at \in series[exit].low..series[exit].high /\ at \in Int
  <2>1. Touched(series[exit], up, lo, side, touch[exit])
    BY <1>4, <1>6
  <2> HIDE DEF exit, entry, last, hits, touch, at, reason, up, lo
  <2>2. at \in series[exit].low..series[exit].high
    BY <1>8, <1>9, <2>1, CandleTypes DEF Touched
  <2> QED BY <1>8, <2>2, CandleTypes, SMTT(30)
<1>11. \A k \in entry..(exit - 1) : series[k].high < up /\ series[k].low > lo
  <2> SUFFICES ASSUME NEW k \in entry..(exit - 1) PROVE series[k].high < up /\ series[k].low > lo
    OBVIOUS
  <2> HIDE DEF exit, entry, last, hits, touch, up, lo
  <2>1. k \in entry..last /\ touch[k][1] = "none"
    BY <1>6, <1>7
  <2> QED BY <1>4, <2>1 DEF Touched
<1>12. /\ reason \in {"vertical", "upper", "lower", "stop"}
       /\ reason = "upper" => at >= up
       /\ reason = "lower" => at <= lo
       /\ reason = "stop" => at = IF side = SHORT THEN up ELSE lo
  <2>1. Touched(series[exit], up, lo, side, touch[exit])
    BY <1>4, <1>6
  <2> HIDE DEF exit, entry, last, hits, touch, at, reason, up, lo
  <2> QED BY <1>9, <2>1 DEF Touched
<1>21. (lo < price /\ price < up) \/ (exit = entry /\ at = price)
  <2> SUFFICES ASSUME ~(lo < price /\ price < up) PROVE exit = entry /\ at = price
    OBVIOUS
  <2>1. entry \in hits
    <3>1. entry \in entry..last
      BY <1>1
    <3> HIDE DEF exit, entry, last, hits, touch, up, lo
    <3> QED BY <1>7, <1>20, <3>1
  <2>2. exit = entry
    <3>1. entry \in Nat /\ last \in Nat
      BY <1>1, BarrierTypes
    <3> HIDE DEF exit, entry, last, hits
    <3>2. exit \in entry..last /\ exit <= entry
      BY <1>6, <2>1, <3>1
    <3> QED BY <3>1, <3>2
  <2> HIDE DEF exit, entry, last, hits, touch, at, reason, up, lo
  <2> QED BY <1>9, <1>20, <2>1, <2>2
<1>13. /\ l.side = side /\ l.price = price /\ l.at = at /\ l.exit = exit /\ l.entry = entry /\ l.net = net
       /\ l.upper = up /\ l.lower = lo
       /\ l.reason = reason /\ l.label = LabelValue(reason, side, net, pol.signed)
  OBVIOUS
<1>14. exit \in Int /\ exit <= entry + Horizon
  <2> HIDE DEF exit
  <2>1. entry \in Nat /\ last \in Nat
    BY <1>1, BarrierTypes
  <2> HIDE DEF entry, last
  <2> QED BY <1>1, <1>6, <2>1, BarrierTypes
<1>15. net = NetReturn(side, price, at)
  OBVIOUS
<1>16. pol.signed \in BOOLEAN
  OBVIOUS
<1> HIDE DEF exit, entry, last, hits, touch, at, reason, up, lo, net, price, l
<1>17. LeftSide(l)
  BY <1>12, <1>13, <1>21 DEF LeftSide, BarrierAtEntry
<1>18. SignRight(l)
  BY <1>2, <1>10, <1>13, <1>15, <1>16, <1>17, SignFollows
<1>19. TradeSound(series, l)
  BY <1>2, <1>10, <1>11, <1>13, <1>14, <1>15, <1>18 DEF TradeSound
<1> QED BY <1>5, <1>13, <1>19 DEF entry

(* Terms bounded by a function of their rank add up to at most its sum     *)
(* over the ranks.                                                         *)
UpToHere(s, i) == {j \in s : j <= i}
RankBounds(f, h, s) == \A i \in s : f[i] \in Int /\ f[i] <= h[Cardinality(UpToHere(s, i))]

LEMMA RankedSum ==
  ASSUME NEW N \in Nat, NEW h \in [1..N -> Int], NEW f,
         NEW S \in SUBSET (1..N), RankBounds(f, h, S)
  PROVE  SumOver(f, S) <= SumOver(h, 1..Cardinality(S))
<1> DEFINE Good == {n \in Nat : \A s \in SUBSET (1..N) :
                      Cardinality(s) = n /\ RankBounds(f, h, s) => SumOver(f, s) <= SumOver(h, 1..n)}
<1>0. /\ IsFiniteSet(1..N) /\ Cardinality(1..N) = N
      /\ \A s \in SUBSET (1..N) : IsFiniteSet(s) /\ Cardinality(s) \in 0..N
  <2>1. IsFiniteSet(1..N) /\ Cardinality(1..N) = N
    BY FS_Interval
  <2>2. ASSUME NEW s \in SUBSET (1..N) PROVE IsFiniteSet(s) /\ Cardinality(s) \in 0..N
    <3>0. s \subseteq 1..N
      OBVIOUS
    <3> DEFINE all == 1..N
    <3>a. s \subseteq all /\ IsFiniteSet(all) /\ Cardinality(all) = N
      BY <3>0, <2>1
    <3>1. IsFiniteSet(s) /\ Cardinality(s) <= N
      <4> HIDE DEF all
      <4>1. IsFiniteSet(s) /\ Cardinality(s) <= Cardinality(all)
        BY <3>a, FS_Subset
      <4> QED BY <4>1, <3>a
    <3> QED BY <3>1, FS_CardinalityType
  <2> QED BY <2>1, <2>2
<1>1. 0 \in Good
  <2>1. \A s \in SUBSET (1..N) : Cardinality(s) = 0 => s = {}
    <3> SUFFICES ASSUME NEW s \in SUBSET (1..N), Cardinality(s) = 0 PROVE s = {}
      OBVIOUS
    <3>1. IsFiniteSet(s)
      BY <1>0
    <3> QED BY <3>1, FS_EmptySet
  <2>2. 1..0 = {}
    OBVIOUS
  <2>3. SumOver(f, {}) = 0 /\ SumOver(h, {}) = 0
    BY SumEmpty
  <2>4. \A s \in SUBSET (1..N) : Cardinality(s) = 0 => SumOver(f, s) <= SumOver(h, 1..0)
    <3> DEFINE none == 1..0
    <3>1. SumOver(h, none) = 0
      <4>1. none = {}
        BY <2>2
      <4> HIDE DEF none
      <4> QED BY <2>3, <4>1
    <3>2. ASSUME NEW s \in SUBSET (1..N), Cardinality(s) = 0 PROVE SumOver(f, s) = 0
      <4>1. s = {}
        BY <2>1, <3>2
      <4> QED BY <2>3, <4>1
    <3> HIDE DEF none
    <3>3. \A s \in SUBSET (1..N) : Cardinality(s) = 0 => SumOver(f, s) <= SumOver(h, none)
      BY <3>1, <3>2
    <3> QED BY <3>3 DEF none
  <2> QED BY <2>4
<1>2. ASSUME NEW n \in Nat, n \in Good PROVE n + 1 \in Good
  <2> SUFFICES ASSUME NEW s \in SUBSET (1..N), Cardinality(s) = n + 1, RankBounds(f, h, s)
               PROVE  SumOver(f, s) <= SumOver(h, 1..(n + 1))
    OBVIOUS
  <2>1. s # {}
    BY FS_EmptySet
  <2> DEFINE m == Max(s)
             r == s \ {m}
  <2>2. m \in s /\ \A x \in s : x <= m
    BY <2>1, GreatestOf
  <2>3. n + 1 \in 1..N
    BY <1>0
  <2> HIDE DEF m
  <2>4. r \in SUBSET (1..N) /\ Cardinality(r) = n
    BY <2>2, <1>0, SmallerBy
  <2>5. UpToHere(s, m) = s /\ \A i \in r : UpToHere(s, i) = UpToHere(r, i)
    <3>1. \A i \in s : i \in Int
      OBVIOUS
    <3>2. \A i \in r : i \in s /\ i <= m /\ i # m
      BY <2>2
    <3>3. ASSUME NEW i \in r, NEW j PROVE j \in UpToHere(s, i) <=> j \in UpToHere(r, i)
      <4>1. ~ (m <= i)
        BY <2>2, <3>1, <3>2
      <4> QED BY <2>2, <4>1 DEF UpToHere
    <3>4. \A i \in r : UpToHere(s, i) = UpToHere(r, i)
      <4> SUFFICES ASSUME NEW i \in r PROVE UpToHere(s, i) = UpToHere(r, i)
        OBVIOUS
      <4>1. UpToHere(s, i) \subseteq s /\ UpToHere(r, i) \subseteq r
        BY DEF UpToHere
      <4> QED BY <3>3, <4>1
    <3>5. UpToHere(s, m) = s
      BY <2>2 DEF UpToHere
    <3> QED BY <3>4, <3>5
  <2>6. RankBounds(f, h, r)
    BY <2>5 DEF RankBounds
  <2>7. SumOver(f, r) <= SumOver(h, 1..n)
    BY <1>2, <2>4, <2>6
  <2>8. f[m] \in Int /\ f[m] <= h[n + 1]
    BY <2>2, <2>5 DEF RankBounds
  <2>9. SumOver(f, s) = f[m] + SumOver(f, r) /\ SumOver(f, r) \in Int
    <3>1. IsFiniteSet(s) /\ IsFiniteSet(r) /\ \A x \in s : f[x] \in Int
      BY <1>0, <2>4 DEF RankBounds
    <3> QED BY <2>2, <3>1, SumRemove, SumInt
  <2>10. SumOver(h, 1..(n + 1)) = h[n + 1] + SumOver(h, 1..n) /\ SumOver(h, 1..n) \in Int
    <3>1. 1..(n + 1) \in SUBSET (1..N) /\ n + 1 \in 1..(n + 1) /\ (1..(n + 1)) \ {n + 1} = 1..n
      BY <2>3
    <3>2. IsFiniteSet(1..(n + 1)) /\ IsFiniteSet(1..n)
      BY FS_Interval
    <3>3. \A x \in 1..(n + 1) : h[x] \in Int
      BY <3>1
    <3> QED BY <3>1, <3>2, <3>3, SumRemove, SumInt, SMTT(30)
  <2>11. h[n + 1] \in Int
    BY <2>3
  <2> QED BY <2>7, <2>8, <2>9, <2>10, <2>11
<1>3. Nat \subseteq Good
  <2> HIDE DEF Good
  <2> QED BY <1>1, <1>2, SetInduction
<1>4. Cardinality(S) \in Good
  BY <1>0, <1>3
<1> QED BY <1>4

(* The two functions of the state.                                         *)
LabelsSound(series, ls) ==
  /\ DOMAIN ls \subseteq 1..EventCount
  /\ \A i \in DOMAIN ls : ls[i].entry = i + Delay /\ TradeSound(series, ls[i])

BarrierInvariant ==
  /\ LabelsSound(candles, labels)
  /\ DOMAIN metas \subseteq DOMAIN labels /\ DOMAIN sizes \subseteq DOMAIN labels
  /\ \A i \in DOMAIN metas : \E sig \in {LONG, SHORT} : metas[i] = MetaOf(labels[i], sig)
  /\ \A i \in DOMAIN sizes : \E stake \in Stakes :
       sizes[i] = [stake |-> stake, size |-> BetSize(labels, i, stake)]

THEOREM BarrierInductive == BarrierSpec => []BarrierInvariant
<1>1. BarrierInit => BarrierInvariant
  <2>1. DOMAIN <<>> = {}
    OBVIOUS
  <2> QED BY <2>1 DEF BarrierInit, BarrierInvariant, LabelsSound
<1>2. BarrierInvariant /\ [BarrierNext]_barrierVars => BarrierInvariant'
  <2> SUFFICES ASSUME BarrierInvariant, [BarrierNext]_barrierVars PROVE BarrierInvariant'
    OBVIOUS
  <2>1. ASSUME NEW series \in [1..SeriesLength -> Candles], NEW sides \in [1..EventCount -> {LONG, SHORT, UNSIGNED}],
               NEW pol \in [pessimistic : BOOLEAN, signed : BOOLEAN, tick : Ticks],
               LabelBatch(series, sides, pol)
        PROVE  BarrierInvariant'
    <3> DEFINE kept == {e \in 1..EventCount : e + Delay <= SeriesLength}
    <3>1. labels' = [i \in kept |-> LabelOf(series, i, sides[i], pol)] /\ candles' = series
          /\ labels = <<>> /\ metas' = metas /\ sizes' = sizes
      BY <2>1 DEF LabelBatch
    <3>2. DOMAIN metas = {} /\ DOMAIN sizes = {}
      <4>1. DOMAIN labels = {}
        BY <3>1
      <4> QED BY <4>1 DEF BarrierInvariant
    <3>4. \A i \in kept : i \in Nat \ {0} /\ i + Delay <= SeriesLength /\ sides[i] \in Sides
      BY BarrierTypes DEF Sides
    <3>5. kept \subseteq 1..EventCount
      OBVIOUS
    <3> HIDE DEF kept
    <3>6. \A i \in kept : /\ LabelOf(series, i, sides[i], pol).entry = i + Delay
                          /\ TradeSound(series, LabelOf(series, i, sides[i], pol))
      BY <3>4, LabelSound
    <3>7. LabelsSound(series, [i \in kept |-> LabelOf(series, i, sides[i], pol)])
      BY <3>5, <3>6 DEF LabelsSound
    <3>8. LabelsSound(candles, labels)'
      BY <3>1, <3>7
    <3>9. DOMAIN metas' = {} /\ DOMAIN sizes' = {}
      BY <3>1, <3>2
    <3> QED BY <3>8, <3>9 DEF BarrierInvariant
  <2>2. ASSUME NEW sig \in {LONG, SHORT}, NEW stakes \in [1..EventCount -> Stakes],
               MetaLabelBatch(sig, stakes)
        PROVE  BarrierInvariant'
    <3>1. /\ metas' = [i \in DOMAIN labels |-> MetaOf(labels[i], sig)]
          /\ sizes' = [i \in DOMAIN labels |-> [stake |-> stakes[i], size |-> BetSize(labels, i, stakes[i])]]
          /\ labels' = labels /\ candles' = candles
      BY <2>2 DEF MetaLabelBatch
    <3>2. LabelsSound(candles, labels)'
      BY <3>1 DEF BarrierInvariant
    <3>3. \A i \in DOMAIN labels : stakes[i] \in Stakes
      BY DEF BarrierInvariant, LabelsSound
    <3>4. \A i \in DOMAIN metas' : \E sg \in {LONG, SHORT} : metas'[i] = MetaOf(labels'[i], sg)
      BY <3>1
    <3>5. \A i \in DOMAIN sizes' : \E stake \in Stakes :
            sizes'[i] = [stake |-> stake, size |-> BetSize(labels', i, stake)]
      BY <3>1, <3>3
    <3>6. DOMAIN metas' \subseteq DOMAIN labels' /\ DOMAIN sizes' \subseteq DOMAIN labels'
      BY <3>1
    <3> QED BY <3>2, <3>4, <3>5, <3>6 DEF BarrierInvariant
  <2>3. CASE UNCHANGED barrierVars
    BY <2>3 DEF barrierVars, BarrierInvariant, LabelsSound, BetSize, Concurrency
  <2> QED BY <2>1, <2>2, <2>3 DEF BarrierNext
<1> QED BY <1>1, <1>2, PTL DEF BarrierSpec

(* What a signal is paid, and what it would have earned.                   *)
LEMMA MetasExplained == ASSUME BarrierInvariant PROVE MetaLabelCostExplained
<1> SUFFICES ASSUME NEW i \in DOMAIN metas
             PROVE  LET l == labels[i]
                        gross == (l.at - l.price) * metas[i].signal
                    IN  ~(metas[i].label = 1 <=> gross > RoundTripFriction) =>
                          \/ l.side = -metas[i].signal /\ gross \in (1 - RoundTripFriction)..RoundTripFriction
                          \/ l.side = UNSIGNED /\ metas[i].signal = LONG /\ gross < -RoundTripFriction
                          \/ l.side = UNSIGNED /\ metas[i].signal = SHORT
                               /\ (metas[i].label = 1 => gross < RoundTripFriction /\ -gross < RoundTripFriction)
  BY DEF MetaLabelCostExplained
<1> DEFINE l == labels[i]
           won == metas[i].label = 1
<1>1. PICK sig \in {LONG, SHORT} : metas[i] = MetaOf(l, sig)
  BY DEF BarrierInvariant
<1>2. TradeSound(candles, l)
  BY DEF BarrierInvariant, LabelsSound
<1>3. l.at \in Int /\ l.price \in Int /\ l.net = NetReturn(l.side, l.price, l.at) /\ l.side \in Sides
  BY <1>2 DEF TradeSound
<1>4. /\ metas[i].signal = sig
      /\ won <=> (IF sig = l.side \/ (l.side = UNSIGNED /\ sig = LONG) THEN l.net ELSE -l.net) > 0
  BY <1>1 DEF MetaOf
<1> DEFINE gain == (l.at - l.price) * sig
<1>5. gain = IF sig = LONG THEN l.at - l.price ELSE l.price - l.at
  BY <1>1, <1>3 DEF LONG, SHORT
<1> HIDE DEF l, won, gain
<1>6. CASE l.side = sig
  <2>1. won <=> gain > RoundTripFriction
    BY <1>1, <1>3, <1>4, <1>5, <1>6, BarrierTypes DEF NetReturn, LONG, SHORT, UNSIGNED
  <2> QED BY <1>4, <2>1 DEF l, won, gain
<1>7. CASE l.side # UNSIGNED /\ l.side # sig
  <2>1. l.side = -sig /\ gain \in Int
    BY <1>1, <1>3, <1>5, <1>7 DEF Sides, LONG, SHORT, UNSIGNED
  <2>2. won <=> gain > -RoundTripFriction
    BY <1>1, <1>3, <1>4, <1>5, <1>7, BarrierTypes DEF NetReturn, Sides, LONG, SHORT, UNSIGNED
  <2>4. gain > RoundTripFriction => won
    BY <2>1, <2>2, BarrierTypes
  <2>5. won /\ ~(gain > RoundTripFriction) => gain \in (1 - RoundTripFriction)..RoundTripFriction
    BY <2>1, <2>2, BarrierTypes
  <2>3. ~(won <=> gain > RoundTripFriction) => gain \in (1 - RoundTripFriction)..RoundTripFriction
    BY <2>4, <2>5
  <2> QED BY <1>4, <2>1, <2>3 DEF l, won, gain
<1>8. CASE l.side = UNSIGNED /\ sig = LONG
  <2>2. gain > RoundTripFriction => won
    BY <1>3, <1>4, <1>5, <1>8, BarrierTypes DEF NetReturn, LONG, SHORT, UNSIGNED
  <2>3. won /\ ~(gain > RoundTripFriction) => gain < -RoundTripFriction
    BY <1>3, <1>4, <1>5, <1>8, BarrierTypes DEF NetReturn, LONG, SHORT, UNSIGNED
  <2>1. ~(won <=> gain > RoundTripFriction) => gain < -RoundTripFriction
    BY <2>2, <2>3
  <2> QED BY <1>4, <1>8, <2>1 DEF l, won, gain
<1>9. CASE l.side = UNSIGNED /\ sig = SHORT
  <2>1. won => gain < RoundTripFriction /\ -gain < RoundTripFriction
    BY <1>3, <1>4, <1>5, <1>9, BarrierTypes DEF NetReturn, LONG, SHORT, UNSIGNED
  <2> QED BY <1>4, <1>9, <2>1 DEF l, won, gain
<1> QED BY <1>1, <1>6, <1>7, <1>8, <1>9

(* The largest stake among the bets of a set.                              *)
LEMMA TopStake ==
  ASSUME NEW S \in SUBSET (1..EventCount), NEW f, \A i \in S : f[i].stake \in Nat
  PROVE  LET top == Max({0} \cup {f[i].stake : i \in S})
         IN  top \in Nat /\ \A i \in S : f[i].stake <= top
<1> DEFINE T == {f[i].stake : i \in S}
           g == [i \in S |-> f[i].stake]
<1>1. IsFiniteSet(S)
  <2>1. IsFiniteSet(1..EventCount)
    BY BarrierTypes, FS_Interval
  <2> QED BY <2>1, FS_Subset
<1>2. g \in Surjection(S, T)
  BY DEF Surjection
<1>3. IsFiniteSet(T)
  BY <1>1, <1>2, FS_Surjection
<1>4. IsFiniteSet({0} \cup T) /\ {0} \cup T \subseteq Nat
  <2>1. {0} \cup T \subseteq Nat
    OBVIOUS
  <2> HIDE DEF T
  <2>2. IsFiniteSet(T \cup {0})
    BY <1>3, FS_AddElement
  <2>3. T \cup {0} = {0} \cup T
    OBVIOUS
  <2> QED BY <2>1, <2>2, <2>3
<1> DEFINE U == {0} \cup T
<1>5. Max(U) \in U /\ \A x \in U : x <= Max(U)
  <2>1. IsFiniteSet(U) /\ U \subseteq Int /\ U # {}
    BY <1>4
  <2> HIDE DEF U
  <2> QED BY <2>1, MaxOfFinite
<1>6. \A i \in S : f[i].stake \in U
  OBVIOUS
<1>7. Max(U) \in Nat
  BY <1>4, <1>5
<1> HIDE DEF U
<1>8. Max(U) \in Nat /\ \A i \in S : f[i].stake <= Max(U)
  BY <1>5, <1>6, <1>7
<1> QED BY <1>8 DEF U

(* A larger stake among fewer bets is no smaller a bet.                    *)
LEMMA StakeShare ==
  ASSUME NEW k \in Nat, NEW top \in Nat, k <= top,
         NEW a \in Nat \ {0}, NEW u \in Nat \ {0}, u <= a
  PROVE  /\ k \div a \in Nat /\ top \div u \in Nat
         /\ Min({LeverageCap, k \div a}) \in Int
         /\ Min({LeverageCap, k \div a}) <= Min({LeverageCap, top \div u})
<1> DEFINE x == k \div a
           y == top \div u
<1>2. x \in Nat /\ y \in Nat /\ a * x <= k /\ top < u * (y + 1)
  OBVIOUS
<1> HIDE DEF x, y
<1>3. ~ (y + 1 <= x)
  <2> SUFFICES ASSUME y + 1 <= x PROVE FALSE
    OBVIOUS
  <2>1. u * (y + 1) <= u * x
    BY <1>2
  <2>2. u * x <= a * x
    BY <1>2
  <2>3. u * (y + 1) \in Nat /\ u * x \in Nat /\ a * x \in Nat
    BY <1>2
  <2> QED BY <1>2, <2>1, <2>2, <2>3
<1>4. x <= y
  BY <1>2, <1>3
<1>5. /\ Min({LeverageCap, x}) = IF LeverageCap <= x THEN LeverageCap ELSE x
      /\ Min({LeverageCap, y}) = IF LeverageCap <= y THEN LeverageCap ELSE y
  BY <1>2, BarrierTypes, SmallerOfTwo
<1>6. /\ x \in Nat /\ y \in Nat /\ Min({LeverageCap, x}) \in Int
      /\ Min({LeverageCap, x}) <= Min({LeverageCap, y})
  BY <1>2, <1>4, <1>5, BarrierTypes
<1> QED BY <1>6 DEF x, y

(* Of the bets open at t, one sees at its entry at least those entered     *)
(* before it and itself.                                                   *)
LEMMA BetsBounded == ASSUME BarrierInvariant PROVE OpenBetsBounded
<1> DEFINE Open(t) == {i \in DOMAIN sizes : labels[i].entry <= t /\ t < labels[i].exit}
           f == [i \in DOMAIN sizes |-> sizes[i].size]
           Top(t) == Max({0} \cup {sizes[i].stake : i \in Open(t)})
           H(t) == [n \in 1..EventCount |-> Min({LeverageCap, Top(t) \div n})]
<1> SUFFICES ASSUME NEW t \in 1..SeriesLength
             PROVE  SumFunctionOnSet(f, Open(t)) <= SumFunctionOnSet(H(t), 1..Cardinality(Open(t)))
  BY DEF OpenBetsBounded
<1> DEFINE S == Open(t)
           top == Top(t)
           h == H(t)
<1>1. /\ DOMAIN labels \subseteq 1..EventCount /\ DOMAIN sizes \subseteq DOMAIN labels
      /\ \A i \in DOMAIN labels : labels[i].entry = i + Delay /\ labels[i].exit \in Int
      /\ \A i \in DOMAIN sizes : \E stake \in Stakes :
           sizes[i] = [stake |-> stake, size |-> BetSize(labels, i, stake)]
  BY DEF BarrierInvariant, LabelsSound, TradeSound
<1>2. S \in SUBSET (1..EventCount) /\ S \subseteq DOMAIN labels /\ S \subseteq DOMAIN sizes
  BY <1>1
<1>8. /\ \A i \in S : f[i] = sizes[i].size
      /\ \A n \in 1..EventCount : h[n] = Min({LeverageCap, top \div n})
      /\ h = [n \in 1..EventCount |-> h[n]]
  OBVIOUS
<1>9. top \in Nat /\ \A i \in S : sizes[i].stake <= top
  <2>1. \A i \in S : sizes[i].stake \in Nat
    BY <1>1, <1>2, BarrierTypes
  <2> DEFINE top0 == Max({0} \cup {sizes[i].stake : i \in S})
  <2>2. top = top0
    OBVIOUS
  <2> HIDE DEF S, top
  <2>3. top0 \in Nat /\ \A i \in S : sizes[i].stake <= top0
    BY <1>2, <2>1, TopStake
  <2> QED BY <2>2, <2>3
<1>3. h \in [1..EventCount -> Int]
  <2>1. \A n \in 1..EventCount : h[n] \in Int
    <3> SUFFICES ASSUME NEW n \in 1..EventCount PROVE h[n] \in Int
      OBVIOUS
    <3> HIDE DEF top, h
    <3>1. n \in Nat \ {0} /\ top \in Nat /\ top <= top /\ n <= n
      BY <1>9, BarrierTypes
    <3>2. Min({LeverageCap, top \div n}) \in Int
      BY <3>1, StakeShare, Zenon
    <3> QED BY <1>8, <3>2
  <2> HIDE DEF h
  <2> QED BY <1>8, <2>1
<1>4. IsFiniteSet(1..EventCount) /\ Cardinality(1..EventCount) = EventCount
  BY BarrierTypes, FS_Interval
<1> HIDE DEF f, h, top
<1>5. ASSUME NEW i \in S
      PROVE  f[i] \in Int /\ f[i] <= h[Cardinality(UpToHere(S, i))]
  <2> DEFINE A == {j \in DOMAIN labels : labels[j].entry <= labels[i].entry /\ labels[j].exit > labels[i].entry}
             U == UpToHere(S, i)
  <2>1. PICK stake \in Stakes : sizes[i] = [stake |-> stake, size |-> BetSize(labels, i, stake)]
    BY <1>1, <1>2
  <2>2. U \subseteq A
    BY <1>1, <1>2, BarrierTypes DEF UpToHere
  <2>3. A \subseteq 1..EventCount /\ i \in U
    BY <1>1, <1>2 DEF UpToHere
  <2>12. f[i] = Min({LeverageCap, stake \div Max({1, Cardinality(A)})}) /\ stake <= top /\ stake \in Nat
    <3>1. BetSize(labels, i, stake) = Min({LeverageCap, stake \div Max({1, Cardinality(A)})})
      BY DEF BetSize, Concurrency
    <3>2. f[i] = BetSize(labels, i, stake) /\ sizes[i].stake = stake
      BY <1>8, <2>1
    <3> HIDE DEF A, S
    <3> QED BY <1>9, <3>1, <3>2, BarrierTypes
  <2> HIDE DEF A, U
  <2>4. /\ IsFiniteSet(A) /\ Cardinality(A) <= EventCount
        /\ Cardinality(U) <= Cardinality(A) /\ IsFiniteSet(U)
    BY <1>4, <2>2, <2>3, FS_Subset, ZenonT(30)
  <2>5. Cardinality(A) \in Nat /\ Cardinality(U) \in Nat /\ Cardinality(U) # 0
    BY <2>3, <2>4, FS_CardinalityType, FS_EmptySet
  <2> DEFINE u == Cardinality(U)
             a == Cardinality(A)
  <2>6. a \in Nat \ {0} /\ u \in Nat \ {0} /\ u <= a /\ a <= EventCount
    BY <2>4, <2>5
  <2>7. f[i] = Min({LeverageCap, stake \div Max({1, a})})
    BY <2>12
  <2>8. h[u] = Min({LeverageCap, top \div u})
    <3> HIDE DEF u, a
    <3>1. u \in 1..EventCount
      BY <2>6, BarrierTypes
    <3> QED BY <1>8, <3>1
  <2>9. u = Cardinality(UpToHere(S, i))
    BY DEF U
  <2> HIDE DEF u, a, S
  <2>10. Max({1, a}) = a
    BY <2>6, LargerOfTwo
  <2>11. /\ Min({LeverageCap, stake \div a}) \in Int
         /\ Min({LeverageCap, stake \div a}) <= Min({LeverageCap, top \div u})
    BY <1>9, <2>6, <2>12, StakeShare
  <2> QED BY <2>7, <2>8, <2>9, <2>10, <2>11, Zenon
<1>6. RankBounds(f, h, S)
  <2> HIDE DEF S
  <2> QED BY <1>5 DEF RankBounds
<1>7. SumOver(f, S) <= SumOver(h, 1..Cardinality(S))
  <2> HIDE DEF S
  <2> QED BY <1>2, <1>3, <1>6, BarrierTypes, RankedSum
<1> QED BY <1>7, SumsAgree DEF f, h, top

THEOREM LabelsExplainedHolds == BarrierSpec => []LabelsExplained
<1>1. ASSUME BarrierInvariant PROVE LabelsExplained
  <2>1. ExitWasTradable
    BY <1>1 DEF BarrierInvariant, LabelsSound, TradeSound, ExitWasTradable
  <2>2. LabelSignExplained
    <3>1. \A i \in DOMAIN labels : SignRight(labels[i])
      BY <1>1 DEF BarrierInvariant, LabelsSound, TradeSound
    <3> QED BY <3>1 DEF LabelSignExplained, SignRight
  <2> QED BY <1>1, <2>1, <2>2, MetasExplained, BetsBounded DEF LabelsExplained
<1>2. BarrierSpec => []LabelsExplained
  <2>1. BarrierInvariant => LabelsExplained
    BY <1>1
  <2> QED BY <2>1, BarrierInductive, PTL
<1> QED BY <1>2



-----------------------------------------------------------------------------
(* Backtests                                                               *)

LEMMA ReplayTypes ==
  /\ Capital \in Nat \ {0} /\ Unit \in Nat \ {0} /\ MaxLeverage \in Nat \ {0}
  /\ Fee \in Nat /\ MinReplayBars \in Nat \ {0} /\ Lengths \subseteq Nat /\ Returns \subseteq Int
  /\ Holdings \subseteq Int
  /\ \A n \in DOMAIN Impact : Impact[n] \in Nat
  /\ \A a, b \in Holdings \cup {0} : Magnitude(a - b) \in DOMAIN Impact
  BY ReplayAssumption, SizerAssumption DEF SimulationConfig

(* The assets are a finite set.                                            *)
LEMMA AssetsFinite == IsFiniteSet(Assets)
<1>1. Assets = 1..Len(Cvar) /\ Len(Cvar) \in Nat
  BY SizerAssumption DEF Assets, SizingConfig
<1> QED BY <1>1, FS_Interval

(* Allocations and their sums.                                             *)
Alloc == [Assets -> Int]
Earn(h, ret) == [i \in Assets |-> h[i] * ret[i]]

LEMMA TotalIs == ASSUME NEW f, NEW D, DOMAIN f = D PROVE Total(f) = SumOver(f, D)
  BY SumsAgree DEF Total

LEMMA TotalOfAlloc ==
  ASSUME NEW x \in Alloc
  PROVE  /\ Total(x) \in Int
         /\ (\A i \in Assets : x[i] >= 0) => Total(x) >= 0
         /\ (\A i \in Assets : x[i] = 0) => Total(x) = 0
<1>1. DOMAIN x = Assets /\ \A i \in Assets : x[i] \in Int
  BY DEF Alloc
<1>2. Total(x) = SumOver(x, Assets) /\ SumOver(x, Assets) \in Int
  BY <1>1, TotalIs, SumInt, AssetsFinite
<1>3. ASSUME \A i \in Assets : x[i] = 0 PROVE SumOver(x, Assets) = 0
  BY <1>3, AssetsFinite, SumZero
<1>4. ASSUME \A i \in Assets : x[i] >= 0 PROVE SumOver(x, Assets) >= 0
  <2> DEFINE z == [i \in Assets |-> 0]
  <2>1. \A i \in Assets : z[i] = 0 /\ z[i] \in Int
    OBVIOUS
  <2> HIDE DEF z
  <2>2. SumOver(z, Assets) = 0
    BY <2>1, AssetsFinite, SumZero
  <2>3. SumOver(z, Assets) <= SumOver(x, Assets)
    BY <1>1, <1>4, <2>1, AssetsFinite, SumAtMost
  <2> QED BY <1>2, <2>2, <2>3
<1> QED BY <1>2, <1>3, <1>4

LEMMA FlatIs == Flat \in Alloc /\ \A i \in Assets : Flat[i] = 0
  BY DEF Flat, Zeros, Alloc

LEMMA EarnTyped ==
  ASSUME NEW h \in Alloc, NEW ret \in Alloc
  PROVE  /\ Earn(h, ret) \in Alloc /\ Total(Earn(h, ret)) \in Int
         /\ h = Flat => Total(Earn(h, ret)) = 0
<1>1. Earn(h, ret) \in Alloc
  BY DEF Earn, Alloc
<1>2. h = Flat => \A i \in Assets : Earn(h, ret)[i] = 0
  BY FlatIs DEF Earn, Alloc
<1> QED BY <1>1, <1>2, TotalOfAlloc

(* The log of a backtest: its records, the returns it has seen, and where  *)
(* the ledger stands after them.                                           *)
HeldBefore(R, i) == IF i = 1 THEN Flat ELSE R[i - 1].holding
WorthAfter(R, i) == IF i = 0 THEN Capital ELSE R[i].equity

RecordSet ==
  [holding : Alloc, gross : Int, friction : Nat, equity : Nat \ {0}, drawdown : Int \X Nat, tier : Int]

Log(R, h, e, pk) ==
  /\ R \in Seq(RecordSet) /\ h \in Alloc /\ e \in Nat \ {0} /\ pk \in Nat \ {0}
  /\ h = HeldBefore(R, Len(R) + 1) /\ e = WorthAfter(R, Len(R))
  /\ \A j \in 0..Len(R) : WorthAfter(R, j) <= pk

(* The drawdown of a record is counted from the highest equity so far.     *)
FromPeak(R, i) ==
  \E top \in Nat \ {0} : /\ R[i].drawdown = <<top - R[i].equity, top>>
                         /\ \A j \in 0..i : WorthAfter(R, j) <= top

Sober(R, i) ==
  /\ FromPeak(R, i)
  /\ R[i].tier \in {DERISK, HALT} => R[i].holding = Flat
  /\ HeldBefore(R, i) = Flat => WorthAfter(R, i) <= WorthAfter(R, i - 1)
  /\ Total(Magnitudes(R[i].holding)) * Unit <= MaxLeverage * WorthAfter(R, i - 1)

Frictions(R) == [i \in DOMAIN R |-> R[i].friction]
Grosses(R, S) == [i \in DOMAIN R |-> Total(Earn(HeldBefore(R, i), S[i]))]

AddsUpTo(R, S, e) ==
  /\ S \in Seq(Alloc) /\ Len(S) = Len(R)
  /\ e = Capital - Total(Frictions(R)) + Total(Grosses(R, S))

LEMMA LogTypes ==
  ASSUME NEW R \in Seq(RecordSet)
  PROVE  /\ Len(R) \in Nat /\ DOMAIN R = 1..Len(R)
         /\ \A i \in 1..Len(R) : /\ R[i] \in RecordSet /\ R[i].holding \in Alloc /\ R[i].gross \in Int
                                 /\ R[i].friction \in Nat /\ R[i].equity \in Nat \ {0}
         /\ \A i \in 0..Len(R) : WorthAfter(R, i) \in Nat \ {0}
         /\ \A i \in 1..(Len(R) + 1) : HeldBefore(R, i) \in Alloc
<1>1. Len(R) \in Nat /\ DOMAIN R = 1..Len(R) /\ \A i \in 1..Len(R) : R[i] \in RecordSet
  BY LenProperties
<1>2. \A i \in 1..Len(R) : R[i].holding \in Alloc /\ R[i].gross \in Int /\ R[i].friction \in Nat /\ R[i].equity \in Nat \ {0}
  BY <1>1 DEF RecordSet
<1>3. \A i \in 0..Len(R) : WorthAfter(R, i) \in Nat \ {0}
  BY <1>1, <1>2, ReplayTypes DEF WorthAfter
<1>4. \A i \in 1..(Len(R) + 1) : HeldBefore(R, i) \in Alloc
  <2> SUFFICES ASSUME NEW i \in 1..(Len(R) + 1) PROVE HeldBefore(R, i) \in Alloc
    OBVIOUS
  <2>1. i = 1 \/ i - 1 \in 1..Len(R)
    BY <1>1
  <2> QED BY <1>2, <2>1, FlatIs DEF HeldBefore
<1> QED BY <1>1, <1>2, <1>3, <1>4

(* A bar's record follows the log.                                         *)
NewRecord(R, h, e, pk, x, gross, cost, t) ==
  [holding |-> x, gross |-> gross, friction |-> cost, equity |-> e + gross - cost,
   drawdown |-> <<Max({pk, e + gross - cost}) - (e + gross - cost), Max({pk, e + gross - cost})>>, tier |-> t]

LEMMA AppendLooks ==
  ASSUME NEW R \in Seq(RecordSet), NEW r \in RecordSet
  PROVE  /\ Append(R, r) \in Seq(RecordSet) /\ Len(Append(R, r)) = Len(R) + 1
         /\ DOMAIN Append(R, r) = 1..(Len(R) + 1)
         /\ \A i \in 1..Len(R) : Append(R, r)[i] = R[i]
         /\ Append(R, r)[Len(R) + 1] = r
         /\ \A j \in 0..Len(R) : WorthAfter(Append(R, r), j) = WorthAfter(R, j)
         /\ WorthAfter(Append(R, r), Len(R) + 1) = r.equity
         /\ \A i \in 1..(Len(R) + 1) : HeldBefore(Append(R, r), i) = HeldBefore(R, i)
         /\ HeldBefore(Append(R, r), Len(R) + 2) = r.holding
<1> DEFINE A == Append(R, r)
<1>1. /\ A \in Seq(RecordSet) /\ Len(A) = Len(R) + 1 /\ DOMAIN A = 1..(Len(R) + 1)
      /\ \A i \in 1..Len(R) : A[i] = R[i]
      /\ A[Len(R) + 1] = r /\ Len(R) \in Nat
  BY AppendProperties, LenProperties
<1> HIDE DEF A
<1>2. \A j \in 0..Len(R) : WorthAfter(A, j) = WorthAfter(R, j)
  BY <1>1 DEF WorthAfter
<1>3. WorthAfter(A, Len(R) + 1) = r.equity
  BY <1>1 DEF WorthAfter
<1>4. \A i \in 1..(Len(R) + 1) : HeldBefore(A, i) = HeldBefore(R, i)
  <2> SUFFICES ASSUME NEW i \in 1..(Len(R) + 1) PROVE HeldBefore(A, i) = HeldBefore(R, i)
    OBVIOUS
  <2>1. i = 1 \/ i - 1 \in 1..Len(R)
    BY <1>1
  <2> QED BY <1>1, <2>1 DEF HeldBefore
<1>5. HeldBefore(A, Len(R) + 2) = r.holding
  BY <1>1 DEF HeldBefore
<1> QED BY <1>1, <1>2, <1>3, <1>4, <1>5 DEF A

(* The record is typed and its peak is above every equity so far.          *)
LEMMA RecordTyped ==
  ASSUME NEW R, NEW h, NEW e, NEW pk, Log(R, h, e, pk),
         NEW x \in Alloc, NEW gross \in Int, NEW cost \in Nat, NEW t \in Int, e + gross - cost > 0
  PROVE  /\ NewRecord(R, h, e, pk, x, gross, cost, t) \in RecordSet
         /\ Max({pk, e + gross - cost}) \in Nat \ {0}
         /\ pk <= Max({pk, e + gross - cost}) /\ e + gross - cost <= Max({pk, e + gross - cost})
<1> DEFINE w == e + gross - cost
           top == Max({pk, w})
<1>1. pk \in Nat \ {0} /\ e \in Nat \ {0}
  BY DEF Log
<1>2. w \in Nat \ {0}
  BY <1>1
<1> HIDE DEF w
<1>3. top = IF pk >= w THEN pk ELSE w
  BY <1>1, <1>2, LargerOfTwo
<1> HIDE DEF top
<1>4. top \in Nat \ {0} /\ pk <= top /\ w <= top
  BY <1>1, <1>2, <1>3
<1>5. [holding |-> x, gross |-> gross, friction |-> cost, equity |-> w,
       drawdown |-> <<top - w, top>>, tier |-> t] \in RecordSet
  <2>1. top - w \in Int /\ top \in Nat
    BY <1>2, <1>4
  <2> QED BY <1>2, <2>1 DEF RecordSet
<1> QED BY <1>4, <1>5 DEF NewRecord, top, w

LEMMA LogGrows ==
  ASSUME NEW R, NEW h, NEW e, NEW pk, Log(R, h, e, pk), \A i \in 1..Len(R) : Sober(R, i),
         NEW x \in Alloc, NEW gross \in Int, NEW cost \in Nat, NEW t \in Int, e + gross - cost > 0,
         t \in {DERISK, HALT} => x = Flat,
         h = Flat => gross <= 0,
         Total(Magnitudes(x)) * Unit <= MaxLeverage * e,
         NEW r, r = NewRecord(R, h, e, pk, x, gross, cost, t)
  PROVE  /\ Log(Append(R, r), x, e + gross - cost, Max({pk, e + gross - cost}))
         /\ \A i \in 1..Len(Append(R, r)) : Sober(Append(R, r), i)
<1> DEFINE w == e + gross - cost
           top == Max({pk, w})
           A == Append(R, r)
           n == Len(R)
<1>1. /\ r \in RecordSet /\ top \in Nat \ {0} /\ pk <= top /\ w <= top
  BY RecordTyped
<1>2. R \in Seq(RecordSet) /\ n \in Nat /\ e \in Nat \ {0} /\ pk \in Nat \ {0}
      /\ h = HeldBefore(R, n + 1) /\ e = WorthAfter(R, n) /\ \A j \in 0..n : WorthAfter(R, j) <= pk
  BY LogTypes DEF Log
<1>3. r.holding = x /\ r.equity = w /\ r.drawdown = <<top - w, top>> /\ r.tier = t
  BY DEF NewRecord
<1>4. w \in Nat \ {0} /\ (h = Flat => w <= e)
  BY <1>2
<1> HIDE DEF w, top, A, n
<1>5. /\ A \in Seq(RecordSet) /\ Len(A) = n + 1
      /\ (\A i \in 1..n : A[i] = R[i]) /\ A[n + 1] = r
      /\ (\A j \in 0..n : WorthAfter(A, j) = WorthAfter(R, j)) /\ WorthAfter(A, n + 1) = w
      /\ (\A i \in 1..(n + 1) : HeldBefore(A, i) = HeldBefore(R, i)) /\ HeldBefore(A, n + 2) = x
  BY <1>1, <1>2, <1>3, AppendLooks DEF A, n
<1>6. \A j \in 0..(n + 1) : WorthAfter(A, j) <= top
  <2> SUFFICES ASSUME NEW j \in 0..(n + 1) PROVE WorthAfter(A, j) <= top
    OBVIOUS
  <2>1. CASE j = n + 1
    BY <1>1, <1>5, <2>1
  <2>2. CASE j \in 0..n
    <3>1. WorthAfter(R, j) \in Nat
      BY <1>2, <2>2, LogTypes DEF n
    <3> QED BY <1>1, <1>2, <1>5, <2>2, <3>1, SMTT(30)
  <2> QED BY <1>2, <2>1, <2>2
<1>7. Log(A, x, w, top)
  <2>1. (n + 1) + 1 = n + 2
    BY <1>2
  <2> QED BY <1>1, <1>4, <1>5, <1>6, <2>1 DEF Log
<1>8. Sober(A, n + 1)
  <2>1. FromPeak(A, n + 1)
    <3>1. A[n + 1].equity = w /\ A[n + 1].drawdown = <<top - w, top>>
      BY <1>3, <1>5
    <3> QED BY <1>1, <1>6, <3>1 DEF FromPeak
  <2>2. (n + 1) - 1 = n /\ n + 1 \in 1..(n + 1) /\ n \in 0..n
    BY <1>2
  <2>3. HeldBefore(A, n + 1) = h /\ WorthAfter(A, n) = e /\ WorthAfter(A, n + 1) = w
    BY <1>2, <1>5, <2>2
  <2>4. A[n + 1].holding = x /\ A[n + 1].tier = t
    BY <1>3, <1>5
  <2> QED BY <1>4, <2>1, <2>2, <2>3, <2>4 DEF Sober
<1>9. ASSUME NEW i \in 1..n PROVE Sober(A, i)
  <2>1. Sober(R, i)
    BY DEF n
  <2>2. A[i] = R[i] /\ HeldBefore(A, i) = HeldBefore(R, i) /\ WorthAfter(A, i) = WorthAfter(R, i)
        /\ WorthAfter(A, i - 1) = WorthAfter(R, i - 1)
        /\ \A j \in 0..i : WorthAfter(A, j) = WorthAfter(R, j)
    BY <1>2, <1>5
  <2>3. FromPeak(A, i)
    BY <2>1, <2>2 DEF Sober, FromPeak
  <2> QED BY <2>1, <2>2, <2>3 DEF Sober
<1>10. \A i \in 1..Len(A) : Sober(A, i)
  <2>1. \A i \in 1..(n + 1) : i = n + 1 \/ i \in 1..n
    BY <1>2
  <2> QED BY <1>5, <1>8, <1>9, <2>1
<1> QED BY <1>7, <1>10 DEF A, w, top

(* Frictions and earnings add up, bar by bar.                              *)
Extends(f, g, n) ==
  /\ DOMAIN f = 1..n /\ DOMAIN g = 1..(n + 1)
  /\ \A i \in 1..n : f[i] \in Int /\ g[i] = f[i]
  /\ g[n + 1] \in Int

LEMMA SumsGrow ==
  ASSUME NEW n \in Nat, NEW f, NEW g, Extends(f, g, n)
  PROVE  Total(g) = Total(f) + g[n + 1] /\ Total(f) \in Int
<1> DEFINE D == 1..n
           E == 1..(n + 1)
<1>0. E \ {n + 1} = D /\ n + 1 \in E
  OBVIOUS
<1>1. IsFiniteSet(D) /\ IsFiniteSet(E) /\ E \ {n + 1} = D /\ n + 1 \in E
  <2>1. IsFiniteSet(D) /\ IsFiniteSet(E)
    BY FS_Interval
  <2> HIDE DEF D, E
  <2> QED BY <1>0, <2>1
<1>2. (\A i \in D : f[i] \in Int /\ g[i] = f[i]) /\ \A i \in E : g[i] \in Int
  <2>1. \A i \in E : i \in D \/ i = n + 1
    OBVIOUS
  <2> QED BY <2>1 DEF Extends
<1>3. Total(f) = SumOver(f, D) /\ Total(g) = SumOver(g, E)
  BY TotalIs DEF Extends
<1> HIDE DEF D, E
<1>4. SumOver(g, E) = g[n + 1] + SumOver(g, D)
  <2>1. SumOver(g, E) = g[n + 1] + SumOver(g, E \ {n + 1})
    BY <1>1, <1>2, SumRemove
  <2> QED BY <1>1, <2>1
<1>5. SumOver(f, D) = SumOver(g, D) /\ SumOver(f, D) \in Int
  <2>1. \A i \in D : f[i] \in Int /\ g[i] = f[i]
    BY <1>2
  <2>2. IsFiniteSet(D)
    BY <1>1
  <2> QED BY <2>1, <2>2, SumAgrees, SumInt
<1>6. g[n + 1] \in Int
  BY DEF Extends
<1> QED BY <1>3, <1>4, <1>5, <1>6

LEMMA BooksGrow ==
  ASSUME NEW R, NEW S, NEW h, NEW e, NEW pk, Log(R, h, e, pk), AddsUpTo(R, S, e),
         NEW x \in Alloc, NEW ret \in Alloc, NEW cost \in Nat, NEW gross \in Int, NEW t \in Int,
         gross = Total(Earn(h, ret)), e + gross - cost > 0,
         NEW r, r = NewRecord(R, h, e, pk, x, gross, cost, t)
  PROVE  AddsUpTo(Append(R, r), Append(S, ret), e + gross - cost)
<1> DEFINE A == Append(R, r)
           B == Append(S, ret)
           n == Len(R)
<1>1. /\ R \in Seq(RecordSet) /\ n \in Nat /\ r \in RecordSet /\ h = HeldBefore(R, n + 1) /\ e \in Nat
      /\ S \in Seq(Alloc) /\ Len(S) = n /\ e = Capital - Total(Frictions(R)) + Total(Grosses(R, S))
      /\ r.friction = cost
  <2>1. r \in RecordSet /\ r.friction = cost
    BY RecordTyped DEF NewRecord
  <2> QED BY <2>1, LogTypes, ZenonT(30) DEF Log, AddsUpTo
<1>2. /\ DOMAIN A = 1..(n + 1) /\ Len(A) = n + 1 /\ (\A i \in 1..n : A[i] = R[i]) /\ A[n + 1] = r
      /\ \A i \in 1..(n + 1) : HeldBefore(A, i) = HeldBefore(R, i)
  BY <1>1, AppendLooks
<1>3. /\ B \in Seq(Alloc) /\ Len(B) = n + 1 /\ (\A i \in 1..n : B[i] = S[i]) /\ B[n + 1] = ret
  BY <1>1, AppendProperties
<1>4. /\ DOMAIN R = 1..n /\ (\A i \in 1..n : R[i].friction \in Nat /\ S[i] \in Alloc)
      /\ \A i \in 1..(n + 1) : HeldBefore(R, i) \in Alloc
  BY <1>1, LogTypes, LenProperties, SMTT(30)
<1> HIDE DEF A, B, n
<1>5. Total(Frictions(A)) = Total(Frictions(R)) + cost /\ Total(Frictions(R)) \in Int
  <2>1. /\ DOMAIN Frictions(R) = 1..n /\ DOMAIN Frictions(A) = 1..(n + 1)
        /\ \A i \in 1..n : Frictions(R)[i] \in Int /\ Frictions(A)[i] = Frictions(R)[i]
        /\ Frictions(A)[n + 1] = cost
    BY <1>1, <1>2, <1>4 DEF Frictions
  <2>2. Extends(Frictions(R), Frictions(A), n)
    BY <2>1 DEF Extends
  <2>3. Total(Frictions(A)) = Total(Frictions(R)) + Frictions(A)[n + 1] /\ Total(Frictions(R)) \in Int
    BY <1>1, <2>2, SumsGrow
  <2> QED BY <2>1, <2>3
<1>6. Total(Grosses(A, B)) = Total(Grosses(R, S)) + gross /\ Total(Grosses(R, S)) \in Int
  <2>1. DOMAIN Grosses(R, S) = 1..n /\ DOMAIN Grosses(A, B) = 1..(n + 1)
    BY <1>2, <1>4 DEF Grosses
  <2>2. ASSUME NEW i \in 1..n
        PROVE  Grosses(R, S)[i] \in Int /\ Grosses(A, B)[i] = Grosses(R, S)[i]
    <3>1. i \in 1..(n + 1)
      BY <1>1
    <3>2. Grosses(R, S)[i] = Total(Earn(HeldBefore(R, i), S[i]))
      BY <1>4 DEF Grosses
    <3>3. Grosses(A, B)[i] = Total(Earn(HeldBefore(A, i), B[i]))
      BY <1>2, <3>1 DEF Grosses
    <3>4. HeldBefore(R, i) \in Alloc /\ S[i] \in Alloc /\ HeldBefore(A, i) = HeldBefore(R, i) /\ B[i] = S[i]
      BY <1>2, <1>3, <1>4, <3>1
    <3> QED BY <3>2, <3>3, <3>4, EarnTyped
  <2>3. Grosses(A, B)[n + 1] = gross
    <3>1. n + 1 \in 1..(n + 1)
      BY <1>1
    <3>2. Grosses(A, B)[n + 1] = Total(Earn(HeldBefore(A, n + 1), B[n + 1]))
      BY <1>2, <3>1 DEF Grosses
    <3>3. HeldBefore(A, n + 1) = h /\ B[n + 1] = ret
      BY <1>1, <1>2, <1>3, <3>1
    <3> QED BY <3>2, <3>3
  <2>4. Extends(Grosses(R, S), Grosses(A, B), n)
    BY <2>1, <2>2, <2>3 DEF Extends
  <2>5. Total(Grosses(A, B)) = Total(Grosses(R, S)) + Grosses(A, B)[n + 1] /\ Total(Grosses(R, S)) \in Int
    BY <1>1, <2>4, SumsGrow
  <2> QED BY <2>3, <2>5
<1>7. e + gross - cost = Capital - Total(Frictions(A)) + Total(Grosses(A, B))
  <2>1. Capital \in Int /\ e \in Int /\ e = Capital - Total(Frictions(R)) + Total(Grosses(R, S))
    BY <1>1, ReplayTypes
  <2> QED BY <1>5, <1>6, <2>1
<1> QED BY <1>2, <1>3, <1>7 DEF AddsUpTo, A, B

(* Fractions with a positive denominator are ordered.                      *)
Fractions == Int \X (Nat \ {0})

LEMMA CrossBound ==
  ASSUME NEW a \in Int, NEW b \in Nat \ {0}, NEW c \in Int, NEW d \in Nat \ {0},
         NEW e \in Int, NEW f \in Nat \ {0}, a * d <= c * b, c * f <= e * d
  PROVE  a * f <= e * b
<1> DEFINE u == a * f
           v == e * b
<1>1. u \in Int /\ v \in Int
  OBVIOUS
<1>2. (a * d) * f <= (c * b) * f /\ (c * f) * b <= (e * d) * b
  OBVIOUS
<1>3. (a * d) * f = d * u /\ (c * b) * f = (c * f) * b /\ (e * d) * b = d * v
  OBVIOUS
<1>4. d * u <= d * v
  <2>1. (a * d) * f \in Int /\ (c * b) * f \in Int /\ (c * f) * b \in Int /\ (e * d) * b \in Int
    OBVIOUS
  <2> HIDE DEF u, v
  <2> QED BY <1>2, <1>3, <2>1
<1> HIDE DEF u, v
<1>5. ASSUME v + 1 <= u PROVE FALSE
  <2>1. d * (v + 1) <= d * u
    BY <1>1, <1>5
  <2>2. d * (v + 1) = d * v + d
    BY <1>1
  <2>3. d * v \in Int /\ d * u \in Int
    BY <1>1
  <2> QED BY <1>4, <2>1, <2>2, <2>3
<1>6. u <= v
  BY <1>1, <1>5
<1> QED BY <1>6 DEF u, v

LEMMA WorseOrder ==
  ASSUME NEW p \in Fractions, NEW q \in Fractions, NEW r \in Fractions
  PROVE  /\ ~Worse(p, p)
         /\ ~Worse(p, q) \/ ~Worse(q, p)
         /\ ~Worse(p, q) /\ ~Worse(q, r) => ~Worse(p, r)
<1>1. /\ p[1] \in Int /\ q[1] \in Int /\ r[1] \in Int
      /\ p[2] \in Nat \ {0} /\ q[2] \in Nat \ {0} /\ r[2] \in Nat \ {0}
  BY DEF Fractions
<1>2. /\ p[1] * q[2] \in Int /\ q[1] * p[2] \in Int /\ q[1] * r[2] \in Int /\ r[1] * q[2] \in Int
      /\ p[1] * r[2] \in Int /\ r[1] * p[2] \in Int /\ p[1] * p[2] \in Int
  BY <1>1
<1>3. ~Worse(p, q) <=> p[1] * q[2] <= q[1] * p[2]
  BY <1>2 DEF Worse
<1>4. ~Worse(q, r) <=> q[1] * r[2] <= r[1] * q[2]
  BY <1>2 DEF Worse
<1>5. ~Worse(p, r) <=> p[1] * r[2] <= r[1] * p[2]
  BY <1>2 DEF Worse
<1>6. ~Worse(q, p) <=> q[1] * p[2] <= p[1] * q[2]
  BY <1>2 DEF Worse
<1>7. ~Worse(p, p)
  BY <1>2 DEF Worse
<1>8. ~Worse(p, q) \/ ~Worse(q, p)
  BY <1>2, <1>3, <1>6
<1>9. ASSUME ~Worse(p, q), ~Worse(q, r) PROVE ~Worse(p, r)
  <2>1. p[1] * q[2] <= q[1] * p[2] /\ q[1] * r[2] <= r[1] * q[2]
    BY <1>3, <1>4, <1>9
  <2>2. p[1] * r[2] <= r[1] * p[2]
    BY <1>1, <2>1, CrossBound
  <2> QED BY <1>5, <2>2
<1> QED BY <1>7, <1>8, <1>9

(* Among finitely many there is one that no other is worse than.           *)
LEMMA WorstExists ==
  ASSUME NEW n \in Nat \ {0}, NEW d, \A i \in 1..n : d[i] \in Fractions
  PROVE  \E k \in 1..n : \A i \in 1..n : ~Worse(d[i], d[k])
<1> DEFINE Good == {m \in Nat : m < n => \E k \in 1..(m + 1) : \A i \in 1..(m + 1) : ~Worse(d[i], d[k])}
<1>1. 0 \in Good
  <2>1. 1..(0 + 1) = {1} /\ 1 \in 1..n
    OBVIOUS
  <2>2. ~Worse(d[1], d[1])
    BY <2>1, WorseOrder
  <2> QED BY <2>1, <2>2
<1>2. ASSUME NEW m \in Nat, m \in Good PROVE m + 1 \in Good
  <2> SUFFICES ASSUME m + 1 < n
               PROVE  \E k \in 1..((m + 1) + 1) : \A i \in 1..((m + 1) + 1) : ~Worse(d[i], d[k])
    OBVIOUS
  <2>1. PICK k \in 1..(m + 1) : \A i \in 1..(m + 1) : ~Worse(d[i], d[k])
    BY <1>2
  <2> DEFINE z == (m + 1) + 1
  <2>2. /\ z \in 1..n /\ k \in 1..n /\ k \in 1..z /\ z \in 1..z
        /\ \A i \in 1..z : i \in 1..n /\ (i = z \/ i \in 1..(m + 1))
    OBVIOUS
  <2> HIDE DEF z
  <2>3. CASE ~Worse(d[z], d[k])
    BY <2>1, <2>2, <2>3 DEF z
  <2>4. CASE Worse(d[z], d[k])
    <3>1. ~Worse(d[k], d[z]) /\ ~Worse(d[z], d[z])
      BY <2>2, <2>4, WorseOrder
    <3>2. ASSUME NEW i \in 1..(m + 1), i \in 1..n PROVE ~Worse(d[i], d[z])
      BY <2>1, <2>2, <3>1, <3>2, WorseOrder
    <3>3. \A i \in 1..z : ~Worse(d[i], d[z])
      BY <2>2, <3>1, <3>2
    <3> QED BY <2>2, <3>3 DEF z
  <2> QED BY <2>3, <2>4
<1>3. Nat \subseteq Good
  <2> HIDE DEF Good
  <2> QED BY <1>1, <1>2, SetInduction
<1>4. n - 1 \in Good /\ (n - 1) + 1 = n /\ n - 1 < n
  BY <1>3
<1> QED BY <1>4

(* A fall from any earlier equity is no worse than the one from the peak.  *)
LEMMA FallBound ==
  ASSUME NEW a \in Nat \ {0}, NEW b \in Nat \ {0}, NEW top \in Nat \ {0}, a <= top,
         NEW p \in Fractions, p[1] <= p[2], ~Worse(<<top - b, top>>, p)
  PROVE  ~Worse(<<a - b, a>>, p)
<1> DEFINE y == p[2]
           z == p[2] - p[1]
<1>1. y \in Nat \ {0} /\ p[1] \in Int /\ z \in Nat /\ p[1] = y - z
  BY DEF Fractions
<1>2. (top - b) * y <= p[1] * top
  <2>1. (top - b) * y \in Int /\ p[1] * top \in Int
    BY <1>1
  <2> QED BY <2>1 DEF Worse
<1> HIDE DEF y, z
<1>3. (top - b) * y = top * y - b * y /\ p[1] * top = top * y - z * top
  BY <1>1
<1>4. (a - b) * y = a * y - b * y /\ p[1] * a = a * y - z * a
  BY <1>1
<1>5. z * a <= z * top
  BY <1>1
<1>6. /\ top * y \in Int /\ b * y \in Int /\ a * y \in Int /\ z * top \in Int /\ z * a \in Int
  BY <1>1
<1>7. z * top <= b * y
  BY <1>2, <1>3, <1>6
<1>8. (a - b) * y <= p[1] * a
  BY <1>4, <1>5, <1>6, <1>7
<1> QED BY <1>1, <1>8 DEF Worse, y

Drawdowns(R) == {R[i].drawdown : i \in DOMAIN R}

(* No fall between two points of the curve is worse than the report's.     *)
LEMMA WorstBounds ==
  ASSUME NEW R \in Seq(RecordSet), Len(R) # 0, \A i \in 1..Len(R) : FromPeak(R, i)
  PROVE  \A i, j \in 0..Len(R) :
           i < j => ~Worse(<<WorthAfter(R, i) - WorthAfter(R, j), WorthAfter(R, i)>>, Worst(Drawdowns(R)))
<1> DEFINE n == Len(R)
           d == [i \in 1..n |-> R[i].drawdown]
           w == Worst(Drawdowns(R))
<1>1. /\ n \in Nat \ {0} /\ DOMAIN R = 1..n
      /\ (\A i \in 1..n : R[i].equity \in Nat \ {0}) /\ \A i \in 0..n : WorthAfter(R, i) \in Nat \ {0}
  BY LogTypes
<1>2. ASSUME NEW i \in 1..n
      PROVE  /\ R[i].drawdown \in Fractions /\ R[i].drawdown[1] <= R[i].drawdown[2]
  <2>1. PICK top \in Nat \ {0} : R[i].drawdown = <<top - R[i].equity, top>>
    BY DEF FromPeak
  <2> QED BY <1>1, <2>1 DEF Fractions
<1> HIDE DEF n
<1>3. PICK k \in 1..n : \A i \in 1..n : ~Worse(R[i].drawdown, R[k].drawdown)
  <2>1. \A i \in 1..n : d[i] = R[i].drawdown
    OBVIOUS
  <2> HIDE DEF d
  <2>2. PICK k \in 1..n : \A i \in 1..n : ~Worse(d[i], d[k])
    BY <1>1, <1>2, <2>1, WorstExists
  <2> QED BY <2>1, <2>2
<1>4. R[k].drawdown \in Drawdowns(R) /\ \A q \in Drawdowns(R) : ~Worse(q, R[k].drawdown)
  BY <1>1, <1>3 DEF Drawdowns
<1>5. w \in Drawdowns(R) /\ \A q \in Drawdowns(R) : ~Worse(q, w)
  BY <1>4 DEF Worst
<1> HIDE DEF w
<1>6. w \in Fractions /\ w[1] <= w[2]
  BY <1>1, <1>2, <1>5 DEF Drawdowns
<1> SUFFICES ASSUME NEW i \in 0..n, NEW j \in 0..n, i < j
             PROVE  ~Worse(<<WorthAfter(R, i) - WorthAfter(R, j), WorthAfter(R, i)>>, w)
  BY DEF n, w
<1>7. j \in 1..n /\ i \in 0..j
  BY <1>1
<1>8. PICK top \in Nat \ {0} : R[j].drawdown = <<top - R[j].equity, top>> /\ \A l \in 0..j : WorthAfter(R, l) <= top
  BY <1>7 DEF FromPeak, n
<1>9. ~Worse(<<top - R[j].equity, top>>, w)
  BY <1>1, <1>5, <1>7, <1>8 DEF Drawdowns
<1>10. WorthAfter(R, j) = R[j].equity /\ WorthAfter(R, i) <= top /\ R[j].equity \in Nat \ {0}
       /\ WorthAfter(R, i) \in Nat \ {0}
  BY <1>1, <1>7, <1>8 DEF WorthAfter
<1> QED BY <1>6, <1>9, <1>10, FallBound

(* Holdings the sizer can return.                                          *)
Held == [Assets -> Holdings \cup {0}]

LEMMA HeldIsAlloc == \A x \in Held : x \in Alloc
<1> SUFFICES ASSUME NEW x \in Held PROVE x \in Alloc
  OBVIOUS
<1>1. x = [i \in Assets |-> x[i]] /\ \A i \in Assets : x[i] \in Holdings \cup {0}
  BY DEF Held
<1>2. Holdings \subseteq Int
  BY ReplayTypes
<1>3. \A i \in Assets : x[i] \in Int
  BY <1>1, <1>2
<1> QED BY <1>1, <1>3 DEF Alloc

LEMMA MagnitudeIs == \A a \in Int : Magnitude(a) \in Nat
  BY DEF Magnitude

(* What the sizer returns keeps the leverage budget and the signals.       *)
LEMMA TargetsAre ==
  ASSUME NEW sig, NEW kappa, NEW x \in Targets(sig, kappa), equity \in Nat \ {0}
  PROVE  /\ x \in Held
         /\ Total(Magnitudes(x)) * Unit <= MaxLeverage * equity
         /\ kappa <= 0 => x = Flat
         /\ (\A i \in Assets : sig[i] = 0) => x = Flat
<1>1. /\ Flat \in Held /\ Total(Magnitudes(Flat)) * Unit <= MaxLeverage * equity
  <2>1. Flat \in Held
    BY DEF Flat, Zeros, Held
  <2>2. Magnitudes(Flat) \in Alloc /\ \A i \in Assets : Magnitudes(Flat)[i] = 0
    BY FlatIs DEF Magnitudes, Magnitude, Alloc
  <2>3. Total(Magnitudes(Flat)) = 0
    BY <2>2, TotalOfAlloc
  <2>4. MaxLeverage * equity \in Nat
    BY ReplayTypes, Product
  <2> QED BY <2>1, <2>3, <2>4, ReplayTypes
<1>2. CASE kappa <= 0
  BY <1>1, <1>2 DEF Targets
<1>3. CASE ~ (kappa <= 0)
  <2>1. /\ x \in [Assets -> Holdings]
        /\ \A i \in Assets : x[i] # 0 => Sign(x[i]) = sig[i]
        /\ Total(Magnitudes(x)) * Unit <= MaxLeverage * equity
    BY <1>3 DEF Targets
  <2>2. x \in Held
    BY <2>1 DEF Held
  <2>3. ASSUME \A i \in Assets : sig[i] = 0 PROVE x = Flat
    <3>1. \A i \in Assets : x[i] \in Int
      BY <2>1, ReplayTypes
    <3>2. \A i \in Assets : x[i] = 0
      BY <2>1, <2>3, <3>1 DEF Sign
    <3>3. x = [i \in Assets |-> 0]
      BY <2>1, <3>2
    <3> QED BY <3>3 DEF Flat, Zeros
  <2> QED BY <1>3, <2>1, <2>2, <2>3
<1> QED BY <1>2, <1>3

(* Trading costs something or nothing.                                     *)
LEMMA FrictionIs == ASSUME NEW x \in Held, holding \in Held PROVE Friction(x) \in Nat
<1> DEFINE trade == [i \in Assets |-> Magnitude(x[i] - holding[i])]
           hit == [i \in Assets |-> Impact[trade[i]]]
<1>1. \A i \in Assets : x[i] \in Holdings \cup {0} /\ holding[i] \in Holdings \cup {0}
  BY DEF Held
<1>2. \A i \in Assets : trade[i] = Magnitude(x[i] - holding[i]) /\ trade[i] \in DOMAIN Impact /\ trade[i] \in Nat
  <2> SUFFICES ASSUME NEW i \in Assets
               PROVE  /\ trade[i] = Magnitude(x[i] - holding[i]) /\ trade[i] \in DOMAIN Impact /\ trade[i] \in Nat
    OBVIOUS
  <2>1. trade[i] = Magnitude(x[i] - holding[i])
    OBVIOUS
  <2> HIDE DEF trade
  <2>2. x[i] \in Int /\ holding[i] \in Int
    <3>1. x \in Alloc /\ holding \in Alloc
      BY HeldIsAlloc
    <3> QED BY <3>1 DEF Alloc
  <2>3. x[i] - holding[i] \in Int
    BY <2>2
  <2> QED BY <1>1, <2>1, <2>3, ReplayTypes, MagnitudeIs
<1>3. trade \in Alloc /\ \A i \in Assets : trade[i] >= 0
  <2>1. trade = [i \in Assets |-> trade[i]]
    OBVIOUS
  <2> HIDE DEF trade
  <2> QED BY <1>2, <2>1 DEF Alloc
<1> HIDE DEF trade
<1>4. hit \in Alloc /\ \A i \in Assets : hit[i] >= 0
  <2>1. \A i \in Assets : Impact[trade[i]] \in Nat
    BY <1>2, ReplayTypes
  <2> QED BY <2>1 DEF Alloc
<1> HIDE DEF hit
<1>5. Total(trade) \in Nat /\ Total(hit) \in Nat
  BY <1>3, <1>4, TotalOfAlloc
<1>6. Friction(x) = Fee * Total(trade) + Total(hit)
  BY DEF Friction, trade, hit
<1>7. Fee * Total(trade) \in Nat
  BY <1>5, ReplayTypes, Product
<1> QED BY <1>5, <1>6, <1>7

(* Scores within the scale.                                                *)
LEMMA ClampIs ==
  ASSUME NEW x \in Int
  PROVE  Clamp(x) \in 0..Scale /\ (x >= 0 => Clamp(x) <= x)
<1>1. Scale \in Nat \ {0}
  BY BreakerAssumption DEF BreakerConfig
<1> DEFINE m == Min({x, Scale})
<1>2. m = IF x <= Scale THEN x ELSE Scale
  BY <1>1, SmallerOfTwo
<1> HIDE DEF m
<1>3. m \in Int
  BY <1>1, <1>2
<1>4. Max({0, m}) = IF 0 >= m THEN 0 ELSE m
  BY <1>3, LargerOfTwo
<1>5. Clamp(x) = Max({0, m})
  BY DEF Clamp, m
<1> QED BY <1>1, <1>2, <1>3, <1>4, <1>5

(* Without disagreement the score is what the ambiguity gives.             *)
LEMMA AmbiguityAlone ==
  ASSUME NEW beta \in Readings
  PROVE  CompositeShock(0, 0, beta) <= WeightAmbiguity /\ CompositeShock(0, 0, beta) \in Int
<1>1. /\ Scale \in Nat \ {0} /\ WeightAmbiguity \in Nat /\ WeightEntropy \in Nat /\ WeightRatio \in Nat
      /\ beta \in 0..Scale
  BY BreakerAssumption DEF BreakerConfig
<1> DEFINE a == WeightAmbiguity * beta
           b == WeightAmbiguity * Scale
<1>2. a \in Nat /\ b \in Nat /\ a <= b
  BY <1>1, Product
<1>3. b = Scale * WeightAmbiguity
  BY <1>1
<1>4. WeightEntropy * 0 + WeightRatio * 0 + WeightAmbiguity * beta = a
  BY <1>1, <1>2
<1>5. CompositeShock(0, 0, beta) = Clamp(a \div Scale)
  BY <1>4 DEF CompositeShock
<1> HIDE DEF a, b
<1>6. a \div Scale \in Nat /\ a \div Scale <= b \div Scale
  BY <1>1, <1>2, QuotientGrows
<1>7. b \div Scale = WeightAmbiguity
  BY <1>1, <1>3
<1>8. Clamp(a \div Scale) <= a \div Scale /\ Clamp(a \div Scale) \in 0..Scale
  BY <1>6, ClampIs
<1> QED BY <1>1, <1>5, <1>6, <1>7, <1>8

(* The tier of the next bar.                                               *)
LEMMA TierIs ==
  ASSUME tier \in Int, NEW score, NEW panic \in BOOLEAN
  PROVE  /\ NextTier(score, panic) \in Int
         /\ (tier = NORMAL /\ ~panic /\ score \in Int /\ score < Caution) => NextTier(score, panic) = NORMAL
<1>1. 0 < Caution /\ Caution < Derisk /\ Derisk < Halt /\ {Caution, Derisk, Halt} \subseteq Nat
  BY BreakerAssumption DEF BreakerConfig
<1>2. Candidate(score, panic) \in 0..3
  BY DEF Candidate, NORMAL, CAUTION, DERISK, HALT
<1>3. NextTier(score, panic) \in Int
  BY <1>2 DEF NextTier
<1>4. ASSUME tier = NORMAL, ~panic, score \in Int, score < Caution PROVE NextTier(score, panic) = NORMAL
  <2>1. Candidate(score, panic) = NORMAL
    BY <1>1, <1>4 DEF Candidate
  <2> QED BY <1>4, <2>1 DEF NextTier, NORMAL
<1> QED BY <1>3, <1>4

LEMMA KappaIs == ASSUME NEW new \in {DERISK, HALT}, NEW score PROVE Kappa(new, score) = 0
  BY DEF Kappa, ExecutionHaircut, CAUTION, DERISK, HALT

(* One model without a panic in its prior: nothing shocks the breaker.     *)
Calm == run.models = 1 /\ ~run.panic /\ run.mode # "given"

Books ==
  /\ Log(records, holding, equity, peak)
  /\ \A i \in 1..Len(records) : Sober(records, i)
  /\ holding \in Held
  /\ tier \in Int
  /\ run.mode # "given" /\ Len(records) >= 1 => records[1].holding = Flat
  /\ Calm => tier = NORMAL /\ \A i \in 1..Len(records) : records[i].tier = NORMAL
  /\ run.mode # "given" => run.beta \in Readings
  /\ phase # "ruined" => AddsUpTo(records, seen, equity)

ReplayInvariant ==
  /\ Books
  /\ phase \in {"idle", "running", "reported", "ruined", "refused"}
  /\ phase = "idle" => tier = NORMAL /\ records = <<>>
  /\ phase = "running" => run.bars \in Nat \ {0}
  /\ phase = "reported" => ReportMatchesLog

(* A backtest begins with its capital and no position.                     *)
LEMMA BooksBegin == ASSUME BreakerInit, ReplayInit PROVE ReplayInvariant
<1>1. /\ records = <<>> /\ holding = Flat /\ equity = Capital /\ peak = Capital /\ seen = <<>>
      /\ phase = "idle" /\ run = NoRun /\ tier = NORMAL
  BY DEF ReplayInit, BreakerInit
<1>2. Len(<<>>) = 0 /\ <<>> \in Seq(RecordSet) /\ <<>> \in Seq(Alloc) /\ DOMAIN <<>> = {}
  BY EmptySeq
<1>3. HeldBefore(<<>>, 1) = Flat /\ WorthAfter(<<>>, 0) = Capital
  BY DEF HeldBefore, WorthAfter
<1>4. Log(<<>>, Flat, Capital, Capital)
  <2>1. Len(<<>>) + 1 = 1 /\ \A j \in 0..Len(<<>>) : j = 0
    BY <1>2
  <2>2. Capital \in Nat \ {0} /\ Flat \in Alloc
    BY ReplayTypes, FlatIs
  <2> QED BY <1>2, <1>3, <2>1, <2>2 DEF Log
<1>5. AddsUpTo(<<>>, <<>>, Capital)
  <2>1. DOMAIN Frictions(<<>>) = {} /\ DOMAIN Grosses(<<>>, <<>>) = {}
    BY <1>2 DEF Frictions, Grosses
  <2>2. Total(Frictions(<<>>)) = 0 /\ Total(Grosses(<<>>, <<>>)) = 0
    BY <2>1, TotalIs, SumEmpty
  <2> QED BY <1>2, <2>2, ReplayTypes DEF AddsUpTo
<1>6. Flat \in Held
  BY DEF Flat, Zeros, Held
<1>7. NoRun.mode = "given"
  BY DEF NoRun
<1>8. \A i \in 1..Len(<<>>) : FALSE
  BY <1>2
<1>9. Books
  BY <1>1, <1>4, <1>5, <1>6, <1>7, <1>8 DEF Books, Calm, NORMAL
<1> QED BY <1>1, <1>9 DEF ReplayInvariant

(* Starting a run changes no book.                                         *)
LEMMA StartKeeps ==
  ASSUME ReplayInvariant, NEW mode \in Modes, NEW length \in Lengths, NEW rising \in BOOLEAN,
         NEW panic \in BOOLEAN, NEW models \in {1, 2}, NEW beta \in Readings,
         StartRun(mode, length, rising, models, beta, panic)
  PROVE  ReplayInvariant'
<1>1. /\ phase = "idle" /\ phase' = IF Accepted(mode, length, rising) THEN "running" ELSE "refused"
      /\ run' = [mode |-> mode, bars |-> IF mode = "batches" THEN length - 1 ELSE length,
                 models |-> models, beta |-> beta, panic |-> panic]
      /\ seen' = seen /\ holding' = holding /\ equity' = equity /\ peak' = peak /\ records' = records
      /\ report' = report /\ tier' = tier
  BY DEF StartRun, breakerVars
<1>2. tier = NORMAL /\ records = <<>> /\ Books
  BY <1>1 DEF ReplayInvariant
<1>3. Len(records) = 0
  BY <1>2, EmptySeq
<1>4. phase' = "running" => run'.bars \in Nat \ {0}
  <2> SUFFICES ASSUME Accepted(mode, length, rising) PROVE run'.bars \in Nat \ {0}
    BY <1>1
  <2>1. length \in Nat /\ MinReplayBars \in Nat \ {0}
    BY ReplayTypes
  <2>2. IF mode = "batches" THEN length >= MinReplayBars /\ length - 1 >= MinReplayBars ELSE length >= MinReplayBars
    BY DEF Accepted
  <2>3. run'.bars = IF mode = "batches" THEN length - 1 ELSE length
    BY <1>1
  <2> QED BY <2>1, <2>2, <2>3
<1>5. run'.beta = beta
  BY <1>1
<1>6. \A i \in 1..Len(records) : FALSE
  BY <1>3
<1>7. /\ Log(records, holding, equity, peak)' /\ (\A i \in 1..Len(records) : Sober(records, i))'
      /\ AddsUpTo(records, seen, equity)'
  BY <1>1, <1>2, <1>6 DEF Books, ReplayInvariant
<1>8. holding' \in Held /\ tier' = NORMAL /\ tier' \in Int
  BY <1>1, <1>2 DEF Books
<1>9. Books'
  BY <1>1, <1>3, <1>5, <1>6, <1>7, <1>8 DEF Books, Calm
<1>10. phase' \in {"running", "refused"}
  BY <1>1
<1> QED BY <1>4, <1>9, <1>10 DEF ReplayInvariant

(* A bar keeps the books.                                                  *)
LEMMA BarKeeps ==
  ASSUME ReplayInvariant, NEW ret \in [Assets -> Returns], NEW sig, NEW d, NEW panic \in BOOLEAN,
         Bar(ret, sig, d, panic),
         run.mode # "given" /\ Len(records) = 0 => \A i \in Assets : sig[i] = 0,
         Calm => d = 0 /\ ~panic,
         WeightAmbiguity < Caution
  PROVE  ReplayInvariant'
<1> DEFINE score == CompositeShock(d, d, run.beta)
           new == NextTier(score, panic)
           n == Len(records)
<1>1. /\ phase = "running" /\ n < run.bars /\ tier' = new
      /\ seen' = Append(seen, ret) /\ run' = run /\ report' = report
  BY DEF Bar, Evaluate
<1>2. PICK x \in Targets(sig, Kappa(new, score)) :
        LET cost == Friction(x)
            gross == Earned(n, ret)
            worth == equity + gross - cost
        IN  IF worth <= 0
            THEN /\ phase' = "ruined"
                 /\ UNCHANGED <<holding, equity, peak, records>>
            ELSE /\ phase' = phase
                 /\ holding' = x /\ equity' = worth /\ peak' = PeakAfter(worth)
                 /\ records' = Append(records, Record(x, gross, cost, worth, peak', new))
  BY DEF Bar
<1> DEFINE cost == Friction(x)
           gross == Earned(n, ret)
           r == NewRecord(records, holding, equity, peak, x, gross, cost, new)
<1>3. /\ Books /\ Log(records, holding, equity, peak) /\ (\A i \in 1..n : Sober(records, i))
      /\ AddsUpTo(records, seen, equity) /\ holding \in Held /\ tier \in Int
      /\ run.bars \in Nat \ {0}
  BY <1>1 DEF ReplayInvariant, Books
<1>4. /\ equity \in Nat \ {0} /\ records \in Seq(RecordSet) /\ n \in Nat
      /\ holding = HeldBefore(records, n + 1) /\ holding \in Alloc
  BY <1>3, LogTypes DEF Log
<1>5. /\ x \in Held /\ x \in Alloc
      /\ Total(Magnitudes(x)) * Unit <= MaxLeverage * equity
      /\ Kappa(new, score) <= 0 => x = Flat
      /\ (\A i \in Assets : sig[i] = 0) => x = Flat
  BY <1>4, TargetsAre, HeldIsAlloc
<1>6. cost \in Nat
  BY <1>3, <1>5, FrictionIs
<1>7. ret \in Alloc
  <2>1. ret = [i \in Assets |-> ret[i]] /\ \A i \in Assets : ret[i] \in Returns
    OBVIOUS
  <2>2. Returns \subseteq Int
    BY ReplayTypes
  <2>3. \A i \in Assets : ret[i] \in Int
    BY <2>1, <2>2
  <2> QED BY <2>1, <2>3 DEF Alloc
<1>8. gross = Total(Earn(holding, ret)) /\ gross \in Int /\ (holding = Flat => gross = 0)
  <2>1. Total(Earn(holding, ret)) \in Int /\ (holding = Flat => Total(Earn(holding, ret)) = 0)
    BY <1>4, <1>7, EarnTyped
  <2>2. CASE n = 0
    <3>1. holding = Flat
      BY <1>4, <2>2 DEF HeldBefore
    <3> QED BY <2>1, <2>2, <3>1 DEF Earned
  <2>3. CASE n # 0
    BY <2>1, <2>3 DEF Earned, Earn
  <2> QED BY <2>1, <2>2, <2>3
<1>9. new \in Int /\ (new \in {DERISK, HALT} => x = Flat)
  <2>1. new \in Int
    BY <1>3, TierIs
  <2>2. new \in {DERISK, HALT} => Kappa(new, score) = 0
    BY KappaIs
  <2> QED BY <1>5, <2>1, <2>2
<1>10. Calm => new = NORMAL
  <2> SUFFICES ASSUME Calm PROVE new = NORMAL
    OBVIOUS
  <2>1. d = 0 /\ ~panic /\ tier = NORMAL /\ run.beta \in Readings
    BY <1>3 DEF Books, Calm
  <2>2. score = CompositeShock(0, 0, run.beta)
    BY <2>1
  <2>3. score <= WeightAmbiguity /\ score \in Int
    BY <2>1, <2>2, AmbiguityAlone
  <2>4. WeightAmbiguity \in Int /\ Caution \in Int
    BY BreakerAssumption DEF BreakerConfig
  <2> HIDE DEF score
  <2> QED BY <1>3, <2>1, <2>3, <2>4, TierIs
<1> HIDE DEF score, new, cost, gross, n
<1>11. CASE equity + gross - cost <= 0
  <2>1. phase' = "ruined" /\ holding' = holding /\ equity' = equity /\ peak' = peak /\ records' = records
    BY <1>2, <1>11 DEF cost, gross, new, score
  <2>2. Books'
    BY <1>1, <1>3, <1>9, <1>10, <2>1 DEF Books, Calm
  <2> QED BY <2>1, <2>2 DEF ReplayInvariant
<1>12. CASE ~ (equity + gross - cost <= 0)
  <2>1. /\ phase' = phase /\ holding' = x /\ equity' = equity + gross - cost
        /\ peak' = Max({peak, equity + gross - cost}) /\ records' = Append(records, r)
    BY <1>2, <1>12 DEF cost, gross, new, score, NewRecord, Record, PeakAfter
  <2>2. equity + gross - cost > 0 /\ (holding = Flat => gross <= 0)
    BY <1>4, <1>6, <1>8, <1>12
  <2>3. r = NewRecord(records, holding, equity, peak, x, gross, cost, new)
    OBVIOUS
  <2>4. r.holding = x /\ r.tier = new
    BY DEF NewRecord
  <2> HIDE DEF r
  <2>5. /\ Log(Append(records, r), x, equity + gross - cost, Max({peak, equity + gross - cost}))
        /\ \A i \in 1..Len(Append(records, r)) : Sober(Append(records, r), i)
    BY <1>3, <1>5, <1>6, <1>8, <1>9, <2>2, <2>3, LogGrows DEF n
  <2>6. AddsUpTo(Append(records, r), Append(seen, ret), equity + gross - cost)
    BY <1>3, <1>5, <1>6, <1>7, <1>8, <1>9, <2>2, <2>3, BooksGrow
  <2>7. r \in RecordSet
    BY <1>3, <1>5, <1>6, <1>8, <1>9, <2>2, <2>3, RecordTyped
  <2>8. /\ Len(Append(records, r)) = n + 1 /\ (\A i \in 1..n : Append(records, r)[i] = records[i])
        /\ Append(records, r)[n + 1] = r
    BY <1>4, <2>7, AppendLooks DEF n
  <2>9. run.mode # "given" => Append(records, r)[1].holding = Flat
    <3> SUFFICES ASSUME run.mode # "given" PROVE Append(records, r)[1].holding = Flat
      OBVIOUS
    <3>1. CASE n = 0
      BY <1>5, <2>4, <2>8, <3>1 DEF n
    <3>2. CASE n # 0
      <4>1. 1 \in 1..n
        BY <1>4, <3>2
      <4> QED BY <1>3, <1>4, <2>8, <4>1 DEF Books, n
    <3> QED BY <3>1, <3>2
  <2>10. Calm => \A i \in 1..(n + 1) : Append(records, r)[i].tier = NORMAL
    <3> SUFFICES ASSUME Calm, NEW i \in 1..(n + 1) PROVE Append(records, r)[i].tier = NORMAL
      OBVIOUS
    <3>1. i = n + 1 \/ i \in 1..n
      BY <1>4
    <3> QED BY <1>3, <1>10, <2>4, <2>8, <3>1 DEF Books, n
  <2>11. Books'
    <3>1. /\ Log(records, holding, equity, peak)' /\ (\A i \in 1..Len(records) : Sober(records, i))'
          /\ AddsUpTo(records, seen, equity)'
      BY <1>1, <2>1, <2>5, <2>6
    <3>2. Calm' <=> Calm
      BY <1>1 DEF Calm
    <3>3. Len(records') = n + 1
      BY <2>1, <2>8
    <3>4. Calm' => tier' = NORMAL /\ \A i \in 1..Len(records') : records'[i].tier = NORMAL
      BY <1>1, <1>10, <2>1, <2>10, <3>2, <3>3
    <3>5. run'.mode # "given" => records'[1].holding = Flat
      BY <1>1, <2>1, <2>9
    <3>6. holding' \in Held /\ tier' \in Int /\ (run'.mode # "given" => run'.beta \in Readings)
      BY <1>1, <1>3, <1>5, <1>9, <2>1 DEF Books
    <3> QED BY <3>1, <3>4, <3>5, <3>6 DEF Books
  <2> QED BY <1>1, <1>3, <2>1, <2>11 DEF ReplayInvariant
<1> QED BY <1>11, <1>12

(* The audit reports what the log adds up to.                              *)
LEMMA AuditKeeps == ASSUME ReplayInvariant, Audit PROVE ReplayInvariant'
<1> DEFINE n == run.bars
           worst == Worst({records[i].drawdown : i \in DOMAIN records})
<1>1. /\ phase = "running" /\ Len(records) = n /\ phase' = "reported"
      /\ run' = run /\ seen' = seen /\ holding' = holding /\ equity' = equity /\ peak' = peak
      /\ records' = records /\ tier' = tier
  BY DEF Audit, breakerVars
<1>2. report' = [final |-> records[n].equity, worst |-> worst,
                 friction |-> Total([i \in DOMAIN records |-> records[i].friction]),
                 halted |-> Cardinality({i \in DOMAIN records : records[i].tier = HALT})]
  BY DEF Audit
<1>3. /\ Books /\ n \in Nat \ {0} /\ records \in Seq(RecordSet) /\ equity = WorthAfter(records, n)
      /\ equity = Capital - Total(Frictions(records)) + Total(Grosses(records, seen))
      /\ \A i \in 1..n : Sober(records, i)
  BY <1>1 DEF ReplayInvariant, Books, Log, AddsUpTo
<1>4. Books'
  BY <1>1, <1>3 DEF Books, Calm, ReplayInvariant
<1>5. report'.final = equity /\ report'.worst = worst /\ report'.friction = Total(Frictions(records))
  <2>1. records[n].equity = equity
    BY <1>3 DEF WorthAfter
  <2> HIDE DEF worst
  <2> QED BY <1>2, <2>1 DEF Frictions
<1>6. \A i, j \in 0..n :
        i < j => ~Worse(<<WorthAfter(records, i) - WorthAfter(records, j), WorthAfter(records, i)>>, worst)
  <2>1. Len(records) # 0 /\ \A i \in 1..Len(records) : FromPeak(records, i)
    BY <1>1, <1>3 DEF Sober
  <2>2. worst = Worst(Drawdowns(records))
    BY DEF Drawdowns
  <2> HIDE DEF worst
  <2> QED BY <1>1, <1>3, <2>1, <2>2, WorstBounds
<1> HIDE DEF worst
<1>7. ReportMatchesLog'
  <2> SUFFICES /\ report'.final = Capital - report'.friction
                    + Total([i \in DOMAIN records |->
                               Total([a \in Assets |-> HoldingBefore(i)[a] * seen[i][a]])])
               /\ \A i, j \in 0..n :
                    i < j => ~Worse(<<EquityAt(i) - EquityAt(j), EquityAt(i)>>, report'.worst)
    BY <1>1 DEF ReportMatchesLog, HoldingBefore, EquityAt
  <2>1. Total(Grosses(records, seen)) =
          Total([i \in DOMAIN records |-> Total([a \in Assets |-> HoldingBefore(i)[a] * seen[i][a]])])
    BY DEF Grosses, Earn, HeldBefore, HoldingBefore
  <2>2. \A i : EquityAt(i) = WorthAfter(records, i)
    BY DEF EquityAt, WorthAfter
  <2> QED BY <1>3, <1>5, <1>6, <2>1, <2>2
<1> QED BY <1>1, <1>4, <1>7 DEF ReplayInvariant

(* Under the invariant a backtest is honest.                               *)
LEMMA BooksAreHonest == ASSUME ReplayInvariant PROVE ReplayHonest
<1> DEFINE n == Len(records)
<1>1. /\ records \in Seq(RecordSet) /\ (\A i \in 1..n : Sober(records, i))
      /\ (run.mode # "given" /\ n >= 1 => records[1].holding = Flat)
      /\ (Calm => \A i \in 1..n : records[i].tier = NORMAL)
  BY DEF ReplayInvariant, Books, Log
<1>2. /\ n \in Nat /\ DOMAIN records = 1..n
      /\ \A i \in 0..n : WorthAfter(records, i) \in Nat \ {0}
  BY <1>1, LogTypes
<1>3. \A i : EquityAt(i) = WorthAfter(records, i) /\ HoldingBefore(i) = HeldBefore(records, i)
  BY DEF EquityAt, WorthAfter, HoldingBefore, HeldBefore
<1> HIDE DEF n
<1>4. NothingEarnedEarly
  <2> SUFFICES ASSUME run.mode # "given", NEW i \in 1..n, i <= 2 PROVE records[i].equity <= Capital
    BY <1>2 DEF NothingEarnedEarly
  <2>1. WorthAfter(records, 0) = Capital /\ HeldBefore(records, 1) = Flat
    BY DEF WorthAfter, HeldBefore
  <2>2. 1 \in 1..n /\ 1 - 1 = 0
    BY <1>2
  <2>3. WorthAfter(records, 1) <= Capital
    BY <1>1, <2>1, <2>2 DEF Sober
  <2>4. i = 2 => HeldBefore(records, 2) = Flat
    BY <1>1, <1>2, <2>2 DEF HeldBefore
  <2>5. i = 2 => WorthAfter(records, 2) <= WorthAfter(records, 1)
    <3> SUFFICES ASSUME i = 2 PROVE WorthAfter(records, 2) <= WorthAfter(records, 1)
      OBVIOUS
    <3>1. Sober(records, 2) /\ 2 - 1 = 1
      BY <1>1
    <3> QED BY <2>4, <3>1 DEF Sober
  <2>6. i \in {1, 2} /\ WorthAfter(records, i) = records[i].equity
    BY <1>2 DEF WorthAfter
  <2>7. Capital \in Nat /\ WorthAfter(records, 1) \in Nat /\ WorthAfter(records, i) \in Nat
    BY <1>2, <2>2, ReplayTypes
  <2> QED BY <2>3, <2>5, <2>6, <2>7
<1>5. ReportMatchesLog
  BY DEF ReplayInvariant, ReportMatchesLog
<1>6. HaltedBarsAreFlat
  <2> SUFFICES ASSUME NEW i \in 1..n, records[i].tier \in {DERISK, HALT}
               PROVE  /\ records[i].holding = Flat
                      /\ i + 1 \in 1..n => WorthAfter(records, i + 1) <= WorthAfter(records, i)
    BY <1>2, <1>3 DEF HaltedBarsAreFlat
  <2>1. records[i].holding = Flat
    BY <1>1 DEF Sober
  <2>2. HeldBefore(records, i + 1) = Flat /\ (i + 1) - 1 = i
    BY <1>2, <2>1 DEF HeldBefore
  <2>3. i + 1 \in 1..n => WorthAfter(records, i + 1) <= WorthAfter(records, i)
    BY <1>1, <2>2 DEF Sober
  <2> QED BY <2>1, <2>3
<1>7. LeverageExcessExplained
  <2> SUFFICES ASSUME NEW i \in 1..n,
                      Total(Magnitudes(records[i].holding)) * Unit > MaxLeverage * records[i].equity
               PROVE  WorthAfter(records, i) < WorthAfter(records, i - 1)
    BY <1>2, <1>3 DEF LeverageExcessExplained
  <2> DEFINE a == WorthAfter(records, i)
             b == WorthAfter(records, i - 1)
             l == Total(Magnitudes(records[i].holding)) * Unit
  <2>1. l <= MaxLeverage * b
    BY <1>1 DEF Sober
  <2>2. a = records[i].equity /\ a \in Nat /\ b \in Nat
    BY <1>2 DEF WorthAfter
  <2>3. l > MaxLeverage * a
    BY <2>2
  <2>4. l \in Int
    <3>1. records[i].holding \in Alloc
      BY <1>1, LogTypes DEF n
    <3>2. Magnitudes(records[i].holding) \in Alloc
      <4>1. \A j \in Assets : records[i].holding[j] \in Int
        BY <3>1 DEF Alloc
      <4>2. \A j \in Assets : Magnitude(records[i].holding[j]) \in Int
        BY <4>1, MagnitudeIs
      <4> QED BY <4>2 DEF Magnitudes, Alloc
    <3>3. Total(Magnitudes(records[i].holding)) \in Int
      BY <3>2, TotalOfAlloc
    <3> QED BY <3>3, ReplayTypes
  <2> HIDE DEF a, b, l
  <2>5. MaxLeverage \in Nat
    BY ReplayTypes
  <2>6. MaxLeverage * a \in Nat /\ MaxLeverage * b \in Nat
    BY <2>2, <2>5, Product
  <2>7. ASSUME b <= a PROVE FALSE
    <3>1. MaxLeverage * b <= MaxLeverage * a
      BY <2>2, <2>5, <2>7
    <3> QED BY <2>1, <2>3, <2>4, <2>6, <3>1
  <2>8. a < b
    BY <2>2, <2>7
  <2> QED BY <2>8 DEF a, b
<1>8. OneModelNeverTrips
  BY <1>1, <1>2 DEF OneModelNeverTrips, Calm
<1> QED BY <1>4, <1>5, <1>6, <1>7, <1>8 DEF ReplayHonest

(* Steps of the others leave the replay as it is.                          *)
LEMMA ReplayStutters == ASSUME ReplayInvariant, UNCHANGED <<breakerVars, replayVars>> PROVE ReplayInvariant'
  BY DEF ReplayInvariant, Books, Calm, ReportMatchesLog, HoldingBefore, EquityAt, breakerVars, replayVars

(* ReplayHonest, where the ambiguity's weight is below the first           *)
(* threshold as with the code's defaults (0.20 and 0.45).                  *)
THEOREM ReplayHonestHolds ==
  ASSUME WeightAmbiguity < Caution
  PROVE  ReplaySpec => []ReplayHonest
<1>1. BreakerInit /\ SizerInit /\ ReplayInit => ReplayInvariant
  BY BooksBegin
<1>2. ReplayInvariant /\ [ReplayNext /\ UNCHANGED sizerVars]_<<breakerVars, replayVars, sizerVars>>
        => ReplayInvariant'
  <2> SUFFICES ASSUME ReplayInvariant,
                      [ReplayNext /\ UNCHANGED sizerVars]_<<breakerVars, replayVars, sizerVars>>
               PROVE  ReplayInvariant'
    OBVIOUS
  <2>1. ASSUME NEW mode \in Modes, NEW length \in Lengths, NEW rising \in BOOLEAN, NEW panic \in BOOLEAN,
               NEW models \in {1, 2}, NEW beta \in Readings,
               StartRun(mode, length, rising, models, beta, panic)
        PROVE  ReplayInvariant'
    BY <2>1, StartKeeps
  <2>2. CASE GivenBar
    <3>1. PICK ret \in [Assets -> Returns], sig \in [Assets -> {-1, 0, 1}], panic \in BOOLEAN,
               d \in (IF run.models > 1 THEN Readings ELSE {0}) : Bar(ret, sig, d, panic)
      BY <2>2 DEF GivenBar
    <3>2. run.mode = "given"
      BY <2>2 DEF GivenBar
    <3> QED BY <3>1, <3>2, BarKeeps DEF Calm
  <2>3. CASE ComputedBar
    <3>1. PICK ret \in [Assets -> Returns], cusum \in BOOLEAN :
            Bar(ret, Signals(Len(records), ret), 0, cusum /\ run.panic)
      BY <2>3 DEF ComputedBar
    <3> DEFINE panic == cusum /\ run.panic
               sig == Signals(Len(records), ret)
    <3>2. Len(records) = 0 => \A i \in Assets : sig[i] = 0
      BY DEF Signals
    <3>3. panic \in BOOLEAN /\ (Calm => ~panic)
      BY DEF Calm
    <3> HIDE DEF panic, sig
    <3>4. Bar(ret, sig, 0, panic)
      BY <3>1 DEF panic, sig
    <3> QED BY <3>2, <3>3, <3>4, BarKeeps
  <2>4. CASE Audit
    BY <2>4, AuditKeeps
  <2>5. CASE UNCHANGED <<breakerVars, replayVars, sizerVars>>
    BY <2>5, ReplayStutters
  <2> QED BY <2>1, <2>2, <2>3, <2>4, <2>5 DEF ReplayNext
<1>3. ReplayInvariant => ReplayHonest
  BY BooksAreHonest
<1> QED BY <1>1, <1>2, <1>3, PTL DEF ReplaySpec

----------------------------------------------------------------------------
(* Chromosomes                                                             *)

(* The steps of the three grids in a coordinate of the unit cube.          *)
GridStep == UnitLength \div Span
HalfLevel == UnitLength \div (2 * Levels)
LogitStep == UnitLength \div (2 * LogitBound)

LEMMA DivExact ==
  ASSUME NEW n \in Nat \ {0}, NEW m \in Int
  PROVE  (n * m) \div n = m
<1> DEFINE q == (n * m) \div n
           r == (n * m) % n
<1>1. q \in Int /\ r \in 0..(n - 1) /\ n * m = n * q + r
  OBVIOUS
<1> HIDE DEF q, r
<1>2. n * (m - q) = r
  BY <1>1
<1>3. m - q \in Int
  BY <1>1
<1>4. ~(m - q >= 1)
  <2> SUFFICES ASSUME m - q >= 1 PROVE FALSE
    OBVIOUS
  <2>1. n * (m - q) >= n
    BY <1>3
  <2> QED BY <1>1, <1>2, <2>1
<1>5. ~(m - q <= -1)
  <2> SUFFICES ASSUME m - q <= -1 PROVE FALSE
    OBVIOUS
  <2>1. n * (m - q) <= -n
    BY <1>3
  <2> QED BY <1>1, <1>2, <2>1
<1>6. m = q
  BY <1>1, <1>3, <1>4, <1>5
<1> QED BY <1>6 DEF q

LEMMA GridShape ==
  /\ Span \in Nat \ {0} /\ Levels \in Nat \ {0} /\ LogitBound \in Nat \ {0}
  /\ UnitLength \in Nat \ {0}
  /\ GridStep \in Nat \ {0} /\ UnitLength = Span * GridStep
  /\ HalfLevel \in Nat \ {0} /\ UnitLength = (2 * Levels) * HalfLevel
  /\ LogitStep \in Nat \ {0} /\ UnitLength = (2 * LogitBound) * LogitStep
<1>1. Span \in Nat \ {0} /\ Levels \in Nat \ {0} /\ LogitBound \in Nat \ {0}
  BY ChromosomeAssumption
<1> DEFINE a == 2 * Levels * 2 * LogitBound
           b == 2 * Span * LogitBound
           c == 2 * Span * Levels
<1>2. /\ a \in Nat \ {0} /\ b \in Nat \ {0} /\ c \in Nat \ {0}
  <2>1. \A x, y \in Nat \ {0} : x * y \in Nat \ {0}
    OBVIOUS
  <2>2. Levels * LogitBound \in Nat \ {0} /\ Span * LogitBound \in Nat \ {0} /\ Span * Levels \in Nat \ {0}
    BY <1>1, <2>1
  <2>3. a = 4 * (Levels * LogitBound) /\ b = 2 * (Span * LogitBound) /\ c = 2 * (Span * Levels)
    BY <1>1
  <2> QED BY <2>2, <2>3
<1>3. UnitLength = Span * a /\ UnitLength = (2 * Levels) * b /\ UnitLength = (2 * LogitBound) * c
  BY <1>1 DEF UnitLength
<1> HIDE DEF a, b, c
<1>4. GridStep = a
  BY <1>1, <1>2, <1>3, DivExact DEF GridStep
<1>5. HalfLevel = b
  <2>1. 2 * Levels \in Nat \ {0}
    BY <1>1
  <2> QED BY <2>1, <1>2, <1>3, DivExact DEF HalfLevel
<1>6. LogitStep = c
  <2>1. 2 * LogitBound \in Nat \ {0}
    BY <1>1
  <2> QED BY <2>1, <1>2, <1>3, DivExact DEF LogitStep
<1>7. UnitLength \in Nat \ {0}
  BY <1>1, <1>2, <1>3
<1> QED BY <1>1, <1>2, <1>3, <1>4, <1>5, <1>6, <1>7

Genomes == [cont : 0..Span, period : 0..Longest, logit : [Logits -> -LogitBound..LogitBound]]
Vectors == [cont : 0..UnitLength, period : 0..UnitLength, logit : [Logits -> 0..UnitLength]]

(* The part of a logit's grid that is left after d decodings.              *)
Grade(d) == IF d = 0 THEN 9 ELSE IF d = 1 THEN 3 ELSE 1
Multiple(x, k) == \E m \in Int : x = k * m

LEMMA ClipBounds ==
  ASSUME NEW x \in Int, NEW lo \in Int, NEW hi \in Int, lo <= hi
  PROVE  /\ Clip(x, lo, hi) \in lo..hi
         /\ x \in lo..hi => Clip(x, lo, hi) = x
         /\ Clip(x, lo, hi) \in {x, lo, hi}
         /\ Clip(x, lo, hi) # x => Clip(x, lo, hi) \in {lo, hi}
  BY DEF Clip

LEMMA Multiples ==
  ASSUME NEW k \in Nat \ {0}, NEW x \in Int, NEW y \in Int, Multiple(x, k), Multiple(y, k)
  PROVE  Multiple(x + y, k) /\ Multiple(x - y, k) /\ Multiple(-x, k)
<1>1. PICK m \in Int : x = k * m
  BY DEF Multiple
<1>2. PICK n \in Int : y = k * n
  BY DEF Multiple
<1>3. x + y = k * (m + n) /\ x - y = k * (m - n) /\ -x = k * (-m)
  BY <1>1, <1>2
<1>4. m + n \in Int /\ m - n \in Int /\ -m \in Int
  OBVIOUS
<1> QED BY <1>3, <1>4 DEF Multiple

LEMMA BoundMultiple ==
  \A k \in {1, 3, 9, 27} : Multiple(LogitBound, k) /\ Multiple(-LogitBound, k)
<1>1. PICK q \in Int : LogitBound = 54 * q
  BY ChromosomeAssumption
<1> DEFINE Both(k) == \E m \in Int : LogitBound = k * m /\ -LogitBound = k * (-m)
<1>2. \A k \in {1, 3, 9, 27} : Both(k)
  <2>1. /\ LogitBound = 1 * (54 * q) /\ -LogitBound = 1 * (-(54 * q)) /\ 54 * q \in Int
        /\ LogitBound = 3 * (18 * q) /\ -LogitBound = 3 * (-(18 * q)) /\ 18 * q \in Int
        /\ LogitBound = 9 * (6 * q) /\ -LogitBound = 9 * (-(6 * q)) /\ 6 * q \in Int
        /\ LogitBound = 27 * (2 * q) /\ -LogitBound = 27 * (-(2 * q)) /\ 2 * q \in Int
    BY <1>1
  <2>2. Both(1)
    <3> WITNESS 54 * q \in Int
    <3> QED BY <2>1
  <2>3. Both(3)
    <3> WITNESS 18 * q \in Int
    <3> QED BY <2>1
  <2>4. Both(9)
    <3> WITNESS 6 * q \in Int
    <3> QED BY <2>1
  <2>5. Both(27)
    <3> WITNESS 2 * q \in Int
    <3> QED BY <2>1
  <2> HIDE DEF Both
  <2> QED BY <2>2, <2>3, <2>4, <2>5
<1>3. \A m \in Int : -m \in Int
  OBVIOUS
<1> QED BY <1>2, <1>3 DEF Multiple

OnGrid(l, k) == \A g \in Logits : Multiple(l[g], k)
CodedOnGrid(u, k) == \A g \in Logits : \E m \in Int : u[g] = LogitStep * m /\ Multiple(m, k)

LEMMA ClipMultiple ==
  ASSUME NEW k \in {1, 3, 9, 27}, NEW x \in Int, Multiple(x, k)
  PROVE  Multiple(Clip(x, -LogitBound, LogitBound), k)
<1>1. LogitBound \in Int /\ -LogitBound \in Int /\ -LogitBound <= LogitBound
  BY GridShape
<1> DEFINE c == Clip(x, -LogitBound, LogitBound)
<1>2. x \in Int /\ c \in {x, -LogitBound, LogitBound}
  <2>1. x \in Int
    OBVIOUS
  <2> QED BY <1>1, <2>1, ClipBounds
<1> HIDE DEF c
<1>3. Multiple(c, k)
  BY <1>2, BoundMultiple
<1> QED BY <1>3 DEF c

LEMMA MassInt ==
  ASSUME NEW l \in [Logits -> Int]
  PROVE  /\ Mass(l) \in Int /\ Mass(l) \div 3 \in Int /\ Mass(l) = l["bull"] + l["bear"] + l["panic"]
         /\ l["bull"] \in Int /\ l["bear"] \in Int /\ l["panic"] \in Int
  BY DEF Mass, Logits

(* A grid of thirds loses one third in centring.                           *)
LEMMA CentredShape ==
  ASSUME NEW l \in [Logits -> Int], NEW k \in {1, 3, 9}, OnGrid(l, 3 * k)
  PROVE  /\ Centred(l) \in [Logits -> -LogitBound..LogitBound]
         /\ OnGrid(Centred(l), k)
         /\ \/ Mass(Centred(l)) = 0
            \/ \E g \in Logits : Centred(l)[g] \in {-LogitBound, LogitBound}
         /\ (l \in [Logits -> -LogitBound..LogitBound] /\ Mass(l) = 0) => Centred(l) = l
<1>1. LogitBound \in Int /\ -LogitBound \in Int /\ -LogitBound <= LogitBound
  BY GridShape
<1> DEFINE s == Mass(l) \div 3
<1>2. s \in Int /\ Mass(l) = 3 * s /\ Multiple(s, k)
  <2>1. PICK x \in Int, y \in Int, z \in Int :
          l["bull"] = (3 * k) * x /\ l["bear"] = (3 * k) * y /\ l["panic"] = (3 * k) * z
    BY DEF OnGrid, Multiple, Logits
  <2>2. k * (x + y + z) \in Int /\ x + y + z \in Int /\ Mass(l) = 3 * (k * (x + y + z))
    BY <2>1 DEF Mass
  <2>3. s = k * (x + y + z)
    BY <2>2, DivExact
  <2> QED BY <2>2, <2>3 DEF Multiple
<1> HIDE DEF s
<1>3. \A g \in Logits : l[g] - s \in Int /\ Multiple(l[g] - s, k)
  <2> SUFFICES ASSUME NEW g \in Logits PROVE l[g] - s \in Int /\ Multiple(l[g] - s, k)
    OBVIOUS
  <2>1. PICK x \in Int : l[g] = (3 * k) * x
    BY DEF OnGrid, Multiple
  <2>2. l[g] = k * (3 * x) /\ 3 * x \in Int
    BY <2>1
  <2>3. Multiple(l[g], k) /\ l[g] \in Int
    BY <2>2 DEF Multiple
  <2>4. k \in Nat \ {0} /\ s \in Int /\ Multiple(s, k)
    BY <1>2
  <2>5. Multiple(l[g] - s, k)
    BY <2>3, <2>4, Multiples
  <2> QED BY <2>3, <2>4, <2>5
<1>4. Centred(l) = [g \in Logits |-> Clip(l[g] - s, -LogitBound, LogitBound)]
  BY DEF Centred, s
<1>5. \A g \in Logits :
        /\ Centred(l)[g] \in -LogitBound..LogitBound
        /\ Centred(l)[g] # l[g] - s => Centred(l)[g] \in {-LogitBound, LogitBound}
        /\ Multiple(Centred(l)[g], k)
  <2> SUFFICES ASSUME NEW g \in Logits
               PROVE  /\ Clip(l[g] - s, -LogitBound, LogitBound) \in -LogitBound..LogitBound
                      /\ Clip(l[g] - s, -LogitBound, LogitBound) # l[g] - s
                           => Clip(l[g] - s, -LogitBound, LogitBound) \in {-LogitBound, LogitBound}
                      /\ Multiple(Clip(l[g] - s, -LogitBound, LogitBound), k)
    BY <1>4
  <2> DEFINE x == l[g] - s
  <2>1. x \in Int /\ Multiple(x, k) /\ k \in {1, 3, 9, 27}
    BY <1>3
  <2> HIDE DEF x
  <2>2. Multiple(Clip(x, -LogitBound, LogitBound), k)
    BY <2>1, ClipMultiple
  <2>3. /\ Clip(x, -LogitBound, LogitBound) \in -LogitBound..LogitBound
        /\ Clip(x, -LogitBound, LogitBound) # x
             => Clip(x, -LogitBound, LogitBound) \in {-LogitBound, LogitBound}
    BY <1>1, <2>1, ClipBounds
  <2> QED BY <2>2, <2>3 DEF x
<1>8. Centred(l) \in [Logits -> -LogitBound..LogitBound] /\ OnGrid(Centred(l), k)
  <2>1. Centred(l) = [g \in Logits |-> Centred(l)[g]]
    BY <1>4
  <2>2. [g \in Logits |-> Centred(l)[g]] \in [Logits -> -LogitBound..LogitBound]
    BY <1>5
  <2> QED BY <2>1, <2>2, <1>5 DEF OnGrid
<1>6. CASE \A g \in Logits : Centred(l)[g] = l[g] - s
  <2>1. Mass(Centred(l)) = (l["bull"] - s) + (l["bear"] - s) + (l["panic"] - s)
    BY <1>6 DEF Mass, Logits
  <2>2. Mass(Centred(l)) = 0
    BY <2>1, <1>2, MassInt
  <2>4. Mass(l) = 0 => Centred(l) = l
    <3> SUFFICES ASSUME Mass(l) = 0 PROVE Centred(l) = l
      OBVIOUS
    <3>1. s = 0
      BY <1>2
    <3>2. \A g \in Logits : Centred(l)[g] = l[g]
      BY <1>6, <3>1
    <3>3. Centred(l) = [g \in Logits |-> Centred(l)[g]] /\ l = [g \in Logits |-> l[g]]
      BY <1>4
    <3>4. [g \in Logits |-> Centred(l)[g]] = [g \in Logits |-> l[g]]
      BY <3>2
    <3> QED BY <3>3, <3>4
  <2> QED BY <2>2, <1>8, <2>4
<1>7. CASE \E g \in Logits : Centred(l)[g] # l[g] - s
  <2>1. \E g \in Logits : Centred(l)[g] \in {-LogitBound, LogitBound}
    BY <1>5, <1>7
  <2>3. ~(l \in [Logits -> -LogitBound..LogitBound] /\ Mass(l) = 0)
    <3> SUFFICES ASSUME l \in [Logits -> -LogitBound..LogitBound], Mass(l) = 0 PROVE FALSE
      OBVIOUS
    <3>1. s = 0
      BY <1>2
    <3>2. \A g \in Logits : Clip(l[g] - s, -LogitBound, LogitBound) = l[g] - s
      <4> SUFFICES ASSUME NEW g \in Logits PROVE Clip(l[g] - s, -LogitBound, LogitBound) = l[g] - s
        OBVIOUS
      <4>1. l[g] - s = l[g] /\ l[g] \in -LogitBound..LogitBound
        BY <3>1
      <4> QED BY <1>1, <1>3, <4>1, ClipBounds
    <3> QED BY <3>2, <1>4, <1>7
  <2> QED BY <2>1, <1>8, <2>3
<1> QED BY <1>6, <1>7

LEMMA DivWithRest ==
  ASSUME NEW n \in Nat \ {0}, NEW m \in Int, NEW r \in 0..(n - 1)
  PROVE  (n * m + r) \div n = m
<1> DEFINE x == n * m + r
           q == x \div n
           t == x % n
<1>1. x \in Int /\ q \in Int /\ t \in 0..(n - 1) /\ x = n * q + t
  OBVIOUS
<1>2. x = n * m + r
  OBVIOUS
<1> HIDE DEF q, t, x
<1>3. n * (m - q) = t - r /\ m - q \in Int
  BY <1>1, <1>2
<1>4. ~(m - q >= 1)
  <2> SUFFICES ASSUME m - q >= 1 PROVE FALSE
    OBVIOUS
  <2>1. n * (m - q) >= n
    BY <1>3
  <2> QED BY <1>1, <1>3, <2>1
<1>5. ~(m - q <= -1)
  <2> SUFFICES ASSUME m - q <= -1 PROVE FALSE
    OBVIOUS
  <2>1. n * (m - q) <= -n
    BY <1>3
  <2> QED BY <1>1, <1>3, <2>1
<1>6. m = q
  BY <1>1, <1>3, <1>4, <1>5
<1> QED BY <1>6 DEF q, x

LEMMA DivMod ==
  ASSUME NEW x \in Int, NEW n \in Nat \ {0}
  PROVE  \E q \in Int, r \in 0..(n - 1) : x \div n = q /\ x % n = r /\ x = n * q + r
<1>1. x \div n \in Int
  OBVIOUS
<1>2. x % n \in 0..(n - 1)
  OBVIOUS
<1>3. x % n = x - (x \div n) * n
  OBVIOUS
<1> DEFINE q == x \div n
           r == x % n
<1>4. q \in Int /\ r \in 0..(n - 1) /\ r = x - q * n
  BY <1>1, <1>2, <1>3
<1> HIDE DEF q, r
<1>5. q \in Int /\ r \in 0..(n - 1) /\ x = n * q + r
  BY <1>4
<1>6. x \div n = q /\ x % n = r
  BY DEF q, r
<1> QED BY <1>5, <1>6

(* A period is at most half a step from the nearest level, which is the    *)
(* period itself when that lies on a level.                                *)
LEMMA LongestIs == GeneStep \in Nat \ {0} /\ Longest \in Nat
<1>1. GeneStep \in Nat \ {0}
  <2>1. GeneStep \in Nat /\ GeneStep % 2 = 1
    BY ChromosomeAssumption
  <2> QED BY <2>1
<1>2. Levels - 1 \in Nat
  BY GridShape
<1>3. \A a, b \in Nat : a * b \in Nat
  OBVIOUS
<1> QED BY <1>1, <1>2, <1>3 DEF Longest

LEMMA OnLevel ==
  ASSUME NEW q \in 0..(Levels - 1)
  PROVE  q * GeneStep \in 0..Longest /\ (q * GeneStep) % GeneStep = 0
<1>1. GeneStep \in Nat \ {0} /\ Levels \in Nat \ {0} /\ q \in Nat /\ (Levels - 1) - q \in Nat
  BY LongestIs, GridShape
<1>2. ((Levels - 1) - q) * GeneStep >= 0 /\ q * GeneStep >= 0
  <2>1. \A a, b \in Nat : a * b >= 0
    OBVIOUS
  <2> QED BY <1>1, <2>1
<1>3. ((Levels - 1) - q) * GeneStep = (Levels - 1) * GeneStep - q * GeneStep
  BY <1>1
<1>4. q * GeneStep \in Int /\ (Levels - 1) * GeneStep \in Int
  BY <1>1
<1>5. q * GeneStep \in 0..Longest
  BY <1>2, <1>3, <1>4 DEF Longest
<1>6. q * GeneStep = GeneStep * q
  BY <1>1
<1> DEFINE y == GeneStep * q
<1>7. y \div GeneStep = q
  BY <1>1, DivExact
<1>8. y \in Int /\ y = GeneStep * q
  BY <1>1
<1> HIDE DEF y
<1>9. y % GeneStep = 0
  <2>1. PICK d \in Int, r \in 0..(GeneStep - 1) :
          y \div GeneStep = d /\ y % GeneStep = r /\ y = GeneStep * d + r
    BY <1>1, <1>8, DivMod
  <2>2. r = GeneStep * q - GeneStep * q /\ r \in Int
    BY <1>1, <1>7, <1>8, <2>1
  <2> QED BY <1>1, <2>1, <2>2
<1> QED BY <1>5, <1>6, <1>9 DEF y

LEMMA NearestIs ==
  ASSUME NEW x \in 0..Longest
  PROVE  /\ NearestLevel(x) \in 0..(Levels - 1)
         /\ 2 * (NearestLevel(x) * GeneStep - x) \in -GeneStep..GeneStep
         /\ x % GeneStep = 0 => NearestLevel(x) * GeneStep = x
<1> DEFINE b == 2 * GeneStep
           a == 2 * x + GeneStep
           q == a \div b
<1>1. /\ GeneStep \in Nat \ {0} /\ Levels \in Nat \ {0} /\ x \in Nat
      /\ x <= Levels * GeneStep - GeneStep /\ Levels * GeneStep \in Nat
  <2>1. /\ GeneStep \in Nat \ {0} /\ Levels \in Nat \ {0} /\ Longest \in Nat
    BY LongestIs, GridShape
  <2>2. Longest = Levels * GeneStep - GeneStep
    BY <2>1 DEF Longest
  <2>3. \A m, n \in Nat : m * n \in Nat
    OBVIOUS
  <2> QED BY <2>1, <2>2, <2>3
<1>2. a \in Nat /\ b \in Nat \ {0} /\ b = 2 * GeneStep /\ a = 2 * x + GeneStep
  BY <1>1
<1>3. NearestLevel(x) = q
  BY DEF NearestLevel
<1> HIDE DEF a, b
<1>4. \E d \in Int, e \in 0..(b - 1) : a \div b = d /\ a % b = e /\ a = b * d + e
  <2>1. a \in Int
    BY <1>2
  <2> QED BY <1>2, <2>1, DivMod
<1> HIDE DEF q
<1>11. PICK r \in 0..(b - 1) : q \in Int /\ a = b * q + r
  <2>1. PICK d \in Int, e \in 0..(b - 1) : a \div b = d /\ a = b * d + e
    BY <1>4, Zenon
  <2>2. q = d
    BY <2>1, Zenon DEF q
  <2> QED BY <2>1, <2>2, Zenon
<1>5. b * q = 2 * (q * GeneStep) /\ q * GeneStep \in Int
  BY <1>1, <1>2, <1>11
<1>6. 2 * (q * GeneStep - x) \in -GeneStep..GeneStep
  BY <1>1, <1>2, <1>11, <1>5
<1>7. ~(q <= -1)
  <2> SUFFICES ASSUME q <= -1 PROVE FALSE
    OBVIOUS
  <2>1. b * q <= -b
    BY <1>2, <1>11
  <2> QED BY <1>2, <1>11, <2>1
<1>8. ~(q - Levels >= 0)
  <2> SUFFICES ASSUME q - Levels >= 0 PROVE FALSE
    OBVIOUS
  <2>1. (q - Levels) * GeneStep >= 0
    <3>1. q - Levels \in Nat
      BY <1>1, <1>11
    <3>2. \A m, n \in Nat : m * n >= 0
      OBVIOUS
    <3> QED BY <1>1, <3>1, <3>2
  <2>2. (q - Levels) * GeneStep = q * GeneStep - Levels * GeneStep
    BY <1>1, <1>11
  <2>3. q * GeneStep >= Levels * GeneStep
    BY <1>1, <1>5, <2>1, <2>2
  <2> QED BY <1>1, <1>2, <1>11, <1>5, <2>3
<1>9. q \in 0..(Levels - 1)
  BY <1>1, <1>11, <1>7, <1>8
<1>10. x % GeneStep = 0 => q * GeneStep = x
  <2> SUFFICES ASSUME x % GeneStep = 0 PROVE q * GeneStep = x
    OBVIOUS
  <2>1. PICK m \in Int : x = GeneStep * m
    <3>1. x \in Int /\ \A m \in Int : GeneStep * m + 0 = GeneStep * m
      BY <1>1
    <3> QED BY <1>1, <3>1, DivMod
  <2>2. a = b * m + GeneStep /\ GeneStep \in 0..(b - 1)
    <3>1. a = 2 * (GeneStep * m) + GeneStep /\ b = 2 * GeneStep
      BY <1>2, <2>1
    <3>2. 2 * (GeneStep * m) = (2 * GeneStep) * m
      BY <1>1
    <3>3. a = b * m + GeneStep
      BY <3>1, <3>2
    <3>4. GeneStep \in 0..(b - 1)
      BY <1>1, <1>2
    <3> QED BY <3>3, <3>4
  <2>3. a \div b = m
    BY <1>2, <2>1, <2>2, DivWithRest
  <2>4. q = m
    BY <2>3 DEF q
  <2> QED BY <1>1, <2>1, <2>4
<1> QED BY <1>3, <1>6, <1>9, <1>10

(* Coding a genome and decoding it again.                                  *)
LEMMA EncodeShape ==
  ASSUME NEW c \in Genomes, NEW k \in {3, 9}, OnGrid(c.logit, k)
  PROVE  /\ Encode(c) \in Vectors /\ CodedOnGrid(Encode(c).logit, k)
<1>1. /\ c.cont \in 0..Span /\ c.period \in 0..Longest /\ c.logit \in [Logits -> -LogitBound..LogitBound]
      /\ k \in {1, 3, 9, 27} /\ k \in Nat \ {0}
  BY DEF Genomes
<1>2. Encode(c) = [cont |-> c.cont * GridStep, period |-> (2 * NearestLevel(c.period) + 1) * HalfLevel,
                   logit |-> [g \in Logits |-> (c.logit[g] + LogitBound) * LogitStep]]
  BY DEF Encode, GridStep, HalfLevel, LogitStep
<1>3. \A a, b \in Nat, n \in Nat : a <= b => a * n \in 0..(b * n)
  <2> SUFFICES ASSUME NEW a \in Nat, NEW b \in Nat, NEW n \in Nat, a <= b PROVE a * n \in 0..(b * n)
    OBVIOUS
  <2>1. (b - a) * n >= 0 /\ (b - a) * n = b * n - a * n /\ a * n >= 0
    OBVIOUS
  <2> QED BY <2>1
<1>4. c.cont * GridStep \in 0..UnitLength
  <2>1. c.cont \in Nat /\ Span \in Nat /\ c.cont <= Span /\ GridStep \in Nat
    BY <1>1, GridShape
  <2> QED BY <2>1, <1>3, GridShape
<1>5. (2 * NearestLevel(c.period) + 1) * HalfLevel \in 0..UnitLength
  <2> DEFINE n == NearestLevel(c.period)
  <2>1. n \in 0..(Levels - 1)
    BY <1>1, NearestIs
  <2> HIDE DEF n
  <2>2. 2 * n + 1 \in Nat /\ 2 * Levels \in Nat /\ 2 * n + 1 <= 2 * Levels /\ HalfLevel \in Nat
    BY <2>1, GridShape
  <2>3. (2 * n + 1) * HalfLevel \in 0..UnitLength
    BY <2>2, <1>3, GridShape
  <2> QED BY <2>3 DEF n
<1>6. \A g \in Logits : /\ (c.logit[g] + LogitBound) * LogitStep \in 0..UnitLength
                        /\ \E m \in Int : (c.logit[g] + LogitBound) * LogitStep = LogitStep * m /\ Multiple(m, k)
  <2> SUFFICES ASSUME NEW g \in Logits
               PROVE  /\ (c.logit[g] + LogitBound) * LogitStep \in 0..UnitLength
                      /\ \E m \in Int : (c.logit[g] + LogitBound) * LogitStep = LogitStep * m /\ Multiple(m, k)
    OBVIOUS
  <2> DEFINE m == c.logit[g] + LogitBound
  <2>1. m \in Nat /\ 2 * LogitBound \in Nat /\ m <= 2 * LogitBound /\ LogitStep \in Nat
    BY <1>1, GridShape
  <2>2. Multiple(m, k)
    <3>1. c.logit[g] \in Int /\ LogitBound \in Int /\ Multiple(c.logit[g], k) /\ Multiple(LogitBound, k)
      BY <1>1, GridShape, BoundMultiple DEF OnGrid
    <3> QED BY <1>1, <3>1, Multiples
  <2> HIDE DEF m
  <2>3. m * LogitStep \in 0..UnitLength
    BY <2>1, <1>3, GridShape
  <2>4. m * LogitStep = LogitStep * m /\ m \in Int
    BY <2>1
  <2> QED BY <2>2, <2>3, <2>4 DEF m
<1>7. [g \in Logits |-> (c.logit[g] + LogitBound) * LogitStep] \in [Logits -> 0..UnitLength]
  BY <1>6
<1>8. Encode(c) \in Vectors
  BY <1>2, <1>4, <1>5, <1>7 DEF Vectors
<1>9. \A g \in Logits : Encode(c).logit[g] = (c.logit[g] + LogitBound) * LogitStep
  BY <1>2
<1> QED BY <1>6, <1>8, <1>9 DEF CodedOnGrid

LEMMA DivRange ==
  ASSUME NEW n \in Nat, NEW b \in Nat \ {0}, NEW a \in 0..(n * b)
  PROVE  a \div b \in 0..n
<1> DEFINE q == a \div b
           r == a % b
<1>1. q \in Int /\ r \in 0..(b - 1) /\ a = b * q + r /\ a \in Int /\ 0 <= a /\ a <= n * b
  OBVIOUS
<1> HIDE DEF q, r
<1>2. ~(q <= -1)
  <2> SUFFICES ASSUME q <= -1 PROVE FALSE
    OBVIOUS
  <2>1. b * q <= -b
    BY <1>1
  <2> QED BY <1>1, <2>1
<1>3. ~(q - n >= 1)
  <2> SUFFICES ASSUME q - n >= 1 PROVE FALSE
    OBVIOUS
  <2>1. b * (q - n) >= b /\ b * (q - n) = b * q - n * b
    BY <1>1
  <2> QED BY <1>1, <2>1
<1>4. q \in 0..n
  BY <1>1, <1>2, <1>3
<1> QED BY <1>4 DEF q

LEMMA ClipUnit ==
  ASSUME NEW u \in 0..UnitLength
  PROVE  Clip(u, 0, UnitLength) = u
  BY GridShape DEF Clip

RawLogits(u) == [g \in Logits |-> (Clip(u[g], 0, UnitLength) \div LogitStep) - LogitBound]

LEMMA RawShape ==
  ASSUME NEW u \in [Logits -> 0..UnitLength], NEW k \in {3, 9}, CodedOnGrid(u, k)
  PROVE  RawLogits(u) \in [Logits -> Int] /\ OnGrid(RawLogits(u), k)
<1> SUFFICES ASSUME NEW g \in Logits
             PROVE  /\ (Clip(u[g], 0, UnitLength) \div LogitStep) - LogitBound \in Int
                    /\ Multiple((Clip(u[g], 0, UnitLength) \div LogitStep) - LogitBound, k)
  BY Zenon DEF RawLogits, OnGrid
<1>1. PICK m \in Int : u[g] = LogitStep * m /\ Multiple(m, k)
  BY DEF CodedOnGrid
<1>2. Clip(u[g], 0, UnitLength) \div LogitStep = m
  BY <1>1, ClipUnit, DivExact, GridShape
<1>3. LogitBound \in Int /\ Multiple(LogitBound, k) /\ k \in Nat \ {0}
  BY GridShape, BoundMultiple
<1>4. Multiple(m - LogitBound, k)
  BY <1>1, <1>3, Multiples
<1> QED BY <1>2, <1>3, <1>4

LEMMA DecodeShape ==
  ASSUME NEW v \in Vectors, NEW j \in {1, 3}, CodedOnGrid(v.logit, 3 * j)
  PROVE  /\ Decode(v) \in Genomes /\ OnGrid(Decode(v).logit, j)
         /\ \/ Mass(Decode(v).logit) = 0
            \/ \E g \in Logits : Decode(v).logit[g] \in {-LogitBound, LogitBound}
         /\ Decode(v).logit = Centred(RawLogits(v.logit))
         /\ Decode(v).period % GeneStep = 0
<1>1. v.cont \in 0..UnitLength /\ v.period \in 0..UnitLength /\ v.logit \in [Logits -> 0..UnitLength]
  BY DEF Vectors
<1>2. Decode(v) = [cont |-> Clip(v.cont, 0, UnitLength) \div GridStep,
                   period |-> DecodeLevel(v.period) * GeneStep,
                   logit |-> Centred(RawLogits(v.logit))]
  BY DEF Decode, DecodeLogits, RawLogits, GridStep, LogitStep
<1>3. Clip(v.cont, 0, UnitLength) \div GridStep \in 0..Span
  <2>1. Clip(v.cont, 0, UnitLength) = v.cont /\ v.cont \in 0..(Span * GridStep)
    BY <1>1, ClipUnit, GridShape
  <2> QED BY <2>1, DivRange, GridShape
<1>4. DecodeLevel(v.period) \in 0..(Levels - 1)
  <2>1. (Clip(v.period, 0, UnitLength) * Levels) \div UnitLength \in Int
    <3>1. Clip(v.period, 0, UnitLength) * Levels \in Int
      BY <1>1, ClipUnit, GridShape
    <3> QED BY <3>1, GridShape
  <2>2. Levels - 1 \in Int /\ 0 <= Levels - 1
    BY GridShape
  <2> QED BY <2>1, <2>2, ClipBounds DEF DecodeLevel
<1>5. RawLogits(v.logit) \in [Logits -> Int] /\ OnGrid(RawLogits(v.logit), 3 * j)
  <2>1. 3 * j \in {3, 9}
    OBVIOUS
  <2> QED BY <1>1, <2>1, RawShape
<1> DEFINE l == Centred(RawLogits(v.logit))
<1>6. /\ l \in [Logits -> -LogitBound..LogitBound] /\ OnGrid(l, j)
      /\ Mass(l) = 0 \/ \E g \in Logits : l[g] \in {-LogitBound, LogitBound}
  <2>1. j \in {1, 3, 9}
    OBVIOUS
  <2> QED BY <1>5, <2>1, CentredShape
<1>7. Decode(v).logit = l
  BY <1>2
<1> HIDE DEF l
<1>8. Decode(v) \in Genomes
  <2>1. Decode(v) = [cont |-> Clip(v.cont, 0, UnitLength) \div GridStep,
                     period |-> DecodeLevel(v.period) * GeneStep, logit |-> l]
    BY <1>2 DEF l
  <2>2. DecodeLevel(v.period) * GeneStep \in 0..Longest
    BY <1>4, OnLevel
  <2> QED BY <1>3, <1>6, <2>1, <2>2 DEF Genomes
<1>10. Decode(v).period % GeneStep = 0
  <2>1. Decode(v).period = DecodeLevel(v.period) * GeneStep
    BY <1>2
  <2> QED BY <1>4, <2>1, OnLevel
<1>9. Decode(v).logit = Centred(RawLogits(v.logit))
  BY <1>7 DEF l
<1> QED BY <1>6, <1>7, <1>8, <1>9, <1>10

(* An unchanged vector gives its genome back, a period at its nearest level. *)
LEMMA RoundTrip ==
  ASSUME NEW c \in Genomes, NEW k \in {3, 9}, OnGrid(c.logit, k)
  PROVE  /\ Decode(Encode(c)).cont = c.cont
         /\ Decode(Encode(c)).period = NearestLevel(c.period) * GeneStep
         /\ Mass(c.logit) = 0 => Decode(Encode(c)).logit = c.logit
<1>1. /\ c.cont \in 0..Span /\ c.period \in 0..Longest /\ c.logit \in [Logits -> -LogitBound..LogitBound]
  BY DEF Genomes
<1>2. Encode(c) = [cont |-> c.cont * GridStep, period |-> (2 * NearestLevel(c.period) + 1) * HalfLevel,
                   logit |-> [g \in Logits |-> (c.logit[g] + LogitBound) * LogitStep]]
  BY DEF Encode, GridStep, HalfLevel, LogitStep
<1>3. Encode(c) \in Vectors
  BY EncodeShape
<1> DEFINE v == Encode(c)
<1>4. /\ v.cont \in 0..UnitLength /\ v.period \in 0..UnitLength /\ v.logit \in [Logits -> 0..UnitLength]
      /\ v.cont = c.cont * GridStep /\ v.period = (2 * NearestLevel(c.period) + 1) * HalfLevel
      /\ \A g \in Logits : v.logit[g] = (c.logit[g] + LogitBound) * LogitStep
  BY <1>2, <1>3 DEF Vectors
<1>5. /\ Decode(v).cont = Clip(v.cont, 0, UnitLength) \div GridStep
      /\ Decode(v).period = DecodeLevel(v.period) * GeneStep /\ Decode(v).logit = Centred(RawLogits(v.logit))
  BY DEF Decode, DecodeLogits, RawLogits, GridStep, LogitStep
<1> HIDE DEF v
<1>6. Decode(v).cont = c.cont
  <2>1. v.cont = GridStep * c.cont /\ c.cont \in Int
    <3>1. c.cont \in Int /\ GridStep \in Int /\ v.cont = c.cont * GridStep
      BY <1>1, <1>4, GridShape
    <3> QED BY <3>1
  <2>2. Clip(v.cont, 0, UnitLength) = v.cont
    BY <1>4, ClipUnit
  <2>3. v.cont \div GridStep = c.cont
    BY <2>1, DivExact, GridShape
  <2> QED BY <1>5, <2>2, <2>3
<1>7. Decode(v).period = NearestLevel(c.period) * GeneStep
  <2> DEFINE n == NearestLevel(c.period)
  <2>0. n \in 0..(Levels - 1) /\ v.period = (2 * n + 1) * HalfLevel
    BY <1>1, <1>4, NearestIs
  <2> HIDE DEF n
  <2>1. Clip(v.period, 0, UnitLength) = v.period
    BY <1>4, ClipUnit
  <2>2. /\ n \in Int /\ Levels \in Nat \ {0} /\ HalfLevel \in Nat \ {0} /\ UnitLength \in Nat \ {0}
        /\ UnitLength = (2 * Levels) * HalfLevel
    BY <2>0, GridShape
  <2>3. v.period * Levels = UnitLength * n + Levels * HalfLevel
    BY <2>0, <2>2
  <2>4. Levels * HalfLevel \in 0..(UnitLength - 1)
    <3> DEFINE z == Levels * HalfLevel
    <3>1. z \in Nat /\ UnitLength = 2 * z
      BY <2>2
    <3> HIDE DEF z
    <3>2. z \in 0..(UnitLength - 1)
      BY <2>2, <3>1
    <3> QED BY <3>2 DEF z
  <2>5. (v.period * Levels) \div UnitLength = n
    BY <2>2, <2>3, <2>4, DivWithRest
  <2>6. Clip(n, 0, Levels - 1) = n
    <3>1. n \in 0..(Levels - 1)
      BY <2>0
    <3>2. Levels - 1 \in Int /\ 0 <= Levels - 1 /\ n \in Int
      BY <2>2
    <3> DEFINE h == Levels - 1
    <3> HIDE DEF h
    <3>3. n \in 0..h /\ h \in Int /\ 0 <= h /\ n \in Int /\ 0 \in Int
      BY <3>1, <3>2 DEF h
    <3>4. Clip(n, 0, h) = n
      BY <3>3, ClipBounds
    <3> QED BY <3>4 DEF h
  <2>7. DecodeLevel(v.period) = n
    BY <2>1, <2>5, <2>6 DEF DecodeLevel
  <2> QED BY <1>5, <2>7 DEF n
<1>8. RawLogits(v.logit) = c.logit
  <2>1. \A g \in Logits : (Clip(v.logit[g], 0, UnitLength) \div LogitStep) - LogitBound = c.logit[g]
    <3> SUFFICES ASSUME NEW g \in Logits
                 PROVE  (Clip(v.logit[g], 0, UnitLength) \div LogitStep) - LogitBound = c.logit[g]
      OBVIOUS
    <3>1. c.logit[g] + LogitBound \in Int /\ c.logit[g] \in Int /\ LogitBound \in Int
      BY <1>1, GridShape
    <3>2. v.logit[g] = LogitStep * (c.logit[g] + LogitBound) /\ v.logit[g] \in 0..UnitLength
      BY <1>4, <3>1, GridShape
    <3>3. v.logit[g] \div LogitStep = c.logit[g] + LogitBound
      BY <3>1, <3>2, DivExact, GridShape
    <3> QED BY <3>1, <3>2, <3>3, ClipUnit
  <2>2. RawLogits(v.logit) = [g \in Logits |-> c.logit[g]]
    BY <2>1 DEF RawLogits
  <2>3. c.logit = [g \in Logits |-> c.logit[g]]
    BY <1>1
  <2> QED BY <2>2, <2>3
<1>9. Mass(c.logit) = 0 => Decode(v).logit = c.logit
  <2>1. c.logit \in [Logits -> Int]
    <3>1. c.logit = [g \in Logits |-> c.logit[g]]
      BY <1>1
    <3>2. \A g \in Logits : c.logit[g] \in Int
      BY <1>1
    <3> QED BY <3>1, <3>2
  <2>2. PICK j \in {1, 3, 9} : k = 3 * j
    OBVIOUS
  <2>3. OnGrid(c.logit, 3 * j)
    BY <2>2
  <2>4. Mass(c.logit) = 0 => Centred(c.logit) = c.logit
    BY <1>1, <2>1, <2>3, CentredShape
  <2> QED BY <2>4, <1>5, <1>8
<1> QED BY <1>6, <1>7, <1>9 DEF v

(* What every operator keeps: the bounds, and the grid the logits still    *)
(* have, on which the centring of the next decoding is exact.              *)
GenomeTyped ==
  /\ genome \in Genomes /\ vector \in Vectors /\ encodedFrom \in Genomes
  /\ coded \in BOOLEAN /\ touched \in BOOLEAN
  /\ decodes \in 0..2 /\ (coded => decodes < 2)

GridKept ==
  /\ OnGrid(genome.logit, Grade(decodes))
  /\ coded => /\ CodedOnGrid(vector.logit, Grade(decodes))
              /\ OnGrid(encodedFrom.logit, Grade(decodes))
              /\ ~touched => vector = Encode(encodedFrom)

GenomeInvariant == GenomeTyped /\ GridKept /\ RoundTripFaithful /\ LogitsCentredUnlessCut

LEMMA InBounds == GenomeTyped => GenesInBounds
  BY DEF GenomeTyped, GenesInBounds, Genomes, Vectors

LEMMA DefaultGenome == Default \in Genomes /\ OnGrid(Default.logit, 9)
<1>1. Span \in Nat \ {0} /\ Levels \in Nat \ {0} /\ LogitBound \in Nat \ {0}
  BY GridShape
<1>2. Span \div 2 \in 0..Span /\ 0 \in 0..Longest
  BY <1>1, LongestIs
<1>3. -27 \in -LogitBound..LogitBound /\ 0 \in -LogitBound..LogitBound
  <2>1. PICK q \in Int : LogitBound = 54 * q
    BY ChromosomeAssumption
  <2> QED BY <1>1, <2>1
<1>4. Multiple(0, 9) /\ Multiple(-27, 9)
  <2>1. 0 = 9 * 0 /\ -27 = 9 * (-3)
    OBVIOUS
  <2> QED BY <2>1 DEF Multiple
<1>5. Default.logit = [g \in Logits |-> IF g = "panic" THEN -27 ELSE 0]
  BY DEF Default
<1>6. Default.logit \in [Logits -> -LogitBound..LogitBound]
  BY <1>3, <1>5
<1>7. Default = [cont |-> Span \div 2, period |-> 0, logit |-> Default.logit]
  BY DEF Default
<1> QED BY <1>2, <1>4, <1>5, <1>6, <1>7 DEF Genomes, OnGrid

LEMMA GenomeInit == ChromosomeInit => GenomeInvariant
<1> SUFFICES ASSUME ChromosomeInit PROVE GenomeInvariant
  OBVIOUS
<1>1. /\ genome = Default /\ vector = Encode(Default) /\ encodedFrom = Default
      /\ coded = FALSE /\ touched = FALSE /\ decodes = 0
  BY DEF ChromosomeInit
<1>2. Encode(Default) \in Vectors
  BY DefaultGenome, EncodeShape
<1>3. GenomeTyped
  <2>1. 0 \in 0..2
    OBVIOUS
  <2> QED BY <1>1, <1>2, <2>1, DefaultGenome, Zenon DEF GenomeTyped
<1>4. GridKept
  BY <1>1, DefaultGenome DEF GridKept, Grade
<1>5. RoundTripFaithful /\ LogitsCentredUnlessCut
  BY <1>1 DEF RoundTripFaithful, LogitsCentredUnlessCut
<1> QED BY <1>3, <1>4, <1>5 DEF GenomeInvariant

(* A dictionary, whatever it says, is a genome on the first grid.          *)
LEMMA DictGenome ==
  ASSUME NEW d \in Dicts
  PROVE  FromDict(d) \in Genomes /\ OnGrid(FromDict(d).logit, 9)
<1>1. /\ Span \in Nat \ {0} /\ Levels \in Nat \ {0} /\ LogitBound \in Nat \ {0}
      /\ -LogitBound \in Int /\ LogitBound \in Int /\ -LogitBound <= LogitBound
  BY GridShape
<1>2. \A p \in Priors : p \in [Logits -> Int] /\ OnGrid(p, 27)
  <2>1. Multiple(54, 27) /\ Multiple(0, 27) /\ Multiple(-54, 27) /\ Multiple(27, 27)
        /\ Multiple(-27, 27) /\ Multiple(81, 27) /\ Multiple(-81, 27)
    <3>1. 54 = 27 * 2 /\ 0 = 27 * 0 /\ -54 = 27 * (-2) /\ 27 = 27 * 1 /\ -27 = 27 * (-1)
          /\ 81 = 27 * 3 /\ -81 = 27 * (-3)
      OBVIOUS
    <3>2. 2 \in Int /\ 0 \in Int /\ -2 \in Int /\ 1 \in Int /\ -1 \in Int /\ 3 \in Int /\ -3 \in Int
      OBVIOUS
    <3> QED BY <3>1, <3>2 DEF Multiple
  <2> QED BY <2>1 DEF Priors, Logits, OnGrid
<1>3. \A x \in Int : Clip(x, 0, Span) \in 0..Span /\ Clip(x, 0, Longest) \in 0..Longest
  <2>1. 0 <= Span /\ 0 <= Longest /\ Span \in Int /\ Longest \in Int /\ 0 \in Int
    BY <1>1, LongestIs
  <2> QED BY <2>1, ClipBounds
<1>4. \A p \in Priors : Centred(p) \in [Logits -> -LogitBound..LogitBound] /\ OnGrid(Centred(p), 9)
  <2> SUFFICES ASSUME NEW p \in Priors
               PROVE  Centred(p) \in [Logits -> -LogitBound..LogitBound] /\ OnGrid(Centred(p), 9)
    OBVIOUS
  <2>1. p \in [Logits -> Int] /\ OnGrid(p, 3 * 9) /\ 9 \in {1, 3, 9}
    BY <1>2
  <2> QED BY <2>1, CentredShape
<1>5. \A p \in Priors : /\ [g \in Logits |-> Clip(p[g], -LogitBound, LogitBound)] \in [Logits -> -LogitBound..LogitBound]
                        /\ OnGrid([g \in Logits |-> Clip(p[g], -LogitBound, LogitBound)], 9)
  <2> SUFFICES ASSUME NEW p \in Priors, NEW g \in Logits
               PROVE  /\ Clip(p[g], -LogitBound, LogitBound) \in -LogitBound..LogitBound
                      /\ Multiple(Clip(p[g], -LogitBound, LogitBound), 9)
    BY DEF OnGrid
  <2>1. p[g] \in Int /\ Multiple(p[g], 27)
    BY <1>2 DEF OnGrid
  <2>2. Multiple(p[g], 9)
    <3>1. PICK m \in Int : p[g] = 27 * m
      BY <2>1 DEF Multiple
    <3>2. p[g] = 9 * (3 * m) /\ 3 * m \in Int
      BY <3>1
    <3> QED BY <3>2 DEF Multiple
  <2> QED BY <1>1, <2>1, <2>2, ClipBounds, ClipMultiple
<1>6. CASE \E x \in {-1, 1, Span + 1}, k \in {-1, GeneStep + 2, Levels * GeneStep}, p \in Priors :
             d = [cont |-> x, period |-> k, prior |-> p]
  <2>1. PICK x \in {-1, 1, Span + 1}, k \in {-1, GeneStep + 2, Levels * GeneStep}, p \in Priors :
             d = [cont |-> x, period |-> k, prior |-> p]
    BY <1>6
  <2>2. x \in Int /\ k \in Int
    <3>1. GeneStep \in Int /\ Levels * GeneStep \in Int
      BY <1>1, LongestIs
    <3> QED BY <1>1, <3>1
  <2>3. FromDict(d) = [cont |-> Clip(x, 0, Span), period |-> Clip(k, 0, Longest), logit |-> Centred(p)]
    BY <2>1 DEF FromDict
  <2> QED BY <1>3, <1>4, <2>2, <2>3 DEF Genomes
<1>7. CASE \E p \in Priors : d = [period |-> 1, logit |-> p]
  <2>1. PICK p \in Priors : d = [period |-> 1, logit |-> p]
    BY <1>7
  <2> DEFINE l == [g \in Logits |-> Clip(p[g], -LogitBound, LogitBound)]
  <2>2. FromDict(d) = [cont |-> Default.cont, period |-> Clip(1, 0, Longest), logit |-> l]
    BY <2>1 DEF FromDict
  <2>3. Default.cont \in 0..Span
    BY DefaultGenome DEF Genomes
  <2>4. l \in [Logits -> -LogitBound..LogitBound] /\ OnGrid(l, 9)
    BY <1>5
  <2> HIDE DEF l
  <2> QED BY <1>3, <2>2, <2>3, <2>4 DEF Genomes
<1> QED BY <1>6, <1>7 DEF Dicts

LEMMA GradeShape ==
  ASSUME NEW d \in 0..2
  PROVE  /\ d < 2 => Grade(d) \in {3, 9} /\ Grade(d) = 3 * Grade(d + 1) /\ Grade(d + 1) \in {1, 3}
         /\ d = 0 => Grade(d) = 9
         /\ d + 1 \in Int
  BY DEF Grade

LEMMA LoadKeeps == GenomeInvariant /\ LoadDict => GenomeInvariant'
<1> SUFFICES ASSUME GenomeInvariant, LoadDict PROVE GenomeInvariant'
  OBVIOUS
<1>1. PICK d \in Dicts : genome' = FromDict(d)
  BY DEF LoadDict
<1>2. /\ ~coded /\ decodes = 0 /\ vector' = vector /\ coded' = coded /\ encodedFrom' = encodedFrom
      /\ touched' = touched /\ decodes' = decodes
  BY DEF LoadDict
<1>3. genome' \in Genomes /\ OnGrid(genome'.logit, 9)
  BY <1>1, DictGenome
<1>4. GenomeTyped'
  BY <1>2, <1>3, Zenon DEF GenomeInvariant, GenomeTyped
<1>5. GridKept'
  BY <1>2, <1>3 DEF GridKept, Grade
<1>6. RoundTripFaithful' /\ LogitsCentredUnlessCut'
  BY <1>2 DEF RoundTripFaithful, LogitsCentredUnlessCut
<1> QED BY <1>4, <1>5, <1>6 DEF GenomeInvariant

LEMMA EncodeKeeps == GenomeInvariant /\ EncodeGenome => GenomeInvariant'
<1> SUFFICES ASSUME GenomeInvariant, EncodeGenome PROVE GenomeInvariant'
  OBVIOUS
<1>1. /\ ~coded /\ decodes < MaxDecodes /\ vector' = Encode(genome) /\ encodedFrom' = genome
      /\ coded' = TRUE /\ touched' = FALSE /\ genome' = genome /\ decodes' = decodes
  BY DEF EncodeGenome
<1>2. genome \in Genomes /\ decodes \in 0..2 /\ OnGrid(genome.logit, Grade(decodes))
  BY DEF GenomeInvariant, GenomeTyped, GridKept
<1>3. decodes < 2
  BY <1>1, <1>2, ChromosomeAssumption
<1>4. Encode(genome) \in Vectors /\ CodedOnGrid(Encode(genome).logit, Grade(decodes))
  <2>1. Grade(decodes) \in {3, 9}
    BY <1>2, <1>3, GradeShape
  <2> QED BY <1>2, <2>1, EncodeShape
<1>5. GenomeTyped'
  BY <1>1, <1>2, <1>3, <1>4, Zenon DEF GenomeTyped
<1>6. GridKept'
  BY <1>1, <1>2, <1>4, Zenon DEF GridKept
<1>7. RoundTripFaithful' /\ LogitsCentredUnlessCut'
  BY <1>1 DEF RoundTripFaithful, LogitsCentredUnlessCut
<1> QED BY <1>5, <1>6, <1>7 DEF GenomeInvariant

(* Whatever an operator does to a vector, its kept coordinates suffice.    *)
LEMMA TouchKeeps ==
  ASSUME GenomeInvariant, coded, touched', genome' = genome, coded' = coded,
         encodedFrom' = encodedFrom, decodes' = decodes, touched' \in BOOLEAN,
         vector' \in Vectors, CodedOnGrid(vector'.logit, Grade(decodes))
  PROVE  GenomeInvariant'
<1>1. GenomeTyped'
  BY Zenon DEF GenomeInvariant, GenomeTyped
<1>2. GridKept'
  BY DEF GenomeInvariant, GridKept
<1>3. RoundTripFaithful' /\ LogitsCentredUnlessCut'
  BY DEF RoundTripFaithful, LogitsCentredUnlessCut
<1> QED BY <1>1, <1>2, <1>3 DEF GenomeInvariant

LEMMA ReflectedBounds ==
  ASSUME NEW x \in Int
  PROVE  Reflected(x) \in 0..UnitLength
<1>1. UnitLength \in Nat
  BY GridShape
<1> QED BY <1>1 DEF Reflected, Clip

(* Half a logit's range is a whole number of its 27ths.                    *)
LEMMA QuarterStep ==
  \E q \in Int : /\ LogitBound = 54 * q
                 /\ UnitLength \div 4 = LogitStep * (27 * q)
                 /\ UnitLength = LogitStep * (108 * q)
<1>1. PICK q \in Int : LogitBound = 54 * q
  BY ChromosomeAssumption
<1>2. LogitStep \in Nat \ {0} /\ UnitLength = (2 * LogitBound) * LogitStep
  BY GridShape
<1>3. UnitLength = LogitStep * (108 * q)
  BY <1>1, <1>2
<1>4. UnitLength = 4 * (LogitStep * (27 * q)) /\ LogitStep * (27 * q) \in Int
  BY <1>2, <1>3
<1>5. UnitLength \div 4 = LogitStep * (27 * q)
  BY <1>4, DivExact
<1> QED BY <1>1, <1>3, <1>5

LEMMA ReflectedOnGrid ==
  ASSUME NEW j \in {3, 9}, NEW u \in Int, NEW k \in Int,
         \E m \in Int : u = LogitStep * m /\ Multiple(m, j)
  PROVE  \E m \in Int : Reflected(u + k * (UnitLength \div 4)) = LogitStep * m /\ Multiple(m, j)
<1>1. PICK m \in Int : u = LogitStep * m /\ Multiple(m, j)
  OBVIOUS
<1>2. PICK q \in Int : /\ UnitLength \div 4 = LogitStep * (27 * q)
                       /\ UnitLength = LogitStep * (108 * q)
  BY QuarterStep
<1>3. LogitStep \in Nat \ {0} /\ UnitLength \in Nat /\ j \in Nat \ {0}
  BY GridShape
<1> DEFINE n == m + k * (27 * q)
           w == 108 * q
<1>4. n \in Int /\ w \in Int /\ 2 * w - n \in Int /\ -n \in Int /\ 0 \in Int
  <2>1. k * (27 * q) \in Int
    OBVIOUS
  <2> QED BY <2>1
<1>5. /\ u + k * (UnitLength \div 4) = LogitStep * n
      /\ UnitLength = LogitStep * w
      /\ -(LogitStep * n) = LogitStep * (-n)
      /\ 2 * (LogitStep * w) - LogitStep * n = LogitStep * (2 * w - n)
      /\ 0 = LogitStep * 0
  BY <1>1, <1>2, <1>3
<1>6. Multiple(n, j) /\ Multiple(w, j) /\ Multiple(0, j)
  <2>1. PICK p \in Int : 27 = j * p /\ 108 = j * (4 * p)
    <3>1. 27 = 3 * 9 /\ 108 = 3 * (4 * 9) /\ 27 = 9 * 3 /\ 108 = 9 * (4 * 3) /\ 9 \in Int /\ 3 \in Int
      OBVIOUS
    <3> QED BY <3>1
  <2>2. k * (27 * q) = j * (p * (k * q)) /\ p * (k * q) \in Int
    <3>1. k * (27 * q) = k * ((j * p) * q)
      BY <2>1
    <3>2. k * ((j * p) * q) = j * (p * (k * q)) /\ p * (k * q) \in Int
      BY <1>3
    <3> QED BY <3>1, <3>2
  <2>3. w = j * ((4 * p) * q) /\ (4 * p) * q \in Int
    <3>1. w = (j * (4 * p)) * q
      BY <2>1
    <3>2. (j * (4 * p)) * q = j * ((4 * p) * q) /\ (4 * p) * q \in Int
      BY <1>3
    <3> QED BY <3>1, <3>2
  <2>4. 0 = j * 0
    BY <1>3
  <2>5. Multiple(k * (27 * q), j) /\ k * (27 * q) \in Int
    <3> DEFINE c == p * (k * q)
               e == k * (27 * q)
    <3>1. e = j * c /\ c \in Int /\ j * c \in Int
      BY <1>3, <2>2
    <3> HIDE DEF c, e
    <3>2. Multiple(e, j) /\ e \in Int
      BY <3>1 DEF Multiple
    <3> QED BY <3>2 DEF e
  <2>6. Multiple(w, j) /\ Multiple(0, j)
    BY <1>4, <2>3, <2>4 DEF Multiple
  <2>7. Multiple(m + k * (27 * q), j)
    BY <1>1, <1>3, <2>5, Multiples
  <2> QED BY <2>6, <2>7
<1> HIDE DEF n, w
<1>7. Multiple(-n, j) /\ Multiple(2 * w - n, j)
  <2>1. Multiple(w + w, j) /\ Multiple(-n, j)
    BY <1>3, <1>4, <1>6, Multiples
  <2>2. w + w \in Int /\ Multiple((w + w) - n, j)
    BY <1>3, <1>4, <1>6, <2>1, Multiples
  <2>3. (w + w) - n = 2 * w - n
    BY <1>4
  <2> QED BY <2>1, <2>2, <2>3
<1> DEFINE x == u + k * (UnitLength \div 4)
<1>8. x = LogitStep * n
  BY <1>5
<1> HIDE DEF x
<1>9. x \in Int
  BY <1>3, <1>4, <1>8
<1>10. Reflected(x) \in {x, -x, 2 * UnitLength - x, 0, UnitLength}
  BY <1>3, <1>9 DEF Reflected, Clip
<1>11. \E y \in {n, -n, 2 * w - n, 0, w} : Reflected(x) = LogitStep * y
  BY <1>5, <1>8, <1>10
<1>12. \A y \in {n, -n, 2 * w - n, 0, w} : y \in Int /\ Multiple(y, j)
  BY <1>4, <1>6, <1>7
<1> QED BY <1>11, <1>12 DEF x

LEMMA MutateKeeps == GenomeInvariant /\ MutateVector => GenomeInvariant'
<1> SUFFICES ASSUME GenomeInvariant, MutateVector PROVE GenomeInvariant'
  OBVIOUS
<1>1. /\ coded /\ touched' = TRUE /\ genome' = genome /\ coded' = coded
      /\ encodedFrom' = encodedFrom /\ decodes' = decodes
  BY DEF MutateVector
<1>2. PICK k \in Kicks :
         \/ vector' = [vector EXCEPT !.cont = Reflected(@ + k * (UnitLength \div Span))]
         \/ vector' = [vector EXCEPT !.period = Reflected(@ + k * (UnitLength \div Span))]
         \/ \E g \in Logits :
              vector' = [vector EXCEPT !.logit[g] = Reflected(@ + k * (UnitLength \div 4))]
  BY DEF MutateVector
<1>3. /\ vector \in Vectors /\ CodedOnGrid(vector.logit, Grade(decodes)) /\ decodes \in 0..2 /\ decodes < 2
  BY <1>1 DEF GenomeInvariant, GenomeTyped, GridKept
<1>4. vector.cont \in Int /\ vector.period \in Int /\ vector.logit \in [Logits -> 0..UnitLength]
  BY <1>3 DEF Vectors
<1>5. k \in Int /\ k * (UnitLength \div Span) \in Int
  <2>1. k \in Int /\ UnitLength \div Span \in Int
    BY ChromosomeAssumption, GridShape DEF GridStep
  <2> QED BY <2>1
<1>6. CASE vector' = [vector EXCEPT !.cont = Reflected(@ + k * (UnitLength \div Span))]
  <2>1. Reflected(vector.cont + k * (UnitLength \div Span)) \in 0..UnitLength
    <3>1. vector.cont + k * (UnitLength \div Span) \in Int
      BY <1>4, <1>5
    <3> QED BY <3>1, ReflectedBounds
  <2>2. vector' \in Vectors /\ vector'.logit = vector.logit
    BY <1>3, <1>6, <2>1 DEF Vectors
  <2> QED BY <1>1, <1>3, <2>2, TouchKeeps
<1>7. CASE vector' = [vector EXCEPT !.period = Reflected(@ + k * (UnitLength \div Span))]
  <2>1. Reflected(vector.period + k * (UnitLength \div Span)) \in 0..UnitLength
    <3>1. vector.period + k * (UnitLength \div Span) \in Int
      BY <1>4, <1>5
    <3> QED BY <3>1, ReflectedBounds
  <2>2. vector' \in Vectors /\ vector'.logit = vector.logit
    BY <1>3, <1>7, <2>1 DEF Vectors
  <2> QED BY <1>1, <1>3, <2>2, TouchKeeps
<1>8. CASE \E g \in Logits : vector' = [vector EXCEPT !.logit[g] = Reflected(@ + k * (UnitLength \div 4))]
  <2>1. PICK g \in Logits : vector' = [vector EXCEPT !.logit[g] = Reflected(@ + k * (UnitLength \div 4))]
    BY <1>8
  <2> DEFINE z == Reflected(vector.logit[g] + k * (UnitLength \div 4))
  <2>2. vector.logit[g] \in Int /\ k * (UnitLength \div 4) \in Int
    <3>1. UnitLength \div 4 \in Int
      BY GridShape
    <3> QED BY <1>4, <1>5, <3>1
  <2>3. z \in 0..UnitLength
    <3>1. vector.logit[g] + k * (UnitLength \div 4) \in Int
      BY <2>2
    <3> QED BY <3>1, ReflectedBounds
  <2>4. \E m \in Int : z = LogitStep * m /\ Multiple(m, Grade(decodes))
    <3>1. Grade(decodes) \in {3, 9}
      BY <1>3, GradeShape
    <3>2. \E m \in Int : vector.logit[g] = LogitStep * m /\ Multiple(m, Grade(decodes))
      BY <1>3 DEF CodedOnGrid
    <3> QED BY <1>5, <2>2, <3>1, <3>2, ReflectedOnGrid
  <2>5. vector' = [vector EXCEPT !.logit[g] = z]
    BY <2>1
  <2> HIDE DEF z
  <2>6. vector' \in Vectors /\ vector'.logit = [vector.logit EXCEPT ![g] = z]
    BY <1>3, <2>3, <2>5 DEF Vectors
  <2>7. CodedOnGrid(vector'.logit, Grade(decodes))
    <3>1. \A h \in Logits : vector'.logit[h] = IF h = g THEN z ELSE vector.logit[h]
      BY <1>4, <2>6
    <3> QED BY <1>3, <2>4, <3>1 DEF CodedOnGrid
  <2> QED BY <1>1, <2>6, <2>7, TouchKeeps
<1> QED BY <1>2, <1>6, <1>7, <1>8

LEMMA BredBounds ==
  ASSUME NEW a \in Int, NEW b \in Int, NEW beta \in Int, NEW first \in BOOLEAN
  PROVE  Bred(a, b, beta, first) \in 0..UnitLength
<1> DEFINE h == ((a - b) * beta) \div 2
           two == (a + b) + (IF first THEN 1 ELSE -1) * h
<1>1. h \in Int
  <2>1. (a - b) * beta \in Int
    OBVIOUS
  <2> QED BY <2>1
<1> HIDE DEF h
<1>2. two \in Int
  BY <1>1
<1>3. Bred(a, b, beta, first) = Clip(two \div 2, 0, UnitLength)
  BY DEF Bred, h
<1> HIDE DEF two
<1>4. two \div 2 \in Int /\ 0 \in Int /\ UnitLength \in Int /\ 0 <= UnitLength
  BY <1>2, GridShape
<1> DEFINE z == two \div 2
<1> HIDE DEF z
<1>5. z \in Int /\ Bred(a, b, beta, first) = Clip(z, 0, UnitLength)
  BY <1>3, <1>4 DEF z
<1> QED BY <1>4, <1>5, ClipBounds

LEMMA CrossKeeps == GenomeInvariant /\ CrossVectors => GenomeInvariant'
<1> SUFFICES ASSUME GenomeInvariant, CrossVectors PROVE GenomeInvariant'
  OBVIOUS
<1>1. /\ coded /\ touched' = TRUE /\ genome' = genome /\ coded' = coded
      /\ encodedFrom' = encodedFrom /\ decodes' = decodes
  BY DEF CrossVectors
<1> DEFINE o == Encode(Default)
<1>2. PICK beta \in 1..3, first \in BOOLEAN :
         vector' = [vector EXCEPT !.cont = Bred(@, o.cont, beta, first),
                                  !.period = Bred(@, o.period, beta, ~first)]
  BY DEF CrossVectors
<1>3. /\ vector \in Vectors /\ CodedOnGrid(vector.logit, Grade(decodes))
  BY <1>1 DEF GenomeInvariant, GenomeTyped, GridKept
<1>4. o.cont \in Int /\ o.period \in Int
  <2>1. o \in Vectors
    BY DefaultGenome, EncodeShape
  <2> QED BY <2>1 DEF Vectors
<1> HIDE DEF o
<1>5. vector.cont \in Int /\ vector.period \in Int /\ beta \in Int
  BY <1>3 DEF Vectors
<1> DEFINE x == Bred(vector.cont, o.cont, beta, first)
           y == Bred(vector.period, o.period, beta, ~first)
<1>6. x \in 0..UnitLength /\ y \in 0..UnitLength
  BY <1>4, <1>5, BredBounds
<1>7. vector' = [vector EXCEPT !.cont = x, !.period = y]
  BY <1>2
<1> HIDE DEF x, y
<1>8. vector' \in Vectors /\ vector'.logit = vector.logit
  BY <1>3, <1>6, <1>7 DEF Vectors
<1> QED BY <1>1, <1>3, <1>8, TouchKeeps

LEMMA DecodeKeeps == GenomeInvariant /\ DecodeVector => GenomeInvariant'
<1> SUFFICES ASSUME GenomeInvariant, DecodeVector PROVE GenomeInvariant'
  OBVIOUS
<1>1. /\ coded /\ genome' = Decode(vector) /\ coded' = FALSE /\ decodes' = decodes + 1
      /\ vector' = Encode(Default) /\ encodedFrom' = encodedFrom /\ touched' = touched
  BY DEF DecodeVector
<1>2. /\ vector \in Vectors /\ decodes \in 0..2 /\ decodes < 2 /\ encodedFrom \in Genomes
      /\ CodedOnGrid(vector.logit, Grade(decodes)) /\ OnGrid(encodedFrom.logit, Grade(decodes))
      /\ ~touched => vector = Encode(encodedFrom)
      /\ touched \in BOOLEAN
  BY <1>1 DEF GenomeInvariant, GenomeTyped, GridKept
<1> DEFINE j == Grade(decodes + 1)
<1>3. Grade(decodes) = 3 * j /\ j \in {1, 3} /\ Grade(decodes) \in {3, 9} /\ decodes + 1 \in 0..2 /\ decodes' = decodes + 1
  BY <1>1, <1>2, GradeShape
<1>4. /\ Decode(vector) \in Genomes /\ OnGrid(Decode(vector).logit, j)
      /\ \/ Mass(Decode(vector).logit) = 0
         \/ \E g \in Logits : Decode(vector).logit[g] \in {-LogitBound, LogitBound}
      /\ Decode(vector).period % GeneStep = 0
  <2>1. CodedOnGrid(vector.logit, 3 * j)
    BY <1>2, <1>3
  <2> HIDE DEF j
  <2> QED BY <1>2, <1>3, <2>1, DecodeShape
<1>5. Encode(Default) \in Vectors
  BY DefaultGenome, EncodeShape
<1>6. GenomeTyped'
  BY <1>1, <1>2, <1>3, <1>4, <1>5, Zenon DEF GenomeTyped
<1>7. GridKept'
  BY <1>1, <1>4, Zenon DEF GridKept
<1>8. LogitsCentredUnlessCut'
  BY <1>1, <1>4, Zenon DEF LogitsCentredUnlessCut
<1>9. ~touched => /\ genome'.cont = encodedFrom.cont
                  /\ 2 * (genome'.period - encodedFrom.period) \in -GeneStep..GeneStep
                  /\ encodedFrom.period % GeneStep = 0 => genome'.period = encodedFrom.period
                  /\ Mass(encodedFrom.logit) = 0 => genome'.logit = encodedFrom.logit
  <2> SUFFICES ASSUME ~touched PROVE <1>9!2
    OBVIOUS
  <2>1. /\ genome'.cont = encodedFrom.cont
        /\ genome'.period = NearestLevel(encodedFrom.period) * GeneStep
        /\ Mass(encodedFrom.logit) = 0 => genome'.logit = encodedFrom.logit
    BY <1>1, <1>2, <1>3, RoundTrip
  <2>2. encodedFrom.period \in 0..Longest
    BY <1>2 DEF Genomes
  <2> QED BY <2>1, <2>2, NearestIs
<1>10. RoundTripFaithful'
  BY <1>1, <1>4, <1>9, Zenon DEF RoundTripFaithful
<1> QED BY <1>6, <1>7, <1>8, <1>10 DEF GenomeInvariant

LEMMA GenomeStep == GenomeInvariant /\ [ChromosomeNext]_chromosomeVars => GenomeInvariant'
<1>1. GenomeInvariant /\ UNCHANGED chromosomeVars => GenomeInvariant'
  BY DEF GenomeInvariant, GenomeTyped, GridKept, RoundTripFaithful, LogitsCentredUnlessCut, chromosomeVars
<1> QED BY <1>1, LoadKeeps, EncodeKeeps, MutateKeeps, CrossKeeps, DecodeKeeps DEF ChromosomeNext

(* GenomesFaithful holds for any grids, displacements and dictionaries: a   *)
(* chromosome stays in bounds through coding, crossing and mutation, comes *)
(* back from its vector as it was (a discrete gene on the nearest level, to*)
(* stay there), and its logits sum to zero unless cut.                     *)
THEOREM GenomesFaithfulHolds == ChromosomeSpec => []GenomesFaithful
<1>1. GenomeInvariant => GenomesFaithful
  BY InBounds DEF GenomeInvariant, GenomesFaithful
<1> QED BY <1>1, GenomeInit, GenomeStep, PTL DEF ChromosomeSpec
==============================================================================
