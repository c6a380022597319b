----------------------------- MODULE SumTheorems -----------------------------
(***************************************************************************)
(* Finite sums, the form in which positions, exposures and totals are      *)
(* stated: MapThenSumSet adds the elements in the order CHOOSE takes them. *)
(* Here it is shown that the order does not matter, that one term can be   *)
(* taken out or changed, that sums compare term by term, and that they are *)
(* linear; also, that a finite set in a strict total order has one element *)
(* on every place.                                                         *)
(*                                                                         *)
(* The induction is over a set of numbers rather than a predicate: a       *)
(* number not in the set would have a least one, because < is well founded *)
(* on Nat.                                                                 *)
(***************************************************************************)
EXTENDS Integers, FiniteSetsExt, FiniteSetTheorems, SequenceTheorems, WellFoundedInduction, TLAPS

(* The sum of a function over a set.                                       *)
SumOver(f, S) == MapThenSumSet(LAMBDA x : f[x], S)

(* The element the sum takes next.                                         *)
Chosen(s) == CHOOSE x \in s : TRUE

(* g is the table of partial sums that MapThenFoldSet defines.             *)
AddsUp(g, f, S) ==
  g = [s \in SUBSET S |-> IF s = {} THEN 0 ELSE f[Chosen(s)] + g[s \ {Chosen(s)}]]

(* Every nonempty set of naturals has a least element.                     *)
LEMMA LeastOf == ASSUME NEW T, T \subseteq Nat, T # {} PROVE \E x \in T : \A y \in T : x <= y
<1>1. IsWellFoundedOn(OpToRel(<,Nat), Nat)
  BY NatLessThanWellFounded
<1>2. \E x \in T : \A y \in T : ~ (<<y, x>> \in OpToRel(<,Nat))
  BY <1>1, WFMin
<1>3. ASSUME NEW x \in T, NEW y \in T, ~ (<<y, x>> \in OpToRel(<,Nat)) PROVE x <= y
  BY <1>3 DEF OpToRel
<1> QED BY <1>2, <1>3

(* A set that has 0 and with n also n + 1 has every natural number.        *)
LEMMA SetInduction ==
  ASSUME NEW Good, 0 \in Good, \A n \in Nat : n \in Good => n + 1 \in Good
  PROVE  Nat \subseteq Good
<1> SUFFICES ASSUME NEW m \in Nat, m \notin Good PROVE FALSE
  OBVIOUS
<1> DEFINE Bad == {n \in Nat : n \notin Good}
<1>1. PICK x \in Bad : \A y \in Bad : x <= y
  <2> HIDE DEF Bad
  <2>1. Bad \subseteq Nat /\ Bad # {}
    BY DEF Bad
  <2> QED BY <2>1, LeastOf
<1>2. x # 0 /\ x - 1 \in Nat /\ x - 1 \in Good
  BY <1>1
<1> QED BY <1>1, <1>2

(* CHOOSE takes an element of the set.                                     *)
LEMMA ChosenIn == ASSUME NEW s, s # {} PROVE Chosen(s) \in s
  BY DEF Chosen

(* Taking one element away leaves one fewer.                               *)
LEMMA SmallerBy ==
  ASSUME NEW s, IsFiniteSet(s), NEW x \in s
  PROVE  /\ IsFiniteSet(s \ {x}) /\ Cardinality(s) \in Nat \ {0}
         /\ Cardinality(s \ {x}) = Cardinality(s) - 1
  BY FS_RemoveElement, FS_CardinalityType, FS_EmptySet

(* The table that a fold over the subsets of S defines: base for the empty *)
(* set, and otherwise a step from the entry without the picked element.    *)
Tabulates(g, base, step, pick, D) ==
  g = [s \in D |-> IF s = {} THEN base ELSE step[<<pick[s], g[s \ {pick[s]}]>>]]

UpTo(S, n) == {s \in SUBSET S : Cardinality(s) <= n}

LEMMA TableGrows ==
  ASSUME NEW S, IsFiniteSet(S), NEW base, NEW step, NEW n \in Nat,
         NEW pick, \A s \in SUBSET S : s # {} => pick[s] \in s,
         NEW g, Tabulates(g, base, step, pick, UpTo(S, n))
  PROVE  \E h : Tabulates(h, base, step, pick, UpTo(S, n + 1))
<1> DEFINE h == [s \in UpTo(S, n + 1) |->
                   IF s = {} THEN base ELSE step[<<pick[s], g[s \ {pick[s]}]>>]]
<1>0. \A s \in SUBSET S : IsFiniteSet(s) /\ Cardinality(s) \in Nat
  BY FS_Subset, FS_CardinalityType
<1>1. ASSUME NEW s \in UpTo(S, n + 1), s # {} PROVE s \ {pick[s]} \in UpTo(S, n)
  BY <1>0, <1>1, SmallerBy DEF UpTo
<1>2. ASSUME NEW s \in UpTo(S, n) PROVE s \in UpTo(S, n + 1)
  BY <1>0 DEF UpTo
<1>3. ASSUME NEW s \in UpTo(S, n) PROVE h[s] = g[s]
  <2>1. h[s] = IF s = {} THEN base ELSE step[<<pick[s], g[s \ {pick[s]}]>>]
    BY <1>2
  <2>2. g[s] = IF s = {} THEN base ELSE step[<<pick[s], g[s \ {pick[s]}]>>]
    BY DEF Tabulates
  <2> HIDE DEF h
  <2> QED BY <2>1, <2>2
<1>4. ASSUME NEW s \in UpTo(S, n + 1)
      PROVE  h[s] = IF s = {} THEN base ELSE step[<<pick[s], h[s \ {pick[s]}]>>]
  <2>1. h[s] = IF s = {} THEN base ELSE step[<<pick[s], g[s \ {pick[s]}]>>]
    OBVIOUS
  <2> HIDE DEF h
  <2>2. s # {} => h[s \ {pick[s]}] = g[s \ {pick[s]}]
    BY <1>1, <1>3
  <2> QED BY <2>1, <2>2
<1>5. h = [s \in UpTo(S, n + 1) |-> h[s]]
  OBVIOUS
<1> HIDE DEF h
<1>6. Tabulates(h, base, step, pick, UpTo(S, n + 1))
  BY <1>4, <1>5 DEF Tabulates
<1> QED BY <1>6

LEMMA TableExists ==
  ASSUME NEW S, IsFiniteSet(S), NEW base, NEW step,
         NEW pick, \A s \in SUBSET S : s # {} => pick[s] \in s
  PROVE  \E g : Tabulates(g, base, step, pick, SUBSET S)
<1> DEFINE Good == {n \in Nat : \E g : Tabulates(g, base, step, pick, UpTo(S, n))}
<1>0. \A s \in SUBSET S : IsFiniteSet(s) /\ Cardinality(s) \in Nat
  BY FS_Subset, FS_CardinalityType
<1>1. 0 \in Good
  <2>1. \A s \in UpTo(S, 0) : s = {}
    BY <1>0, FS_EmptySet DEF UpTo
  <2>2. Tabulates([s \in UpTo(S, 0) |-> base], base, step, pick, UpTo(S, 0))
    BY <2>1 DEF Tabulates
  <2> QED BY <2>2
<1>2. ASSUME NEW n \in Nat, n \in Good PROVE n + 1 \in Good
  <2>1. PICK g : Tabulates(g, base, step, pick, UpTo(S, n))
    BY <1>2
  <2>2. \E h : Tabulates(h, base, step, pick, UpTo(S, n + 1))
    BY <2>1, TableGrows
  <2> QED BY <2>2
<1>3. Nat \subseteq Good
  <2> HIDE DEF Good
  <2> QED BY <1>1, <1>2, SetInduction
<1>4. UpTo(S, Cardinality(S)) = SUBSET S
  BY FS_Subset, FS_CardinalityType DEF UpTo
<1>5. Cardinality(S) \in Good
  BY <1>3, FS_CardinalityType
<1>6. PICK h : Tabulates(h, base, step, pick, UpTo(S, Cardinality(S)))
  BY <1>5
<1> QED BY <1>4, <1>6

(* The steps lead from R to R.                                             *)
Leads(step, S, R) == \A t \in S \X R : step[t] \in R

(* ... and its entries stay where the steps lead.                          *)
LEMMA TableTyped ==
  ASSUME NEW S, IsFiniteSet(S), NEW R, NEW base \in R, NEW step, Leads(step, S, R),
         NEW pick, \A s \in SUBSET S : s # {} => pick[s] \in s,
         NEW g, Tabulates(g, base, step, pick, SUBSET S)
  PROVE  \A s \in SUBSET S : g[s] \in R
<1> DEFINE Good == {n \in Nat : \A s \in SUBSET S : Cardinality(s) = n => g[s] \in R}
<1>0. \A s \in SUBSET S : IsFiniteSet(s) /\ Cardinality(s) \in Nat
  BY FS_Subset, FS_CardinalityType
<1>1. 0 \in Good
  <2>1. \A s \in SUBSET S : Cardinality(s) = 0 => s = {}
    BY <1>0, FS_EmptySet
  <2>2. g[{}] = base
    BY DEF Tabulates
  <2> QED BY <2>1, <2>2
<1>2. ASSUME NEW n \in Nat, n \in Good PROVE n + 1 \in Good
  <2> SUFFICES ASSUME NEW s \in SUBSET S, Cardinality(s) = n + 1 PROVE g[s] \in R
    OBVIOUS
  <2>1. s # {}
    <3>1. Cardinality({}) = 0
      BY FS_EmptySet
    <3> QED BY <3>1
  <2>2. pick[s] \in s /\ s \ {pick[s]} \in SUBSET S /\ Cardinality(s \ {pick[s]}) = n
    BY <2>1, <1>0, SmallerBy
  <2>3. g[s \ {pick[s]}] \in R
    BY <2>2, <1>2
  <2>4. g[s] = step[<<pick[s], g[s \ {pick[s]}]>>]
    BY <2>1, <2>2 DEF Tabulates
  <2>5. pick[s] \in S
    BY <2>2
  <2>6. step[<<pick[s], g[s \ {pick[s]}]>>] \in R
    BY <2>3, <2>5 DEF Leads
  <2> QED BY <2>4, <2>6
<1>3. Nat \subseteq Good
  <2> HIDE DEF Good
  <2> QED BY <1>1, <1>2, SetInduction
<1> QED BY <1>0, <1>3

(* There is such a table of sums.                                         *)
LEMMA SumExists ==
  ASSUME NEW S, IsFiniteSet(S), NEW f, \A x \in S : f[x] \in Int
  PROVE  \E g \in [SUBSET S -> Int] : AddsUp(g, f, S)
<1> DEFINE step == [t \in S \X Int |-> f[t[1]] + t[2]]
           pick == [s \in SUBSET S |-> Chosen(s)]
<1>1. \A x \in S, v \in Int : step[<<x, v>>] = f[x] + v /\ step[<<x, v>>] \in Int
  OBVIOUS
<1>2. \A s \in SUBSET S : pick[s] = Chosen(s) /\ (s # {} => pick[s] \in s)
  BY ChosenIn
<1> HIDE DEF step, pick
<1>3. PICK g : Tabulates(g, 0, step, pick, SUBSET S)
  BY <1>2, TableExists
<1>4. \A s \in SUBSET S : g[s] \in Int
  <2>1. Leads(step, S, Int)
    BY <1>1 DEF Leads
  <2>2. 0 \in Int /\ \A s \in SUBSET S : s # {} => pick[s] \in s
    BY <1>2
  <2> HIDE <1>1, <1>2
  <2> QED BY <2>1, <2>2, <1>3, TableTyped
<1>5. ASSUME NEW s \in SUBSET S
      PROVE  g[s] = IF s = {} THEN 0 ELSE f[Chosen(s)] + g[s \ {Chosen(s)}]
  <2>1. g[s] = IF s = {} THEN 0 ELSE step[<<Chosen(s), g[s \ {Chosen(s)}]>>]
    BY <1>2, <1>3 DEF Tabulates
  <2>2. s # {} => Chosen(s) \in S /\ g[s \ {Chosen(s)}] \in Int
    BY <1>4, ChosenIn
  <2> QED BY <2>1, <2>2, <1>1
<1>6. g = [s \in SUBSET S |-> g[s]]
  BY <1>3 DEF Tabulates
<1>7. g = [s \in SUBSET S |-> IF s = {} THEN 0 ELSE f[Chosen(s)] + g[s \ {Chosen(s)}]]
  BY <1>5, <1>6
<1>8. g \in [SUBSET S -> Int]
  BY <1>4, <1>6
<1> QED BY <1>7, <1>8 DEF AddsUp

(* Two tables agree wherever their terms do.                               *)
LEMMA SumUnique ==
  ASSUME NEW A, NEW B, NEW f, NEW k, NEW g, NEW h, AddsUp(g, f, A), AddsUp(h, k, B),
         NEW S, S \subseteq A, S \subseteq B, IsFiniteSet(S), \A x \in S : f[x] = k[x]
  PROVE  g[S] = h[S]
<1> DEFINE Good == {n \in Nat : \A s \in SUBSET S : Cardinality(s) = n => g[s] = h[s]}
<1>0. \A s \in SUBSET S : IsFiniteSet(s) /\ Cardinality(s) \in Nat
  BY FS_Subset, FS_CardinalityType
<1>1. 0 \in Good
  <2>1. \A s \in SUBSET S : Cardinality(s) = 0 => s = {}
    BY <1>0, FS_EmptySet
  <2>2. g[{}] = 0 /\ h[{}] = 0
    BY DEF AddsUp
  <2> QED BY <2>1, <2>2
<1>2. ASSUME NEW n \in Nat, n \in Good PROVE n + 1 \in Good
  <2> SUFFICES ASSUME NEW s \in SUBSET S, Cardinality(s) = n + 1 PROVE g[s] = h[s]
    OBVIOUS
  <2>1. s # {}
    BY FS_EmptySet
  <2> DEFINE c == Chosen(s)
  <2>2. c \in s /\ s \ {c} \in SUBSET S /\ Cardinality(s \ {c}) = n
    BY <2>1, <1>0, ChosenIn, SmallerBy
  <2>3. g[s \ {c}] = h[s \ {c}]
    BY <2>2, <1>2
  <2>4. g[s] = f[c] + g[s \ {c}] /\ h[s] = k[c] + h[s \ {c}]
    BY <2>1, <2>2 DEF AddsUp
  <2> QED BY <2>2, <2>3, <2>4
<1>3. Nat \subseteq Good
  <2> HIDE DEF Good
  <2> QED BY <1>1, <1>2, SetInduction
<1> QED BY <1>0, <1>3

(* The library's definition is the table's entry for the whole set.        *)
LEMMA SumByDef == ASSUME NEW f, NEW S PROVE SumOver(f, S) = (CHOOSE g : AddsUp(g, f, S))[S]
  BY DEF SumOver, MapThenSumSet, MapThenFoldSet, AddsUp, Chosen

(* A finite sum is read off any table.                                     *)
LEMMA SumIs ==
  ASSUME NEW S, IsFiniteSet(S), NEW f, \A x \in S : f[x] \in Int
  PROVE  \E g \in [SUBSET S -> Int] : AddsUp(g, f, S) /\ SumOver(f, S) = g[S]
<1>1. PICK g \in [SUBSET S -> Int] : AddsUp(g, f, S)
  BY SumExists
<1>2. AddsUp(CHOOSE h : AddsUp(h, f, S), f, S)
  BY <1>1
<1>3. (CHOOSE h : AddsUp(h, f, S))[S] = g[S]
  BY <1>1, <1>2, SumUnique
<1> QED BY <1>1, <1>3, SumByDef

(* A finite sum of integers, as the exposure of a symbol over its orders,  *)
(* is an integer.                                                          *)
THEOREM SumInt ==
  ASSUME NEW S, IsFiniteSet(S), NEW f, \A x \in S : f[x] \in Int
  PROVE  SumOver(f, S) \in Int
<1>1. PICK g \in [SUBSET S -> Int] : AddsUp(g, f, S) /\ SumOver(f, S) = g[S]
  BY SumIs
<1> QED BY <1>1

(* Nothing adds up to 0.                                                   *)
THEOREM SumEmpty == ASSUME NEW f PROVE SumOver(f, {}) = 0
<1>1. PICK g \in [SUBSET {} -> Int] : AddsUp(g, f, {}) /\ SumOver(f, {}) = g[{}]
  BY SumIs, FS_EmptySet
<1> QED BY <1>1 DEF AddsUp

(* Only the terms matter.                                                  *)
THEOREM SumAgrees ==
  ASSUME NEW S, IsFiniteSet(S), NEW f, NEW k, \A x \in S : f[x] \in Int /\ k[x] = f[x]
  PROVE  SumOver(f, S) = SumOver(k, S)
<1>1. PICK g \in [SUBSET S -> Int] : AddsUp(g, f, S) /\ SumOver(f, S) = g[S]
  BY SumIs
<1>2. PICK h \in [SUBSET S -> Int] : AddsUp(h, k, S) /\ SumOver(k, S) = h[S]
  BY SumIs
<1> QED BY <1>1, <1>2, SumUnique

(* The sum takes out the chosen element ...                                *)
LEMMA SumChosen ==
  ASSUME NEW S, IsFiniteSet(S), S # {}, NEW f, \A x \in S : f[x] \in Int
  PROVE  SumOver(f, S) = f[Chosen(S)] + SumOver(f, S \ {Chosen(S)})
<1> DEFINE R == S \ {Chosen(S)}
<1>0. Chosen(S) \in S /\ IsFiniteSet(R) /\ R \subseteq S
  BY ChosenIn, SmallerBy
<1>1. PICK g \in [SUBSET S -> Int] : AddsUp(g, f, S) /\ SumOver(f, S) = g[S]
  BY SumIs
<1>2. PICK h \in [SUBSET R -> Int] : AddsUp(h, f, R) /\ SumOver(f, R) = h[R]
  BY <1>0, SumIs
<1>3. g[R] = h[R]
  BY <1>0, <1>1, <1>2, SumUnique
<1>4. g[S] = f[Chosen(S)] + g[R]
  BY <1>1 DEF AddsUp
<1> QED BY <1>1, <1>2, <1>3, <1>4

(* ... and could as well have taken out any other: an order's share of a   *)
(* total can be singled out.                                               *)
THEOREM SumRemove ==
  ASSUME NEW S, IsFiniteSet(S), NEW f, \A x \in S : f[x] \in Int, NEW x \in S
  PROVE  SumOver(f, S) = f[x] + SumOver(f, S \ {x})
<1> DEFINE Splits(s) == \A y \in s : SumOver(f, s) = f[y] + SumOver(f, s \ {y})
           Good == {n \in Nat : \A s \in SUBSET S : Cardinality(s) = n => Splits(s)}
<1>0. \A s \in SUBSET S : IsFiniteSet(s) /\ Cardinality(s) \in Nat
  BY FS_Subset, FS_CardinalityType
<1>1. 0 \in Good
  BY <1>0, FS_EmptySet
<1>2. ASSUME NEW n \in Nat, n \in Good PROVE n + 1 \in Good
  <2> SUFFICES ASSUME NEW s \in SUBSET S, Cardinality(s) = n + 1, NEW y \in s
               PROVE  SumOver(f, s) = f[y] + SumOver(f, s \ {y})
    OBVIOUS
  <2> DEFINE c == Chosen(s)
  <2>1. c \in s /\ SumOver(f, s) = f[c] + SumOver(f, s \ {c})
    BY <1>0, ChosenIn, SumChosen
  <2>2. CASE y = c
    BY <2>1, <2>2
  <2>3. CASE y # c
    <3> DEFINE r == s \ {c, y}
    <3>1. /\ s \ {c} \in SUBSET S /\ Cardinality(s \ {c}) = n /\ y \in s \ {c}
          /\ s \ {y} \in SUBSET S /\ Cardinality(s \ {y}) = n /\ c \in s \ {y}
          /\ (s \ {c}) \ {y} = r /\ (s \ {y}) \ {c} = r /\ r \in SUBSET S
      BY <2>1, <2>3, <1>0, SmallerBy
    <3>2. SumOver(f, s \ {c}) = f[y] + SumOver(f, r)
      BY <3>1, <1>2
    <3>3. SumOver(f, s \ {y}) = f[c] + SumOver(f, r)
      BY <3>1, <1>2
    <3>4. SumOver(f, r) \in Int /\ f[c] \in Int /\ f[y] \in Int
      BY <3>1, <1>0, <2>1, SumInt
    <3> HIDE DEF c, r
    <3> QED BY <2>1, <3>2, <3>3, <3>4
  <2> QED BY <2>2, <2>3
<1>3. Nat \subseteq Good
  <2> HIDE DEF Good
  <2> QED BY <1>1, <1>2, SetInduction
<1> QED BY <1>0, <1>3

(* Changing one term changes the sum by as much: what a fill of one order  *)
(* does to the total of all.                                               *)
THEOREM SumChange ==
  ASSUME NEW S, IsFiniteSet(S), NEW f, NEW k, NEW x \in S,
         \A y \in S : f[y] \in Int, k[x] \in Int, \A y \in S \ {x} : k[y] = f[y]
  PROVE  SumOver(k, S) = SumOver(f, S) - f[x] + k[x]
<1> DEFINE R == S \ {x}
<1>1. IsFiniteSet(R)
  BY FS_Subset
<1>2. SumOver(k, R) = SumOver(f, R) /\ SumOver(f, R) \in Int
  BY <1>1, SumAgrees, SumInt
<1>3. SumOver(f, S) = f[x] + SumOver(f, R)
  BY SumRemove
<1>4. \A y \in S : k[y] \in Int
  OBVIOUS
<1>5. SumOver(k, S) = k[x] + SumOver(k, R)
  BY <1>4, SumRemove
<1> HIDE DEF R
<1> QED BY <1>2, <1>3, <1>5

(* Sums compare as their terms do.                                         *)
THEOREM SumAtMost ==
  ASSUME NEW S, IsFiniteSet(S), NEW f, NEW k,
         \A x \in S : f[x] \in Int /\ k[x] \in Int /\ f[x] <= k[x]
  PROVE  SumOver(f, S) <= SumOver(k, S)
<1> DEFINE Good == {n \in Nat : \A s \in SUBSET S :
                      Cardinality(s) = n => SumOver(f, s) <= SumOver(k, s)}
<1>0. \A s \in SUBSET S : IsFiniteSet(s) /\ Cardinality(s) \in Nat
  BY FS_Subset, FS_CardinalityType
<1>1. 0 \in Good
  BY <1>0, FS_EmptySet, SumEmpty
<1>2. ASSUME NEW n \in Nat, n \in Good PROVE n + 1 \in Good
  <2> SUFFICES ASSUME NEW s \in SUBSET S, Cardinality(s) = n + 1
               PROVE  SumOver(f, s) <= SumOver(k, s)
    OBVIOUS
  <2> DEFINE r == s \ {Chosen(s)}
  <2>1. Chosen(s) \in s
    BY ChosenIn, FS_EmptySet
  <2>2. r \in SUBSET S /\ Cardinality(r) = n
    BY <2>1, <1>0, SmallerBy
  <2>3. SumOver(f, r) <= SumOver(k, r)
    BY <2>2, <1>2
  <2>4. SumOver(f, s) = f[Chosen(s)] + SumOver(f, r) /\ SumOver(k, s) = k[Chosen(s)] + SumOver(k, r)
    BY <2>1, <1>0, SumRemove
  <2>5. SumOver(f, r) \in Int /\ SumOver(k, r) \in Int
    BY <2>2, <1>0, SumInt
  <2> HIDE DEF r
  <2> QED BY <2>1, <2>3, <2>4, <2>5
<1>3. Nat \subseteq Good
  <2> HIDE DEF Good
  <2> QED BY <1>1, <1>2, SetInduction
<1> QED BY <1>0, <1>3

(* A sum of zeros, as of orders before any is sent, is 0.                  *)
THEOREM SumZero ==
  ASSUME NEW S, IsFiniteSet(S), NEW f, \A x \in S : f[x] = 0
  PROVE  SumOver(f, S) = 0
<1> DEFINE Good == {n \in Nat : \A s \in SUBSET S : Cardinality(s) = n => SumOver(f, s) = 0}
<1>0. \A s \in SUBSET S : IsFiniteSet(s) /\ Cardinality(s) \in Nat
  BY FS_Subset, FS_CardinalityType
<1>1. 0 \in Good
  BY <1>0, FS_EmptySet, SumEmpty
<1>2. ASSUME NEW n \in Nat, n \in Good PROVE n + 1 \in Good
  <2> SUFFICES ASSUME NEW s \in SUBSET S, Cardinality(s) = n + 1 PROVE SumOver(f, s) = 0
    OBVIOUS
  <2>1. Chosen(s) \in s
    BY ChosenIn, FS_EmptySet
  <2>2. s \ {Chosen(s)} \in SUBSET S /\ Cardinality(s \ {Chosen(s)}) = n
    BY <2>1, <1>0, SmallerBy
  <2>3. SumOver(f, s \ {Chosen(s)}) = 0
    BY <2>2, <1>2
  <2>4. SumOver(f, s) = f[Chosen(s)] + SumOver(f, s \ {Chosen(s)})
    BY <2>1, <1>0, SumRemove
  <2> QED BY <2>1, <2>3, <2>4
<1>3. Nat \subseteq Good
  <2> HIDE DEF Good
  <2> QED BY <1>1, <1>2, SetInduction
<1> QED BY <1>0, <1>3

(* The sum over two sets that share nothing.                               *)
LEMMA SumUnion ==
  ASSUME NEW S, NEW T, IsFiniteSet(S), IsFiniteSet(T), S \cap T = {},
         NEW f, \A x \in S \cup T : f[x] \in Int
  PROVE  SumOver(f, S \cup T) = SumOver(f, S) + SumOver(f, T)
<1> DEFINE Adds(t) == SumOver(f, S \cup t) = SumOver(f, S) + SumOver(f, t)
           Good == {n \in Nat : \A t \in SUBSET T : Cardinality(t) = n => Adds(t)}
<1>0. \A t \in SUBSET T : IsFiniteSet(t) /\ Cardinality(t) \in Nat
  BY FS_Subset, FS_CardinalityType
<1>a. \A t \in SUBSET T : IsFiniteSet(S \cup t)
  BY <1>0, FS_Union
<1>b. SumOver(f, S) \in Int
  BY SumInt
<1>1. 0 \in Good
  <2>1. \A t \in SUBSET T : Cardinality(t) = 0 => t = {}
    BY <1>0, FS_EmptySet
  <2>2. S \cup {} = S /\ SumOver(f, {}) = 0
    BY SumEmpty
  <2>3. Adds({})
    BY <1>b, <2>2
  <2> HIDE DEF Adds
  <2> QED BY <2>1, <2>3
<1>2. ASSUME NEW n \in Nat, n \in Good PROVE n + 1 \in Good
  <2> SUFFICES ASSUME NEW t \in SUBSET T, Cardinality(t) = n + 1 PROVE Adds(t)
    OBVIOUS
  <2>1. Chosen(t) \in t
    <3>1. Cardinality({}) = 0
      BY FS_EmptySet
    <3>2. t # {}
      BY <3>1
    <3> QED BY <3>2, ChosenIn
  <2> DEFINE x == Chosen(t)
             r == t \ {x}
  <2>2. r \in SUBSET T /\ Cardinality(r) = n
    <3>1. IsFiniteSet(t) /\ x \in t
      BY <2>1, <1>0
    <3> HIDE DEF Good, x
    <3>2. Cardinality(t \ {x}) = Cardinality(t) - 1
      BY <3>1, SmallerBy
    <3> QED BY <3>2
  <2>3. SumOver(f, S \cup r) = SumOver(f, S) + SumOver(f, r)
    <3>1. \A u \in SUBSET T : Cardinality(u) = n => Adds(u)
      BY <1>2
    <3> HIDE DEF r
    <3> QED BY <2>2, <3>1
  <2>4. SumOver(f, t) = f[x] + SumOver(f, r)
    BY <2>1, <1>0, SumRemove
  <2>5. SumOver(f, S \cup t) = f[x] + SumOver(f, S \cup r)
    <3>1. (S \cup t) \ {x} = S \cup r /\ x \in S \cup t
      BY <2>1
    <3>2. SumOver(f, S \cup t) = f[x] + SumOver(f, (S \cup t) \ {x})
      BY <2>1, <1>a, SumRemove
    <3> QED BY <3>1, <3>2
  <2>6. SumOver(f, r) \in Int /\ f[x] \in Int
    BY <2>1, <2>2, <1>0, SumInt
  <2> HIDE DEF r, x
  <2> QED BY <2>3, <2>4, <2>5, <2>6, <1>b
<1>3. Nat \subseteq Good
  <2> HIDE DEF Good
  <2> QED BY <1>1, <1>2, SetInduction
<1>4. Cardinality(T) \in Good
  BY <1>3, FS_CardinalityType
<1> QED BY <1>4

LEMMA SumOne == ASSUME NEW f, NEW x, f[x] \in Int PROVE SumOver(f, {x}) = f[x]
<1>1. IsFiniteSet({x}) /\ {x} \ {x} = {}
  BY FS_Singleton
<1>2. SumOver(f, {x}) = f[x] + SumOver(f, {x} \ {x})
  BY <1>1, SumRemove
<1> QED BY <1>1, <1>2, SumEmpty

(* A family that has {} and grows by single elements has every finite set. *)
LEMMA SubsetInduction ==
  ASSUME NEW S, IsFiniteSet(S), NEW Good, {} \in Good,
         \A s \in SUBSET S : s # {} /\ s \ {Chosen(s)} \in Good => s \in Good
  PROVE  S \in Good
<1> DEFINE Sizes == {n \in Nat : \A s \in SUBSET S : Cardinality(s) = n => s \in Good}
<1>0. \A s \in SUBSET S : IsFiniteSet(s) /\ Cardinality(s) \in Nat
  BY FS_Subset, FS_CardinalityType
<1>1. 0 \in Sizes
  BY <1>0, FS_EmptySet
<1>2. ASSUME NEW n \in Nat, n \in Sizes PROVE n + 1 \in Sizes
  <2> SUFFICES ASSUME NEW s \in SUBSET S, Cardinality(s) = n + 1 PROVE s \in Good
    OBVIOUS
  <2>1. s # {}
    BY FS_EmptySet
  <2>2. Chosen(s) \in s
    BY <2>1, ChosenIn
  <2>3. s \ {Chosen(s)} \in SUBSET S /\ Cardinality(s \ {Chosen(s)}) = n
    BY <2>2, <1>0, SmallerBy
  <2>4. s \ {Chosen(s)} \in Good
    BY <2>3, <1>2
  <2> QED BY <2>1, <2>4
<1>3. Nat \subseteq Sizes
  <2> HIDE DEF Sizes
  <2> QED BY <1>1, <1>2, SetInduction
<1> QED BY <1>0, <1>3

(* A linear combination of terms adds up to that of the sums.              *)
Combines(h, c, f, d, k, S) ==
  \A x \in S : f[x] \in Int /\ k[x] \in Int /\ h[x] = c * f[x] + d * k[x]

LEMMA SumLinear ==
  ASSUME NEW S, IsFiniteSet(S), NEW f, NEW k, NEW h, NEW c \in Int, NEW d \in Int,
         Combines(h, c, f, d, k, S)
  PROVE  SumOver(h, S) = c * SumOver(f, S) + d * SumOver(k, S)
<1> USE DEF Combines
<1> DEFINE Adds(s) == SumOver(h, s) = c * SumOver(f, s) + d * SumOver(k, s)
           Good == {s \in SUBSET S : Adds(s)}
<1>0. \A s \in SUBSET S : IsFiniteSet(s)
  BY FS_Subset
<1>1. {} \in Good
  BY SumEmpty
<1>2. ASSUME NEW s \in SUBSET S, s # {}, s \ {Chosen(s)} \in Good PROVE s \in Good
  <2> DEFINE x == Chosen(s)
             r == s \ {x}
  <2>0. x \in s /\ x \in S /\ r \in SUBSET S
    BY <1>2, ChosenIn
  <2>1. x \in s /\ x \in S /\ r \in SUBSET S /\ IsFiniteSet(s) /\ IsFiniteSet(r)
    BY <1>0, <2>0
  <2>2. /\ SumOver(f, s) = f[x] + SumOver(f, r) /\ SumOver(k, s) = k[x] + SumOver(k, r)
    BY <2>1, SumRemove
  <2>3. h[x] = c * f[x] + d * k[x] /\ f[x] \in Int /\ k[x] \in Int
    BY <2>1
  <2>4. \A y \in S : h[y] \in Int
    OBVIOUS
  <2>5. SumOver(h, s) = h[x] + SumOver(h, r)
    BY <2>1, <2>4, SumRemove
  <2>6. SumOver(f, r) \in Int /\ SumOver(k, r) \in Int
    BY <2>1, SumInt
  <2>7. SumOver(h, r) = c * SumOver(f, r) + d * SumOver(k, r)
    BY <1>2
  <2>8. \A z, u, v \in Int : z * (u + v) = z * u + z * v /\ z * u \in Int
    OBVIOUS
  <2>9. /\ c * SumOver(f, s) = c * f[x] + c * SumOver(f, r)
        /\ d * SumOver(k, s) = d * k[x] + d * SumOver(k, r)
        /\ {c * f[x], c * SumOver(f, r), d * k[x], d * SumOver(k, r)} \subseteq Int
    BY <2>2, <2>3, <2>6, <2>8
  <2> HIDE DEF x, r
  <2> QED BY <2>3, <2>5, <2>7, <2>9
<1>3. S \in Good
  <2> HIDE DEF Good
  <2> QED BY <1>1, <1>2, SubsetInduction
<1> QED BY <1>3

(* The sum of g over the elements of a list, and its type.                 *)
SumSeq(s, g) == SumOver([i \in DOMAIN s |-> g[s[i]]], DOMAIN s)

LEMMA SumSeqInt ==
  ASSUME NEW R, NEW s \in Seq(R), NEW g, \A r \in R : g[r] \in Int
  PROVE  SumSeq(s, g) \in Int
<1>1. Len(s) \in Nat /\ DOMAIN s = 1..Len(s) /\ \A i \in DOMAIN s : s[i] \in R
  BY ElementOfSeq, LenProperties
<1>2. IsFiniteSet(DOMAIN s)
  BY <1>1, FS_Interval
<1> DEFINE f == [i \in DOMAIN s |-> g[s[i]]]
<1>3. \A i \in DOMAIN s : f[i] \in Int
  BY <1>1
<1> HIDE DEF f
<1>4. SumOver(f, DOMAIN s) \in Int
  BY <1>2, <1>3, SumInt
<1> QED BY <1>4 DEF SumSeq, f

(* Appending to the list adds the new element's term.                      *)
LEMMA SumAppend ==
  ASSUME NEW R, NEW s \in Seq(R), NEW e \in R, NEW g, \A r \in R : g[r] \in Int
  PROVE  SumSeq(Append(s, e), g) = SumSeq(s, g) + g[e]
<1> DEFINE n == Len(s)
           t == Append(s, e)
           f == [i \in DOMAIN s |-> g[s[i]]]
           k == [i \in DOMAIN t |-> g[t[i]]]
<1>0. n \in Nat /\ DOMAIN s = 1..n
  OBVIOUS
<1>a. t \in Seq(R) /\ Len(t) = n + 1
  OBVIOUS
<1>b. DOMAIN t = 1..(n + 1)
  BY <1>a
<1>c. t[n + 1] = e /\ \A i \in 1..n : t[i] = s[i]
  BY <1>0, AppendProperties
<1>1. n \in Nat /\ DOMAIN s = 1..n /\ DOMAIN t = 1..(n + 1) /\ t[n + 1] = e
      /\ t \in Seq(R) /\ \A i \in 1..n : t[i] = s[i]
  BY <1>0, <1>a, <1>b, <1>c
<1>2. IsFiniteSet(1..n) /\ IsFiniteSet(1..(n + 1))
  BY <1>1, FS_Interval
<1>3. (1..(n + 1)) \ {n + 1} = 1..n /\ n + 1 \in 1..(n + 1)
  BY <1>1
<1>4. \A i \in 1..n : f[i] \in Int /\ k[i] = f[i]
  BY <1>1
<1>5. \A i \in 1..(n + 1) : k[i] \in Int
  BY <1>1
<1>6. k[n + 1] = g[e]
  BY <1>1, <1>3
<1> HIDE DEF f, k, n, t
<1>7. SumOver(k, 1..(n + 1)) = k[n + 1] + SumOver(k, (1..(n + 1)) \ {n + 1})
  BY <1>2, <1>3, <1>5, SumRemove
<1>8. SumOver(f, 1..n) = SumOver(k, 1..n) /\ SumOver(f, 1..n) \in Int
  BY <1>2, <1>4, SumAgrees, SumInt
<1>9. g[e] \in Int
  OBVIOUS
<1>10. SumSeq(s, g) = SumOver(f, 1..n) /\ SumSeq(t, g) = SumOver(k, 1..(n + 1))
  BY <1>1 DEF SumSeq, f, k
<1>11. SumSeq(t, g) = g[e] + SumSeq(s, g)
  BY Zenon, <1>3, <1>6, <1>7, <1>8, <1>10
<1>12. SumSeq(s, g) \in Int
  BY <1>8, <1>10
<1> QED BY <1>9, <1>11, <1>12 DEF t

-----------------------------------------------------------------------------
(* Min and Max of two numbers.                                             *)
LEMMA SmallerOfTwo ==
  ASSUME NEW a \in Int, NEW b \in Int
  PROVE  Min({a, b}) = IF a <= b THEN a ELSE b
<1> DEFINE m == IF a <= b THEN a ELSE b
<1>1. m \in {a, b} /\ \A y \in {a, b} : m =< y
  OBVIOUS
<1>2. \A x \in {a, b} : (\A y \in {a, b} : x =< y) => x = m
  OBVIOUS
<1> QED
  BY <1>1, <1>2 DEF Min

LEMMA LargerOfTwo ==
  ASSUME NEW a \in Int, NEW b \in Int
  PROVE  Max({a, b}) = IF a >= b THEN a ELSE b
<1> DEFINE m == IF a >= b THEN a ELSE b
<1>1. m \in {a, b} /\ \A y \in {a, b} : m >= y
  OBVIOUS
<1>2. \A x \in {a, b} : (\A y \in {a, b} : x >= y) => x = m
  OBVIOUS
<1> QED
  BY <1>1, <1>2 DEF Max

(* A finite set of integers has a greatest element, which is its Max.      *)
LEMMA MaxOfFinite ==
  ASSUME NEW S, IsFiniteSet(S), S \subseteq Int, S # {}
  PROVE  Max(S) \in S /\ \A x \in S : x <= Max(S)
<1> DEFINE Good == {s \in SUBSET S : s # {} => \E m \in s : \A x \in s : x <= m}
<1>1. {} \in Good
  OBVIOUS
<1>2. ASSUME NEW s \in SUBSET S, s # {}, s \ {Chosen(s)} \in Good PROVE s \in Good
  <2> DEFINE c == Chosen(s)
  <2>1. c \in s
    BY <1>2, ChosenIn
  <2> HIDE DEF c
  <2>2. CASE s \ {c} = {}
    <3>1. \A x \in s : x <= c
      BY <2>1, <2>2
    <3> QED BY <2>1, <3>1
  <2>3. CASE s \ {c} # {}
    <3>1. PICK m \in s \ {c} : \A x \in s \ {c} : x <= m
      BY <1>2, <2>3 DEF c
    <3>2. c \in Int /\ m \in Int
      BY <2>1
    <3>3. CASE c <= m
      <4>1. \A x \in s : x <= m
        BY <3>1, <3>3
      <4> QED BY <4>1
    <3>4. CASE m <= c
      <4>1. \A x \in s : x <= c
        BY <3>1, <3>2, <3>4
      <4> QED BY <2>1, <4>1
    <3> QED BY <3>2, <3>3, <3>4
  <2> QED BY <2>2, <2>3
<1>3. S \in Good
  <2> HIDE DEF Good
  <2> QED BY <1>1, <1>2, SubsetInduction
<1>4. PICK m \in S : \A x \in S : m >= x
  BY <1>3
<1>5. Max(S) \in S /\ \A x \in S : Max(S) >= x
  BY <1>4 DEF Max
<1> QED BY <1>5

(* A nonempty finite set of numbers has a greatest element: Max.           *)
LEMMA GreatestOf ==
  ASSUME NEW n \in Nat, NEW s \in SUBSET (1..n), s # {}
  PROVE  Max(s) \in s /\ \A x \in s : x <= Max(s)
<1> DEFINE T == {k \in Nat : \E x \in s : k = n - x}
<1>1. \A y \in s : y \in Nat /\ n - y \in T
  OBVIOUS
<1>2. T \subseteq Nat /\ T # {}
  BY <1>1
<1>0. \A k \in T : k \in Nat /\ \E x \in s : k = n - x
  OBVIOUS
<1> HIDE DEF T
<1>3. PICK t \in T : \A u \in T : t <= u
  BY <1>2, LeastOf
<1>4. PICK x \in s : t = n - x
  BY <1>3, <1>0
<1>5. \A y \in s : x >= y
  BY <1>1, <1>3, <1>4
<1>6. \E y \in s : \A z \in s : y >= z
  BY <1>5
<1>7. (CHOOSE y \in s : \A z \in s : y >= z) \in s /\ \A w \in s : (CHOOSE y \in s : \A z \in s : y >= z) >= w
  BY <1>6, Zenon
<1>8. Max(s) = CHOOSE y \in s : \A z \in s : y >= z
  BY Zenon DEF Max
<1>9. Max(s) \in s /\ \A w \in s : Max(s) >= w
  BY <1>7, <1>8, Zenon
<1>10. \A w \in s : w <= Max(s)
  BY <1>9, <1>1
<1> QED BY <1>9, <1>10

(* Integer division keeps the order and the sign.                          *)
LEMMA QuotientGrows ==
  ASSUME NEW a \in Nat, NEW b \in Nat, a <= b, NEW d \in Nat \ {0}
  PROVE  a \div d \in Nat /\ a \div d <= b \div d
<1> DEFINE q == a \div d
           r == b \div d
<1>1. /\ q \in Int /\ a % d \in 0..(d - 1) /\ a = d * q + (a % d)
      /\ r \in Int /\ b % d \in 0..(d - 1) /\ b = d * r + (b % d)
  OBVIOUS
<1>2. q \in Nat
  OBVIOUS
<1>3. ASSUME q >= r + 1 PROVE FALSE
  <2>1. d * q >= d * (r + 1)
    BY <1>1, <1>3
  <2> QED BY <1>1, <2>1
<1> QED BY <1>1, <1>2, <1>3

-----------------------------------------------------------------------------
(* Sums of natural numbers.                                                *)
LEMMA SumNat ==
  ASSUME NEW S, IsFiniteSet(S), NEW f, \A x \in S : f[x] \in Nat
  PROVE  SumOver(f, S) \in Nat
<1> DEFINE z == [x \in S |-> 0]
<1>1. SumOver(z, S) = 0
  <2>1. \A x \in S : z[x] = 0
    OBVIOUS
  <2> HIDE DEF z
  <2> QED BY <2>1, SumZero
<1>2. \A x \in S : z[x] \in Int /\ f[x] \in Int /\ z[x] <= f[x]
  OBVIOUS
<1> HIDE DEF z
<1>3. SumOver(z, S) <= SumOver(f, S)
  BY <1>2, SumAtMost
<1>4. SumOver(f, S) \in Int
  BY <1>2, SumInt
<1> QED BY <1>1, <1>3, <1>4

(* The sum over a part is no more than the sum over the whole.             *)
LEMMA SumOfPart ==
  ASSUME NEW T, IsFiniteSet(T), NEW S, S \subseteq T, NEW f, \A x \in T : f[x] \in Nat
  PROVE  SumOver(f, S) \in Nat /\ SumOver(f, T) \in Nat /\ SumOver(f, S) <= SumOver(f, T)
<1> DEFINE R == T \ S
<1>1. IsFiniteSet(S) /\ IsFiniteSet(R) /\ S \cap R = {} /\ S \cup R = T
  BY FS_Subset
<1>2. \A x \in S \cup R : f[x] \in Int
  BY <1>1
<1> HIDE DEF R
<1>3. SumOver(f, T) = SumOver(f, S) + SumOver(f, R)
  BY <1>1, <1>2, SumUnion
<1>4. SumOver(f, S) \in Nat /\ SumOver(f, R) \in Nat
  BY <1>1, SumNat
<1> QED BY <1>3, <1>4

(* A sum over the image of an injective map is the sum over its domain.    *)
LEMMA SumImage ==
  ASSUME NEW S, IsFiniteSet(S), NEW p, NEW g, NEW f,
         \A x \in S : f[x] \in Int /\ g[p[x]] = f[x],
         \A x, y \in S : p[x] = p[y] => x = y
  PROVE  SumOver(g, {p[x] : x \in S}) = SumOver(f, S)
<1> DEFINE Same(s) == IsFiniteSet({p[x] : x \in s}) /\ SumOver(g, {p[x] : x \in s}) = SumOver(f, s)
           Good == {s \in SUBSET S : Same(s)}
<1>1. {} \in Good
  <2>1. {p[x] : x \in {}} = {}
    OBVIOUS
  <2> QED BY <2>1, SumEmpty, FS_EmptySet
<1>2. ASSUME NEW s \in SUBSET S, s # {}, s \ {Chosen(s)} \in Good PROVE s \in Good
  <2> DEFINE m == Chosen(s)
             r == s \ {m}
             image == {p[x] : x \in s}
             rest == {p[x] : x \in r}
  <2>1. m \in s /\ r \subseteq S /\ m \in S
    BY <1>2, ChosenIn
  <2>2. image = rest \cup {p[m]} /\ p[m] \notin rest /\ image \ {p[m]} = rest
    BY <2>1
  <2>3. IsFiniteSet(rest) /\ SumOver(g, rest) = SumOver(f, r)
    BY <1>2
  <2>4. \A y \in image : g[y] \in Int
    OBVIOUS
  <2>5. p[m] \in image /\ g[p[m]] = f[m] /\ IsFiniteSet(s) /\ \A x \in s : f[x] \in Int
    BY <2>1, FS_Subset
  <2> HIDE DEF m, r, image, rest
  <2>6. IsFiniteSet(image)
    BY <2>2, <2>3, FS_AddElement
  <2>7. SumOver(g, image) = g[p[m]] + SumOver(g, rest)
    BY <2>2, <2>4, <2>5, <2>6, SumRemove
  <2>8. SumOver(f, s) = f[m] + SumOver(f, r)
    BY <2>1, <2>5, SumRemove DEF r
  <2>9. IsFiniteSet(image) /\ SumOver(g, image) = SumOver(f, s)
    BY <2>3, <2>5, <2>6, <2>7, <2>8
  <2> QED BY <2>9 DEF image
<1> HIDE DEF Good
<1>3. S \in Good
  BY <1>1, <1>2, SubsetInduction
<1> QED BY <1>3 DEF Good

-----------------------------------------------------------------------------
(* Ranking: a finite set in a strict total order has one element on every  *)
(* place.                                                                  *)

StrictOrder(R, K) ==
  /\ \A a \in K : <<a, a>> \notin R
  /\ \A a, b \in K : a # b => <<a, b>> \in R \/ <<b, a>> \in R
  /\ \A a, b, c \in K : <<a, b>> \in R /\ <<b, c>> \in R => <<a, c>> \in R

Rank(c, R, K) == 1 + Cardinality({a \in K : <<a, c>> \in R})

(* No two elements have one rank, so the ranks fill 1..Cardinality(K).     *)
LEMMA RanksFill ==
  ASSUME NEW K, IsFiniteSet(K), NEW R, StrictOrder(R, K)
  PROVE  /\ \A c \in K : Rank(c, R, K) \in 1..Cardinality(K)
         /\ \A b, c \in K : <<b, c>> \in R => Rank(b, R, K) < Rank(c, R, K)
         /\ \A b, c \in K : Rank(b, R, K) = Rank(c, R, K) => b = c
         /\ \A i \in 1..Cardinality(K) : \E c \in K : Rank(c, R, K) = i
<1> DEFINE Below(c) == {a \in K : <<a, c>> \in R}
           N == Cardinality(K)
<1>0. N \in Nat /\ \A c \in K : IsFiniteSet(Below(c)) /\ Cardinality(Below(c)) \in Nat
  BY FS_Subset, FS_CardinalityType
<1>1. ASSUME NEW c \in K PROVE Cardinality(Below(c)) <= N - 1
  <2>1. Below(c) \subseteq K \ {c}
    BY DEF StrictOrder
  <2>2. IsFiniteSet(K \ {c}) /\ Cardinality(K \ {c}) = N - 1
    BY SmallerBy
  <2>3. Cardinality(Below(c)) <= Cardinality(K \ {c})
    <3> HIDE DEF Below
    <3> QED BY <2>1, <2>2, FS_Subset
  <2> QED BY <2>2, <2>3
<1>2. ASSUME NEW b \in K, NEW c \in K, <<b, c>> \in R
      PROVE  Cardinality(Below(b)) < Cardinality(Below(c))
  <2>1. Below(b) \subseteq Below(c) /\ b \in Below(c) /\ b \notin Below(b)
    BY <1>2 DEF StrictOrder
  <2>2. Cardinality(Below(b)) <= Cardinality(Below(c)) /\ Cardinality(Below(b)) # Cardinality(Below(c))
    BY <1>0, <2>1, FS_Subset
  <2> QED BY <1>0, <2>2
<1>3. \A c \in K : Rank(c, R, K) = 1 + Cardinality(Below(c))
  BY DEF Rank
<1> HIDE DEF Below
<1>4. \A c \in K : Rank(c, R, K) \in 1..N
  BY <1>0, <1>1, <1>3
<1>5. \A b, c \in K : <<b, c>> \in R => Rank(b, R, K) < Rank(c, R, K)
  BY <1>0, <1>2, <1>3
<1>6. \A b, c \in K : Rank(b, R, K) = Rank(c, R, K) => b = c
  <2> SUFFICES ASSUME NEW b \in K, NEW c \in K, b # c PROVE Rank(b, R, K) # Rank(c, R, K)
    OBVIOUS
  <2>1. <<b, c>> \in R \/ <<c, b>> \in R
    BY DEF StrictOrder
  <2>2. Rank(b, R, K) \in Int /\ Rank(c, R, K) \in Int
    BY <1>4
  <2> QED BY <1>5, <2>1, <2>2
<1> DEFINE f == [c \in K |-> Rank(c, R, K)]
<1>7. f \in Injection(K, 1..N)
  BY <1>4, <1>6 DEF Injection, IsInjective
<1>8. IsFiniteSet(1..N) /\ Cardinality(1..N) = N
  BY <1>0, FS_Interval
<1>9. f \in Surjection(K, 1..N)
  BY <1>7, <1>8, FS_Injection
<1>10. \A i \in 1..N : \E c \in K : Rank(c, R, K) = i
  BY <1>9 DEF Surjection
<1> QED BY <1>4, <1>5, <1>6, <1>10

(* A nonempty set in an order has a last element.                          *)
LEMMA LastIn ==
  ASSUME NEW K, IsFiniteSet(K), NEW R, StrictOrder(R, K), K # {}
  PROVE  \E m \in K : \A a \in K : a # m => <<a, m>> \in R
<1>1. Cardinality(K) \in Nat \ {0}
  BY FS_CardinalityType, FS_EmptySet
<1>2. PICK m \in K : Rank(m, R, K) = Cardinality(K)
  <2>1. Cardinality(K) \in 1..Cardinality(K)
    BY <1>1
  <2> QED BY <2>1, RanksFill
<1>3. ASSUME NEW a \in K, a # m PROVE <<a, m>> \in R
  <2>1. ~(<<m, a>> \in R)
    <3>1. Rank(a, R, K) \in 1..Cardinality(K) /\ (<<m, a>> \in R => Rank(m, R, K) < Rank(a, R, K))
      BY RanksFill
    <3> QED BY <1>1, <1>2, <3>1
  <2> QED BY <1>3, <2>1 DEF StrictOrder
<1> QED BY <1>3
=============================================================================
