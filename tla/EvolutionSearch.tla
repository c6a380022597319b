--------------------------- MODULE EvolutionSearch ---------------------------
(***************************************************************************)
(* The generational search (evolutionary_lifecycle.py) with the mating of  *)
(* hypergamic_selection.py: a population is ranked, bred, evaluated and    *)
(* truncated; the ranking of the survivors is cached for the next step.    *)
(* The evaluation of an offspring is a back-test: any member of Traits.    *)
(***************************************************************************)
EXTENDS ParetoRanking

CONSTANTS N,                \* population size
          Traits,           \* evaluations [dsr, regret, dir, ok] a back-test may give
          Distances,        \* penalised distances of 2 N candidates that are followed
          Elites,           \* values of elitism_count followed (the engine's own is 0)
          AlphaNum, AlphaDen,   \* alpha_ratio
          Tournament,       \* tournament_size
          StagnationLimit,  \* stagnation_generations_limit
          Whole,            \* the ratio 1.0; a multiple of N and of 5 to the MaxGenerations
          Steps,            \* [min, init, max] mutation step sizes
          MaxGenerations

\* The checks of the two configurations, as far as their fields matter here.
MutationConfig ==
    /\ StagnationLimit \in Nat \ {0}
    /\ 0 < Steps.min /\ Steps.min < Steps.max
    /\ Steps.min <= Steps.init /\ Steps.init <= Steps.max

HypergamicConfig ==
    /\ Tournament \in Nat \ {0} /\ Elites \subseteq Nat
    /\ AlphaDen \in Nat \ {0} /\ 100 * AlphaNum \in (5 * AlphaDen)..(90 * AlphaDen)

ASSUME EvolutionAssumption ==
    /\ MutationConfig /\ HypergamicConfig /\ N \in Nat \ {0}
    /\ Whole % N = 0 /\ Whole % (5 ^ (MaxGenerations + 1)) = 0

VARIABLES pop,        \* current_fitness
          scored,     \* the novelties the cached ranking was made with
          cached,     \* _cached_ranking
          archive, generation, step, smoothed,
          stagnant,   \* stagnation_count
          cataclysm,  \* is_cataclysm_triggered
          quiet,      \* stagnant reports in a row
          elitism,
          misled,     \* the last generation charged an offspring to a stranger
          inbred,     \* a pair of one varying series with itself passed the gate
          crowded,    \* the first front was larger than the population
          searching

evolutionVars == <<pop, scored, cached, archive, generation, step, smoothed, stagnant,
                   cataclysm, quiet, elitism, misled, inbred, crowded, searching>>

CandidateIds(cands) == [i \in DOMAIN cands |-> cands[i].id]
ById(cands, id) == CHOOSE c \in Range(cands) : c.id = id
Individual(t, g, i) == [id |-> <<g, i>>, dsr |-> t.dsr, regret |-> t.regret,
                        dir |-> t.dir, ok |-> t.ok]

-----------------------------------------------------------------------------
(* Mating                                                                  *)

\* stratify: the first front, topped up from the second; the aspirants are
\* the other viable candidates, or the alphas themselves.
Alphas(cands, ranking) ==
    LET viable == {c.id : c \in {d \in Range(cands) : Viable(d)}}
        target == Max({1, (AlphaNum * Cardinality(viable) + AlphaDen - 1) \div AlphaDen})
        first  == ranking.fronts[1]
        second == IF Len(ranking.fronts) > 1 THEN ranking.fronts[2] ELSE <<>>
        short  == Min({Max({0, target - Len(first)}), Len(second)})
    IN  first \o SubSeq(second, 1, short)

Aspirants(cands, alphas) ==
    LET others == {c.id : c \in {d \in Range(cands) : Viable(d)}} \ Range(alphas)
    IN  IF others = {} THEN Range(alphas) ELSE others

\* evaluate_normalized: a flat series is a zero vector, orthogonal to all.
\* No relaxation of the threshold admits two identical series.
Orthogonal(a, b) == a.dir # b.dir \/ a.dir = FlatResidual

\* The winners of the tournaments that can be drawn.
Winners(cands, asp) ==
    {w \in asp : \E t \in kSubset(Min({Tournament, Cardinality(asp)}), asp) :
        w \in t /\ \A x \in t : ById(cands, x).dsr <= ById(cands, w).dsr}

\* match_pairs for one alpha: an accepted winner, or, once the attempts are
\* used up by rejections, the aspirant with the most distant chromosome.
Matches(cands, alpha, asp) ==
    LET won  == Winners(cands, asp)
        fits == {w \in won : Orthogonal(ById(cands, alpha), ById(cands, w))}
    IN  {[alpha |-> alpha, aspirant |-> w, forced |-> FALSE] : w \in fits}
        \cup (IF won = fits THEN {}
              ELSE {[alpha |-> alpha, aspirant |-> w, forced |-> TRUE] : w \in asp})

EliteIds(ranking) ==
    SubSeq(ranking.fronts[1], 1, Min({elitism, Len(ranking.fronts[1]), N}))

\* The first parent an offspring really has: elites come first (reproduce).
TrueParents(elites, mates) == elites \o [i \in DOMAIN mates |-> mates[i].alpha]

\* The parent step_generation charges it to: mating pairs first.
Attributed(elites, mates) == [i \in DOMAIN mates |-> mates[i].alpha] \o elites

-----------------------------------------------------------------------------
(* Step size, stagnation, survival                                         *)

\* compute_apd_success_ratio: offspring that rank before their parent.
Place(ranking, id) ==
    IF \E k \in DOMAIN ranking.fronts : id \in Range(ranking.fronts[k])
    THEN LET k == CHOOSE k \in DOMAIN ranking.fronts : id \in Range(ranking.fronts[k])
         IN  <<k, CHOOSE n \in DOMAIN ranking.fronts[k] : ranking.fronts[k][n] = id>>
    ELSE <<0, 0>>
Succeeds(ranking, child, parent) ==
    LET c == Place(ranking, child)
        p == Place(ranking, parent)
    IN  c # <<0, 0>> /\ (p = <<0, 0>> \/ c[1] < p[1] \/ (c[1] = p[1] /\ c[2] < p[2]))
SuccessRatio(ranking, parents) ==
    Cardinality({i \in DOMAIN parents :
                    Succeeds(ranking, <<generation + 1, i>>, parents[i])}) * (Whole \div N)

\* adapt_step_size: smoothing 0.2, the one-fifth rule, factors 1.1 and 0.9.
Smoothed(ratio) == (ratio + 4 * smoothed) \div 5
Adapted(ratio) ==
    LET raw == IF 5 * ratio > Whole THEN (step * 11) \div 10
               ELSE IF 5 * ratio < Whole THEN (step * 9) \div 10 ELSE step
    IN  Min({Max({raw, Steps.min}), Steps.max})

\* StagnationDetector.evaluate: little dispersion of the chromosomes (close,
\* an input) and residuals that are correlated on average.
Correlated(cands) ==
    LET prs == {p \in (DOMAIN cands) \X (DOMAIN cands) : p[1] < p[2]}
        same == {p \in prs : cands[p[1]].dir = cands[p[2]].dir /\ cands[p[1]].dir # FlatResidual}
    IN  5 * Cardinality(same) > 4 * Cardinality(prs)
IsStagnant(cands, close) == N >= 2 /\ close /\ Correlated(cands)

CountAfter(count, still) ==
    IF still THEN (IF count + 1 >= StagnationLimit THEN 0 ELSE count + 1) ELSE 0
Triggered(count, still) == still /\ count + 1 >= StagnationLimit

(* A variant: the viable candidates come last.                             *)
SurvivorsReversed(ranking) == SubSeq(ranking.rest \o FlattenSeq(ranking.fronts), 1, N)

\* The first N of the fronts, then of the candidates that are not viable.
Survivors(ranking) == SubSeq(FlattenSeq(ranking.fronts) \o ranking.rest, 1, N)

Restricted(ranking, ids) ==
    [fronts |-> SelectSeq([k \in DOMAIN ranking.fronts |->
                    SelectSeq(ranking.fronts[k], LAMBDA id : id \in ids)],
                    LAMBDA f : f # <<>>),
     rest |-> SelectSeq(ranking.rest, LAMBDA id : id \in ids)]

-----------------------------------------------------------------------------
EvolutionInit ==
    /\ pop = <<>> /\ scored = <<>> /\ archive = <<>>
    /\ cached = [ids |-> <<>>, ranking |-> [fronts |-> <<>>, rest |-> <<>>]]
    /\ generation = 0 /\ step = Steps.init /\ smoothed = Whole \div 5
    /\ stagnant = 0 /\ cataclysm = FALSE /\ quiet = 0
    /\ elitism = 0 /\ misled = FALSE /\ inbred = FALSE /\ crowded = FALSE
    /\ searching = "new"

InitializeState ==
    /\ searching = "new"
    /\ \E ts \in [1..N -> Traits], apd \in Distances, close \in BOOLEAN, e \in Elites :
         LET cands == [i \in 1..N |-> Individual(ts[i], 0, i)]
             still == IsStagnant(cands, close)
         IN  /\ pop' = cands
             /\ scored' = Novelties(cands, archive)
             /\ cached' = [ids |-> CandidateIds(cands), ranking |-> Ranking(cands, archive, apd)]
             /\ stagnant' = CountAfter(0, still) /\ cataclysm' = Triggered(0, still)
             /\ quiet' = IF still THEN 1 ELSE 0
             /\ elitism' = e
    /\ searching' = "running"
    /\ UNCHANGED <<archive, generation, step, smoothed, misled, inbred, crowded>>

\* stratify raises when no candidate is viable: the search is over.
NoViableParents ==
    /\ searching = "running" /\ generation < MaxGenerations
    /\ \A c \in Range(pop) : ~Viable(c)
    /\ searching' = "failed"
    /\ UNCHANGED <<pop, scored, cached, archive, generation, step, smoothed, stagnant,
                   cataclysm, quiet, elitism, misled, inbred, crowded>>

\* The survivors keep the cached ranking restricted to them; their order is
\* the order of the joint ranking, so the key of the cache matches next time.
StepGeneration ==
    /\ searching = "running" /\ generation < MaxGenerations
    /\ \E c \in Range(pop) : Viable(c)
    /\ LET parents == cached.ranking
           alphas == Alphas(pop, parents)
           elites == EliteIds(parents)
           asp == Aspirants(pop, alphas)
       IN  \E ts \in [1..N -> Traits], apd \in Distances :
             LET kids == [i \in 1..N |-> Individual(ts[i], generation + 1, i)]
                 joint == pop \o kids
                 ranking == Ranking(joint, archive, apd)
                 ids == Survivors(ranking)
                 next == [i \in 1..N |-> ById(joint, ids[i])]
                 nov == Novelties(joint, archive)
             IN  /\ pop' = next
                 /\ scored' = [i \in 1..N |->
                        nov[CHOOSE j \in DOMAIN joint : joint[j].id = ids[i]]]
                 /\ cached' = [ids |-> ids, ranking |-> Restricted(ranking, Range(ids))]
                 /\ archive' = AfterAdmit(joint, archive, ranking)
                 /\ crowded' = (ranking.fronts # <<>> /\ Len(ranking.fronts[1]) > N)
                 /\ \E close \in BOOLEAN :
                      LET still == IsStagnant(next, close) IN
                      /\ stagnant' = CountAfter(stagnant, still)
                      /\ cataclysm' = Triggered(stagnant, still)
                      /\ quiet' = IF still THEN quiet + 1 ELSE 0
                 /\ \E mates \in [1..(N - Len(elites)) ->
                                     UNION {Matches(pop, a, asp) : a \in Range(alphas)}] :
                      LET charged == Attributed(elites, mates) IN
                      /\ \A i \in DOMAIN mates :
                            mates[i].alpha = alphas[((i - 1) % Len(alphas)) + 1]
                      /\ misled' = (charged # TrueParents(elites, mates))
                      /\ inbred' = \E i \in DOMAIN mates :
                            /\ mates[i].alpha = mates[i].aspirant /\ ~mates[i].forced
                            /\ ById(pop, mates[i].alpha).dir # FlatResidual
                      /\ smoothed' = Smoothed(SuccessRatio(ranking, charged))
                      /\ step' = Adapted(smoothed')
    /\ generation' = generation + 1
    /\ UNCHANGED <<elitism, searching>>

EvolutionNext == InitializeState \/ NoViableParents \/ StepGeneration

EvolutionSpec == EvolutionInit /\ [][EvolutionNext]_evolutionVars

-----------------------------------------------------------------------------
(* Properties                                                              *)

BestDsr(cands) == Max({-1} \cup {c.dsr : c \in {d \in Range(cands) : Viable(d)}})

(* "Guaranteeing monotonic frontier preservation": a generation never      *)
(* loses its best deflated Sharpe ratio, unless the first front alone is   *)
(* larger than the population and is cut by penalised distance.            *)
BestNeverLost ==
    [][searching = "running" => (BestDsr(pop') >= BestDsr(pop) \/ crowded')]_evolutionVars

(* The cached ranking the next generation is bred from is the ranking the  *)
(* survivors have among themselves: cutting the rest away moves no         *)
(* survivor to another front and leaves no stranger in one.  Survivors with*)
(* equal DSR are left out: their fronts depend on the order they came in.  *)
CachedRankingExact ==
    (searching = "running" /\ \A i, j \in DOMAIN pop : i # j => pop[i].dsr # pop[j].dsr) =>
        LET sorted == Fronts(pop, scored)
            held == cached.ranking.fronts
        IN  /\ cached.ids = CandidateIds(pop)
            /\ Len(sorted) = Len(held)
            /\ \A k \in DOMAIN sorted : {pop[i].id : i \in Range(sorted[k])} = Range(held[k])

(* A front is free of dominated members but for near ties: a candidate can *)
(* be dominated within its own front only by one of no higher DSR, placed  *)
(* after it, whose DSR is within the tolerance of the test.                *)
FrontsCleanUnlessClose ==
    searching = "running" =>
        LET f == Fronts(pop, scored) IN
        \A k \in DOMAIN f : \A i, m \in Range(f[k]) :
            Dominates(pop[m], pop[i], scored[m], scored[i]) =>
                pop[i].dsr - pop[m].dsr \in 0..Tolerance(pop[i], pop[m])

(* The success ratio that steers the step size charges every offspring to  *)
(* the parent it was bred from, when no elites are carried over (the       *)
(* engine's own configuration; with elites the two orders differ).         *)
OffspringChargedToParent ==
    elitism = 0 => ~misled

(* A candidate is bred with itself only when every attempt to find another *)
(* was rejected, or its residual series does not vary: the gate, applied to*)
(* the winner of each tournament, stops the best aspirant from mating with *)
(* itself when the alphas are their own aspirants.                         *)
SelfMatingIsForced == ~inbred

(* A cataclysm is the answer to StagnationLimit stagnant generations in a  *)
(* row, and each such stretch brings exactly one.                          *)
CataclysmEndsStretch ==
    /\ cataclysm <=> (quiet > 0 /\ quiet % StagnationLimit = 0)
    /\ stagnant = quiet % StagnationLimit

(* Selection over generations: the ranking bred from is exact, mating and  *)
(* the success ratio go by the right parents, a cataclysm answers a whole  *)
(* stretch of stagnation, and the best is never lost.                      *)
SelectionSound ==
  /\ []CachedRankingExact
  /\ []FrontsCleanUnlessClose
  /\ []SelfMatingIsForced
  /\ []OffspringChargedToParent
  /\ []CataclysmEndsStretch
  /\ BestNeverLost
=============================================================================
