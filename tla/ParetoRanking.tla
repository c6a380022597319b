---------------------------- MODULE ParetoRanking ----------------------------
(***************************************************************************)
(* The ranking of strategy candidates by deflated Sharpe ratio, minimax    *)
(* regret and novelty (pareto_sorting.py).  A candidate is a record        *)
(* [id, dsr, regret, dir, ok]: dir names its residual series, and two      *)
(* series with different names are uncorrelated; FlatResidual is one without*)
(* variance.  The angle-penalised distance that orders a front depends on  *)
(* every candidate ranked, so any order of the candidates may come out of  *)
(* it: it is the parameter apd.                                            *)
(***************************************************************************)
EXTENDS Integers, FiniteSets, FiniteSetsExt, SequencesExt

CONSTANTS FlatResidual,         \* the residual series without variance
          MinDsr,       \* the viability threshold 0.50
          Noise,        \* tau_conf times the standard error of a DSR difference
          ArchiveSize   \* max_capacity of the archive

Viable(c) == c.ok /\ c.dsr >= MinDsr

\* compute_novelty: what the archive's basis does not explain, for viable
\* candidates with a series that varies.
Novelty(c, archive) ==
    IF ~Viable(c) THEN 0
    ELSE IF archive = <<>> THEN 1
    ELSE IF c.dir = FlatResidual \/ c.dir \in Range(archive) THEN 0 ELSE 1

\* admit, for the members of a front in their order: the oldest is evicted.
Admit(archive, dir) ==
    IF dir = FlatResidual THEN archive
    ELSE Append(IF Len(archive) >= ArchiveSize THEN Tail(archive) ELSE archive, dir)

\* compute_dependent_dsr_variance: identical series leave no uncertainty.
Tolerance(a, b) == IF a.dir = b.dir /\ a.dir # FlatResidual THEN 0 ELSE Noise

\* dominates; an objective vector is [dsr, regret, novelty] with nov = novelty.
Dominates(a, b, novA, novB) ==
    /\ a.ok
    /\ b.ok =>
         /\ a.regret <= b.regret /\ novA >= novB
         /\ a.dsr >= b.dsr - Tolerance(a, b)
         /\ \/ a.dsr > b.dsr + Tolerance(a, b)
            \/ a.regret < b.regret
            \/ novA > novB

\* The fronts that hold no dominator of candidate i.
Placed(cands, nov, fronts, i) ==
    {k \in DOMAIN fronts : \A m \in Range(fronts[k]) :
        ~Dominates(cands[m], cands[i], nov[m], nov[i])}

\* sort: the viable candidates by falling DSR (stable), each into the first
\* front that holds no dominator of it.
Indices(cands) == [i \in DOMAIN cands |-> i]
ByDsr(cands) ==
    SortSeq(SelectSeq(Indices(cands), LAMBDA i : Viable(cands[i])),
            LAMBDA i, j : \/ cands[i].dsr > cands[j].dsr
                          \/ cands[i].dsr = cands[j].dsr /\ i < j)

Fronts(cands, nov) ==
    FoldLeft(LAMBDA fronts, i :
                 LET open == Placed(cands, nov, fronts, i)
                 IN  IF open = {} THEN Append(fronts, <<i>>)
                     ELSE [fronts EXCEPT ![Min(open)] = Append(@, i)],
             <<>>, ByDsr(cands))

Novelties(cands, archive) == [i \in DOMAIN cands |-> Novelty(cands[i], archive)]

\* rank_population: fronts of ids, each in the order of the penalised distance.
Ranking(cands, archive, apd) ==
    LET fronts == Fronts(cands, Novelties(cands, archive))
        ids(seq) == [n \in DOMAIN seq |-> cands[seq[n]].id]
    IN  [fronts |-> [k \in DOMAIN fronts |->
                        ids(SortSeq(fronts[k], LAMBDA i, j : apd[i] < apd[j]))],
         rest   |-> ids(SelectSeq(Indices(cands), LAMBDA i : ~Viable(cands[i])))]

\* auto_admit: the first front enters the archive.
AfterAdmit(cands, archive, ranking) ==
    IF ranking.fronts = <<>> THEN archive
    ELSE FoldLeft(LAMBDA a, id : Admit(a, (CHOOSE c \in Range(cands) : c.id = id).dir),
                  archive, ranking.fronts[1])
=============================================================================
