----------------------------- MODULE Chromosomes -----------------------------
(***************************************************************************)
(* The strategy chromosome and its unit-vector codec (chromosomes.py), the *)
(* crossover of two vectors (hypergamic_selection.py) and their mutation   *)
(* (evolutionary_lifecycle.py).  One gene of each kind stands for the      *)
(* twenty of the registry: a continuous one on a grid of Span steps (linear*)
(* genes by value, logarithmic ones by logarithm), a discrete one (such as  *)
(* holding_period, counted from its lower bound) with Levels levels of     *)
(* GeneStep each, and the three regime logits, kept in 27th parts so that a*)
(* dictionary's centring and two decodings stay on the grid.               *)
(***************************************************************************)
EXTENDS Integers, FiniteSets, SequencesExt

CONSTANTS Span,         \* grid steps between the bounds of the continuous gene
          Levels,       \* levels of the discrete gene
          GeneStep,     \* its step_size
          LogitBound,   \* the bound 2.0 of a logit, in 27ths
          Kicks,        \* clipped Cauchy displacements, in grid steps
          MaxDecodes    \* decodings followed: the grid is exact for two

ASSUME ChromosomeAssumption ==
    /\ Span \in Nat \ {0} /\ Levels \in Nat \ {0}
    /\ GeneStep \in Nat /\ GeneStep % 2 = 1   \* 1 and 5: nothing to round lies halfway
    /\ LogitBound \in Nat \ {0} /\ LogitBound % 54 = 0
    /\ Kicks \subseteq Int /\ MaxDecodes \in 0..2

VARIABLES genome, vector, coded, encodedFrom, touched, decodes

chromosomeVars == <<genome, vector, coded, encodedFrom, touched, decodes>>

\* Unit is the length of [0, 1] in the vectors: a whole number of grid steps,
\* of half levels and of logit parts.
UnitLength == 2 * Span * Levels * 2 * LogitBound
Clip(x, lo, hi) == IF x < lo THEN lo ELSE IF x > hi THEN hi ELSE x

Logits == {"bull", "bear", "panic"}
Mass(l) == l["bull"] + l["bear"] + l["panic"]
Longest == (Levels - 1) * GeneStep
Default == [cont |-> Span \div 2, period |-> 0,
            logit |-> [g \in Logits |-> IF g = "panic" THEN -27 ELSE 0]]

\* l - mean(l) clipped; every entry of l is a multiple of three.
Centred(l) == [g \in Logits |-> Clip(l[g] - (Mass(l) \div 3), -LogitBound, LogitBound)]

(***************************************************************************)
(* from_dict: a missing entry takes its default, a given one is clipped,   *)
(* which does not put a discrete gene on one of its levels;                *)
(* the logits come as three entries, or from a belief prior (their         *)
(* logarithms, centred), or are the default when the prior is unusable.    *)
(***************************************************************************)
FromDict(d) ==
    [cont  |-> IF "cont" \in DOMAIN d THEN Clip(d.cont, 0, Span) ELSE Default.cont,
     period |-> IF "period" \in DOMAIN d THEN Clip(d.period, 0, Longest) ELSE Default.period,
     logit |-> IF "logit" \in DOMAIN d
               THEN [g \in Logits |-> Clip(d.logit[g], -LogitBound, LogitBound)]
               ELSE IF "prior" \in DOMAIN d THEN Centred(d.prior) ELSE Default.logit]

\* encode: a discrete gene goes to the nearest level, and there to the middle
\* of the level's bin, so that floor finds it.
NearestLevel(x) == (2 * x + GeneStep) \div (2 * GeneStep)

Encode(c) ==
    [cont  |-> c.cont * (UnitLength \div Span),
     period |-> (2 * NearestLevel(c.period) + 1) * (UnitLength \div (2 * Levels)),
     logit |-> [g \in Logits |-> (c.logit[g] + LogitBound) * (UnitLength \div (2 * LogitBound))]]

\* decode rounds the continuous gene to the grid of the model only where a
\* displacement left it; a decoded level is clipped into its range.
DecodeLevel(u) == Clip((Clip(u, 0, UnitLength) * Levels) \div UnitLength, 0, Levels - 1)

(* A variant: the logits are not centred.                                  *)
DecodeLogitsRaw(u) ==
    [g \in Logits |-> (Clip(u[g], 0, UnitLength) \div (UnitLength \div (2 * LogitBound))) - LogitBound]

DecodeLogits(u) ==
    Centred([g \in Logits |->
                (Clip(u[g], 0, UnitLength) \div (UnitLength \div (2 * LogitBound))) - LogitBound])

Decode(u) ==
    [cont  |-> Clip(u.cont, 0, UnitLength) \div (UnitLength \div Span),
     period |-> DecodeLevel(u.period) * GeneStep,
     logit |-> DecodeLogits(u.logit)]

\* mutate_vector: one reflection at the violated bound, then a clip.
Reflected(x) == Clip(IF x < 0 THEN -x ELSE IF x > UnitLength THEN 2 * UnitLength - x ELSE x, 0, UnitLength)

\* cross_vectors: the simulated binary children of two coordinates lie
\* symmetrically around their mean, spread by beta (in halves here), and the
\* child takes either; the result is clipped.
Bred(a, b, beta, first) ==
    LET two == (a + b) + (IF first THEN 1 ELSE -1) * (((a - b) * beta) \div 2)
    IN  Clip(two \div 2, 0, UnitLength)

-----------------------------------------------------------------------------
ChromosomeInit ==
    /\ genome = Default /\ vector = Encode(Default)
    /\ encodedFrom = Default
    /\ coded = FALSE /\ touched = FALSE /\ decodes = 0

Priors == {[bull |-> 54, bear |-> 0, panic |-> -54],
           [bull |-> 27, bear |-> -27, panic |-> -27],
           [bull |-> 81, bear |-> 81, panic |-> -81]}
Dicts == {[cont |-> x, period |-> k, prior |-> p] :
              x \in {-1, 1, Span + 1}, k \in {-1, GeneStep + 2, Levels * GeneStep}, p \in Priors}
         \cup {[period |-> 1, logit |-> p] : p \in Priors}

LoadDict ==
    /\ ~coded /\ decodes = 0
    /\ \E d \in Dicts : genome' = FromDict(d)
    /\ UNCHANGED <<vector, coded, encodedFrom, touched, decodes>>

EncodeGenome ==
    /\ ~coded /\ decodes < MaxDecodes
    /\ vector' = Encode(genome) /\ encodedFrom' = genome
    /\ coded' = TRUE /\ touched' = FALSE
    /\ UNCHANGED <<genome, decodes>>

\* A displacement of a gene, or of one logit, when the mask selects it.
MutateVector ==
    /\ coded /\ ~touched
    /\ \E k \in Kicks :
         \/ vector' = [vector EXCEPT !.cont = Reflected(@ + k * (UnitLength \div Span))]
         \/ vector' = [vector EXCEPT !.period = Reflected(@ + k * (UnitLength \div Span))]
         \/ \E g \in Logits :
              vector' = [vector EXCEPT !.logit[g] = Reflected(@ + k * (UnitLength \div 4))]
    /\ touched' = TRUE
    /\ UNCHANGED <<genome, coded, encodedFrom, decodes>>

\* Crossover with the default chromosome's vector, coordinate by coordinate.
CrossVectors ==
    /\ coded /\ ~touched
    /\ \E beta \in 1..3, first \in BOOLEAN :
         LET o == Encode(Default) IN
         vector' = [vector EXCEPT !.cont = Bred(@, o.cont, beta, first),
                                  !.period = Bred(@, o.period, beta, ~first)]
    /\ touched' = TRUE
    /\ UNCHANGED <<genome, coded, encodedFrom, decodes>>

\* The vector is a local of the caller: it is gone after decode.
DecodeVector ==
    /\ coded
    /\ genome' = Decode(vector) /\ coded' = FALSE /\ decodes' = decodes + 1
    /\ vector' = Encode(Default)
    /\ UNCHANGED <<encodedFrom, touched>>

ChromosomeNext == LoadDict \/ EncodeGenome \/ MutateVector \/ CrossVectors \/ DecodeVector

ChromosomeSpec == ChromosomeInit /\ [][ChromosomeNext]_chromosomeVars

-----------------------------------------------------------------------------
(* Properties                                                              *)

(* Whatever was loaded, crossed and displaced, also by more than the whole *)
(* interval (cataclysmic_step_size has no upper bound), the vector stays in*)
(* the unit cube and every gene between its bounds.                        *)
GenesInBounds ==
    /\ vector.cont \in 0..UnitLength /\ vector.period \in 0..UnitLength
    /\ \A g \in Logits : vector.logit[g] \in 0..UnitLength
    /\ genome.cont \in 0..Span /\ genome.period \in 0..Longest
    /\ \A g \in Logits : genome.logit[g] \in -LogitBound..LogitBound

(* A chromosome coded and decoded unchanged is the same chromosome, up to  *)
(* the centring of its logits (none if they sum to zero) and to half a step*)
(* of a discrete gene: one loaded off its levels comes back at the nearest,*)
(* and never moves again.                                                  *)
RoundTripFaithful ==
    (~coded /\ decodes > 0) =>
        /\ genome.period % GeneStep = 0
        /\ ~touched =>
             /\ genome.cont = encodedFrom.cont
             /\ 2 * (genome.period - encodedFrom.period) \in -GeneStep..GeneStep
             /\ encodedFrom.period % GeneStep = 0 => genome.period = encodedFrom.period
             /\ Mass(encodedFrom.logit) = 0 => genome.logit = encodedFrom.logit

(* The regime priors lose their common offset: decoded logits sum to zero  *)
(* unless a bound cut one of them, and then the sum is what was cut off.   *)
LogitsCentredUnlessCut ==
    (~coded /\ decodes > 0) =>
        \/ Mass(genome.logit) = 0
        \/ \E g \in Logits : genome.logit[g] \in {-LogitBound, LogitBound}

(* Genomes stay in bounds through every operator and survive coding and    *)
(* decoding.                                                               *)
GenomesFaithful ==
  /\ GenesInBounds
  /\ RoundTripFaithful
  /\ LogitsCentredUnlessCut
=============================================================================
