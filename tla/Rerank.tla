------------------------------- MODULE Rerank -------------------------------
(***************************************************************************)
(* The choice of the wines to recommend among those the vector search      *)
(* found, nearest first: the nearest, then, until there are enough, the    *)
(* one whose nearness less half its redundancy with those chosen is best.  *)
(* Scores are floats in the code and fractions here; where two are equal   *)
(* rounding decides, and either wine may be taken.                         *)
(***************************************************************************)
EXTENDS Integers, FiniteSets, Sequences, SequencesExt

CONSTANTS
    Attributes,   \* producer, taste_tag, country, grape, region, category
    Weight,       \* of each, in quarters
    Values,       \* an attribute's values
    Unknown,      \* and its absence
    PoolSize,     \* candidates, at most
    Limit         \* wines wanted

ASSUME RerankAssumption ==
    /\ IsFiniteSet(Attributes) /\ Weight \in [Attributes -> Nat \ {0}]
    /\ Unknown \notin Values
    /\ PoolSize \in Nat /\ Limit \in Nat \ {0}

VARIABLES
    candidates,   \* the wines found, in the order of the search
    selected      \* the indexes chosen so far, in order

rerankVars == <<candidates, selected>>

Wine == [Attributes -> Values \union {Unknown}]
Found == Len(candidates)
Wanted == IF Found < Limit THEN Found ELSE Limit

RerankTypeOK ==
    /\ candidates \in Seq(Wine)
    /\ selected \in Seq(DOMAIN candidates)

RerankInit ==
    /\ \E n \in 0..PoolSize : candidates \in [1..n -> Wine]
    /\ selected = IF Found <= Limit THEN [i \in 1..Found |-> i] ELSE <<>>

-----------------------------------------------------------------------------
(* Weights are added by counting their quarters. *)
Quarters(A) == UNION {{a} \X (1..Weight[a]) : a \in A}
Total(A) == Cardinality(Quarters(A))
Comparable(i, k) ==
    {a \in Attributes : candidates[i][a] # Unknown /\ candidates[k][a] # Unknown}
Common(i, k) == {a \in Comparable(i, k) : candidates[i][a] = candidates[k][a]}

(* How much of what is known of both is the same: a fraction. *)
Overlap(i, k) == [num |-> Total(Common(i, k)),
                  den |-> IF Comparable(i, k) = {} THEN 1 ELSE Total(Comparable(i, k))]

Leq(p, q) == p.num * q.den <= q.num * p.den

(* The greatest of a set of fractions. *)
Worst(overlaps) == CHOOSE p \in overlaps : \A q \in overlaps : Leq(q, p)

Similar(i, k) == 10 * Overlap(i, k).num > 3 * Overlap(i, k).den

(* The greatest overlap, and a fifth more of it for each similar wine chosen. *)
(* Mutant: no more than the greatest overlap. *)
Unboosted(p, similar) == p
Boosted(p, similar) == [num |-> p.num * (5 + similar), den |-> p.den * 5]

RedundancyPenalty(i, S) ==
    IF S = {} THEN [num |-> 0, den |-> 1]
    ELSE Boosted(Worst({Overlap(i, k) : k \in S}), Cardinality({k \in S : Similar(i, k)}))

(* 1 - position/n - penalty/2, positions counted from zero. *)
(* Mutant: the nearness is forgotten after the first. *)
ScoreDiverse(i, S) ==
    LET p == RedundancyPenalty(i, S) IN [num |-> 0 - p.num, den |-> p.den]
Score(i, S) ==
    LET p == RedundancyPenalty(i, S)
    IN  [num |-> 2 * p.den * (Found - (i - 1)) - p.num * Found,
         den |-> 2 * p.den * Found]

Chosen == ToSet(selected)
Remaining == DOMAIN candidates \ Chosen

Best(i) == IF selected = <<>> THEN i = 1
           ELSE \A k \in Remaining : Leq(Score(k, Chosen), Score(i, Chosen))

Select ==
    /\ Len(selected) < Wanted
    /\ \E i \in Remaining : Best(i) /\ selected' = Append(selected, i)
    /\ UNCHANGED candidates

RerankNext == Select
RerankSpec == RerankInit /\ [][RerankNext]_rerankVars

-----------------------------------------------------------------------------
(* A wine of which the same is known as of another is never preferred to it   *)
(* when the search put it after.                                              *)
NoWorseTwin ==
    \A i \in Chosen, k \in Remaining : candidates[i] = candidates[k] => i < k

(* "each additional similar wine makes the next one less desirable": the      *)
(* penalty of those left never falls, and grows with each similar wine.       *)
PenaltyAccumulates ==
    [][selected # <<>> =>
         LET new == selected'[Len(selected')]
             before(i) == RedundancyPenalty(i, Chosen)
             after(i) == RedundancyPenalty(i, Chosen')
         IN  \A i \in DOMAIN candidates \ Chosen' :
                /\ Leq(before(i), after(i))
                /\ Similar(i, new) => ~Leq(after(i), before(i))
      ]_rerankVars
=============================================================================
