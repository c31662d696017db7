------------------------- MODULE MarketplaceMatching -------------------------
(***************************************************************************)
(* The pure functions of backend-api's matching engine: the filter on hard *)
(* constraints, the attribute score, cosine similarity, the newest vector  *)
(* of each owner and space, and weighted reciprocal rank fusion.           *)
(*                                                                         *)
(* A pair stands for an (attribute_key, attribute_value).  The ids of      *)
(* solutions are numbers, ordered as the strings of the code are.  Scores  *)
(* are exact fractions where the code has floats: with at most two signals *)
(* the sums of floats have the same ties.                                  *)
(***************************************************************************)
EXTENDS Integers, Sequences, FiniteSets, FiniteSetsExt, SequencesExt

CONSTANT RrfK  \* DEFAULT_RRF_K, a natural number

ZeroScore == [num |-> 0, den |-> 1]

Higher(a, b) == a.num * b.den > b.num * a.den

----------------------------------------------------------------------------
(* Structured attributes *)

SatisfiesHardConstraints(attributes, requirements) ==
  \A i \in DOMAIN requirements :
    requirements[i].is_hard_constraint => requirements[i].pair \in attributes

\* candidates: the attributes of each candidate solution.
FilterHardConstraints(candidates, requirements) ==
  {s \in DOMAIN candidates : SatisfiesHardConstraints(candidates[s], requirements)}

Matched(attributes, requirements) ==
  {i \in DOMAIN requirements : requirements[i].pair \in attributes}

Weight(requirements, I) == SumFunction([i \in I |-> requirements[i].weight])

ScoreAttributeMatch(attributes, requirements) ==
  LET total == Weight(requirements, DOMAIN requirements)
  IN  IF total <= 0 THEN ZeroScore
      ELSE [num |-> Weight(requirements, Matched(attributes, requirements)), den |-> total]

\* The survivors, best first; the earlier created one first among equals, and
\* either of two created at one moment.
RankAttributeMatches(candidates, created_at, requirements) ==
  LET survivors == FilterHardConstraints(candidates, requirements)
      Score(s) == ScoreAttributeMatch(candidates[s], requirements)
      Better(s, t) == \/ Higher(Score(s), Score(t))
                      \/ ~Higher(Score(t), Score(s)) /\ created_at[s] < created_at[t]
  IN  CHOOSE order \in [1 .. Cardinality(survivors) -> survivors] :
        /\ Range(order) = survivors
        /\ \A i, j \in DOMAIN order : i < j => ~Better(order[j], order[i])

----------------------------------------------------------------------------
(* Embeddings *)

Dot(a, b) == SumFunction([i \in DOMAIN a |-> a[i] * b[i]])

\* The square of the cosine with the cosine's sign, which orders vectors as the
\* cosine does and needs no root.
CosineSimilarity(a, b) ==
  IF Len(a) # Len(b) \/ Dot(a, a) <= 0 \/ Dot(b, b) <= 0 THEN ZeroScore
  ELSE [num |-> Dot(a, b) * (IF Dot(a, b) < 0 THEN -Dot(a, b) ELSE Dot(a, b)),
        den |-> Dot(a, a) * Dot(b, b)]

KeyOf(row) == <<row.owner_id, row.embedding_space>>

Newest(rows, key) ==
  {r \in rows : KeyOf(r) = key
                  /\ \A q \in rows : KeyOf(q) = key => q.generated_at <= r.generated_at}

\* Every result that the order in which the rows are fetched may lead to: rows of
\* one moment are tied.
MostRecentVectors(rows) ==
  {v \in [{KeyOf(r) : r \in rows} -> {r.vector : r \in rows}] :
     \A key \in DOMAIN v : \E r \in Newest(rows, key) : v[key] = r.vector}

----------------------------------------------------------------------------
(* Rank fusion *)

\* The solutions that have a score, sorted by it, the lower id first among equals,
\* and numbered from one.
RankSignal(scores) ==
  CHOOSE rank \in [DOMAIN scores -> 1 .. Cardinality(DOMAIN scores)] :
    \A s, t \in DOMAIN scores :
      Higher(scores[s], scores[t]) \/ (~Higher(scores[t], scores[s]) /\ s < t)
        => rank[s] < rank[t]

\* Equal weights, in units of one over the number of signals.
DefaultSignalWeights(signals) == [g \in signals |-> 1]

WithSignal(signal_scores, g) == {s \in DOMAIN signal_scores : g \in DOMAIN signal_scores[s]}

ProductOf(f) == FoldFunction(LAMBDA x, y : x * y, 1, f)

\* signal_scores: for each solution its score on each signal it has.  The fused
\* score is in units of 1 / (number of signals * product of all k + rank).
FuseRrf(signal_scores, weights) ==
  LET Signals(s) == DOMAIN signal_scores[s]
      ranks == [g \in UNION {Signals(s) : s \in DOMAIN signal_scores} |->
                 RankSignal([s \in WithSignal(signal_scores, g) |-> signal_scores[s][g]])]
      unit == ProductOf([r \in 1 .. Cardinality(DOMAIN signal_scores) |-> RrfK + r])
      Share(s, g) == IF g \in DOMAIN weights
                     THEN weights[g] * (unit \div (RrfK + ranks[g][s])) ELSE 0
      fused == [s \in DOMAIN signal_scores |->
                 SumFunction([g \in Signals(s) |-> Share(s, g)])]
      fused_rank == RankSignal([s \in DOMAIN signal_scores |-> [num |-> fused[s], den |-> 1]])
  IN  [s \in DOMAIN signal_scores |->
        [final_rrf_score |-> fused[s],
         rank            |-> fused_rank[s],
         signal_scores   |-> signal_scores[s],
         signal_ranks    |-> [g \in Signals(s) |-> ranks[g][s]]]]

=============================================================================
