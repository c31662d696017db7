----------------------------- MODULE MatchingJob -----------------------------
(***************************************************************************)
(* One matching job of ai-coordinator-worker for one RFP, statement by     *)
(* statement, beside the members of organizations who go on editing what   *)
(* it reads: requirements, solutions, attributes and embeddings.  No       *)
(* endpoint deletes or changes such a row.  The worker has its own copies  *)
(* of the pure functions of MarketplaceMatching, which work on rows.       *)
(*                                                                         *)
(* Every statement sees what is committed by then, so the rows of one job  *)
(* may come from different moments.  Queue, several jobs and faults are in *)
(* MatchRuns; who may edit and read is in Marketplace and Listings.        *)
(***************************************************************************)
EXTENDS Integers, Sequences, FiniteSets, FiniteSetsExt, SequencesExt

CONSTANTS
  RrfK,
  Rfp,           \* the owner id of the RFP in the embeddings
  SolutionIds,
  Pairs,         \* values of (attribute_key, attribute_value) in use
  RequirementRows, EmbeddingRows,  \* the rows that may be inserted
  CreatedAt,     \* when each solution is created
  FetchCap,      \* _MATCHING_CANDIDATE_FETCH_CAP of backend-api; the worker has none
  Catalogs,      \* what the tables may hold when the run is asked for
  MaxEdits       \* bound of the edits while the run is under way

Requirement == [pair : Pairs, weight : Nat, is_hard_constraint : BOOLEAN]

SolutionStatus == {"draft", "published"}

EmbeddingVector == [owner_id : SolutionIds \cup {Rfp}, embedding_space : STRING,
                    vector : Seq(Int), generated_at : Nat]

ASSUME MatchingJobAssumption ==
  /\ RrfK \in Nat /\ MaxEdits \in Nat /\ FetchCap \in Nat
  /\ SolutionIds \subseteq Nat /\ IsFiniteSet(SolutionIds) /\ Rfp \notin SolutionIds
  /\ RequirementRows \subseteq Requirement
  /\ EmbeddingRows \subseteq EmbeddingVector
  /\ Catalogs \subseteq [requirements : Seq(Requirement),
                         status : [SolutionIds -> SolutionStatus \cup {"absent"}],
                         attributes : [SolutionIds -> SUBSET Pairs],
                         embeddings : SUBSET EmbeddingRows]
  /\ \A c \in Catalogs : IsFiniteSet(c.embeddings)
  /\ CreatedAt \in [SolutionIds -> Nat]

VARIABLES
  requirements,  \* rfp_requirements of the RFP, in the order of insertion
  status,        \* the status of each solution row
  attributes,    \* the solution_attributes of each solution
  embeddings,    \* embedding_vectors
  job,           \* what the job is doing, with what it has fetched
  matches,       \* the solution_matches of the run
  asked,         \* history: the tables when the run was asked for
  edits          \* how many edits were made since

tables == <<requirements, status, attributes, embeddings>>
vars == <<tables, job, matches, asked, edits>>

Catalog == [requirements |-> requirements, status |-> status,
            attributes |-> attributes, embeddings |-> embeddings]

Init ==
  /\ asked \in Catalogs
  /\ requirements = asked.requirements
  /\ status = asked.status
  /\ attributes = asked.attributes
  /\ embeddings = asked.embeddings
  /\ job = [step |-> "fetch_requirements"]
  /\ matches = <<>>
  /\ edits = 0

----------------------------------------------------------------------------
(* Edits of members, and of whoever embeds and publishes *)

Running == job.step \notin {"completed", "failed"}

Edit ==
  /\ Running
  /\ edits < MaxEdits
  /\ edits' = edits + 1
  /\ UNCHANGED <<job, matches, asked>>

\* add_rfp_requirement
AddRequirement ==
  /\ Edit
  /\ \E row \in RequirementRows : requirements' = Append(requirements, row)
  /\ UNCHANGED <<status, attributes, embeddings>>

\* create_solution: a draft without attributes.
AddSolution(s) ==
  /\ Edit
  /\ status[s] = "absent"
  /\ status' = [status EXCEPT ![s] = "draft"]
  /\ UNCHANGED <<requirements, attributes, embeddings>>

\* No endpoint publishes a solution: this is done in the database.
PublishSolution(s) ==
  /\ Edit
  /\ status[s] = "draft"
  /\ status' = [status EXCEPT ![s] = "published"]
  /\ UNCHANGED <<requirements, attributes, embeddings>>

\* add_solution_attribute; a second row with the same pair makes no difference.
AddAttribute(s, p) ==
  /\ Edit
  /\ status[s] # "absent"
  /\ attributes' = [attributes EXCEPT ![s] = @ \cup {p}]
  /\ UNCHANGED <<requirements, status, embeddings>>

\* generate_and_store_embedding inserts a row, never changes one, and does not
\* look up the owner.
StoreEmbedding ==
  /\ Edit
  /\ \E row \in EmbeddingRows : embeddings' = embeddings \cup {row}
  /\ UNCHANGED <<requirements, status, attributes>>

----------------------------------------------------------------------------
(* The worker's copies of the pure functions *)

HardRequirements(rows) == {i \in DOMAIN rows : rows[i].is_hard_constraint}

\* One hard requirement is enough.
BadSatisfies(attrs, rows) ==
  HardRequirements(rows) = {} \/ \E i \in HardRequirements(rows) : rows[i].pair \in attrs
Satisfies(attrs, rows) ==
  HardRequirements(rows) = {} \/ \A i \in HardRequirements(rows) : rows[i].pair \in attrs

\* A solution that matches no requirement at all is dropped too.
BadSurvivors(candidates, rows) ==
  {s \in DOMAIN candidates : /\ Satisfies(candidates[s], rows)
                             /\ \E i \in DOMAIN rows : rows[i].pair \in candidates[s]}
Survivors(candidates, rows) ==
  {s \in DOMAIN candidates : Satisfies(candidates[s], rows)}

TotalWeight(rows, I) == SumFunction([i \in I |-> rows[i].weight])

AttributeScore(attrs, rows) ==
  LET total == TotalWeight(rows, DOMAIN rows)
  IN  IF total <= 0 THEN [num |-> 0, den |-> 1]
      ELSE [num |-> TotalWeight(rows, {i \in DOMAIN rows : rows[i].pair \in attrs}),
            den |-> total]

Product(a, b) == SumFunction([i \in DOMAIN a |-> a[i] * b[i]])

Cosine(a, b) ==
  LET dot == Product(a, b)
  IN  IF Len(a) # Len(b) \/ Product(a, a) <= 0 \/ Product(b, b) <= 0
      THEN [num |-> 0, den |-> 1]
      ELSE [num |-> IF dot < 0 THEN -dot * dot ELSE dot * dot,
            den |-> Product(a, a) * Product(b, b)]

\* The oldest row of each owner and space is kept.
BadNewer(row, kept) == row.generated_at < kept.generated_at
Newer(row, kept) == row.generated_at > kept.generated_at

KeyOf(row) == <<row.owner_id, row.embedding_space>>

\* Of each owner and space the row that no other one is newer than; of rows of one
\* moment the one that the query returns first, which is any of them.
MostRecent(rows) ==
  {v \in [{KeyOf(r) : r \in rows} -> rows] :
     \A key \in DOMAIN v : /\ KeyOf(v[key]) = key
                           /\ ~\E q \in rows : KeyOf(q) = key /\ Newer(q, v[key])}

Before(a, b) == a.num * b.den > b.num * a.den

\* Which solution sorts before which: by score, the lower id first among equals.
Order(scores) ==
  {p \in (DOMAIN scores) \X (DOMAIN scores) :
     \/ Before(scores[p[1]], scores[p[2]])
     \/ ~Before(scores[p[2]], scores[p[1]]) /\ p[1] < p[2]}

\* The place of each solution in that order.
SignalRank(scores) ==
  LET order == Order(scores)
  IN  [s \in DOMAIN scores |-> Cardinality({t \in DOMAIN scores : <<t, s>> \in order}) + 1]

Ranks(scores) ==
  [g \in UNION {DOMAIN scores[s] : s \in DOMAIN scores} |->
    SignalRank([s \in {t \in DOMAIN scores : g \in DOMAIN scores[t]} |-> scores[s][g]])]

ProductOf(f) == FoldFunction(LAMBDA x, y : x * y, 1, f)

\* A rank counts by itself, the last rank most.
BadReciprocal(rank, n) == rank
\* 1 / (k + rank), in units of one over the product of k + r for all n ranks r.
Reciprocal(rank, n) == ProductOf([r \in (1 .. n) \ {rank} |-> RrfK + r])

Fused(scores) ==
  LET ranks == Ranks(scores)
      n == Cardinality(DOMAIN scores)
      total == [s \in DOMAIN scores |->
                 SumFunction([g \in DOMAIN scores[s] |-> Reciprocal(ranks[g][s], n)])]
      order == SignalRank([s \in DOMAIN scores |-> [num |-> total[s], den |-> 1]])
  IN  [s \in DOMAIN scores |->
        [final_rrf_score |-> total[s], rank |-> order[s], signal_scores |-> scores[s],
         signal_ranks |-> [g \in DOMAIN scores[s] |-> ranks[g][s]]]]

----------------------------------------------------------------------------
(* run_matching_job *)

At(step) == job.step = step

FetchRequirements ==
  /\ At("fetch_requirements")
  /\ job' = [step |-> "fetch_solutions", requirements |-> requirements]
  /\ UNCHANGED <<tables, matches, asked, edits>>

Published == {s \in SolutionIds : status[s] = "published"}

FetchSolutions ==
  /\ At("fetch_solutions")
  /\ job' = [step |-> "fetch_attributes", requirements |-> job.requirements,
             solutions |-> Published]
  /\ UNCHANGED <<tables, matches, asked, edits>>

\* All attribute rows, then the filter.
FetchAttributes ==
  /\ At("fetch_attributes")
  /\ LET candidates == [s \in job.solutions |-> attributes[s]]
     IN  job' = [step |-> "fetch_embeddings", requirements |-> job.requirements,
                 attributes |-> candidates,
                 survivors |-> Survivors(candidates, job.requirements)]
  /\ UNCHANGED <<tables, matches, asked, edits>>

\* The attribute score of every survivor, and a similarity in each space in which
\* both it and the RFP have a vector; in a space of that very name it replaces the
\* attribute score.
SignalScores(vectors) ==
  LET spaces == {key[2] : key \in {k \in DOMAIN vectors : k[1] = Rfp}}
  IN  [s \in job.survivors |->
        [g \in {"attribute_match"} \cup {sp \in spaces : <<s, sp>> \in DOMAIN vectors} |->
          IF g \in spaces /\ <<s, g>> \in DOMAIN vectors
          THEN Cosine(vectors[<<Rfp, g>>].vector, vectors[<<s, g>>].vector)
          ELSE AttributeScore(job.attributes[s], job.requirements)]]

\* The rows of the RFP and of the survivors.
FetchEmbeddings ==
  /\ At("fetch_embeddings")
  /\ \E vectors \in MostRecent({e \in embeddings : e.owner_id \in {Rfp} \cup job.survivors}) :
       job' = [step |-> "store", scores |-> SignalScores(vectors)]
  /\ UNCHANGED <<tables, matches, asked, edits>>

StoreMatches ==
  /\ At("store")
  /\ matches' = Fused(job.scores)
  /\ job' = [step |-> "completed"]
  /\ UNCHANGED <<tables, asked, edits>>

\* An exception anywhere: nothing is stored.
FailRun ==
  /\ Running
  /\ job' = [step |-> "failed"]
  /\ UNCHANGED <<tables, matches, asked, edits>>

----------------------------------------------------------------------------

Next ==
  \/ AddRequirement
  \/ StoreEmbedding
  \/ \E s \in SolutionIds :
       \/ AddSolution(s)
       \/ PublishSolution(s)
       \/ \E p \in Pairs : AddAttribute(s, p)
  \/ FetchRequirements
  \/ FetchSolutions
  \/ FetchAttributes
  \/ FetchEmbeddings
  \/ StoreMatches
  \/ FailRun

Spec == Init /\ [][Next]_vars

----------------------------------------------------------------------------
(* Properties *)

Backend == INSTANCE MarketplaceMatching

Candidates == [s \in Published |-> attributes[s]]

\* The solutions that GET .../attribute-matches may fetch to rank: the newest
\* published ones up to the cap, whichever of those created at one moment.
CandidateFetches ==
  {F \in SUBSET Published :
     /\ Cardinality(F) = Min({FetchCap, Cardinality(Published)})
     /\ \A s \in F, t \in Published \ F : CreatedAt[t] <= CreatedAt[s]}

\* What it answers after fetching F: backend-api ranks them itself, by their
\* attributes alone.
AttributeMatches(F) ==
  Backend!RankAttributeMatches([s \in F |-> Candidates[s]], CreatedAt, requirements)

BackendAttributeScore(s) == Backend!ScoreAttributeMatch(Candidates[s], requirements)

\* The scores on every signal that backend-api's functions give the vectors v.
BackendScores(v) ==
  LET Spaces(s) == {g \in {k[2] : k \in DOMAIN v} :
                     <<Rfp, g>> \in DOMAIN v /\ <<s, g>> \in DOMAIN v}
  IN  [s \in Backend!FilterHardConstraints(Candidates, requirements) |->
        [g \in {"attribute_match"} \cup Spaces(s) |->
          IF g \in Spaces(s) THEN Backend!CosineSimilarity(v[<<Rfp, g>>], v[<<s, g>>])
          ELSE BackendAttributeScore(s)]]

\* Rows fetched at different moments never let in an unfit solution: whatever is
\* edited meanwhile, every stored match is published and has each hard requirement
\* that the RFP had when the run was asked for.
ShortlistSound ==
  \A s \in DOMAIN matches :
    /\ status[s] = "published"
    /\ Backend!SatisfiesHardConstraints(attributes[s], asked.requirements)

\* Nor do they lose a fit one: a solution that was published by the request, with
\* every hard requirement the RFP has even now, is among the stored matches.
ShortlistComplete ==
  At("completed") =>
    {s \in SolutionIds : /\ asked.status[s] = "published"
                         /\ Backend!SatisfiesHardConstraints(asked.attributes[s], requirements)}
      \subseteq DOMAIN matches

\* The two implementations agree: on tables at rest the worker stores what
\* backend-api's functions make of them, with the newest vectors.  Of what it stored
\* GET .../attribute-matches shows just the solutions that are among the newest
\* FetchCap published ones, all of it if there are no more than that; in the worker's
\* order, too, where no embedding takes part and the attribute scores differ.
SameAsBackend ==
  At("completed") /\ edits = 0 =>
    LET weights == Backend!DefaultSignalWeights(
                     {"attribute_match"} \cup {e.embedding_space : e \in embeddings})
    IN  /\ \E v \in Backend!MostRecentVectors(embeddings) :
             matches = Backend!FuseRrf(BackendScores(v), weights)
        /\ \A F \in CandidateFetches :
             LET shown == AttributeMatches(F)
             IN  /\ ToSet(shown) = F \cap DOMAIN matches
                 /\ embeddings = {} => \A i, j \in DOMAIN shown :
                      i < j /\ BackendAttributeScore(shown[i]) # BackendAttributeScore(shown[j])
                        => matches[shown[i]].rank < matches[shown[j]].rank

\* s has every signal that t has, and sorts before t on each of them.
Dominates(s, t) ==
  LET S == matches[s].signal_scores
      U == matches[t].signal_scores
  IN  /\ DOMAIN U \subseteq DOMAIN S
      /\ \A g \in DOMAIN U : \/ Backend!Higher(S[g], U[g])
                             \/ ~Backend!Higher(U[g], S[g]) /\ s < t

\* s has more signals than t, and the matches are few against k.
Outnumbers(s, t) ==
  LET m == Cardinality(DOMAIN matches[t].signal_scores)
  IN  /\ m < Cardinality(DOMAIN matches[s].signal_scores)
      /\ m * (Cardinality(DOMAIN matches) - 1) <= RrfK

\* Fusion respects the signals: a solution ranks ahead of what it dominates.  And,
\* as long as the matches are few against k, a signal more outweighs any scores: the
\* last rank on it counts, and leaving a solution out of it is no help.
SignalsRankAhead ==
  \A s, t \in DOMAIN matches :
    Dominates(s, t) \/ Outnumbers(s, t) => matches[s].rank < matches[t].rank

=============================================================================
