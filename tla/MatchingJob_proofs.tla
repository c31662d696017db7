------------------------- MODULE MatchingJob_proofs -------------------------
(***************************************************************************)
(* Theorems about one matching job, for any tables, solutions, embeddings  *)
(* and number of edits meanwhile: whom it shortlists, how fusion ranks the *)
(* shortlist, and that backend-api's functions rank it the same.           *)
(***************************************************************************)
EXTENDS MatchingJob, FiniteSetTheorems, WellFoundedInduction, TLAPS

Sat(attrs, rows) == Backend!SatisfiesHardConstraints(attrs, rows)

\* The rows of a come first in b.
Extends(a, b) == DOMAIN a \subseteq DOMAIN b /\ \A i \in DOMAIN a : a[i] = b[i]

\* The worker's filter is backend-api's.
LEMMA SameFilter ==
  ASSUME NEW attrs, NEW rows
  PROVE  Satisfies(attrs, rows) <=> Sat(attrs, rows)
BY DEF Satisfies, HardRequirements, Sat, Backend!SatisfiesHardConstraints

\* More attributes and fewer requirements are easier to satisfy.
LEMMA SatMonotone ==
  ASSUME NEW attrs, NEW more, attrs \subseteq more,
         NEW rows, NEW fewer, Extends(fewer, rows), Sat(attrs, rows)
  PROVE  Sat(more, fewer)
BY DEF Sat, Extends, Backend!SatisfiesHardConstraints

\* Fusion ranks the solutions that have scores, neither more nor less.
LEMMA FusedDomain == ASSUME NEW scores PROVE DOMAIN Fused(scores) = DOMAIN scores
BY DEF Fused

\* The tables only grow.
TablesInv ==
  /\ requirements \in Seq(Requirement)
  /\ status \in [SolutionIds -> SolutionStatus \cup {"absent"}]
  /\ attributes \in [SolutionIds -> SUBSET Pairs]
  /\ Extends(asked.requirements, requirements)
  /\ \A s \in SolutionIds : asked.status[s] = "published" => status[s] = "published"
  /\ \A s \in SolutionIds : asked.attributes[s] \subseteq attributes[s]

\* Only fit solutions, and all of them, as ShortlistSound and ShortlistComplete say.
Fit(S) ==
  /\ S \subseteq SolutionIds
  /\ \A s \in S : status[s] = "published" /\ Sat(attributes[s], asked.requirements)
  /\ \A s \in SolutionIds :
       asked.status[s] = "published" /\ Sat(asked.attributes[s], requirements) => s \in S

\* What the job has fetched lies between the tables when it was asked for and now.
JobInv ==
  /\ At("fetch_solutions") \/ At("fetch_attributes") =>
       /\ Extends(asked.requirements, job.requirements)
       /\ Extends(job.requirements, requirements)
  /\ At("fetch_attributes") =>
       /\ job.solutions \subseteq Published
       /\ \A s \in SolutionIds : asked.status[s] = "published" => s \in job.solutions
  /\ At("fetch_embeddings") => Fit(job.survivors)
  /\ At("store") => Fit(DOMAIN job.scores)
  /\ At("completed") => Fit(DOMAIN matches)
  /\ ~At("completed") => matches = <<>>

ShortlistInv == TablesInv /\ JobInv

\* ShortlistInv holds initially.
LEMMA InitShortlist == Init => ShortlistInv
<1> SUFFICES ASSUME Init PROVE ShortlistInv
  OBVIOUS
<1>1. TablesInv
  BY MatchingJobAssumption DEF Init, TablesInv, Extends
<1>2. JobInv
  BY DEF Init, JobInv, At
<1> QED BY <1>1, <1>2 DEF ShortlistInv

\* An edit leaves what is extended by the tables extended by them, and what is fit fit.
LEMMA EditKeeps ==
  ASSUME ShortlistInv, UNCHANGED <<job, matches, asked>>, TablesInv',
         Extends(requirements, requirements'),
         \A s \in SolutionIds : status[s] = "published" => status'[s] = "published",
         \A s \in SolutionIds : attributes[s] \subseteq attributes'[s]
  PROVE  ShortlistInv'
<1>1. ASSUME NEW S, Fit(S) PROVE Fit(S)'
  <2>1. \A s \in S : Sat(attributes'[s], asked.requirements)
    <3> SUFFICES ASSUME NEW s \in S PROVE Sat(attributes'[s], asked.requirements)
      OBVIOUS
    <3>1. Sat(attributes[s], asked.requirements) /\ attributes[s] \subseteq attributes'[s]
      BY <1>1 DEF Fit
    <3>2. Extends(asked.requirements, asked.requirements)
      BY DEF Extends
    <3> QED BY <3>1, <3>2, SatMonotone
  <2>2. \A s \in SolutionIds : Sat(asked.attributes[s], requirements') => Sat(asked.attributes[s], requirements)
    BY SatMonotone
  <2> QED BY <1>1, <2>1, <2>2 DEF Fit
<1>2. ASSUME NEW a, Extends(a, requirements) PROVE Extends(a, requirements')
  BY <1>2 DEF Extends
<1>3. Published \subseteq Published'
  BY DEF Published
<1>4. JobInv'
  BY <1>1, <1>2, <1>3 DEF ShortlistInv, JobInv, At
<1> QED BY <1>4 DEF ShortlistInv

\* Every step keeps ShortlistInv.
LEMMA NextShortlist == ShortlistInv /\ [Next]_vars => ShortlistInv'
<1> SUFFICES ASSUME ShortlistInv, [Next]_vars PROVE ShortlistInv'
  OBVIOUS
<1>t. ASSUME UNCHANGED <<tables, asked>> PROVE TablesInv'
  BY <1>t DEF ShortlistInv, TablesInv, tables
<1>1. ASSUME AddRequirement PROVE ShortlistInv'
  <2>1. PICK row \in RequirementRows : requirements' = Append(requirements, row)
    BY <1>1 DEF AddRequirement
  <2>2. requirements' \in Seq(Requirement) /\ Extends(requirements, requirements')
    BY <2>1, MatchingJobAssumption DEF ShortlistInv, TablesInv, Extends
  <2>3. UNCHANGED <<status, attributes, job, matches, asked>>
    BY <1>1 DEF AddRequirement, Edit
  <2>4. TablesInv'
    BY <2>2, <2>3 DEF ShortlistInv, TablesInv, Extends
  <2> QED BY <2>2, <2>3, <2>4, EditKeeps
<1>2. ASSUME NEW s \in SolutionIds, AddSolution(s) \/ PublishSolution(s) PROVE ShortlistInv'
  <2>1. UNCHANGED <<requirements, attributes, job, matches, asked>>
    BY <1>2 DEF AddSolution, PublishSolution, Edit
  <2>2. \A z \in SolutionIds : status[z] = "published" => status'[z] = "published"
    BY <1>2 DEF AddSolution, PublishSolution, ShortlistInv, TablesInv
  <2>3. status' \in [SolutionIds -> SolutionStatus \cup {"absent"}]
    BY <1>2 DEF AddSolution, PublishSolution, ShortlistInv, TablesInv, SolutionStatus
  <2>4. TablesInv'
    BY <2>1, <2>2, <2>3 DEF ShortlistInv, TablesInv
  <2>5. Extends(requirements, requirements')
    BY <2>1 DEF Extends
  <2> QED BY <2>1, <2>2, <2>4, <2>5, EditKeeps
<1>3. ASSUME NEW s \in SolutionIds, NEW p \in Pairs, AddAttribute(s, p) PROVE ShortlistInv'
  <2>1. UNCHANGED <<requirements, status, job, matches, asked>>
    BY <1>3 DEF AddAttribute, Edit
  <2>2. /\ attributes' \in [SolutionIds -> SUBSET Pairs]
        /\ \A z \in SolutionIds : attributes[z] \subseteq attributes'[z]
    BY <1>3 DEF AddAttribute, ShortlistInv, TablesInv
  <2>3. TablesInv'
    BY <2>1, <2>2 DEF ShortlistInv, TablesInv
  <2>4. Extends(requirements, requirements')
    BY <2>1 DEF Extends
  <2> QED BY <2>1, <2>2, <2>3, <2>4, EditKeeps
<1>4. ASSUME StoreEmbedding \/ UNCHANGED vars PROVE ShortlistInv'
  BY <1>4 DEF StoreEmbedding, Edit, vars, tables, ShortlistInv, TablesInv, JobInv, At, Fit, Published
<1>5. ASSUME FetchRequirements PROVE ShortlistInv'
  <2>1. /\ job' = [step |-> "fetch_solutions", requirements |-> requirements]
        /\ UNCHANGED <<tables, matches, asked>> /\ At("fetch_requirements")
    BY <1>5 DEF FetchRequirements
  <2>2. job'.step = "fetch_solutions" /\ job'.requirements = requirements
    BY <2>1
  <2>3. requirements' = requirements /\ Extends(requirements, requirements)
    BY <2>1 DEF tables, Extends
  <2>4. matches' = <<>>
    BY <2>1 DEF ShortlistInv, JobInv, At
  <2> QED BY <1>t, <2>1, <2>2, <2>3, <2>4 DEF ShortlistInv, JobInv, At, TablesInv
<1>6. ASSUME FetchSolutions PROVE ShortlistInv'
  <2>1. /\ job' = [step |-> "fetch_attributes", requirements |-> job.requirements,
                   solutions |-> Published]
        /\ UNCHANGED <<tables, matches, asked>> /\ At("fetch_solutions")
    BY <1>6 DEF FetchSolutions
  <2>2. job'.step = "fetch_attributes" /\ job'.requirements = job.requirements
        /\ job'.solutions = Published
    BY <2>1
  <2>3. requirements' = requirements /\ Published' = Published
    BY <2>1 DEF tables, Published
  <2>4. matches' = <<>>
    BY <2>1 DEF ShortlistInv, JobInv, At
  <2>5. \A s \in SolutionIds : asked.status[s] = "published" => s \in Published
    BY DEF ShortlistInv, TablesInv, Published
  <2> QED BY <1>t, <2>1, <2>2, <2>3, <2>4, <2>5 DEF ShortlistInv, JobInv, At
<1>7. ASSUME FetchAttributes PROVE ShortlistInv'
  <2> DEFINE candidates == [s \in job.solutions |-> attributes[s]]
             S == Survivors(candidates, job.requirements)
  <2>1. /\ job'.step = "fetch_embeddings" /\ job'.survivors = S
        /\ UNCHANGED <<tables, matches, asked>> /\ At("fetch_attributes")
    BY <1>7 DEF FetchAttributes
  <2>2. S = {s \in job.solutions : Sat(attributes[s], job.requirements)}
    <3>1. DOMAIN candidates = job.solutions /\ \A s \in job.solutions : candidates[s] = attributes[s]
      OBVIOUS
    <3>2. S = {s \in DOMAIN candidates : Sat(candidates[s], job.requirements)}
      BY SameFilter DEF Survivors
    <3> QED BY <3>1, <3>2
  <2>3. /\ job.solutions \subseteq Published
        /\ Extends(asked.requirements, job.requirements)
        /\ Extends(job.requirements, requirements)
        /\ \A s \in SolutionIds : asked.status[s] = "published" => s \in job.solutions
    BY <2>1 DEF ShortlistInv, JobInv
  <2>4. \A s \in S : status[s] = "published" /\ Sat(attributes[s], asked.requirements)
    BY <2>2, <2>3, SatMonotone DEF Published
  <2>5. \A s \in SolutionIds : Sat(asked.attributes[s], requirements) => Sat(attributes[s], job.requirements)
    BY <2>3, SatMonotone DEF ShortlistInv, TablesInv
  <2>6. Fit(S)
    BY <2>2, <2>3, <2>4, <2>5 DEF Fit, Published
  <2>7. Fit(job.survivors)'
    <3> HIDE DEF S, candidates
    <3> QED BY <2>1, <2>6 DEF Fit, tables
  <2>8. matches' = <<>>
    BY <2>1 DEF ShortlistInv, JobInv, At
  <2> QED BY <1>t, <2>1, <2>7, <2>8 DEF ShortlistInv, JobInv, At
<1>8. ASSUME FetchEmbeddings PROVE ShortlistInv'
  <2>1. PICK vectors : job' = [step |-> "store", scores |-> SignalScores(vectors)]
    BY <1>8 DEF FetchEmbeddings
  <2>2. job'.step = "store" /\ job'.scores = SignalScores(vectors)
    BY <2>1
  <2>3. DOMAIN job'.scores = job.survivors
    BY <2>2 DEF SignalScores
  <2>4. UNCHANGED <<tables, matches, asked>> /\ At("fetch_embeddings")
    BY <1>8 DEF FetchEmbeddings
  <2>5. Fit(DOMAIN job.scores)'
    BY <2>3, <2>4 DEF ShortlistInv, JobInv, Fit, tables
  <2>6. matches' = <<>>
    BY <2>4 DEF ShortlistInv, JobInv, At
  <2> QED BY <1>t, <2>2, <2>4, <2>5, <2>6 DEF ShortlistInv, JobInv, At
<1>9. ASSUME StoreMatches PROVE ShortlistInv'
  <2>1. /\ job' = [step |-> "completed"] /\ matches' = Fused(job.scores)
        /\ UNCHANGED <<tables, asked>> /\ At("store")
    BY <1>9 DEF StoreMatches
  <2>2. DOMAIN matches' = DOMAIN job.scores
    BY <2>1, FusedDomain
  <2>3. Fit(DOMAIN matches)'
    BY <2>1, <2>2 DEF ShortlistInv, JobInv, Fit, tables
  <2> QED BY <1>t, <2>1, <2>3 DEF ShortlistInv, JobInv, At
<1>10. ASSUME FailRun PROVE ShortlistInv'
  <2>1. job' = [step |-> "failed"] /\ UNCHANGED <<tables, matches, asked>> /\ ~At("completed")
    BY <1>10 DEF FailRun, Running, At
  <2> QED BY <1>t, <2>1 DEF ShortlistInv, JobInv, At
<1> QED BY <1>1, <1>2, <1>3, <1>4, <1>5, <1>6, <1>7, <1>8, <1>9, <1>10 DEF Next

\* ShortlistInv is an invariant.
LEMMA ShortlistInvariant == Spec => []ShortlistInv
BY InitShortlist, NextShortlist, PTL DEF Spec

\* However the tables are edited while the job fetches them: every stored match is
\* published and has each hard requirement that the RFP had when the run was asked for.
THEOREM ShortlistIsSound == Spec => []ShortlistSound
<1>1. ShortlistInv => ShortlistSound
  <2> SUFFICES ASSUME ShortlistInv, NEW s \in DOMAIN matches
               PROVE  status[s] = "published" /\ Sat(attributes[s], asked.requirements)
    BY DEF ShortlistSound, Sat
  <2>1. CASE At("completed")
    BY <2>1 DEF ShortlistInv, JobInv, Fit
  <2>2. CASE ~At("completed")
    BY <2>2 DEF ShortlistInv, JobInv
  <2> QED BY <2>1, <2>2
<1> QED BY <1>1, ShortlistInvariant, PTL

\* Nor is a solution missed that was published by then and has every hard requirement
\* the RFP has even now.
THEOREM ShortlistIsComplete == Spec => []ShortlistComplete
<1>1. ShortlistInv => ShortlistComplete
  BY DEF ShortlistInv, JobInv, Fit, ShortlistComplete, Sat
<1> QED BY <1>1, ShortlistInvariant, PTL

----------------------------------------------------------------------------
(* Folds over finite sets, as FoldFunction takes them: one element after   *)
(* the other, whichever CHOOSE picks                                       *)

\* A nonempty set of numbers has a least element.
LEMMA Least ==
  ASSUME NEW S \in SUBSET Nat, S # {}
  PROVE  \E m \in S : \A x \in S : m <= x
<1> DEFINE less == {ss \in Nat \X Nat : ss[1] < ss[2]}
<1>1. IsWellFoundedOn(less, Nat)
  BY NatLessThanWellFounded DEF OpToRel
<1>2. PICK m \in S : \A x \in S : <<x, m>> \notin less
  <2> HIDE DEF less
  <2> QED BY <1>1, WFMin
<1>3. \A x \in S : m <= x
  <2> SUFFICES ASSUME NEW x \in S PROVE m <= x
    OBVIOUS
  <2>1. x \in Nat /\ m \in Nat /\ ~ (x < m)
    BY <1>2
  <2> QED BY <2>1
<1> QED BY <1>3

Plus == [p \in Int \X Int |-> p[1] + p[2]]
Times == [p \in Int \X Int |-> p[1] * p[2]]

\* What is folded does not depend on the order.
Commutes(op) ==
  /\ op \in [Int \X Int -> Int]
  /\ \A a, b, c \in Int : op[<<a, op[<<b, c>>]>>] = op[<<b, op[<<a, c>>]>>]

LEMMA PlusCommutes == Commutes(Plus)
BY DEF Commutes, Plus

LEMMA TimesCommutes == Commutes(Times)
<1>1. Times \in [Int \X Int -> Int]
  BY DEF Times
<1>2. ASSUME NEW a \in Int, NEW b \in Int, NEW c \in Int
      PROVE  Times[<<a, Times[<<b, c>>]>>] = Times[<<b, Times[<<a, c>>]>>]
  <2>1. b * c \in Int /\ a * c \in Int /\ a * (b * c) = b * (a * c)
    OBVIOUS
  <2>2. Times[<<b, c>>] = b * c /\ Times[<<a, c>>] = a * c
    BY DEF Times
  <2>3. Times[<<a, b * c>>] = a * (b * c) /\ Times[<<b, a * c>>] = b * (a * c)
    BY <2>1 DEF Times
  <2> QED BY <2>1, <2>2, <2>3
<1> QED BY <1>1, <1>2 DEF Commutes

\* What the fold of s is made of, given the folds of smaller sets.
FoldStep(op, e, f, it, s) ==
  IF s = {} THEN e ELSE op[<<f[CHOOSE x \in s : TRUE], it[s \ {CHOOSE x \in s : TRUE}]>>]

\* The folds of f over all subsets of S.
FoldsOf(op, e, f, S, it) ==
  it \in [SUBSET S -> Int] /\ \A s \in SUBSET S : it[s] = FoldStep(op, e, f, it, s)

\* Folds up to a size can be taken one element further.
LEMMA FoldsExist ==
  ASSUME NEW S, IsFiniteSet(S), NEW f \in [S -> Int], NEW op, Commutes(op), NEW e \in Int
  PROVE  \E it : FoldsOf(op, e, f, S, it)
<1> DEFINE Upto(n, g) == \A s \in SUBSET S : Cardinality(s) <= n => g[s] = FoldStep(op, e, f, g, s)
           Bad == {n \in Nat : ~ \E g \in [SUBSET S -> Int] : Upto(n, g)}
<1>1. \A s \in SUBSET S : IsFiniteSet(s) /\ Cardinality(s) \in Nat /\ Cardinality(s) <= Cardinality(S)
  BY FS_Subset, FS_CardinalityType
<1>2. Bad = {}
  <2> SUFFICES ASSUME Bad # {} PROVE FALSE
    OBVIOUS
  <2>1. PICK n \in Bad : \A m \in Bad : n <= m
    BY Least
  <2>2. CASE n = 0
    <3>1. PICK g : g = [s \in SUBSET S |-> e]
      OBVIOUS
    <3>2. g \in [SUBSET S -> Int]
      BY <3>1
    <3>3. \A s \in SUBSET S : Cardinality(s) <= 0 => s = {}
      BY <1>1, FS_EmptySet
    <3>4. Upto(0, g)
      BY <3>1, <3>3 DEF FoldStep
    <3> HIDE DEF Upto
    <3> QED BY <2>1, <2>2, <3>2, <3>4
  <2>3. CASE n # 0
    <3>1. n - 1 \in Nat /\ n - 1 \notin Bad
      <4> HIDE DEF Upto
      <4>1. n \in Nat
        OBVIOUS
      <4>2. n - 1 \in Bad => n <= n - 1
        BY <2>1
      <4> HIDE DEF Bad
      <4> QED BY <2>3, <4>1, <4>2
    <3>2. PICK g \in [SUBSET S -> Int] : Upto(n - 1, g)
      BY <3>1
    <3>3. PICK h : h = [s \in SUBSET S |-> FoldStep(op, e, f, g, s)]
      OBVIOUS
    <3>4. h \in [SUBSET S -> Int]
      <4> SUFFICES ASSUME NEW s \in SUBSET S PROVE FoldStep(op, e, f, g, s) \in Int
        BY <3>3
      <4>1. CASE s = {}
        BY <4>1 DEF FoldStep
      <4>2. CASE s # {}
        <5>1. PICK x : x = CHOOSE y \in s : TRUE
          OBVIOUS
        <5>2. x \in S /\ s \ {x} \in SUBSET S
          BY <4>2, <5>1
        <5> QED BY <4>2, <5>1, <5>2 DEF FoldStep, Commutes
      <4> QED BY <4>1, <4>2
    <3>5. ASSUME NEW s \in SUBSET S, Cardinality(s) <= n PROVE h[s] = FoldStep(op, e, f, h, s)
      <4>1. CASE s = {}
        BY <3>3, <4>1 DEF FoldStep
      <4>2. CASE s # {}
        <5>1. PICK x : x = CHOOSE y \in s : TRUE
          OBVIOUS
        <5>2. x \in s /\ s \ {x} \in SUBSET S
          BY <4>2, <5>1
        <5>3. Cardinality(s \ {x}) = Cardinality(s) - 1
          BY <1>1, <5>2, FS_RemoveElement
        <5>4. Cardinality(s \ {x}) <= n - 1
          BY <1>1, <2>1, <3>5, <5>3
        <5>5. g[s \ {x}] = h[s \ {x}]
          BY <3>2, <3>3, <5>2, <5>4
        <5>6. g[s \ {CHOOSE y \in s : TRUE}] = h[s \ {CHOOSE y \in s : TRUE}]
          BY <5>1, <5>5
        <5> QED BY <3>3, <4>2, <5>6 DEF FoldStep
      <4> QED BY <4>1, <4>2
    <3>6. Upto(n, h)
      BY <3>5
    <3> QED BY <2>1, <3>4, <3>6
  <2> QED BY <2>2, <2>3
<1>3. PICK g \in [SUBSET S -> Int] : Upto(Cardinality(S), g)
  <2>1. Cardinality(S) \in Nat /\ Cardinality(S) \notin Bad
    BY <1>2, FS_CardinalityType
  <2> QED BY <2>1
<1>4. \A s \in SUBSET S : g[s] = FoldStep(op, e, f, g, s)
  BY <1>1, <1>3
<1> QED BY <1>4 DEF FoldsOf

AnyFirst(op, f, it, s) == \A x \in s : it[s] = op[<<f[x], it[s \ {x}]>>]

\* Any element can be taken out first.
LEMMA FoldsSplit ==
  ASSUME NEW S, IsFiniteSet(S), NEW f \in [S -> Int], NEW op, Commutes(op), NEW e \in Int,
         NEW it, FoldsOf(op, e, f, S, it)
  PROVE  \A s \in SUBSET S : AnyFirst(op, f, it, s)
<1> DEFINE Bad == {n \in Nat : \E s \in SUBSET S : Cardinality(s) = n /\ ~AnyFirst(op, f, it, s)}
<1>1. \A s \in SUBSET S : IsFiniteSet(s) /\ Cardinality(s) \in Nat
  BY FS_Subset, FS_CardinalityType
<1>2. it \in [SUBSET S -> Int] /\ \A s \in SUBSET S : it[s] = FoldStep(op, e, f, it, s)
  BY DEF FoldsOf
<1>3. Bad = {}
  <2> SUFFICES ASSUME Bad # {} PROVE FALSE
    OBVIOUS
  <2>1. PICK n \in Bad : \A m \in Bad : n <= m
    BY Least
  <2>2. PICK s \in SUBSET S : Cardinality(s) = n /\ ~AnyFirst(op, f, it, s)
    BY <2>1
  <2>3. PICK x \in s : it[s] # op[<<f[x], it[s \ {x}]>>]
    BY <2>2 DEF AnyFirst
  <2>4. PICK y : y = CHOOSE z \in s : TRUE
    OBVIOUS
  <2>5. y \in s /\ it[s] = op[<<f[y], it[s \ {y}]>>]
    BY <1>2, <2>3, <2>4 DEF FoldStep
  <2>6. x # y
    BY <2>3, <2>5
  <2>7. ASSUME NEW z \in s PROVE AnyFirst(op, f, it, s \ {z})
    <3>1. Cardinality(s \ {z}) = n - 1 /\ s \ {z} \in SUBSET S
      BY <1>1, <2>2, FS_RemoveElement
    <3>2. n - 1 \in Nat
      BY <1>1, <3>1
    <3>3. n - 1 \notin Bad
      BY <2>1, <3>2
    <3> QED BY <3>1, <3>2, <3>3
  <2>8. it[s \ {y}] = op[<<f[x], it[(s \ {y}) \ {x}]>>]
    BY <2>5, <2>6, <2>7 DEF AnyFirst
  <2>9. it[s \ {x}] = op[<<f[y], it[(s \ {x}) \ {y}]>>]
    BY <2>5, <2>6, <2>7 DEF AnyFirst
  <2>10. (s \ {y}) \ {x} = (s \ {x}) \ {y}
    OBVIOUS
  <2>11. PICK a \in Int, b \in Int, c \in Int :
           a = f[x] /\ b = f[y] /\ c = it[(s \ {x}) \ {y}]
    BY <1>2, <2>5
  <2>12. it[s] = op[<<b, op[<<a, c>>]>>] /\ it[s \ {x}] = op[<<b, c>>]
    BY <2>5, <2>8, <2>9, <2>10, <2>11
  <2>13. op[<<b, op[<<a, c>>]>>] = op[<<a, op[<<b, c>>]>>]
    BY <2>11 DEF Commutes
  <2> QED BY <2>3, <2>11, <2>12, <2>13
<1> QED BY <1>1, <1>3

\* The sum of a part of a function is the fold of that part.
LEMMA SumIsFold ==
  ASSUME NEW S, IsFiniteSet(S), NEW f \in [S -> Int],
         NEW it, FoldsOf(Plus, 0, f, S, it), NEW T \in SUBSET S
  PROVE  SumFunction([x \in T |-> f[x]]) = it[T]
<1>1. PICK g : g = [x \in T |-> f[x]]
  OBVIOUS
<1> DEFINE GStep(i, s) == IF s = {} THEN 0
                          ELSE g[CHOOSE x \in s : TRUE] + i[s \ {CHOOSE x \in s : TRUE}]
           Iter(i) == i = [s \in SUBSET T |-> GStep(i, s)]
           Bad(i) == {n \in Nat : \E s \in SUBSET T : Cardinality(s) = n /\ it[s] # i[s]}
<1>2. DOMAIN g = T /\ \A x \in T : g[x] = f[x] /\ f[x] \in Int
  BY <1>1
<1>3. SumFunction(g) = (CHOOSE i : Iter(i))[T]
  BY <1>2 DEF SumFunction, SumFunctionOnSet, FoldFunctionOnSet, MapThenFoldSet
<1>4. ASSUME NEW s \in SUBSET T PROVE it[s] = GStep(it, s)
  <2>1. it[s] = FoldStep(Plus, 0, f, it, s) /\ \A r \in SUBSET S : it[r] \in Int
    BY DEF FoldsOf
  <2>2. CASE s = {}
    BY <2>1, <2>2 DEF FoldStep
  <2>3. CASE s # {}
    <3>1. PICK c : c = CHOOSE x \in s : TRUE
      OBVIOUS
    <3>2. c \in T /\ s \ {c} \in SUBSET S
      BY <2>3, <3>1
    <3>3. it[s] = Plus[<<f[c], it[s \ {c}]>>]
      BY <2>1, <2>3, <3>1 DEF FoldStep
    <3>4. Plus[<<f[c], it[s \ {c}]>>] = f[c] + it[s \ {c}]
      BY <1>2, <2>1, <3>2 DEF Plus
    <3> QED BY <1>2, <2>3, <3>1, <3>2, <3>3, <3>4
  <2> QED BY <2>2, <2>3
<1>5. \E i : Iter(i)
  <2>1. PICK jt : jt = [s \in SUBSET T |-> it[s]]
    OBVIOUS
  <2>2. ASSUME NEW s \in SUBSET T PROVE jt[s] = GStep(jt, s)
    <3>1. CASE s = {}
      BY <1>4, <2>1, <3>1
    <3>2. CASE s # {}
      <4>1. PICK c : c = CHOOSE x \in s : TRUE
        OBVIOUS
      <4>2. s \ {c} \in SUBSET T
        OBVIOUS
      <4>3. it[s] = g[c] + it[s \ {c}]
        BY <1>4, <3>2, <4>1
      <4> QED BY <2>1, <3>2, <4>1, <4>2, <4>3
    <3> QED BY <3>1, <3>2
  <2> HIDE DEF GStep
  <2> QED BY <2>1, <2>2
<1>6. PICK i : i = (CHOOSE j : Iter(j)) /\ Iter(i)
  BY <1>5
<1>7. ASSUME NEW s \in SUBSET T PROVE i[s] = GStep(i, s)
  <2> HIDE DEF GStep
  <2> QED BY <1>6
<1>8. \A s \in SUBSET T : IsFiniteSet(s) /\ Cardinality(s) \in Nat
  BY FS_Subset, FS_CardinalityType
<1>9. Bad(i) = {}
  <2> SUFFICES ASSUME Bad(i) # {} PROVE FALSE
    OBVIOUS
  <2>1. PICK n \in Bad(i) : \A m \in Bad(i) : n <= m
    BY Least
  <2>2. PICK s \in SUBSET T : Cardinality(s) = n /\ it[s] # i[s]
    BY <2>1
  <2>3. s # {}
    BY <1>4, <1>7, <2>2
  <2>4. PICK c : c = CHOOSE x \in s : TRUE
    OBVIOUS
  <2>5. c \in s /\ it[s] = g[c] + it[s \ {c}] /\ i[s] = g[c] + i[s \ {c}]
    BY <1>4, <1>7, <2>3, <2>4
  <2>6. Cardinality(s \ {c}) = n - 1 /\ s \ {c} \in SUBSET T
    BY <1>8, <2>2, <2>5, FS_RemoveElement
  <2>7. n - 1 \in Nat
    BY <1>8, <2>6
  <2>8. n - 1 \notin Bad(i)
    BY <2>1, <2>7
  <2>9. it[s \ {c}] = i[s \ {c}]
    BY <2>6, <2>7, <2>8
  <2> QED BY <2>2, <2>5, <2>9
<1>10. it[T] = i[T]
  BY <1>8, <1>9
<1> HIDE DEF Iter
<1> QED BY <1>1, <1>3, <1>6, <1>10

\* The product of a part of a function is the fold of that part.
LEMMA ProductIsFold ==
  ASSUME NEW S, IsFiniteSet(S), NEW f \in [S -> Int],
         NEW it, FoldsOf(Times, 1, f, S, it), NEW T \in SUBSET S,
         NEW g, g = [x \in T |-> f[x]]
  PROVE  ProductOf(g) = it[T]
<1> DEFINE GStep(i, s) == IF s = {} THEN 1
                          ELSE g[CHOOSE x \in s : TRUE] * i[s \ {CHOOSE x \in s : TRUE}]
           Iter(i) == i = [s \in SUBSET T |-> GStep(i, s)]
           Bad(i) == {n \in Nat : \E s \in SUBSET T : Cardinality(s) = n /\ it[s] # i[s]}
<1>2. DOMAIN g = T /\ \A x \in T : g[x] = f[x] /\ f[x] \in Int
  OBVIOUS
<1>3. ProductOf(g) = (CHOOSE i : Iter(i))[T]
  BY <1>2 DEF ProductOf, FoldFunction, FoldFunctionOnSet, MapThenFoldSet
<1>4. ASSUME NEW s \in SUBSET T PROVE it[s] = GStep(it, s)
  <2>1. it[s] = FoldStep(Times, 1, f, it, s) /\ \A r \in SUBSET S : it[r] \in Int
    BY DEF FoldsOf
  <2>2. CASE s = {}
    BY <2>1, <2>2 DEF FoldStep
  <2>3. CASE s # {}
    <3>1. PICK c : c = CHOOSE x \in s : TRUE
      OBVIOUS
    <3>2. c \in T /\ s \ {c} \in SUBSET S
      BY <2>3, <3>1
    <3>3. it[s] = Times[<<f[c], it[s \ {c}]>>]
      BY <2>1, <2>3, <3>1 DEF FoldStep
    <3>4. Times[<<f[c], it[s \ {c}]>>] = f[c] * it[s \ {c}]
      BY <1>2, <2>1, <3>2 DEF Times
    <3> QED BY <1>2, <2>3, <3>1, <3>2, <3>3, <3>4
  <2> QED BY <2>2, <2>3
<1>5. \E i : Iter(i)
  <2>1. PICK jt : jt = [s \in SUBSET T |-> it[s]]
    OBVIOUS
  <2>2. ASSUME NEW s \in SUBSET T PROVE jt[s] = GStep(jt, s)
    <3>1. CASE s = {}
      BY <1>4, <2>1, <3>1
    <3>2. CASE s # {}
      <4>1. PICK c : c = CHOOSE x \in s : TRUE
        OBVIOUS
      <4>2. s \ {c} \in SUBSET T
        OBVIOUS
      <4>3. it[s] = g[c] * it[s \ {c}]
        BY <1>4, <3>2, <4>1
      <4> QED BY <2>1, <3>2, <4>1, <4>2, <4>3
    <3> QED BY <3>1, <3>2
  <2> HIDE DEF GStep
  <2> QED BY <2>1, <2>2
<1>6. PICK i : i = (CHOOSE j : Iter(j)) /\ Iter(i)
  BY <1>5
<1>7. ASSUME NEW s \in SUBSET T PROVE i[s] = GStep(i, s)
  <2> HIDE DEF GStep
  <2> QED BY <1>6
<1>8. \A s \in SUBSET T : IsFiniteSet(s) /\ Cardinality(s) \in Nat
  BY FS_Subset, FS_CardinalityType
<1>9. Bad(i) = {}
  <2> SUFFICES ASSUME Bad(i) # {} PROVE FALSE
    OBVIOUS
  <2>1. PICK n \in Bad(i) : \A m \in Bad(i) : n <= m
    BY Least
  <2>2. PICK s \in SUBSET T : Cardinality(s) = n /\ it[s] # i[s]
    BY <2>1
  <2>3. s # {}
    BY <1>4, <1>7, <2>2
  <2>4. PICK c : c = CHOOSE x \in s : TRUE
    OBVIOUS
  <2>5. c \in s /\ it[s] = g[c] * it[s \ {c}] /\ i[s] = g[c] * i[s \ {c}]
    BY <1>4, <1>7, <2>3, <2>4
  <2>6. Cardinality(s \ {c}) = n - 1 /\ s \ {c} \in SUBSET T
    BY <1>8, <2>2, <2>5, FS_RemoveElement
  <2>7. n - 1 \in Nat
    BY <1>8, <2>6
  <2>8. n - 1 \notin Bad(i)
    BY <2>1, <2>7
  <2>9. it[s \ {c}] = i[s \ {c}]
    BY <2>6, <2>7, <2>8
  <2> QED BY <2>2, <2>5, <2>9
<1>10. it[T] = i[T]
  BY <1>8, <1>9
<1> HIDE DEF Iter
<1> QED BY <1>3, <1>6, <1>10

\* it gives for every part of S the sum of f over it.
SumsOf(f, S, it) ==
  /\ it \in [SUBSET S -> Int]
  /\ it[{}] = 0
  /\ \A s \in SUBSET S : \A x \in s : it[s] = f[x] + it[s \ {x}]
  /\ \A s \in SUBSET S : SumFunction([x \in s |-> f[x]]) = it[s]

LEMMA SumsExist ==
  ASSUME NEW S, IsFiniteSet(S), NEW f \in [S -> Int]
  PROVE  \E it : SumsOf(f, S, it)
<1>1. PICK it : FoldsOf(Plus, 0, f, S, it)
  BY PlusCommutes, FoldsExist
<1>2. it \in [SUBSET S -> Int] /\ it[{}] = 0
  BY <1>1 DEF FoldsOf, FoldStep
<1>3. ASSUME NEW s \in SUBSET S, NEW x \in s PROVE it[s] = f[x] + it[s \ {x}]
  <2>1. AnyFirst(Plus, f, it, s)
    BY <1>1, PlusCommutes, FoldsSplit
  <2>2. it[s] = Plus[<<f[x], it[s \ {x}]>>] /\ f[x] \in Int /\ it[s \ {x}] \in Int
    BY <1>2, <2>1 DEF AnyFirst
  <2> QED BY <2>2 DEF Plus
<1>4. \A s \in SUBSET S : SumFunction([x \in s |-> f[x]]) = it[s]
  BY <1>1, SumIsFold
<1> QED BY <1>2, <1>3, <1>4 DEF SumsOf

\* Greater summands have the greater sum.
LEMMA SumsCompare ==
  ASSUME NEW S, IsFiniteSet(S), NEW f \in [S -> Int], NEW h \in [S -> Int],
         NEW it, SumsOf(f, S, it), NEW jt, SumsOf(h, S, jt), \A x \in S : h[x] < f[x]
  PROVE  \A s \in SUBSET S : jt[s] <= it[s] /\ (s # {} => jt[s] < it[s])
<1> DEFINE Less(s) == jt[s] <= it[s] /\ (s # {} => jt[s] < it[s])
           Bad == {n \in Nat : \E s \in SUBSET S : Cardinality(s) = n /\ ~Less(s)}
<1>1. \A s \in SUBSET S : IsFiniteSet(s) /\ Cardinality(s) \in Nat
  BY FS_Subset, FS_CardinalityType
<1>2. Bad = {}
  <2> SUFFICES ASSUME Bad # {} PROVE FALSE
    OBVIOUS
  <2>1. PICK n \in Bad : \A m \in Bad : n <= m
    BY Least
  <2>2. PICK s \in SUBSET S : Cardinality(s) = n /\ ~Less(s)
    BY <2>1
  <2>3. s # {}
    <3>1. it[{}] = 0 /\ jt[{}] = 0
      BY DEF SumsOf
    <3> QED BY <2>2, <3>1
  <2>4. PICK x \in s : TRUE
    BY <2>3
  <2>5. Cardinality(s \ {x}) = n - 1 /\ s \ {x} \in SUBSET S
    BY <1>1, <2>2, FS_RemoveElement
  <2>6. n - 1 \in Nat
    BY <1>1, <2>5
  <2>7. n - 1 \notin Bad
    BY <2>1, <2>6
  <2>8. Less(s \ {x})
    BY <2>5, <2>6, <2>7
  <2>9. it[s] = f[x] + it[s \ {x}] /\ jt[s] = h[x] + jt[s \ {x}]
    BY DEF SumsOf
  <2>10. it[s \ {x}] \in Int /\ jt[s \ {x}] \in Int /\ h[x] < f[x] /\ h[x] \in Int /\ f[x] \in Int
    BY <2>5 DEF SumsOf
  <2> QED BY <2>2, <2>8, <2>9, <2>10
<1>3. ASSUME NEW s \in SUBSET S PROVE Less(s)
  <2>1. Cardinality(s) \in Nat /\ Cardinality(s) \notin Bad
    BY <1>1, <1>2
  <2> HIDE DEF Less
  <2> QED BY <2>1
<1> QED BY <1>3

\* Summands that are not negative make no sum smaller.
LEMMA SumsGrow ==
  ASSUME NEW S, IsFiniteSet(S), NEW f \in [S -> Int], NEW it, SumsOf(f, S, it),
         \A x \in S : 0 <= f[x], NEW T \in SUBSET S
  PROVE  it[T] <= it[S]
<1> DEFINE Bad == {n \in Nat : \E s \in SUBSET S : Cardinality(s) = n /\ T \subseteq s /\ ~(it[T] <= it[s])}
<1>1. \A s \in SUBSET S : IsFiniteSet(s) /\ Cardinality(s) \in Nat
  BY FS_Subset, FS_CardinalityType
<1>2. Bad = {}
  <2> SUFFICES ASSUME Bad # {} PROVE FALSE
    OBVIOUS
  <2>1. PICK n \in Bad : \A m \in Bad : n <= m
    BY Least
  <2>2. PICK s \in SUBSET S : Cardinality(s) = n /\ T \subseteq s /\ ~(it[T] <= it[s])
    BY <2>1
  <2>3. s # T /\ it[T] \in Int
    BY <2>2 DEF SumsOf
  <2>4. PICK x \in s : x \notin T
    BY <2>2, <2>3
  <2>5. Cardinality(s \ {x}) = n - 1 /\ s \ {x} \in SUBSET S
    BY <1>1, <2>2, FS_RemoveElement
  <2>6. n - 1 \in Nat
    BY <1>1, <2>5
  <2>7. n - 1 \notin Bad
    BY <2>1, <2>6
  <2>8. it[T] <= it[s \ {x}]
    BY <2>2, <2>4, <2>5, <2>6, <2>7
  <2>9. it[s] = f[x] + it[s \ {x}]
    BY DEF SumsOf
  <2>10. it[s \ {x}] \in Int /\ f[x] \in Int /\ 0 <= f[x]
    BY <2>5 DEF SumsOf
  <2> QED BY <2>2, <2>3, <2>8, <2>9, <2>10
<1>3. Cardinality(S) \in Nat /\ Cardinality(S) \notin Bad
  BY <1>1, <1>2
<1> QED BY <1>3

\* A sum lies between its number of summands times the least and times the greatest.
LEMMA SumsBounded ==
  ASSUME NEW S, IsFiniteSet(S), NEW f \in [S -> Int], NEW it, SumsOf(f, S, it),
         NEW lo \in Int, NEW hi \in Int, \A x \in S : lo <= f[x] /\ f[x] <= hi
  PROVE  Cardinality(S) * lo <= it[S] /\ it[S] <= Cardinality(S) * hi
<1> DEFINE In(s) == Cardinality(s) * lo <= it[s] /\ it[s] <= Cardinality(s) * hi
           Bad == {n \in Nat : \E s \in SUBSET S : Cardinality(s) = n /\ ~In(s)}
<1>1. \A s \in SUBSET S : IsFiniteSet(s) /\ Cardinality(s) \in Nat
  BY FS_Subset, FS_CardinalityType
<1>2. Bad = {}
  <2> SUFFICES ASSUME Bad # {} PROVE FALSE
    OBVIOUS
  <2>1. PICK n \in Bad : \A m \in Bad : n <= m
    BY Least
  <2>2. PICK s \in SUBSET S : Cardinality(s) = n /\ ~In(s)
    BY <2>1
  <2>3. s # {}
    <3>1. it[{}] = 0 /\ Cardinality({}) = 0 /\ 0 * lo = 0 /\ 0 * hi = 0
      BY FS_EmptySet DEF SumsOf
    <3>2. In({})
      BY <3>1
    <3> HIDE DEF In
    <3> QED BY <2>2, <3>2
  <2>4. PICK x \in s : TRUE
    BY <2>3
  <2>5. Cardinality(s \ {x}) = n - 1 /\ s \ {x} \in SUBSET S
    BY <1>1, <2>2, FS_RemoveElement
  <2>6. n - 1 \in Nat
    BY <1>1, <2>5
  <2>7. n - 1 \notin Bad
    BY <2>1, <2>6
  <2>8. In(s \ {x})
    BY <2>5, <2>6, <2>7
  <2>9. it[s] = f[x] + it[s \ {x}]
    BY DEF SumsOf
  <2>10. it[s \ {x}] \in Int /\ f[x] \in Int /\ lo <= f[x] /\ f[x] <= hi
    BY <2>5 DEF SumsOf
  <2>11. (n - 1) * lo + lo = n * lo /\ (n - 1) * hi + hi = n * hi
    OBVIOUS
  <2>12. (n - 1) * lo \in Int /\ (n - 1) * hi \in Int
    OBVIOUS
  <2>13. (n - 1) * lo <= it[s \ {x}] /\ it[s \ {x}] <= (n - 1) * hi
    BY <2>5, <2>8
  <2>14. n * lo <= it[s] /\ it[s] <= n * hi
    <3> HIDE DEF Bad, In
    <3> QED BY <2>9, <2>10, <2>11, <2>12, <2>13
  <2> QED BY <2>2, <2>14
<1>3. Cardinality(S) \in Nat /\ Cardinality(S) \notin Bad
  BY <1>1, <1>2
<1> HIDE DEF In
<1>4. In(S)
  BY <1>3
<1> QED BY <1>4 DEF In

\* The product of k + r for all ranks r up to n.
Unit(n) == ProductOf([r \in 1 .. n |-> RrfK + r])

\* In these units 1 / (k + rank) is a whole number.
LEMMA Reciprocals ==
  ASSUME NEW n \in Nat
  PROVE  /\ Unit(n) \in Int /\ 0 < Unit(n)
         /\ \A r \in 1 .. n : /\ Reciprocal(r, n) \in Int /\ 0 < Reciprocal(r, n)
                              /\ (RrfK + r) * Reciprocal(r, n) = Unit(n)
<1> DEFINE S == 1 .. n
           f == [r \in S |-> RrfK + r]
<1>1. IsFiniteSet(S)
  BY FS_Interval
<1>2. RrfK \in Nat /\ f \in [S -> Int] /\ \A r \in S : f[r] = RrfK + r /\ 0 < f[r]
  BY MatchingJobAssumption
<1>c. Commutes(Times) /\ 1 \in Int
  BY TimesCommutes
<1> HIDE DEF f, S
<1>3. PICK it : FoldsOf(Times, 1, f, S, it)
  BY <1>1, <1>2, <1>c, FoldsExist
<1>4. \A s \in SUBSET S : it[s] \in Int /\ (s = {} => it[s] = 1)
  BY <1>3 DEF FoldsOf, FoldStep
<1>5. ASSUME NEW s \in SUBSET S, NEW r \in s PROVE it[s] = f[r] * it[s \ {r}]
  <2>1. AnyFirst(Times, f, it, s)
    BY <1>1, <1>2, <1>3, <1>c, FoldsSplit, Zenon
  <2>2. it[s] = Times[<<f[r], it[s \ {r}]>>] /\ f[r] \in Int /\ it[s \ {r}] \in Int
    BY <1>2, <1>4, <2>1 DEF AnyFirst
  <2> QED BY <2>2 DEF Times
<1> DEFINE Bad == {m \in Nat : \E s \in SUBSET S : Cardinality(s) = m /\ ~(0 < it[s])}
<1>6. \A s \in SUBSET S : IsFiniteSet(s) /\ Cardinality(s) \in Nat
  BY <1>1, FS_Subset, FS_CardinalityType
<1>7. Bad = {}
  <2> SUFFICES ASSUME Bad # {} PROVE FALSE
    OBVIOUS
  <2>1. PICK m \in Bad : \A l \in Bad : m <= l
    BY Least
  <2>2. PICK s \in SUBSET S : Cardinality(s) = m /\ ~(0 < it[s])
    BY <2>1
  <2>3. s # {}
    BY <1>4, <2>2
  <2>4. PICK r \in s : TRUE
    BY <2>3
  <2>5. Cardinality(s \ {r}) = m - 1 /\ s \ {r} \in SUBSET S
    BY <1>6, <2>2, FS_RemoveElement
  <2>6. m - 1 \in Nat
    BY <1>6, <2>5
  <2>7. m - 1 \notin Bad
    BY <2>1, <2>6
  <2>8. 0 < it[s \ {r}]
    BY <2>5, <2>6, <2>7
  <2>9. PICK a \in Int, b \in Int : a = f[r] /\ b = it[s \ {r}] /\ 0 < a /\ 0 < b
    BY <1>2, <1>4, <2>5, <2>8
  <2>10. it[s] = a * b
    BY <1>5, <2>9
  <2>11. 0 < a * b
    BY <2>9
  <2> QED BY <2>2, <2>10, <2>11
<1>8. \A s \in SUBSET S : 0 < it[s]
  BY <1>6, <1>7
<1>9. Unit(n) = it[S]
  <2>1. PICK g : g = [x \in S |-> f[x]]
    OBVIOUS
  <2>2. g = [r \in 1 .. n |-> RrfK + r]
    BY <1>2, <2>1 DEF S
  <2>3. ProductOf(g) = it[S]
    <3>1. S \in SUBSET S
      OBVIOUS
    <3> QED BY <1>1, <1>2, <1>3, <2>1, <3>1, ProductIsFold
  <2> QED BY <2>2, <2>3 DEF Unit
<1>10. ASSUME NEW r \in S PROVE Reciprocal(r, n) = it[S \ {r}]
  <2>1. PICK T \in SUBSET S : T = S \ {r}
    OBVIOUS
  <2>2. PICK g : g = [x \in T |-> f[x]]
    OBVIOUS
  <2>3. g = [q \in (1 .. n) \ {r} |-> RrfK + q]
    BY <1>2, <2>1, <2>2 DEF S
  <2>4. ProductOf(g) = it[T]
    BY <1>1, <1>2, <1>3, <2>2, ProductIsFold
  <2> QED BY <2>1, <2>3, <2>4 DEF Reciprocal
<1>11. \A r \in S : (RrfK + r) * Reciprocal(r, n) = Unit(n)
  BY <1>2, <1>5, <1>9, <1>10
<1> QED BY <1>4, <1>8, <1>9, <1>10, <1>11 DEF S

\* A better rank counts more.
LEMMA ReciprocalsFall ==
  ASSUME NEW n \in Nat, NEW q \in 1 .. n, NEW r \in 1 .. n, q < r
  PROVE  Reciprocal(r, n) < Reciprocal(q, n)
<1>1. PICK a \in Int, b \in Int, c \in Int, d \in Int :
        a = RrfK + q /\ b = Reciprocal(q, n) /\ c = RrfK + r /\ d = Reciprocal(r, n)
  <2>1. Reciprocal(q, n) \in Int /\ Reciprocal(r, n) \in Int /\ RrfK \in Nat
    BY Reciprocals, MatchingJobAssumption
  <2> QED BY <2>1
<1>2. 0 < a /\ a < c /\ 0 < b /\ 0 < d /\ a * b = c * d
  BY <1>1, Reciprocals, MatchingJobAssumption
<1>3. ASSUME b <= d PROVE FALSE
  <2>1. a * b <= a * d
    BY <1>2, <1>3
  <2>2. a * d < c * d
    BY <1>2
  <2>3. a * b \in Int /\ a * d \in Int /\ c * d \in Int
    OBVIOUS
  <2> QED BY <1>2, <2>1, <2>2, <2>3
<1> QED BY <1>1, <1>3

\* As long as the ranks are few against k, more of the last rank outweigh fewer
\* of the first.
LEMMA MoreOutweigh ==
  ASSUME NEW n \in Nat, 1 <= n, NEW m \in Nat, NEW l \in Nat, m < l, m * (n - 1) <= RrfK
  PROVE  m * Reciprocal(1, n) < l * Reciprocal(n, n)
<1>1. PICK k \in Nat, a \in Int, b \in Int : k = RrfK /\ a = Reciprocal(1, n) /\ b = Reciprocal(n, n)
  <2>1. 1 \in 1 .. n /\ n \in 1 .. n
    OBVIOUS
  <2>2. Reciprocal(1, n) \in Int /\ Reciprocal(n, n) \in Int /\ RrfK \in Nat
    BY <2>1, Reciprocals, MatchingJobAssumption
  <2> QED BY <2>2
<1>2. 0 < a /\ 0 < b /\ (k + 1) * a = (k + n) * b
  BY <1>1, Reciprocals
<1>3. m * (k + n) < (m + 1) * (k + 1)
  <2>1. m * (k + n) = m * k + m * n
    OBVIOUS
  <2>2. (m + 1) * (k + 1) = m * k + m + k + 1
    OBVIOUS
  <2>3. m * (n - 1) = m * n - m
    OBVIOUS
  <2>4. m * k \in Int /\ m * n \in Int
    OBVIOUS
  <2> QED BY <1>1, <2>1, <2>2, <2>3, <2>4
<1>4. (m * (k + n)) * b < ((m + 1) * (k + 1)) * b
  <2>1. PICK x \in Int, y \in Int : x = m * (k + n) /\ y = (m + 1) * (k + 1)
    OBVIOUS
  <2>2. x < y
    BY <1>3, <2>1
  <2>3. x * b < y * b
    BY <1>2, <2>2
  <2> QED BY <2>1, <2>3
<1>5. (m * (k + n)) * b = (k + 1) * (m * a)
  <2>1. (m * (k + n)) * b = m * ((k + n) * b)
    OBVIOUS
  <2>2. m * ((k + 1) * a) = (k + 1) * (m * a)
    OBVIOUS
  <2> QED BY <1>2, <2>1, <2>2
<1>6. ((m + 1) * (k + 1)) * b = (k + 1) * ((m + 1) * b)
  OBVIOUS
<1>7. m * a < (m + 1) * b
  <2>1. PICK x \in Int, y \in Int : x = m * a /\ y = (m + 1) * b
    OBVIOUS
  <2>2. (k + 1) * x < (k + 1) * y
    BY <1>4, <1>5, <1>6, <2>1
  <2>3. x < y
    BY <2>2
  <2> QED BY <2>1, <2>3
<1>8. (m + 1) * b <= l * b
  BY <1>2
<1>9. m * a \in Int /\ (m + 1) * b \in Int /\ l * b \in Int
  OBVIOUS
<1>10. m * a < l * b
  BY <1>7, <1>8, <1>9
<1> QED BY <1>1, <1>10

----------------------------------------------------------------------------
(* Finite sets in an order *)

\* R sorts S: the order is strict and total.
Sorts(R, S) ==
  /\ \A x \in S : <<x, x>> \notin R
  /\ \A x, y \in S : x # y => <<x, y>> \in R \/ <<y, x>> \in R
  /\ \A x, y, z \in S : <<x, y>> \in R /\ <<y, z>> \in R => <<x, z>> \in R

\* Numbers of the members of S that follow the order.
Follows(f, R, S) ==
  /\ f \in [S -> 1 .. Cardinality(S)]
  /\ \A x, y \in S : <<x, y>> \in R => f[x] < f[y]

\* Such numbers are all taken.
LEMMA AllTaken ==
  ASSUME NEW S, IsFiniteSet(S), NEW R, Sorts(R, S), NEW f, Follows(f, R, S)
  PROVE  f \in Injection(S, 1 .. Cardinality(S)) /\ \A i \in 1 .. Cardinality(S) : \E x \in S : f[x] = i
<1> DEFINE I == 1 .. Cardinality(S)
<1>1. Cardinality(S) \in Nat
  BY FS_CardinalityType
<1>2. IsFiniteSet(I) /\ Cardinality(I) = Cardinality(S)
  BY <1>1, FS_Interval
<1>3. f \in Injection(S, I)
  <2>1. \A x \in S : f[x] \in Int
    BY <1>1 DEF Follows
  <2>2. ASSUME NEW x \in S, NEW y \in S, x # y PROVE f[x] # f[y]
    <3>1. <<x, y>> \in R \/ <<y, x>> \in R
      BY <2>2 DEF Sorts
    <3>2. f[x] < f[y] \/ f[y] < f[x]
      BY <3>1 DEF Follows
    <3> QED BY <2>1, <3>2
  <2> QED BY <2>2 DEF Follows, Injection, IsInjective
<1>4. f \in Surjection(S, I)
  <2> HIDE DEF I
  <2> QED BY <1>2, <1>3, FS_Injection
<1> QED BY <1>3, <1>4 DEF Surjection

\* The number of members before each is such a numbering,
LEMMA Counted ==
  ASSUME NEW S, IsFiniteSet(S), NEW R, Sorts(R, S),
         NEW f, f = [x \in S |-> Cardinality({y \in S : <<y, x>> \in R}) + 1]
  PROVE  Follows(f, R, S)
<1> DEFINE Pre(x) == {y \in S : <<y, x>> \in R}
<1>1. Cardinality(S) \in Nat
  BY FS_CardinalityType
<1>2. ASSUME NEW x \in S
      PROVE  /\ IsFiniteSet(Pre(x)) /\ Cardinality(Pre(x)) \in Nat
             /\ Cardinality(Pre(x)) < Cardinality(S)
  <2>1. PICK P \in SUBSET S : P = Pre(x)
    OBVIOUS
  <2>2. P # S
    BY <2>1 DEF Sorts
  <2>3. IsFiniteSet(P) /\ Cardinality(P) <= Cardinality(S) /\ Cardinality(P) # Cardinality(S)
    BY <2>2, FS_Subset
  <2>4. Cardinality(P) \in Nat
    BY <2>3, FS_CardinalityType
  <2> QED BY <1>1, <2>1, <2>3, <2>4
<1>3. \A x \in S : f[x] = Cardinality(Pre(x)) + 1
  OBVIOUS
<1>4. ASSUME NEW x \in S, NEW y \in S, <<x, y>> \in R PROVE f[x] < f[y]
  <2>1. PICK P, Q : P = Pre(x) /\ Q = Pre(y)
    OBVIOUS
  <2>2. P \in SUBSET Q /\ P # Q
    BY <1>4, <2>1 DEF Sorts
  <2>3. Cardinality(P) <= Cardinality(Q) /\ Cardinality(P) # Cardinality(Q)
    BY <1>2, <2>1, <2>2, FS_Subset
  <2>4. Cardinality(P) \in Nat /\ Cardinality(Q) \in Nat
    BY <1>2, <2>1
  <2>5. f[x] = Cardinality(P) + 1 /\ f[y] = Cardinality(Q) + 1
    BY <1>3, <2>1
  <2> QED BY <2>3, <2>4, <2>5
<1>5. f \in [S -> 1 .. Cardinality(S)]
  <2>1. \A x \in S : f[x] \in 1 .. Cardinality(S)
    <3> HIDE DEF Pre
    <3> QED BY <1>1, <1>2, <1>3
  <2>2. f = [x \in S |-> f[x]]
    OBVIOUS
  <2> QED BY <2>1, <2>2
<1> QED BY <1>4, <1>5 DEF Follows

\* and the only one.
LEMMA OneNumbering ==
  ASSUME NEW S, IsFiniteSet(S), NEW R, Sorts(R, S), NEW f, Follows(f, R, S), NEW x \in S
  PROVE  f[x] = Cardinality({y \in S : <<y, x>> \in R}) + 1
<1>1. PICK P \in SUBSET S : P = {y \in S : <<y, x>> \in R}
  OBVIOUS
<1>2. PICK N \in Nat : N = Cardinality(S)
  BY FS_CardinalityType
<1>3. f \in [S -> 1 .. N] /\ f \in Injection(S, 1 .. N) /\ \A i \in 1 .. N : \E y \in S : f[y] = i
  BY <1>2, AllTaken DEF Follows
<1>4. PICK n \in Nat : f[x] = n + 1 /\ n < N
  <2>1. f[x] \in 1 .. N
    BY <1>3
  <2> QED BY <2>1
<1>5. PICK g : g = [y \in P |-> f[y]]
  OBVIOUS
<1>6. g \in Bijection(P, 1 .. n)
  <2>1. ASSUME NEW y \in P PROVE g[y] \in 1 .. n
    <3>1. f[y] < f[x] /\ f[y] \in 1 .. N
      BY <1>1, <1>3 DEF Follows
    <3> QED BY <1>4, <1>5, <3>1
  <2>2. \A y, z \in P : g[y] = g[z] => y = z
    BY <1>3, <1>5 DEF Injection, IsInjective
  <2>3. ASSUME NEW i \in 1 .. n PROVE \E y \in P : g[y] = i
    <3>1. PICK y \in S : f[y] = i
      BY <1>3, <1>4
    <3>2. y # x /\ <<x, y>> \notin R
      BY <1>4, <3>1 DEF Follows
    <3>3. y \in P
      BY <1>1, <3>2 DEF Sorts
    <3> QED BY <1>5, <3>1, <3>3
  <2>4. g \in [P -> 1 .. n]
    BY <1>5, <2>1
  <2> QED BY <2>2, <2>3, <2>4 DEF Bijection, Injection, IsInjective, Surjection
<1>7. IsFiniteSet(P) /\ IsFiniteSet(1 .. n) /\ Cardinality(1 .. n) = n
  BY FS_Subset, FS_Interval
<1>8. Cardinality(P) = n
  <2>1. ExistsBijection(P, 1 .. n)
    BY <1>6 DEF ExistsBijection
  <2> QED BY <1>7, <2>1, FS_Bijection
<1> QED BY <1>1, <1>4, <1>8

\* So S can be listed in the order.
LEMMA Listed ==
  ASSUME NEW S, IsFiniteSet(S), NEW R, Sorts(R, S)
  PROVE  \E list \in [1 .. Cardinality(S) -> S] :
           /\ \A x \in S : \E i \in DOMAIN list : list[i] = x
           /\ \A i, j \in DOMAIN list : i < j => <<list[i], list[j]>> \in R
<1>1. PICK f : f = [x \in S |-> Cardinality({y \in S : <<y, x>> \in R}) + 1]
  OBVIOUS
<1>2. Follows(f, R, S)
  BY <1>1, Counted
<1>3. \A i \in 1 .. Cardinality(S) : \E x \in S : f[x] = i
  BY <1>2, AllTaken
<1>4. PICK list : list = [i \in 1 .. Cardinality(S) |-> CHOOSE x \in S : f[x] = i]
  OBVIOUS
<1>5. \A i \in 1 .. Cardinality(S) : list[i] \in S /\ f[list[i]] = i
  BY <1>3, <1>4
<1>6. list \in [1 .. Cardinality(S) -> S]
  BY <1>4, <1>5
<1>7. ASSUME NEW x \in S PROVE \E i \in DOMAIN list : list[i] = x
  <2>1. f[x] \in 1 .. Cardinality(S)
    BY <1>2 DEF Follows
  <2>2. list[f[x]] \in S /\ f[list[f[x]]] = f[x]
    BY <1>5, <2>1
  <2>3. list[f[x]] = x
    BY <1>2, <2>2, AllTaken DEF Injection, IsInjective
  <2> QED BY <1>6, <2>1, <2>3
<1>8. ASSUME NEW i \in DOMAIN list, NEW j \in DOMAIN list, i < j PROVE <<list[i], list[j]>> \in R
  <2>1. Cardinality(S) \in Nat
    BY FS_CardinalityType
  <2>2. i \in 1 .. Cardinality(S) /\ j \in 1 .. Cardinality(S)
    BY <1>6
  <2>3. list[i] \in S /\ list[j] \in S /\ f[list[i]] = i /\ f[list[j]] = j
    BY <1>5, <2>2
  <2>4. list[i] # list[j] /\ <<list[j], list[i]>> \notin R
    BY <1>2, <1>8, <2>1, <2>2, <2>3 DEF Follows
  <2> QED BY <2>3, <2>4 DEF Sorts
<1> QED BY <1>6, <1>7, <1>8
----------------------------------------------------------------------------
(* Scores and ranks *)

Fraction == [num : Int, den : {d \in Int : 0 < d}]

\* a is at least b, and b at least c.
LEMMA AtLeastTransitive ==
  ASSUME NEW a \in Fraction, NEW b \in Fraction, NEW c \in Fraction,
         ~Before(b, a), ~Before(c, b)
  PROVE  ~Before(c, a)
<1>1. PICK i \in Int, j \in Int, k \in Int, x \in Int, y \in Int, z \in Int :
        /\ i = a.num /\ x = a.den /\ j = b.num /\ y = b.den /\ k = c.num /\ z = c.den
        /\ 0 < x /\ 0 < y /\ 0 < z
  BY DEF Fraction
<1>2. j * x <= i * y /\ k * y <= j * z
  BY <1>1 DEF Before
<1>3. (j * x) * z <= (i * y) * z
  <2>1. PICK p \in Int, q \in Int : p = j * x /\ q = i * y
    OBVIOUS
  <2>2. p * z <= q * z
    BY <1>1, <1>2, <2>1
  <2> QED BY <2>1, <2>2
<1>4. (k * y) * x <= (j * z) * x
  <2>1. PICK p \in Int, q \in Int : p = k * y /\ q = j * z
    OBVIOUS
  <2>2. p * x <= q * x
    BY <1>1, <1>2, <2>1
  <2> QED BY <2>1, <2>2
<1>5. /\ (j * x) * z = (j * z) * x /\ (k * y) * x = (k * x) * y /\ (i * y) * z = (i * z) * y
      /\ (j * x) * z \in Int /\ (k * x) * y \in Int /\ (i * z) * y \in Int
  OBVIOUS
<1>6. (k * x) * y <= (i * z) * y
  BY <1>3, <1>4, <1>5
<1>7. k * x <= i * z
  <2>1. PICK p \in Int, q \in Int : p = k * x /\ q = i * z
    OBVIOUS
  <2>2. p * y <= q * y
    BY <1>6, <2>1
  <2>3. q < p => q * y < p * y
    BY <1>1
  <2>4. p * y \in Int /\ q * y \in Int
    OBVIOUS
  <2>5. p <= q
    BY <2>2, <2>3, <2>4
  <2> QED BY <2>1, <2>5
<1> QED BY <1>1, <1>7 DEF Before

LEMMA BeforeIsStrict ==
  ASSUME NEW a \in Fraction, NEW b \in Fraction
  PROVE  ~Before(a, a) /\ (Before(a, b) => ~Before(b, a))
<1>1. a.num * b.den \in Int /\ b.num * a.den \in Int /\ a.num * a.den \in Int
  BY DEF Fraction
<1> QED BY <1>1 DEF Before

\* Scores can be sorted: the order is strict and total.
Sortable(scores) ==
  /\ DOMAIN scores \subseteq SolutionIds
  /\ scores \in [DOMAIN scores -> Fraction]

SortsBefore(scores, s, t) ==
  Before(scores[s], scores[t]) \/ (~Before(scores[t], scores[s]) /\ s < t)

LEMMA OrderSorts ==
  ASSUME NEW scores, Sortable(scores)
  PROVE  \A s, t \in DOMAIN scores : <<s, t>> \in Order(scores) <=> SortsBefore(scores, s, t)
BY DEF Order, SortsBefore

LEMMA SortedOnce ==
  ASSUME NEW scores, Sortable(scores), NEW s \in DOMAIN scores, NEW t \in DOMAIN scores
  PROVE  /\ ~SortsBefore(scores, s, s)
         /\ s # t => SortsBefore(scores, s, t) \/ SortsBefore(scores, t, s)
         /\ SortsBefore(scores, s, t) => ~SortsBefore(scores, t, s)
<1>1. scores[s] \in Fraction /\ scores[t] \in Fraction /\ s \in Nat /\ t \in Nat
  BY MatchingJobAssumption DEF Sortable
<1>2. /\ ~Before(scores[s], scores[s])
      /\ Before(scores[s], scores[t]) => ~Before(scores[t], scores[s])
  BY <1>1, BeforeIsStrict
<1> QED BY <1>1, <1>2 DEF SortsBefore

LEMMA SortedTransitive ==
  ASSUME NEW scores, Sortable(scores),
         NEW r \in DOMAIN scores, NEW s \in DOMAIN scores, NEW t \in DOMAIN scores,
         SortsBefore(scores, r, s), SortsBefore(scores, s, t)
  PROVE  SortsBefore(scores, r, t)
<1>1. PICK a \in Fraction, b \in Fraction, c \in Fraction : a = scores[r] /\ b = scores[s] /\ c = scores[t]
  BY DEF Sortable
<1>2. r \in Nat /\ s \in Nat /\ t \in Nat
  BY MatchingJobAssumption DEF Sortable
<1>3. ~Before(b, a) /\ ~Before(c, b)
  BY <1>1, BeforeIsStrict DEF SortsBefore
<1>4. ~Before(c, a)
  BY <1>3, AtLeastTransitive
<1>5. CASE Before(a, c)
  BY <1>1, <1>5 DEF SortsBefore
<1>6. CASE ~Before(a, c)
  <2>1. ~Before(a, b)
    <3>1. ~Before(a, c) /\ ~Before(c, b) => ~Before(a, b)
      BY AtLeastTransitive
    <3> QED BY <1>3, <1>6, <3>1
  <2>2. ~Before(b, c)
    <3>1. ~Before(b, a) /\ ~Before(a, c) => ~Before(b, c)
      BY AtLeastTransitive
    <3> QED BY <1>3, <1>6, <3>1
  <2>3. r < s /\ s < t
    BY <1>1, <2>1, <2>2 DEF SortsBefore
  <2> QED BY <1>1, <1>2, <1>4, <2>3 DEF SortsBefore
<1> QED BY <1>5, <1>6

\* Ranks are the numbers from one to the number of solutions, in the order.
LEMMA Ranked ==
  ASSUME NEW scores, Sortable(scores)
  PROVE  /\ IsFiniteSet(DOMAIN scores) /\ Cardinality(DOMAIN scores) \in Nat
         /\ Sorts(Order(scores), DOMAIN scores)
         /\ Follows(SignalRank(scores), Order(scores), DOMAIN scores)
         /\ SignalRank(scores) \in [DOMAIN scores -> 1 .. Cardinality(DOMAIN scores)]
         /\ \A s, t \in DOMAIN scores :
              SortsBefore(scores, s, t) => SignalRank(scores)[s] < SignalRank(scores)[t]
<1>1. PICK D, R, rank : D = DOMAIN scores /\ R = Order(scores) /\ rank = SignalRank(scores)
  OBVIOUS
<1>2. IsFiniteSet(D) /\ Cardinality(D) \in Nat
  BY <1>1, MatchingJobAssumption, FS_Subset, FS_CardinalityType DEF Sortable
<1>3. \A s, t \in D : <<s, t>> \in R <=> SortsBefore(scores, s, t)
  BY <1>1, OrderSorts
<1>4. Sorts(R, D)
  <2>1. \A s \in D : ~SortsBefore(scores, s, s)
    BY <1>1, SortedOnce
  <2>2. \A s, t \in D : s # t => SortsBefore(scores, s, t) \/ SortsBefore(scores, t, s)
    BY <1>1, SortedOnce
  <2>3. \A r, s, t \in D : SortsBefore(scores, r, s) /\ SortsBefore(scores, s, t)
                             => SortsBefore(scores, r, t)
    BY <1>1, SortedTransitive
  <2> QED BY <1>3, <2>1, <2>2, <2>3 DEF Sorts
<1>5. rank = [s \in D |-> Cardinality({t \in D : <<t, s>> \in R}) + 1]
  BY <1>1 DEF SignalRank
<1>6. Follows(rank, R, D)
  BY <1>2, <1>4, <1>5, Counted
<1> QED BY <1>1, <1>2, <1>3, <1>4, <1>6 DEF Follows

----------------------------------------------------------------------------
(* Fusion *)

\* Scores as a job computes them.
Scored(scores) ==
  /\ DOMAIN scores \subseteq SolutionIds
  /\ scores = [s \in DOMAIN scores |-> scores[s]]
  /\ \A s \in DOMAIN scores :
       /\ IsFiniteSet(DOMAIN scores[s])
       /\ "attribute_match" \in DOMAIN scores[s]
       /\ \A g \in DOMAIN scores[s] : scores[s][g] \in Fraction

\* The scores on one signal.
OnSignal(scores, g) == [s \in {t \in DOMAIN scores : g \in DOMAIN scores[t]} |-> scores[s][g]]

LEMMA SignalsRanked ==
  ASSUME NEW scores, Scored(scores), NEW s \in DOMAIN scores, NEW g \in DOMAIN scores[s]
  PROVE  /\ Cardinality(DOMAIN scores) \in Nat
         /\ Sortable(OnSignal(scores, g))
         /\ Ranks(scores)[g] = SignalRank(OnSignal(scores, g))
         /\ Ranks(scores)[g][s] \in 1 .. Cardinality(DOMAIN scores)
         /\ \A t \in DOMAIN scores :
              g \in DOMAIN scores[t] /\ SortsBefore(OnSignal(scores, g), s, t)
                => Ranks(scores)[g][s] < Ranks(scores)[g][t]
<1> DEFINE D == DOMAIN scores
           E == {t \in D : g \in DOMAIN scores[t]}
           on == OnSignal(scores, g)
<1>1. DOMAIN on = E /\ \A t \in E : on[t] = scores[t][g]
  BY DEF OnSignal
<1>2. Sortable(on)
  <2>1. E \subseteq SolutionIds /\ \A t \in E : on[t] \in Fraction
    BY <1>1 DEF Scored
  <2>2. on = [t \in E |-> on[t]]
    BY <1>1 DEF OnSignal
  <2> HIDE DEF on, E
  <2> QED BY <1>1, <2>1, <2>2 DEF Sortable
<1>3. Ranks(scores)[g] = SignalRank(on)
  <2>1. g \in UNION {DOMAIN scores[t] : t \in DOMAIN scores}
    OBVIOUS
  <2> QED BY <2>1 DEF Ranks, OnSignal
<1>4. IsFiniteSet(D) /\ Cardinality(D) \in Nat
  BY MatchingJobAssumption, FS_Subset, FS_CardinalityType DEF Scored
<1>5. Cardinality(E) \in Nat /\ Cardinality(E) <= Cardinality(D)
  <2>1. E \in SUBSET D
    OBVIOUS
  <2>2. IsFiniteSet(E) /\ Cardinality(E) <= Cardinality(D)
    BY <1>4, <2>1, FS_Subset
  <2> QED BY <2>2, FS_CardinalityType
<1> HIDE DEF on
<1>6. SignalRank(on) \in [DOMAIN on -> 1 .. Cardinality(DOMAIN on)]
  BY <1>2, Ranked
<1>7. \A p, q \in DOMAIN on : SortsBefore(on, p, q) => SignalRank(on)[p] < SignalRank(on)[q]
  BY <1>2, Ranked
<1>8. Ranks(scores)[g][s] \in 1 .. Cardinality(D)
  <2>1. SignalRank(on)[s] \in 1 .. Cardinality(E)
    BY <1>1, <1>6
  <2> HIDE DEF D, E
  <2> QED BY <1>3, <1>4, <1>5, <2>1
<1> QED BY <1>1, <1>2, <1>3, <1>4, <1>7, <1>8 DEF on

\* What each signal adds to the fused score of a solution.
Shares(scores, s) ==
  [g \in DOMAIN scores[s] |-> Reciprocal(Ranks(scores)[g][s], Cardinality(DOMAIN scores))]

LEMMA SharesPositive ==
  ASSUME NEW scores, Scored(scores), NEW s \in DOMAIN scores
  PROVE  /\ Shares(scores, s) \in [DOMAIN scores[s] -> Int]
         /\ \A g \in DOMAIN scores[s] : 0 < Shares(scores, s)[g]
<1> DEFINE n == Cardinality(DOMAIN scores)
<1>1. ASSUME NEW g \in DOMAIN scores[s]
      PROVE  Reciprocal(Ranks(scores)[g][s], n) \in Int /\ 0 < Reciprocal(Ranks(scores)[g][s], n)
  <2>1. n \in Nat /\ Ranks(scores)[g][s] \in 1 .. n
    BY SignalsRanked
  <2> QED BY <2>1, Reciprocals
<1> QED BY <1>1 DEF Shares

\* The fused scores.
Totals(scores) ==
  [s \in DOMAIN scores |-> [num |-> SumFunction(Shares(scores, s)), den |-> 1]]

LEMMA TotalsSortable ==
  ASSUME NEW scores, Scored(scores)
  PROVE  /\ Sortable(Totals(scores))
         /\ \A s \in DOMAIN scores : SumFunction(Shares(scores, s)) \in Int
<1> DEFINE D == DOMAIN scores
<1>1. ASSUME NEW r \in D PROVE SumFunction(Shares(scores, r)) \in Int
  <2>1. PICK f : f = Shares(scores, r)
    OBVIOUS
  <2>2. PICK S : S = DOMAIN scores[r] /\ IsFiniteSet(S) /\ f \in [S -> Int]
    BY <2>1, SharesPositive DEF Scored
  <2>3. PICK it : SumsOf(f, S, it)
    BY <2>2, SumsExist
  <2>4. [x \in S |-> f[x]] = f /\ S \in SUBSET S
    BY <2>2
  <2>5. SumFunction(f) = it[S] /\ it[S] \in Int
    BY <2>3, <2>4 DEF SumsOf
  <2> QED BY <2>1, <2>5
<1>2. Totals(scores) \in [D -> Fraction]
  <2>1. \A r \in D : [num |-> SumFunction(Shares(scores, r)), den |-> 1] \in Fraction
    BY <1>1 DEF Fraction
  <2> QED BY <2>1 DEF Totals
<1> QED BY <1>1, <1>2 DEF Sortable, Scored, Totals

\* The greater sum of shares has the better rank.
LEMMA SumsRank ==
  ASSUME NEW scores, Scored(scores), NEW s \in DOMAIN scores, NEW t \in DOMAIN scores,
         SumFunction(Shares(scores, t)) < SumFunction(Shares(scores, s))
  PROVE  Fused(scores)[s].rank < Fused(scores)[t].rank
<1>1. \A r \in DOMAIN scores : Fused(scores)[r].rank = SignalRank(Totals(scores))[r]
  <2>1. Totals(scores) = [r \in DOMAIN scores |->
                           [num |-> [q \in DOMAIN scores |-> SumFunction(Shares(scores, q))][r], den |-> 1]]
    BY DEF Totals
  <2> QED BY <2>1 DEF Fused, Shares
<1>2. SortsBefore(Totals(scores), s, t)
  <2>1. SumFunction(Shares(scores, s)) \in Int /\ SumFunction(Shares(scores, t)) \in Int
    BY TotalsSortable
  <2>2. /\ Totals(scores)[s] = [num |-> SumFunction(Shares(scores, s)), den |-> 1]
        /\ Totals(scores)[t] = [num |-> SumFunction(Shares(scores, t)), den |-> 1]
    BY DEF Totals
  <2> QED BY <2>1, <2>2 DEF SortsBefore, Before
<1>3. DOMAIN Totals(scores) = DOMAIN scores
  BY DEF Totals
<1> QED BY <1>1, <1>2, <1>3, TotalsSortable, Ranked

\* What sorts before on every signal ranks ahead.
LEMMA DominationFused ==
  ASSUME NEW scores, Scored(scores), NEW s \in DOMAIN scores, NEW t \in DOMAIN scores,
         DOMAIN scores[t] \subseteq DOMAIN scores[s],
         \A g \in DOMAIN scores[t] : SortsBefore(OnSignal(scores, g), s, t)
  PROVE  Fused(scores)[s].rank < Fused(scores)[t].rank
<1> DEFINE n == Cardinality(DOMAIN scores)
<1>1. PICK S, T : S = DOMAIN scores[s] /\ T = DOMAIN scores[t]
  OBVIOUS
<1>2. IsFiniteSet(S) /\ IsFiniteSet(T) /\ T \in SUBSET S /\ T # {}
  BY <1>1 DEF Scored
<1>3. PICK f, h : f = Shares(scores, s) /\ h = Shares(scores, t)
  OBVIOUS
<1>4. f \in [S -> Int] /\ h \in [T -> Int] /\ \A g \in S : 0 < f[g]
  BY <1>1, <1>3, SharesPositive
<1>5. ASSUME NEW g \in T PROVE h[g] < f[g]
  <2>1. /\ n \in Nat /\ Ranks(scores)[g][s] \in 1 .. n /\ Ranks(scores)[g][t] \in 1 .. n
        /\ Ranks(scores)[g][s] < Ranks(scores)[g][t]
    BY <1>1, <1>2, SignalsRanked
  <2>2. Reciprocal(Ranks(scores)[g][t], n) < Reciprocal(Ranks(scores)[g][s], n)
    BY <2>1, ReciprocalsFall
  <2> QED BY <1>1, <1>2, <1>3, <2>2 DEF Shares
<1>6. PICK it : SumsOf(f, S, it)
  BY <1>2, <1>4, SumsExist
<1>7. PICK k : k = [g \in T |-> f[g]]
  OBVIOUS
<1>a. k \in [T -> Int] /\ \A g \in T : k[g] = f[g]
  BY <1>2, <1>4, <1>7
<1>8. PICK kt : SumsOf(k, T, kt)
  BY <1>2, <1>a, SumsExist
<1>9. PICK jt : SumsOf(h, T, jt)
  BY <1>2, <1>4, SumsExist
<1>10. jt[T] < kt[T]
  <2>1. \A g \in T : h[g] < k[g]
    BY <1>5, <1>a
  <2>2. \A r \in SUBSET T : jt[r] <= kt[r] /\ (r # {} => jt[r] < kt[r])
    BY <1>2, <1>4, <1>a, <1>8, <1>9, <2>1, SumsCompare
  <2> QED BY <1>2, <2>2
<1>11. kt[T] = it[T]
  <2>1. SumFunction([g \in T |-> f[g]]) = it[T]
    BY <1>2, <1>6 DEF SumsOf
  <2>2. SumFunction([g \in T |-> k[g]]) = kt[T]
    <3>1. T \in SUBSET T
      OBVIOUS
    <3> QED BY <1>8, <3>1 DEF SumsOf
  <2>3. [g \in T |-> k[g]] = [g \in T |-> f[g]]
    BY <1>a
  <2> QED BY <2>1, <2>2, <2>3
<1>12. it[T] <= it[S]
  <2>1. \A g \in S : 0 <= f[g]
    BY <1>4
  <2> QED BY <1>2, <1>4, <1>6, <2>1, SumsGrow
<1>13. SumFunction(f) = it[S] /\ SumFunction(h) = jt[T]
  <2>1. [g \in S |-> f[g]] = f /\ [g \in T |-> h[g]] = h /\ S \in SUBSET S /\ T \in SUBSET T
    BY <1>4
  <2>2. SumFunction([g \in S |-> f[g]]) = it[S] /\ SumFunction([g \in T |-> h[g]]) = jt[T]
    BY <1>6, <1>9, <2>1 DEF SumsOf
  <2> QED BY <2>1, <2>2
<1>14. it[S] \in Int /\ it[T] \in Int /\ jt[T] \in Int
  BY <1>2, <1>6, <1>9 DEF SumsOf
<1>15. SumFunction(h) < SumFunction(f)
  BY <1>10, <1>11, <1>12, <1>13, <1>14
<1> QED BY <1>3, <1>15, SumsRank

\* With few solutions, what has more signals ranks ahead.
LEMMA MoreSignalsFused ==
  ASSUME NEW scores, Scored(scores), NEW s \in DOMAIN scores, NEW t \in DOMAIN scores,
         Cardinality(DOMAIN scores[t]) < Cardinality(DOMAIN scores[s]),
         Cardinality(DOMAIN scores[t]) * (Cardinality(DOMAIN scores) - 1) <= RrfK
  PROVE  Fused(scores)[s].rank < Fused(scores)[t].rank
<1>1. PICK S, T, n, l, m :
        /\ S = DOMAIN scores[s] /\ T = DOMAIN scores[t] /\ n = Cardinality(DOMAIN scores)
        /\ l = Cardinality(S) /\ m = Cardinality(T)
  OBVIOUS
<1>2. IsFiniteSet(S) /\ IsFiniteSet(T) /\ l \in Nat /\ m \in Nat
  BY <1>1, FS_CardinalityType DEF Scored
<1>3. ASSUME NEW r \in DOMAIN scores, NEW g \in DOMAIN scores[r]
      PROVE  n \in Nat /\ 1 <= n /\ Ranks(scores)[g][r] \in 1 .. n
  BY <1>1, SignalsRanked
<1>4. n \in Nat /\ 1 <= n
  <2>1. "attribute_match" \in DOMAIN scores[s]
    BY DEF Scored
  <2> QED BY <1>3, <2>1
<1>5. PICK lo \in Int, hi \in Int : lo = Reciprocal(n, n) /\ hi = Reciprocal(1, n)
  BY <1>4, Reciprocals
<1>6. m * hi < l * lo
  BY <1>1, <1>2, <1>4, <1>5, MoreOutweigh
<1>7. ASSUME NEW q \in 1 .. n PROVE lo <= Reciprocal(q, n) /\ Reciprocal(q, n) <= hi
  <2>1. Reciprocal(q, n) \in Int
    BY <1>4, Reciprocals
  <2>2. q < n => lo < Reciprocal(q, n)
    BY <1>4, <1>5, ReciprocalsFall
  <2>3. 1 < q => Reciprocal(q, n) < hi
    BY <1>4, <1>5, ReciprocalsFall
  <2> QED BY <1>4, <1>5, <2>1, <2>2, <2>3
<1>8. ASSUME NEW r \in DOMAIN scores
      PROVE  /\ SumFunction(Shares(scores, r)) \in Int
             /\ Cardinality(DOMAIN scores[r]) * lo <= SumFunction(Shares(scores, r))
             /\ SumFunction(Shares(scores, r)) <= Cardinality(DOMAIN scores[r]) * hi
  <2>1. PICK R, f : R = DOMAIN scores[r] /\ f = Shares(scores, r)
    OBVIOUS
  <2>2. IsFiniteSet(R) /\ f \in [R -> Int]
    BY <2>1, SharesPositive DEF Scored
  <2>3. \A g \in R : lo <= f[g] /\ f[g] <= hi
    BY <1>1, <1>3, <1>7, <2>1 DEF Shares
  <2>4. PICK it : SumsOf(f, R, it)
    BY <2>2, SumsExist
  <2>5. Cardinality(R) * lo <= it[R] /\ it[R] <= Cardinality(R) * hi
    BY <2>2, <2>3, <2>4, SumsBounded
  <2>6. f = [g \in R |-> f[g]] /\ R \in SUBSET R
    BY <2>2
  <2>7. SumFunction(f) = it[R] /\ it[R] \in Int
    BY <2>4, <2>6 DEF SumsOf
  <2> QED BY <2>1, <2>5, <2>7
<1>9. SumFunction(Shares(scores, t)) < SumFunction(Shares(scores, s))
  <2>1. m * hi \in Int /\ l * lo \in Int
    BY <1>2
  <2> QED BY <1>1, <1>6, <1>8, <2>1
<1> QED BY <1>9, SumsRank

----------------------------------------------------------------------------
(* What a job computes *)

\* The sum of a function that has numbers on a finite set is a number.
LEMMA SumType ==
  ASSUME NEW S, IsFiniteSet(S), NEW f \in [S -> Int]
  PROVE  SumFunction(f) \in Int
<1>1. PICK it : SumsOf(f, S, it)
  BY SumsExist
<1>2. f = [x \in S |-> f[x]] /\ S \in SUBSET S
  OBVIOUS
<1>3. SumFunction(f) = it[S] /\ it[S] \in Int
  BY <1>1, <1>2 DEF SumsOf
<1> QED BY <1>3

LEMMA WeightType ==
  ASSUME NEW rows \in Seq(Requirement), NEW I, I \subseteq DOMAIN rows
  PROVE  TotalWeight(rows, I) \in Int
<1>1. IsFiniteSet(DOMAIN rows)
  <2>1. DOMAIN rows = 1 .. Len(rows) /\ Len(rows) \in Nat
    OBVIOUS
  <2> QED BY <2>1, FS_Interval
<1>2. IsFiniteSet(I)
  BY <1>1, FS_Subset
<1>3. [i \in I |-> rows[i].weight] \in [I -> Int]
  <2>1. ASSUME NEW i \in I PROVE rows[i].weight \in Int
    <3>1. rows[i] \in Requirement
      OBVIOUS
    <3> QED BY <3>1 DEF Requirement
  <2> QED BY <2>1
<1> QED BY <1>2, <1>3, SumType DEF TotalWeight

LEMMA AttributeScoreType ==
  ASSUME NEW attrs, NEW rows \in Seq(Requirement)
  PROVE  AttributeScore(attrs, rows) \in Fraction
<1>1. TotalWeight(rows, DOMAIN rows) \in Int
  BY WeightType
<1>2. TotalWeight(rows, {i \in DOMAIN rows : rows[i].pair \in attrs}) \in Int
  BY WeightType
<1> QED BY <1>1, <1>2 DEF AttributeScore, Fraction

LEMMA ProductType ==
  ASSUME NEW a \in Seq(Int), NEW b \in Seq(Int), Len(a) = Len(b)
  PROVE  Product(a, b) \in Int
<1>1. DOMAIN a = 1 .. Len(a) /\ Len(a) \in Nat /\ DOMAIN b = DOMAIN a
  OBVIOUS
<1>2. IsFiniteSet(DOMAIN a)
  BY <1>1, FS_Interval
<1>3. [i \in DOMAIN a |-> a[i] * b[i]] \in [DOMAIN a -> Int]
  <2>1. \A i \in DOMAIN a : a[i] \in Int /\ b[i] \in Int
    BY <1>1
  <2>2. \A i \in DOMAIN a : a[i] * b[i] \in Int
    BY <2>1
  <2> QED BY <2>2
<1> QED BY <1>2, <1>3, SumType DEF Product

LEMMA CosineType ==
  ASSUME NEW a \in Seq(Int), NEW b \in Seq(Int)
  PROVE  Cosine(a, b) \in Fraction
<1>1. CASE Len(a) # Len(b) \/ Product(a, a) <= 0 \/ Product(b, b) <= 0
  BY <1>1 DEF Cosine, Fraction
<1>2. CASE ~(Len(a) # Len(b) \/ Product(a, a) <= 0 \/ Product(b, b) <= 0)
  <2>1. PICK x \in Int, y \in Int, z \in Int :
          x = Product(a, b) /\ y = Product(a, a) /\ z = Product(b, b)
    <3>1. Product(a, b) \in Int /\ Product(a, a) \in Int /\ Product(b, b) \in Int
      BY <1>2, ProductType
    <3> QED BY <3>1
  <2>2. 0 < y /\ 0 < z
    BY <1>2, <2>1
  <2>3. 0 < y * z /\ y * z \in Int /\ x * x \in Int /\ -x * x \in Int
    BY <2>2
  <2>4. Cosine(a, b) = [num |-> IF x < 0 THEN -x * x ELSE x * x, den |-> y * z]
    BY <1>2, <2>1 DEF Cosine
  <2> QED BY <2>3, <2>4 DEF Fraction
<1> QED BY <1>1, <1>2

\* The vectors a job picks from rows it has fetched.
LEMMA VectorsPicked ==
  ASSUME NEW rows \in SUBSET EmbeddingVector, IsFiniteSet(rows), NEW v \in MostRecent(rows)
  PROVE  /\ \A key \in DOMAIN v : v[key].vector \in Seq(Int)
         /\ IsFiniteSet({key[2] : key \in {k \in DOMAIN v : k[1] = Rfp}})
<1>1. v \in [{KeyOf(r) : r \in rows} -> rows]
  BY DEF MostRecent
<1>2. \A key \in DOMAIN v : v[key].vector \in Seq(Int)
  BY <1>1 DEF EmbeddingVector
<1> DEFINE spaces == {r.embedding_space : r \in rows}
           f == [r \in rows |-> r.embedding_space]
<1>3. IsFiniteSet(spaces)
  <2>1. f \in Surjection(rows, spaces)
    BY DEF Surjection
  <2> HIDE DEF f, spaces
  <2> QED BY <2>1, FS_Surjection
<1>4. {key[2] : key \in {k \in DOMAIN v : k[1] = Rfp}} \in SUBSET spaces
  <2> SUFFICES ASSUME NEW key \in DOMAIN v PROVE key[2] \in spaces
    OBVIOUS
  <2>1. PICK r \in rows : key = KeyOf(r)
    BY <1>1
  <2> QED BY <2>1 DEF KeyOf
<1> HIDE DEF spaces
<1> QED BY <1>2, <1>3, <1>4, FS_Subset

\* What a job that has fetched so much holds is of the right kind; the matches of one
\* that has completed are a fusion of scores.
Stored == [s \in DOMAIN matches |-> matches[s].signal_scores]

FusionInv ==
  /\ requirements \in Seq(Requirement)
  /\ embeddings \in SUBSET EmbeddingVector /\ IsFiniteSet(embeddings)
  /\ status \in [SolutionIds -> SolutionStatus \cup {"absent"}]
  /\ At("fetch_solutions") \/ At("fetch_attributes") \/ At("fetch_embeddings") =>
       job.requirements \in Seq(Requirement)
  /\ At("fetch_attributes") => job.solutions \in SUBSET SolutionIds
  /\ At("fetch_embeddings") => job.survivors \in SUBSET SolutionIds
  /\ At("store") => Scored(job.scores)
  /\ At("completed") => Scored(Stored) /\ matches = Fused(Stored)
  /\ ~At("completed") => matches = <<>>

\* The scores of a job's survivors can be fused.
LEMMA ScoresAreScored ==
  ASSUME FusionInv, At("fetch_embeddings"),
         NEW v \in MostRecent({e \in embeddings : e.owner_id \in {Rfp} \cup job.survivors})
  PROVE  Scored(SignalScores(v))
<1> DEFINE rows == {e \in embeddings : e.owner_id \in {Rfp} \cup job.survivors}
           spaces == {key[2] : key \in {k \in DOMAIN v : k[1] = Rfp}}
           S == SignalScores(v)
<1>1. rows \in SUBSET EmbeddingVector /\ IsFiniteSet(rows)
  <2>1. rows \in SUBSET embeddings
    OBVIOUS
  <2> QED BY <2>1, FS_Subset DEF FusionInv
<1>2. (\A key \in DOMAIN v : v[key].vector \in Seq(Int)) /\ IsFiniteSet(spaces)
  <2> HIDE DEF rows
  <2>1. v \in MostRecent(rows)
    BY DEF rows
  <2> QED BY <1>1, <2>1, VectorsPicked, Zenon
<1>3. DOMAIN S = job.survivors /\ job.survivors \subseteq SolutionIds
  BY DEF SignalScores, FusionInv
<1>4. ASSUME NEW s \in job.survivors
      PROVE  /\ DOMAIN S[s] = {"attribute_match"} \cup {sp \in spaces : <<s, sp>> \in DOMAIN v}
             /\ \A g \in DOMAIN S[s] :
                  S[s][g] = IF g \in spaces /\ <<s, g>> \in DOMAIN v
                            THEN Cosine(v[<<Rfp, g>>].vector, v[<<s, g>>].vector)
                            ELSE AttributeScore(job.attributes[s], job.requirements)
  BY DEF SignalScores
<1>5. ASSUME NEW s \in job.survivors PROVE IsFiniteSet(DOMAIN S[s])
  <2>1. {sp \in spaces : <<s, sp>> \in DOMAIN v} \in SUBSET spaces
    OBVIOUS
  <2>2. IsFiniteSet({sp \in spaces : <<s, sp>> \in DOMAIN v})
    <3> HIDE DEF spaces
    <3> QED BY <1>2, <2>1, FS_Subset
  <2>3. IsFiniteSet({sp \in spaces : <<s, sp>> \in DOMAIN v} \cup {"attribute_match"})
    BY <2>2, FS_AddElement
  <2>4. DOMAIN S[s] = {sp \in spaces : <<s, sp>> \in DOMAIN v} \cup {"attribute_match"}
    BY <1>4
  <2> QED BY <2>3, <2>4
<1>6. ASSUME NEW s \in job.survivors, NEW g \in DOMAIN S[s] PROVE S[s][g] \in Fraction
  <2>1. CASE g \in spaces /\ <<s, g>> \in DOMAIN v
    <3>1. <<Rfp, g>> \in DOMAIN v
      <4>1. PICK key \in DOMAIN v : key[1] = Rfp /\ key[2] = g
        BY <2>1
      <4>2. PICK r \in rows : key = KeyOf(r)
        BY <4>1 DEF MostRecent
      <4>3. key = <<Rfp, g>>
        BY <4>1, <4>2 DEF KeyOf
      <4> QED BY <4>1, <4>3
    <3>2. v[<<Rfp, g>>].vector \in Seq(Int) /\ v[<<s, g>>].vector \in Seq(Int)
      BY <1>2, <2>1, <3>1
    <3>3. Cosine(v[<<Rfp, g>>].vector, v[<<s, g>>].vector) \in Fraction
      BY <3>2, CosineType
    <3> QED BY <1>4, <2>1, <3>3
  <2>2. CASE ~(g \in spaces /\ <<s, g>> \in DOMAIN v)
    <3>1. AttributeScore(job.attributes[s], job.requirements) \in Fraction
      BY AttributeScoreType DEF FusionInv
    <3> QED BY <1>4, <2>2, <3>1
  <2> QED BY <2>1, <2>2
<1>7. S = [s \in DOMAIN S |-> S[s]]
  BY DEF SignalScores
<1> HIDE DEF S, spaces
<1> QED BY <1>3, <1>4, <1>5, <1>6, <1>7 DEF Scored, S

LEMMA InitFusion == Init => FusionInv
<1> SUFFICES ASSUME Init PROVE FusionInv
  OBVIOUS
<1>1. embeddings \in SUBSET EmbeddingVector /\ IsFiniteSet(embeddings)
  BY MatchingJobAssumption DEF Init
<1> QED BY <1>1, MatchingJobAssumption DEF Init, FusionInv, At

\* Every step keeps FusionInv.
LEMMA NextFusion == FusionInv /\ [Next]_vars => FusionInv'
<1> SUFFICES ASSUME FusionInv, [Next]_vars PROVE FusionInv'
  OBVIOUS
<1>s. ASSUME UNCHANGED matches PROVE Stored' = Stored
  BY <1>s DEF Stored
<1>e. ASSUME UNCHANGED <<job, matches>>, requirements' \in Seq(Requirement),
             embeddings' \in SUBSET EmbeddingVector, IsFiniteSet(embeddings'),
             status' \in [SolutionIds -> SolutionStatus \cup {"absent"}]
      PROVE  FusionInv'
  BY <1>s, <1>e DEF FusionInv, At
<1>1. ASSUME AddRequirement PROVE FusionInv'
  <2>1. PICK row \in RequirementRows : requirements' = Append(requirements, row)
    BY <1>1 DEF AddRequirement
  <2>2. requirements' \in Seq(Requirement)
    BY <2>1, MatchingJobAssumption DEF FusionInv
  <2> QED BY <1>1, <1>e, <2>2 DEF AddRequirement, Edit, FusionInv
<1>2. ASSUME NEW s \in SolutionIds, AddSolution(s) \/ PublishSolution(s) PROVE FusionInv'
  BY <1>2, <1>e DEF AddSolution, PublishSolution, Edit, FusionInv, SolutionStatus
<1>3. ASSUME NEW s \in SolutionIds, NEW p \in Pairs, AddAttribute(s, p) PROVE FusionInv'
  BY <1>3, <1>e DEF AddAttribute, Edit, FusionInv
<1>4. ASSUME StoreEmbedding PROVE FusionInv'
  <2>1. PICK row \in EmbeddingRows : embeddings' = embeddings \cup {row}
    BY <1>4 DEF StoreEmbedding
  <2>2. embeddings' \in SUBSET EmbeddingVector /\ IsFiniteSet(embeddings')
    BY <2>1, FS_AddElement, MatchingJobAssumption DEF FusionInv
  <2> QED BY <1>4, <1>e, <2>2 DEF StoreEmbedding, Edit, FusionInv
<1>5. ASSUME FetchRequirements PROVE FusionInv'
  <2>1. job' = [step |-> "fetch_solutions", requirements |-> requirements]
    BY <1>5 DEF FetchRequirements
  <2>2. job'.step = "fetch_solutions" /\ job'.requirements = requirements
    BY <2>1
  <2>3. UNCHANGED <<requirements, status, embeddings, matches>> /\ ~At("completed")
    BY <1>5 DEF FetchRequirements, tables, At
  <2> QED BY <2>2, <2>3 DEF FusionInv, At
<1>6. ASSUME FetchSolutions PROVE FusionInv'
  <2>1. job' = [step |-> "fetch_attributes", requirements |-> job.requirements,
                solutions |-> Published]
    BY <1>6 DEF FetchSolutions
  <2>2. job'.step = "fetch_attributes" /\ job'.requirements = job.requirements
        /\ job'.solutions = Published /\ Published \in SUBSET SolutionIds
    BY <2>1 DEF Published
  <2>3. UNCHANGED <<requirements, status, embeddings, matches>> /\ At("fetch_solutions")
    BY <1>6 DEF FetchSolutions, tables
  <2> QED BY <2>2, <2>3 DEF FusionInv, At
<1>7. ASSUME FetchAttributes PROVE FusionInv'
  <2> DEFINE candidates == [s \in job.solutions |-> attributes[s]]
             S == Survivors(candidates, job.requirements)
  <2>1. /\ job'.step = "fetch_embeddings" /\ job'.survivors = S
        /\ job'.requirements = job.requirements
    BY <1>7 DEF FetchAttributes
  <2>2. UNCHANGED <<requirements, status, embeddings, matches>> /\ At("fetch_attributes")
    BY <1>7 DEF FetchAttributes, tables
  <2>3. S \in SUBSET SolutionIds
    <3>1. S \in SUBSET job.solutions
      BY DEF Survivors
    <3> HIDE DEF S
    <3> QED BY <2>2, <3>1 DEF FusionInv
  <2> HIDE DEF S
  <2> QED BY <2>1, <2>2, <2>3 DEF FusionInv, At
<1>8. ASSUME FetchEmbeddings PROVE FusionInv'
  <2>1. PICK v \in MostRecent({e \in embeddings : e.owner_id \in {Rfp} \cup job.survivors}) :
          job' = [step |-> "store", scores |-> SignalScores(v)]
    BY <1>8 DEF FetchEmbeddings
  <2>2. job'.step = "store" /\ job'.scores = SignalScores(v)
    BY <2>1
  <2>3. UNCHANGED <<requirements, status, embeddings, matches>> /\ At("fetch_embeddings")
    BY <1>8 DEF FetchEmbeddings, tables
  <2>4. Scored(SignalScores(v))
    BY <2>1, <2>3, ScoresAreScored
  <2>5. Scored(job.scores)'
    BY <2>2, <2>4 DEF Scored
  <2> QED BY <2>2, <2>3, <2>5 DEF FusionInv, At
<1>9. ASSUME StoreMatches PROVE FusionInv'
  <2>1. PICK scores : scores = job.scores /\ Scored(scores) /\ matches' = Fused(scores)
    BY <1>9 DEF StoreMatches, FusionInv
  <2>2. DOMAIN matches' = DOMAIN scores
    BY <2>1, FusedDomain
  <2>3. \A s \in DOMAIN scores : matches'[s].signal_scores = scores[s]
    BY <2>1 DEF Fused
  <2>4. Stored' = scores
    <3>1. Stored' = [s \in DOMAIN scores |-> scores[s]]
      BY <2>2, <2>3 DEF Stored
    <3> QED BY <2>1, <3>1 DEF Scored
  <2>5. Scored(Stored)' /\ (matches = Fused(Stored))'
    <3>1. Scored(Stored)' <=> Scored(Stored')
      BY DEF Scored
    <3>2. matches' = Fused(Stored')
      BY <2>1, <2>4
    <3> QED BY <2>1, <2>4, <3>1, <3>2
  <2>6. UNCHANGED <<requirements, status, embeddings>> /\ job' = [step |-> "completed"]
    BY <1>9 DEF StoreMatches, tables
  <2> QED BY <2>5, <2>6 DEF FusionInv, At
<1>10. ASSUME FailRun PROVE FusionInv'
  BY <1>10 DEF FailRun, Running, At, FusionInv, tables
<1>11. ASSUME UNCHANGED vars PROVE FusionInv'
  BY <1>11, <1>e DEF vars, tables, FusionInv
<1> QED BY <1>1, <1>2, <1>3, <1>4, <1>5, <1>6, <1>7, <1>8, <1>9, <1>10, <1>11 DEF Next

LEMMA FusionInvariant == Spec => []FusionInv
BY InitFusion, NextFusion, PTL DEF Spec

\* The matches of a completed run are the fusion of their scores.
LEMMA MatchesAreFused ==
  ASSUME FusionInv, NEW s \in DOMAIN matches, NEW t \in DOMAIN matches
  PROVE  \E scores : /\ Scored(scores) /\ matches = Fused(scores)
                     /\ s \in DOMAIN scores /\ t \in DOMAIN scores
                     /\ DOMAIN scores = DOMAIN matches
                     /\ matches[s].signal_scores = scores[s]
                     /\ matches[t].signal_scores = scores[t]
<1>1. At("completed")
  BY DEF FusionInv
<1>2. PICK scores : scores = Stored
  OBVIOUS
<1>3. Scored(scores) /\ matches = Fused(scores)
  BY <1>1, <1>2 DEF FusionInv
<1>4. DOMAIN scores = DOMAIN matches /\ \A r \in DOMAIN matches : scores[r] = matches[r].signal_scores
  BY <1>2 DEF Stored
<1> QED BY <1>3, <1>4

\* Whatever was edited while the job ran, however many signals and solutions: a match
\* ranks ahead of what it dominates, and, as long as the matches are few against k, of
\* what has fewer signals, be its scores on them as low as they may.
THEOREM SignalsCount == Spec => []SignalsRankAhead
<1>1. FusionInv => SignalsRankAhead
  <2> SUFFICES ASSUME FusionInv, NEW s \in DOMAIN matches, NEW t \in DOMAIN matches,
                      Dominates(s, t) \/ Outnumbers(s, t)
               PROVE  matches[s].rank < matches[t].rank
    BY DEF SignalsRankAhead
  <2>1. PICK scores : /\ Scored(scores) /\ matches = Fused(scores)
                      /\ s \in DOMAIN scores /\ t \in DOMAIN scores
                      /\ DOMAIN scores = DOMAIN matches
                      /\ matches[s].signal_scores = scores[s]
                      /\ matches[t].signal_scores = scores[t]
    BY MatchesAreFused
  <2>2. CASE Dominates(s, t)
    <3>1. \A g \in DOMAIN scores[t] : OnSignal(scores, g)[s] = scores[s][g]
                                       /\ OnSignal(scores, g)[t] = scores[t][g]
      BY <2>1, <2>2 DEF OnSignal, Dominates
    <3>2. \A g \in DOMAIN scores[t] : SortsBefore(OnSignal(scores, g), s, t)
      BY <2>1, <2>2, <3>1 DEF SortsBefore, Dominates, Backend!Higher, Before
    <3>3. Fused(scores)[s].rank < Fused(scores)[t].rank
      BY <2>1, <2>2, <3>2, DominationFused DEF Dominates
    <3> QED BY <2>1, <3>3
  <2>3. CASE Outnumbers(s, t)
    <3>1. Fused(scores)[s].rank < Fused(scores)[t].rank
      BY <2>1, <2>3, MoreSignalsFused DEF Outnumbers
    <3> QED BY <2>1, <3>1
  <2> QED BY <2>2, <2>3
<1> QED BY <1>1, FusionInvariant, PTL

----------------------------------------------------------------------------
(* The two implementations *)

\* What backend-api's module takes from the libraries is what the worker's takes.
LEMMA SameSum == ASSUME NEW f PROVE Backend!SumFunction(f) = SumFunction(f)
BY DEF Backend!SumFunction, SumFunction, Backend!SumFunctionOnSet, SumFunctionOnSet,
       Backend!FoldFunctionOnSet, FoldFunctionOnSet, Backend!MapThenFoldSet, MapThenFoldSet

LEMMA SameProductOf == ASSUME NEW f PROVE Backend!ProductOf(f) = ProductOf(f)
BY DEF Backend!ProductOf, ProductOf, Backend!FoldFunction, FoldFunction,
       Backend!FoldFunctionOnSet, FoldFunctionOnSet, Backend!MapThenFoldSet, MapThenFoldSet

LEMMA SameCardinality == ASSUME NEW S PROVE Backend!Cardinality(S) = Cardinality(S)
BY DEF Backend!Cardinality, Cardinality

\* Filter, scores and ranks are the same.
LEMMA SameSurvivors ==
  ASSUME NEW candidates, NEW rows
  PROVE  Backend!FilterHardConstraints(candidates, rows) = Survivors(candidates, rows)
BY SameFilter DEF Backend!FilterHardConstraints, Survivors, Sat

LEMMA SameAttributeScore ==
  ASSUME NEW attrs, NEW rows
  PROVE  Backend!ScoreAttributeMatch(attrs, rows) = AttributeScore(attrs, rows)
BY SameSum DEF Backend!ScoreAttributeMatch, Backend!Weight, Backend!Matched, Backend!ZeroScore,
               AttributeScore, TotalWeight

LEMMA SameCosine ==
  ASSUME NEW a \in Seq(Int), NEW b \in Seq(Int)
  PROVE  Backend!CosineSimilarity(a, b) = Cosine(a, b)
<1>1. Backend!Dot(a, b) = Product(a, b) /\ Backend!Dot(a, a) = Product(a, a)
      /\ Backend!Dot(b, b) = Product(b, b)
  BY SameSum DEF Backend!Dot, Product
<1>2. CASE Len(a) # Len(b)
  BY <1>2 DEF Backend!CosineSimilarity, Backend!ZeroScore, Cosine
<1>3. CASE Len(a) = Len(b)
  <2>1. PICK x \in Int : x = Product(a, b)
    BY <1>3, ProductType
  <2>2. (-x) * x = x * (-x)
    OBVIOUS
  <2> QED BY <1>1, <1>3, <2>1, <2>2 DEF Backend!CosineSimilarity, Backend!ZeroScore, Cosine
<1> QED BY <1>2, <1>3

\* A numbering that backend-api's rank_signal may choose is the worker's.
LEMMA SameRanks ==
  ASSUME NEW scores, Sortable(scores)
  PROVE  Backend!RankSignal(scores) = SignalRank(scores)
<1> DEFINE D == DOMAIN scores
           R == Order(scores)
           Ok(rank) == \A s, t \in D : SortsBefore(scores, s, t) => rank[s] < rank[t]
<1>1. IsFiniteSet(D) /\ Sorts(R, D) /\ Follows(SignalRank(scores), R, D)
  BY Ranked
<1>2. PICK f : f = Backend!RankSignal(scores)
  OBVIOUS
<1>3. f = CHOOSE rank \in [D -> 1 .. Cardinality(D)] : Ok(rank)
  BY <1>2, SameCardinality DEF Backend!RankSignal, Backend!Higher, SortsBefore, Before
<1>4. SignalRank(scores) \in [D -> 1 .. Cardinality(D)] /\ Ok(SignalRank(scores))
  BY Ranked
<1>5. f \in [D -> 1 .. Cardinality(D)] /\ Ok(f)
  <2> HIDE DEF Ok, D
  <2> QED BY <1>3, <1>4
<1>6. Follows(f, R, D)
  BY <1>5, OrderSorts DEF Follows
<1>7. ASSUME NEW x \in D PROVE f[x] = SignalRank(scores)[x]
  <2>1. PICK S, Q, g : S = D /\ Q = R /\ g = SignalRank(scores)
    OBVIOUS
  <2>2. IsFiniteSet(S) /\ Sorts(Q, S) /\ Follows(f, Q, S) /\ Follows(g, Q, S) /\ x \in S
    BY <1>1, <1>6, <2>1
  <2>3. f[x] = Cardinality({y \in S : <<y, x>> \in Q}) + 1
    BY <2>2, OneNumbering
  <2>4. g[x] = Cardinality({y \in S : <<y, x>> \in Q}) + 1
    BY <2>2, OneNumbering
  <2> QED BY <2>1, <2>3, <2>4
<1> QED BY <1>2, <1>4, <1>5, <1>7
LEMMA DivisionUndoes ==
  ASSUME NEW a \in Int, NEW b \in Int, 0 < a
  PROVE  (a * b) \div a = b
OBVIOUS

\* On scores of a job the two fusions agree.
LEMMA SameFusion ==
  ASSUME NEW scores, Scored(scores), NEW weights,
         \A s \in DOMAIN scores : \A g \in DOMAIN scores[s] : g \in DOMAIN weights /\ weights[g] = 1
  PROVE  Backend!FuseRrf(scores, weights) = Fused(scores)
<1> DEFINE D == DOMAIN scores
           n == Cardinality(D)
<1>1. PICK ranks : ranks = [g \in UNION {DOMAIN scores[s] : s \in D} |->
                             Backend!RankSignal([s \in Backend!WithSignal(scores, g) |-> scores[s][g]])]
  OBVIOUS
<1>2. ranks = Ranks(scores)
  <2>1. ASSUME NEW g \in UNION {DOMAIN scores[s] : s \in D}
        PROVE  Backend!RankSignal(OnSignal(scores, g)) = SignalRank(OnSignal(scores, g))
    <3>1. PICK s \in D : g \in DOMAIN scores[s]
      OBVIOUS
    <3>2. Sortable(OnSignal(scores, g))
      BY <3>1, SignalsRanked
    <3> QED BY <3>2, SameRanks
  <2>2. \A g : [s \in Backend!WithSignal(scores, g) |-> scores[s][g]] = OnSignal(scores, g)
    BY DEF Backend!WithSignal, OnSignal
  <2>3. Ranks(scores) = [g \in UNION {DOMAIN scores[s] : s \in D} |-> SignalRank(OnSignal(scores, g))]
    BY DEF Ranks, OnSignal
  <2> QED BY <1>1, <2>1, <2>2, <2>3
<1>3. PICK unit : unit = Backend!ProductOf([r \in 1 .. n |-> RrfK + r])
  OBVIOUS
<1>4. unit = Unit(n)
  BY <1>3, SameProductOf DEF Unit
<1>5. PICK share : share = [s \in D |-> [g \in DOMAIN scores[s] |->
                             IF g \in DOMAIN weights
                             THEN weights[g] * (unit \div (RrfK + ranks[g][s])) ELSE 0]]
  OBVIOUS
<1>6. ASSUME NEW s \in D PROVE share[s] = Shares(scores, s)
  <2>1. ASSUME NEW g \in DOMAIN scores[s]
        PROVE  share[s][g] = Reciprocal(Ranks(scores)[g][s], n)
    <3>1. n \in Nat /\ Ranks(scores)[g][s] \in 1 .. n
      BY SignalsRanked
    <3>2. PICK r \in 1 .. n, b \in Int : r = Ranks(scores)[g][s] /\ b = Reciprocal(r, n)
      BY <3>1, Reciprocals
    <3>3. (RrfK + r) * b = Unit(n) /\ RrfK + r \in Int /\ 0 < RrfK + r
      BY <3>1, <3>2, Reciprocals, MatchingJobAssumption
    <3>4. unit \div (RrfK + r) = b
      BY <1>4, <3>3, DivisionUndoes
    <3>5. share[s][g] = 1 * (unit \div (RrfK + r))
      BY <1>2, <1>5, <3>2
    <3> QED BY <3>2, <3>4, <3>5
  <2>2. share[s] = [g \in DOMAIN scores[s] |-> share[s][g]]
    BY <1>5
  <2> QED BY <2>1, <2>2 DEF Shares
<1>7. PICK fused : fused = [s \in D |-> Backend!SumFunction(share[s])]
  OBVIOUS
<1>8. \A s \in D : fused[s] = SumFunction(Shares(scores, s))
  BY <1>6, <1>7, SameSum
<1>9. Backend!RankSignal([s \in D |-> [num |-> fused[s], den |-> 1]]) = SignalRank(Totals(scores))
  <2>1. [s \in D |-> [num |-> fused[s], den |-> 1]] = Totals(scores)
    BY <1>8 DEF Totals
  <2> QED BY <2>1, SameRanks, TotalsSortable
<1>10. Backend!FuseRrf(scores, weights) =
         [s \in D |-> [final_rrf_score |-> fused[s],
                       rank |-> Backend!RankSignal([r \in D |-> [num |-> fused[r], den |-> 1]])[s],
                       signal_scores |-> scores[s],
                       signal_ranks |-> [g \in DOMAIN scores[s] |-> ranks[g][s]]]]
  BY <1>1, <1>3, <1>5, <1>7, SameCardinality DEF Backend!FuseRrf
<1>11. Fused(scores) =
         [s \in D |-> [final_rrf_score |-> SumFunction(Shares(scores, s)),
                       rank |-> SignalRank(Totals(scores))[s],
                       signal_scores |-> scores[s],
                       signal_ranks |-> [g \in DOMAIN scores[s] |-> Ranks(scores)[g][s]]]]
  BY DEF Fused, Shares, Totals
<1> QED BY <1>2, <1>8, <1>9, <1>10, <1>11

\* Of the rows of one owner and space some is the newest.
LEMMA NewestExists ==
  ASSUME NEW rows \in SUBSET EmbeddingVector, IsFiniteSet(rows), NEW r \in rows
  PROVE  \E q \in Backend!Newest(rows, KeyOf(r)) : TRUE
<1> DEFINE Own == {q \in rows : KeyOf(q) = KeyOf(r)}
           Later(q) == {p \in Own : q.generated_at < p.generated_at}
           Counts == {Cardinality(Later(q)) : q \in Own}
<1>1. \A q \in rows : q.generated_at \in Nat
  BY DEF EmbeddingVector
<1>2. ASSUME NEW q \in Own PROVE IsFiniteSet(Later(q)) /\ Cardinality(Later(q)) \in Nat
  <2>1. Later(q) \in SUBSET rows
    OBVIOUS
  <2> HIDE DEF Later
  <2> QED BY <2>1, FS_Subset, FS_CardinalityType
<1>3. Counts \in SUBSET Nat /\ Counts # {}
  <2>1. r \in Own
    OBVIOUS
  <2> HIDE DEF Own, Later
  <2> QED BY <1>2, <2>1
<1>4. PICK q \in Own : \A p \in Own : Cardinality(Later(q)) <= Cardinality(Later(p))
  <2> HIDE DEF Own, Later
  <2>1. PICK m \in Counts : \A x \in Counts : m <= x
    <3> HIDE DEF Counts
    <3> QED BY <1>3, Least
  <2> QED BY <2>1
<1>5. ASSUME NEW p \in Later(q) PROVE FALSE
  <2>1. p \in Own
    OBVIOUS
  <2>2. PICK P, Q : P = Later(p) /\ Q = Later(q)
    OBVIOUS
  <2>3. P \in SUBSET Q /\ p \in Q /\ p \notin P
    BY <1>1, <1>4, <2>2
  <2>4. IsFiniteSet(Q) /\ Cardinality(Q) \in Nat /\ Cardinality(P) \in Nat
        /\ Cardinality(Q) <= Cardinality(P)
    <3> HIDE DEF Later, Own
    <3> QED BY <1>2, <1>4, <2>1, <2>2
  <2>5. Cardinality(P) <= Cardinality(Q) /\ Cardinality(P) # Cardinality(Q)
    BY <2>3, <2>4, FS_Subset
  <2> QED BY <2>4, <2>5
<1>6. \A p \in rows : KeyOf(p) = KeyOf(r) => p.generated_at <= q.generated_at
  BY <1>1, <1>4, <1>5
<1>7. q \in Backend!Newest(rows, KeyOf(r))
  BY <1>4, <1>6 DEF Backend!Newest, Backend!KeyOf, KeyOf
<1> QED BY <1>7

\* As long as nobody edits, what the job holds is what it would read now.
Relevant == {e \in embeddings : e.owner_id \in {Rfp} \cup Survivors(Candidates, requirements)}

RestScores(v) ==
  LET spaces == {key[2] : key \in {k \in DOMAIN v : k[1] = Rfp}}
  IN  [s \in Survivors(Candidates, requirements) |->
        [g \in {"attribute_match"} \cup {sp \in spaces : <<s, sp>> \in DOMAIN v} |->
          IF g \in spaces /\ <<s, g>> \in DOMAIN v
          THEN Cosine(v[<<Rfp, g>>].vector, v[<<s, g>>].vector)
          ELSE AttributeScore(Candidates[s], requirements)]]

RestInv ==
  /\ edits \in Nat
  /\ edits = 0 =>
       /\ At("fetch_solutions") \/ At("fetch_attributes") \/ At("fetch_embeddings") =>
            job.requirements = requirements
       /\ At("fetch_attributes") => job.solutions = Published
       /\ At("fetch_embeddings") => /\ job.attributes = Candidates
                                    /\ job.survivors = Survivors(Candidates, requirements)
       /\ At("store") => \E v \in MostRecent(Relevant) : job.scores = RestScores(v)
       /\ At("completed") => \E v \in MostRecent(Relevant) : matches = Fused(RestScores(v))

LEMMA RestInvariant == Spec => []RestInv
<1>1. Init => RestInv
  BY DEF Init, RestInv, At
<1>2. RestInv /\ [Next]_vars => RestInv'
  <2> SUFFICES ASSUME RestInv, [Next]_vars PROVE RestInv'
    OBVIOUS
  <2>e. ASSUME Edit PROVE RestInv'
    BY <2>e DEF Edit, RestInv
  <2>t. ASSUME UNCHANGED tables
        PROVE  /\ Published' = Published /\ Candidates' = Candidates /\ Relevant' = Relevant
               /\ requirements' = requirements
               /\ \A v : RestScores(v)' = RestScores(v)
    BY <2>t DEF tables, Published, Candidates, Relevant, RestScores
  <2>1. CASE FetchRequirements
    <3>1. job' = [step |-> "fetch_solutions", requirements |-> requirements]
          /\ UNCHANGED <<tables, edits>>
      BY <2>1 DEF FetchRequirements
    <3>2. job'.step = "fetch_solutions" /\ job'.requirements = requirements
      BY <3>1
    <3> QED BY <2>t, <3>1, <3>2 DEF RestInv, At
  <2>2. CASE FetchSolutions
    <3>1. /\ job' = [step |-> "fetch_attributes", requirements |-> job.requirements,
                     solutions |-> Published]
          /\ UNCHANGED <<tables, edits>> /\ At("fetch_solutions")
      BY <2>2 DEF FetchSolutions
    <3>2. job'.step = "fetch_attributes" /\ job'.requirements = job.requirements
          /\ job'.solutions = Published
      BY <3>1
    <3> QED BY <2>t, <3>1, <3>2 DEF RestInv, At
  <2>3. CASE FetchAttributes
    <3> DEFINE candidates == [s \in job.solutions |-> attributes[s]]
    <3>1. /\ job'.step = "fetch_embeddings" /\ job'.requirements = job.requirements
          /\ job'.attributes = candidates
          /\ job'.survivors = Survivors(candidates, job.requirements)
          /\ UNCHANGED <<tables, edits>> /\ At("fetch_attributes")
      BY <2>3 DEF FetchAttributes
    <3>2. job.solutions = Published => candidates = Candidates
      BY DEF Candidates
    <3> HIDE DEF candidates
    <3> QED BY <2>t, <3>1, <3>2 DEF RestInv, At
  <2>4. CASE FetchEmbeddings
    <3>1. PICK v \in MostRecent({e \in embeddings : e.owner_id \in {Rfp} \cup job.survivors}) :
            job' = [step |-> "store", scores |-> SignalScores(v)]
      BY <2>4 DEF FetchEmbeddings
    <3>2. job'.step = "store" /\ job'.scores = SignalScores(v)
      BY <3>1
    <3>3. UNCHANGED <<tables, edits>> /\ At("fetch_embeddings")
      BY <2>4 DEF FetchEmbeddings
    <3>4. ASSUME edits = 0 PROVE v \in MostRecent(Relevant) /\ SignalScores(v) = RestScores(v)
      <4>1. job.requirements = requirements /\ job.attributes = Candidates
            /\ job.survivors = Survivors(Candidates, requirements)
        BY <3>3, <3>4 DEF RestInv
      <4> QED BY <3>1, <4>1 DEF Relevant, SignalScores, RestScores
    <3> QED BY <2>t, <3>2, <3>3, <3>4 DEF RestInv, At
  <2>5. CASE StoreMatches
    <3>1. /\ matches' = Fused(job.scores) /\ job'.step = "completed"
          /\ UNCHANGED <<tables, edits>> /\ At("store")
      BY <2>5 DEF StoreMatches
    <3> QED BY <2>t, <3>1 DEF RestInv, At
  <2>6. CASE FailRun
    <3>1. job'.step = "failed" /\ UNCHANGED edits
      BY <2>6 DEF FailRun
    <3> QED BY <3>1 DEF RestInv, At
  <2>7. CASE UNCHANGED vars
    <3>1. UNCHANGED <<tables, job, matches, edits>>
      BY <2>7 DEF vars
    <3> QED BY <2>t, <3>1 DEF RestInv, At
  <2>8. ASSUME AddRequirement \/ StoreEmbedding
               \/ \E s \in SolutionIds : \/ AddSolution(s) \/ PublishSolution(s)
                                         \/ \E p \in Pairs : AddAttribute(s, p)
        PROVE  Edit
    BY <2>8 DEF AddRequirement, StoreEmbedding, AddSolution, PublishSolution, AddAttribute
  <2> QED BY <2>e, <2>1, <2>2, <2>3, <2>4, <2>5, <2>6, <2>7, <2>8 DEF Next
<1> QED BY <1>1, <1>2, PTL DEF Spec

\* The vectors that backend-api may pick from all rows include those the job picked
\* from the relevant ones, and give the same scores.
LEMMA SameScores ==
  ASSUME FusionInv, NEW v \in MostRecent(Relevant)
  PROVE  \E w \in Backend!MostRecentVectors(embeddings) : BackendScores(w) = RestScores(v)
<1> DEFINE fit == Survivors(Candidates, requirements)
           keys == {KeyOf(r) : r \in embeddings}
           newest(key) == CHOOSE r \in Backend!Newest(embeddings, key) : TRUE
           pick(key) == IF key \in DOMAIN v THEN v[key] ELSE newest(key)
           w == [key \in keys |-> pick(key).vector]
<1>1. embeddings \in SUBSET EmbeddingVector /\ IsFiniteSet(embeddings)
  BY DEF FusionInv
<1>2. /\ DOMAIN v = {KeyOf(r) : r \in Relevant}
      /\ \A key \in DOMAIN v : v[key] \in Relevant /\ KeyOf(v[key]) = key
      /\ \A key \in DOMAIN v : \A q \in Relevant : KeyOf(q) = key => ~Newer(q, v[key])
  BY DEF MostRecent
<1>3. ASSUME NEW key \in keys PROVE pick(key) \in Backend!Newest(embeddings, key)
  <2>1. CASE key \in DOMAIN v
    <3>1. v[key] \in embeddings /\ KeyOf(v[key]) = key /\ v[key].owner_id \in {Rfp} \cup fit
      BY <1>2, <2>1 DEF Relevant
    <3>2. ASSUME NEW q \in embeddings, KeyOf(q) = key PROVE q.generated_at <= v[key].generated_at
      <4>1. q.owner_id = v[key].owner_id
        BY <3>1, <3>2 DEF KeyOf
      <4>2. q \in Relevant
        BY <3>1, <4>1 DEF Relevant
      <4>3. ~(q.generated_at > v[key].generated_at)
        BY <1>2, <2>1, <3>2, <4>2 DEF Newer
      <4>4. q.generated_at \in Nat /\ v[key].generated_at \in Nat
        BY <1>1, <3>1 DEF EmbeddingVector
      <4> QED BY <4>3, <4>4
    <3> QED BY <2>1, <3>1, <3>2 DEF Backend!Newest, Backend!KeyOf, KeyOf
  <2>2. CASE key \notin DOMAIN v
    <3>1. PICK r \in embeddings : key = KeyOf(r)
      OBVIOUS
    <3>2. \E q \in Backend!Newest(embeddings, key) : TRUE
      BY <1>1, <3>1, NewestExists
    <3> QED BY <2>2, <3>2
  <2> QED BY <2>1, <2>2
<1>4. w \in Backend!MostRecentVectors(embeddings)
  <2>1. keys = {Backend!KeyOf(r) : r \in embeddings}
    BY DEF KeyOf, Backend!KeyOf
  <2>2. \A key \in keys : pick(key) \in embeddings
    BY <1>3 DEF Backend!Newest
  <2>3. w \in [keys -> {r.vector : r \in embeddings}]
    BY <2>2
  <2>4. DOMAIN w = keys /\ \A key \in keys : w[key] = pick(key).vector
    OBVIOUS
  <2> HIDE DEF w, pick, keys
  <2> QED BY <1>3, <2>1, <2>3, <2>4 DEF Backend!MostRecentVectors
<1>5. \A o, g : o \in {Rfp} \cup fit => (<<o, g>> \in keys <=> <<o, g>> \in DOMAIN v)
  BY <1>2 DEF KeyOf, Relevant
<1>6. \A key \in DOMAIN v : key \in keys /\ w[key] = v[key].vector
  BY <1>2 DEF Relevant
<1>7. DOMAIN w = keys
  OBVIOUS
<1>8. \A key \in DOMAIN v : v[key].vector \in Seq(Int)
  BY <1>1, <1>2 DEF Relevant, EmbeddingVector
<1> HIDE DEF w
<1> DEFINE spaces == {key[2] : key \in {k \in DOMAIN v : k[1] = Rfp}}
           Spaces(s) == {g \in {k[2] : k \in DOMAIN w} : <<Rfp, g>> \in DOMAIN w /\ <<s, g>> \in DOMAIN w}
<1>9. ASSUME NEW s \in fit PROVE Spaces(s) = {sp \in spaces : <<s, sp>> \in DOMAIN v}
  <2>1. ASSUME NEW g PROVE g \in spaces <=> <<Rfp, g>> \in DOMAIN v
    <3>1. ASSUME <<Rfp, g>> \in DOMAIN v PROVE g \in spaces
      <4>1. <<Rfp, g>>[1] = Rfp /\ <<Rfp, g>>[2] = g
        OBVIOUS
      <4> QED BY <3>1, <4>1
    <3>2. ASSUME g \in spaces PROVE <<Rfp, g>> \in DOMAIN v
      <4>1. PICK key \in DOMAIN v : key[1] = Rfp /\ key[2] = g
        BY <3>2
      <4>2. key = <<Rfp, g>>
        BY <1>2, <4>1 DEF KeyOf
      <4> QED BY <4>1, <4>2
    <3> QED BY <3>1, <3>2
  <2>2. \A g : <<Rfp, g>> \in DOMAIN w => g \in {k[2] : k \in DOMAIN w}
    <3> SUFFICES ASSUME NEW g, <<Rfp, g>> \in DOMAIN w PROVE g \in {k[2] : k \in DOMAIN w}
      OBVIOUS
    <3>1. <<Rfp, g>>[2] = g
      OBVIOUS
    <3> QED BY <3>1
  <2> HIDE DEF spaces, fit
  <2> QED BY <1>5, <1>7, <2>1, <2>2 DEF fit
<1>10. ASSUME NEW s \in fit, NEW g \in Spaces(s)
       PROVE  Backend!CosineSimilarity(w[<<Rfp, g>>], w[<<s, g>>])
                = Cosine(v[<<Rfp, g>>].vector, v[<<s, g>>].vector)
  <2>1. <<Rfp, g>> \in DOMAIN v /\ <<s, g>> \in DOMAIN v
    BY <1>5, <1>7
  <2> QED BY <1>6, <1>8, <2>1, SameCosine
<1>11. BackendScores(w) = RestScores(v)
  <2>1. Backend!FilterHardConstraints(Candidates, requirements) = fit
    BY SameSurvivors
  <2>2. \A s : BackendAttributeScore(s) = AttributeScore(Candidates[s], requirements)
    BY SameAttributeScore DEF BackendAttributeScore
  <2>3. BackendScores(w) =
          [s \in fit |-> [g \in {"attribute_match"} \cup Spaces(s) |->
             IF g \in Spaces(s) THEN Backend!CosineSimilarity(w[<<Rfp, g>>], w[<<s, g>>])
             ELSE AttributeScore(Candidates[s], requirements)]]
    BY <2>1, <2>2 DEF BackendScores
  <2>4. RestScores(v) =
          [s \in fit |-> [g \in {"attribute_match"} \cup {sp \in spaces : <<s, sp>> \in DOMAIN v} |->
             IF g \in {sp \in spaces : <<s, sp>> \in DOMAIN v}
             THEN Cosine(v[<<Rfp, g>>].vector, v[<<s, g>>].vector)
             ELSE AttributeScore(Candidates[s], requirements)]]
    BY DEF RestScores
  <2> HIDE DEF fit, spaces, Spaces
  <2>5. \A s \in fit :
          [g \in {"attribute_match"} \cup Spaces(s) |->
             IF g \in Spaces(s) THEN Backend!CosineSimilarity(w[<<Rfp, g>>], w[<<s, g>>])
             ELSE AttributeScore(Candidates[s], requirements)]
          = [g \in {"attribute_match"} \cup {sp \in spaces : <<s, sp>> \in DOMAIN v} |->
               IF g \in {sp \in spaces : <<s, sp>> \in DOMAIN v}
               THEN Cosine(v[<<Rfp, g>>].vector, v[<<s, g>>].vector)
               ELSE AttributeScore(Candidates[s], requirements)]
    BY <1>9, <1>10
  <2> QED BY <2>3, <2>4, <2>5
<1> QED BY <1>4, <1>11

\* What GET .../attribute-matches shows of the solutions F that it fetched: the
\* survivors among them, best first.
LEMMA ShownSorted ==
  ASSUME FusionInv, NEW F \in SUBSET Published
  PROVE  LET shown == AttributeMatches(F)
             fit == F \cap Survivors(Candidates, requirements)
         IN  /\ shown \in [1 .. Cardinality(fit) -> fit]
             /\ ToSet(shown) = fit
             /\ \A i, j \in DOMAIN shown :
                  i < j => ~Before(BackendAttributeScore(shown[j]), BackendAttributeScore(shown[i]))
<1> DEFINE shownOf == AttributeMatches(F)
           fit == F \cap Survivors(Candidates, requirements)
           N == Cardinality(fit)
           score(s) == BackendAttributeScore(s)
           Better(s, t) == \/ Before(score(s), score(t))
                           \/ ~Before(score(t), score(s)) /\ CreatedAt[s] < CreatedAt[t]
           Good(order) == /\ {order[i] : i \in DOMAIN order} = fit
                          /\ \A i, j \in DOMAIN order : i < j => ~Better(order[j], order[i])
           First(s, t) == \/ Before(score(s), score(t))
                          \/ /\ ~Before(score(t), score(s))
                             /\ CreatedAt[s] < CreatedAt[t] \/ (CreatedAt[s] = CreatedAt[t] /\ s < t)
           R == {p \in fit \X fit : First(p[1], p[2])}
<1>1. fit \in SUBSET SolutionIds
  BY DEF Survivors, Candidates, Published
<1>2. IsFiniteSet(fit) /\ \A s \in fit : s \in Nat /\ CreatedAt[s] \in Nat
  BY <1>1, MatchingJobAssumption, FS_Subset
<1>3. \A s \in fit : score(s) \in Fraction
  <2>1. requirements \in Seq(Requirement)
    BY DEF FusionInv
  <2> QED BY <2>1, SameAttributeScore, AttributeScoreType DEF BackendAttributeScore
<1>4. shownOf = CHOOSE order \in [1 .. N -> fit] : Good(order)
  <2> DEFINE fetched == [s \in F |-> Candidates[s]]
  <2>1. Backend!FilterHardConstraints(fetched, requirements) = fit
    <3>1. Survivors(fetched, requirements) = fit
      BY DEF Survivors, Candidates
    <3> QED BY <3>1, SameSurvivors
  <2>2. \A order : Backend!Range(order) = {order[i] : i \in DOMAIN order}
    BY DEF Backend!Range
  <2>3. \A s \in fit : Backend!ScoreAttributeMatch(fetched[s], requirements) = score(s)
    BY DEF BackendAttributeScore
  <2>4. shownOf = Backend!RankAttributeMatches(fetched, CreatedAt, requirements)
    BY DEF AttributeMatches
  <2> DEFINE BScore(s) == Backend!ScoreAttributeMatch(fetched[s], requirements)
             BBetter(s, t) == \/ Before(BScore(s), BScore(t))
                              \/ ~Before(BScore(t), BScore(s)) /\ CreatedAt[s] < CreatedAt[t]
  <2>5. shownOf = CHOOSE order \in [1 .. N -> fit] :
                    /\ {order[i] : i \in DOMAIN order} = fit
                    /\ \A i, j \in DOMAIN order : i < j => ~BBetter(order[j], order[i])
    <3> HIDE DEF fit, fetched, shownOf
    <3> QED BY <2>1, <2>2, <2>4, SameCardinality DEF Backend!RankAttributeMatches, Backend!Higher, Before
  <2> HIDE DEF fit, fetched, shownOf, score, BScore
  <2>6. \A s, t \in fit : BBetter(s, t) <=> Better(s, t)
    BY <2>3 DEF BScore
  <2>7. \A order \in [1 .. N -> fit] :
          Good(order) <=> /\ {order[i] : i \in DOMAIN order} = fit
                          /\ \A i, j \in DOMAIN order : i < j => ~BBetter(order[j], order[i])
    <3> HIDE DEF Better, BBetter
    <3> QED BY <2>6
  <2> HIDE DEF Good, BBetter
  <2> QED BY <2>5, <2>7
<1> HIDE DEF fit, score, shownOf
<1>5. Sorts(R, fit)
  <2>1. \A s, t \in fit : <<s, t>> \in R <=> First(s, t)
    OBVIOUS
  <2>2. \A s \in fit : ~First(s, s)
    BY <1>2, <1>3, BeforeIsStrict
  <2>3. ASSUME NEW s \in fit, NEW t \in fit, s # t PROVE First(s, t) \/ First(t, s)
    BY <1>2, <2>3
  <2>4. ASSUME NEW r \in fit, NEW s \in fit, NEW t \in fit, First(r, s), First(s, t)
        PROVE  First(r, t)
    <3>1. PICK a \in Fraction, b \in Fraction, c \in Fraction :
            a = score(r) /\ b = score(s) /\ c = score(t)
      BY <1>3
    <3>2. ~Before(b, a) /\ ~Before(c, b)
      BY <2>4, <3>1, BeforeIsStrict
    <3>3. ~Before(c, a)
      BY <3>2, AtLeastTransitive
    <3>4. CASE Before(a, c)
      BY <3>1, <3>4
    <3>5. CASE ~Before(a, c)
      <4>1. ~Before(a, b)
        <5>1. ~Before(a, c) /\ ~Before(c, b) => ~Before(a, b)
          BY AtLeastTransitive
        <5> QED BY <3>2, <3>5, <5>1
      <4>2. ~Before(b, c)
        <5>1. ~Before(b, a) /\ ~Before(a, c) => ~Before(b, c)
          BY AtLeastTransitive
        <5> QED BY <3>2, <3>5, <5>1
      <4>3. /\ CreatedAt[r] < CreatedAt[s] \/ (CreatedAt[r] = CreatedAt[s] /\ r < s)
            /\ CreatedAt[s] < CreatedAt[t] \/ (CreatedAt[s] = CreatedAt[t] /\ s < t)
        BY <2>4, <3>1, <4>1, <4>2
      <4>4. CreatedAt[r] < CreatedAt[t] \/ (CreatedAt[r] = CreatedAt[t] /\ r < t)
        BY <1>2, <4>3
      <4> QED BY <3>1, <3>3, <4>4
    <3> QED BY <3>4, <3>5
  <2> HIDE DEF R, First
  <2> QED BY <2>1, <2>2, <2>3, <2>4 DEF Sorts
<1>6. PICK list \in [1 .. N -> fit] :
        /\ \A x \in fit : \E i \in DOMAIN list : list[i] = x
        /\ \A i, j \in DOMAIN list : i < j => <<list[i], list[j]>> \in R
  <2> HIDE DEF R
  <2> QED BY <1>2, <1>5, Listed
<1>7. Good(list)
  <2>1. {list[i] : i \in DOMAIN list} = fit
    BY <1>6
  <2>2. ASSUME NEW i \in DOMAIN list, NEW j \in DOMAIN list, i < j PROVE ~Better(list[j], list[i])
    <3>1. PICK s \in fit, t \in fit : s = list[i] /\ t = list[j] /\ First(s, t)
      <4>1. list[i] \in fit /\ list[j] \in fit /\ <<list[i], list[j]>> \in R
        BY <1>6, <2>2
      <4>2. First(list[i], list[j])
        BY <4>1
      <4> HIDE DEF First
      <4> QED BY <4>1, <4>2
    <3>2. ~Before(score(t), score(s))
      BY <1>3, <3>1, BeforeIsStrict
    <3>3. Before(score(s), score(t)) \/ ~(CreatedAt[t] < CreatedAt[s])
      BY <1>2, <3>1
    <3> QED BY <3>1, <3>2, <3>3
  <2> QED BY <2>1, <2>2
<1>8. PICK shown \in [1 .. N -> fit] : shown = shownOf /\ Good(shown)
  <2> HIDE DEF Good
  <2> QED BY <1>4, <1>6, <1>7
<1>9. ToSet(shownOf) = fit
  BY <1>8 DEF ToSet
<1>10. \A i, j \in DOMAIN shownOf : i < j => ~Before(score(shownOf[j]), score(shownOf[i]))
  BY <1>8
<1> QED BY <1>8, <1>9, <1>10 DEF fit, score, shownOf

\* Attribute scores that differ differ in their numerators.
LEMMA ScoresDiffer ==
  ASSUME NEW rows \in Seq(Requirement), NEW a, NEW b,
         AttributeScore(a, rows) # AttributeScore(b, rows),
         ~Before(AttributeScore(b, rows), AttributeScore(a, rows))
  PROVE  Before(AttributeScore(a, rows), AttributeScore(b, rows))
<1>1. PICK x \in Fraction, y \in Fraction : x = AttributeScore(a, rows) /\ y = AttributeScore(b, rows)
  BY AttributeScoreType
<1>2. x.den = y.den /\ x = [num |-> x.num, den |-> x.den] /\ y = [num |-> y.num, den |-> y.den]
  BY <1>1 DEF AttributeScore
<1>3. PICK i \in Int, j \in Int, d \in Int : i = x.num /\ j = y.num /\ d = x.den /\ 0 < d
  BY DEF Fraction
<1>4. i # j
  BY <1>1, <1>2, <1>3
<1>5. ~(j * d > i * d)
  BY <1>1, <1>2, <1>3 DEF Before
<1>6. i < j => i * d < j * d
  BY <1>3
<1>7. j < i => j * d < i * d
  BY <1>3
<1>8. i * d > j * d
  BY <1>4, <1>5, <1>6, <1>7
<1> QED BY <1>1, <1>2, <1>3, <1>8 DEF Before

\* Backend-api and the worker, which have a copy each of filter, scores, choice of the
\* vectors and fusion, make the same of tables at rest, and show it in the same order.
THEOREM ImplementationsAgree == Spec => []SameAsBackend
<1>1. FusionInv /\ RestInv => SameAsBackend
  <2> DEFINE fit == Survivors(Candidates, requirements)
             weights == Backend!DefaultSignalWeights(
                          {"attribute_match"} \cup {e.embedding_space : e \in embeddings})
  <2> SUFFICES ASSUME FusionInv, RestInv, At("completed"), edits = 0
               PROVE  /\ \E w \in Backend!MostRecentVectors(embeddings) :
                           matches = Backend!FuseRrf(BackendScores(w), weights)
                      /\ \A F \in CandidateFetches :
                           LET shown == AttributeMatches(F)
                           IN  /\ ToSet(shown) = F \cap DOMAIN matches
                               /\ embeddings = {} => \A i, j \in DOMAIN shown :
                                    i < j /\ BackendAttributeScore(shown[i]) # BackendAttributeScore(shown[j])
                                      => matches[shown[i]].rank < matches[shown[j]].rank
    BY DEF SameAsBackend
  <2>1. PICK v \in MostRecent(Relevant) : matches = Fused(RestScores(v))
    BY DEF RestInv
  <2>2. PICK scores : scores = RestScores(v)
    OBVIOUS
  <2>3. DOMAIN scores = fit /\ scores = [s \in fit |-> scores[s]]
    BY <2>2 DEF RestScores
  <2>4. Scored(scores)
    <3>1. Scored(Stored)
      BY DEF FusionInv
    <3>2. DOMAIN matches = fit /\ \A s \in fit : matches[s].signal_scores = scores[s]
      BY <2>1, <2>2, <2>3 DEF Fused
    <3>3. Stored = scores
      BY <2>3, <3>2 DEF Stored
    <3> QED BY <3>1, <3>3
  <2>5. PICK w \in Backend!MostRecentVectors(embeddings) : BackendScores(w) = scores
    BY <2>2, SameScores
  <2>6. \A s \in DOMAIN scores : \A g \in DOMAIN scores[s] : g \in DOMAIN weights /\ weights[g] = 1
    <3> SUFFICES ASSUME NEW s \in fit, NEW g \in DOMAIN scores[s]
                 PROVE  g \in {"attribute_match"} \cup {e.embedding_space : e \in embeddings}
      BY <2>3 DEF Backend!DefaultSignalWeights
    <3>1. g = "attribute_match" \/ <<s, g>> \in DOMAIN v
      BY <2>2 DEF RestScores
    <3>2. <<s, g>> \in DOMAIN v => \E e \in embeddings : e.embedding_space = g
      BY DEF MostRecent, KeyOf, Relevant
    <3> QED BY <3>1, <3>2
  <2>7. matches = Backend!FuseRrf(BackendScores(w), weights)
    <3> HIDE DEF weights
    <3> QED BY <2>1, <2>2, <2>4, <2>5, <2>6, SameFusion
  <2>8. ASSUME NEW F \in CandidateFetches
        PROVE  ToSet(AttributeMatches(F)) = F \cap DOMAIN matches
    <3>1. F \in SUBSET Published
      BY DEF CandidateFetches
    <3>2. DOMAIN matches = fit
      BY <2>1, <2>2, <2>3, FusedDomain
    <3> QED BY <3>1, <3>2, ShownSorted
  <2>9. ASSUME embeddings = {}, NEW F \in CandidateFetches, NEW shown, shown = AttributeMatches(F),
               NEW i \in DOMAIN shown, NEW j \in DOMAIN shown, i < j,
               BackendAttributeScore(shown[i]) # BackendAttributeScore(shown[j])
        PROVE  matches[shown[i]].rank < matches[shown[j]].rank
    <3> F \in SUBSET Published
      BY DEF CandidateFetches
    <3>1. PICK s \in fit, t \in fit : s = shown[i] /\ t = shown[j]
      <4> HIDE DEF fit
      <4>1. shown \in [1 .. Cardinality(F \cap fit) -> F \cap fit]
        BY <2>9, ShownSorted DEF fit
      <4> QED BY <2>9, <4>1
    <3>2. \A z : BackendAttributeScore(z) = AttributeScore(Candidates[z], requirements)
      BY SameAttributeScore DEF BackendAttributeScore
    <3>3. Before(AttributeScore(Candidates[s], requirements), AttributeScore(Candidates[t], requirements))
      <4>1. ~Before(BackendAttributeScore(t), BackendAttributeScore(s))
        BY <2>9, <3>1, ShownSorted
      <4>2. requirements \in Seq(Requirement)
        BY DEF FusionInv
      <4> QED BY <2>9, <3>1, <3>2, <4>1, <4>2, ScoresDiffer
    <3>4. DOMAIN v = {}
      BY <2>9 DEF MostRecent, Relevant
    <3>5. \A z \in fit : scores[z] = [g \in {"attribute_match"} |->
                                       AttributeScore(Candidates[z], requirements)]
      BY <2>2, <3>4 DEF RestScores
    <3>6. \A g \in DOMAIN scores[t] : SortsBefore(OnSignal(scores, g), s, t)
      <4> SUFFICES ASSUME NEW g \in DOMAIN scores[t] PROVE SortsBefore(OnSignal(scores, g), s, t)
        OBVIOUS
      <4>1. OnSignal(scores, g)[s] = AttributeScore(Candidates[s], requirements)
            /\ OnSignal(scores, g)[t] = AttributeScore(Candidates[t], requirements)
        <5> HIDE DEF fit
        <5> QED BY <2>3, <3>5 DEF OnSignal
      <4> QED BY <3>3, <4>1 DEF SortsBefore
    <3>7. DOMAIN scores[t] \subseteq DOMAIN scores[s]
      BY <3>5
    <3>8. Fused(scores)[s].rank < Fused(scores)[t].rank
      <4> HIDE DEF fit
      <4> QED BY <2>3, <2>4, <3>6, <3>7, DominationFused
    <3> QED BY <2>1, <2>2, <3>1, <3>8
  <2> QED BY <2>7, <2>8, <2>9
<1> QED BY <1>1, FusionInvariant, RestInvariant, PTL
=============================================================================
