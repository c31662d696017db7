------------------------- MODULE Commitments_proofs -------------------------
(***************************************************************************)
(* Theorems about the commitment engine, for every number of users,        *)
(* problems and commitments, and every limit and lock period: first        *)
(* whatever the number of concurrent handlers, then with one handler at a  *)
(* time, when the engine keeps the documented rules exactly, implements    *)
(* FocusSlots, and shows a true history and an earned reputation.          *)
(***************************************************************************)
EXTENDS CommitmentsSerial, FiniteSetTheorems, WellFoundedInduction, TLAPS

----------------------------------------------------------------------------
(* Numbers *)

\* A nonempty set of numbers has a least element.
LEMMA Least ==
  ASSUME NEW S \in SUBSET Nat, S # {}
  PROVE  Min(S) \in S /\ \A x \in S : Min(S) <= x
<1> DEFINE less == {ss \in Nat \X Nat : ss[1] < ss[2]}
<1>1. IsWellFoundedOn(less, Nat)
  BY NatLessThanWellFounded DEF OpToRel
<1>2. PICK m \in S : \A x \in S : <<x, m>> \notin less
  <2> HIDE DEF less
  <2> QED BY <1>1, WFMin
<1>3. \A x \in S : m <= x
  <2> SUFFICES ASSUME NEW x \in S PROVE m <= x
    OBVIOUS
  <2>1. x \in Nat /\ m \in Nat /\ ~ (x < m)
    BY <1>2
  <2> QED BY <2>1
<1> QED BY <1>3 DEF Min

\* A nonempty set of numbers up to N has a greatest element.
LEMMA Greatest ==
  ASSUME NEW N \in Nat, NEW S \in SUBSET (0 .. N), S # {}
  PROVE  Max(S) \in S /\ \A x \in S : Max(S) >= x
<1> DEFINE less == {ss \in Nat \X Nat : ss[1] < ss[2]}
           gaps == {N - x : x \in S}
<1>1. IsWellFoundedOn(less, Nat)
  BY NatLessThanWellFounded DEF OpToRel
<1>2. gaps \subseteq Nat /\ gaps # {}
  <2>1. \A x \in S : N - x \in Nat
    OBVIOUS
  <2> QED BY <2>1
<1>3. PICK g \in gaps : \A y \in gaps : <<y, g>> \notin less
  <2> HIDE DEF less, gaps
  <2> QED BY <1>1, <1>2, WFMin
<1>4. PICK m \in S : g = N - m
  OBVIOUS
<1>5. \A x \in S : m >= x
  <2> SUFFICES ASSUME NEW x \in S PROVE m >= x
    OBVIOUS
  <2>1. N - x \in gaps /\ N - x \in Nat /\ g \in Nat
    BY <1>2
  <2>2. ~ (N - x < g)
    BY <1>3, <2>1
  <2> QED BY <1>4, <2>2
<1> QED BY <1>5 DEF Max

\* Later numbers do not change the least.
LEMMA LeastStays ==
  ASSUME NEW S \in SUBSET Nat, S # {}, NEW T \in SUBSET Nat, S \subseteq T,
         \A x \in T \ S : \A y \in S : y <= x
  PROVE  Min(T) = Min(S)
<1>1. Min(S) \in S /\ \A x \in S : Min(S) <= x
  BY Least
<1>2. Min(T) \in T /\ \A x \in T : Min(T) <= x
  BY Least
<1>3. \A x \in T : Min(S) <= x
  BY <1>1
<1>4. Min(S) <= Min(T) /\ Min(T) <= Min(S) /\ Min(S) \in Nat /\ Min(T) \in Nat
  BY <1>1, <1>2, <1>3
<1> QED BY <1>4

\* Two are not none.
LEMMA TwoAreSome ==
  ASSUME NEW S, Cardinality(S) >= 2
  PROVE  S # {}
<1> SUFFICES ASSUME S = {} PROVE FALSE
  OBVIOUS
<1>1. Cardinality({}) = 0
  BY FS_EmptySet
<1> QED BY <1>1

----------------------------------------------------------------------------
(* Sums over finite sets, as MapThenSumSet takes them: one element after   *)
(* the other, whichever CHOOSE picks                                       *)

\* What is added to the sum of the rest of s.
Step(f, it, s) == IF s = {} THEN 0 ELSE f[CHOOSE x \in s : TRUE] + it[s \ {CHOOSE x \in s : TRUE}]

\* The sums of f over all subsets of S.
Sums(f, S, it) == it = [s \in SUBSET S |-> Step(f, it, s)]

Total(f) == (CHOOSE it : Sums(f, DOMAIN f, it))[DOMAIN f]

\* Sums up to a size can be taken one element further.
LEMMA SumsExist ==
  ASSUME NEW S, IsFiniteSet(S), NEW f \in [S -> Int]
  PROVE  \E it \in [SUBSET S -> Int] : Sums(f, S, it)
<1> DEFINE Upto(n, g) == \A s \in SUBSET S : Cardinality(s) <= n => g[s] = Step(f, g, s)
           Bad == {n \in Nat : ~ \E g \in [SUBSET S -> Int] : Upto(n, g)}
<1>1. \A s \in SUBSET S : IsFiniteSet(s) /\ Cardinality(s) \in Nat /\ Cardinality(s) <= Cardinality(S)
  BY FS_Subset, FS_CardinalityType
<1>2. Bad = {}
  <2> SUFFICES ASSUME Bad # {} PROVE FALSE
    OBVIOUS
  <2>1. PICK n \in Bad : \A m \in Bad : n <= m
    BY Least
  <2>2. CASE n = 0
    <3>1. PICK g : g = [s \in SUBSET S |-> 0]
      OBVIOUS
    <3>2. g \in [SUBSET S -> Int]
      BY <3>1
    <3>3. \A s \in SUBSET S : Cardinality(s) <= 0 => s = {}
      BY <1>1, FS_EmptySet
    <3>4. Upto(0, g)
      BY <3>1, <3>3 DEF Step
    <3> HIDE DEF Upto
    <3> QED BY <2>1, <2>2, <3>2, <3>4
  <2>3. CASE n # 0
    <3>1. n - 1 \in Nat /\ n - 1 \notin Bad
      <4> HIDE DEF Upto
      <4>1. n \in Nat
        OBVIOUS
      <4>2. n - 1 \in Bad => n <= n - 1
        BY <2>1
      <4> HIDE DEF Bad
      <4> QED BY <2>3, <4>1, <4>2
    <3>2. PICK g \in [SUBSET S -> Int] : Upto(n - 1, g)
      BY <3>1
    <3>3. PICK h : h = [s \in SUBSET S |-> Step(f, g, s)]
      OBVIOUS
    <3>4. h \in [SUBSET S -> Int]
      <4> SUFFICES ASSUME NEW s \in SUBSET S PROVE Step(f, g, s) \in Int
        BY <3>3
      <4>1. CASE s = {}
        BY <4>1 DEF Step
      <4>2. CASE s # {}
        <5>1. PICK x : x = CHOOSE y \in s : TRUE
          OBVIOUS
        <5>2. x \in S /\ s \ {x} \in SUBSET S
          BY <4>2, <5>1
        <5> QED BY <4>2, <5>1, <5>2 DEF Step
      <4> QED BY <4>1, <4>2
    <3>5. ASSUME NEW s \in SUBSET S, Cardinality(s) <= n PROVE h[s] = Step(f, h, s)
      <4>1. CASE s = {}
        BY <3>3, <4>1 DEF Step
      <4>2. CASE s # {}
        <5>1. PICK x : x = CHOOSE y \in s : TRUE
          OBVIOUS
        <5>2. x \in s /\ s \ {x} \in SUBSET S
          BY <4>2, <5>1
        <5>3. Cardinality(s \ {x}) = Cardinality(s) - 1
          BY <1>1, <5>2, FS_RemoveElement
        <5>4. Cardinality(s \ {x}) <= n - 1
          BY <1>1, <2>1, <3>5, <5>3
        <5>5. g[s \ {x}] = h[s \ {x}]
          BY <3>2, <3>3, <5>2, <5>4
        <5> QED BY <3>3, <5>1, <5>2, <5>5 DEF Step
      <4> QED BY <4>1, <4>2
    <3>6. Upto(n, h)
      BY <3>5
    <3> QED BY <2>1, <3>4, <3>6
  <2> QED BY <2>2, <2>3
<1>3. PICK g \in [SUBSET S -> Int] : Upto(Cardinality(S), g)
  <2>1. Cardinality(S) \in Nat /\ Cardinality(S) \notin Bad
    BY <1>2, FS_CardinalityType
  <2> QED BY <2>1
<1>4. \A s \in SUBSET S : g[s] = Step(f, g, s)
  BY <1>1, <1>3
<1>5. Sums(f, S, g)
  BY <1>4 DEF Sums
<1> QED BY <1>5

AnyFirst(f, it, s) == \A x \in s : it[s] = f[x] + it[s \ {x}]

\* The order does not matter: any element can be taken out first.
LEMMA SumsSplit ==
  ASSUME NEW S, IsFiniteSet(S), NEW f \in [S -> Int], NEW it \in [SUBSET S -> Int], Sums(f, S, it)
  PROVE  \A s \in SUBSET S : AnyFirst(f, it, s)
<1> DEFINE Bad == {n \in Nat : \E s \in SUBSET S : Cardinality(s) = n /\ ~AnyFirst(f, it, s)}
<1>1. \A s \in SUBSET S : IsFiniteSet(s) /\ Cardinality(s) \in Nat
  BY FS_Subset, FS_CardinalityType
<1>2. \A s \in SUBSET S : it[s] = Step(f, it, s)
  BY DEF Sums
<1>3. Bad = {}
  <2> SUFFICES ASSUME Bad # {} PROVE FALSE
    OBVIOUS
  <2>1. PICK n \in Bad : \A m \in Bad : n <= m
    BY Least
  <2>2. PICK s \in SUBSET S : Cardinality(s) = n /\ ~AnyFirst(f, it, s)
    BY <2>1
  <2>3. PICK x \in s : it[s] # f[x] + it[s \ {x}]
    BY <2>2 DEF AnyFirst
  <2>4. PICK y : y = CHOOSE z \in s : TRUE
    OBVIOUS
  <2>5. y \in s /\ it[s] = f[y] + it[s \ {y}]
    BY <1>2, <2>3, <2>4 DEF Step
  <2>6. x # y
    BY <2>3, <2>5
  <2>7. ASSUME NEW z \in s PROVE AnyFirst(f, it, s \ {z})
    <3>1. Cardinality(s \ {z}) = n - 1 /\ s \ {z} \in SUBSET S
      BY <1>1, <2>2, FS_RemoveElement
    <3>2. n - 1 \in Nat
      BY <1>1, <3>1
    <3>3. n - 1 \notin Bad
      BY <2>1, <3>2
    <3> QED BY <3>1, <3>2, <3>3
  <2>8. it[s \ {y}] = f[x] + it[(s \ {y}) \ {x}]
    BY <2>5, <2>6, <2>7 DEF AnyFirst
  <2>9. it[s \ {x}] = f[y] + it[(s \ {x}) \ {y}]
    BY <2>5, <2>6, <2>7 DEF AnyFirst
  <2>10. (s \ {y}) \ {x} = (s \ {x}) \ {y}
    OBVIOUS
  <2>11. PICK a \in Int, b \in Int, c \in Int :
           a = f[x] /\ b = f[y] /\ c = it[(s \ {x}) \ {y}]
    BY <2>5
  <2>12. it[s] = b + (a + c) /\ it[s \ {x}] = b + c
    BY <2>5, <2>8, <2>9, <2>10, <2>11
  <2>13. b + (a + c) = a + (b + c)
    BY <2>11
  <2> QED BY <2>3, <2>11, <2>12, <2>13
<1> QED BY <1>1, <1>3

\* Sums are determined by what they add.
LEMMA SumsAgree ==
  ASSUME NEW S, IsFiniteSet(S), NEW T \in SUBSET S,
         NEW f \in [S -> Int], NEW g \in [T -> Int], \A x \in T : f[x] = g[x],
         NEW it, Sums(f, S, it), NEW jt, Sums(g, T, jt)
  PROVE  \A s \in SUBSET T : it[s] = jt[s]
<1> DEFINE Bad == {n \in Nat : \E s \in SUBSET T : Cardinality(s) = n /\ it[s] # jt[s]}
<1>1. \A s \in SUBSET T : IsFiniteSet(s) /\ Cardinality(s) \in Nat
  BY FS_Subset, FS_CardinalityType
<1>2. \A s \in SUBSET T : it[s] = Step(f, it, s) /\ jt[s] = Step(g, jt, s)
  BY DEF Sums
<1>3. Bad = {}
  <2> SUFFICES ASSUME Bad # {} PROVE FALSE
    OBVIOUS
  <2>1. PICK n \in Bad : \A m \in Bad : n <= m
    BY Least
  <2>2. PICK s \in SUBSET T : Cardinality(s) = n /\ it[s] # jt[s]
    BY <2>1
  <2>3. s # {}
    BY <1>2, <2>2 DEF Step
  <2>4. PICK y : y = CHOOSE z \in s : TRUE
    OBVIOUS
  <2>5. y \in s /\ it[s] = f[y] + it[s \ {y}] /\ jt[s] = g[y] + jt[s \ {y}]
    BY <1>2, <2>3, <2>4 DEF Step
  <2>6. Cardinality(s \ {y}) = n - 1 /\ s \ {y} \in SUBSET T
    BY <1>1, <2>2, <2>5, FS_RemoveElement
  <2>7. n - 1 \in Nat
    BY <1>1, <2>6
  <2>8. n - 1 \notin Bad
    BY <2>1, <2>7
  <2>9. it[s \ {y}] = jt[s \ {y}]
    BY <2>6, <2>7, <2>8
  <2> QED BY <2>2, <2>5, <2>9
<1> QED BY <1>1, <1>3

\* A total is a number, and that of the rest with any one element added.
LEMMA TotalSplits ==
  ASSUME NEW S, IsFiniteSet(S), NEW f \in [S -> Int]
  PROVE  /\ Total(f) \in Int
         /\ S = {} => Total(f) = 0
         /\ \A x \in S : Total(f) = f[x] + Total([y \in S \ {x} |-> f[y]])
<1>1. ASSUME NEW T \in SUBSET S, NEW g \in [T -> Int]
      PROVE  \E it \in [SUBSET T -> Int] : Sums(g, T, it) /\ Total(g) = it[T]
  <2>1. IsFiniteSet(T) /\ DOMAIN g = T
    BY FS_Subset
  <2>2. PICK jt \in [SUBSET T -> Int] : Sums(g, T, jt)
    BY <2>1, SumsExist
  <2>3. PICK it : it = (CHOOSE i : Sums(g, T, i)) /\ Sums(g, T, it)
    BY <2>2
  <2>4. \A s \in SUBSET T : it[s] = jt[s]
    BY <2>1, <2>2, <2>3, SumsAgree
  <2>5. it[T] = jt[T]
    BY <2>4
  <2>6. Total(g) = it[T]
    BY <2>1, <2>3 DEF Total
  <2> QED BY <2>2, <2>5, <2>6
<1>2. PICK it \in [SUBSET S -> Int] : Sums(f, S, it) /\ Total(f) = it[S]
  BY <1>1
<1>3. Total(f) \in Int
  BY <1>2
<1>4. S = {} => Total(f) = 0
  BY <1>2 DEF Sums, Step
<1>5. ASSUME NEW x \in S PROVE Total(f) = f[x] + Total([y \in S \ {x} |-> f[y]])
  <2>1. PICK T \in SUBSET S : T = S \ {x}
    OBVIOUS
  <2>2. PICK g : g = [y \in T |-> f[y]]
    OBVIOUS
  <2>3. g \in [T -> Int] /\ \A y \in T : f[y] = g[y]
    BY <2>2
  <2>4. PICK jt \in [SUBSET T -> Int] : Sums(g, T, jt) /\ Total(g) = jt[T]
    BY <1>1, <2>3
  <2>5. \A s \in SUBSET T : it[s] = jt[s]
    BY <1>2, <2>3, <2>4, SumsAgree
  <2>6. it[T] = Total(g)
    BY <2>4, <2>5
  <2>7. it[S] = f[x] + it[S \ {x}]
    <3>1. AnyFirst(f, it, S)
      BY <1>2, SumsSplit
    <3> QED BY <3>1 DEF AnyFirst
  <2> QED BY <1>2, <2>1, <2>2, <2>6, <2>7
<1> QED BY <1>3, <1>4, <1>5

\* A summand changed changes the total by as much.
LEMMA TotalChanges ==
  ASSUME NEW S, IsFiniteSet(S), NEW f \in [S -> Int], NEW g \in [S -> Int], NEW x \in S,
         \A y \in S \ {x} : f[y] = g[y]
  PROVE  Total(g) = Total(f) + (g[x] - f[x])
<1>1. [y \in S \ {x} |-> f[y]] = [y \in S \ {x} |-> g[y]]
  OBVIOUS
<1>2. PICK h : h = [y \in S \ {x} |-> f[y]] /\ h = [y \in S \ {x} |-> g[y]]
  BY <1>1
<1>3. h \in [S \ {x} -> Int] /\ IsFiniteSet(S \ {x})
  BY <1>2, FS_RemoveElement
<1>4. Total(h) \in Int
  BY <1>3, TotalSplits
<1>5. Total(f) = f[x] + Total(h) /\ Total(g) = g[x] + Total(h)
  BY <1>2, TotalSplits
<1>6. f[x] \in Int /\ g[x] \in Int
  OBVIOUS
<1> QED BY <1>4, <1>5, <1>6

----------------------------------------------------------------------------
(* Type correctness *)

\* The row an apply_checkpoint handler saves is a commitment again.
LEMMA SavedType ==
  ASSUME NEW row \in Commitment, NEW r \in Checkpointing
  PROVE  Saved(row, r) \in Commitment
<1>1. r.action \in {"resolve", "abandon", "continue"} /\ r.lock \in Nat
  BY DEF Checkpointing, Action
<1>2. CASE r.action = "resolve"
  BY <1>2 DEF Saved, Commitment, Terminal
<1>3. CASE r.action = "abandon"
  BY <1>3 DEF Saved, Commitment, Terminal
<1>4. CASE r.action = "continue"
  BY <1>1, <1>4 DEF Saved, Commitment, Terminal
<1> QED BY <1>1, <1>2, <1>3, <1>4

\* An unused key holds no commitment.
LEMMA NoRowIsNoCommitment == NoRow \notin Commitment
BY DEF NoRow, Commitment

\* Every delta of the table is an integer.
LEMMA DeltaType ==
  ASSUME NEW a \in Action, NEW p \in Problems
  PROVE  DeltaFor(a, p) \in Int
<1>1. Tier[p] \in Tiers
  BY TierAssumption
<1>2. ResolveDelta[Tier[p]] \in Int /\ AbandonDelta[Tier[p]] \in Int
  BY <1>1 DEF Tiers, ResolveDelta, AbandonDelta
<1> QED BY <1>2 DEF DeltaFor, Action

\* Every checkpoint action has an audit event.
LEMMA EventForType ==
  ASSUME NEW a \in Action
  PROVE  EventFor(a) \in EventType
BY DEF EventFor, Action, EventType, Terminal

\* The step of a request tells what kind of handler it is.
LEMMA RequestKinds ==
  ASSUME NEW r \in Request
  PROVE  /\ r.step \in {"count", "insert"} => r \in Creating
         /\ r.step = "record_created" => r \in Created
         /\ r.step \in {"save", "record", "read_reputation", "write_reputation"}
              => r \in Checkpointing
         /\ r # Idle => r \in Creating \cup Created \cup Checkpointing
BY DEF Request, Idle, Creating, Created, Checkpointing

\* A handler that names a commitment names one that exists: needed to know that
\* what it saves is a row.
RowsExist ==
  \A t \in Threads : requests[t] \in Created \cup Checkpointing => Exists(requests[t].id)

TypeInv == TypeOK /\ RowsExist

\* A handler that only goes on, and writes nothing, keeps the types.
LEMMA ProceedTypes ==
  ASSUME TypeInv, NEW t \in Threads, NEW r \in Request, Proceed(t, r),
         r \in Created \cup Checkpointing => Exists(r.id),
         UNCHANGED <<commitments, checkpoints, reputation, now, interrupted>>
  PROVE  TypeInv'
<1>1. TypeOK'
  BY DEF TypeInv, TypeOK, Proceed
<1>2. RowsExist'
  BY DEF TypeInv, TypeOK, RowsExist, Proceed, Exists
<1> QED BY <1>1, <1>2 DEF TypeInv

\* TypeInv holds initially.
LEMMA InitTypes == Init => TypeInv
<1> SUFFICES ASSUME Init PROVE TypeInv
  OBVIOUS
<1>1. TypeOK
  BY BoundAssumption DEF Init, TypeOK, Request
<1>2. RowsExist
  BY DEF Init, RowsExist, Idle, Created, Checkpointing
<1> QED BY <1>1, <1>2 DEF TypeInv

\* Every step of the specification keeps TypeInv.
LEMMA NextTypes == TypeInv /\ [Next]_vars => TypeInv'
<1> SUFFICES ASSUME TypeInv, [Next]_vars PROVE TypeInv'
  OBVIOUS
<1> USE DEF TypeInv
<1>1. CASE Tick
  <2>1. TypeOK'
    BY <1>1 DEF Tick, TypeOK
  <2>2. RowsExist'
    BY <1>1 DEF Tick, RowsExist, Exists
  <2> QED BY <2>1, <2>2
<1>2. ASSUME NEW t \in Threads, NEW u \in Users, NEW p \in Problems, StartCreate(t, u, p)
      PROVE TypeInv'
  <2> DEFINE r == [step |-> "count", user_id |-> u, problem_id |-> p]
  <2>1. r \in Request /\ r \notin Created \cup Checkpointing
    BY DEF Request, Creating, Created, Checkpointing
  <2> QED BY <1>2, <2>1, ProceedTypes DEF StartCreate
<1>3. ASSUME NEW t \in Threads, CountSlots(t)
      PROVE TypeInv'
  <2>1. requests[t] \in Creating
    BY <1>3, RequestKinds DEF CountSlots, TypeOK
  <2> DEFINE r == IF SlotFree(requests[t].user_id)
                  THEN [requests[t] EXCEPT !.step = "insert"] ELSE Idle
  <2>2. r \in Request /\ r \notin Created \cup Checkpointing
    BY <2>1 DEF Request, Idle, Creating, Created, Checkpointing
  <2> QED BY <1>3, <2>2, ProceedTypes DEF CountSlots
<1>4. ASSUME NEW t \in Threads, InsertCommitment(t)
      PROVE TypeInv'
  <2>1. requests[t] \in Creating
    BY <1>4, RequestKinds DEF InsertCommitment, TypeOK
  <2>2. PICK i \in Ids :
          /\ commitments' = [commitments EXCEPT ![i] =
               [user_id |-> requests[t].user_id, problem_id |-> requests[t].problem_id,
                status |-> "active", started_at |-> now,
                lock_expires_at |-> now + LockPeriod]]
          /\ Proceed(t, [step |-> "record_created", user_id |-> requests[t].user_id,
                         id |-> i])
    BY <1>4 DEF InsertCommitment
  <2>3. commitments'[i] \in Commitment
    BY <2>1, <2>2, BoundAssumption DEF TypeOK, Commitment, Creating
  <2>4. \A j \in Ids : Exists(j) \/ j = i => Exists(j)'
    BY <2>2, <2>3 DEF TypeOK, Exists, Commitment, NoRow
  <2>5. requests'[t] \in Request /\ requests'[t].id = i
    BY <2>1, <2>2 DEF TypeOK, Proceed, Request, Creating, Created
  <2>6. TypeOK'
    BY <1>4, <2>2, <2>3, <2>5 DEF InsertCommitment, TypeOK, Proceed
  <2>7. RowsExist'
    BY <2>2, <2>4, <2>5 DEF TypeOK, RowsExist, Proceed, Request, Created, Checkpointing,
       Creating, Idle
  <2> QED BY <2>6, <2>7
<1>5. ASSUME NEW t \in Threads, RecordCreated(t)
      PROVE TypeInv'
  <2>1. requests[t] \in Created
    BY <1>5, RequestKinds DEF RecordCreated, TypeOK
  <2>2. Append(checkpoints[requests[t].id], "created") \in Seq(EventType)
    BY <2>1 DEF TypeOK, Created, EventType
  <2>3. TypeOK'
    BY <1>5, <2>2 DEF RecordCreated, Proceed, TypeOK, Request
  <2>4. RowsExist'
    BY <1>5 DEF RecordCreated, Proceed, TypeOK, RowsExist, Exists, Idle, Created,
       Checkpointing
  <2> QED BY <2>3, <2>4
<1>6. ASSUME NEW t \in Threads, NEW u \in Users, NEW i \in Ids, NEW a \in Action,
             LoadCommitment(t, u, i, a)
      PROVE TypeInv'
  <2> DEFINE r == [step |-> "save", user_id |-> u, id |-> i, action |-> a,
                   lock |-> LockAfter(a), seen |-> 0]
  <2>1. LockAfter(a) \in Nat
    BY BoundAssumption DEF LockAfter, TypeOK
  <2>2. r \in Request
    BY <2>1 DEF Request, Checkpointing
  <2> QED BY <1>6, <2>2, ProceedTypes DEF LoadCommitment
<1>7. ASSUME NEW t \in Threads, SaveCommitment(t)
      PROVE TypeInv'
  <2> DEFINE i == requests[t].id
  <2>1. requests[t] \in Checkpointing
    BY <1>7, RequestKinds DEF SaveCommitment, TypeOK
  <2>2. i \in Ids /\ commitments[i] \in Commitment
    BY <2>1 DEF TypeOK, RowsExist, Exists, Checkpointing
  <2>3. commitments'[i] \in Commitment
    BY <1>7, <2>1, <2>2, SavedType DEF SaveCommitment, TypeOK
  <2>4. requests'[t] \in Request /\ requests'[t].id = i
    BY <1>7, <2>1 DEF SaveCommitment, Proceed, TypeOK, Request, Checkpointing
  <2>5. \A j \in Ids : Exists(j) => Exists(j)'
    <3>1. \A j \in Ids \ {i} : commitments'[j] = commitments[j]
      BY <1>7 DEF SaveCommitment, TypeOK
    <3>2. commitments'[i] # NoRow
      BY <2>3, NoRowIsNoCommitment
    <3> QED BY <3>1, <3>2 DEF Exists
  <2>6. TypeOK'
    BY <1>7, <2>2, <2>3, <2>4 DEF SaveCommitment, TypeOK, Proceed
  <2>7. Exists(i)
    BY <2>1 DEF RowsExist
  <2>8. RowsExist'
    BY <1>7, <2>2, <2>4, <2>5, <2>7 DEF SaveCommitment, TypeOK, RowsExist, Proceed,
       Created, Checkpointing
  <2> QED BY <2>6, <2>8
<1>8. ASSUME NEW t \in Threads, RecordCheckpoint(t)
      PROVE TypeInv'
  <2> DEFINE r == requests[t]
  <2>1. r \in Checkpointing
    BY <1>8, RequestKinds DEF RecordCheckpoint, TypeOK
  <2>2. Append(checkpoints[r.id], EventFor(r.action)) \in Seq(EventType)
    BY <2>1, EventForType DEF TypeOK, Checkpointing
  <2>3. requests'[t] = Idle \/ requests'[t] = [r EXCEPT !.step = "read_reputation"]
    BY <1>8 DEF RecordCheckpoint, Proceed, TypeOK
  <2>4. requests'[t] \in Request
    BY <2>1, <2>3 DEF Request, Checkpointing
  <2>5. TypeOK'
    BY <1>8, <2>2, <2>4 DEF RecordCheckpoint, Proceed, TypeOK
  <2>6. RowsExist'
    BY <1>8, <2>1, <2>3 DEF RecordCheckpoint, Proceed, TypeOK, RowsExist, Exists, Idle,
       Created, Checkpointing
  <2> QED BY <2>5, <2>6
<1>9. ASSUME NEW t \in Threads, ReadReputation(t)
      PROVE TypeInv'
  <2> DEFINE r == [requests[t] EXCEPT !.step = "write_reputation",
                                      !.seen = reputation[requests[t].user_id]]
  <2>1. requests[t] \in Checkpointing
    BY <1>9, RequestKinds DEF ReadReputation, TypeOK
  <2>2. r \in Checkpointing /\ r.id = requests[t].id
    BY <2>1 DEF TypeOK, Checkpointing
  <2>3. r \in Request /\ Exists(r.id)
    BY <2>1, <2>2 DEF Request, RowsExist
  <2> QED BY <1>9, <2>3, ProceedTypes DEF ReadReputation
<1>10. ASSUME NEW t \in Threads, WriteReputation(t)
       PROVE TypeInv'
  <2> DEFINE r == requests[t]
  <2>1. r \in Checkpointing
    BY <1>10, RequestKinds DEF WriteReputation, TypeOK
  <2>2. commitments[r.id].problem_id \in Problems
    BY <2>1 DEF TypeOK, RowsExist, Exists, Checkpointing, Commitment
  <2>3. r.seen + DeltaFor(r.action, commitments[r.id].problem_id) \in Int
    BY <2>1, <2>2, DeltaType DEF Checkpointing
  <2>4. TypeOK'
    BY <1>10, <2>3 DEF WriteReputation, Proceed, TypeOK, Request
  <2>5. RowsExist'
    BY <1>10 DEF WriteReputation, Proceed, TypeOK, RowsExist, Exists, Idle, Created,
       Checkpointing
  <2> QED BY <2>4, <2>5
<1>11. ASSUME NEW t \in Threads, Fail(t)
       PROVE TypeInv'
  <2>1. interrupted' \in SUBSET Ids
    BY <1>11, RequestKinds DEF Fail, HalfDone, TypeOK, Created, Checkpointing
  <2>2. TypeOK'
    BY <1>11, <2>1 DEF Fail, Proceed, TypeOK, Request
  <2>3. RowsExist'
    BY <1>11 DEF Fail, Proceed, TypeOK, RowsExist, Exists, Idle, Created, Checkpointing
  <2> QED BY <2>2, <2>3
<1>12. CASE UNCHANGED vars
  BY <1>12 DEF vars, TypeOK, RowsExist, Exists
<1> QED
  BY <1>1, <1>2, <1>3, <1>4, <1>5, <1>6, <1>7, <1>8, <1>9, <1>10, <1>11, <1>12 DEF Next

\* Every reachable state has values of the right types, and a handler never
\* refers to a commitment that does not exist.
THEOREM TypesInvariant == Spec => []TypeInv
BY InitTypes, NextTypes, PTL DEF Spec

\* Type correctness alone, as the runs check it.
THEOREM TypesCorrect == Spec => []TypeOK
<1>1. TypeInv => TypeOK
  BY DEF TypeInv
<1> QED BY <1>1, TypesInvariant, PTL

----------------------------------------------------------------------------
(* The slot limit *)

\* The handlers of user u that passed the slot check and will insert.
Passed(u) == {t \in Threads : requests[t].step = "insert" /\ requests[t].user_id = u}

\* A handler that passed the check saw a slot free and at most every other
\* handler passed it on the same free slot.
SlotInv ==
  \A u \in Users :
    Cardinality(Active(u)) + Cardinality(Passed(u)) <= MaxActive + Cardinality(Threads) - 1

\* Both sets are finite, and so are their successors.
LEMMA SlotSetsFinite ==
  ASSUME NEW u
  PROVE  /\ IsFiniteSet(Active(u)) /\ Cardinality(Active(u)) \in Nat
         /\ IsFiniteSet(Passed(u)) /\ Cardinality(Passed(u)) \in Nat
         /\ Cardinality(Passed(u)) <= Cardinality(Threads)
         /\ Cardinality(Threads) \in Nat
<1>1. Active(u) \subseteq Ids /\ Passed(u) \subseteq Threads
  BY DEF Active, Passed
<1> QED BY <1>1, BoundAssumption, FS_Subset, FS_CardinalityType

\* The same in the next state.
LEMMA SlotSetsFiniteNext ==
  ASSUME NEW u
  PROVE  /\ IsFiniteSet(Active(u)') /\ Cardinality(Active(u)') \in Nat
         /\ IsFiniteSet(Passed(u)') /\ Cardinality(Passed(u)') \in Nat
         /\ Cardinality(Passed(u)') <= Cardinality(Threads)
<1>1. Active(u)' \subseteq Ids /\ Passed(u)' \subseteq Threads
  BY DEF Active, Passed
<1> QED BY <1>1, BoundAssumption, FS_Subset, FS_CardinalityType

\* A step that adds neither an active commitment nor a passed handler keeps the
\* bound of a user.
LEMMA SlotsShrink ==
  ASSUME NEW u \in Users, SlotInv,
         Active(u)' \subseteq Active(u), Passed(u)' \subseteq Passed(u)
  PROVE  Cardinality(Active(u)') + Cardinality(Passed(u)')
           <= MaxActive + Cardinality(Threads) - 1
<1>1. Cardinality(Active(u)') <= Cardinality(Active(u))
  BY SlotSetsFinite, FS_Subset
<1>2. Cardinality(Passed(u)') <= Cardinality(Passed(u))
  BY SlotSetsFinite, FS_Subset
<1> QED BY <1>1, <1>2, SlotSetsFinite, SlotSetsFiniteNext, BoundAssumption DEF SlotInv

\* Saving a checkpoint gives no user a new active commitment.
LEMMA SaveFreesSlots ==
  ASSUME TypeInv, NEW t \in Threads, SaveCommitment(t), NEW u \in Users
  PROVE  Active(u)' \subseteq Active(u)
<1> DEFINE i == requests[t].id
           row == commitments[i]
<1>1. requests[t] \in Checkpointing
  BY RequestKinds DEF SaveCommitment, TypeInv, TypeOK
<1>2. i \in Ids /\ Exists(i) /\ row \in Commitment
  BY <1>1 DEF TypeInv, TypeOK, RowsExist, Exists, Checkpointing
<1>3. /\ commitments'[i] = Saved(row, requests[t])
      /\ \A j \in Ids \ {i} : commitments'[j] = commitments[j]
  BY <1>2 DEF SaveCommitment, TypeInv, TypeOK
<1>4. requests[t].action \in {"resolve", "abandon", "continue"}
  BY <1>1 DEF Checkpointing, Action
<1>5. /\ Saved(row, requests[t]).user_id = row.user_id
      /\ Saved(row, requests[t]).status = "active" => row.status = "active"
  <2>1. CASE requests[t].action = "resolve"
    BY <1>2, <2>1 DEF Saved, Commitment
  <2>2. CASE requests[t].action = "abandon"
    BY <1>2, <2>2 DEF Saved, Commitment
  <2>3. CASE requests[t].action = "continue"
    BY <1>2, <2>3 DEF Saved, Commitment
  <2> QED BY <1>4, <2>1, <2>2, <2>3
<1> QED BY <1>2, <1>3, <1>5 DEF Active, Exists

\* No slot is used and no check is passed initially.
LEMMA InitSlots == Init => SlotInv
<1> SUFFICES ASSUME Init, NEW u \in Users
             PROVE  Cardinality(Active(u)) + Cardinality(Passed(u))
                      <= MaxActive + Cardinality(Threads) - 1
  BY DEF SlotInv
<1>1. Active(u) = {} /\ Passed(u) = {}
  BY DEF Init, Active, Passed, Exists, Idle
<1> QED BY <1>1, SlotSetsFinite, FS_EmptySet, BoundAssumption

\* Every step keeps the bound.
LEMMA NextSlots == TypeInv /\ SlotInv /\ [Next]_vars => SlotInv'
<1> SUFFICES ASSUME TypeInv, SlotInv, [Next]_vars, NEW u \in Users
             PROVE  Cardinality(Active(u)') + Cardinality(Passed(u)')
                      <= MaxActive + Cardinality(Threads) - 1
  BY DEF SlotInv
<1> DEFINE Bound == Cardinality(Active(u)') + Cardinality(Passed(u)')
                      <= MaxActive + Cardinality(Threads) - 1
<1>1. CASE Tick \/ UNCHANGED vars
  <2>1. Active(u)' = Active(u) /\ Passed(u)' = Passed(u)
    BY <1>1 DEF Tick, vars, Active, Passed, Exists
  <2> QED BY <2>1, SlotsShrink
<1>2. ASSUME NEW t \in Threads, NEW v \in Users, NEW p \in Problems, StartCreate(t, v, p)
      PROVE Bound
  <2>1. Active(u)' = Active(u) /\ Passed(u)' \subseteq Passed(u)
    BY <1>2 DEF StartCreate, Proceed, Active, Passed, Exists, TypeInv, TypeOK
  <2> QED BY <2>1, SlotsShrink
<1>3. ASSUME NEW t \in Threads, CountSlots(t)
      PROVE Bound
  <2> DEFINE v == requests[t].user_id
  <2>0. requests[t] \in Creating
    BY <1>3, RequestKinds DEF CountSlots, TypeInv, TypeOK
  <2>1. Active(u)' = Active(u)
    BY <1>3 DEF CountSlots, Active, Exists
  <2>2. CASE u = v /\ SlotFree(v)
    <3>1. Cardinality(Active(u)) <= MaxActive - 1
      BY <2>2, SlotSetsFinite, BoundAssumption DEF SlotFree
    <3> QED BY <2>1, <3>1, SlotSetsFinite, SlotSetsFiniteNext, BoundAssumption
  <2>3. CASE ~(u = v /\ SlotFree(v))
    <3>1. Passed(u)' \subseteq Passed(u)
      BY <1>3, <2>0, <2>3 DEF CountSlots, Proceed, Passed, Idle, Creating, TypeInv, TypeOK
    <3> QED BY <2>1, <3>1, SlotsShrink
  <2> QED BY <2>2, <2>3
<1>4. ASSUME NEW t \in Threads, InsertCommitment(t)
      PROVE Bound
  <2> DEFINE v == requests[t].user_id
  <2>1. PICK i \in Ids :
          /\ ~Exists(i)
          /\ commitments' = [commitments EXCEPT ![i] =
               [user_id |-> v, problem_id |-> requests[t].problem_id,
                status |-> "active", started_at |-> now,
                lock_expires_at |-> now + LockPeriod]]
          /\ Proceed(t, [step |-> "record_created", user_id |-> v, id |-> i])
    BY <1>4 DEF InsertCommitment
  <2>2. Passed(u)' = Passed(u) \ {t}
    BY <2>1 DEF Proceed, Passed, TypeInv, TypeOK
  <2>3. CASE u = v
    <3>1. Active(u)' = Active(u) \cup {i}
      BY <2>1, <2>3 DEF Active, Exists, NoRow, TypeInv, TypeOK
    <3>2. t \in Passed(u)
      BY <1>4, <2>3 DEF InsertCommitment, Passed
    <3>3. Cardinality(Active(u)') = Cardinality(Active(u)) + 1
      <4>1. i \notin Active(u) /\ IsFiniteSet(Active(u))
        BY <2>1, SlotSetsFinite DEF Active
      <4>2. Cardinality(Active(u) \cup {i}) = Cardinality(Active(u)) + 1
        BY <4>1, FS_AddElement
      <4> QED BY <3>1, <4>2
    <3>4. Cardinality(Passed(u)') = Cardinality(Passed(u)) - 1
      BY <2>2, <3>2, SlotSetsFinite, FS_RemoveElement
    <3> QED
      BY <3>3, <3>4, SlotSetsFinite, SlotSetsFiniteNext, BoundAssumption DEF SlotInv
  <2>4. CASE u # v
    <3>1. Active(u)' \subseteq Active(u)
      BY <2>1, <2>4 DEF Active, Exists, TypeInv, TypeOK
    <3> QED BY <2>2, <3>1, SlotsShrink
  <2> QED BY <2>3, <2>4
<1>5. ASSUME NEW t \in Threads, RecordCreated(t)
      PROVE Bound
  <2>1. Active(u)' = Active(u) /\ Passed(u)' \subseteq Passed(u)
    BY <1>5 DEF RecordCreated, Proceed, Active, Passed, Exists, Idle, TypeInv, TypeOK
  <2> QED BY <2>1, SlotsShrink
<1>6. ASSUME NEW t \in Threads, NEW v \in Users, NEW i \in Ids, NEW a \in Action,
             LoadCommitment(t, v, i, a)
      PROVE Bound
  <2>1. Active(u)' = Active(u) /\ Passed(u)' \subseteq Passed(u)
    BY <1>6 DEF LoadCommitment, Proceed, Active, Passed, Exists, TypeInv, TypeOK
  <2> QED BY <2>1, SlotsShrink
<1>7. ASSUME NEW t \in Threads, SaveCommitment(t)
      PROVE Bound
  <2>1. Passed(u)' \subseteq Passed(u)
    <3>1. requests[t] \in Checkpointing
      BY <1>7, RequestKinds DEF SaveCommitment, TypeInv, TypeOK
    <3> QED BY <1>7, <3>1 DEF SaveCommitment, Proceed, Passed, Checkpointing, TypeInv, TypeOK
  <2> QED BY <1>7, <2>1, SaveFreesSlots, SlotsShrink
<1>8. ASSUME NEW t \in Threads, RecordCheckpoint(t)
      PROVE Bound
  <2>1. requests[t] \in Checkpointing
    BY <1>8, RequestKinds DEF RecordCheckpoint, TypeInv, TypeOK
  <2>2. requests'[t].step # "insert"
    BY <1>8, <2>1 DEF RecordCheckpoint, Proceed, Checkpointing, Idle, TypeInv, TypeOK
  <2>3. Active(u)' = Active(u) /\ Passed(u)' \subseteq Passed(u)
    BY <1>8, <2>2 DEF RecordCheckpoint, Proceed, Active, Passed, Exists, TypeInv, TypeOK
  <2> QED BY <2>3, SlotsShrink
<1>9. ASSUME NEW t \in Threads, ReadReputation(t)
      PROVE Bound
  <2>1. requests[t] \in Checkpointing
    BY <1>9, RequestKinds DEF ReadReputation, TypeInv, TypeOK
  <2>2. Active(u)' = Active(u) /\ Passed(u)' \subseteq Passed(u)
    BY <1>9, <2>1 DEF ReadReputation, Proceed, Active, Passed, Exists, Checkpointing,
       TypeInv, TypeOK
  <2> QED BY <2>2, SlotsShrink
<1>10. ASSUME NEW t \in Threads, WriteReputation(t)
       PROVE Bound
  <2>1. Active(u)' = Active(u) /\ Passed(u)' \subseteq Passed(u)
    BY <1>10 DEF WriteReputation, Proceed, Active, Passed, Exists, Idle, TypeInv, TypeOK
  <2> QED BY <2>1, SlotsShrink
<1>11. ASSUME NEW t \in Threads, Fail(t)
       PROVE Bound
  <2>1. Active(u)' = Active(u) /\ Passed(u)' \subseteq Passed(u)
    BY <1>11 DEF Fail, Proceed, Active, Passed, Exists, Idle, TypeInv, TypeOK
  <2> QED BY <2>1, SlotsShrink
<1> QED
  BY <1>1, <1>2, <1>3, <1>4, <1>5, <1>6, <1>7, <1>8, <1>9, <1>10, <1>11 DEF Next

\* A user never holds more than the limit plus one slot for every handler that
\* can run beside the first: the check-then-insert race overshoots no further.
THEOREM SlotOverrun == Spec => []SlotOverrunBounded
<1>1. Spec => []SlotInv
  BY InitSlots, NextSlots, TypesInvariant, PTL DEF Spec
<1>2. SlotInv => SlotOverrunBounded
  <2> SUFFICES ASSUME SlotInv, NEW u \in Users
               PROVE  Cardinality(Active(u)) <= MaxActive + Cardinality(Threads) - 1
    BY DEF SlotOverrunBounded
  <2> QED BY SlotSetsFinite, BoundAssumption DEF SlotInv
<1> QED BY <1>1, <1>2, PTL

\* The slot limit itself, exactly as documented, when requests do not overlap.
THEOREM SlotLimitSerially ==
  ASSUME Cardinality(Threads) = 1
  PROVE  Spec => []SlotLimit
<1>1. SlotOverrunBounded => SlotLimit
  BY BoundAssumption, SlotSetsFinite DEF SlotOverrunBounded, SlotLimit
<1> QED BY <1>1, SlotOverrun, PTL

----------------------------------------------------------------------------
(* The commitment lock and the terminal states *)

\* A row changes in two ways only: a handler inserts it, active and locked for
\* one period, or a checkpoint handler that loaded it saves it.
LEMMA RowChange ==
  ASSUME TypeInv, [Next]_vars, NEW i \in Ids, commitments'[i] # commitments[i]
  PROVE  \/ /\ ~Exists(i)
            /\ commitments'[i].status = "active"
            /\ commitments'[i].started_at = now
            /\ commitments'[i].lock_expires_at = now + LockPeriod
         \/ /\ Exists(i)
            /\ \E t \in Threads :
                 /\ requests[t].step = "save" /\ requests[t].id = i
                 /\ requests[t] \in Checkpointing
                 /\ commitments'[i] = Saved(commitments[i], requests[t])
<1>1. PICK t \in Threads : InsertCommitment(t) \/ SaveCommitment(t)
  BY DEF Next, vars, Tick, StartCreate, CountSlots, RecordCreated, LoadCommitment,
     RecordCheckpoint, ReadReputation, WriteReputation, Fail
<1>2. CASE InsertCommitment(t)
  <2>1. PICK j \in Ids :
          /\ ~Exists(j)
          /\ commitments' = [commitments EXCEPT ![j] =
               [user_id |-> requests[t].user_id, problem_id |-> requests[t].problem_id,
                status |-> "active", started_at |-> now,
                lock_expires_at |-> now + LockPeriod]]
    BY <1>2 DEF InsertCommitment
  <2>2. j = i
    BY <2>1 DEF TypeInv, TypeOK
  <2> QED BY <2>1, <2>2 DEF TypeInv, TypeOK
<1>3. CASE SaveCommitment(t)
  <2>1. requests[t] \in Checkpointing
    BY <1>3, RequestKinds DEF SaveCommitment, TypeInv, TypeOK
  <2>2. requests[t].id = i
    BY <1>3 DEF SaveCommitment, TypeInv, TypeOK
  <2>3. Exists(i)
    BY <2>1, <2>2 DEF TypeInv, RowsExist
  <2> QED BY <1>3, <2>1, <2>2, <2>3 DEF SaveCommitment, TypeInv, TypeOK
<1> QED BY <1>1, <1>2, <1>3

\* What a saved checkpoint does to a row.
LEMMA SavedEffect ==
  ASSUME NEW row \in Commitment, NEW r \in Checkpointing
  PROVE  /\ Saved(row, r).started_at = row.started_at
         /\ \/ /\ r.action = "continue"
               /\ Saved(row, r).status = row.status
               /\ Saved(row, r).lock_expires_at = r.lock
            \/ /\ r.action # "continue"
               /\ Saved(row, r).status \in Terminal
               /\ Saved(row, r).lock_expires_at = row.lock_expires_at
<1>1. r.action \in {"resolve", "abandon", "continue"}
  BY DEF Checkpointing, Action
<1>2. CASE r.action = "resolve"
  BY <1>2 DEF Saved, Commitment, Terminal
<1>3. CASE r.action = "abandon"
  BY <1>3 DEF Saved, Commitment, Terminal
<1>4. CASE r.action = "continue"
  BY <1>4 DEF Saved, Commitment, Terminal
<1> QED BY <1>1, <1>2, <1>3, <1>4

\* A step leaves a commitment that has ended in a terminal status.
LEMMA TerminalKept ==
  ASSUME TypeInv, [Next]_vars, NEW i \in Ids, commitments[i].status \in Terminal
  PROVE  commitments'[i].status \in Terminal
<1>1. CASE commitments'[i] = commitments[i]
  BY <1>1
<1>2. CASE commitments'[i] # commitments[i]
  <2>1. Exists(i) /\ commitments[i] \in Commitment
    BY DEF Exists, NoRow, Terminal, TypeInv, TypeOK
  <2>2. PICK t \in Threads : /\ requests[t] \in Checkpointing
                             /\ commitments'[i] = Saved(commitments[i], requests[t])
    BY <1>2, <2>1, RowChange
  <2> QED BY <2>1, <2>2, SavedEffect
<1> QED BY <1>1, <1>2

\* No interleaving re-opens a commitment: a late "continue" only moves its lock.
THEOREM TerminalNeverReopens == Spec => TerminalStaysTerminal
<1>1. TypeInv /\ [Next]_vars
        => [\A i \in Ids : commitments[i].status \in Terminal
                             => commitments'[i].status \in Terminal]_vars
  BY TerminalKept
<1> QED BY <1>1, TypesInvariant, PTL DEF Spec, TerminalStaysTerminal

\* Why nobody leaves early: a lock never ends before the first period of its
\* commitment, and a handler that is about to save waited for that lock.
LockInv ==
  /\ \A i \in Ids : Exists(i) =>
       commitments[i].lock_expires_at >= commitments[i].started_at + LockPeriod
  /\ \A t \in Threads : requests[t].step = "save" =>
       /\ now >= commitments[requests[t].id].started_at + LockPeriod
       /\ requests[t].action = "continue" =>
            requests[t].lock >= commitments[requests[t].id].started_at + LockPeriod
  /\ NoExitBeforeFirstLock

\* Time does not run backwards.
LEMMA ClockMonotonic ==
  ASSUME TypeInv, [Next]_vars
  PROVE  now' \in Nat /\ now' >= now
<1>1. now' = now + 1 \/ now' = now
  BY DEF Next, vars, Tick, StartCreate, CountSlots, InsertCommitment, RecordCreated,
     LoadCommitment, SaveCommitment, RecordCheckpoint, ReadReputation, WriteReputation, Fail
<1> QED BY <1>1 DEF TypeInv, TypeOK

\* A handler is about to save because it was so before, or because it just
\* loaded a commitment whose lock has expired.
LEMMA SaveComesFromLoad ==
  ASSUME TypeInv, [Next]_vars, NEW t \in Threads, requests'[t].step = "save"
  PROVE  \/ requests'[t] = requests[t]
         \/ \E i \in Ids, a \in Action :
              /\ Exists(i) /\ now >= commitments[i].lock_expires_at
              /\ requests'[t].id = i /\ requests'[t].action = a
              /\ requests'[t].lock = LockAfter(a)
              /\ UNCHANGED <<commitments, now>>
<1> SUFFICES ASSUME requests'[t] # requests[t]
             PROVE  \E i \in Ids, a \in Action :
                      /\ Exists(i) /\ now >= commitments[i].lock_expires_at
                      /\ requests'[t].id = i /\ requests'[t].action = a
                      /\ requests'[t].lock = LockAfter(a)
                      /\ UNCHANGED <<commitments, now>>
  OBVIOUS
<1>1. requests \in [Threads -> Request]
  BY DEF TypeInv, TypeOK
<1>2. ~Tick /\ ~UNCHANGED vars
  BY DEF Tick, vars
<1>3. ASSUME NEW s \in Threads, Fail(s) \/ RecordCreated(s) \/ WriteReputation(s)
      PROVE FALSE
  BY <1>1, <1>3 DEF Fail, RecordCreated, WriteReputation, Proceed, Idle
<1>4. ASSUME NEW s \in Threads, InsertCommitment(s)
      PROVE FALSE
  BY <1>1, <1>4 DEF InsertCommitment, Proceed
<1>5. ASSUME NEW s \in Threads, NEW u \in Users, NEW p \in Problems, StartCreate(s, u, p)
      PROVE FALSE
  BY <1>1, <1>5 DEF StartCreate, Proceed
<1>6. ASSUME NEW s \in Threads, CountSlots(s)
      PROVE FALSE
  <2>1. requests[s] \in Creating
    BY <1>1, <1>6, RequestKinds DEF CountSlots
  <2> QED BY <1>1, <1>6, <2>1 DEF CountSlots, Proceed, Idle, Creating
<1>7. ASSUME NEW s \in Threads,
             SaveCommitment(s) \/ RecordCheckpoint(s) \/ ReadReputation(s)
      PROVE FALSE
  <2>1. requests[s] \in Checkpointing
    BY <1>1, <1>7, RequestKinds DEF SaveCommitment, RecordCheckpoint, ReadReputation
  <2>2. CASE SaveCommitment(s)
    BY <1>1, <2>1, <2>2 DEF SaveCommitment, Proceed, Checkpointing
  <2>3. CASE RecordCheckpoint(s)
    <3>1. requests'[s].step \in {"idle", "read_reputation"}
      BY <1>1, <2>1, <2>3 DEF RecordCheckpoint, Proceed, Idle, Checkpointing
    <3>2. t # s => requests'[t] = requests[t]
      BY <1>1, <2>3 DEF RecordCheckpoint, Proceed
    <3> QED BY <3>1, <3>2
  <2>4. CASE ReadReputation(s)
    BY <1>1, <2>1, <2>4 DEF ReadReputation, Proceed, Checkpointing
  <2> QED BY <1>7, <2>2, <2>3, <2>4
<1>8. ASSUME NEW s \in Threads, NEW u \in Users, NEW i \in Ids, NEW a \in Action,
             LoadCommitment(s, u, i, a)
      PROVE  /\ Exists(i) /\ now >= commitments[i].lock_expires_at
             /\ requests'[t].id = i /\ requests'[t].action = a
             /\ requests'[t].lock = LockAfter(a)
             /\ UNCHANGED <<commitments, now>>
  BY <1>1, <1>8 DEF LoadCommitment, LockExpired, Proceed
<1> QED BY <1>2, <1>3, <1>4, <1>5, <1>6, <1>7, <1>8 DEF Next

\* A saving handler keeps naming the commitment it loaded, whose first day never
\* changes.
LEMMA StartedAtFixed ==
  ASSUME TypeInv, [Next]_vars, NEW i \in Ids, Exists(i)
  PROVE  Exists(i)' /\ commitments'[i].started_at = commitments[i].started_at
<1>1. commitments[i] \in Commitment
  BY DEF Exists, TypeInv, TypeOK
<1>2. CASE commitments'[i] = commitments[i]
  BY <1>2 DEF Exists
<1>3. CASE commitments'[i] # commitments[i]
  <2>1. PICK t \in Threads : /\ requests[t] \in Checkpointing
                             /\ commitments'[i] = Saved(commitments[i], requests[t])
    BY <1>3, RowChange
  <2> QED BY <1>1, <2>1, SavedEffect, SavedType, NoRowIsNoCommitment DEF Exists
<1> QED BY <1>2, <1>3

\* Initially there is no commitment to lock.
LEMMA InitLocks == Init => LockInv
BY DEF Init, LockInv, NoExitBeforeFirstLock, Exists, NoRow, Idle, Terminal

\* Every step keeps LockInv.
LEMMA NextLocks == TypeInv /\ LockInv /\ [Next]_vars => LockInv'
<1> SUFFICES ASSUME TypeInv, LockInv, [Next]_vars PROVE LockInv'
  OBVIOUS
<1>0. TypeInv' /\ now \in Nat /\ now' \in Nat /\ now' >= now /\ LockPeriod \in Nat
  BY NextTypes, ClockMonotonic, BoundAssumption DEF TypeInv, TypeOK
<1>1. ASSUME NEW i \in Ids, Exists(i)'
      PROVE  /\ commitments'[i].lock_expires_at >= commitments'[i].started_at + LockPeriod
             /\ commitments'[i].status \in Terminal
                  => now' >= commitments'[i].started_at + LockPeriod
  <2>1. CASE commitments'[i] = commitments[i]
    <3>1. Exists(i) /\ commitments[i] \in Commitment
      BY <1>1, <2>1 DEF Exists, TypeInv, TypeOK
    <3> QED BY <1>0, <2>1, <3>1 DEF LockInv, NoExitBeforeFirstLock, Commitment
  <2>2. CASE commitments'[i] # commitments[i] /\ ~Exists(i)
    BY <1>0, <2>2, RowChange DEF Terminal
  <2>3. CASE commitments'[i] # commitments[i] /\ Exists(i)
    <3>1. PICK t \in Threads :
            /\ requests[t].step = "save" /\ requests[t].id = i
            /\ requests[t] \in Checkpointing
            /\ commitments'[i] = Saved(commitments[i], requests[t])
      BY <2>3, RowChange
    <3>2. commitments[i] \in Commitment
      BY <2>3 DEF Exists, TypeInv, TypeOK
    <3>3. /\ now >= commitments[i].started_at + LockPeriod
          /\ requests[t].action = "continue" =>
               requests[t].lock >= commitments[i].started_at + LockPeriod
          /\ commitments[i].lock_expires_at >= commitments[i].started_at + LockPeriod
      BY <2>3, <3>1 DEF LockInv
    <3> QED BY <1>0, <3>1, <3>2, <3>3, SavedEffect DEF Commitment
  <2> QED BY <2>1, <2>2, <2>3
<1>2. ASSUME NEW t \in Threads, requests'[t].step = "save"
      PROVE  /\ now' >= commitments'[requests'[t].id].started_at + LockPeriod
             /\ requests'[t].action = "continue" =>
                  requests'[t].lock
                    >= commitments'[requests'[t].id].started_at + LockPeriod
  <2>1. CASE requests'[t] = requests[t]
    <3> DEFINE i == requests[t].id
    <3>1. requests[t] \in Checkpointing
      BY <1>2, <2>1, RequestKinds DEF TypeInv, TypeOK
    <3>2. i \in Ids /\ Exists(i)
      BY <3>1 DEF TypeInv, RowsExist, Checkpointing
    <3>3. commitments[i] \in Commitment /\ commitments'[i].started_at = commitments[i].started_at
      BY <3>2, StartedAtFixed DEF Exists, TypeInv, TypeOK
    <3>4. /\ now >= commitments[i].started_at + LockPeriod
          /\ requests[t].action = "continue" =>
               requests[t].lock >= commitments[i].started_at + LockPeriod
      BY <1>2, <2>1 DEF LockInv
    <3> QED BY <1>0, <2>1, <3>3, <3>4 DEF Commitment
  <2>2. CASE requests'[t] # requests[t]
    <3>1. PICK i \in Ids, a \in Action :
            /\ Exists(i) /\ now >= commitments[i].lock_expires_at
            /\ requests'[t].id = i /\ requests'[t].action = a
            /\ requests'[t].lock = LockAfter(a)
            /\ UNCHANGED <<commitments, now>>
      BY <1>2, <2>2, SaveComesFromLoad
    <3>2. commitments[i] \in Commitment
      BY <3>1 DEF Exists, TypeInv, TypeOK
    <3>3. now >= commitments[i].started_at + LockPeriod
      BY <1>0, <3>1, <3>2 DEF LockInv, Commitment
    <3>4. a = "continue" => LockAfter(a) = now + LockPeriod
      BY DEF LockAfter
    <3> QED BY <1>0, <3>1, <3>2, <3>3, <3>4 DEF Commitment
  <2> QED BY <2>1, <2>2
<1>3. NoExitBeforeFirstLock'
  <2> SUFFICES ASSUME NEW i \in Ids, commitments'[i].status \in Terminal
               PROVE  now' >= commitments'[i].started_at + LockPeriod
    BY DEF NoExitBeforeFirstLock
  <2>1. Exists(i)'
    BY DEF Exists, NoRow, Terminal
  <2> QED BY <1>1, <2>1
<1> QED BY <1>1, <1>2, <1>3 DEF LockInv

\* The lock's guarantee under every interleaving: no commitment ends before its
\* first lock period has passed.
THEOREM NoEarlyExit == Spec => []NoExitBeforeFirstLock
<1>1. Spec => []LockInv
  BY InitLocks, NextLocks, TypesInvariant, PTL DEF Spec
<1>2. LockInv => NoExitBeforeFirstLock
  BY DEF LockInv
<1> QED BY <1>1, <1>2, PTL

----------------------------------------------------------------------------
(* The audit trail *)

\* An audit row is appended: its event is recorded, for that commitment alone.
LEMMA AppendRecords ==
  ASSUME TypeInv, NEW j \in Ids, NEW ev \in EventType, NEW i \in Ids,
         checkpoints' = [checkpoints EXCEPT ![j] = Append(@, ev)]
  PROVE  /\ i = j => Recorded(i)' = Recorded(i) \cup {ev}
         /\ i # j => Recorded(i)' = Recorded(i)
<1>1. PICK c \in Seq(EventType) : c = checkpoints[i]
  BY DEF TypeInv, TypeOK
<1>2. CASE i # j
  BY <1>2 DEF TypeInv, TypeOK, Recorded
<1>3. CASE i = j
  <2>1. PICK d : d = Append(c, ev) /\ checkpoints'[i] = d
    BY <1>1, <1>3 DEF TypeInv, TypeOK
  <2>2. /\ DOMAIN d = DOMAIN c \cup {Len(c) + 1} /\ d[Len(c) + 1] = ev
        /\ \A k \in DOMAIN c : d[k] = c[k]
    BY <2>1
  <2>3. {d[k] : k \in DOMAIN d} = {c[k] : k \in DOMAIN c} \cup {ev}
    BY <2>2
  <2> QED BY <1>1, <1>3, <2>1, <2>3 DEF Recorded
<1> QED BY <1>2, <1>3

\* What changes the audit trail: a handler that owes an audit row.
LEMMA RecordedChange ==
  ASSUME TypeInv, [Next]_vars, NEW i \in Ids
  PROVE  \/ Recorded(i)' = Recorded(i)
         \/ \E t \in Threads :
              /\ requests[t].step = "record_created" /\ requests[t].id = i
              /\ requests[t] \in Created
              /\ Recorded(i)' = Recorded(i) \cup {"created"}
         \/ \E t \in Threads :
              /\ requests[t].step = "record" /\ requests[t].id = i
              /\ requests[t] \in Checkpointing
              /\ Recorded(i)' = Recorded(i) \cup {EventFor(requests[t].action)}
<1>1. CASE UNCHANGED checkpoints
  BY <1>1 DEF Recorded
<1>2. ASSUME NEW t \in Threads, RecordCreated(t)
      PROVE  \/ Recorded(i)' = Recorded(i)
             \/ /\ requests[t].step = "record_created" /\ requests[t].id = i
                /\ requests[t] \in Created
                /\ Recorded(i)' = Recorded(i) \cup {"created"}
  <2>1. requests[t] \in Created /\ requests[t].step = "record_created"
    BY <1>2, RequestKinds DEF RecordCreated, TypeInv, TypeOK
  <2>2. PICK j \in Ids : j = requests[t].id
    BY <2>1 DEF Created
  <2>3. PICK ev \in EventType : ev = "created"
    BY DEF EventType
  <2>4. checkpoints' = [checkpoints EXCEPT ![j] = Append(@, ev)]
    BY <1>2, <2>2, <2>3 DEF RecordCreated
  <2>5. /\ i = j => Recorded(i)' = Recorded(i) \cup {ev}
        /\ i # j => Recorded(i)' = Recorded(i)
    BY <2>4, AppendRecords
  <2> QED BY <2>1, <2>2, <2>3, <2>5
<1>3. ASSUME NEW t \in Threads, RecordCheckpoint(t)
      PROVE  \/ Recorded(i)' = Recorded(i)
             \/ /\ requests[t].step = "record" /\ requests[t].id = i
                /\ requests[t] \in Checkpointing
                /\ Recorded(i)' = Recorded(i) \cup {EventFor(requests[t].action)}
  <2>1. requests[t] \in Checkpointing /\ requests[t].step = "record"
    BY <1>3, RequestKinds DEF RecordCheckpoint, TypeInv, TypeOK
  <2>2. PICK j \in Ids, a \in Action : j = requests[t].id /\ a = requests[t].action
    BY <2>1 DEF Checkpointing
  <2>3. PICK ev \in EventType : ev = EventFor(a)
    BY EventForType
  <2>4. checkpoints' = [checkpoints EXCEPT ![j] = Append(@, ev)]
    BY <1>3, <2>2, <2>3 DEF RecordCheckpoint
  <2> QED BY <2>1, <2>2, <2>3, <2>4, AppendRecords
<1> QED
  BY <1>1, <1>2, <1>3
     DEF Next, vars, Tick, StartCreate, CountSlots, InsertCommitment, LoadCommitment, SaveCommitment,
         ReadReputation, WriteReputation, Fail

\* A commitment is never deleted.
LEMMA ExistsStays ==
  ASSUME TypeInv, [Next]_vars, NEW i \in Ids, Exists(i)
  PROVE  commitments'[i] # NoRow
<1>1. commitments[i] \in Commitment
  BY DEF TypeInv, TypeOK, Exists
<1>2. CASE commitments'[i] # commitments[i]
  <2>1. PICK t \in Threads : /\ requests[t] \in Checkpointing
                             /\ commitments'[i] = Saved(commitments[i], requests[t])
    BY <1>2, RowChange
  <2> QED BY <1>1, <2>1, SavedType, NoRowIsNoCommitment
<1> QED BY <1>2 DEF Exists

\* A handler that owes an audit row keeps owing it, writes it, or dies, and then
\* the commitment is among the interrupted ones.
LEMMA DebtStays ==
  ASSUME TypeInv, [Next]_vars, NEW t \in Threads, NEW i \in Ids,
         requests[t].step \in {"record_created", "record"}, requests[t].id = i
  PROVE  \/ requests'[t] = requests[t]
         \/ i \in interrupted'
         \/ requests[t].step = "record_created" /\ "created" \in Recorded(i)'
         \/ requests[t].step = "record" /\ EventFor(requests[t].action) \in Recorded(i)'
<1> SUFFICES ASSUME requests'[t] # requests[t]
             PROVE  \/ i \in interrupted'
                    \/ requests[t].step = "record_created" /\ "created" \in Recorded(i)'
                    \/ requests[t].step = "record" /\ EventFor(requests[t].action) \in Recorded(i)'
  OBVIOUS
<1>1. requests \in [Threads -> Request]
  BY DEF TypeInv, TypeOK
<1>2. \/ RecordCreated(t) \/ RecordCheckpoint(t) \/ Fail(t)
  <2>1. requests[t] # Idle
    BY DEF Idle
  <2>2. PICK s \in Threads :
          \/ \E u \in Users, p \in Problems : StartCreate(s, u, p)
          \/ CountSlots(s) \/ InsertCommitment(s) \/ RecordCreated(s)
          \/ \E u \in Users, j \in Ids, a \in Action : LoadCommitment(s, u, j, a)
          \/ SaveCommitment(s) \/ RecordCheckpoint(s) \/ ReadReputation(s) \/ WriteReputation(s)
          \/ Fail(s)
    BY DEF Next, Tick, vars
  <2>3. s = t
    <3>1. PICK r : Proceed(s, r)
      BY <2>2 DEF StartCreate, CountSlots, InsertCommitment, RecordCreated, LoadCommitment,
                  SaveCommitment, RecordCheckpoint, ReadReputation, WriteReputation, Fail
    <3> QED BY <1>1, <3>1 DEF Proceed
  <2> QED BY <2>1, <2>2, <2>3 DEF StartCreate, CountSlots, InsertCommitment, LoadCommitment,
                                  SaveCommitment, ReadReputation, WriteReputation
<1>3. CASE RecordCreated(t)
  <2>1. checkpoints' = [checkpoints EXCEPT ![i] = Append(@, "created")] /\ "created" \in EventType
    BY <1>3 DEF RecordCreated, EventType
  <2>2. Recorded(i)' = Recorded(i) \cup {"created"}
    BY <2>1, AppendRecords
  <2> QED BY <1>3, <2>2 DEF RecordCreated
<1>4. CASE RecordCheckpoint(t)
  <2>1. requests[t] \in Checkpointing /\ requests[t].step = "record"
    BY <1>1, <1>4, RequestKinds DEF RecordCheckpoint
  <2>2. PICK ev \in EventType : ev = EventFor(requests[t].action)
    BY <2>1, EventForType DEF Checkpointing
  <2>3. checkpoints' = [checkpoints EXCEPT ![i] = Append(@, ev)]
    BY <1>4, <2>2 DEF RecordCheckpoint
  <2>4. Recorded(i)' = Recorded(i) \cup {ev}
    BY <2>3, AppendRecords
  <2> QED BY <2>1, <2>2, <2>4
<1>5. CASE Fail(t)
  BY <1>5 DEF Fail, HalfDone
<1> QED BY <1>2, <1>3, <1>4, <1>5

CreationOwed(t, i) == requests[t].step = "record_created" /\ requests[t].id = i

EndOwed(t, i) ==
  /\ requests[t].step = "record" /\ requests[t].id = i
  /\ EventFor(requests[t].action) = commitments[i].status

\* Whatever a commitment went through is recorded, or a handler still owes the
\* audit row, or died owing it.
CreationCovered ==
  \A i \in Ids : Exists(i) =>
    "created" \in Recorded(i) \/ i \in interrupted \/ \E t \in Threads : CreationOwed(t, i)

EndCovered ==
  \A i \in Ids : commitments[i].status \in Terminal =>
    \/ commitments[i].status \in Recorded(i)
    \/ i \in interrupted
    \/ \E t \in Threads : EndOwed(t, i)

\* An audit row of an end is owed only for a commitment that has ended.
EndHappened ==
  \A t \in Threads : requests[t].step = "record" /\ requests[t].action # "continue"
    => commitments[requests[t].id].status \in Terminal

AuditInv == CreationCovered /\ EndCovered /\ EndHappened /\ NoEventWithoutTransition

\* AuditInv holds initially.
LEMMA InitAudit == Init => AuditInv
<1> SUFFICES ASSUME Init PROVE AuditInv
  OBVIOUS
<1>1. \A i \in Ids : commitments[i] = NoRow /\ Recorded(i) = {}
  BY DEF Init, Recorded
<1>2. NoRow.status \notin Terminal
  BY DEF NoRow, Terminal
<1>3. \A t \in Threads : requests[t].step # "record"
  BY DEF Init, Idle
<1>4. CreationCovered /\ EndCovered /\ EndHappened
  BY <1>1, <1>2, <1>3 DEF CreationCovered, EndCovered, EndHappened, Exists
<1>5. NoEventWithoutTransition
  BY <1>1 DEF NoEventWithoutTransition
<1> QED BY <1>4, <1>5 DEF AuditInv

\* The audit trail and the interrupted commitments only grow.
LEMMA AuditGrows ==
  ASSUME TypeInv, [Next]_vars, NEW i \in Ids
  PROVE  Recorded(i) \subseteq Recorded(i)' /\ interrupted \subseteq interrupted'
<1>1. Recorded(i) \subseteq Recorded(i)'
  BY RecordedChange
<1>2. interrupted \subseteq interrupted'
  BY DEF Next, vars, Tick, StartCreate, CountSlots, InsertCommitment, RecordCreated, LoadCommitment,
         SaveCommitment, RecordCheckpoint, ReadReputation, WriteReputation, Fail
<1> QED BY <1>1, <1>2

\* A row that is new owes its creation.
LEMMA CreationStaysCovered ==
  ASSUME TypeInv, AuditInv, [Next]_vars, NEW i \in Ids, commitments'[i] # NoRow
  PROVE  \/ "created" \in Recorded(i)'
         \/ i \in interrupted'
         \/ \E t \in Threads : requests'[t].step = "record_created" /\ requests'[t].id = i
<1>1. CASE Exists(i)
  <2>1. "created" \in Recorded(i) \/ i \in interrupted \/ \E t \in Threads : CreationOwed(t, i)
    BY <1>1 DEF AuditInv, CreationCovered
  <2>2. CASE \E t \in Threads : CreationOwed(t, i)
    <3>1. PICK t \in Threads : requests[t].step = "record_created" /\ requests[t].id = i
      BY <2>2 DEF CreationOwed
    <3> QED BY <3>1, DebtStays
  <2> QED BY <2>1, <2>2, AuditGrows
<1>2. CASE ~Exists(i)
  <2>1. PICK t \in Threads : InsertCommitment(t)
    <3>1. CASE \E t \in Threads : SaveCommitment(t)
      <4>1. PICK t \in Threads : SaveCommitment(t)
        BY <3>1
      <4>2. requests[t] \in Checkpointing
        BY <4>1, RequestKinds DEF SaveCommitment, TypeInv, TypeOK
      <4>3. requests[t].id # i
        BY <1>2, <4>2 DEF TypeInv, RowsExist
      <4> QED BY <1>2, <4>1, <4>3 DEF SaveCommitment, Exists, TypeInv, TypeOK
    <3> QED BY <1>2, <3>1 DEF Exists, Next, vars, Tick, StartCreate, CountSlots, RecordCreated,
              LoadCommitment, RecordCheckpoint, ReadReputation, WriteReputation, Fail
  <2>2. PICK j, row, r :
          /\ j \in Ids /\ commitments' = [commitments EXCEPT ![j] = row]
          /\ requests' = [requests EXCEPT ![t] = r]
          /\ r.step = "record_created" /\ r.id = j
    <3>1. PICK j \in Ids :
            /\ commitments' = [commitments EXCEPT ![j] =
                 [user_id |-> requests[t].user_id, problem_id |-> requests[t].problem_id,
                  status |-> "active", started_at |-> now, lock_expires_at |-> now + LockPeriod]]
            /\ Proceed(t, [step |-> "record_created", user_id |-> requests[t].user_id, id |-> j])
      BY <2>1 DEF InsertCommitment
    <3>2. PICK r : r = [step |-> "record_created", user_id |-> requests[t].user_id, id |-> j]
      OBVIOUS
    <3>3. r.step = "record_created" /\ r.id = j /\ requests' = [requests EXCEPT ![t] = r]
      BY <3>1, <3>2 DEF Proceed
    <3> QED BY <3>1, <3>3
  <2>3. j = i
    BY <1>2, <2>2 DEF Exists, TypeInv, TypeOK
  <2>4. requests'[t] = r
    BY <2>2 DEF TypeInv, TypeOK
  <2> QED BY <2>2, <2>3, <2>4
<1> QED BY <1>1, <1>2

\* A row that ends owes its end.
LEMMA EndStaysCovered ==
  ASSUME TypeInv, AuditInv, [Next]_vars, NEW i \in Ids, commitments'[i].status \in Terminal
  PROVE  \/ commitments'[i].status \in Recorded(i)'
         \/ i \in interrupted'
         \/ \E t \in Threads : /\ requests'[t].step = "record" /\ requests'[t].id = i
                               /\ EventFor(requests'[t].action) = commitments'[i].status
<1>1. CASE commitments'[i].status = commitments[i].status
  <2>1. \/ commitments[i].status \in Recorded(i)
        \/ i \in interrupted
        \/ \E t \in Threads : EndOwed(t, i)
    BY <1>1 DEF AuditInv, EndCovered
  <2>2. CASE \E t \in Threads : EndOwed(t, i)
    <3>1. PICK t \in Threads : /\ requests[t].step = "record" /\ requests[t].id = i
                               /\ EventFor(requests[t].action) = commitments[i].status
      BY <2>2 DEF EndOwed
    <3> QED BY <1>1, <3>1, DebtStays
  <2> QED BY <1>1, <2>1, <2>2, AuditGrows
<1>2. CASE commitments'[i].status # commitments[i].status
  <2>1. commitments'[i] # commitments[i] /\ commitments'[i].status # "active"
    BY <1>2 DEF Terminal
  <2>2. Exists(i)
    BY <2>1, RowChange
  <2>3. PICK t \in Threads : SaveCommitment(t)
    <3>1. ~ \E t \in Threads : InsertCommitment(t)
      BY <2>1, <2>2 DEF InsertCommitment, Exists, TypeInv, TypeOK
    <3> QED BY <2>1, <3>1 DEF Next, vars, Tick, StartCreate, CountSlots, RecordCreated,
              LoadCommitment, RecordCheckpoint, ReadReputation, WriteReputation, Fail
  <2>4. requests[t] \in Checkpointing /\ requests[t].step = "save"
    BY <2>3, RequestKinds DEF SaveCommitment, TypeInv, TypeOK
  <2>5. requests[t].id = i /\ commitments'[i] = Saved(commitments[i], requests[t])
    BY <2>1, <2>3 DEF SaveCommitment, TypeInv, TypeOK
  <2>6. commitments[i] \in Commitment
    BY <2>2 DEF Exists, TypeInv, TypeOK
  <2>7. /\ requests'[t].step = "record" /\ requests'[t].id = i
        /\ requests'[t].action = requests[t].action
    BY <2>3, <2>4, <2>5 DEF SaveCommitment, Proceed, TypeInv, TypeOK, Checkpointing
  <2>8. EventFor(requests[t].action) = commitments'[i].status
    <3>1. requests[t].action \in {"resolve", "abandon", "continue"}
      BY <2>4 DEF Checkpointing, Action
    <3>2. CASE requests[t].action = "resolve"
      BY <2>5, <2>6, <3>2 DEF Saved, EventFor, Commitment
    <3>3. CASE requests[t].action = "abandon"
      BY <2>5, <2>6, <3>3 DEF Saved, EventFor, Commitment
    <3>4. CASE requests[t].action = "continue"
      BY <1>2, <2>4, <2>5, <2>6, <3>4, SavedEffect
    <3> QED BY <3>1, <3>2, <3>3, <3>4
  <2> QED BY <2>7, <2>8
<1> QED BY <1>1, <1>2

\* A handler owes the row of an end only once it has saved it.
LEMMA EndStaysHappened ==
  ASSUME TypeInv, AuditInv, [Next]_vars, NEW t \in Threads,
         requests'[t].step = "record", requests'[t].action # "continue"
  PROVE  commitments'[requests'[t].id].status \in Terminal
<1>1. requests \in [Threads -> Request]
  BY DEF TypeInv, TypeOK
<1>2. CASE requests'[t] = requests[t]
  <2>1. requests[t] \in Checkpointing
    BY <1>1, <1>2, RequestKinds
  <2> QED BY <1>2, <2>1, TerminalKept DEF AuditInv, EndHappened, Checkpointing
<1>3. CASE requests'[t] # requests[t]
  <2>1. PICK s \in Threads :
          \/ \E u \in Users, p \in Problems : StartCreate(s, u, p)
          \/ CountSlots(s) \/ InsertCommitment(s) \/ RecordCreated(s)
          \/ \E u \in Users, j \in Ids, a \in Action : LoadCommitment(s, u, j, a)
          \/ SaveCommitment(s) \/ RecordCheckpoint(s) \/ ReadReputation(s) \/ WriteReputation(s)
          \/ Fail(s)
    BY <1>3 DEF Next, Tick, vars
  <2>2. s = t
    <3>1. PICK r : Proceed(s, r)
      BY <2>1 DEF StartCreate, CountSlots, InsertCommitment, RecordCreated, LoadCommitment,
                  SaveCommitment, RecordCheckpoint, ReadReputation, WriteReputation, Fail
    <3> QED BY <1>1, <1>3, <3>1 DEF Proceed
  <2>3. SaveCommitment(t)
    <3>1. PICK r : requests' = [requests EXCEPT ![t] = r] /\ (r.step = "record" => SaveCommitment(t))
      <4>1. CASE SaveCommitment(t)
        BY <4>1 DEF SaveCommitment, Proceed
      <4>2. CASE CountSlots(t)
        <5>1. requests[t] \in Creating
          BY <1>1, <4>2, RequestKinds DEF CountSlots
        <5>2. PICK r : requests' = [requests EXCEPT ![t] = r] /\ r.step # "record"
          BY <4>2, <5>1 DEF CountSlots, Proceed, Idle, Creating
        <5> QED BY <5>2
      <4>3. CASE RecordCheckpoint(t)
        <5>1. requests[t] \in Checkpointing
          BY <1>1, <4>3, RequestKinds DEF RecordCheckpoint
        <5>2. PICK r : r = [requests[t] EXCEPT !.step = "read_reputation"]
          OBVIOUS
        <5>3. r.step # "record" /\ Idle.step # "record"
          BY <5>1, <5>2 DEF Idle, Checkpointing
        <5>4. requests' = [requests EXCEPT ![t] = Idle] \/ requests' = [requests EXCEPT ![t] = r]
          BY <4>3, <5>2 DEF RecordCheckpoint, Proceed
        <5> QED BY <5>3, <5>4
      <4>4. CASE ReadReputation(t)
        <5>1. requests[t] \in Checkpointing
          BY <1>1, <4>4, RequestKinds DEF ReadReputation
        <5>2. PICK r : requests' = [requests EXCEPT ![t] = r] /\ r.step # "record"
          BY <4>4, <5>1 DEF ReadReputation, Proceed, Checkpointing
        <5> QED BY <5>2
      <4>5. CASE \/ \E u \in Users, p \in Problems : StartCreate(t, u, p)
                 \/ InsertCommitment(t) \/ RecordCreated(t)
                 \/ \E u \in Users, j \in Ids, a \in Action : LoadCommitment(t, u, j, a)
                 \/ WriteReputation(t) \/ Fail(t)
        <5>1. PICK r : requests' = [requests EXCEPT ![t] = r] /\ r.step # "record"
          BY <4>5 DEF StartCreate, InsertCommitment, RecordCreated, LoadCommitment, WriteReputation,
                      Fail, Proceed, Idle
        <5> QED BY <5>1
      <4> QED BY <2>1, <2>2, <4>1, <4>2, <4>3, <4>4, <4>5
    <3> QED BY <1>1, <3>1
  <2>4. requests[t] \in Checkpointing
    BY <1>1, <2>3, RequestKinds DEF SaveCommitment
  <2>5. PICK i \in Ids : i = requests[t].id
    BY <2>4 DEF Checkpointing
  <2>6. requests'[t].id = i /\ requests'[t].action = requests[t].action
    BY <1>1, <2>3, <2>4, <2>5 DEF SaveCommitment, Proceed, Checkpointing
  <2>7. commitments[i] \in Commitment
    BY <2>4, <2>5 DEF TypeInv, TypeOK, RowsExist, Exists
  <2>8. commitments'[i] = Saved(commitments[i], requests[t])
    BY <2>3, <2>5 DEF SaveCommitment, TypeInv, TypeOK
  <2> QED BY <2>4, <2>6, <2>7, <2>8, SavedEffect
<1> QED BY <1>2, <1>3

\* No audit row runs ahead of its commitment.
LEMMA NoEventStays ==
  ASSUME TypeInv, AuditInv, [Next]_vars, NEW i \in Ids
  PROVE  /\ Recorded(i)' # {} => commitments'[i] # NoRow
         /\ Recorded(i)' \cap Terminal # {} => commitments'[i].status \in Terminal
<1>1. /\ Exists(i) => commitments'[i] # NoRow
      /\ commitments[i].status \in Terminal => commitments'[i].status \in Terminal
  BY ExistsStays, TerminalKept
<1>2. /\ Recorded(i) # {} => Exists(i)
      /\ Recorded(i) \cap Terminal # {} => commitments[i].status \in Terminal
  BY DEF AuditInv, NoEventWithoutTransition
<1>3. CASE Recorded(i)' = Recorded(i)
  BY <1>1, <1>2, <1>3
<1>4. ASSUME NEW t \in Threads, requests[t].id = i, requests[t] \in Created,
             Recorded(i)' = Recorded(i) \cup {"created"}
      PROVE  /\ Recorded(i)' # {} => commitments'[i] # NoRow
             /\ Recorded(i)' \cap Terminal # {} => commitments'[i].status \in Terminal
  <2>1. Exists(i)
    BY <1>4 DEF TypeInv, RowsExist
  <2> QED BY <1>1, <1>2, <1>4, <2>1 DEF Terminal
<1>5. ASSUME NEW t \in Threads, requests[t].step = "record", requests[t].id = i,
             requests[t] \in Checkpointing,
             Recorded(i)' = Recorded(i) \cup {EventFor(requests[t].action)}
      PROVE  /\ Recorded(i)' # {} => commitments'[i] # NoRow
             /\ Recorded(i)' \cap Terminal # {} => commitments'[i].status \in Terminal
  <2>1. Exists(i)
    BY <1>5 DEF TypeInv, RowsExist
  <2>2. requests[t].action # "continue" => commitments[i].status \in Terminal
    BY <1>5 DEF AuditInv, EndHappened
  <2>3. requests[t].action = "continue" => EventFor(requests[t].action) \notin Terminal
    BY DEF EventFor, Terminal
  <2> QED BY <1>1, <1>2, <1>5, <2>1, <2>2, <2>3
<1> QED BY <1>3, <1>4, <1>5, RecordedChange

\* AuditInv is inductive.
LEMMA NextAudit == TypeInv /\ AuditInv /\ [Next]_vars => AuditInv'
<1> SUFFICES ASSUME TypeInv, AuditInv, [Next]_vars PROVE AuditInv'
  OBVIOUS
<1>1. CreationCovered'
  BY CreationStaysCovered DEF CreationCovered, CreationOwed, Exists
<1>2. EndCovered'
  BY EndStaysCovered DEF EndCovered, EndOwed
<1>3. EndHappened'
  BY EndStaysHappened DEF EndHappened
<1>4. NoEventWithoutTransition'
  BY NoEventStays DEF NoEventWithoutTransition, Exists
<1> QED BY <1>1, <1>2, <1>3, <1>4 DEF AuditInv

\* AuditInv is an invariant.
LEMMA AuditInvariant == Spec => []AuditInv
BY InitAudit, NextAudit, TypesInvariant, PTL DEF Spec

\* Every creation and every end has its audit row, once the handlers that worked
\* on the commitment are done, unless one of them died half way.
THEOREM AuditIsComplete == Spec => []AuditTrailComplete
<1>1. TypeInv /\ AuditInv => AuditTrailComplete
  <2> SUFFICES ASSUME TypeInv, AuditInv, NEW i \in Ids, Exists(i), ~Busy(i), i \notin interrupted
               PROVE  ({"created", commitments[i].status} \ {"active"}) \subseteq Recorded(i)
    BY DEF AuditTrailComplete
  <2>1. \A t \in Threads : ~CreationOwed(t, i) /\ ~EndOwed(t, i)
    BY DEF Busy, HalfDone, CreationOwed, EndOwed
  <2>2. commitments[i] \in Commitment
    BY DEF TypeInv, TypeOK, Exists
  <2>3. commitments[i].status \in {"active"} \cup Terminal
    BY <2>2 DEF Commitment
  <2>4. "created" \in Recorded(i)
    BY <2>1 DEF AuditInv, CreationCovered
  <2>5. commitments[i].status \in Terminal => commitments[i].status \in Recorded(i)
    BY <2>1 DEF AuditInv, EndCovered
  <2> QED BY <2>3, <2>4, <2>5
<1> QED BY <1>1, TypesInvariant, AuditInvariant, PTL

\* The audit trail tells of nothing that has not happened.
THEOREM AuditIsTruthful == Spec => []NoEventWithoutTransition
<1>1. AuditInv => NoEventWithoutTransition
  BY DEF AuditInv
<1> QED BY <1>1, AuditInvariant, PTL

----------------------------------------------------------------------------
(* What the steps that write commitments do *)

\* A creating handler inserts an active row under a free key.
LEMMA InsertDoes ==
  ASSUME TypeInv, NEW t \in Threads, InsertCommitment(t)
  PROVE  \E i \in Ids, u \in Users, p \in Problems, row \in Commitment :
           /\ requests[t].step = "insert" /\ requests[t].user_id = u /\ requests[t].problem_id = p
           /\ ~Exists(i) /\ commitments' = [commitments EXCEPT ![i] = row]
           /\ row.user_id = u /\ row.problem_id = p /\ row.status = "active"
           /\ row.lock_expires_at = now + LockPeriod
           /\ requests'[t].step = "record_created" /\ requests'[t].id = i
           /\ UNCHANGED <<checkpoints, reputation, now, interrupted>>
<1>1. requests \in [Threads -> Request] /\ requests[t] \in Creating /\ requests[t].step = "insert"
  BY RequestKinds DEF InsertCommitment, TypeInv, TypeOK
<1>2. PICK u \in Users, p \in Problems : u = requests[t].user_id /\ p = requests[t].problem_id
  BY <1>1 DEF Creating
<1>3. PICK i \in Ids :
        /\ ~Exists(i)
        /\ commitments' = [commitments EXCEPT ![i] =
             [user_id |-> u, problem_id |-> p, status |-> "active", started_at |-> now,
              lock_expires_at |-> now + LockPeriod]]
        /\ Proceed(t, [step |-> "record_created", user_id |-> u, id |-> i])
  BY <1>2 DEF InsertCommitment
<1>4. PICK row : row = [user_id |-> u, problem_id |-> p, status |-> "active", started_at |-> now,
                        lock_expires_at |-> now + LockPeriod]
  OBVIOUS
<1>5. now \in Nat /\ now + LockPeriod \in Nat
  BY BoundAssumption DEF TypeInv, TypeOK
<1>6. /\ row \in Commitment /\ row.user_id = u /\ row.problem_id = p /\ row.status = "active"
      /\ row.lock_expires_at = now + LockPeriod
  BY <1>4, <1>5 DEF Commitment
<1>7. requests'[t].step = "record_created" /\ requests'[t].id = i
  BY <1>1, <1>3 DEF Proceed
<1> QED BY <1>1, <1>2, <1>3, <1>4, <1>6, <1>7 DEF InsertCommitment

\* A checkpoint handler changes the lock or the status of a row, and nothing else of it.
LEMMA SaveDoes ==
  ASSUME TypeInv, NEW t \in Threads, SaveCommitment(t)
  PROVE  \E i \in Ids, row \in Commitment, old \in Commitment :
           /\ requests[t] \in Checkpointing /\ requests[t].step = "save" /\ requests[t].id = i
           /\ Exists(i) /\ old = commitments[i]
           /\ commitments' = [commitments EXCEPT ![i] = row]
           /\ row.user_id = old.user_id /\ row.problem_id = old.problem_id
           /\ \/ /\ requests[t].action = "continue" /\ row.status = old.status
                 /\ row.lock_expires_at = requests[t].lock
              \/ /\ requests[t].action # "continue" /\ row.status \in Terminal
                 /\ row.status = EventFor(requests[t].action)
                 /\ row.lock_expires_at = old.lock_expires_at
           /\ requests'[t].step = "record" /\ requests'[t].id = i
           /\ requests'[t].action = requests[t].action
           /\ UNCHANGED <<checkpoints, reputation, now, interrupted>>
<1>1. requests \in [Threads -> Request] /\ requests[t] \in Checkpointing /\ requests[t].step = "save"
  BY RequestKinds DEF SaveCommitment, TypeInv, TypeOK
<1>2. PICK r \in Checkpointing, i \in Ids : r = requests[t] /\ i = requests[t].id
  BY <1>1 DEF Checkpointing
<1>3. Exists(i)
  BY <1>1, <1>2 DEF TypeInv, RowsExist
<1>4. PICK old \in Commitment : old = commitments[i]
  BY <1>3 DEF Exists, TypeInv, TypeOK
<1>5. PICK row : row = Saved(old, r)
  OBVIOUS
<1>6. row \in Commitment
  BY <1>5, SavedType
<1>7. /\ row.user_id = old.user_id /\ row.problem_id = old.problem_id
      /\ \/ /\ r.action = "continue" /\ row.status = old.status /\ row.lock_expires_at = r.lock
         \/ /\ r.action # "continue" /\ row.status \in Terminal /\ row.status = EventFor(r.action)
            /\ row.lock_expires_at = old.lock_expires_at
  <2>1. r.action \in {"resolve", "abandon", "continue"}
    BY DEF Checkpointing, Action
  <2>2. CASE r.action = "resolve"
    BY <1>5, <2>2 DEF Saved, Commitment, Terminal, EventFor
  <2>3. CASE r.action = "abandon"
    BY <1>5, <2>3 DEF Saved, Commitment, Terminal, EventFor
  <2>4. CASE r.action = "continue"
    BY <1>5, <2>4 DEF Saved, Commitment
  <2> QED BY <2>1, <2>2, <2>3, <2>4
<1>8. commitments' = [commitments EXCEPT ![i] = row]
  BY <1>2, <1>4, <1>5 DEF SaveCommitment
<1>9. /\ requests'[t].step = "record" /\ requests'[t].id = i
      /\ requests'[t].action = requests[t].action
  BY <1>1, <1>2 DEF SaveCommitment, Proceed, Checkpointing
<1> QED BY <1>1, <1>2, <1>3, <1>4, <1>6, <1>7, <1>8, <1>9 DEF SaveCommitment

----------------------------------------------------------------------------
(* One handler at a time *)

\* With one handler, what it has seen is what there is.
Undisturbed ==
  \A t \in Threads :
    /\ requests[t].step \in {"count", "insert"} =>
         \A i \in Ids : ~(/\ Exists(i) /\ commitments[i].user_id = requests[t].user_id
                          /\ commitments[i].problem_id = requests[t].problem_id
                          /\ commitments[i].status = "active")
    /\ requests[t].step = "insert" => \A u \in Users :
         requests[t].user_id = u => Cardinality(Active(u)) < MaxActive
    /\ requests[t].step = "save" => \A i \in Ids : requests[t].id = i =>
         /\ commitments[i].status = "active" /\ commitments[i].lock_expires_at <= now
         /\ requests[t].action = "continue" =>
              \E n \in Nat : /\ commitments[i].lock_expires_at <= n /\ n <= now
                             /\ requests[t].lock = n + LockPeriod

\* An active commitment is the only one of its user on its problem.
OneEach ==
  \A i, j \in Ids :
    /\ Exists(i) /\ commitments[i].status = "active"
    /\ Exists(j) /\ commitments[j].status = "active"
    /\ commitments[i].user_id = commitments[j].user_id
    /\ commitments[i].problem_id = commitments[j].problem_id
    => i = j

Serial == Undisturbed /\ OneEach

LEMMA OneThread ==
  ASSUME Cardinality(Threads) = 1
  PROVE  \E t : Threads = {t}
BY BoundAssumption, FS_Singleton

LEMMA InitSerial == Init => Serial
BY DEF Init, Serial, Undisturbed, OneEach, Exists, Idle

\* The steps that write no commitment.
LEMMA QuietSerial ==
  ASSUME TypeInv, Serial, UNCHANGED commitments, now <= now', now' \in Nat,
         \A t \in Threads :
           \/ requests'[t] = requests[t]
           \/ requests'[t].step \notin {"count", "insert", "save"}
  PROVE  Serial'
<1>1. OneEach'
  BY DEF Serial, OneEach, Exists
<1>2. Undisturbed'
  <2> SUFFICES ASSUME NEW t \in Threads, requests'[t] = requests[t]
               PROVE  /\ requests[t].step \in {"count", "insert"} =>
                           \A i \in Ids : ~(/\ Exists(i) /\ commitments[i].user_id = requests[t].user_id
                                            /\ commitments[i].problem_id = requests[t].problem_id
                                            /\ commitments[i].status = "active")
                      /\ requests[t].step = "insert" => \A u \in Users :
                           requests[t].user_id = u => Cardinality(Active(u)) < MaxActive
                      /\ requests[t].step = "save" => \A i \in Ids : requests[t].id = i =>
                           /\ commitments[i].status = "active" /\ commitments[i].lock_expires_at <= now'
                           /\ requests[t].action = "continue" =>
                                \E n \in Nat : /\ commitments[i].lock_expires_at <= n /\ n <= now'
                                               /\ requests[t].lock = n + LockPeriod
    BY DEF Undisturbed, Exists, Active
  <2>1. ASSUME requests[t].step = "save", NEW i \in Ids, requests[t].id = i
        PROVE  commitments[i].lock_expires_at \in Nat
    <3>1. requests[t] \in Checkpointing
      BY <2>1, RequestKinds DEF TypeInv, TypeOK
    <3>2. commitments[i] \in Commitment
      BY <2>1, <3>1 DEF TypeInv, TypeOK, RowsExist, Exists
    <3> QED BY <3>2 DEF Commitment
  <2>2. now \in Nat
    BY DEF TypeInv, TypeOK
  <2> QED BY <2>1, <2>2 DEF Serial, Undisturbed
<1> QED BY <1>1, <1>2 DEF Serial

\* What the handler does next, when it is the only one.
LEMMA NextSerial ==
  ASSUME NEW t, Threads = {t}, TypeInv, Serial, [Next]_vars
  PROVE  Serial'
<1>0. /\ requests \in [Threads -> Request] /\ t \in Threads /\ \A s \in Threads : s = t
      /\ now \in Nat /\ now' \in Nat /\ now <= now' /\ LockPeriod \in Nat
  BY ClockMonotonic, BoundAssumption DEF TypeInv, TypeOK
<1>1. CASE Tick \/ UNCHANGED vars
  BY <1>0, <1>1, QuietSerial DEF Tick, vars
<1>2. CASE RecordCreated(t) \/ WriteReputation(t) \/ Fail(t)
  <2>1. requests'[t].step = "idle" /\ UNCHANGED commitments
    BY <1>0, <1>2 DEF RecordCreated, WriteReputation, Fail, Proceed, Idle
  <2> QED BY <1>0, <2>1, QuietSerial
<1>3. CASE RecordCheckpoint(t) \/ ReadReputation(t)
  <2>1. requests[t] \in Checkpointing
    BY <1>0, <1>3, RequestKinds DEF RecordCheckpoint, ReadReputation
  <2>2. PICK r \in Checkpointing : r = requests[t]
    BY <2>1
  <2>3. PICK q, n : q = [r EXCEPT !.step = "write_reputation", !.seen = n] /\ n = reputation[r.user_id]
    OBVIOUS
  <2>4. PICK q2 : q2 = [r EXCEPT !.step = "read_reputation"]
    OBVIOUS
  <2>5. q.step = "write_reputation" /\ q2.step = "read_reputation" /\ Idle.step = "idle"
    BY <2>3, <2>4 DEF Checkpointing, Idle
  <2>6. requests'[t] \in {Idle, q, q2} /\ UNCHANGED commitments
    BY <1>0, <1>3, <2>2, <2>3, <2>4 DEF RecordCheckpoint, ReadReputation, Proceed
  <2> QED BY <1>0, <2>5, <2>6, QuietSerial
<1>4. ASSUME NEW u \in Users, NEW p \in Problems, StartCreate(t, u, p) PROVE Serial'
  <2>1. /\ ActiveOn(u, p) = {} /\ UNCHANGED <<commitments, now>>
        /\ requests' = [requests EXCEPT ![t] = [step |-> "count", user_id |-> u, problem_id |-> p]]
    BY <1>4 DEF StartCreate, NotCommitted, Proceed
  <2>2. /\ requests'[t].step = "count" /\ requests'[t].user_id = u /\ requests'[t].problem_id = p
    BY <1>0, <2>1
  <2>3. Undisturbed'
    BY <1>0, <2>1, <2>2 DEF Undisturbed, ActiveOn, Active, Exists
  <2>4. OneEach'
    BY <2>1 DEF Serial, OneEach, Exists
  <2> QED BY <2>3, <2>4 DEF Serial
<1>5. CASE CountSlots(t)
  <2>1. requests[t] \in Creating /\ requests[t].step = "count" /\ UNCHANGED <<commitments, now>>
    BY <1>0, <1>5, RequestKinds DEF CountSlots
  <2>2. PICK r \in Creating, v \in Users : r = requests[t] /\ v = r.user_id
    BY <2>1 DEF Creating
  <2>3. CASE SlotFree(v)
    <3>1. requests' = [requests EXCEPT ![t] = [r EXCEPT !.step = "insert"]]
      BY <1>5, <2>2, <2>3 DEF CountSlots, Proceed
    <3>2. PICK q : q = [r EXCEPT !.step = "insert"]
      OBVIOUS
    <3>3. q.step = "insert" /\ q.user_id = r.user_id /\ q.problem_id = r.problem_id
      BY <3>2 DEF Creating
    <3>4. requests'[t] = q
      BY <1>0, <3>1, <3>2
    <3>5. \A i \in Ids : ~(/\ Exists(i) /\ commitments[i].user_id = r.user_id
                           /\ commitments[i].problem_id = r.problem_id
                           /\ commitments[i].status = "active")
      BY <1>0, <2>1, <2>2 DEF Serial, Undisturbed
    <3>6. \A w \in Users : w = v => Cardinality(Active(w)') < MaxActive
      BY <2>1, <2>3 DEF SlotFree, Active, Exists
    <3>7. Undisturbed'
      BY <1>0, <2>1, <2>2, <3>3, <3>4, <3>5, <3>6 DEF Undisturbed, Exists
    <3>8. OneEach'
      BY <2>1 DEF Serial, OneEach, Exists
    <3> QED BY <3>7, <3>8 DEF Serial
  <2>4. CASE ~SlotFree(v)
    <3>1. requests'[t] = Idle
      BY <1>0, <1>5, <2>2, <2>4 DEF CountSlots, Proceed
    <3> QED BY <1>0, <2>1, <3>1, QuietSerial DEF Idle
  <2> QED BY <2>3, <2>4
<1>6. CASE InsertCommitment(t)
  <2>1. PICK i \in Ids, u \in Users, p \in Problems, row \in Commitment :
          /\ requests[t].step = "insert" /\ requests[t].user_id = u /\ requests[t].problem_id = p
          /\ ~Exists(i) /\ commitments' = [commitments EXCEPT ![i] = row]
          /\ row.user_id = u /\ row.problem_id = p
          /\ requests'[t].step = "record_created"
    BY <1>0, <1>6, InsertDoes
  <2>2. commitments'[i] = row /\ \A j \in Ids \ {i} : commitments'[j] = commitments[j]
    BY <2>1 DEF TypeInv, TypeOK
  <2>3. \A j \in Ids : ~(/\ Exists(j) /\ commitments[j].user_id = u
                         /\ commitments[j].problem_id = p /\ commitments[j].status = "active")
    BY <1>0, <2>1 DEF Serial, Undisturbed
  <2>4. OneEach'
    BY <2>1, <2>2, <2>3 DEF Serial, OneEach, Exists
  <2>5. Undisturbed'
    BY <1>0, <2>1 DEF Undisturbed
  <2> QED BY <2>4, <2>5 DEF Serial
<1>7. ASSUME NEW u \in Users, NEW i \in Ids, NEW a \in Action, LoadCommitment(t, u, i, a)
      PROVE  Serial'
  <2>1. /\ commitments[i].status = "active" /\ now >= commitments[i].lock_expires_at
        /\ UNCHANGED <<commitments, now>> /\ Exists(i)
        /\ requests' = [requests EXCEPT ![t] = [step |-> "save", user_id |-> u, id |-> i, action |-> a,
                                                lock |-> LockAfter(a), seen |-> 0]]
    BY <1>7 DEF LoadCommitment, MayCheckpoint, LockExpired, Proceed
  <2>2. /\ requests'[t].step = "save" /\ requests'[t].id = i /\ requests'[t].action = a
        /\ requests'[t].lock = LockAfter(a)
    BY <1>0, <2>1
  <2>3. a = "continue" => LockAfter(a) = now + LockPeriod
    BY DEF LockAfter
  <2>4. commitments[i].lock_expires_at \in Nat
    BY <2>1 DEF TypeInv, TypeOK, Exists, Commitment
  <2>5. Undisturbed'
    BY <1>0, <2>1, <2>2, <2>3, <2>4 DEF Undisturbed
  <2>6. OneEach'
    BY <2>1 DEF Serial, OneEach, Exists
  <2> QED BY <2>5, <2>6 DEF Serial
<1>8. CASE SaveCommitment(t)
  <2>1. PICK i \in Ids, row \in Commitment, old \in Commitment :
          /\ requests[t].step = "save" /\ requests[t].id = i
          /\ Exists(i) /\ old = commitments[i]
          /\ commitments' = [commitments EXCEPT ![i] = row]
          /\ row.user_id = old.user_id /\ row.problem_id = old.problem_id
          /\ requests'[t].step = "record"
    BY <1>0, <1>8, SaveDoes
  <2>2. commitments'[i] = row /\ \A j \in Ids \ {i} : commitments'[j] = commitments[j]
    BY <2>1 DEF TypeInv, TypeOK
  <2>3. old.status = "active"
    BY <1>0, <2>1 DEF Serial, Undisturbed
  <2>4. OneEach'
    BY <2>1, <2>2, <2>3 DEF Serial, OneEach, Exists
  <2>5. Undisturbed'
    BY <1>0, <2>1 DEF Undisturbed
  <2> QED BY <2>4, <2>5 DEF Serial
<1> QED BY <1>0, <1>1, <1>2, <1>3, <1>4, <1>5, <1>6, <1>7, <1>8 DEF Next

LEMMA SerialInvariant ==
  ASSUME Cardinality(Threads) = 1
  PROVE  Spec => []Serial
<1>1. PICK t : Threads = {t}
  BY OneThread
<1>2. TypeInv /\ Serial /\ [Next]_vars => Serial'
  BY <1>1, NextSerial
<1> QED BY <1>2, InitSerial, TypesInvariant, PTL DEF Spec

\* One handler at a time: no user has two active commitments on one problem.
THEOREM OnePerProblem ==
  ASSUME Cardinality(Threads) = 1
  PROVE  Spec => []OneActivePerProblem
<1>1. TypeInv /\ Serial => OneActivePerProblem
  <2> SUFFICES ASSUME Serial, NEW u \in Users, NEW p \in Problems
               PROVE  Cardinality(ActiveOn(u, p)) <= 1
    BY DEF OneActivePerProblem
  <2>1. \A i, j \in ActiveOn(u, p) : i = j
    BY DEF Serial, OneEach, ActiveOn, Active
  <2>2. ActiveOn(u, p) = {} \/ \E i : ActiveOn(u, p) = {i}
    BY <2>1
  <2>3. CASE ActiveOn(u, p) = {}
    BY <2>3, FS_EmptySet
  <2>4. ASSUME NEW i, ActiveOn(u, p) = {i} PROVE Cardinality(ActiveOn(u, p)) <= 1
    <3>1. Cardinality({i}) = 1
      BY FS_Singleton
    <3> QED BY <2>4, <3>1
  <2> QED BY <2>2, <2>3, <2>4
<1> QED BY <1>1, SerialInvariant, TypesInvariant, PTL

\* A commitment that has ended is left alone by the only handler.
LEMMA EndedRowStays ==
  ASSUME TypeInv, Serial, [Next]_vars, NEW i \in Ids, commitments[i].status \in Terminal
  PROVE  commitments'[i] = commitments[i]
<1> SUFFICES ASSUME commitments'[i] # commitments[i] PROVE FALSE
  OBVIOUS
<1>1. Exists(i)
  BY DEF Exists, NoRow, Terminal
<1>2. PICK t \in Threads : requests[t].step = "save" /\ requests[t].id = i
  BY <1>1, RowChange
<1>3. commitments[i].status = "active"
  BY <1>2 DEF Serial, Undisturbed
<1> QED BY <1>3 DEF Terminal

\* One handler at a time: how a commitment ended is final.
THEOREM EndsAreFinal ==
  ASSUME Cardinality(Threads) = 1
  PROVE  Spec => TerminalIsFinal
<1>1. TypeInv /\ Serial /\ [Next]_vars
        => [\A i \in Ids : commitments[i].status \in Terminal
                             => commitments'[i].status = commitments[i].status]_vars
  BY EndedRowStays
<1> QED BY <1>1, SerialInvariant, TypesInvariant, PTL DEF Spec, TerminalIsFinal

----------------------------------------------------------------------------
(* The refinement, on tables of commitments *)

Table == [Ids -> Commitment \cup {NoRow}]

\* The active rows of a table that a user has on a problem.
On(c, u, p) ==
  {i \in Ids : c[i] # NoRow /\ c[i].user_id = u /\ c[i].status = "active" /\ c[i].problem_id = p}

\* A table that OneEach holds of.
Unique(c) == \A u \in Users, p \in Problems : \A i, j \in On(c, u, p) : i = j

HeldIn(c) == [u \in Users |-> {p \in Problems : On(c, u, p) # {}}]
LockIn(c) == [u \in Users |-> [p \in Problems |->
                Max({0} \cup {c[i].lock_expires_at : i \in On(c, u, p)})]]

\* The lock of a slot is that of its row, and 0 without one.
LEMMA LockOfSlot ==
  ASSUME NEW c \in Table, Unique(c), NEW u \in Users, NEW p \in Problems
  PROVE  /\ On(c, u, p) = {} => LockIn(c)[u][p] = 0 /\ p \notin HeldIn(c)[u]
         /\ \A i \in On(c, u, p) : /\ LockIn(c)[u][p] = c[i].lock_expires_at
                                   /\ p \in HeldIn(c)[u]
<1>1. CASE On(c, u, p) = {}
  <2>1. {0} \cup {c[i].lock_expires_at : i \in On(c, u, p)} = {0}
    BY <1>1
  <2>2. Max({0}) = 0
    BY DEF Max
  <2> QED BY <1>1, <2>1, <2>2 DEF LockIn, HeldIn
<1>2. ASSUME NEW i \in On(c, u, p)
      PROVE  LockIn(c)[u][p] = c[i].lock_expires_at /\ p \in HeldIn(c)[u]
  <2>1. PICK n \in Nat : n = c[i].lock_expires_at
    BY DEF On, Table, Commitment
  <2>2. On(c, u, p) = {i}
    BY <1>2 DEF Unique
  <2>3. {0} \cup {c[j].lock_expires_at : j \in On(c, u, p)} = {0, n}
    BY <2>1, <2>2
  <2>4. Max({0, n}) = n
    BY DEF Max
  <2> QED BY <1>2, <2>1, <2>3, <2>4 DEF LockIn, HeldIn
<1> QED BY <1>1, <1>2

\* Two tables that differ in a row of one user and problem.
DifferIn(c, d, i, u, p) ==
  /\ \A j \in Ids \ {i} : d[j] = c[j]
  /\ d[i].user_id = u /\ d[i].problem_id = p
  /\ c[i] # NoRow => c[i].user_id = u /\ c[i].problem_id = p

\* A row written for a user and a problem concerns no other user and problem.
LEMMA OneSlotChanges ==
  ASSUME NEW c \in Table, NEW d \in Table, NEW i \in Ids, NEW u \in Users, NEW p \in Problems,
         DifferIn(c, d, i, u, p)
  PROVE  /\ LockIn(d) = [LockIn(c) EXCEPT ![u][p] = LockIn(d)[u][p]]
         /\ HeldIn(d) = [HeldIn(c) EXCEPT ![u] = HeldIn(d)[u]]
         /\ HeldIn(d)[u] \ {p} = HeldIn(c)[u] \ {p}
<1>1. ASSUME NEW v \in Users, NEW q \in Problems, v # u \/ q # p
      PROVE  On(d, v, q) = On(c, v, q) /\ \A j \in On(c, v, q) : d[j] = c[j]
  BY <1>1 DEF On, DifferIn
<1>2. ASSUME NEW v \in Users, NEW q \in Problems, v # u \/ q # p
      PROVE  LockIn(d)[v][q] = LockIn(c)[v][q]
  <2>1. On(d, v, q) = On(c, v, q) /\ \A j \in On(c, v, q) : d[j] = c[j]
    BY <1>1, <1>2
  <2>2. {d[j].lock_expires_at : j \in On(c, v, q)} = {c[j].lock_expires_at : j \in On(c, v, q)}
    BY <2>1
  <2> QED BY <2>1, <2>2 DEF LockIn
<1>3. LockIn(d) = [LockIn(c) EXCEPT ![u][p] = LockIn(d)[u][p]]
  <2> DEFINE L == LockIn(d)
             K == LockIn(c)
  <2>1. /\ L = [v \in Users |-> L[v]] /\ \A v \in Users : L[v] = [q \in Problems |-> L[v][q]]
        /\ K = [v \in Users |-> K[v]] /\ \A v \in Users : K[v] = [q \in Problems |-> K[v][q]]
    BY DEF LockIn
  <2>2. \A v \in Users, q \in Problems : v # u \/ q # p => L[v][q] = K[v][q]
    BY <1>2
  <2> HIDE DEF L, K
  <2>3. \A v \in Users \ {u} : L[v] = K[v]
    BY <2>1, <2>2
  <2>4. L[u] = [K[u] EXCEPT ![p] = L[u][p]]
    BY <2>1, <2>2
  <2>5. L = [K EXCEPT ![u] = [K[u] EXCEPT ![p] = L[u][p]]]
    BY <2>1, <2>3, <2>4
  <2> QED BY <2>5 DEF L, K
<1>4. \A v \in Users : \A q \in Problems :
        v # u \/ q # p => (q \in HeldIn(d)[v] <=> q \in HeldIn(c)[v])
  BY <1>1 DEF HeldIn
<1>5. /\ HeldIn(d) = [v \in Users |-> HeldIn(d)[v]] /\ HeldIn(c) = [v \in Users |-> HeldIn(c)[v]]
      /\ \A v \in Users : HeldIn(d)[v] \subseteq Problems /\ HeldIn(c)[v] \subseteq Problems
  BY DEF HeldIn
<1>6. HeldIn(d)[u] \ {p} = HeldIn(c)[u] \ {p}
  BY <1>4, <1>5
<1>7. HeldIn(d) = [HeldIn(c) EXCEPT ![u] = HeldIn(d)[u]]
  <2>1. \A v \in Users \ {u} : HeldIn(d)[v] = HeldIn(c)[v]
    BY <1>4, <1>5
  <2> QED BY <1>5, <2>1
<1> QED BY <1>3, <1>6, <1>7

----------------------------------------------------------------------------
(* The refinement, on the states of the engine *)

Held == [u \in Users |-> CommittedProblems(u)]
Locks == [u \in Users |-> [p \in Problems |->
            Max({0} \cup {commitments[i].lock_expires_at : i \in ActiveOn(u, p)})]]

\* The slots and locks of the refinement are those of the table.
LEMMA SlotsOfTable ==
  ASSUME TypeOK
  PROVE  /\ commitments \in Table /\ Held = HeldIn(commitments) /\ Locks = LockIn(commitments)
         /\ \A u \in Users, p \in Problems : On(commitments, u, p) = ActiveOn(u, p)
<1>1. commitments \in Table
  BY DEF TypeOK, Table
<1>2. \A u \in Users, p \in Problems : On(commitments, u, p) = ActiveOn(u, p)
  BY DEF On, ActiveOn, Active, Exists
<1>3. ASSUME NEW u \in Users
      PROVE  CommittedProblems(u) = {p \in Problems : On(commitments, u, p) # {}}
  BY <1>1 DEF CommittedProblems, On, Active, Exists, Table, Commitment
<1>4. Held = HeldIn(commitments)
  BY <1>3 DEF Held, HeldIn
<1>5. Locks = LockIn(commitments)
  BY DEF Locks, LockIn, On, ActiveOn, Active, Exists
<1> QED BY <1>1, <1>2, <1>4, <1>5

LEMMA SlotsOfTableNext ==
  ASSUME TypeOK'
  PROVE  /\ commitments' \in Table
         /\ Held' = HeldIn(commitments') /\ Locks' = LockIn(commitments')
<1>1. commitments' \in Table
  BY DEF TypeOK, Table
<1>2. Held' = HeldIn(commitments')
  <2>1. ASSUME NEW u \in Users
        PROVE  CommittedProblems(u)' = {p \in Problems : On(commitments', u, p) # {}}
    BY <1>1 DEF CommittedProblems, On, Active, Exists, Table, Commitment
  <2> QED BY <2>1 DEF Held, HeldIn
<1>3. Locks' = LockIn(commitments')
  BY DEF Locks, LockIn, On, ActiveOn, Active, Exists
<1> QED BY <1>1, <1>2, <1>3

\* No user holds more slots than the user has active rows.
LEMMA FewSlots ==
  ASSUME TypeOK, NEW u \in Users
  PROVE  Cardinality(Held[u]) <= Cardinality(Active(u)) /\ Cardinality(Held[u]) \in Nat
<1>1. IsFiniteSet(Active(u))
  BY SlotSetsFinite
<1> DEFINE f == [i \in Active(u) |-> commitments[i].problem_id]
<1>2. Held[u] = {commitments[i].problem_id : i \in Active(u)}
  BY DEF Held, CommittedProblems
<1>3. f \in Surjection(Active(u), Held[u])
  BY <1>2 DEF Surjection
<1>4. IsFiniteSet(Held[u]) /\ Cardinality(Held[u]) <= Cardinality(Active(u))
  BY <1>1, <1>3, FS_Surjection
<1> QED BY <1>4, FS_CardinalityType

LEMMA InitPromise == Init => Promise!Init
<1> SUFFICES ASSUME Init PROVE Promise!Init
  OBVIOUS
<1>1. TypeOK
  BY InitTypes DEF TypeInv
<1>2. \A u \in Users, p \in Problems : ActiveOn(u, p) = {} /\ Active(u) = {}
  BY DEF Init, ActiveOn, Active, Exists
<1>3. Held = [u \in Users |-> {}]
  BY <1>2 DEF Held, CommittedProblems, Active, Init, Exists
<1>4. Locks = [u \in Users |-> [p \in Problems |-> 0]]
  <2>1. Max({0} \cup {commitments[i].lock_expires_at : i \in {}}) = 0
    BY DEF Max
  <2> QED BY <1>2, <2>1 DEF Locks
<1> QED BY <1>3, <1>4 DEF Promise!Init, Held, Locks, Init

\* Every step of the only handler is a step of the promise, or none.
LEMMA NextPromise ==
  ASSUME NEW t, Threads = {t}, TypeInv, Serial, [Next]_vars
  PROVE  [Promise!Next]_(Promise!vars)
<1>0. /\ requests \in [Threads -> Request] /\ t \in Threads /\ \A s \in Threads : s = t
      /\ now \in Nat /\ TypeOK /\ TypeOK' /\ Serial'
  BY NextTypes, NextSerial DEF TypeInv, TypeOK
<1>a. /\ commitments \in Table
      /\ Held = HeldIn(commitments) /\ Locks = LockIn(commitments)
      /\ \A u \in Users, p \in Problems : On(commitments, u, p) = ActiveOn(u, p)
  BY <1>0, SlotsOfTable
<1>b. PICK d : d = commitments'
  OBVIOUS
<1>c. d \in Table /\ Held' = HeldIn(d) /\ Locks' = LockIn(d)
  BY <1>0, <1>b, SlotsOfTableNext
<1>d. Unique(commitments) /\ Unique(d)
  BY <1>0, <1>b DEF Serial, OneEach, Unique, On, Exists
<1>e. ASSUME UNCHANGED commitments PROVE Held' = Held /\ Locks' = Locks
  BY <1>a, <1>b, <1>c, <1>e
<1>1. CASE Tick
  <2>1. Held' = Held /\ Locks' = Locks /\ now' = now + 1
    BY <1>1, <1>e DEF Tick
  <2>2. Promise!Tick
    BY <2>1 DEF Promise!Tick, Held, Locks
  <2> QED BY <2>2 DEF Promise!Next
<1>2. CASE InsertCommitment(t)
  <2>1. PICK i \in Ids, u \in Users, p \in Problems, row \in Commitment :
           /\ requests[t].step = "insert" /\ requests[t].user_id = u /\ requests[t].problem_id = p
           /\ ~Exists(i) /\ d = [commitments EXCEPT ![i] = row]
           /\ row.user_id = u /\ row.problem_id = p /\ row.status = "active"
           /\ row.lock_expires_at = now + LockPeriod /\ UNCHANGED now
    BY <1>0, <1>b, <1>2, InsertDoes
  <2>2. On(commitments, u, p) = {} /\ Cardinality(Active(u)) < MaxActive
    BY <1>0, <2>1 DEF Serial, Undisturbed, On, Exists
  <2>3. d[i] = row /\ row # NoRow
    BY <1>a, <2>1, NoRowIsNoCommitment DEF Table
  <2>4. i \in On(d, u, p)
    BY <2>1, <2>3 DEF On
  <2>5. LockIn(d)[u][p] = now + LockPeriod
    <3>1. LockIn(d)[u][p] = d[i].lock_expires_at
      BY <1>c, <1>d, <2>4, LockOfSlot
    <3> QED BY <2>1, <2>3, <3>1
  <2>6. p \notin Held[u] /\ Cardinality(Held[u]) < MaxActive
    <3>1. p \notin Held[u]
      BY <1>a, <1>d, <2>2, LockOfSlot
    <3> QED BY <1>0, <2>2, <3>1, FewSlots, SlotSetsFinite, BoundAssumption
  <2>7. /\ LockIn(d) = [LockIn(commitments) EXCEPT ![u][p] = LockIn(d)[u][p]]
        /\ HeldIn(d) = [HeldIn(commitments) EXCEPT ![u] = HeldIn(d)[u]]
        /\ HeldIn(d)[u] = HeldIn(commitments)[u] \cup {p}
    <3>1. \A j \in Ids \ {i} : d[j] = commitments[j]
      BY <1>a, <2>1 DEF Table
    <3>2. DifferIn(commitments, d, i, u, p)
      BY <2>1, <2>3, <3>1 DEF DifferIn, Exists
    <3>3. /\ LockIn(d) = [LockIn(commitments) EXCEPT ![u][p] = LockIn(d)[u][p]]
          /\ HeldIn(d) = [HeldIn(commitments) EXCEPT ![u] = HeldIn(d)[u]]
      BY <1>a, <1>c, <3>2, OneSlotChanges
    <3>4. HeldIn(d)[u] \ {p} = HeldIn(commitments)[u] \ {p}
      BY <1>a, <1>c, <3>2, OneSlotChanges
    <3>5. p \in HeldIn(d)[u] /\ p \notin HeldIn(commitments)[u]
      BY <1>a, <1>c, <1>d, <2>4, <2>6, LockOfSlot
    <3> QED BY <3>3, <3>4, <3>5
  <2>8. /\ Held' = [Held EXCEPT ![u] = @ \cup {p}]
        /\ Locks' = [Locks EXCEPT ![u][p] = now + LockPeriod] /\ UNCHANGED now
    BY <1>a, <1>c, <2>1, <2>5, <2>7
  <2>9. Promise!Cardinality(Held[u]) = Cardinality(Held[u])
    BY DEF Cardinality, Promise!Cardinality
  <2>10. Promise!Spend(u, p)
    BY <2>6, <2>8, <2>9 DEF Promise!Spend, Held, Locks
  <2> QED BY <2>10 DEF Promise!Next
<1>3. CASE SaveCommitment(t)
  <2>1. PICK i \in Ids, row \in Commitment, old \in Commitment :
           /\ requests[t].step = "save" /\ requests[t].id = i
           /\ Exists(i) /\ old = commitments[i]
           /\ d = [commitments EXCEPT ![i] = row]
           /\ row.user_id = old.user_id /\ row.problem_id = old.problem_id
           /\ \/ /\ requests[t].action = "continue" /\ row.status = old.status
                 /\ row.lock_expires_at = requests[t].lock
              \/ /\ requests[t].action # "continue" /\ row.status \in Terminal
           /\ UNCHANGED now
    BY <1>0, <1>b, <1>3, SaveDoes
  <2>2. PICK u \in Users, p \in Problems : u = old.user_id /\ p = old.problem_id
    BY DEF Commitment
  <2>3. /\ old.status = "active" /\ old.lock_expires_at <= now
        /\ requests[t].action = "continue" =>
             \E n \in Nat : /\ old.lock_expires_at <= n /\ n <= now
                            /\ requests[t].lock = n + LockPeriod
    BY <1>0, <2>1 DEF Serial, Undisturbed
  <2>4. i \in On(commitments, u, p)
    BY <2>1, <2>2, <2>3 DEF On, Exists
  <2>5. LockIn(commitments)[u][p] = old.lock_expires_at /\ p \in HeldIn(commitments)[u]
    BY <1>a, <1>d, <2>1, <2>4, LockOfSlot
  <2>6. d[i] = row /\ row # NoRow /\ \A j \in Ids \ {i} : d[j] = commitments[j]
    BY <1>a, <2>1, NoRowIsNoCommitment DEF Table
  <2>7. /\ LockIn(d) = [LockIn(commitments) EXCEPT ![u][p] = LockIn(d)[u][p]]
        /\ HeldIn(d) = [HeldIn(commitments) EXCEPT ![u] = HeldIn(d)[u]]
        /\ HeldIn(d)[u] \ {p} = HeldIn(commitments)[u] \ {p}
    <3>1. DifferIn(commitments, d, i, u, p)
      BY <2>1, <2>2, <2>6 DEF DifferIn
    <3> QED BY <1>a, <1>c, <3>1, OneSlotChanges
  <2>8. CASE requests[t].action = "continue"
    <3>1. PICK n \in Nat : /\ old.lock_expires_at <= n /\ n <= now
                           /\ requests[t].lock = n + LockPeriod
      BY <2>3, <2>8
    <3>2. row.status = "active" /\ row.lock_expires_at = n + LockPeriod
      BY <2>1, <2>3, <2>8, <3>1
    <3>3. i \in On(d, u, p)
      BY <2>1, <2>2, <2>6, <3>2 DEF On
    <3>4. LockIn(d)[u][p] = n + LockPeriod
      BY <1>c, <1>d, <2>6, <3>2, <3>3, LockOfSlot
    <3>5. HeldIn(d) = HeldIn(commitments)
      <4>1. p \in HeldIn(d)[u]
        BY <1>c, <1>d, <3>3, LockOfSlot
      <4>2. HeldIn(d)[u] = HeldIn(commitments)[u]
        BY <2>5, <2>7, <4>1
      <4> QED BY <2>7, <4>2 DEF HeldIn
    <3>6. n \in Locks[u][p] .. now
      <4>1. old.lock_expires_at \in Nat
        BY DEF Commitment
      <4> QED BY <1>0, <1>a, <2>5, <3>1, <4>1
    <3>7. /\ p \in Held[u] /\ Held' = Held /\ UNCHANGED now
          /\ Locks' = [Locks EXCEPT ![u][p] = n + LockPeriod]
      BY <1>a, <1>c, <2>1, <2>5, <2>7, <3>4, <3>5
    <3>8. Promise!Renew(u, p)
      BY <3>6, <3>7 DEF Promise!Renew, Held, Locks
    <3> QED BY <3>8 DEF Promise!Next
  <2>9. CASE requests[t].action # "continue"
    <3>1. row.status # "active"
      BY <2>1, <2>9 DEF Terminal
    <3>2. On(d, u, p) = {}
      BY <1>d, <2>4, <2>6, <3>1 DEF On, Unique
    <3>3. LockIn(d)[u][p] = 0 /\ p \notin HeldIn(d)[u]
      BY <1>c, <1>d, <3>2, LockOfSlot
    <3>4. /\ p \in Held[u] /\ now >= Locks[u][p] /\ Held' = [Held EXCEPT ![u] = @ \ {p}]
          /\ Locks' = [Locks EXCEPT ![u][p] = 0] /\ UNCHANGED now
      <4>1. HeldIn(d)[u] = HeldIn(commitments)[u] \ {p}
        BY <2>7, <3>3
      <4>2. /\ HeldIn(d) = [HeldIn(commitments) EXCEPT ![u] = @ \ {p}]
            /\ LockIn(d) = [LockIn(commitments) EXCEPT ![u][p] = 0]
        BY <2>7, <3>3, <4>1
      <4>3. now >= LockIn(commitments)[u][p]
        <5>1. old.lock_expires_at \in Nat
          BY DEF Commitment
        <5> QED BY <1>0, <2>3, <2>5, <5>1
      <4> QED BY <1>a, <1>c, <2>1, <2>5, <4>2, <4>3
    <3>5. Promise!Release(u, p)
      BY <3>4 DEF Promise!Release, Held, Locks
    <3> QED BY <3>5 DEF Promise!Next
  <2> QED BY <2>8, <2>9
<1>4. CASE UNCHANGED <<commitments, now>>
  <2>1. Held' = Held /\ Locks' = Locks /\ now' = now
    BY <1>4, <1>e
  <2> QED BY <2>1 DEF Promise!vars, Held, Locks
<1>5. Tick \/ InsertCommitment(t) \/ SaveCommitment(t) \/ UNCHANGED <<commitments, now>>
  BY <1>0 DEF Next, vars, StartCreate, CountSlots, RecordCreated, LoadCommitment,
              RecordCheckpoint, ReadReputation, WriteReputation, Fail
<1> QED BY <1>1, <1>2, <1>3, <1>4, <1>5

\* One handler at a time: whatever it does, and wherever it dies, looks to a user
\* like an atomic use of focus slots.
THEOREM PromiseKept ==
  ASSUME Cardinality(Threads) = 1
  PROVE  Spec => KeepsPromise
<1>1. PICK t : Threads = {t}
  BY OneThread
<1>2. TypeInv /\ Serial /\ [Next]_vars => [Promise!Next]_(Promise!vars)
  BY <1>1, NextPromise
<1> QED BY <1>2, InitPromise, SerialInvariant, TypesInvariant, PTL
        DEF Spec, KeepsPromise, Promise!Spec

----------------------------------------------------------------------------
(* The history, with one handler at a time *)

\* The steps of a checkpoint handler that has saved its row.
AtWork == {"record", "read_reputation", "write_reputation"}

\* What the only handler is at work on is as it left it.
Engaged ==
  \A t \in Threads, i \in Ids : requests[t].id = i =>
    /\ requests[t].step = "record_created" => commitments[i].status = "active"
    /\ requests[t].step \in {"save"} \cup AtWork =>
         commitments[i].user_id = requests[t].user_id
    /\ requests[t].step \in AtWork =>
         IF requests[t].action = "continue"
         THEN requests[t].step = "record" /\ commitments[i].status = "active"
         ELSE commitments[i].status = EventFor(requests[t].action)
    /\ requests[t].step = "write_reputation" =>
         requests[t].seen = reputation[requests[t].user_id]

\* The last audit row of an ended commitment is that of its end, or is owed, or
\* was owed by a handler that died.
Latest ==
  \A i \in Ids : commitments[i].status \in Terminal =>
    \/ i \in interrupted
    \/ \E t \in Threads : requests[t].step = "record" /\ requests[t].id = i
    \/ checkpoints[i] # <<>> /\ checkpoints[i][Len(checkpoints[i])] = commitments[i].status

LEMMA InitEngaged == Init => Engaged /\ Latest
BY DEF Init, Engaged, Latest, AtWork, Idle, NoRow, Terminal

\* Only "continue" earns nothing.
LEMMA EveryEndCounts ==
  ASSUME NEW a \in Action, NEW p \in Problems
  PROVE  DeltaFor(a, p) = 0 <=> a = "continue"
<1>1. Tier[p] \in Tiers
  BY TierAssumption
<1>2. ResolveDelta[Tier[p]] # 0 /\ AbandonDelta[Tier[p]] # 0
  BY <1>1 DEF Tiers, ResolveDelta, AbandonDelta
<1> QED BY <1>2 DEF DeltaFor, Action

\* The handler stays at a commitment through these steps, and nothing else of it
\* changes than where it is and the reputation it read.
LEMMA CheckpointSteps ==
  ASSUME TypeInv, NEW t \in Threads,
         RecordCheckpoint(t) \/ ReadReputation(t) \/ WriteReputation(t)
  PROVE  \E i \in Ids, u \in Users, a \in Action, row \in Commitment :
           /\ requests[t] \in Checkpointing
           /\ requests[t].id = i /\ requests[t].user_id = u /\ requests[t].action = a
           /\ Exists(i) /\ row = commitments[i] /\ UNCHANGED <<commitments, interrupted>>
           /\ \/ /\ requests[t].step = "record" /\ UNCHANGED reputation
                 /\ checkpoints' = [checkpoints EXCEPT ![i] = Append(@, EventFor(a))]
                 /\ \/ a = "continue" /\ requests'[t] = Idle
                    \/ /\ a # "continue" /\ requests'[t].step = "read_reputation"
                       /\ requests'[t].id = i /\ requests'[t].user_id = u
                       /\ requests'[t].action = a
              \/ /\ requests[t].step = "read_reputation" /\ UNCHANGED <<reputation, checkpoints>>
                 /\ requests'[t].step = "write_reputation" /\ requests'[t].id = i
                 /\ requests'[t].user_id = u /\ requests'[t].action = a
                 /\ requests'[t].seen = reputation[u]
              \/ /\ requests[t].step = "write_reputation" /\ UNCHANGED checkpoints
                 /\ requests'[t] = Idle
                 /\ reputation' = [reputation EXCEPT ![u] =
                                     requests[t].seen + DeltaFor(a, row.problem_id)]
<1>1. requests \in [Threads -> Request] /\ requests[t] \in Checkpointing
  BY RequestKinds DEF RecordCheckpoint, ReadReputation, WriteReputation, TypeInv, TypeOK
<1>2. PICK r \in Checkpointing, i \in Ids, u \in Users, a \in Action :
        r = requests[t] /\ i = r.id /\ u = r.user_id /\ a = r.action
  BY <1>1 DEF Checkpointing
<1>3. Exists(i)
  BY <1>1, <1>2 DEF TypeInv, RowsExist
<1>4. PICK row \in Commitment : row = commitments[i]
  BY <1>3 DEF Exists, TypeInv, TypeOK
<1>5. CASE RecordCheckpoint(t)
  <2>1. PICK q : q = [r EXCEPT !.step = "read_reputation"]
    OBVIOUS
  <2>2. q.step = "read_reputation" /\ q.id = i /\ q.user_id = u /\ q.action = a
    BY <1>2, <2>1 DEF Checkpointing
  <2>3. DeltaFor(a, row.problem_id) = 0 <=> a = "continue"
    BY EveryEndCounts DEF Commitment
  <2>4. requests' = [requests EXCEPT ![t] = IF DeltaFor(a, row.problem_id) = 0 THEN Idle ELSE q]
    BY <1>2, <1>4, <1>5, <2>1 DEF RecordCheckpoint, Proceed
  <2>5. requests'[t] = IF a = "continue" THEN Idle ELSE q
    BY <1>1, <2>3, <2>4
  <2>6. /\ checkpoints' = [checkpoints EXCEPT ![i] = Append(@, EventFor(a))]
        /\ r.step = "record" /\ UNCHANGED <<commitments, interrupted, reputation>>
    BY <1>2, <1>5 DEF RecordCheckpoint
  <2> QED BY <1>1, <1>2, <1>3, <1>4, <2>2, <2>5, <2>6
<1>6. CASE ReadReputation(t)
  <2>0. PICK n : n = reputation[u]
    OBVIOUS
  <2>1. PICK q : q = [r EXCEPT !.step = "write_reputation", !.seen = n]
    OBVIOUS
  <2>2. q.step = "write_reputation" /\ q.id = i /\ q.user_id = u /\ q.action = a /\ q.seen = n
    BY <1>2, <2>1 DEF Checkpointing
  <2>3. requests'[t] = q
    BY <1>1, <1>2, <1>6, <2>0, <2>1 DEF ReadReputation, Proceed
  <2>4. r.step = "read_reputation" /\ UNCHANGED <<commitments, interrupted, reputation, checkpoints>>
    BY <1>2, <1>6 DEF ReadReputation
  <2> QED BY <1>1, <1>2, <1>3, <1>4, <2>0, <2>2, <2>3, <2>4
<1>7. CASE WriteReputation(t)
  <2>1. /\ reputation' = [reputation EXCEPT ![u] = r.seen + DeltaFor(a, row.problem_id)]
        /\ r.step = "write_reputation" /\ UNCHANGED <<commitments, interrupted, checkpoints>>
    BY <1>2, <1>4, <1>7 DEF WriteReputation
  <2>2. requests'[t] = Idle
    BY <1>1, <1>7 DEF WriteReputation, Proceed
  <2> QED BY <1>1, <1>2, <1>3, <1>4, <2>1, <2>2
<1> QED BY <1>5, <1>6, <1>7

\* The steps of a handler that writes nothing and stays or becomes unengaged.
LEMMA QuietEngaged ==
  ASSUME Engaged, UNCHANGED <<commitments, reputation>>,
         \A t \in Threads :
           \/ requests'[t] = requests[t]
           \/ requests'[t].step \notin {"record_created", "save"} \cup AtWork
  PROVE  Engaged'
BY DEF Engaged, AtWork

LEMMA NextEngaged ==
  ASSUME NEW t, Threads = {t}, TypeInv, Serial, Engaged, [Next]_vars
  PROVE  Engaged'
<1>0. /\ requests \in [Threads -> Request] /\ t \in Threads /\ \A s \in Threads : s = t
  BY DEF TypeInv, TypeOK
<1>1. CASE Tick \/ UNCHANGED vars
  BY <1>1, QuietEngaged DEF Tick, vars
<1>2. CASE RecordCreated(t) \/ Fail(t)
  <2>1. requests'[t].step = "idle" /\ UNCHANGED <<commitments, reputation>>
    BY <1>0, <1>2 DEF RecordCreated, Fail, Proceed, Idle
  <2> QED BY <1>0, <2>1, QuietEngaged DEF AtWork
<1>3. ASSUME NEW u \in Users, NEW p \in Problems, StartCreate(t, u, p) PROVE Engaged'
  <2>1. requests'[t].step = "count" /\ UNCHANGED <<commitments, reputation>>
    BY <1>0, <1>3 DEF StartCreate, Proceed
  <2> QED BY <1>0, <2>1, QuietEngaged DEF AtWork
<1>4. CASE CountSlots(t)
  <2>1. requests[t] \in Creating /\ UNCHANGED <<commitments, reputation>>
    BY <1>0, <1>4, RequestKinds DEF CountSlots
  <2>2. PICK r \in Creating : r = requests[t]
    BY <2>1
  <2>3. PICK q : q = [r EXCEPT !.step = "insert"]
    OBVIOUS
  <2>4. q.step = "insert"
    BY <2>3 DEF Creating
  <2>5. requests'[t] = q \/ requests'[t] = Idle
    BY <1>0, <1>4, <2>2, <2>3 DEF CountSlots, Proceed
  <2> QED BY <1>0, <2>1, <2>4, <2>5, QuietEngaged DEF AtWork, Idle
<1>5. CASE InsertCommitment(t)
  <2>1. PICK i \in Ids, row \in Commitment :
          /\ commitments' = [commitments EXCEPT ![i] = row] /\ row.status = "active"
          /\ requests'[t].step = "record_created" /\ requests'[t].id = i
    BY <1>0, <1>5, InsertDoes
  <2>2. commitments'[i] = row
    BY <2>1 DEF TypeInv, TypeOK
  <2> QED BY <1>0, <2>1, <2>2 DEF Engaged, AtWork
<1>6. ASSUME NEW u \in Users, NEW i \in Ids, NEW a \in Action, LoadCommitment(t, u, i, a)
      PROVE  Engaged'
  <2>1. /\ commitments[i].user_id = u /\ UNCHANGED <<commitments, reputation>>
        /\ requests'[t].step = "save" /\ requests'[t].id = i /\ requests'[t].user_id = u
    BY <1>0, <1>6 DEF LoadCommitment, MayCheckpoint, Proceed
  <2> QED BY <1>0, <2>1 DEF Engaged, AtWork
<1>7. CASE SaveCommitment(t)
  <2>1. PICK i \in Ids, row \in Commitment, old \in Commitment :
          /\ requests[t] \in Checkpointing /\ requests[t].step = "save" /\ requests[t].id = i
          /\ old = commitments[i] /\ commitments' = [commitments EXCEPT ![i] = row]
          /\ row.user_id = old.user_id
          /\ \/ requests[t].action = "continue" /\ row.status = old.status
             \/ requests[t].action # "continue" /\ row.status = EventFor(requests[t].action)
          /\ requests'[t].step = "record" /\ requests'[t].id = i
          /\ requests'[t].action = requests[t].action
    BY <1>0, <1>7, SaveDoes
  <2>2. commitments'[i] = row
    BY <2>1 DEF TypeInv, TypeOK
  <2>3. requests'[t].user_id = requests[t].user_id
    BY <1>0, <1>7, <2>1 DEF SaveCommitment, Proceed, Checkpointing
  <2>4. old.status = "active"
    BY <1>0, <2>1 DEF Serial, Undisturbed
  <2>5. old.user_id = requests[t].user_id
    BY <1>0, <2>1 DEF Engaged
  <2> QED BY <1>0, <2>1, <2>2, <2>3, <2>4, <2>5 DEF Engaged, AtWork
<1>8. CASE RecordCheckpoint(t) \/ ReadReputation(t) \/ WriteReputation(t)
  <2>1. PICK i \in Ids, u \in Users, a \in Action :
          /\ requests[t].id = i /\ requests[t].user_id = u /\ requests[t].action = a
          /\ UNCHANGED commitments
          /\ \/ /\ requests[t].step = "record" /\ UNCHANGED reputation
                /\ \/ a = "continue" /\ requests'[t] = Idle
                   \/ /\ a # "continue" /\ requests'[t].step = "read_reputation"
                      /\ requests'[t].id = i /\ requests'[t].user_id = u /\ requests'[t].action = a
             \/ /\ requests[t].step = "read_reputation" /\ UNCHANGED reputation
                /\ requests'[t].step = "write_reputation" /\ requests'[t].id = i
                /\ requests'[t].user_id = u /\ requests'[t].action = a
                /\ requests'[t].seen = reputation[u]
             \/ /\ requests[t].step = "write_reputation" /\ requests'[t] = Idle
    BY <1>0, <1>8, CheckpointSteps
  <2>2. requests[t].step \in AtWork
    BY <2>1 DEF AtWork
  <2>3. /\ commitments[i].user_id = u
        /\ IF a = "continue" THEN requests[t].step = "record" /\ commitments[i].status = "active"
           ELSE commitments[i].status = EventFor(a)
    BY <1>0, <2>1, <2>2 DEF Engaged
  <2>4. CASE requests'[t] = Idle
    BY <1>0, <2>4 DEF Engaged, Idle, AtWork
  <2>5. CASE requests'[t] # Idle
    <3>1. /\ requests'[t].id = i /\ requests'[t].user_id = u /\ requests'[t].action = a
          /\ UNCHANGED <<commitments, reputation>> /\ a # "continue"
          /\ \/ requests'[t].step = "read_reputation"
             \/ requests'[t].step = "write_reputation" /\ requests'[t].seen = reputation[u]
      BY <2>1, <2>3, <2>5
    <3> QED BY <1>0, <2>3, <3>1 DEF Engaged, AtWork
  <2> QED BY <2>4, <2>5
<1> QED BY <1>0, <1>1, <1>2, <1>3, <1>4, <1>5, <1>6, <1>7, <1>8 DEF Next

\* A handler that owes the audit row of a checkpoint stays, dies, or writes it.
LEMMA RecordStep ==
  ASSUME NEW t, Threads = {t}, TypeInv, [Next]_vars, NEW i \in Ids,
         requests[t].step = "record", requests[t].id = i
  PROVE  \/ requests'[t] = requests[t]
         \/ i \in interrupted'
         \/ checkpoints' = [checkpoints EXCEPT ![i] = Append(@, EventFor(requests[t].action))]
<1>1. CASE RecordCheckpoint(t)
  BY <1>1 DEF RecordCheckpoint
<1>2. CASE Fail(t)
  BY <1>2 DEF Fail, HalfDone
<1>3. CASE Tick \/ UNCHANGED vars
  BY <1>3 DEF Tick, vars
<1>4. requests[t] # Idle
  BY DEF Idle
<1> QED BY <1>1, <1>2, <1>3, <1>4 DEF Next, StartCreate, CountSlots, InsertCommitment, RecordCreated,
         LoadCommitment, SaveCommitment, ReadReputation, WriteReputation

\* The only steps that write audit rows.
LEMMA AuditChange ==
  ASSUME TypeInv, [Next]_vars, NEW i \in Ids, checkpoints'[i] # checkpoints[i]
  PROVE  \E t \in Threads : /\ requests[t].step \in {"record_created", "record"}
                            /\ requests[t].id = i
<1>1. PICK t \in Threads : RecordCreated(t) \/ RecordCheckpoint(t)
  BY DEF Next, vars, Tick, StartCreate, CountSlots, InsertCommitment, LoadCommitment,
         SaveCommitment, ReadReputation, WriteReputation, Fail
<1>2. checkpoints \in [Ids -> Seq(EventType)]
  BY DEF TypeInv, TypeOK
<1>3. requests[t].step \in {"record_created", "record"}
  BY <1>1 DEF RecordCreated, RecordCheckpoint
<1>4. PICK j, e : j = requests[t].id /\ checkpoints' = [checkpoints EXCEPT ![j] = e]
  <2>1. CASE RecordCreated(t)
    BY <2>1 DEF RecordCreated
  <2>2. CASE RecordCheckpoint(t)
    BY <2>2 DEF RecordCheckpoint
  <2> QED BY <1>1, <2>1, <2>2
<1>5. j = i
  BY <1>2, <1>4
<1> QED BY <1>3, <1>4, <1>5

\* The end of a commitment is the last that is recorded of it.
LEMMA NextLatest ==
  ASSUME NEW t, Threads = {t}, TypeInv, Serial, Engaged, Latest, [Next]_vars
  PROVE  Latest'
<1> SUFFICES ASSUME NEW i \in Ids, commitments'[i].status \in Terminal
             PROVE  \/ i \in interrupted'
                    \/ requests'[t].step = "record" /\ requests'[t].id = i
                    \/ /\ checkpoints'[i] # <<>>
                       /\ checkpoints'[i][Len(checkpoints'[i])] = commitments'[i].status
  BY DEF Latest
<1>0. /\ requests \in [Threads -> Request] /\ checkpoints \in [Ids -> Seq(EventType)]
      /\ t \in Threads /\ \A s \in Threads : s = t
  BY DEF TypeInv, TypeOK
<1>1. CASE commitments'[i] # commitments[i]
  <2>1. PICK s \in Threads : InsertCommitment(s) \/ SaveCommitment(s)
    BY <1>1 DEF Next, vars, Tick, StartCreate, CountSlots, RecordCreated, LoadCommitment,
                RecordCheckpoint, ReadReputation, WriteReputation, Fail
  <2>2. CASE InsertCommitment(t)
    <3>1. PICK j \in Ids, row \in Commitment :
            commitments' = [commitments EXCEPT ![j] = row] /\ row.status = "active"
      BY <1>0, <2>2, InsertDoes
    <3>2. commitments'[i].status = "active"
      BY <1>1, <3>1 DEF TypeInv, TypeOK
    <3> QED BY <3>2 DEF Terminal
  <2>3. CASE SaveCommitment(t)
    <3>1. PICK j \in Ids, row \in Commitment :
            /\ commitments' = [commitments EXCEPT ![j] = row]
            /\ requests'[t].step = "record" /\ requests'[t].id = j
      BY <1>0, <2>3, SaveDoes
    <3>2. i = j
      BY <1>1, <3>1 DEF TypeInv, TypeOK
    <3> QED BY <3>1, <3>2
  <2> QED BY <1>0, <2>1, <2>2, <2>3
<1>2. CASE commitments'[i] = commitments[i]
  <2>1. interrupted \subseteq interrupted'
    BY AuditGrows
  <2>2. CASE requests[t].step = "record" /\ requests[t].id = i
    <3>1. PICK a : a = requests[t].action /\ a \in Action
      BY <1>0, <2>2, RequestKinds DEF Checkpointing
    <3>2. commitments[i].status = EventFor(a)
      BY <1>0, <1>2, <2>2, <3>1 DEF Engaged, AtWork, Terminal
    <3>3. CASE checkpoints' = [checkpoints EXCEPT ![i] = Append(@, EventFor(a))]
      <4>1. PICK c \in Seq(EventType), e \in EventType : c = checkpoints[i] /\ e = EventFor(a)
        BY <1>0, <3>1, EventForType
      <4>2. checkpoints'[i] = Append(c, e)
        BY <1>0, <3>3, <4>1
      <4>3. Append(c, e) # <<>> /\ Append(c, e)[Len(Append(c, e))] = e
        OBVIOUS
      <4> QED BY <1>2, <3>2, <4>1, <4>2, <4>3
    <3> QED BY <1>0, <2>2, <3>1, <3>3, RecordStep
  <2>3. CASE ~(requests[t].step = "record" /\ requests[t].id = i)
    <3>1. ~(requests[t].step = "record_created" /\ requests[t].id = i)
      BY <1>0, <1>2 DEF Engaged, Terminal
    <3>2. checkpoints'[i] = checkpoints[i]
      BY <1>0, <2>3, <3>1, AuditChange
    <3>3. i \in interrupted \/ /\ checkpoints[i] # <<>>
                               /\ checkpoints[i][Len(checkpoints[i])] = commitments[i].status
      BY <1>0, <1>2, <2>3 DEF Latest
    <3> QED BY <1>2, <2>1, <3>2, <3>3
  <2> QED BY <2>2, <2>3
<1> QED BY <1>1, <1>2

LEMMA HistoryInvariant ==
  ASSUME Cardinality(Threads) = 1
  PROVE  Spec => [](Engaged /\ Latest)
<1>1. PICK t : Threads = {t}
  BY OneThread
<1>2. TypeInv /\ Serial /\ Engaged /\ Latest /\ [Next]_vars => Engaged' /\ Latest'
  BY <1>1, NextEngaged, NextLatest
<1> QED BY <1>2, InitEngaged, SerialInvariant, TypesInvariant, PTL DEF Spec

\* What the history shows of a commitment is one of its audit rows, and the last
\* one unless that is the creation.
LEMMA StatusIsRecorded ==
  ASSUME TypeInv, NEW i \in Ids, NEW k \in DOMAIN checkpoints[i], checkpoints[i][k] # "created"
  PROVE  /\ HistoryStatus(i) \in EventType \ {"created"} /\ HistoryStatus(i) \in Recorded(i)
         /\ \A e \in EventType \ {"created"} :
              checkpoints[i][Len(checkpoints[i])] = e => HistoryStatus(i) = e
<1>1. PICK c \in Seq(EventType) : c = checkpoints[i]
  BY DEF TypeInv, TypeOK
<1>2. PICK K : K = {n \in DOMAIN c : c[n] # "created"}
  OBVIOUS
<1>3. K # {} /\ k \in K
  BY <1>1, <1>2
<1>4. HistoryStatus(i) = c[Max(K)]
  BY <1>1, <1>2, <1>3 DEF HistoryStatus
<1>5. Len(c) \in Nat /\ DOMAIN c = 1 .. Len(c) /\ K \subseteq 0 .. Len(c)
  BY <1>2
<1>6. Max(K) \in K /\ \A n \in K : Max(K) >= n
  BY <1>3, <1>5, Greatest
<1>7. PICK m \in DOMAIN c : m = Max(K)
  BY <1>2, <1>6
<1>8. c[m] \in EventType /\ c[m] # "created" /\ HistoryStatus(i) = c[m]
  BY <1>2, <1>4, <1>5, <1>6, <1>7
<1>9. ASSUME c[Len(c)] # "created" PROVE m = Len(c)
  <2>1. Len(c) \in K
    BY <1>2, <1>3, <1>5, <1>9
  <2> QED BY <1>5, <1>6, <1>7, <2>1
<1> QED BY <1>1, <1>7, <1>8, <1>9 DEF Recorded

\* One handler at a time: the history shows every commitment as it stands.
THEOREM HistoryIsTrue ==
  ASSUME Cardinality(Threads) = 1
  PROVE  Spec => []HistoryAgreesWithStatus
<1>1. TypeInv /\ AuditInv /\ Latest => HistoryAgreesWithStatus
  <2> SUFFICES ASSUME TypeInv, AuditInv, Latest,
                      NEW i \in Ids, Exists(i), ~Busy(i), i \notin interrupted,
                      NEW S, S = {h.status : h \in {g \in CommitmentHistory(commitments[i].user_id) : g.id = i}}
               PROVE  IF commitments[i].status = "active" THEN S \subseteq {"continued"}
                      ELSE S = {commitments[i].status}
    BY DEF HistoryAgreesWithStatus
  <2>1. commitments[i] \in Commitment
    BY DEF TypeInv, TypeOK, Exists
  <2>2. S = IF i \in WithHistory(commitments[i].user_id) THEN {HistoryStatus(i)} ELSE {}
    <3>1. PICK W : W = WithHistory(commitments[i].user_id)
      OBVIOUS
    <3>2. PICK G : G = {g \in {[id |-> j, status |-> HistoryStatus(j)] : j \in W} : g.id = i}
      OBVIOUS
    <3>3. S = {h.status : h \in G}
      BY <3>1, <3>2 DEF CommitmentHistory
    <3>4. \A g \in G : i \in W /\ g.status = HistoryStatus(i)
      BY <3>2
    <3>5. i \in W => \E g \in G : g.status = HistoryStatus(i)
      <4>1. PICK g : g = [id |-> i, status |-> HistoryStatus(i)]
        OBVIOUS
      <4>2. i \in W => g \in G
        BY <3>2, <4>1
      <4> QED BY <4>1, <4>2
    <3> QED BY <3>1, <3>3, <3>4, <3>5
  <2>3. i \in WithHistory(commitments[i].user_id)
          <=> \E k \in DOMAIN checkpoints[i] : checkpoints[i][k] # "created"
    BY DEF WithHistory
  <2>5. CASE commitments[i].status = "active"
    <3>1. Recorded(i) \cap Terminal = {}
      BY <2>5 DEF AuditInv, NoEventWithoutTransition, Terminal
    <3>2. i \in WithHistory(commitments[i].user_id) => HistoryStatus(i) = "continued"
      BY <2>3, <3>1, StatusIsRecorded DEF EventType
    <3> QED BY <2>2, <2>5, <3>2
  <2>6. CASE commitments[i].status # "active"
    <3>1. commitments[i].status \in Terminal
      BY <2>1, <2>6 DEF Commitment
    <3>2. checkpoints[i] # <<>> /\ checkpoints[i][Len(checkpoints[i])] = commitments[i].status
      BY <3>1 DEF Latest, Busy, HalfDone
    <3>3. Len(checkpoints[i]) \in DOMAIN checkpoints[i]
      BY <3>2 DEF TypeInv, TypeOK
    <3>4. i \in WithHistory(commitments[i].user_id)
      BY <2>3, <3>1, <3>2, <3>3 DEF Terminal
    <3>5. HistoryStatus(i) = commitments[i].status
      BY <2>3, <3>1, <3>2, <3>4, StatusIsRecorded DEF Terminal, EventType
    <3> QED BY <2>2, <2>6, <3>4, <3>5
  <2> QED BY <2>5, <2>6
<1> QED BY <1>1, AuditInvariant, TypesInvariant, HistoryInvariant, PTL

----------------------------------------------------------------------------
(* The reputation, with one handler at a time *)

\* What a set of commitments earned is the total of what each did.
LEMMA EarnedSum ==
  ASSUME NEW S, IsFiniteSet(S), NEW f \in [S -> Int], \A x \in S : Earned(x) = f[x]
  PROVE  MapThenSumSet(Earned, S) = Total(f)
<1> DEFINE EStep(i, s) == IF s = {} THEN 0
                          ELSE Earned(CHOOSE x \in s : TRUE) + i[s \ {CHOOSE x \in s : TRUE}]
           Iter(i) == i = [s \in SUBSET S |-> EStep(i, s)]
<1>1. ASSUME NEW i PROVE Iter(i) <=> Sums(f, S, i)
  <2>1. ASSUME NEW s \in SUBSET S PROVE EStep(i, s) = Step(f, i, s)
    <3>1. CASE s = {}
      BY <3>1 DEF Step
    <3>2. CASE s # {}
      <4>1. PICK y \in S : y = CHOOSE x \in s : TRUE
        BY <3>2
      <4>2. Earned(y) = f[y]
        OBVIOUS
      <4> QED BY <3>2, <4>1, <4>2 DEF Step
    <3> QED BY <3>1, <3>2
  <2> HIDE DEF EStep
  <2>2. [s \in SUBSET S |-> EStep(i, s)] = [s \in SUBSET S |-> Step(f, i, s)]
    BY <2>1
  <2> QED BY <2>2 DEF Sums
<1>2. MapThenSumSet(Earned, S) = (CHOOSE i : Iter(i))[S]
  BY DEF MapThenSumSet, MapThenFoldSet
<1>3. PICK jt \in [SUBSET S -> Int] : Sums(f, S, jt)
  BY SumsExist
<1> HIDE DEF Iter
<1>4. Iter(CHOOSE i : Iter(i))
  BY <1>1, <1>3
<1>5. Sums(f, S, CHOOSE i : Sums(f, S, i))
  BY <1>3
<1>6. PICK it, kt : /\ it = (CHOOSE i : Iter(i)) /\ Sums(f, S, it)
                    /\ kt = (CHOOSE i : Sums(f, S, i)) /\ Sums(f, S, kt)
  BY <1>1, <1>4, <1>5
<1>7. \A s \in SUBSET S : it[s] = kt[s]
  BY <1>6, SumsAgree
<1>8. it[S] = kt[S]
  BY <1>7
<1> QED BY <1>2, <1>6, <1>8 DEF Total

\* The commitments of a user, and whether the outcome of one is still to be paid.
Own(u) == {i \in Ids : Exists(i) /\ commitments[i].user_id = u}
Unpaid(i) == \E t \in Threads : requests[t].step \in AtWork /\ requests[t].id = i

\* What the user's reputation already holds of each.
PaidFor(i) == IF Unpaid(i) THEN 0 ELSE Earned(i)
Paid(u) == [i \in Own(u) |-> PaidFor(i)]

\* A reputation is the total of what was paid, as long as no handler died owing
\* some of it.
ReputationInv ==
  \A u \in Users : Own(u) \cap interrupted = {} => reputation[u] = Total(Paid(u))

LEMMA PaidType ==
  ASSUME TypeInv, NEW u
  PROVE  IsFiniteSet(Own(u)) /\ Paid(u) \in [Own(u) -> Int]
<1>1. IsFiniteSet(Own(u))
  BY BoundAssumption, FS_Subset DEF Own
<1>2. ASSUME NEW i \in Own(u) PROVE PaidFor(i) \in Int
  <2>1. commitments[i].problem_id \in Problems
    BY DEF Own, Exists, TypeInv, TypeOK, Commitment
  <2>2. /\ DeltaFor("resolve", commitments[i].problem_id) \in Int
        /\ DeltaFor("abandon", commitments[i].problem_id) \in Int
    BY <2>1, DeltaType DEF Action
  <2>3. Earned(i) \in Int
    BY <2>2 DEF Earned
  <2> QED BY <2>3 DEF PaidFor
<1> QED BY <1>1, <1>2 DEF Paid

\* The same in the next state.
LEMMA PaidTypeNext ==
  ASSUME TypeInv', NEW u
  PROVE  IsFiniteSet(Own(u)') /\ Paid(u)' \in [Own(u)' -> Int]
<1>1. IsFiniteSet(Own(u)')
  BY BoundAssumption, FS_Subset DEF Own
<1>2. ASSUME NEW i \in Own(u)' PROVE PaidFor(i)' \in Int
  <2>1. commitments'[i].problem_id \in Problems
    BY DEF Own, Exists, TypeInv, TypeOK, Commitment
  <2>2. /\ DeltaFor("resolve", commitments'[i].problem_id) \in Int
        /\ DeltaFor("abandon", commitments'[i].problem_id) \in Int
    BY <2>1, DeltaType DEF Action
  <2>3. Earned(i)' \in Int
    BY <2>2 DEF Earned
  <2> QED BY <2>3 DEF PaidFor
<1> QED BY <1>1, <1>2 DEF Paid

\* The total of a user to whose commitments nothing happens is the same.
LEMMA SamePaid ==
  ASSUME NEW u \in Users, Own(u)' = Own(u), \A i \in Own(u) : PaidFor(i)' = PaidFor(i)
  PROVE  Total(Paid(u))' = Total(Paid(u))
<1>1. Paid(u)' = Paid(u)
  BY DEF Paid
<1> QED BY <1>1 DEF Total

LEMMA InitReputation == Init => ReputationInv
<1> SUFFICES ASSUME Init, NEW u \in Users PROVE reputation[u] = Total(Paid(u))
  BY DEF ReputationInv
<1>1. Own(u) = {} /\ reputation[u] = 0
  BY DEF Init, Own, Exists
<1>2. TypeInv
  BY InitTypes
<1>3. Total(Paid(u)) = 0
  BY <1>1, <1>2, PaidType, TotalSplits
<1> QED BY <1>1, <1>3

\* The steps that write no commitment and leave what is unpaid.
LEMMA QuietReputation ==
  ASSUME ReputationInv, UNCHANGED <<commitments, reputation>>, interrupted \subseteq interrupted',
         \A i \in Ids : Unpaid(i)' <=> Unpaid(i)
  PROVE  ReputationInv'
<1> SUFFICES ASSUME NEW u \in Users, Own(u)' \cap interrupted' = {}
             PROVE  reputation'[u] = Total(Paid(u))'
  BY DEF ReputationInv
<1>1. Own(u)' = Own(u)
  BY DEF Own, Exists
<1>2. \A i \in Own(u) : PaidFor(i)' = PaidFor(i)
  BY DEF Own, PaidFor, Earned
<1>3. Total(Paid(u))' = Total(Paid(u))
  BY <1>1, <1>2, SamePaid
<1> QED BY <1>1, <1>3 DEF ReputationInv

\* A new commitment adds nothing.
LEMMA InsertReputation ==
  ASSUME NEW t, Threads = {t}, TypeInv, TypeInv', ReputationInv, InsertCommitment(t)
  PROVE  ReputationInv'
<1>1. PICK i \in Ids, v \in Users, row \in Commitment :
        /\ requests[t].step = "insert" /\ ~Exists(i)
        /\ commitments' = [commitments EXCEPT ![i] = row]
        /\ row.user_id = v /\ row.status = "active"
        /\ requests'[t].step = "record_created"
        /\ UNCHANGED <<reputation, interrupted>>
  BY InsertDoes
<1>2. commitments'[i] = row /\ \A j \in Ids \ {i} : commitments'[j] = commitments[j]
  BY <1>1 DEF TypeInv, TypeOK
<1>3. row # NoRow
  BY NoRowIsNoCommitment
<1>4. \A j : ~Unpaid(j) /\ ~Unpaid(j)'
  BY <1>1 DEF Unpaid, AtWork
<1>5. \A j \in Ids \ {i} : PaidFor(j)' = PaidFor(j)
  BY <1>2, <1>4 DEF PaidFor, Earned
<1>6. PaidFor(i)' = 0
  BY <1>1, <1>2, <1>4 DEF PaidFor, Earned
<1>7. SUFFICES ASSUME NEW u \in Users, Own(u)' \cap interrupted' = {}
               PROVE  reputation'[u] = Total(Paid(u))'
  BY DEF ReputationInv
<1>8. CASE u # v
  <2>1. Own(u)' = Own(u) /\ i \notin Own(u)
    BY <1>1, <1>2, <1>8 DEF Own, Exists
  <2>2. \A j \in Own(u) : PaidFor(j)' = PaidFor(j)
    BY <1>5, <2>1 DEF Own
  <2>3. Total(Paid(u))' = Total(Paid(u))
    BY <2>1, <2>2, SamePaid
  <2> QED BY <1>1, <1>7, <2>1, <2>3 DEF ReputationInv
<1>9. CASE u = v
  <2>1. Own(u)' = Own(u) \cup {i} /\ i \notin Own(u)
    BY <1>1, <1>2, <1>3, <1>9 DEF Own, Exists
  <2>2. PICK S, f : S = Own(u)' /\ f = Paid(u)' /\ IsFiniteSet(S) /\ f \in [S -> Int]
    BY PaidTypeNext
  <2>3. Total(f) = f[i] + Total([j \in S \ {i} |-> f[j]])
    BY <2>1, <2>2, TotalSplits
  <2>4. f[i] = 0
    BY <1>6, <2>1, <2>2 DEF Paid
  <2>5. [j \in S \ {i} |-> f[j]] = Paid(u)
    <3>1. S \ {i} = Own(u)
      BY <2>1, <2>2
    <3>2. \A j \in Own(u) : f[j] = PaidFor(j)
      BY <1>5, <2>1, <2>2 DEF Paid, Own
    <3> QED BY <3>1, <3>2 DEF Paid
  <2>6. Total(Paid(u)) \in Int
    BY PaidType, TotalSplits
  <2>7. Total(f) = Total(Paid(u))
    BY <2>3, <2>4, <2>5, <2>6
  <2>8. Own(u) \cap interrupted = {}
    BY <1>1, <1>7, <2>1
  <2>9. reputation[u] = Total(Paid(u))
    BY <2>8 DEF ReputationInv
  <2>10. Total(Paid(u))' = Total(f)
    BY <2>2
  <2> QED BY <1>1, <2>7, <2>9, <2>10
<1> QED BY <1>8, <1>9

\* Saving a checkpoint earns nothing before it is paid.
LEMMA SaveReputation ==
  ASSUME NEW t, Threads = {t}, TypeInv, Serial, ReputationInv, SaveCommitment(t)
  PROVE  ReputationInv'
<1>1. PICK i \in Ids, row \in Commitment, old \in Commitment :
        /\ requests[t].step = "save" /\ requests[t].id = i
        /\ Exists(i) /\ old = commitments[i]
        /\ commitments' = [commitments EXCEPT ![i] = row]
        /\ row.user_id = old.user_id
        /\ requests'[t].step = "record" /\ requests'[t].id = i
        /\ UNCHANGED <<reputation, interrupted>>
  BY SaveDoes
<1>2. commitments'[i] = row /\ \A j \in Ids \ {i} : commitments'[j] = commitments[j]
  BY <1>1 DEF TypeInv, TypeOK
<1>3. row # NoRow
  BY NoRowIsNoCommitment
<1>4. commitments[i].status = "active"
  BY <1>1 DEF Serial, Undisturbed
<1>5. (\A j : ~Unpaid(j)) /\ Unpaid(i)' /\ \A j : j # i => ~Unpaid(j)'
  BY <1>1 DEF Unpaid, AtWork
<1>6. \A j \in Ids \ {i} : PaidFor(j)' = PaidFor(j)
  BY <1>2, <1>5 DEF PaidFor, Earned
<1>7. PaidFor(i)' = 0 /\ PaidFor(i) = 0
  BY <1>4, <1>5 DEF PaidFor, Earned
<1>8. SUFFICES ASSUME NEW u \in Users, Own(u)' \cap interrupted' = {}
               PROVE  reputation'[u] = Total(Paid(u))'
  BY DEF ReputationInv
<1>9. Own(u)' = Own(u)
  BY <1>1, <1>2, <1>3 DEF Own, Exists
<1>10. \A j \in Own(u) : PaidFor(j)' = PaidFor(j)
  BY <1>6, <1>7 DEF Own
<1>11. Total(Paid(u))' = Total(Paid(u))
  BY <1>9, <1>10, SamePaid
<1> QED BY <1>1, <1>8, <1>9, <1>11 DEF ReputationInv

\* What the outcome earned is added when the reputation is written, and only
\* where it earned nothing is nothing written.
LEMMA PayReputation ==
  ASSUME NEW t, Threads = {t}, TypeInv, Engaged, ReputationInv,
         RecordCheckpoint(t) \/ ReadReputation(t) \/ WriteReputation(t)
  PROVE  ReputationInv'
<1>1. PICK i \in Ids, v \in Users, a \in Action, row \in Commitment :
        /\ requests[t] \in Checkpointing
        /\ requests[t].id = i /\ requests[t].user_id = v /\ requests[t].action = a
        /\ Exists(i) /\ row = commitments[i] /\ UNCHANGED <<commitments, interrupted>>
        /\ \/ /\ requests[t].step = "record" /\ UNCHANGED reputation
              /\ \/ a = "continue" /\ requests'[t] = Idle
                 \/ requests'[t].step = "read_reputation" /\ requests'[t].id = i
           \/ /\ requests[t].step = "read_reputation" /\ UNCHANGED reputation
              /\ requests'[t].step = "write_reputation" /\ requests'[t].id = i
           \/ /\ requests[t].step = "write_reputation" /\ requests'[t] = Idle
              /\ reputation' = [reputation EXCEPT ![v] =
                                  requests[t].seen + DeltaFor(a, row.problem_id)]
  BY CheckpointSteps
<1>2. /\ row.user_id = v
      /\ IF a = "continue" THEN requests[t].step = "record" /\ row.status = "active"
         ELSE row.status = EventFor(a)
      /\ requests[t].step = "write_reputation" => requests[t].seen = reputation[v]
  BY <1>1 DEF Engaged, AtWork
<1>3. Earned(i) = DeltaFor(a, row.problem_id) /\ DeltaFor(a, row.problem_id) \in Int
  <2>1. CASE a = "continue"
    BY <1>1, <1>2, <2>1 DEF Earned, DeltaFor
  <2>2. CASE a # "continue"
    <3>1. row.status = EventFor(a) /\ a \in {"resolve", "abandon"}
      BY <1>2, <2>2 DEF Action
    <3>2. Earned(i) = DeltaFor(a, row.problem_id)
      BY <1>1, <3>1 DEF Earned, EventFor
    <3>3. row.problem_id \in Problems
      BY DEF Commitment
    <3> QED BY <3>2, <3>3, DeltaType
  <2> QED BY <2>1, <2>2
<1>4. Unpaid(i) /\ \A j : j # i => ~Unpaid(j) /\ ~Unpaid(j)'
  BY <1>1 DEF Unpaid, AtWork, Idle
<1>5. CASE requests'[t] # Idle
  <2>1. Unpaid(i)' /\ UNCHANGED reputation
    BY <1>1, <1>5 DEF Unpaid, AtWork
  <2> QED BY <1>1, <1>4, <2>1, QuietReputation
<1>6. CASE requests'[t] = Idle
  <2>1. \A j : ~Unpaid(j)'
    BY <1>6 DEF Unpaid, AtWork, Idle
  <2>2. PaidFor(i) = 0 /\ PaidFor(i)' = DeltaFor(a, row.problem_id)
    BY <1>1, <1>3, <1>4, <2>1 DEF PaidFor, Earned
  <2>3. \A j \in Ids : j # i => PaidFor(j)' = PaidFor(j)
    BY <1>1, <1>4 DEF PaidFor, Earned
  <2>4. SUFFICES ASSUME NEW u \in Users, Own(u)' \cap interrupted' = {}
                 PROVE  reputation'[u] = Total(Paid(u))'
    BY DEF ReputationInv
  <2>5. Own(u)' = Own(u) /\ (i \in Own(u) <=> u = v) /\ Own(u) \subseteq Ids
    BY <1>1, <1>2 DEF Own, Exists
  <2>6. reputation[u] = Total(Paid(u))
    BY <1>1, <2>4, <2>5 DEF ReputationInv
  <2>7. CASE u # v \/ DeltaFor(a, row.problem_id) = 0
    <3>1. \A j \in Own(u) : PaidFor(j)' = PaidFor(j)
      BY <2>2, <2>3, <2>5, <2>7
    <3>2. Total(Paid(u))' = Total(Paid(u))
      BY <2>5, <3>1, SamePaid
    <3>3. reputation'[u] = reputation[u]
      <4>1. reputation \in [Users -> Int]
        BY DEF TypeInv, TypeOK
      <4> QED BY <1>1, <1>2, <1>3, <2>7, <4>1
    <3> QED BY <2>6, <3>2, <3>3
  <2>8. CASE u = v /\ DeltaFor(a, row.problem_id) # 0
    <3>1. requests[t].step = "write_reputation"
      BY <1>1, <1>6, <2>8 DEF DeltaFor, Idle
    <3>2. reputation'[u] = reputation[u] + DeltaFor(a, row.problem_id)
      BY <1>1, <1>2, <2>8, <3>1 DEF TypeInv, TypeOK
    <3>3. PICK S, f, g : S = Own(u) /\ f = Paid(u) /\ g = Paid(u)'
      OBVIOUS
    <3>4. IsFiniteSet(S) /\ f \in [S -> Int]
      BY <3>3, PaidType
    <3>5. i \in S /\ f[i] = 0 /\ g[i] = DeltaFor(a, row.problem_id)
      BY <2>2, <2>5, <2>8, <3>3 DEF Paid
    <3>6. \A j \in S \ {i} : f[j] = g[j]
      BY <2>3, <2>5, <3>3 DEF Paid
    <3>7. g \in [S -> Int]
      <4>1. g = [j \in S |-> g[j]]
        BY <2>5, <3>3 DEF Paid
      <4>2. \A j \in S : g[j] \in Int
        BY <1>3, <3>4, <3>5, <3>6
      <4> QED BY <4>1, <4>2
    <3>8. Total(g) = Total(f) + (g[i] - f[i]) /\ Total(f) \in Int
      BY <3>4, <3>5, <3>6, <3>7, TotalChanges, TotalSplits
    <3>9. Total(Paid(u))' = Total(g)
      BY <3>3
    <3> QED BY <1>3, <2>6, <3>2, <3>3, <3>5, <3>8, <3>9
  <2> QED BY <2>7, <2>8
<1> QED BY <1>5, <1>6

\* A handler that dies owing a user something leaves that user aside.
LEMMA FailReputation ==
  ASSUME NEW t, Threads = {t}, TypeInv, Engaged, ReputationInv, Fail(t)
  PROVE  ReputationInv'
<1>0. requests \in [Threads -> Request]
  BY DEF TypeInv, TypeOK
<1>1. /\ requests'[t] = Idle /\ UNCHANGED <<commitments, reputation>>
      /\ interrupted' = IF HalfDone(t) THEN interrupted \cup {requests[t].id} ELSE interrupted
  BY <1>0 DEF Fail, Proceed
<1>2. \A j : ~Unpaid(j)'
  BY <1>1 DEF Unpaid, AtWork, Idle
<1>3. CASE \A j \in Ids : ~Unpaid(j)
  BY <1>1, <1>2, <1>3, QuietReputation
<1>4. ASSUME NEW i \in Ids, Unpaid(i) PROVE ReputationInv'
  <2>1. requests[t].id = i /\ requests[t].step \in AtWork
    BY <1>4 DEF Unpaid
  <2>2. requests[t] \in Checkpointing /\ Exists(i) /\ interrupted' = interrupted \cup {i}
    BY <1>0, <1>1, <2>1, RequestKinds DEF HalfDone, AtWork, TypeInv, RowsExist
  <2>3. PICK v : v = commitments[i].user_id
    OBVIOUS
  <2>4. \A j : j # i => ~Unpaid(j)
    BY <2>1 DEF Unpaid
  <2>5. SUFFICES ASSUME NEW u \in Users, Own(u)' \cap interrupted' = {}
                 PROVE  reputation'[u] = Total(Paid(u))'
    BY DEF ReputationInv
  <2>6. Own(u)' = Own(u) /\ i \notin Own(u)
    BY <1>1, <2>2, <2>5 DEF Own, Exists
  <2>7. \A j \in Own(u) : PaidFor(j)' = PaidFor(j)
    BY <1>1, <1>2, <2>4, <2>6 DEF PaidFor, Earned
  <2>8. Total(Paid(u))' = Total(Paid(u))
    BY <2>6, <2>7, SamePaid
  <2>9. Own(u) \cap interrupted = {}
    BY <2>2, <2>5, <2>6
  <2> QED BY <1>1, <2>8, <2>9 DEF ReputationInv
<1> QED BY <1>3, <1>4

LEMMA NextReputation ==
  ASSUME NEW t, Threads = {t}, TypeInv, TypeInv', Serial, Engaged, ReputationInv, [Next]_vars
  PROVE  ReputationInv'
<1>0. requests \in [Threads -> Request] /\ t \in Threads /\ \A s \in Threads : s = t
  BY DEF TypeInv, TypeOK
<1>1. CASE Tick \/ UNCHANGED vars
  BY <1>1, QuietReputation DEF Tick, vars, Unpaid
<1>2. CASE RecordCreated(t)
  <2>1. /\ requests[t].step = "record_created" /\ requests'[t].step = "idle"
        /\ UNCHANGED <<commitments, reputation, interrupted>>
    BY <1>0, <1>2 DEF RecordCreated, Proceed, Idle
  <2> QED BY <1>0, <2>1, QuietReputation DEF Unpaid, AtWork
<1>3. ASSUME NEW u \in Users, NEW p \in Problems, StartCreate(t, u, p) PROVE ReputationInv'
  <2>1. /\ requests[t].step = "idle" /\ requests'[t].step = "count"
        /\ UNCHANGED <<commitments, reputation, interrupted>>
    BY <1>0, <1>3 DEF StartCreate, Proceed, Idle
  <2> QED BY <1>0, <2>1, QuietReputation DEF Unpaid, AtWork
<1>4. CASE CountSlots(t)
  <2>1. requests[t] \in Creating /\ UNCHANGED <<commitments, reputation, interrupted>>
    BY <1>0, <1>4, RequestKinds DEF CountSlots
  <2>2. PICK r \in Creating : r = requests[t]
    BY <2>1
  <2>3. PICK q : q = [r EXCEPT !.step = "insert"]
    OBVIOUS
  <2>4. q.step = "insert" /\ r.step \in {"count", "insert"}
    BY <2>3 DEF Creating
  <2>5. requests'[t] = q \/ requests'[t] = Idle
    BY <1>0, <1>4, <2>2, <2>3 DEF CountSlots, Proceed
  <2> QED BY <1>0, <2>1, <2>2, <2>4, <2>5, QuietReputation DEF Unpaid, AtWork, Idle
<1>5. ASSUME NEW u \in Users, NEW i \in Ids, NEW a \in Action, LoadCommitment(t, u, i, a)
      PROVE  ReputationInv'
  <2>1. /\ requests[t].step = "idle" /\ requests'[t].step = "save"
        /\ UNCHANGED <<commitments, reputation, interrupted>>
    BY <1>0, <1>5 DEF LoadCommitment, Proceed, Idle
  <2> QED BY <1>0, <2>1, QuietReputation DEF Unpaid, AtWork
<1>6. CASE InsertCommitment(t)
  BY <1>6, InsertReputation
<1>7. CASE SaveCommitment(t)
  BY <1>7, SaveReputation
<1>8. CASE RecordCheckpoint(t) \/ ReadReputation(t) \/ WriteReputation(t)
  BY <1>8, PayReputation
<1>9. CASE Fail(t)
  BY <1>9, FailReputation
<1> QED BY <1>0, <1>1, <1>2, <1>3, <1>4, <1>5, <1>6, <1>7, <1>8, <1>9 DEF Next

\* One handler at a time: a reputation is what the outcomes of the user's own
\* commitments are worth, each counted once.
THEOREM ReputationIsTheSum ==
  ASSUME Cardinality(Threads) = 1
  PROVE  Spec => []ReputationIsEarned
<1>1. PICK t : Threads = {t}
  BY OneThread
<1>2. TypeInv /\ TypeInv' /\ Serial /\ Engaged /\ ReputationInv /\ [Next]_vars => ReputationInv'
  BY <1>1, NextReputation
<1>3. TypeInv /\ ReputationInv => ReputationIsEarned
  <2> SUFFICES ASSUME TypeInv, ReputationInv, NEW u \in Users,
                      \A i \in Own(u) : ~Busy(i) /\ i \notin interrupted
               PROVE  reputation[u] = MapThenSumSet(Earned, Own(u))
    BY DEF ReputationIsEarned, Own
  <2>1. reputation[u] = Total(Paid(u))
    BY DEF ReputationInv
  <2>2. \A i \in Own(u) : Earned(i) = Paid(u)[i]
    BY DEF Paid, PaidFor, Unpaid, AtWork, Busy, HalfDone
  <2>3. IsFiniteSet(Own(u)) /\ Paid(u) \in [Own(u) -> Int]
    BY PaidType
  <2>4. MapThenSumSet(Earned, Own(u)) = Total(Paid(u))
    BY <2>2, <2>3, EarnedSum
  <2> QED BY <2>1, <2>4
<1> QED BY <1>2, <1>3, InitReputation, SerialInvariant, HistoryInvariant, TypesInvariant, PTL DEF Spec

=============================================================================
