----------------------- MODULE ProblemLifecycle_proofs -----------------------
(***************************************************************************)
(* Theorems about the resolution status: it needs two resolved commitments *)
(* whatever the interleaving, and its window and its verdicts stay when    *)
(* the requests of the commitment engine do not overlap.                   *)
(***************************************************************************)
EXTENDS ProblemLifecycle, Commitments_proofs

----------------------------------------------------------------------------
(* The steps of the engine among those of the lifecycle *)

\* What holds of the engine alone holds of the lifecycle.
LEMMA LifecycleRunsEngine == LifecycleSpec => Spec
<1>1. LifecycleInit => Init
  BY DEF LifecycleInit
<1>2. [LifecycleNext]_lifecycleVars => [Next]_vars
  BY DEF LifecycleNext, lifecycleVars, CommitmentStep, StartObjection, ReadMembers, ReadClaims,
         CheckObjections, InsertObjection
<1> QED BY <1>1, <1>2, PTL DEF LifecycleSpec, Spec

\* The last audit row of a commitment claims its resolution.
Claimed(i) == checkpoints[i] # <<>> /\ Last(checkpoints[i]) = "resolved"

\* With a majority of two at least, two claims are enough.
LEMMA TwoClaims ==
  ASSUME NEW k \in Nat, NEW n \in Nat
  PROVE  /\ ThresholdMet(k, n) => k >= 2
         /\ k >= 2 /\ k <= n => ThresholdMet(k, n)
<1>1. CASE n >= 2
  <2>1. PICK m \in Nat : m = Majority(n) /\ m >= 2
    BY <1>1 DEF Majority
  <2>2. Min({2, m}) = 2
    BY <2>1 DEF Min
  <2> QED BY <1>1, <2>1, <2>2 DEF ThresholdMet
<1>2. CASE n < 2
  BY <1>2 DEF ThresholdMet
<1> QED BY <1>1, <1>2

\* Sets of commitments are finite.
LEMMA IdsFinite ==
  ASSUME NEW S \in SUBSET Ids
  PROVE  IsFiniteSet(S) /\ Cardinality(S) \in Nat
BY BoundAssumption, FS_Subset, FS_CardinalityType

\* A window opens with the second claim.
LEMMA WindowNeedsTwo ==
  ASSUME NEW M \in SUBSET Ids, WindowOf(M) # {}
  PROVE  Cardinality(Claims(M)) >= 2
<1>1. Claims(M) \in SUBSET Ids
  BY DEF Claims
<1>2. ThresholdMet(Cardinality(Claims(M)), Cardinality(M))
  BY DEF WindowOf
<1> QED BY <1>1, <1>2, IdsFinite, TwoClaims

\* The status that a window W, the objections O in it and the time n stand for.
LEMMA Verdicts ==
  ASSUME NEW W, NEW O, NEW n, W = {} => O = {}, NEW status,
         status = CASE W = {} -> "open" [] O # {} -> "disputed"
                    [] O = {} /\ n \in W -> "pending_resolution" [] OTHER -> "resolved"
  PROVE  /\ status = "open" <=> W = {}
         /\ status = "disputed" <=> W # {} /\ O # {}
         /\ status = "resolved" <=> W # {} /\ O = {} /\ n \notin W
<1>1. CASE W = {}
  BY <1>1
<1>2. CASE W # {} /\ O # {}
  BY <1>2
<1>3. CASE W # {} /\ O = {} /\ n \in W
  BY <1>3
<1>4. CASE W # {} /\ O = {} /\ n \notin W
  BY <1>4
<1> QED BY <1>1, <1>2, <1>3, <1>4

LEMMA StatusIs ==
  ASSUME NEW p \in Problems
  PROVE  LET W == WindowOf(Members(p))
         IN  /\ Status(p) = "open" <=> W = {}
             /\ Status(p) = "disputed" <=> W # {} /\ Objected(p, W) # {}
             /\ Status(p) = "resolved" <=> W # {} /\ Objected(p, W) = {} /\ now \notin W
<1> DEFINE W == WindowOf(Members(p))
           O == Objected(p, W)
<1>1. W = {} => O = {}
  BY DEF Objected
<1>2. Status(p) = CASE W = {} -> "open" [] O # {} -> "disputed"
                    [] O = {} /\ now \in W -> "pending_resolution" [] OTHER -> "resolved"
  BY DEF Status
<1> HIDE DEF W, O
<1>3. /\ Status(p) = "open" <=> W = {}
      /\ Status(p) = "disputed" <=> W # {} /\ O # {}
      /\ Status(p) = "resolved" <=> W # {} /\ O = {} /\ now \notin W
  BY <1>1, <1>2, Verdicts
<1> QED BY <1>3 DEF W, O

LEMMA StatusIsNext ==
  ASSUME NEW p \in Problems
  PROVE  LET W == WindowOf(Members(p))'
             O == {o \in ToSet(objections'[p]) : o.raised_at \in W}
         IN  /\ Status(p)' = "disputed" <=> W # {} /\ O # {}
             /\ Status(p)' = "resolved" <=> W # {} /\ O = {} /\ now' \notin W
<1> DEFINE W == WindowOf(Members(p))'
           O == {o \in ToSet(objections'[p]) : o.raised_at \in W}
<1>1. W = {} => O = {}
  OBVIOUS
<1>2. Status(p)' = CASE W = {} -> "open" [] O # {} -> "disputed"
                     [] O = {} /\ now' \in W -> "pending_resolution" [] OTHER -> "resolved"
  BY DEF Status, Objected
<1> HIDE DEF W, O
<1>3. /\ Status(p)' = "disputed" <=> W # {} /\ O # {}
      /\ Status(p)' = "resolved" <=> W # {} /\ O = {} /\ now' \notin W
  BY <1>1, <1>2, Verdicts
<1> QED BY <1>3 DEF W, O

\* A problem is resolved on the word of two resolved commitments at least,
\* whatever requests overlap.
THEOREM ResolutionIsCorroborated == LifecycleSpec => []Corroborated
<1>1. TypeOK /\ NoEventWithoutTransition => Corroborated
  <2> SUFFICES ASSUME TypeOK, NoEventWithoutTransition, NEW p \in Problems, Status(p) # "open"
               PROVE  Cardinality({i \in Ids : /\ Exists(i) /\ commitments[i].problem_id = p
                                               /\ commitments[i].status = "resolved"}) >= 2
    BY DEF Corroborated
  <2> DEFINE R == {i \in Ids : /\ Exists(i) /\ commitments[i].problem_id = p
                               /\ commitments[i].status = "resolved"}
             C == Claims(Members(p))
  <2>1. Members(p) \in SUBSET Ids /\ C \in SUBSET Ids /\ R \in SUBSET Ids
    BY DEF Members, Claims
  <2>2. WindowOf(Members(p)) # {}
    BY StatusIs
  <2>3. Cardinality(C) >= 2
    BY <2>1, <2>2, WindowNeedsTwo
  <2>4. ASSUME NEW i \in C PROVE i \in R
    <3>1. /\ i \in Ids /\ Exists(i) /\ commitments[i].problem_id = p
          /\ commitments[i].status # "abandoned" /\ Claimed(i)
      BY DEF Claims, Members, Claimed
    <3>2. PICK c \in Seq(EventType) : c = checkpoints[i] /\ c # <<>> /\ c[Len(c)] = "resolved"
      BY <3>1 DEF Claimed, Last, TypeOK
    <3>3. Len(c) \in DOMAIN c
      BY <3>2
    <3>4. "resolved" \in Recorded(i)
      BY <3>2, <3>3 DEF Recorded
    <3>5. commitments[i].status \in Terminal
      BY <3>1, <3>4 DEF NoEventWithoutTransition, Terminal
    <3> QED BY <3>1, <3>5 DEF Terminal
  <2>5. C \subseteq R
    BY <2>4
  <2>6. Cardinality(C) <= Cardinality(R)
    BY <2>1, <2>5, IdsFinite, FS_Subset
  <2> QED BY <2>1, <2>3, <2>6, IdsFinite
<1> QED BY <1>1, LifecycleRunsEngine, AuditIsTruthful, TypesCorrect, PTL

----------------------------------------------------------------------------
(* One handler at a time: claims stay *)

\* With one handler, the commitment that claims a resolution is resolved, and the
\* handler is done with it but for its user's reputation.
ClaimsHold ==
  /\ \A t \in Threads, i \in Ids :
       requests[t].step = "record" /\ requests[t].id = i /\ requests[t].action # "continue"
         => commitments[i].status = EventFor(requests[t].action)
  /\ \A i \in Ids : Claimed(i) =>
       /\ commitments[i].status = "resolved"
       /\ \A t \in Threads : requests[t].step \in {"save", "record", "record_created"}
                               => requests[t].id # i

LEMMA InitClaims == Init => ClaimsHold
BY DEF Init, ClaimsHold, Claimed, Idle

\* A row of the audit trail is added by the handler that owes it, at the end.
LEMMA TrailGrows ==
  ASSUME TypeInv, [Next]_vars, NEW i \in Ids, checkpoints'[i] # checkpoints[i]
  PROVE  \E t \in Threads : \E e \in EventType :
           /\ requests[t].id = i /\ UNCHANGED commitments
           /\ checkpoints'[i] # <<>> /\ Last(checkpoints'[i]) = e
           /\ \/ requests[t].step = "record_created" /\ e = "created"
              \/ requests[t].step = "record" /\ e = EventFor(requests[t].action)
           /\ requests'[t].step \in {"idle", "read_reputation"}
<1>1. PICK t \in Threads : RecordCreated(t) \/ RecordCheckpoint(t)
  BY DEF Next, vars, Tick, StartCreate, CountSlots, InsertCommitment, LoadCommitment,
         SaveCommitment, ReadReputation, WriteReputation, Fail
<1>2. requests \in [Threads -> Request] /\ checkpoints \in [Ids -> Seq(EventType)]
  BY DEF TypeInv, TypeOK
<1>3. ASSUME NEW j \in Ids, NEW e \in EventType,
             checkpoints' = [checkpoints EXCEPT ![j] = Append(@, e)]
      PROVE  j = i /\ checkpoints'[i] # <<>> /\ Last(checkpoints'[i]) = e
  <2>1. j = i
    BY <1>2, <1>3
  <2>2. PICK c \in Seq(EventType) : c = checkpoints[i]
    BY <1>2
  <2>3. checkpoints'[i] = Append(c, e)
    BY <1>2, <1>3, <2>1, <2>2
  <2>4. Append(c, e) # <<>> /\ Append(c, e)[Len(Append(c, e))] = e
    OBVIOUS
  <2> QED BY <2>1, <2>3, <2>4 DEF Last
<1>4. CASE RecordCreated(t)
  <2>1. requests[t] \in Created /\ requests[t].step = "record_created" /\ UNCHANGED commitments
    BY <1>2, <1>4, RequestKinds DEF RecordCreated
  <2>2. PICK j \in Ids : j = requests[t].id
    BY <2>1 DEF Created
  <2>3. PICK e \in EventType : e = "created"
    BY DEF EventType
  <2>4. checkpoints' = [checkpoints EXCEPT ![j] = Append(@, e)] /\ requests'[t].step = "idle"
    BY <1>2, <1>4, <2>2, <2>3 DEF RecordCreated, Proceed, Idle
  <2>5. j = i /\ checkpoints'[i] # <<>> /\ Last(checkpoints'[i]) = e
    BY <1>3, <2>4
  <2> QED BY <2>1, <2>2, <2>3, <2>4, <2>5
<1>5. CASE RecordCheckpoint(t)
  <2>1. requests[t] \in Checkpointing /\ requests[t].step = "record" /\ UNCHANGED commitments
    BY <1>2, <1>5, RequestKinds DEF RecordCheckpoint
  <2>2. PICK j \in Ids, a \in Action : j = requests[t].id /\ a = requests[t].action
    BY <2>1 DEF Checkpointing
  <2>3. PICK e \in EventType : e = EventFor(a)
    BY EventForType
  <2>4. checkpoints' = [checkpoints EXCEPT ![j] = Append(@, e)]
    BY <1>5, <2>2, <2>3 DEF RecordCheckpoint
  <2>5. requests'[t].step \in {"idle", "read_reputation"}
    BY <1>2, <1>5, <2>1 DEF RecordCheckpoint, Proceed, Idle, Checkpointing
  <2>6. j = i /\ checkpoints'[i] # <<>> /\ Last(checkpoints'[i]) = e
    BY <1>3, <2>4
  <2> QED BY <2>1, <2>2, <2>3, <2>5, <2>6
<1> QED BY <1>1, <1>4, <1>5

\* What the handler does next, when it is the only one.
LEMMA NextClaims ==
  ASSUME NEW t, Threads = {t}, TypeInv, Serial, ClaimsHold, [Next]_vars
  PROVE  ClaimsHold'
<1>0. /\ requests \in [Threads -> Request] /\ t \in Threads /\ \A s \in Threads : s = t
  BY DEF TypeInv, TypeOK
<1>1. CASE checkpoints' # checkpoints
  <2>1. PICK i \in Ids : checkpoints'[i] # checkpoints[i]
    BY <1>1, NextTypes DEF TypeInv, TypeOK
  <2>2. PICK e \in EventType :
           /\ requests[t].id = i /\ UNCHANGED commitments
           /\ checkpoints'[i] # <<>> /\ Last(checkpoints'[i]) = e
           /\ \/ requests[t].step = "record_created" /\ e = "created"
              \/ requests[t].step = "record" /\ e = EventFor(requests[t].action)
           /\ requests'[t].step \in {"idle", "read_reputation"}
    BY <1>0, <2>1, TrailGrows
  <2>3. ASSUME NEW j \in Ids, Claimed(j)' PROVE commitments'[j].status = "resolved"
    <3>1. CASE checkpoints'[j] = checkpoints[j]
      BY <2>2, <2>3, <3>1 DEF ClaimsHold, Claimed
    <3>2. CASE checkpoints'[j] # checkpoints[j]
      <4>1. PICK f \in EventType :
               /\ requests[t].id = j /\ Last(checkpoints'[j]) = f
               /\ \/ requests[t].step = "record_created" /\ f = "created"
                  \/ requests[t].step = "record" /\ f = EventFor(requests[t].action)
        BY <1>0, <3>2, TrailGrows
      <4>2. f = "resolved"
        BY <2>3, <4>1 DEF Claimed
      <4>3. requests[t].step = "record" /\ requests[t].action # "continue"
        BY <4>1, <4>2 DEF EventFor
      <4> QED BY <1>0, <2>2, <4>1, <4>2, <4>3 DEF ClaimsHold
    <3> QED BY <3>1, <3>2
  <2> QED BY <1>0, <2>2, <2>3 DEF ClaimsHold
<1>2. ASSUME UNCHANGED <<commitments, checkpoints>>,
             \/ requests'[t] = requests[t]
             \/ requests'[t].step \notin {"save", "record", "record_created"}
      PROVE  ClaimsHold'
  BY <1>0, <1>2 DEF ClaimsHold, Claimed
<1>3. CASE InsertCommitment(t)
  <2>1. PICK i \in Ids, row \in Commitment :
           /\ ~Exists(i) /\ commitments' = [commitments EXCEPT ![i] = row]
           /\ requests'[t].step = "record_created" /\ requests'[t].id = i
           /\ UNCHANGED checkpoints
    BY <1>0, <1>3, InsertDoes
  <2>2. \A j \in Ids \ {i} : commitments'[j] = commitments[j]
    BY <2>1 DEF TypeInv, TypeOK
  <2>3. ~Claimed(i)
    BY <2>1 DEF ClaimsHold, Exists, NoRow
  <2> QED BY <1>0, <2>1, <2>2, <2>3 DEF ClaimsHold, Claimed
<1>4. CASE SaveCommitment(t)
  <2>1. PICK i \in Ids, row \in Commitment :
           /\ requests[t].step = "save" /\ requests[t].id = i
           /\ commitments' = [commitments EXCEPT ![i] = row]
           /\ requests[t].action # "continue" => row.status = EventFor(requests[t].action)
           /\ requests'[t].step = "record" /\ requests'[t].id = i
           /\ requests'[t].action = requests[t].action
           /\ UNCHANGED checkpoints
    BY <1>0, <1>4, SaveDoes
  <2>2. commitments'[i] = row /\ \A j \in Ids \ {i} : commitments'[j] = commitments[j]
    BY <2>1 DEF TypeInv, TypeOK
  <2>3. ~Claimed(i)
    BY <1>0, <2>1 DEF ClaimsHold
  <2> QED BY <1>0, <2>1, <2>2, <2>3 DEF ClaimsHold, Claimed
<1>5. ASSUME NEW u \in Users, NEW i \in Ids, NEW a \in Action, LoadCommitment(t, u, i, a)
      PROVE  ClaimsHold'
  <2>1. /\ commitments[i].status = "active" /\ UNCHANGED <<commitments, checkpoints>>
        /\ requests'[t].step = "save" /\ requests'[t].id = i
    BY <1>0, <1>5 DEF LoadCommitment, MayCheckpoint, Proceed
  <2> QED BY <1>0, <2>1 DEF ClaimsHold, Claimed
<1>6. CASE Tick \/ UNCHANGED vars
  BY <1>2, <1>6 DEF Tick, vars
<1>7. CASE WriteReputation(t) \/ Fail(t)
  BY <1>0, <1>2, <1>7 DEF WriteReputation, Fail, Proceed, Idle
<1>8. ASSUME NEW u \in Users, NEW p \in Problems, StartCreate(t, u, p) PROVE ClaimsHold'
  BY <1>0, <1>2, <1>8 DEF StartCreate, Proceed
<1>9. CASE CountSlots(t)
  <2>1. requests[t] \in Creating
    BY <1>0, <1>9, RequestKinds DEF CountSlots
  <2>2. requests'[t].step \in {"insert", "idle"}
    BY <1>0, <1>9, <2>1 DEF CountSlots, Proceed, Idle, Creating
  <2> QED BY <1>2, <1>9, <2>2 DEF CountSlots
<1>10. CASE ReadReputation(t)
  <2>1. requests[t] \in Checkpointing
    BY <1>0, <1>10, RequestKinds DEF ReadReputation
  <2>2. requests'[t].step = "write_reputation"
    BY <1>0, <1>10, <2>1 DEF ReadReputation, Proceed, Checkpointing
  <2> QED BY <1>2, <1>10, <2>2 DEF ReadReputation
<1>11. CASE (RecordCreated(t) \/ RecordCheckpoint(t)) /\ UNCHANGED checkpoints
  <2>1. CASE RecordCreated(t)
    BY <1>0, <1>2, <1>11, <2>1 DEF RecordCreated, Proceed, Idle
  <2>2. CASE RecordCheckpoint(t)
    <3>1. requests[t] \in Checkpointing
      BY <1>0, <2>2, RequestKinds DEF RecordCheckpoint
    <3>2. requests'[t].step \in {"idle", "read_reputation"}
      BY <1>0, <2>2, <3>1 DEF RecordCheckpoint, Proceed, Idle, Checkpointing
    <3> QED BY <1>2, <1>11, <2>2, <3>2 DEF RecordCheckpoint
  <2> QED BY <1>11, <2>1, <2>2
<1> QED BY <1>0, <1>1, <1>3, <1>4, <1>5, <1>6, <1>7, <1>8, <1>9, <1>10, <1>11 DEF Next

\* Whatever claims a resolution is never touched again.
LEMMA ClaimStays ==
  ASSUME TypeInv, Serial, ClaimsHold, [Next]_vars, NEW i \in Ids, Claimed(i)
  PROVE  checkpoints'[i] = checkpoints[i] /\ commitments'[i] = commitments[i]
<1>1. checkpoints'[i] = checkpoints[i]
  <2> SUFFICES ASSUME checkpoints'[i] # checkpoints[i] PROVE FALSE
    OBVIOUS
  <2>1. PICK t \in Threads :
          requests[t].id = i /\ requests[t].step \in {"record_created", "record"}
    BY TrailGrows
  <2> QED BY <2>1 DEF ClaimsHold
<1>2. commitments'[i] = commitments[i]
  BY EndedRowStays DEF ClaimsHold, Terminal
<1> QED BY <1>1, <1>2

LEMMA ClaimsInvariant ==
  ASSUME Cardinality(Threads) = 1
  PROVE  Spec => []ClaimsHold
<1>1. PICK t : Threads = {t}
  BY OneThread
<1>2. TypeInv /\ Serial /\ ClaimsHold /\ [Next]_vars => ClaimsHold'
  BY <1>1, NextClaims
<1> QED BY <1>2, InitClaims, SerialInvariant, TypesInvariant, PTL DEF Spec

----------------------------------------------------------------------------
(* One handler at a time: windows stay *)

\* The claims on a problem.
ClaimsOn(p) == {i \in Ids : commitments[i].problem_id = p /\ Claimed(i)}

LEMMA ClaimsAre ==
  ASSUME ClaimsHold, NEW p \in Problems
  PROVE  Claims(Members(p)) = ClaimsOn(p)
BY DEF ClaimsHold, Claims, Members, ClaimsOn, Claimed, Exists, NoRow

LEMMA ClaimsAreNext ==
  ASSUME ClaimsHold', NEW p \in Problems
  PROVE  Claims(Members(p))' = ClaimsOn(p)'
BY DEF ClaimsHold, Claims, Members, ClaimsOn, Claimed, Exists, NoRow

\* A window is that of the claims, two of which open it.
LEMMA WindowOfClaims ==
  ASSUME ClaimsHold, NEW p \in Problems
  PROVE  WindowOf(Members(p)) =
           LET start == Min({latest_at[i] : i \in ClaimsOn(p)})
           IN  IF Cardinality(ClaimsOn(p)) >= 2 THEN start .. start + Window - 1 ELSE {}
<1>1. Claims(Members(p)) = ClaimsOn(p)
  BY ClaimsAre
<1>2. Members(p) \in SUBSET Ids /\ Claims(Members(p)) \in SUBSET Members(p)
  BY DEF Members, Claims
<1>3. Cardinality(Claims(Members(p))) <= Cardinality(Members(p))
  BY <1>2, IdsFinite, FS_Subset
<1>4. ThresholdMet(Cardinality(ClaimsOn(p)), Cardinality(Members(p)))
        <=> Cardinality(ClaimsOn(p)) >= 2
  BY <1>1, <1>2, <1>3, IdsFinite, TwoClaims
<1> QED BY <1>1, <1>4 DEF WindowOf

LEMMA WindowOfClaimsNext ==
  ASSUME ClaimsHold', NEW p \in Problems
  PROVE  WindowOf(Members(p))' =
           LET start == Min({latest_at'[i] : i \in ClaimsOn(p)'})
           IN  IF Cardinality(ClaimsOn(p)') >= 2 THEN start .. start + Window - 1 ELSE {}
<1>1. Claims(Members(p))' = ClaimsOn(p)'
  BY ClaimsAreNext
<1>2. Members(p)' \in SUBSET Ids /\ Claims(Members(p))' \in SUBSET (Members(p)')
  BY DEF Members, Claims
<1>3. Cardinality(Claims(Members(p))') <= Cardinality(Members(p)')
  BY <1>2, IdsFinite, FS_Subset
<1>4. ThresholdMet(Cardinality(ClaimsOn(p)'), Cardinality(Members(p)'))
        <=> Cardinality(ClaimsOn(p)') >= 2
  BY <1>1, <1>2, <1>3, IdsFinite, TwoClaims
<1> QED BY <1>1, <1>4 DEF WindowOf

----------------------------------------------------------------------------
(* Types of the objection handlers *)

Objection == [user_id : Users, raised_at : Nat]
Asking == [step : {"members"}, user_id : Users, problem_id : Problems]
Reading == [step : {"claims"}, user_id : Users, problem_id : Problems, members : SUBSET Ids]
Objecting ==
  [step : {"check", "insert"}, user_id : Users, problem_id : Problems, window : SUBSET Int]

LifecycleTypes ==
  /\ latest_at \in [Ids -> Nat] /\ \A i \in Ids : latest_at[i] <= now
  /\ objections \in [Problems -> Seq(Objection)]
  /\ objecting \in [Objectors -> {Idle} \cup Asking \cup Reading \cup Objecting]

LEMMA InitLifecycleTypes == LifecycleInit => LifecycleTypes
BY DEF LifecycleInit, LifecycleTypes, Init

\* The step of a handler tells what it knows.
LEMMA ObjectingKinds ==
  ASSUME LifecycleTypes, NEW o \in Objectors
  PROVE  /\ objecting[o].step = "members" => objecting[o] \in Asking
         /\ objecting[o].step = "claims" => objecting[o] \in Reading
         /\ objecting[o].step \in {"check", "insert"} => objecting[o] \in Objecting
<1>1. objecting[o] \in {Idle} \cup Asking \cup Reading \cup Objecting
  BY DEF LifecycleTypes
<1> QED BY <1>1 DEF Idle, Asking, Reading, Objecting

LEMMA WindowOfInts ==
  ASSUME LifecycleTypes, NEW M \in SUBSET Ids
  PROVE  WindowOf(M) \in SUBSET Int
<1>1. CASE WindowOf(M) = {}
  BY <1>1
<1>2. CASE WindowOf(M) # {}
  <2>1. Cardinality(Claims(M)) >= 2 /\ Claims(M) \in SUBSET Ids
    BY <1>2, WindowNeedsTwo DEF Claims
  <2>2. Claims(M) # {}
    BY <2>1, FS_EmptySet
  <2> DEFINE S == {latest_at[i] : i \in Claims(M)}
  <2>3. S \in SUBSET Nat /\ S # {}
    BY <2>1, <2>2 DEF LifecycleTypes
  <2>4. Min(S) \in Nat
    BY <2>3, Least
  <2>5. Min(S) .. Min(S) + Window - 1 \in SUBSET Int
    BY <2>4
  <2> QED BY <1>2, <2>5 DEF WindowOf
<1> QED BY <1>1, <1>2

LEMMA NextLifecycleTypes ==
  ASSUME LifecycleTypes, TypeInv, [LifecycleNext]_lifecycleVars
  PROVE  LifecycleTypes'
<1>0. /\ now \in Nat /\ latest_at \in [Ids -> Nat] /\ \A i \in Ids : latest_at[i] <= now
      /\ objecting \in [Objectors -> {Idle} \cup Asking \cup Reading \cup Objecting]
  BY DEF TypeInv, TypeOK, LifecycleTypes
<1>1. CASE CommitmentStep
  <2>1. now' \in Nat /\ now <= now'
    BY <1>1, ClockMonotonic DEF CommitmentStep
  <2>2. \A i \in Ids : latest_at'[i] \in Nat /\ latest_at'[i] <= now'
    BY <1>0, <1>1, <2>1 DEF CommitmentStep
  <2>3. latest_at' = [i \in Ids |-> latest_at'[i]]
    BY <1>1 DEF CommitmentStep
  <2>4. latest_at' \in [Ids -> Nat]
    BY <2>2, <2>3
  <2> QED BY <1>1, <2>2, <2>4 DEF CommitmentStep, LifecycleTypes
<1>2. ASSUME NEW o \in Objectors, NEW r \in {Idle} \cup Asking \cup Reading \cup Objecting,
             GoOn(o, r), UNCHANGED <<vars, latest_at, objections>>
      PROVE  LifecycleTypes'
  <2>1. objecting' \in [Objectors -> {Idle} \cup Asking \cup Reading \cup Objecting]
    BY <1>0, <1>2 DEF GoOn
  <2> QED BY <1>2, <2>1 DEF LifecycleTypes, vars
<1>3. ASSUME NEW o \in Objectors, NEW u \in Users, NEW p \in Problems, StartObjection(o, u, p)
      PROVE  LifecycleTypes'
  BY <1>2, <1>3 DEF StartObjection, Asking
<1>4. ASSUME NEW o \in Objectors, ReadMembers(o) PROVE LifecycleTypes'
  <2>1. PICK r \in Asking : r = objecting[o]
    BY <1>4, ObjectingKinds DEF ReadMembers
  <2>2. [step |-> "claims", user_id |-> r.user_id, problem_id |-> r.problem_id,
         members |-> Members(r.problem_id)] \in Reading
    BY DEF Asking, Reading, Members
  <2> QED BY <1>2, <1>4, <2>1, <2>2 DEF ReadMembers
<1>5. ASSUME NEW o \in Objectors, ReadClaims(o) PROVE LifecycleTypes'
  <2>1. PICK r \in Reading : r = objecting[o]
    BY <1>5, ObjectingKinds DEF ReadClaims
  <2>2. WindowOf(r.members) \in SUBSET Int
    BY WindowOfInts DEF Reading
  <2>3. [step |-> "check", user_id |-> r.user_id, problem_id |-> r.problem_id,
         window |-> WindowOf(r.members)] \in Objecting
    BY <2>2 DEF Reading, Objecting
  <2> QED BY <1>2, <1>5, <2>1, <2>3 DEF ReadClaims
<1>6. ASSUME NEW o \in Objectors, CheckObjections(o) PROVE LifecycleTypes'
  <2>1. PICK r \in Objecting : r = objecting[o]
    BY <1>6, ObjectingKinds DEF CheckObjections
  <2>2. [r EXCEPT !.step = "insert"] \in Objecting
    BY DEF Objecting
  <2> QED BY <1>2, <1>6, <2>1, <2>2 DEF CheckObjections
<1>7. ASSUME NEW o \in Objectors, InsertObjection(o) PROVE LifecycleTypes'
  <2>1. PICK r \in Objecting : r = objecting[o]
    BY <1>7, ObjectingKinds DEF InsertObjection
  <2>2. ObjectionOf(r) \in Objection
    BY <1>0 DEF ObjectionOf, Objection, Objecting
  <2>3. objections' = [objections EXCEPT ![r.problem_id] = Append(@, ObjectionOf(r))]
    BY <1>7, <2>1 DEF InsertObjection
  <2>4. objections' \in [Problems -> Seq(Objection)]
    BY <2>2, <2>3 DEF LifecycleTypes, Objecting
  <2>5. objecting' = [objecting EXCEPT ![o] = Idle] /\ UNCHANGED <<vars, latest_at>>
    BY <1>7 DEF InsertObjection, GoOn
  <2> QED BY <1>0, <2>4, <2>5 DEF LifecycleTypes, vars
<1>8. CASE UNCHANGED lifecycleVars
  BY <1>8 DEF lifecycleVars, vars, LifecycleTypes
<1> QED BY <1>1, <1>3, <1>4, <1>5, <1>6, <1>7, <1>8 DEF LifecycleNext

LEMMA LifecycleTypesInvariant == LifecycleSpec => []LifecycleTypes
BY InitLifecycleTypes, NextLifecycleTypes, LifecycleRunsEngine, TypesInvariant, PTL
   DEF LifecycleSpec

----------------------------------------------------------------------------
(* Windows and verdicts *)

\* The claims on a problem stay, with their times, and new ones come now.
LEMMA ClaimsGrow ==
  ASSUME LifecycleTypes, TypeInv, Serial, ClaimsHold, [LifecycleNext]_lifecycleVars,
         NEW p \in Problems
  PROVE  /\ ClaimsOn(p) \subseteq ClaimsOn(p)'
         /\ \A i \in ClaimsOn(p) : latest_at'[i] = latest_at[i]
         /\ \A i \in ClaimsOn(p)' : i \in ClaimsOn(p) \/ latest_at'[i] = now
<1>1. CASE CommitmentStep
  <2>1. [Next]_vars
    BY <1>1 DEF CommitmentStep
  <2>2. ASSUME NEW i \in ClaimsOn(p)
        PROVE  i \in ClaimsOn(p)' /\ latest_at'[i] = latest_at[i]
    <3>1. checkpoints'[i] = checkpoints[i] /\ commitments'[i] = commitments[i]
      BY <2>1, ClaimStays DEF ClaimsOn
    <3> QED BY <1>1, <3>1 DEF ClaimsOn, Claimed, CommitmentStep
  <2>3. ASSUME NEW i \in ClaimsOn(p)', i \notin ClaimsOn(p)
        PROVE  latest_at'[i] = now
    <3>1. i \in Ids
      BY DEF ClaimsOn
    <3>2. checkpoints'[i] # checkpoints[i]
      <4> SUFFICES ASSUME checkpoints'[i] = checkpoints[i] PROVE FALSE
        OBVIOUS
      <4>1. Claimed(i)
        BY DEF ClaimsOn, Claimed
      <4>2. commitments'[i] = commitments[i]
        BY <2>1, <3>1, <4>1, ClaimStays
      <4> QED BY <2>3, <4>1, <4>2 DEF ClaimsOn
    <3> QED BY <1>1, <3>1, <3>2 DEF CommitmentStep
  <2> QED BY <2>2, <2>3
<1>2. CASE UNCHANGED <<vars, latest_at>>
  BY <1>2 DEF vars, ClaimsOn, Claimed
<1> QED BY <1>1, <1>2 DEF LifecycleNext, lifecycleVars, StartObjection, ReadMembers, ReadClaims,
                          CheckObjections, InsertObjection

\* An open window stays, whatever members and claims come later.
LEMMA WindowStays ==
  ASSUME LifecycleTypes, TypeInv, Serial, ClaimsHold, ClaimsHold',
         [LifecycleNext]_lifecycleVars, NEW p \in Problems, WindowOf(Members(p)) # {}
  PROVE  WindowOf(Members(p))' = WindowOf(Members(p))
<1> DEFINE C == ClaimsOn(p)
           D == ClaimsOn(p)'
           S == {latest_at[i] : i \in C}
           T == {latest_at'[i] : i \in D}
<1>1. /\ C \subseteq D /\ \A i \in C : latest_at'[i] = latest_at[i]
      /\ \A i \in D : i \in C \/ latest_at'[i] = now
  BY ClaimsGrow
<1>2. C \in SUBSET Ids /\ D \in SUBSET Ids
  BY DEF ClaimsOn
<1>3. Cardinality(C) >= 2
  BY WindowOfClaims
<1>4. Cardinality(D) >= 2
  <2>1. Cardinality(C) <= Cardinality(D)
    BY <1>1, <1>2, IdsFinite, FS_Subset
  <2> QED BY <1>2, <1>3, <2>1, IdsFinite
<1>5. Min(T) = Min(S)
  <2>1. C # {}
    BY <1>3, FS_EmptySet
  <2>2. S \in SUBSET Nat /\ S # {} /\ \A y \in S : y <= now
    BY <1>2, <2>1 DEF LifecycleTypes
  <2>3. T \in SUBSET Nat
    BY <1>1, <1>2 DEF LifecycleTypes, TypeInv, TypeOK
  <2>4. S \subseteq T /\ \A x \in T \ S : x = now
    BY <1>1
  <2> HIDE DEF S, T
  <2> QED BY <2>2, <2>3, <2>4, LeastStays
<1>6. WindowOf(Members(p)) = Min(S) .. Min(S) + Window - 1
  BY <1>3, WindowOfClaims
<1>7. WindowOf(Members(p))' = Min(T) .. Min(T) + Window - 1
  BY <1>4, WindowOfClaimsNext
<1> QED BY <1>5, <1>6, <1>7

\* One handler at a time: a window that has opened never moves and never closes early.
THEOREM WindowsNeverMove ==
  ASSUME Cardinality(Threads) = 1
  PROVE  LifecycleSpec => WindowNeverMoves
<1>1. LifecycleTypes /\ TypeInv /\ Serial /\ ClaimsHold /\ ClaimsHold' /\ [LifecycleNext]_lifecycleVars
        => [\A p \in Problems : WindowOf(Members(p)) # {}
                           => WindowOf(Members(p))' = WindowOf(Members(p))]_lifecycleVars
  BY WindowStays
<1> QED BY <1>1, LifecycleTypesInvariant, LifecycleRunsEngine, TypesInvariant, SerialInvariant,
           ClaimsInvariant, PTL DEF LifecycleSpec, WindowNeverMoves

\* An objection is inserted by a handler that checked it, now; none is withdrawn.
LEMMA ObjectionsGrow ==
  ASSUME LifecycleTypes, [LifecycleNext]_lifecycleVars, NEW p \in Problems
  PROVE  \/ objections'[p] = objections[p]
         \/ \E o \in Objectors :
              /\ objecting[o].step = "insert" /\ objecting[o].problem_id = p
              /\ ToSet(objections'[p]) = ToSet(objections[p]) \cup {ObjectionOf(objecting[o])}
              /\ UNCHANGED <<vars, latest_at>>
<1> SUFFICES ASSUME objections'[p] # objections[p]
             PROVE  \E o \in Objectors :
                      /\ objecting[o].step = "insert" /\ objecting[o].problem_id = p
                      /\ ToSet(objections'[p]) = ToSet(objections[p]) \cup {ObjectionOf(objecting[o])}
                      /\ UNCHANGED <<vars, latest_at>>
  OBVIOUS
<1>1. PICK o \in Objectors : InsertObjection(o)
  BY DEF LifecycleNext, lifecycleVars, CommitmentStep, StartObjection, ReadMembers, ReadClaims,
         CheckObjections
<1>2. PICK r \in Objecting : r = objecting[o] /\ r.step = "insert"
  BY <1>1, ObjectingKinds DEF InsertObjection
<1>3. PICK e : e = ObjectionOf(r)
  OBVIOUS
<1>4. objections' = [objections EXCEPT ![r.problem_id] = Append(@, e)]
  BY <1>1, <1>2, <1>3 DEF InsertObjection
<1>5. r.problem_id = p
  BY <1>4 DEF LifecycleTypes
<1>6. PICK c \in Seq(Objection) : c = objections[p]
  BY DEF LifecycleTypes
<1>7. PICK d : d = Append(c, e) /\ objections'[p] = d
  BY <1>4, <1>5, <1>6 DEF LifecycleTypes
<1>8. /\ DOMAIN d = DOMAIN c \cup {Len(c) + 1} /\ d[Len(c) + 1] = e
      /\ \A k \in DOMAIN c : d[k] = c[k]
  BY <1>7
<1>9. {d[k] : k \in DOMAIN d} = {c[k] : k \in DOMAIN c} \cup {e}
  BY <1>8
<1>10. ToSet(objections'[p]) = ToSet(objections[p]) \cup {e}
  BY <1>6, <1>7, <1>9 DEF ToSet
<1> QED BY <1>1, <1>2, <1>3, <1>5, <1>10 DEF InsertObjection

\* A verdict survives every step: a late objection falls outside the window.
LEMMA VerdictStays ==
  ASSUME LifecycleTypes, TypeInv, Serial, ClaimsHold, ClaimsHold',
         [LifecycleNext]_lifecycleVars, NEW p \in Problems, Status(p) \in {"resolved", "disputed"}
  PROVE  Status(p)' = Status(p)
<1> DEFINE W == WindowOf(Members(p))
<1>1. W # {}
  BY StatusIs
<1>2. WindowOf(Members(p))' = W
  BY <1>1, WindowStays
<1>3. /\ ToSet(objections[p]) \subseteq ToSet(objections'[p])
      /\ \A e \in ToSet(objections'[p]) : e \in ToSet(objections[p]) \/ e.raised_at = now
  BY ObjectionsGrow DEF ObjectionOf
<1>4. CASE Status(p) = "disputed"
  <2>1. PICK e \in ToSet(objections[p]) : e.raised_at \in W
    BY <1>4, StatusIs DEF Objected
  <2>2. {o \in ToSet(objections'[p]) : o.raised_at \in W} # {}
    BY <1>3, <2>1
  <2> QED BY <1>1, <1>2, <1>4, <2>2, StatusIsNext
<1>5. CASE Status(p) = "resolved"
  <2>1. now \notin W /\ \A e \in ToSet(objections[p]) : e.raised_at \notin W
    BY <1>5, StatusIs DEF Objected
  <2>2. {o \in ToSet(objections'[p]) : o.raised_at \in W} = {}
    BY <1>3, <2>1
  <2>3. now' \notin W
    <3>1. now \in Nat /\ now' \in Nat /\ now <= now'
      <4>1. [Next]_vars
        BY DEF LifecycleNext, lifecycleVars, CommitmentStep, StartObjection, ReadMembers,
               ReadClaims, CheckObjections, InsertObjection
      <4> QED BY <4>1, ClockMonotonic DEF TypeInv, TypeOK
    <3> DEFINE S == {latest_at[i] : i \in ClaimsOn(p)}
    <3>2. Cardinality(ClaimsOn(p)) >= 2 /\ W = Min(S) .. Min(S) + Window - 1
      BY <1>1, WindowOfClaims
    <3>3. ClaimsOn(p) # {} /\ ClaimsOn(p) \in SUBSET Ids
      <4>1. ClaimsOn(p) # {}
        <5>1. Cardinality({}) = 0
          BY FS_EmptySet
        <5>2. Cardinality(ClaimsOn(p)) >= 2
          BY <3>2
        <5> HIDE DEF W, S
        <5> QED BY <5>1, <5>2
      <4>2. ClaimsOn(p) \in SUBSET Ids
        BY DEF ClaimsOn
      <4> QED BY <4>1, <4>2
    <3>4. S \in SUBSET Nat /\ S # {} /\ \A x \in S : x <= now
      BY <3>3 DEF LifecycleTypes
    <3>5. Min(S) \in Nat /\ Min(S) <= now
      BY <3>4, Least
    <3> HIDE DEF S
    <3>6. now > Min(S) + Window - 1
      BY <2>1, <3>1, <3>2, <3>5, WindowAssumption
    <3> QED BY <3>1, <3>2, <3>5, <3>6, WindowAssumption
  <2> QED BY <1>1, <1>2, <1>5, <2>2, <2>3, StatusIsNext
<1> QED BY <1>4, <1>5

\* One handler at a time: a problem shown as resolved or disputed stays so.
THEOREM VerdictsAreFinal ==
  ASSUME Cardinality(Threads) = 1
  PROVE  LifecycleSpec => VerdictIsFinal
<1>1. LifecycleTypes /\ TypeInv /\ Serial /\ ClaimsHold /\ ClaimsHold' /\ [LifecycleNext]_lifecycleVars
        => [\A p \in Problems : Status(p) \in {"resolved", "disputed"}
                           => Status(p)' = Status(p)]_lifecycleVars
  BY VerdictStays
<1> QED BY <1>1, LifecycleTypesInvariant, LifecycleRunsEngine, TypesInvariant, SerialInvariant,
           ClaimsInvariant, PTL DEF LifecycleSpec, VerdictIsFinal

----------------------------------------------------------------------------
(* Objections follow claims *)

\* The claims on a problem that were there at a time.
ClaimsBy(p, n) == {i \in ClaimsOn(p) : latest_at[i] <= n}

\* A handler that may still object found two claims, which stay.
ObjectionInv ==
  /\ \A o \in Objectors, p \in Problems : objecting[o].problem_id = p =>
       /\ objecting[o].step = "claims" =>
            \A i \in objecting[o].members : Exists(i) /\ commitments[i].problem_id = p
       /\ objecting[o].step \in {"check", "insert"} => Cardinality(ClaimsOn(p)) >= 2
  /\ \A p \in Problems : \A e \in ToSet(objections[p]) : Cardinality(ClaimsBy(p, e.raised_at)) >= 2

LEMMA InitObjections == LifecycleInit => ObjectionInv
<1> SUFFICES ASSUME LifecycleInit PROVE ObjectionInv
  OBVIOUS
<1>1. \A o \in Objectors : objecting[o].step = "idle"
  BY DEF LifecycleInit, Idle
<1>2. \A p \in Problems : ToSet(objections[p]) = {}
  BY DEF LifecycleInit, ToSet
<1> QED BY <1>1, <1>2 DEF ObjectionInv

\* A commitment stays on its problem.
LEMMA ProblemStays ==
  ASSUME TypeInv, [Next]_vars, NEW i \in Ids, Exists(i)
  PROVE  commitments'[i] # NoRow /\ commitments'[i].problem_id = commitments[i].problem_id
<1>1. commitments'[i] # NoRow
  BY ExistsStays
<1>2. CASE commitments'[i] # commitments[i]
  <2>1. PICK t \in Threads : SaveCommitment(t) \/ InsertCommitment(t)
    BY <1>2 DEF Next, vars, Tick, StartCreate, CountSlots, RecordCreated, LoadCommitment,
                RecordCheckpoint, ReadReputation, WriteReputation, Fail
  <2>2. CASE SaveCommitment(t)
    <3>1. PICK j \in Ids, row \in Commitment :
             commitments' = [commitments EXCEPT ![j] = row]
             /\ row.problem_id = commitments[j].problem_id
      BY <2>2, SaveDoes
    <3> QED BY <1>1, <3>1 DEF TypeInv, TypeOK
  <2>3. CASE InsertCommitment(t)
    <3>1. PICK j \in Ids, row \in Commitment :
             ~Exists(j) /\ commitments' = [commitments EXCEPT ![j] = row]
      BY <2>3, InsertDoes
    <3> QED BY <1>1, <3>1 DEF TypeInv, TypeOK
  <2> QED BY <2>1, <2>2, <2>3
<1> QED BY <1>1, <1>2

\* Claims by some time are never fewer later.
LEMMA ClaimsByGrow ==
  ASSUME LifecycleTypes, TypeInv, Serial, ClaimsHold, [LifecycleNext]_lifecycleVars,
         NEW p \in Problems
  PROVE  /\ Cardinality(ClaimsOn(p)) >= 2 => Cardinality(ClaimsOn(p)') >= 2
         /\ \A n \in Nat : Cardinality(ClaimsBy(p, n)) >= 2 =>
              Cardinality({i \in ClaimsOn(p)' : latest_at'[i] <= n}) >= 2
<1>1. /\ ClaimsOn(p) \in SUBSET Ids /\ ClaimsOn(p)' \in SUBSET Ids
      /\ ClaimsOn(p) \subseteq ClaimsOn(p)'
      /\ \A i \in ClaimsOn(p) : latest_at'[i] = latest_at[i]
  BY ClaimsGrow DEF ClaimsOn
<1>2. ASSUME NEW S \in SUBSET Ids, NEW T \in SUBSET Ids, S \subseteq T, Cardinality(S) >= 2
      PROVE  Cardinality(T) >= 2
  <2>1. Cardinality(S) <= Cardinality(T)
    BY <1>2, IdsFinite, FS_Subset
  <2> QED BY <1>2, <2>1, IdsFinite
<1>3. ASSUME NEW n \in Nat
      PROVE  /\ ClaimsBy(p, n) \in SUBSET Ids
             /\ {i \in ClaimsOn(p)' : latest_at'[i] <= n} \in SUBSET Ids
             /\ ClaimsBy(p, n) \subseteq {i \in ClaimsOn(p)' : latest_at'[i] <= n}
  BY <1>1 DEF ClaimsBy
<1> QED BY <1>1, <1>2, <1>3

LEMMA NextObjections ==
  ASSUME LifecycleTypes, TypeInv, Serial, ClaimsHold, ObjectionInv, [LifecycleNext]_lifecycleVars
  PROVE  ObjectionInv'
<1>0. /\ now \in Nat /\ [Next]_vars
      /\ objecting \in [Objectors -> {Idle} \cup Asking \cup Reading \cup Objecting]
  BY DEF TypeInv, TypeOK, LifecycleTypes, LifecycleNext, lifecycleVars, CommitmentStep,
         StartObjection, ReadMembers, ReadClaims, CheckObjections, InsertObjection
<1>1. ASSUME NEW p \in Problems, NEW e \in ToSet(objections'[p])
      PROVE  Cardinality({i \in ClaimsOn(p)' : latest_at'[i] <= e.raised_at}) >= 2
  <2>1. CASE e \in ToSet(objections[p])
    <3>1. PICK k \in DOMAIN objections[p] : e = objections[p][k]
      BY <2>1 DEF ToSet
    <3>2. e.raised_at \in Nat
      <4>1. PICK c \in Seq(Objection) : c = objections[p]
        BY DEF LifecycleTypes
      <4>2. e \in Objection
        BY <3>1, <4>1
      <4> QED BY <4>2 DEF Objection
    <3> QED BY <2>1, <3>2, ClaimsByGrow DEF ObjectionInv
  <2>2. CASE e \notin ToSet(objections[p])
    <3>1. PICK o \in Objectors :
            /\ objecting[o].step = "insert" /\ objecting[o].problem_id = p
            /\ e = ObjectionOf(objecting[o])
      BY <2>2, ObjectionsGrow
    <3>2. e.raised_at = now
      BY <3>1 DEF ObjectionOf
    <3>3. Cardinality(ClaimsOn(p)) >= 2
      BY <3>1 DEF ObjectionInv
    <3>4. ClaimsBy(p, now) = ClaimsOn(p)
      BY DEF ClaimsBy, ClaimsOn, LifecycleTypes
    <3> QED BY <1>0, <3>2, <3>3, <3>4, ClaimsByGrow
  <2> QED BY <2>1, <2>2
<1>2. ASSUME NEW o \in Objectors, NEW p \in Problems, objecting'[o].problem_id = p
      PROVE  /\ objecting'[o].step = "claims" =>
                  \A i \in objecting'[o].members :
                    commitments'[i] # NoRow /\ commitments'[i].problem_id = p
             /\ objecting'[o].step \in {"check", "insert"} => Cardinality(ClaimsOn(p)') >= 2
  <2>1. CASE objecting'[o] = objecting[o]
    <3>1. ASSUME objecting[o].step = "claims", NEW i \in objecting[o].members
          PROVE  commitments'[i] # NoRow /\ commitments'[i].problem_id = p
      <4>1. objecting[o] \in Reading
        BY <3>1, ObjectingKinds
      <4>2. i \in Ids
        BY <3>1, <4>1 DEF Reading
      <4>3. Exists(i) /\ commitments[i].problem_id = p
        BY <1>2, <2>1, <3>1 DEF ObjectionInv
      <4> QED BY <1>0, <4>2, <4>3, ProblemStays
    <3>2. objecting[o].step \in {"check", "insert"} => Cardinality(ClaimsOn(p)') >= 2
      BY <1>2, <2>1, ClaimsByGrow DEF ObjectionInv
    <3> QED BY <2>1, <3>1, <3>2
  <2>2. CASE objecting'[o] # objecting[o]
    <3>1. \/ \E u \in Users, q \in Problems : StartObjection(o, u, q)
          \/ ReadMembers(o) \/ ReadClaims(o) \/ CheckObjections(o) \/ InsertObjection(o)
      BY <1>0, <2>2 DEF LifecycleNext, lifecycleVars, CommitmentStep, StartObjection, ReadMembers,
                        ReadClaims, CheckObjections, InsertObjection, GoOn
    <3>2. CASE \E u \in Users, q \in Problems : StartObjection(o, u, q)
      BY <1>0, <3>2 DEF StartObjection, GoOn
    <3>3. CASE InsertObjection(o)
      BY <1>0, <3>3 DEF InsertObjection, GoOn, Idle
    <3>4. CASE ReadMembers(o)
      <4>1. PICK r \in Asking : r = objecting[o]
        BY <3>4, ObjectingKinds DEF ReadMembers
      <4>2. /\ objecting'[o] = [step |-> "claims", user_id |-> r.user_id,
                               problem_id |-> r.problem_id, members |-> Members(r.problem_id)]
            /\ UNCHANGED vars
        BY <1>0, <3>4, <4>1 DEF ReadMembers, GoOn
      <4>3. r.problem_id = p /\ objecting'[o].members = Members(p) /\ objecting'[o].step = "claims"
        BY <1>2, <4>2
      <4> QED BY <4>2, <4>3 DEF Members, Exists, vars
    <3>5. CASE ReadClaims(o)
      <4>1. PICK r \in Reading : r = objecting[o] /\ r.step = "claims"
        BY <3>5, ObjectingKinds DEF ReadClaims
      <4>2. PICK w : w = WindowOf(r.members)
        OBVIOUS
      <4>3. /\ objecting'[o] = IF w = {} THEN Idle
                               ELSE [step |-> "check", user_id |-> r.user_id,
                                     problem_id |-> r.problem_id, window |-> w]
            /\ UNCHANGED vars
        BY <1>0, <3>5, <4>1, <4>2 DEF ReadClaims, GoOn
      <4>4. CASE w = {}
        BY <4>3, <4>4 DEF Idle
      <4>5. CASE w # {}
        <5>1. r.problem_id = p /\ objecting'[o].step = "check"
          BY <1>2, <4>3, <4>5
        <5>2. r.members \in SUBSET Ids /\ Claims(r.members) \in SUBSET Ids
          BY DEF Reading, Claims
        <5>3. Cardinality(Claims(r.members)) >= 2
          BY <4>2, <4>5, <5>2, WindowNeedsTwo
        <5>4. Claims(r.members) \subseteq ClaimsOn(p)
          BY <4>1, <5>1, <5>2 DEF ObjectionInv, Claims, ClaimsOn, Claimed
        <5>5. ClaimsOn(p) \in SUBSET Ids
          BY DEF ClaimsOn
        <5>6. Cardinality(Claims(r.members)) <= Cardinality(ClaimsOn(p))
          BY <5>2, <5>4, <5>5, IdsFinite, FS_Subset
        <5>7. Cardinality(ClaimsOn(p)) >= 2
          BY <5>2, <5>3, <5>5, <5>6, IdsFinite
        <5> QED BY <5>1, <5>7, ClaimsByGrow
      <4> QED BY <4>4, <4>5
    <3>6. CASE CheckObjections(o)
      <4>1. PICK r \in Objecting : r = objecting[o] /\ r.step = "check"
        BY <3>6, ObjectingKinds DEF CheckObjections
      <4>2. PICK q : q = [r EXCEPT !.step = "insert"]
        OBVIOUS
      <4>3. objecting'[o] = q \/ objecting'[o] = Idle
        BY <1>0, <3>6, <4>1, <4>2 DEF CheckObjections, GoOn
      <4>4. CASE objecting'[o] = Idle
        BY <4>4 DEF Idle
      <4>5. CASE objecting'[o] = q
        <5>1. r.problem_id = p /\ q.step = "insert"
          <6>1. q.step = "insert" /\ q.problem_id = r.problem_id
            BY <4>2 DEF Objecting
          <6> QED BY <1>2, <4>5, <6>1
        <5>2. Cardinality(ClaimsOn(p)) >= 2
          BY <4>1, <5>1 DEF ObjectionInv
        <5> QED BY <4>5, <5>1, <5>2, ClaimsByGrow
      <4> QED BY <4>3, <4>4, <4>5
    <3> QED BY <3>1, <3>2, <3>3, <3>4, <3>5, <3>6
  <2> QED BY <2>1, <2>2
<1> QED BY <1>1, <1>2 DEF ObjectionInv, Exists, ClaimsBy

\* One handler at a time: no objection precedes the resolution it is raised against.
THEOREM NoObjectionBeforeClaims ==
  ASSUME Cardinality(Threads) = 1
  PROVE  LifecycleSpec => []NoPrematureObjection
<1>1. ClaimsHold /\ ObjectionInv => NoPrematureObjection
  <2> SUFFICES ASSUME ClaimsHold, ObjectionInv, NEW p \in Problems, NEW e \in ToSet(objections[p])
               PROVE  Cardinality({i \in Claims(Members(p)) : latest_at[i] <= e.raised_at}) >= 2
    BY DEF NoPrematureObjection
  <2>1. Claims(Members(p)) = ClaimsOn(p)
    BY ClaimsAre
  <2> QED BY <2>1 DEF ObjectionInv, ClaimsBy
<1>2. LifecycleSpec => []ObjectionInv
  BY InitObjections, NextObjections, LifecycleTypesInvariant, LifecycleRunsEngine,
     TypesInvariant, SerialInvariant, ClaimsInvariant, PTL DEF LifecycleSpec
<1> QED BY <1>1, <1>2, LifecycleRunsEngine, ClaimsInvariant, PTL

----------------------------------------------------------------------------
(* Objections of one user *)

\* A handler that an objection of its user, made now, does not stop any more: it has
\* checked, or it does not know the window that the objection falls into.
Blind(o, u, p) ==
  LET r == objecting[o]
  IN  /\ r.step \in {"claims", "check", "insert"}
      /\ r.user_id = u /\ r.problem_id = p
      /\ r.step = "check" => r.window # WindowOf(Members(p))
      /\ r.step = "claims" => WindowOf(r.members) # WindowOf(Members(p))

\* Of all handlers, there is one for each objection that is there already, and another
\* for each that may come.
ObjectionRoom ==
  \A u \in Users, p \in Problems : Raised(u, p) # {} =>
    Cardinality(Raised(u, p)) + Cardinality({o \in Objectors : Blind(o, u, p)})
      <= Cardinality(Objectors)

\* The window of whichever members a handler has read stays, once it is open.
LEMMA ReadWindowStays ==
  ASSUME LifecycleTypes, TypeInv, Serial, ClaimsHold, [LifecycleNext]_lifecycleVars,
         NEW M \in SUBSET Ids, WindowOf(M) # {}
  PROVE  WindowOf(M)' = WindowOf(M)
<1> DEFINE C == Claims(M)
           D == Claims(M)'
           S == {latest_at[i] : i \in C}
           T == {latest_at'[i] : i \in D}
<1>1. C = {i \in M : Claimed(i)} /\ D = {i \in M : Claimed(i)'}
  BY DEF Claims, Claimed
<1>2. /\ C \subseteq D /\ \A i \in C : latest_at'[i] = latest_at[i]
      /\ \A i \in D : i \in C \/ latest_at'[i] = now
  <2>1. CASE CommitmentStep
    <3>1. [Next]_vars
      BY <2>1 DEF CommitmentStep
    <3>2. ASSUME NEW i \in C PROVE i \in D /\ latest_at'[i] = latest_at[i]
      <4>1. checkpoints'[i] = checkpoints[i]
        BY <1>1, <3>1, ClaimStays
      <4> QED BY <1>1, <2>1, <4>1 DEF Claimed, CommitmentStep
    <3>3. ASSUME NEW i \in D, i \notin C PROVE latest_at'[i] = now
      <4>1. checkpoints'[i] # checkpoints[i]
        BY <1>1, <3>3 DEF Claimed
      <4> QED BY <1>1, <2>1, <4>1 DEF CommitmentStep
    <3> QED BY <3>2, <3>3
  <2>2. CASE UNCHANGED <<vars, latest_at>>
    BY <1>1, <2>2 DEF vars, Claimed
  <2> QED BY <2>1, <2>2 DEF LifecycleNext, lifecycleVars, StartObjection, ReadMembers,
                            ReadClaims, CheckObjections, InsertObjection
<1>3. C \in SUBSET Ids /\ D \in SUBSET Ids /\ D \in SUBSET M
  BY <1>1
<1>4. Cardinality(C) >= 2 /\ ThresholdMet(Cardinality(C), Cardinality(M))
  BY WindowNeedsTwo DEF WindowOf
<1>5. ThresholdMet(Cardinality(D), Cardinality(M))
  <2>1. Cardinality(C) <= Cardinality(D) /\ Cardinality(D) <= Cardinality(M)
    BY <1>2, <1>3, IdsFinite, FS_Subset
  <2>2. Cardinality(D) >= 2
    BY <1>3, <1>4, <2>1, IdsFinite
  <2> QED BY <1>3, <2>1, <2>2, IdsFinite, TwoClaims
<1>6. Min(T) = Min(S)
  <2>1. C # {}
    BY <1>4, TwoAreSome
  <2>2. S \in SUBSET Nat /\ S # {} /\ \A y \in S : y <= now
    BY <1>3, <2>1 DEF LifecycleTypes
  <2>3. T \in SUBSET Nat
    BY <1>2, <1>3 DEF LifecycleTypes, TypeInv, TypeOK
  <2>4. S \subseteq T /\ \A x \in T \ S : x = now
    BY <1>2
  <2> HIDE DEF S, T
  <2> QED BY <2>2, <2>3, <2>4, LeastStays
<1>7. WindowOf(M) = Min(S) .. Min(S) + Window - 1
  BY <1>4 DEF WindowOf
<1>8. WindowOf(M)' = Min(T) .. Min(T) + Window - 1
  BY <1>5 DEF WindowOf
<1> QED BY <1>6, <1>7, <1>8

\* No objection is there before the window is.
LEMMA NoObjectionWithoutWindow ==
  ASSUME LifecycleTypes, ClaimsHold, ObjectionInv, NEW p \in Problems, objections[p] # <<>>
  PROVE  WindowOf(Members(p)) # {}
<1>1. PICK c \in Seq(Objection) : c = objections[p] /\ c # <<>>
  BY DEF LifecycleTypes
<1>2. c[1] \in Objection /\ c[1] \in ToSet(objections[p])
  BY <1>1 DEF ToSet
<1> DEFINE B == ClaimsBy(p, c[1].raised_at)
           C == ClaimsOn(p)
           S == {latest_at[i] : i \in C}
<1>3. Cardinality(B) >= 2 /\ B \in SUBSET C /\ C \in SUBSET Ids
  BY <1>2 DEF ObjectionInv, ClaimsBy, ClaimsOn
<1>4. Cardinality(C) >= 2
  <2>1. Cardinality(B) <= Cardinality(C)
    BY <1>3, IdsFinite, FS_Subset
  <2> QED BY <1>3, <2>1, IdsFinite
<1>5. WindowOf(Members(p)) = Min(S) .. Min(S) + Window - 1
  BY <1>4, WindowOfClaims
<1>6. S \in SUBSET Nat /\ S # {}
  <2>1. C # {}
    BY <1>4, TwoAreSome
  <2> QED BY <1>3, <2>1 DEF LifecycleTypes
<1>7. Min(S) \in Nat
  BY <1>6, Least
<1> HIDE DEF S
<1>8. Min(S) \in Min(S) .. Min(S) + Window - 1
  BY <1>7, WindowAssumption
<1> QED BY <1>5, <1>8

\* What a handler knows when it reads the claims or the objections.
LEMMA KnowsWindow ==
  ASSUME LifecycleTypes, TypeInv, Serial, ClaimsHold, ClaimsHold', ObjectionInv,
         [LifecycleNext]_lifecycleVars, NEW o \in Objectors, NEW u \in Users, NEW p \in Problems,
         Raised(u, p) # {}, Blind(o, u, p)'
  PROVE  Blind(o, u, p)
<1>0. /\ now \in Nat
      /\ objecting \in [Objectors -> {Idle} \cup Asking \cup Reading \cup Objecting]
  BY DEF TypeInv, TypeOK, LifecycleTypes
<1>w. PICK W : W = WindowOf(Members(p))
  OBVIOUS
<1>1. W # {} /\ WindowOf(Members(p))' = W
  <2>1. WindowOf(Members(p)) # {}
    BY DEF Raised
  <2> QED BY <1>w, <2>1, WindowStays
<1>b. /\ objecting'[o].step \in {"claims", "check", "insert"}
      /\ objecting'[o].user_id = u /\ objecting'[o].problem_id = p
      /\ objecting'[o].step = "check" => objecting'[o].window # W
  BY <1>1 DEF Blind
<1>2. CASE objecting'[o] = objecting[o]
  <2>1. CASE objecting[o].step = "claims"
    <3>1. PICK M \in SUBSET Ids : M = objecting[o].members
      BY <2>1, ObjectingKinds DEF Reading
    <3>2. WindowOf(M)' # W
      BY <1>1, <1>2, <2>1, <3>1 DEF Blind
    <3>3. WindowOf(M) # W
      BY <1>1, <3>2, ReadWindowStays
    <3> QED BY <1>b, <1>2, <1>w, <2>1, <3>1, <3>3 DEF Blind
  <2>2. CASE objecting[o].step # "claims"
    BY <1>b, <1>2, <1>w, <2>2 DEF Blind
  <2> QED BY <2>1, <2>2
<1>3. CASE objecting'[o] # objecting[o]
  <2>1. \/ \E v \in Users, q \in Problems : StartObjection(o, v, q)
        \/ ReadMembers(o) \/ ReadClaims(o) \/ CheckObjections(o) \/ InsertObjection(o)
    BY <1>0, <1>3 DEF LifecycleNext, lifecycleVars, CommitmentStep, StartObjection, ReadMembers,
                      ReadClaims, CheckObjections, InsertObjection, GoOn
  <2>2. CASE \E v \in Users, q \in Problems : StartObjection(o, v, q)
    BY <1>0, <1>b, <2>2 DEF StartObjection, GoOn
  <2>3. CASE InsertObjection(o)
    BY <1>0, <1>b, <2>3 DEF InsertObjection, GoOn, Idle
  <2>4. CASE ReadMembers(o)
    <3>1. PICK r \in Asking : r = objecting[o]
      BY <2>4, ObjectingKinds DEF ReadMembers
    <3>2. PICK M \in SUBSET Ids : M = Members(r.problem_id)
      BY DEF Members
    <3>3. /\ objecting'[o] = [step |-> "claims", user_id |-> r.user_id,
                             problem_id |-> r.problem_id, members |-> M]
          /\ UNCHANGED <<vars, latest_at>>
      BY <1>0, <2>4, <3>1, <3>2 DEF ReadMembers, GoOn
    <3>4. M = Members(p) /\ objecting'[o].members = M /\ objecting'[o].step = "claims"
      BY <1>b, <3>2, <3>3
    <3>5. WindowOf(M)' = W
      BY <1>1, <1>w, <3>4, ReadWindowStays
    <3> QED BY <1>1, <3>4, <3>5 DEF Blind
  <2>5. CASE ReadClaims(o)
    <3>1. PICK r \in Reading : r = objecting[o] /\ r.step = "claims"
      BY <2>5, ObjectingKinds DEF ReadClaims
    <3>2. PICK w : w = WindowOf(r.members)
      OBVIOUS
    <3>3. objecting'[o] = IF w = {} THEN Idle
                          ELSE [step |-> "check", user_id |-> r.user_id,
                                problem_id |-> r.problem_id, window |-> w]
      BY <1>0, <2>5, <3>1, <3>2 DEF ReadClaims, GoOn
    <3>4. w # {}
      BY <1>b, <3>3 DEF Idle
    <3>5. r.user_id = u /\ r.problem_id = p /\ w # W
      BY <1>b, <3>3, <3>4
    <3> QED BY <1>w, <3>1, <3>2, <3>5 DEF Blind
  <2>6. CASE CheckObjections(o)
    <3>1. PICK r \in Objecting : r = objecting[o] /\ r.step = "check"
      BY <2>6, ObjectingKinds DEF CheckObjections
    <3>2. objecting'[o] = IF MayObject(r) THEN [r EXCEPT !.step = "insert"] ELSE Idle
      BY <1>0, <2>6, <3>1 DEF CheckObjections, GoOn
    <3>3. MayObject(r)
      BY <1>b, <3>2 DEF Idle
    <3>4. r.user_id = u /\ r.problem_id = p
      BY <1>b, <3>2, <3>3 DEF Objecting
    <3>5. r.window # W
      <4> SUFFICES ASSUME r.window = W PROVE FALSE
        OBVIOUS
      <4>1. PICK k \in DOMAIN objections[p] :
              objections[p][k].user_id = u /\ objections[p][k].raised_at \in W
        BY <1>w DEF Raised
      <4>2. objections[p][k] \in ToSet(objections[p])
        BY <4>1 DEF ToSet
      <4> QED BY <3>3, <3>4, <4>1, <4>2 DEF MayObject, Objected
    <3> QED BY <1>w, <3>1, <3>4, <3>5 DEF Blind
  <2> QED BY <2>1, <2>2, <2>3, <2>4, <2>5, <2>6
<1> QED BY <1>2, <1>3

\* An objection more is that of a handler that is done.
LEMMA RaisedGrows ==
  ASSUME LifecycleTypes, TypeInv, Serial, ClaimsHold, ClaimsHold', ObjectionInv,
         [LifecycleNext]_lifecycleVars, NEW u \in Users, NEW p \in Problems
  PROVE  \/ Raised(u, p)' = Raised(u, p)
         \/ \E o \in Objectors, k \in Nat :
              /\ Blind(o, u, p) /\ ~Blind(o, u, p)'
              /\ k \notin Raised(u, p) /\ Raised(u, p)' = Raised(u, p) \cup {k}
<1>0. objecting \in [Objectors -> {Idle} \cup Asking \cup Reading \cup Objecting]
  BY DEF LifecycleTypes
<1>w. PICK W : W = WindowOf(Members(p))
  OBVIOUS
<1>1. CASE objections' = objections
  <2>1. CASE W = {}
    <3>1. objections[p] = <<>>
      BY <1>w, <2>1, NoObjectionWithoutWindow
    <3>2. DOMAIN objections[p] = {}
      BY <3>1
    <3> QED BY <1>1, <3>2 DEF Raised
  <2>2. CASE W # {}
    <3>1. WindowOf(Members(p))' = W
      BY <1>w, <2>2, WindowStays
    <3> QED BY <1>1, <1>w, <3>1 DEF Raised
  <2> QED BY <2>1, <2>2
<1>2. CASE objections' # objections
  <2>1. PICK o \in Objectors : InsertObjection(o)
    BY <1>2 DEF LifecycleNext, lifecycleVars, CommitmentStep, StartObjection, ReadMembers,
                ReadClaims, CheckObjections
  <2>2. PICK r \in Objecting : r = objecting[o] /\ r.step = "insert"
    BY <2>1, ObjectingKinds DEF InsertObjection
  <2>3. PICK e : e = ObjectionOf(r)
    OBVIOUS
  <2>4. /\ objections' = [objections EXCEPT ![r.problem_id] = Append(@, e)]
        /\ objecting'[o] = Idle /\ UNCHANGED <<vars, latest_at>>
    BY <1>0, <2>1, <2>2, <2>3 DEF InsertObjection, GoOn
  <2>5. e.user_id = r.user_id
    BY <2>3 DEF ObjectionOf
  <2>6. WindowOf(Members(p))' = W
    BY <1>w, <2>4 DEF WindowOf, Members, Claims, Exists, vars
  <2>7. CASE r.problem_id # p
    <3>1. objections'[p] = objections[p]
      BY <2>4, <2>7 DEF LifecycleTypes
    <3> QED BY <1>w, <2>6, <3>1 DEF Raised
  <2>8. CASE r.problem_id = p
    <3>1. PICK c \in Seq(Objection) : c = objections[p]
      BY DEF LifecycleTypes
    <3>2. PICK d : d = Append(c, e) /\ objections'[p] = d
      BY <2>4, <2>8, <3>1 DEF LifecycleTypes
    <3>3. PICK n \in Nat : n = Len(c) + 1
      BY <3>1
    <3>4. /\ DOMAIN d = DOMAIN c \cup {n} /\ d[n] = e /\ n \notin DOMAIN c
          /\ \A k \in DOMAIN c : d[k] = c[k]
      BY <3>2, <3>3
    <3>5. /\ Raised(u, p) = {k \in DOMAIN c : c[k].user_id = u /\ c[k].raised_at \in W}
          /\ Raised(u, p)' = {k \in DOMAIN d : d[k].user_id = u /\ d[k].raised_at \in W}
      BY <1>w, <2>6, <3>1, <3>2 DEF Raised
    <3>6. CASE r.user_id = u /\ e.raised_at \in W
      <4>1. n \notin Raised(u, p) /\ Raised(u, p)' = Raised(u, p) \cup {n}
        BY <2>5, <3>4, <3>5, <3>6
      <4>2. Blind(o, u, p) /\ ~Blind(o, u, p)'
        BY <2>2, <2>4, <2>8, <3>6 DEF Blind, Idle
      <4> QED BY <4>1, <4>2
    <3>7. CASE ~(r.user_id = u /\ e.raised_at \in W)
      BY <2>5, <3>4, <3>5, <3>7
    <3> QED BY <3>6, <3>7
  <2> QED BY <2>7, <2>8
<1> QED BY <1>1, <1>2

\* Objections are finitely many.
LEMMA RaisedFinite ==
  ASSUME LifecycleTypes, NEW u \in Users, NEW p \in Problems
  PROVE  IsFiniteSet(Raised(u, p))
<1>1. PICK c \in Seq(Objection) : c = objections[p]
  BY DEF LifecycleTypes
<1>2. Raised(u, p) \in SUBSET (1 .. Len(c)) /\ Len(c) \in Nat
  BY <1>1 DEF Raised
<1>3. IsFiniteSet(1 .. Len(c))
  BY <1>2, FS_Interval
<1> QED BY <1>2, <1>3, FS_Subset

\* ObjectionRoom is inductive.
LEMMA NextRoom ==
  ASSUME LifecycleTypes, LifecycleTypes', TypeInv, Serial, ClaimsHold, ClaimsHold', ObjectionInv,
         ObjectionRoom, [LifecycleNext]_lifecycleVars
  PROVE  ObjectionRoom'
<1> SUFFICES ASSUME NEW u \in Users, NEW p \in Problems, Raised(u, p)' # {}
             PROVE  Cardinality(Raised(u, p)') + Cardinality({o \in Objectors : Blind(o, u, p)'})
                      <= Cardinality(Objectors)
  BY DEF ObjectionRoom
<1> DEFINE K == Raised(u, p)
           B == {o \in Objectors : Blind(o, u, p)}
           C == {o \in Objectors : Blind(o, u, p)'}
<1>1. IsFiniteSet(K)
  BY RaisedFinite
<1>2. /\ IsFiniteSet(Objectors) /\ B \in SUBSET Objectors /\ C \in SUBSET Objectors
      /\ IsFiniteSet(B) /\ IsFiniteSet(C)
  BY WindowAssumption, FS_Subset
<1>3. /\ Cardinality(K) \in Nat /\ Cardinality(B) \in Nat /\ Cardinality(C) \in Nat
      /\ Cardinality(Objectors) \in Nat
  BY <1>1, <1>2, FS_CardinalityType
<1>4. K # {} => C \subseteq B /\ Cardinality(K) + Cardinality(B) <= Cardinality(Objectors)
  BY KnowsWindow DEF ObjectionRoom
<1>5. CASE Raised(u, p)' = K
  <2>1. C \in SUBSET B /\ Cardinality(K) + Cardinality(B) <= Cardinality(Objectors)
    BY <1>4, <1>5
  <2>2. Cardinality(C) <= Cardinality(B)
    BY <1>2, <2>1, FS_Subset
  <2> HIDE DEF K, B, C
  <2>3. Cardinality(K) + Cardinality(C) <= Cardinality(Objectors)
    BY <1>3, <2>1, <2>2
  <2> QED BY <1>5, <2>3 DEF K, C
<1>6. ASSUME NEW o \in Objectors, NEW k, o \in B, o \notin C, k \notin K,
             Raised(u, p)' = K \cup {k}
      PROVE  Cardinality(K \cup {k}) + Cardinality(C) <= Cardinality(Objectors)
  <2> DEFINE D == IF K = {} THEN Objectors ELSE B
  <2> HIDE DEF K, B, C
  <2>1. IsFiniteSet(D) /\ o \in D /\ C \in SUBSET (D \ {o})
    BY <1>2, <1>4, <1>6
  <2>2. IsFiniteSet(D \ {o}) /\ Cardinality(D \ {o}) = Cardinality(D) - 1
    BY <2>1, FS_RemoveElement
  <2>3. Cardinality(C) <= Cardinality(D \ {o})
    BY <2>1, <2>2, FS_Subset
  <2>4. Cardinality(K \cup {k}) = Cardinality(K) + 1
    BY <1>1, <1>6, FS_AddElement
  <2>5. Cardinality(K) + Cardinality(D) <= Cardinality(Objectors)
    <3>1. CASE K = {}
      BY <1>3, <3>1, FS_EmptySet
    <3>2. CASE K # {}
      BY <1>4, <3>2
    <3> QED BY <3>1, <3>2
  <2>6. Cardinality(D) \in Nat
    BY <2>1, FS_CardinalityType
  <2> HIDE DEF D
  <2> QED BY <1>3, <2>2, <2>3, <2>4, <2>5, <2>6
<1> HIDE DEF K, B, C
<1>7. CASE \E o \in Objectors, k \in Nat : o \in B /\ o \notin C /\ k \notin K /\ Raised(u, p)' = K \cup {k}
  <2>1. PICK o \in Objectors, k \in Nat :
          o \in B /\ o \notin C /\ k \notin K /\ Raised(u, p)' = K \cup {k}
    BY <1>7
  <2>2. Cardinality(K \cup {k}) + Cardinality(C) <= Cardinality(Objectors)
    BY <1>6, <2>1
  <2> QED BY <2>1, <2>2 DEF C
<1>8. Raised(u, p)' = K \/ \E o \in Objectors, k \in Nat :
        o \in B /\ o \notin C /\ k \notin K /\ Raised(u, p)' = K \cup {k}
  BY RaisedGrows DEF K, B, C
<1> QED BY <1>5, <1>7, <1>8 DEF C

\* One handler of the engine at a time, any number that object: a user objects to a
\* resolution at most as often as there are handlers that object at a time.
THEOREM ObjectionsAreBounded ==
  ASSUME Cardinality(Threads) = 1
  PROVE  LifecycleSpec => []ObjectionsBounded
<1>1. LifecycleInit => ObjectionRoom
  <2> SUFFICES ASSUME LifecycleInit PROVE \A u \in Users, p \in Problems : Raised(u, p) = {}
    BY DEF ObjectionRoom
  <2> QED BY DEF LifecycleInit, Raised
<1>2. LifecycleSpec => []ObjectionInv
  BY InitObjections, NextObjections, LifecycleTypesInvariant, LifecycleRunsEngine,
     TypesInvariant, SerialInvariant, ClaimsInvariant, PTL DEF LifecycleSpec
<1>3. LifecycleSpec => []ObjectionRoom
  <2>1. LifecycleTypes /\ LifecycleTypes' /\ TypeInv /\ Serial /\ ClaimsHold /\ ClaimsHold'
          /\ ObjectionInv /\ ObjectionRoom /\ [LifecycleNext]_lifecycleVars => ObjectionRoom'
    BY NextRoom
  <2> QED BY <1>1, <1>2, <2>1, LifecycleTypesInvariant, LifecycleRunsEngine,
             TypesInvariant, SerialInvariant, ClaimsInvariant, PTL DEF LifecycleSpec
<1>4. LifecycleTypes /\ ObjectionRoom => ObjectionsBounded
  <2> SUFFICES ASSUME LifecycleTypes, ObjectionRoom, NEW p \in Problems, NEW u \in Users
               PROVE  Cardinality(Raised(u, p)) <= Cardinality(Objectors)
    BY DEF ObjectionsBounded, Raised
  <2> DEFINE B == {o \in Objectors : Blind(o, u, p)}
  <2>1. IsFiniteSet(Objectors) /\ IsFiniteSet(B)
    BY WindowAssumption, FS_Subset
  <2>2. Cardinality(Objectors) \in Nat /\ Cardinality(B) \in Nat
    BY <2>1, FS_CardinalityType
  <2>3. CASE Raised(u, p) = {}
    BY <2>2, <2>3, FS_EmptySet
  <2>4. CASE Raised(u, p) # {}
    <3>1. Cardinality(Raised(u, p)) \in Nat
      BY RaisedFinite, FS_CardinalityType
    <3>2. Cardinality(Raised(u, p)) + Cardinality(B) <= Cardinality(Objectors)
      BY <2>4 DEF ObjectionRoom
    <3> QED BY <2>2, <3>1, <3>2
  <2> QED BY <2>3, <2>4
<1> QED BY <1>3, <1>4, LifecycleTypesInvariant, PTL

\* What the code says of itself is true as long as no two requests to object overlap:
\* a user objects to a resolution once.
THEOREM OneObjectionSerially ==
  ASSUME Cardinality(Threads) = 1, Cardinality(Objectors) = 1
  PROVE  LifecycleSpec => []OneObjection
<1>1. ObjectionsBounded => OneObjection
  BY DEF ObjectionsBounded, OneObjection
<1> QED BY <1>1, ObjectionsAreBounded, PTL

=============================================================================
