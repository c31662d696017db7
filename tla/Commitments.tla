---------------------------- MODULE Commitments ----------------------------
(***************************************************************************)
(* The commitment engine of backend-api: focus slots, the commitment lock, *)
(* the checkpoint audit trail and the reputation that checkpoints move.    *)
(*                                                                         *)
(* The two handlers (create_commitment and apply_checkpoint) run in the    *)
(* web framework's thread pool.  Each has a database session of its own    *)
(* and commits several transactions one after the other, without row       *)
(* locks, at the database's default isolation (READ COMMITTED).  A step of *)
(* this model is one database round trip of one handler, together with the *)
(* computation up to the next one; steps of different handlers interleave, *)
(* and a handler may die between two of them.  A request that the code     *)
(* rejects (an early return) has no effect, hence no step of its own,      *)
(* unless an earlier step of the same request put it under way.            *)
(***************************************************************************)
EXTENDS Integers, Sequences, FiniteSets

CONSTANTS
  Users,
  Problems,    \* rows of the problems table: never deleted, tier never changed
  Ids,         \* primary keys a commitment may draw (bounds the commitments)
  Threads,     \* handlers that may be in progress at the same time
  Tier,        \* the tier of each problem
  MaxActive,   \* MAX_ACTIVE_COMMITMENTS (3 in the code)
  LockPeriod,  \* LOCK_PERIOD_DAYS (90 in the code), in ticks of the clock
  MaxTime,     \* bound of the clock
  MaxFailures  \* bound of the commitments whose handler dies half way

Tiers == {"D", "C", "B", "A", "S"}

ASSUME TierAssumption == Tier \in [Problems -> Tiers]

ASSUME BoundAssumption ==
  /\ MaxActive \in Nat \ {0}
  /\ LockPeriod \in Nat
  /\ MaxTime \in Nat
  /\ MaxFailures \in Nat
  /\ IsFiniteSet(Ids)
  /\ IsFiniteSet(Threads)

VARIABLES
  commitments,  \* the commitments table, NoRow at an unused key
  checkpoints,  \* the audit rows of each commitment, in order of occurred_at
  reputation,   \* users.reputation
  now,          \* utcnow()
  requests,     \* what each handler is doing and the values it holds
  interrupted   \* history: commitments whose handler died half way

vars == <<commitments, checkpoints, reputation, now, requests, interrupted>>

----------------------------------------------------------------------------
(* Rows, events and requests *)

Terminal == {"resolved", "abandoned"}

Commitment ==
  [user_id : Users, problem_id : Problems, status : {"active"} \cup Terminal,
   started_at : Nat, lock_expires_at : Nat]

NoRow == [status |-> "none"]

EventType == {"created", "continued"} \cup Terminal

Action == {"resolve", "abandon", "continue"}

Idle == [step |-> "idle"]

\* A handler of create_commitment that has not inserted its row yet, and one
\* that still owes the audit row.
Creating == [step : {"count", "insert"}, user_id : Users, problem_id : Problems]
Created  == [step : {"record_created"}, user_id : Users, id : Ids]

\* A handler of apply_checkpoint, with the lock expiry a "continue" will write
\* and, at the end, the reputation it read.
Checkpointing ==
  [step : {"save", "record", "read_reputation", "write_reputation"},
   user_id : Users, id : Ids, action : Action, lock : Nat, seen : Int]

Request == {Idle} \cup Creating \cup Created \cup Checkpointing

Exists(i) == commitments[i] # NoRow

Active(u) ==
  {i \in Ids : Exists(i) /\ commitments[i].user_id = u /\ commitments[i].status = "active"}

ActiveOn(u, p) == {i \in Active(u) : commitments[i].problem_id = p}

\* Handler t goes on as r.
Proceed(t, r) == requests' = [requests EXCEPT ![t] = r]

Init ==
  /\ commitments = [i \in Ids |-> NoRow]
  /\ checkpoints = [i \in Ids |-> <<>>]
  /\ reputation = [u \in Users |-> 0]
  /\ now = 0
  /\ requests = [t \in Threads |-> Idle]
  /\ interrupted = {}

----------------------------------------------------------------------------
(* create_commitment.  A definition whose name starts with Bad is a fault  *)
(* put in the place of the one after it, to show that a property sees it.  *)

BadNotCommitted(u, p) == TRUE  \* the lookup is forgotten
\* The code fails the request as soon as one row, or more than one, is found.
NotCommitted(u, p) == ActiveOn(u, p) = {}

\* Off by one.
BadSlotFree(u) == Cardinality(Active(u)) <= MaxActive
SlotFree(u) == Cardinality(Active(u)) < MaxActive

\* The duplicate check is a query of its own...
StartCreate(t, u, p) ==
  /\ requests[t] = Idle
  /\ NotCommitted(u, p)
  /\ Proceed(t, [step |-> "count", user_id |-> u, problem_id |-> p])
  /\ UNCHANGED <<commitments, checkpoints, reputation, now, interrupted>>

\* ...and so is the slot count, which may reject the request.
CountSlots(t) ==
  /\ requests[t].step = "count"
  /\ Proceed(t, IF SlotFree(requests[t].user_id)
                THEN [requests[t] EXCEPT !.step = "insert"] ELSE Idle)
  /\ UNCHANGED <<commitments, checkpoints, reputation, now, interrupted>>

InsertCommitment(t) ==
  /\ requests[t].step = "insert"
  /\ \E i \in Ids :
       /\ ~Exists(i)
       /\ commitments' = [commitments EXCEPT ![i] =
            [user_id |-> requests[t].user_id, problem_id |-> requests[t].problem_id,
             status |-> "active", started_at |-> now,
             lock_expires_at |-> now + LockPeriod]]
       /\ Proceed(t, [step |-> "record_created", user_id |-> requests[t].user_id,
                      id |-> i])
  /\ UNCHANGED <<checkpoints, reputation, now, interrupted>>

RecordCreated(t) ==
  /\ requests[t].step = "record_created"
  /\ checkpoints' = [checkpoints EXCEPT ![requests[t].id] = Append(@, "created")]
  /\ Proceed(t, Idle)
  /\ UNCHANGED <<commitments, reputation, now, interrupted>>

----------------------------------------------------------------------------
(* apply_checkpoint *)

\* Off by one day.
BadLockExpired(row) == now + 1 >= row.lock_expires_at
LockExpired(row) == now >= row.lock_expires_at

\* One of the two checks is dropped.
BadMayCheckpointOwner(u, row) == row.status = "active"
BadMayCheckpointStatus(u, row) == row.user_id = u
MayCheckpoint(u, row) == row.user_id = u /\ row.status = "active"

\* The period is added twice.
BadLockAfter(a) == IF a = "continue" THEN now + 2 * LockPeriod ELSE 0
\* default_lock_expiry(), evaluated before the row is saved; other actions leave
\* the lock alone.
LockAfter(a) == IF a = "continue" THEN now + LockPeriod ELSE 0

\* The action stored in place of the status it leads to.
BadSavedRaw(row, r) == [row EXCEPT !.status = r.action]
\* A "continue" that writes the status it read back with the new lock.
BadSavedWhole(row, r) ==
  IF r.action = "continue"
  THEN [row EXCEPT !.status = "active", !.lock_expires_at = r.lock]
  ELSE [row EXCEPT !.status = IF r.action = "resolve" THEN "resolved" ELSE "abandoned"]
\* The UPDATE writes only the column the handler changed, over whatever the
\* row has become since the handler read it.
Saved(row, r) ==
  CASE r.action = "resolve"  -> [row EXCEPT !.status = "resolved"]
    [] r.action = "abandon"  -> [row EXCEPT !.status = "abandoned"]
    [] r.action = "continue" -> [row EXCEPT !.lock_expires_at = r.lock]

\* An action mapped to another one's event.
BadEventForAbandon(a) == IF a = "continue" THEN "continued" ELSE "resolved"
BadEventForContinue(a) == IF a = "abandon" THEN "abandoned" ELSE "resolved"
EventFor(a) ==
  CASE a = "resolve" -> "resolved" [] a = "abandon" -> "abandoned"
    [] a = "continue" -> "continued"

ResolveDelta == [D |-> 10, C |-> 20, B |-> 35, A |-> 60, S |-> 100]
AbandonDelta == [D |-> -15, C |-> -15, B |-> -20, A |-> -25, S |-> -30]

\* _reputation_delta_for
DeltaFor(a, p) ==
  CASE a = "resolve" -> ResolveDelta[Tier[p]] [] a = "abandon" -> AbandonDelta[Tier[p]]
    [] a = "continue" -> 0

\* Reads the row, checks owner, status and lock, and computes the new values.
LoadCommitment(t, u, i, a) ==
  /\ requests[t] = Idle
  /\ Exists(i)
  /\ MayCheckpoint(u, commitments[i])
  /\ LockExpired(commitments[i])
  /\ Proceed(t, [step |-> "save", user_id |-> u, id |-> i, action |-> a,
                 lock |-> LockAfter(a), seen |-> 0])
  /\ UNCHANGED <<commitments, checkpoints, reputation, now, interrupted>>

SaveCommitment(t) ==
  /\ requests[t].step = "save"
  /\ commitments' = [commitments EXCEPT ![requests[t].id] = Saved(@, requests[t])]
  /\ Proceed(t, [requests[t] EXCEPT !.step = "record"])
  /\ UNCHANGED <<checkpoints, reputation, now, interrupted>>

\* A zero delta skips the reputation update.
RecordCheckpoint(t) ==
  LET r == requests[t]
  IN  /\ r.step = "record"
      /\ checkpoints' = [checkpoints EXCEPT ![r.id] = Append(@, EventFor(r.action))]
      /\ Proceed(t, IF DeltaFor(r.action, commitments[r.id].problem_id) = 0 THEN Idle
                    ELSE [r EXCEPT !.step = "read_reputation"])
      /\ UNCHANGED <<commitments, reputation, now, interrupted>>

\* update_reputation: user.reputation += delta is a read...
ReadReputation(t) ==
  /\ requests[t].step = "read_reputation"
  /\ Proceed(t, [requests[t] EXCEPT !.step = "write_reputation",
                                    !.seen = reputation[requests[t].user_id]])
  /\ UNCHANGED <<commitments, checkpoints, reputation, now, interrupted>>

\* ...and an UPDATE to the absolute value computed from it.
WriteReputation(t) ==
  LET r == requests[t]
  IN  /\ r.step = "write_reputation"
      /\ reputation' = [reputation EXCEPT ![r.user_id] =
                          r.seen + DeltaFor(r.action, commitments[r.id].problem_id)]
      /\ Proceed(t, Idle)
      /\ UNCHANGED <<commitments, checkpoints, now, interrupted>>

----------------------------------------------------------------------------
(* Failure, time and the specification *)

\* A handler has written something and still has something to write.
HalfDone(t) ==
  requests[t].step \in {"record_created", "record", "read_reputation", "write_reputation"}

\* The handler dies: its open transaction is rolled back, what it committed stays.
Fail(t) ==
  /\ requests[t] # Idle
  /\ Proceed(t, Idle)
  /\ interrupted' = IF HalfDone(t) THEN interrupted \cup {requests[t].id} ELSE interrupted
  /\ Cardinality(interrupted') <= MaxFailures
  /\ UNCHANGED <<commitments, checkpoints, reputation, now>>

Tick ==
  /\ now < MaxTime
  /\ now' = now + 1
  /\ UNCHANGED <<commitments, checkpoints, reputation, requests, interrupted>>

Next ==
  \/ Tick
  \/ \E t \in Threads :
       \/ \E u \in Users, p \in Problems : StartCreate(t, u, p)
       \/ CountSlots(t)
       \/ InsertCommitment(t)
       \/ RecordCreated(t)
       \/ \E u \in Users, i \in Ids, a \in Action : LoadCommitment(t, u, i, a)
       \/ SaveCommitment(t)
       \/ RecordCheckpoint(t)
       \/ ReadReputation(t)
       \/ WriteReputation(t)
       \/ Fail(t)

Spec == Init /\ [][Next]_vars

----------------------------------------------------------------------------
(* Properties; all but SlotLimit hold whatever the interleaving *)

TypeOK ==
  /\ commitments \in [Ids -> Commitment \cup {NoRow}]
  /\ checkpoints \in [Ids -> Seq(EventType)]
  /\ reputation \in [Users -> Int]
  /\ now \in Nat
  /\ requests \in [Threads -> Request]
  /\ interrupted \in SUBSET Ids

\* "A user can have at most 3 ACTIVE commitments", hard-blocked.  This one holds
\* when requests do not overlap, and not otherwise.
SlotLimit == \A u \in Users : Cardinality(Active(u)) <= MaxActive

\* The slot check and the insert are separate transactions, so requests that
\* passed the check together all insert.  What the code guarantees is that each
\* handler running beside the first overshoots the limit by at most one slot.
SlotOverrunBounded ==
  \A u \in Users : Cardinality(Active(u)) <= MaxActive + Cardinality(Threads) - 1

\* A resolved or abandoned commitment never becomes active again, also when a
\* "continue" that read it as active is saved after it ended.
TerminalStaysTerminal ==
  [][\A i \in Ids : commitments[i].status \in Terminal
                      => commitments'[i].status \in Terminal]_vars

\* No interleaving ends a commitment before its first lock period has passed.
NoExitBeforeFirstLock ==
  \A i \in Ids : commitments[i].status \in Terminal
                  => now >= commitments[i].started_at + LockPeriod

Busy(i) == \E t \in Threads : HalfDone(t) /\ requests[t].id = i

Recorded(i) == {checkpoints[i][k] : k \in DOMAIN checkpoints[i]}

\* Every transition writes its audit row: a commitment on which no handler is at
\* work, and whose handlers all ran to their end, has a row for its creation and
\* one for the terminal status it is in.
AuditTrailComplete ==
  \A i \in Ids : Exists(i) /\ ~Busy(i) /\ i \notin interrupted
    => ({"created", commitments[i].status} \ {"active"}) \subseteq Recorded(i)

\* The audit trail never runs ahead of the commitment: a terminal event is
\* recorded only for a commitment that has ended, any event only for one that
\* exists.
NoEventWithoutTransition ==
  \A i \in Ids :
    /\ Recorded(i) # {} => Exists(i)
    /\ Recorded(i) \cap Terminal # {} => commitments[i].status \in Terminal

=============================================================================
