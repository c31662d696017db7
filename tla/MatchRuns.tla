------------------------------ MODULE MatchRuns ------------------------------
(***************************************************************************)
(* Matching an RFP with solutions: backend-api inserts a match run and     *)
(* enqueues a job for it; workers of ai-coordinator-worker take jobs from  *)
(* the queue, compute the matches from the catalog as it is by then and    *)
(* store them; backend-api shows the matches of one completed run.         *)
(*                                                                         *)
(* Runs are numbered in the order in which they were inserted, which is    *)
(* the order of their started_at.  The catalog (requirements, attributes,  *)
(* embeddings) is represented by a version that every edit increments.     *)
(* The queue is not durable, and a job taken from it is never put back.    *)
(***************************************************************************)
EXTENDS Integers, Sequences, FiniteSets, SequencesExt

CONSTANTS
  Rfps,
  Handlers,    \* trigger requests that may be in progress at the same time
  Workers,
  MaxRuns,     \* bound of the match_runs rows
  MaxVersion,  \* bound of the edits of the catalog
  MaxLost      \* a fault happens only while fewer jobs than this are lost

ASSUME MatchRunsAssumption == MaxRuns \in Nat /\ MaxVersion \in Nat /\ MaxLost \in Nat

VARIABLES
  match_runs,
  catalog,   \* the version of what matching reads
  queue,     \* the marketplace-matching queue: numbers of runs
  triggers,  \* the run that each trigger request has yet to enqueue, 0 for none
  workers,   \* what each worker is doing
  finished,  \* history: completed runs in the order of completed_at
  lost       \* history: runs whose job a fault has destroyed

vars == <<match_runs, catalog, queue, triggers, workers, finished, lost>>

Idle == [step |-> "idle"]

Runs == DOMAIN match_runs

Work(w, r) == workers' = [workers EXCEPT ![w] = r]

Init ==
  /\ match_runs = <<>> /\ catalog = 0 /\ queue = <<>>
  /\ triggers = [h \in Handlers |-> 0]
  /\ workers = [w \in Workers |-> Idle]
  /\ finished = <<>> /\ lost = {}

----------------------------------------------------------------------------
(* backend-api: edits, and trigger_match_run *)

Edit ==
  /\ catalog < MaxVersion
  /\ catalog' = catalog + 1
  /\ UNCHANGED <<match_runs, queue, triggers, workers, finished, lost>>

AddMatchRun(h, f) ==
  /\ triggers[h] = 0
  /\ Len(match_runs) < MaxRuns
  /\ match_runs' = Append(match_runs, [rfp_id |-> f, status |-> "pending",
                                       asked |-> catalog, seen |-> 0, matches |-> 0])
  /\ triggers' = [triggers EXCEPT ![h] = Len(match_runs) + 1]
  /\ UNCHANGED <<catalog, queue, workers, finished, lost>>

Enqueue(h) ==
  /\ triggers[h] # 0
  /\ queue' = Append(queue, triggers[h])
  /\ triggers' = [triggers EXCEPT ![h] = 0]
  /\ UNCHANGED <<match_runs, catalog, workers, finished, lost>>

----------------------------------------------------------------------------
(* run_matching_job *)

\* The job stays in the queue while it is worked on.
BadRemaining(q) == q
Remaining(q) == Tail(q)

Dequeue(w) ==
  /\ workers[w] = Idle
  /\ queue # <<>>
  /\ queue' = Remaining(queue)
  /\ Work(w, [step |-> "mark_running", run |-> Head(queue)])
  /\ UNCHANGED <<match_runs, catalog, triggers, finished, lost>>

MarkRunning(w) ==
  /\ workers[w].step = "mark_running"
  /\ match_runs' = [match_runs EXCEPT ![workers[w].run].status = "running"]
  /\ Work(w, [step |-> "fetch", run |-> workers[w].run])
  /\ UNCHANGED <<catalog, queue, triggers, finished, lost>>

\* The worker reads a replica that lags behind.
BadCatalogRead == IF catalog = 0 THEN 0 ELSE catalog - 1
\* The first of the job's queries; the later ones may see a newer catalog.
CatalogRead == catalog

Fetch(w) ==
  /\ workers[w].step = "fetch"
  /\ Work(w, [step |-> "store", run |-> workers[w].run, seen |-> CatalogRead])
  /\ UNCHANGED <<match_runs, catalog, queue, triggers, finished, lost>>

\* The matches and the new status are one commit.
StoreMatches(w) ==
  LET j == workers[w]
  IN  /\ j.step = "store"
      /\ match_runs' = [match_runs EXCEPT ![j.run].status = "completed",
                                          ![j.run].seen = j.seen,
                                          ![j.run].matches = @ + 1]
      /\ finished' = Append(finished, j.run)
      /\ Work(w, Idle)
      /\ UNCHANGED <<catalog, queue, triggers, lost>>

\* The failure is not recorded; the inserted matches are not rolled back.
BadFailedSilently(run) == run
BadFailedHalfWay(run) == [run EXCEPT !.status = "failed", !.matches = @ + 1]
Failed(run) == [run EXCEPT !.status = "failed"]

\* Any exception: roll back, mark the run, let the queue library see the failure.
FailRun(w) ==
  /\ workers[w].step \in {"fetch", "store"}
  /\ match_runs' = [match_runs EXCEPT ![workers[w].run] = Failed(@)]
  /\ Work(w, Idle)
  /\ UNCHANGED <<catalog, queue, triggers, finished, lost>>

----------------------------------------------------------------------------
(* Faults *)

\* The queue cannot be reached, or the request dies before it enqueues.
EnqueueFails(h) ==
  /\ triggers[h] # 0
  /\ Cardinality(lost) < MaxLost
  /\ lost' = lost \cup {triggers[h]}
  /\ triggers' = [triggers EXCEPT ![h] = 0]
  /\ UNCHANGED <<match_runs, catalog, queue, workers, finished>>

\* The broker restarts; it has no volume.
LoseQueue ==
  /\ queue # <<>>
  /\ Cardinality(lost) < MaxLost
  /\ lost' = lost \cup ToSet(queue)
  /\ queue' = <<>>
  /\ UNCHANGED <<match_runs, catalog, triggers, workers, finished>>

\* A worker dies; its open transaction is rolled back.
Crash(w) ==
  /\ workers[w] # Idle
  /\ Cardinality(lost) < MaxLost
  /\ lost' = lost \cup {workers[w].run}
  /\ Work(w, Idle)
  /\ UNCHANGED <<match_runs, catalog, queue, triggers, finished>>

----------------------------------------------------------------------------

Job(w) ==
  Dequeue(w) \/ MarkRunning(w) \/ Fetch(w) \/ StoreMatches(w) \/ FailRun(w)

Next ==
  \/ Edit
  \/ LoseQueue
  \/ \E h \in Handlers :
       \/ \E f \in Rfps : AddMatchRun(h, f)
       \/ Enqueue(h)
       \/ EnqueueFails(h)
  \/ \E w \in Workers : Job(w) \/ Crash(w)

\* A request that has started runs on, and so does a worker: it listens for good,
\* and a job is cut off by its timeout, which is an exception like any other.
Fairness ==
  /\ \A h \in Handlers : WF_vars(Enqueue(h) \/ EnqueueFails(h))
  /\ \A w \in Workers : WF_vars(Job(w))

Spec == Init /\ [][Next]_vars /\ Fairness

----------------------------------------------------------------------------
(* Properties *)

Terminal == {"completed", "failed"}

Completed(f) == {r \in Runs : match_runs[r].rfp_id = f /\ match_runs[r].status = "completed"}

\* The run completed last, in the place of the one started last.
BadShown(f) ==
  LET done == SelectSeq(finished, LAMBDA r : match_runs[r].rfp_id = f)
  IN  IF done = <<>> THEN 0 ELSE Last(done)
\* get_latest_completed_run: the run whose matches are shown, 0 for none.
Shown(f) == Max({0} \cup Completed(f))

\* A run that an older request started never replaces the matches of a newer one,
\* in whatever order the workers complete them.
ShownAdvances == [][\A f \in Rfps : Shown(f)' >= Shown(f)]_vars

\* The matches shown were computed after the run was asked for: what was edited
\* before the request is taken into account.
ShownIsFresh ==
  \A f \in Rfps : Shown(f) # 0 => match_runs[Shown(f)].seen >= match_runs[Shown(f)].asked

\* A run that has ended is never touched again, whatever jobs are still about.
EndsOnce ==
  [][\A r \in Runs : match_runs[r].status \in Terminal
                       => match_runs'[r] = match_runs[r]]_vars

\* Whatever fails before the matches are committed: a run has one batch of them if it
\* completed and none otherwise.
AllOrNothing ==
  \A r \in Runs :
    match_runs[r].matches = IF match_runs[r].status = "completed" THEN 1 ELSE 0

\* Every run ends, as completed or failed, unless a fault destroyed its job: such
\* a run stays pending or running for good, as nothing enqueues it again.
EveryRunEndsOrIsLost ==
  \A r \in 1 .. MaxRuns :
    (r \in Runs) ~> (r \in lost \/ (r \in Runs /\ match_runs[r].status \in Terminal))

=============================================================================
