-------------------------- MODULE MatchRuns_proofs --------------------------
(***************************************************************************)
(* Theorems about match runs, for any number of RFPs, trigger requests,    *)
(* workers, runs, edits and lost jobs.                                     *)
(***************************************************************************)
EXTENDS MatchRuns, WellFoundedInduction, TLAPS

MatchRun == [rfp_id : Rfps, status : {"pending", "running", "completed", "failed"},
             asked : Nat, seen : Nat, matches : Nat]

Starting == [step : {"mark_running", "fetch"}, run : Nat]

Storing == [step : {"store"}, run : Nat, seen : Nat]

Types ==
  /\ match_runs \in Seq(MatchRun)
  /\ catalog \in Nat
  /\ queue \in Seq(Nat)
  /\ triggers \in [Handlers -> Nat]
  /\ workers \in [Workers -> {Idle} \cup Starting \cup Storing]

----------------------------------------------------------------------------
(* Every run has at most one job: at a trigger, in the queue or at a worker *)

Open(r) == r \in Runs /\ match_runs[r].status \in {"pending", "running"}

JobsAreOpen ==
  /\ \A h \in Handlers : triggers[h] # 0 => Open(triggers[h])
  /\ \A i \in DOMAIN queue : Open(queue[i])
  /\ \A w \in Workers : workers[w] # Idle => Open(workers[w].run)

OneTrigger ==
  \A h \in Handlers : triggers[h] # 0 =>
    /\ \A g \in Handlers \ {h} : triggers[g] # triggers[h]
    /\ \A i \in DOMAIN queue : queue[i] # triggers[h]

OneInQueue == \A i, j \in DOMAIN queue : i # j => queue[i] # queue[j]

OneWorker ==
  \A w \in Workers : workers[w] # Idle =>
    /\ \A h \in Handlers : triggers[h] # workers[w].run
    /\ \A i \in DOMAIN queue : queue[i] # workers[w].run
    /\ \A v \in Workers \ {w} : workers[v] # Idle => workers[v].run # workers[w].run

OneJob == JobsAreOpen /\ OneTrigger /\ OneInQueue /\ OneWorker

\* What was seen is not older than the request.
AskedBefore == \A r \in Runs : match_runs[r].asked <= catalog

SeenAfter ==
  \A r \in Runs : match_runs[r].status = "completed" => match_runs[r].seen >= match_runs[r].asked

FreshWorkers ==
  \A w \in Workers : workers[w] \in Storing => workers[w].seen >= match_runs[workers[w].run].asked

Fresh == AskedBefore /\ SeenAfter /\ FreshWorkers

RunInv == Types /\ OneJob /\ Fresh /\ AllOrNothing

\* The step of a worker tells what it holds.
LEMMA WorkerKinds ==
  ASSUME Types, NEW w \in Workers
  PROVE  /\ workers[w].step \in {"mark_running", "fetch"} => workers[w] \in Starting
         /\ workers[w].step = "store" => workers[w] \in Storing
         /\ workers[w].step \in {"mark_running", "fetch", "store"} => workers[w] # Idle
         /\ workers[w] # Idle => workers[w].run \in Nat
BY DEF Types, Idle, Starting, Storing

\* RunInv holds initially.
LEMMA InitRuns == Init => RunInv
<1> SUFFICES ASSUME Init PROVE RunInv
  OBVIOUS
<1>1. Types
  BY DEF Init, Types
<1>2. OneJob
  BY DEF Init, OneJob, JobsAreOpen, OneTrigger, OneInQueue, OneWorker
<1>3. Fresh
  BY DEF Init, Fresh, AskedBefore, SeenAfter, FreshWorkers, Runs, Idle, Storing
<1>4. AllOrNothing
  BY DEF Init, AllOrNothing, Runs
<1> QED BY <1>1, <1>2, <1>3, <1>4 DEF RunInv

\* An edit of the catalog changes neither runs nor jobs.
LEMMA EditKeeps == ASSUME RunInv, Edit PROVE RunInv'
<1>1. catalog' = catalog + 1 /\ catalog \in Nat
  BY DEF Edit, RunInv, Types
<1>2. Types'
  BY <1>1 DEF Edit, RunInv, Types
<1>3. OneJob'
  BY DEF Edit, RunInv, OneJob, JobsAreOpen, OneTrigger, OneInQueue, OneWorker, Open, Runs
<1>4. \A r \in Runs : match_runs[r].asked \in Nat
  <2>1. \A r \in Runs : match_runs[r] \in MatchRun
    BY DEF RunInv, Types, Runs
  <2> QED BY <2>1 DEF MatchRun
<1>5. AskedBefore' /\ SeenAfter'
  <2>1. AskedBefore'
    BY <1>1, <1>4 DEF Edit, RunInv, Fresh, AskedBefore, Runs
  <2>2. SeenAfter'
    BY DEF Edit, RunInv, Fresh, SeenAfter, Runs
  <2> QED BY <2>1, <2>2
<1>6. FreshWorkers' /\ AllOrNothing'
  BY DEF Edit, RunInv, Fresh, FreshWorkers, AllOrNothing, Runs
<1> QED BY <1>2, <1>3, <1>5, <1>6 DEF RunInv, Fresh

\* A new run, which is pending, has its only job at its trigger.
LEMMA AddMatchRunKeeps ==
  ASSUME RunInv, NEW h \in Handlers, NEW f \in Rfps, AddMatchRun(h, f)
  PROVE  RunInv'
<1> DEFINE row == [rfp_id |-> f, status |-> "pending", asked |-> catalog, seen |-> 0, matches |-> 0]
<1>1. PICK n : n = Len(match_runs) + 1
  OBVIOUS
<1>2. /\ row \in MatchRun /\ row.status = "pending" /\ row.asked = catalog /\ row.matches = 0
      /\ catalog \in Nat
  BY DEF MatchRun, RunInv, Types
<1>3. match_runs' = Append(match_runs, row) /\ match_runs \in Seq(MatchRun)
  BY DEF AddMatchRun, RunInv, Types
<1> HIDE DEF row
<1>4. /\ match_runs' \in Seq(MatchRun) /\ n \in Nat /\ n # 0 /\ n \notin Runs
      /\ Runs' = Runs \cup {n} /\ match_runs'[n] = row
      /\ \A r \in Runs : match_runs'[r] = match_runs[r]
  BY <1>1, <1>2, <1>3 DEF Runs
<1>5. /\ UNCHANGED <<catalog, queue, workers>>
      /\ triggers' = [triggers EXCEPT ![h] = n]
  BY <1>1 DEF AddMatchRun
<1>6. triggers' \in [Handlers -> Nat] /\ triggers'[h] = n /\ \A g \in Handlers \ {h} : triggers'[g] = triggers[g]
  BY <1>4, <1>5 DEF RunInv, Types
<1>7. Types'
  BY <1>4, <1>5, <1>6 DEF RunInv, Types
<1>8. /\ n \in Runs' /\ match_runs'[n].status \in {"pending", "running"}
      /\ \A r : Open(r) => r \in Runs' /\ match_runs'[r].status \in {"pending", "running"}
  BY <1>2, <1>4 DEF Open
<1>9. /\ \A g \in Handlers : triggers[g] # n
      /\ \A i \in DOMAIN queue : queue[i] # n
      /\ \A w \in Workers : workers[w] # Idle => workers[w].run # n
  BY <1>4 DEF RunInv, OneJob, JobsAreOpen, Open
<1>10. OneJob'
  <2>1. JobsAreOpen'
    <3>1. \A g \in Handlers : triggers'[g] # 0 => triggers'[g] = n \/ Open(triggers'[g])
      BY <1>6 DEF RunInv, OneJob, JobsAreOpen
    <3> QED BY <1>5, <1>8, <3>1 DEF RunInv, OneJob, JobsAreOpen, Open
  <2>2. OneTrigger' /\ OneInQueue' /\ OneWorker'
    BY <1>5, <1>6, <1>9 DEF RunInv, OneJob, OneTrigger, OneInQueue, OneWorker
  <2> QED BY <2>1, <2>2 DEF OneJob
<1>11. AskedBefore' /\ SeenAfter'
  BY <1>2, <1>4, <1>5 DEF RunInv, Fresh, AskedBefore, SeenAfter
<1>12. FreshWorkers'
  <2>1. \A w \in Workers : workers[w] \in Storing => workers[w].run \in Runs
    BY DEF RunInv, OneJob, JobsAreOpen, Open, Idle, Storing
  <2> QED BY <1>4, <1>5, <2>1 DEF RunInv, Fresh, FreshWorkers, Storing
<1>13. AllOrNothing'
  BY <1>2, <1>4 DEF RunInv, AllOrNothing
<1> QED BY <1>7, <1>10, <1>11, <1>12, <1>13 DEF RunInv, Fresh

\* The job moves from its trigger to the queue.
LEMMA EnqueueKeeps == ASSUME RunInv, NEW h \in Handlers, Enqueue(h) PROVE RunInv'
<1>1. PICK n : n = triggers[h]
  OBVIOUS
<1>2. /\ queue' = Append(queue, n) /\ queue \in Seq(Nat) /\ n \in Nat /\ n # 0
      /\ UNCHANGED <<match_runs, catalog, workers>>
  BY <1>1 DEF Enqueue, RunInv, Types
<1>3. triggers' \in [Handlers -> Nat] /\ triggers'[h] = 0 /\ \A g \in Handlers \ {h} : triggers'[g] = triggers[g]
  BY DEF Enqueue, RunInv, Types
<1>4. /\ queue' \in Seq(Nat)
      /\ DOMAIN queue' = DOMAIN queue \cup {Len(queue) + 1} /\ Len(queue) + 1 \notin DOMAIN queue
      /\ queue'[Len(queue) + 1] = n /\ \A i \in DOMAIN queue : queue'[i] = queue[i]
  BY <1>2
<1>5. Types'
  BY <1>2, <1>3, <1>4 DEF RunInv, Types
<1>6. JobsAreOpen'
  BY <1>1, <1>2, <1>3, <1>4 DEF RunInv, OneJob, JobsAreOpen, Open, Runs
<1>7. OneTrigger'
  <2> SUFFICES ASSUME NEW g \in Handlers, triggers'[g] # 0
               PROVE  /\ \A k \in Handlers \ {g} : triggers'[k] # triggers'[g]
                      /\ \A i \in DOMAIN queue' : queue'[i] # triggers'[g]
    BY DEF OneTrigger
  <2>1. g # h /\ triggers'[g] = triggers[g] /\ triggers[g] # 0
    BY <1>3
  <2>2. n # triggers[g] /\ \A i \in DOMAIN queue : queue[i] # triggers[g]
    BY <1>1, <2>1 DEF RunInv, OneJob, OneTrigger
  <2>3. \A k \in Handlers \ {g} : triggers'[k] # triggers'[g]
    BY <1>3, <2>1 DEF RunInv, OneJob, OneTrigger
  <2> QED BY <1>4, <2>1, <2>2, <2>3
<1>8. OneInQueue'
  BY <1>1, <1>2, <1>4 DEF RunInv, OneJob, OneTrigger, OneInQueue
<1>9. OneWorker'
  <2> SUFFICES ASSUME NEW v \in Workers, workers[v] # Idle
               PROVE  /\ \A k \in Handlers : triggers'[k] # workers[v].run
                      /\ \A i \in DOMAIN queue' : queue'[i] # workers[v].run
                      /\ \A u \in Workers \ {v} : workers[u] # Idle => workers[u].run # workers[v].run
    BY <1>2 DEF OneWorker
  <2>1. /\ \A k \in Handlers : triggers[k] # workers[v].run
        /\ \A i \in DOMAIN queue : queue[i] # workers[v].run
        /\ \A u \in Workers \ {v} : workers[u] # Idle => workers[u].run # workers[v].run
    BY DEF RunInv, OneJob, OneWorker
  <2>2. workers[v].run # 0
    BY DEF RunInv, OneJob, JobsAreOpen, Open, Runs, Types
  <2> QED BY <1>1, <1>3, <1>4, <2>1, <2>2
<1>10. Fresh' /\ AllOrNothing'
  BY <1>2 DEF RunInv, Fresh, AskedBefore, SeenAfter, FreshWorkers, AllOrNothing, Runs
<1> QED BY <1>5, <1>6, <1>7, <1>8, <1>9, <1>10 DEF RunInv, OneJob

\* The first job of the queue moves to a worker that was idle.
LEMMA DequeueKeeps == ASSUME RunInv, NEW w \in Workers, Dequeue(w) PROVE RunInv'
<1>1. PICK n : n = Head(queue)
  OBVIOUS
<1>2. /\ queue' = Tail(queue) /\ queue \in Seq(Nat) /\ queue # <<>>
      /\ UNCHANGED <<match_runs, catalog, triggers>>
  BY DEF Dequeue, Remaining, RunInv, Types
<1>3. /\ queue' \in Seq(Nat) /\ n \in Nat /\ 1 \in DOMAIN queue /\ queue[1] = n
      /\ \A i \in DOMAIN queue' : i + 1 \in DOMAIN queue /\ queue'[i] = queue[i + 1] /\ i + 1 # 1 /\ i \in Nat
  BY <1>1, <1>2
<1>4. workers[w] = Idle /\ workers' = [workers EXCEPT ![w] = [step |-> "mark_running", run |-> n]]
  BY <1>1 DEF Dequeue, Work
<1>5. [step |-> "mark_running", run |-> n] \in Starting
  BY <1>3 DEF Starting
<1>6. /\ workers' \in [Workers -> {Idle} \cup Starting \cup Storing]
      /\ workers'[w] = [step |-> "mark_running", run |-> n]
      /\ \A v \in Workers \ {w} : workers'[v] = workers[v]
  BY <1>4, <1>5 DEF RunInv, Types
<1>7. workers'[w].run = n /\ workers'[w] \notin Storing
  BY <1>6 DEF Storing
<1>8. Types'
  BY <1>2, <1>3, <1>6 DEF RunInv, Types
<1>9. JobsAreOpen'
  BY <1>2, <1>3, <1>6, <1>7 DEF RunInv, OneJob, JobsAreOpen, Open, Runs
<1>10. OneTrigger'
  BY <1>2, <1>3 DEF RunInv, OneJob, OneTrigger
<1>11. OneInQueue'
  <2> SUFFICES ASSUME NEW i \in DOMAIN queue', NEW j \in DOMAIN queue', i # j
               PROVE  queue'[i] # queue'[j]
    BY DEF OneInQueue
  <2> QED BY <1>3 DEF RunInv, OneJob, OneInQueue
<1>12. OneWorker'
  <2>1. /\ \A h \in Handlers : triggers[h] # n
        /\ \A i \in DOMAIN queue' : queue'[i] # n
        /\ \A v \in Workers \ {w} : workers[v] # Idle => workers[v].run # n
    <3>1. n # 0
      BY <1>3 DEF RunInv, OneJob, JobsAreOpen, Open, Runs, Types
    <3> QED BY <1>3, <3>1 DEF RunInv, OneJob, OneTrigger, OneInQueue, OneWorker
  <2>2. ASSUME NEW v \in Workers \ {w}, workers[v] # Idle
        PROVE  /\ \A h \in Handlers : triggers'[h] # workers'[v].run
               /\ \A i \in DOMAIN queue' : queue'[i] # workers'[v].run
               /\ \A u \in Workers \ {v} : workers'[u] # Idle => workers'[u].run # workers'[v].run
    <3>1. workers'[v] = workers[v]
      BY <1>6
    <3>2. /\ \A h \in Handlers : triggers[h] # workers[v].run
          /\ \A i \in DOMAIN queue : queue[i] # workers[v].run
          /\ \A u \in Workers \ {v} : workers[u] # Idle => workers[u].run # workers[v].run
      BY <2>2 DEF RunInv, OneJob, OneWorker
    <3>3. workers[v].run # n
      BY <2>1, <2>2
    <3> QED BY <1>2, <1>3, <1>6, <1>7, <3>1, <3>2, <3>3
  <2> QED BY <1>2, <1>6, <1>7, <2>1, <2>2 DEF OneWorker
<1>13. Fresh' /\ AllOrNothing'
  BY <1>2, <1>6, <1>7 DEF RunInv, Fresh, AskedBefore, SeenAfter, FreshWorkers, AllOrNothing, Runs
<1> QED BY <1>8, <1>9, <1>10, <1>11, <1>12, <1>13 DEF RunInv, OneJob

\* A worker whose job goes on with the same run, which stays open.
LEMMA WorkerGoesOn ==
  ASSUME RunInv, NEW w \in Workers, NEW job \in Starting \cup Storing,
         workers[w] # Idle, job # Idle, job.run = workers[w].run,
         workers' = [workers EXCEPT ![w] = job],
         UNCHANGED <<queue, triggers>>,
         \A r : Open(r) => r \in DOMAIN match_runs' /\ match_runs'[r].status \in {"pending", "running"}
  PROVE  OneJob' /\ workers' \in [Workers -> {Idle} \cup Starting \cup Storing]
<1>1. /\ workers' \in [Workers -> {Idle} \cup Starting \cup Storing]
      /\ workers'[w] = job
      /\ \A v \in Workers \ {w} : workers'[v] = workers[v]
  BY DEF RunInv, Types
<1>2. \A v \in Workers : /\ workers'[v] # Idle <=> workers[v] # Idle
                         /\ workers'[v].run = workers[v].run
  BY <1>1
<1>3. JobsAreOpen'
  <2>1. /\ \A g \in Handlers : triggers[g] # 0 => Open(triggers[g])
        /\ \A i \in DOMAIN queue : Open(queue[i])
        /\ \A v \in Workers : workers[v] # Idle => Open(workers[v].run)
    BY DEF RunInv, OneJob, JobsAreOpen
  <2>2. /\ \A g \in Handlers : triggers'[g] # 0 => Open(triggers'[g])
        /\ \A i \in DOMAIN queue' : Open(queue'[i])
        /\ \A v \in Workers : workers'[v] # Idle => Open(workers'[v].run)
    BY <1>2, <2>1
  <2> QED BY <2>2 DEF JobsAreOpen, Open, Runs, Idle
<1>4. OneTrigger' /\ OneInQueue'
  BY DEF RunInv, OneJob, OneTrigger, OneInQueue
<1>5. OneWorker'
  BY <1>2 DEF RunInv, OneJob, OneWorker, Idle
<1> QED BY <1>1, <1>3, <1>4, <1>5 DEF OneJob

\* A worker that is done with a run, or has lost it: nothing else is at that run.
LEMMA WorkerIsDone ==
  ASSUME RunInv, NEW w \in Workers, workers[w] # Idle,
         workers' = [workers EXCEPT ![w] = Idle],
         UNCHANGED <<queue, triggers>>,
         \A r : Open(r) /\ r # workers[w].run
                 => r \in DOMAIN match_runs' /\ match_runs'[r].status \in {"pending", "running"}
  PROVE  OneJob' /\ workers' \in [Workers -> {Idle} \cup Starting \cup Storing]
<1>1. /\ workers' \in [Workers -> {Idle} \cup Starting \cup Storing]
      /\ workers'[w] = Idle
      /\ \A v \in Workers \ {w} : workers'[v] = workers[v]
  BY DEF RunInv, Types
<1>2. /\ \A g \in Handlers : triggers[g] # workers[w].run
      /\ \A i \in DOMAIN queue : queue[i] # workers[w].run
      /\ \A v \in Workers \ {w} : workers[v] # Idle => workers[v].run # workers[w].run
  BY DEF RunInv, OneJob, OneWorker
<1>3. JobsAreOpen'
  <2>1. /\ \A g \in Handlers : triggers[g] # 0 => Open(triggers[g])
        /\ \A i \in DOMAIN queue : Open(queue[i])
        /\ \A v \in Workers : workers[v] # Idle => Open(workers[v].run)
    BY DEF RunInv, OneJob, JobsAreOpen
  <2>2. /\ \A g \in Handlers : triggers'[g] # 0 => Open(triggers'[g]) /\ triggers'[g] # workers[w].run
        /\ \A i \in DOMAIN queue' : Open(queue'[i]) /\ queue'[i] # workers[w].run
        /\ \A v \in Workers : workers'[v] # Idle
                               => Open(workers'[v].run) /\ workers'[v].run # workers[w].run
    BY <1>1, <1>2, <2>1
  <2> QED BY <2>2 DEF JobsAreOpen, Open, Runs, Idle
<1>4. OneTrigger' /\ OneInQueue'
  BY DEF RunInv, OneJob, OneTrigger, OneInQueue
<1>5. OneWorker'
  BY <1>1 DEF RunInv, OneJob, OneWorker, Idle
<1> QED BY <1>1, <1>3, <1>4, <1>5 DEF OneJob

\* The run of a worker is an open one, whose row is well formed.
LEMMA WorkersRun ==
  ASSUME RunInv, NEW w \in Workers, workers[w] # Idle
  PROVE  /\ workers[w].run \in Runs /\ match_runs[workers[w].run] \in MatchRun
         /\ match_runs[workers[w].run].status \in {"pending", "running"}
         /\ match_runs[workers[w].run].matches = 0
         /\ match_runs \in Seq(MatchRun)
BY DEF RunInv, Types, OneJob, JobsAreOpen, Open, AllOrNothing, Runs

\* A change of one row: the table stays a table, the other rows stay.
LEMMA RowChanges ==
  ASSUME match_runs \in Seq(MatchRun), NEW n \in Runs, NEW row \in MatchRun,
         match_runs' = [match_runs EXCEPT ![n] = row]
  PROVE  /\ match_runs' \in Seq(MatchRun)
         /\ DOMAIN match_runs' = Runs
         /\ match_runs'[n] = row
         /\ \A r \in Runs \ {n} : match_runs'[r] = match_runs[r]
BY DEF Runs

\* A worker's run turns from pending to running.
LEMMA MarkRunningKeeps == ASSUME RunInv, NEW w \in Workers, MarkRunning(w) PROVE RunInv'
<1>1. PICK n : n = workers[w].run
  OBVIOUS
<1>2. PICK row : row = [match_runs[n] EXCEPT !.status = "running"]
  OBVIOUS
<1>3. workers[w] # Idle
  BY WorkerKinds DEF MarkRunning, RunInv
<1>4. /\ n \in Runs /\ match_runs[n] \in MatchRun /\ match_runs[n].matches = 0
      /\ match_runs[n].status \in {"pending", "running"} /\ match_runs \in Seq(MatchRun)
  BY <1>1, <1>3, WorkersRun
<1>5. /\ row \in MatchRun /\ row.status = "running" /\ row.matches = 0
      /\ row.asked = match_runs[n].asked
  BY <1>2, <1>4 DEF MatchRun
<1>6. match_runs' = [match_runs EXCEPT ![n] = row] /\ UNCHANGED <<catalog, queue, triggers>>
  BY <1>1, <1>2 DEF MarkRunning
<1>7. /\ match_runs' \in Seq(MatchRun) /\ DOMAIN match_runs' = Runs /\ match_runs'[n] = row
      /\ \A r \in Runs \ {n} : match_runs'[r] = match_runs[r]
  BY <1>4, <1>5, <1>6, RowChanges
<1>8. PICK job : job = [step |-> "fetch", run |-> n]
  OBVIOUS
<1>9. /\ job \in Starting /\ job # Idle /\ job.run = n /\ job \notin Storing
      /\ workers' = [workers EXCEPT ![w] = job]
  BY <1>1, <1>4, <1>8 DEF Starting, Storing, Idle, MarkRunning, Work, RunInv, Types, Runs
<1>10. \A r : Open(r) => r \in DOMAIN match_runs' /\ match_runs'[r].status \in {"pending", "running"}
  BY <1>5, <1>7 DEF Open
<1>11. OneJob' /\ workers' \in [Workers -> {Idle} \cup Starting \cup Storing]
  BY <1>1, <1>3, <1>6, <1>9, <1>10, WorkerGoesOn
<1>12. Types'
  BY <1>6, <1>7, <1>11 DEF RunInv, Types
<1>13. AskedBefore' /\ SeenAfter'
  BY <1>4, <1>5, <1>6, <1>7 DEF RunInv, Fresh, AskedBefore, SeenAfter, Runs
<1>14. FreshWorkers'
  <2>1. \A v \in Workers : workers[v] \in Storing => workers[v].run \in Runs
    BY DEF RunInv, OneJob, JobsAreOpen, Open, Idle, Storing
  <2>2. \A v \in Workers : workers'[v] \in Storing => workers[v] \in Storing /\ workers'[v] = workers[v]
    BY <1>9 DEF RunInv, Types
  <2>3. \A r \in Runs : match_runs'[r].asked = match_runs[r].asked
    BY <1>5, <1>7
  <2> QED BY <2>1, <2>2, <2>3 DEF RunInv, Fresh, FreshWorkers, Storing
<1>15. AllOrNothing'
  BY <1>4, <1>5, <1>7 DEF RunInv, AllOrNothing, Runs
<1> QED BY <1>11, <1>12, <1>13, <1>14, <1>15 DEF RunInv, Fresh

\* What is fetched is not older than the request for the run.
LEMMA FetchKeeps == ASSUME RunInv, NEW w \in Workers, Fetch(w) PROVE RunInv'
<1>1. PICK n : n = workers[w].run
  OBVIOUS
<1>2. PICK job : job = [step |-> "store", run |-> n, seen |-> catalog]
  OBVIOUS
<1>3. workers[w] # Idle
  BY WorkerKinds DEF Fetch, RunInv
<1>4. n \in Runs /\ match_runs \in Seq(MatchRun) /\ catalog \in Nat
  BY <1>1, <1>3, WorkersRun DEF RunInv, Types
<1>5. /\ job \in Storing /\ job # Idle /\ job.run = n /\ job.seen = catalog
      /\ workers' = [workers EXCEPT ![w] = job]
      /\ UNCHANGED <<match_runs, catalog, queue, triggers>>
  BY <1>1, <1>2, <1>4 DEF Storing, Idle, Fetch, CatalogRead, Work, Runs
<1>6. \A r : Open(r) => r \in DOMAIN match_runs' /\ match_runs'[r].status \in {"pending", "running"}
  BY <1>5 DEF Open, Runs
<1>7. OneJob' /\ workers' \in [Workers -> {Idle} \cup Starting \cup Storing]
  BY <1>1, <1>3, <1>5, <1>6, WorkerGoesOn
<1>8. Types'
  BY <1>5, <1>7 DEF RunInv, Types
<1>9. AskedBefore' /\ SeenAfter' /\ AllOrNothing'
  BY <1>5 DEF RunInv, Fresh, AskedBefore, SeenAfter, AllOrNothing, Runs
<1>10. FreshWorkers'
  <2>1. match_runs[n].asked \in Nat /\ match_runs[n].asked <= catalog
    <3>1. match_runs[n] \in MatchRun
      BY <1>4 DEF Runs
    <3>2. match_runs[n].asked \in Nat
      BY <3>1 DEF MatchRun
    <3>3. match_runs[n].asked <= catalog
      BY <1>4 DEF RunInv, Fresh, AskedBefore, SeenAfter
    <3> QED BY <3>2, <3>3
  <2>2. workers'[w] = job /\ \A v \in Workers \ {w} : workers'[v] = workers[v]
    BY <1>5 DEF RunInv, Types
  <2> QED BY <1>4, <1>5, <2>1, <2>2 DEF RunInv, Fresh, FreshWorkers, Storing
<1> QED BY <1>7, <1>8, <1>9, <1>10 DEF RunInv, Fresh

\* A run ends in one step, completed with its matches or failed without any.
LEMMA JobEnds ==
  ASSUME RunInv, NEW w \in Workers, workers[w] # Idle, NEW row \in MatchRun,
         match_runs' = [match_runs EXCEPT ![workers[w].run] = row],
         workers' = [workers EXCEPT ![w] = Idle],
         UNCHANGED <<catalog, queue, triggers>>,
         row.asked = match_runs[workers[w].run].asked,
         \/ row.status = "completed" /\ row.matches = 1 /\ row.seen >= row.asked
         \/ row.status = "failed" /\ row.matches = 0
  PROVE  RunInv'
<1>1. PICK n : n = workers[w].run
  OBVIOUS
<1>2. /\ n \in Runs /\ match_runs[n] \in MatchRun /\ match_runs \in Seq(MatchRun)
  BY <1>1, WorkersRun
<1>3. /\ match_runs' \in Seq(MatchRun) /\ DOMAIN match_runs' = Runs /\ match_runs'[n] = row
      /\ \A r \in Runs \ {n} : match_runs'[r] = match_runs[r]
  BY <1>1, <1>2, RowChanges
<1>4. \A r : Open(r) /\ r # n => r \in DOMAIN match_runs' /\ match_runs'[r].status \in {"pending", "running"}
  BY <1>3 DEF Open
<1>5. OneJob' /\ workers' \in [Workers -> {Idle} \cup Starting \cup Storing]
  BY <1>1, <1>4, WorkerIsDone
<1>6. Types'
  BY <1>3, <1>5 DEF RunInv, Types
<1>7. AskedBefore' /\ SeenAfter'
  BY <1>1, <1>2, <1>3 DEF RunInv, Fresh, AskedBefore, SeenAfter, Runs
<1>8. FreshWorkers'
  <2>1. \A v \in Workers : workers[v] \in Storing => workers[v].run \in Runs
    BY DEF RunInv, OneJob, JobsAreOpen, Open, Idle, Storing
  <2>2. \A v \in Workers : workers'[v] \in Storing => workers[v] \in Storing /\ workers'[v] = workers[v]
    BY DEF RunInv, Types, Idle, Storing
  <2>3. \A r \in Runs : match_runs'[r].asked = match_runs[r].asked
    BY <1>1, <1>3
  <2> QED BY <2>1, <2>2, <2>3 DEF RunInv, Fresh, FreshWorkers, Storing
<1>9. AllOrNothing'
  BY <1>2, <1>3 DEF RunInv, AllOrNothing, Runs
<1> QED BY <1>5, <1>6, <1>7, <1>8, <1>9 DEF RunInv, Fresh

\* The matches are stored for a run that had none.
LEMMA StoreMatchesKeeps == ASSUME RunInv, NEW w \in Workers, StoreMatches(w) PROVE RunInv'
<1>1. PICK n : n = workers[w].run
  OBVIOUS
<1>2. workers[w] \in Storing /\ workers[w] # Idle
  BY WorkerKinds DEF StoreMatches, RunInv
<1>3. /\ n \in Runs /\ match_runs[n] \in MatchRun /\ match_runs[n].matches = 0
      /\ match_runs \in Seq(MatchRun)
      /\ workers[w].seen \in Nat /\ workers[w].seen >= match_runs[n].asked
  BY <1>1, <1>2, WorkersRun DEF RunInv, Fresh, FreshWorkers, Storing
<1>4. PICK row : row = [match_runs[n] EXCEPT !.status = "completed", !.seen = workers[w].seen,
                                           !.matches = @ + 1]
  OBVIOUS
<1>5. /\ row \in MatchRun /\ row.status = "completed" /\ row.matches = 1
      /\ row.asked = match_runs[n].asked /\ row.seen >= row.asked
  <2>1. PICK seen \in Nat : seen = workers[w].seen
    BY <1>3
  <2>2. PICK old \in MatchRun : old = match_runs[n]
    BY <1>3
  <2>3. PICK one : one = [old EXCEPT !.status = "completed"]
    OBVIOUS
  <2>4. one \in MatchRun /\ one.status = "completed" /\ one.asked = old.asked /\ one.matches = 0
    BY <1>3, <2>2, <2>3 DEF MatchRun
  <2>5. PICK two : two = [one EXCEPT !.seen = seen]
    OBVIOUS
  <2>6. /\ two \in MatchRun /\ two.status = "completed" /\ two.asked = old.asked
        /\ two.matches = 0 /\ two.seen = seen
    BY <2>1, <2>4, <2>5 DEF MatchRun
  <2>7. row = [two EXCEPT !.matches = @ + 1]
    BY <1>4, <2>1, <2>2, <2>3, <2>5
  <2>8. row = [two EXCEPT !.matches = 1]
    BY <2>6, <2>7
  <2>9. /\ row \in MatchRun /\ row.status = "completed" /\ row.asked = old.asked
        /\ row.matches = 1 /\ row.seen = seen
    BY <2>6, <2>8 DEF MatchRun
  <2> QED BY <1>3, <2>1, <2>2, <2>9
<1>6. match_runs' = [match_runs EXCEPT ![n] = row]
  BY <1>1, <1>3, <1>4 DEF StoreMatches
<1> QED BY <1>1, <1>2, <1>5, <1>6, JobEnds DEF StoreMatches, Work

\* A run that fails keeps the matches it had: none.
LEMMA FailRunKeeps == ASSUME RunInv, NEW w \in Workers, FailRun(w) PROVE RunInv'
<1>1. PICK n : n = workers[w].run
  OBVIOUS
<1>2. workers[w] # Idle
  BY WorkerKinds DEF FailRun, RunInv
<1>3. n \in Runs /\ match_runs[n] \in MatchRun /\ match_runs[n].matches = 0
  BY <1>1, <1>2, WorkersRun
<1>4. PICK row : row = [match_runs[n] EXCEPT !.status = "failed"]
  OBVIOUS
<1>5. /\ row \in MatchRun /\ row.status = "failed" /\ row.matches = 0
      /\ row.asked = match_runs[n].asked
  <2>1. PICK old \in MatchRun : old = match_runs[n]
    BY <1>3
  <2> QED BY <1>3, <1>4, <2>1 DEF MatchRun
<1>6. match_runs' = [match_runs EXCEPT ![n] = row]
  BY <1>1, <1>4 DEF FailRun, Failed
<1> QED BY <1>1, <1>2, <1>5, <1>6, JobEnds DEF FailRun, Work

\* A job that is lost leaves its run open, and without any job.
LEMMA EnqueueFailsKeeps == ASSUME RunInv, NEW h \in Handlers, EnqueueFails(h) PROVE RunInv'
<1>1. /\ UNCHANGED <<match_runs, catalog, queue, workers>>
      /\ triggers' \in [Handlers -> Nat] /\ triggers'[h] = 0
      /\ \A g \in Handlers \ {h} : triggers'[g] = triggers[g]
  BY DEF EnqueueFails, RunInv, Types
<1>2. Types'
  BY <1>1 DEF RunInv, Types
<1>3. JobsAreOpen'
  BY <1>1 DEF RunInv, OneJob, JobsAreOpen, Open, Runs
<1>4. OneTrigger' /\ OneInQueue'
  BY <1>1 DEF RunInv, OneJob, OneTrigger, OneInQueue
<1>5. OneWorker'
  <2>1. \A v \in Workers : workers[v] # Idle => workers[v].run # 0
    BY DEF RunInv, OneJob, JobsAreOpen, Open, Runs, Types
  <2> QED BY <1>1, <2>1 DEF RunInv, OneJob, OneWorker
<1>6. Fresh' /\ AllOrNothing'
  BY <1>1 DEF RunInv, Fresh, AskedBefore, SeenAfter, FreshWorkers, AllOrNothing, Runs
<1> QED BY <1>2, <1>3, <1>4, <1>5, <1>6 DEF RunInv, OneJob

LEMMA LoseQueueKeeps == ASSUME RunInv, LoseQueue PROVE RunInv'
<1>1. /\ UNCHANGED <<match_runs, catalog, triggers, workers>>
      /\ queue' \in Seq(Nat) /\ DOMAIN queue' = {}
  BY DEF LoseQueue
<1>2. Types'
  BY <1>1 DEF RunInv, Types
<1>3. OneJob'
  BY <1>1 DEF RunInv, OneJob, JobsAreOpen, OneTrigger, OneInQueue, OneWorker, Open, Runs
<1>4. Fresh' /\ AllOrNothing'
  BY <1>1 DEF RunInv, Fresh, AskedBefore, SeenAfter, FreshWorkers, AllOrNothing, Runs
<1> QED BY <1>2, <1>3, <1>4 DEF RunInv

LEMMA CrashKeeps == ASSUME RunInv, NEW w \in Workers, Crash(w) PROVE RunInv'
<1>1. /\ workers[w] # Idle /\ workers' = [workers EXCEPT ![w] = Idle]
      /\ UNCHANGED <<match_runs, catalog, queue, triggers>>
  BY DEF Crash, Work
<1>2. \A r : Open(r) => r \in DOMAIN match_runs' /\ match_runs'[r].status \in {"pending", "running"}
  BY <1>1 DEF Open, Runs
<1>3. OneJob' /\ workers' \in [Workers -> {Idle} \cup Starting \cup Storing]
  BY <1>1, <1>2, WorkerIsDone
<1>4. Types'
  BY <1>1, <1>3 DEF RunInv, Types
<1>5. \A v \in Workers : workers'[v] \in Storing => workers[v] \in Storing /\ workers'[v] = workers[v]
  BY <1>1 DEF RunInv, Types, Idle, Storing
<1>6. AskedBefore' /\ SeenAfter' /\ AllOrNothing'
  BY <1>1 DEF RunInv, Fresh, AskedBefore, SeenAfter, AllOrNothing, Runs
<1>7. FreshWorkers'
  BY <1>1, <1>5 DEF RunInv, Fresh, FreshWorkers, Storing
<1> QED BY <1>3, <1>4, <1>6, <1>7 DEF RunInv, Fresh

\* RunInv is an invariant.
LEMMA RunInvariant == Spec => []RunInv
<1>1. RunInv /\ [Next]_vars => RunInv'
  <2> SUFFICES ASSUME RunInv, [Next]_vars PROVE RunInv'
    OBVIOUS
  <2>1. CASE Edit
    BY <2>1, EditKeeps
  <2>2. CASE LoseQueue
    BY <2>2, LoseQueueKeeps
  <2>3. ASSUME NEW h \in Handlers,
               (\E f \in Rfps : AddMatchRun(h, f)) \/ Enqueue(h) \/ EnqueueFails(h)
        PROVE  RunInv'
    BY <2>3, AddMatchRunKeeps, EnqueueKeeps, EnqueueFailsKeeps
  <2>4. ASSUME NEW w \in Workers, Job(w) \/ Crash(w)
        PROVE  RunInv'
    BY <2>4, DequeueKeeps, MarkRunningKeeps, FetchKeeps, StoreMatchesKeeps, FailRunKeeps, CrashKeeps
       DEF Job
  <2>5. CASE UNCHANGED vars
    BY <2>5 DEF vars, RunInv, Types, OneJob, JobsAreOpen, OneTrigger, OneInQueue, OneWorker, Open,
                Fresh, AskedBefore, SeenAfter, FreshWorkers, AllOrNothing, Runs
  <2> QED BY <2>1, <2>2, <2>3, <2>4, <2>5 DEF Next
<1> QED BY InitRuns, <1>1, PTL DEF Spec

----------------------------------------------------------------------------

\* A run never has matches without being completed, nor is it completed without
\* them or with two batches, however workers, failures and lost jobs interleave.
THEOREM MatchesAllOrNothing == Spec => []AllOrNothing
<1>1. RunInv => AllOrNothing
  BY DEF RunInv
<1> QED BY <1>1, RunInvariant, PTL

\* A worker changes its own run, which is open.
LEMMA RowStays ==
  ASSUME RunInv, NEW w \in Workers, workers[w] # Idle, NEW row,
         match_runs' = [match_runs EXCEPT ![workers[w].run] = row],
         NEW r \in Runs, match_runs[r].status \in Terminal
  PROVE  match_runs'[r] = match_runs[r]
<1>1. r # workers[w].run
  BY WorkersRun DEF Terminal
<1> QED BY <1>1 DEF RunInv, Types, Runs

\* No step touches a run that has ended.
LEMMA EndedStays == RunInv /\ [Next]_vars =>
  \A r \in Runs : match_runs[r].status \in Terminal
                   => r \in Runs' /\ match_runs'[r] = match_runs[r]
<1> SUFFICES ASSUME RunInv, [Next]_vars, NEW r \in Runs, match_runs[r].status \in Terminal
             PROVE  r \in Runs' /\ match_runs'[r] = match_runs[r]
  OBVIOUS
<1>1. match_runs \in Seq(MatchRun) /\ r \in DOMAIN match_runs
  BY DEF RunInv, Types, Runs
<1>2. CASE UNCHANGED match_runs
  BY <1>2 DEF Runs
<1>3. ASSUME NEW h \in Handlers, NEW f \in Rfps, AddMatchRun(h, f)
      PROVE  r \in Runs' /\ match_runs'[r] = match_runs[r]
  <2>1. PICK row : match_runs' = Append(match_runs, row)
    BY <1>3 DEF AddMatchRun
  <2> QED BY <1>1, <2>1 DEF Runs
<1>4. ASSUME NEW w \in Workers, MarkRunning(w) \/ StoreMatches(w) \/ FailRun(w)
      PROVE  r \in Runs' /\ match_runs'[r] = match_runs[r]
  <2>1. workers[w] # Idle
    BY <1>4, WorkerKinds DEF MarkRunning, StoreMatches, FailRun, RunInv
  <2>2. workers[w].run \in Runs
    BY <2>1, WorkersRun
  <2>3. PICK row : match_runs' = [match_runs EXCEPT ![workers[w].run] = row]
    BY <1>1, <1>4, <2>2 DEF MarkRunning, StoreMatches, FailRun
  <2> QED BY <2>1, <2>3, RowStays DEF Runs
<1> QED
  BY <1>2, <1>3, <1>4
     DEF Next, vars, Edit, LoseQueue, Enqueue, EnqueueFails, Job, Dequeue, Fetch, Crash

\* What a run ended with, its status and its matches, is never touched again,
\* whatever jobs are still in the queue or at other workers.
THEOREM RunEndsOnce == Spec => EndsOnce
<1>1. RunInv /\ [Next]_vars => [\A r \in Runs : match_runs[r].status \in Terminal
                                   => match_runs'[r] = match_runs[r]]_vars
  BY EndedStays
<1> QED BY <1>1, RunInvariant, PTL DEF Spec, EndsOnce

----------------------------------------------------------------------------
(* The run that is shown *)

\* A nonempty set of numbers up to N has a greatest element.
LEMMA Greatest ==
  ASSUME NEW N \in Nat, NEW S \in SUBSET (0 .. N), S # {}
  PROVE  Max(S) \in S /\ \A x \in S : Max(S) >= x
<1> DEFINE less == {ss \in Nat \X Nat : ss[1] < ss[2]}
           gaps == {N - x : x \in S}
<1>1. IsWellFoundedOn(less, Nat)
  BY NatLessThanWellFounded DEF OpToRel
<1>2. gaps \subseteq Nat /\ gaps # {}
  <2>1. \A x \in S : N - x \in Nat
    OBVIOUS
  <2> QED BY <2>1
<1>3. PICK g \in gaps : \A y \in gaps : <<y, g>> \notin less
  <2> HIDE DEF less, gaps
  <2> QED BY <1>1, <1>2, WFMin
<1>4. PICK m \in S : g = N - m
  OBVIOUS
<1>5. \A x \in S : m >= x
  <2> SUFFICES ASSUME NEW x \in S PROVE m >= x
    OBVIOUS
  <2>1. N - x \in gaps /\ N - x \in Nat /\ g \in Nat
    BY <1>2
  <2>2. ~ (N - x < g)
    BY <1>3, <2>1
  <2> QED BY <1>4, <2>2
<1> QED BY <1>5 DEF Max

NewestIsShown ==
  \A f \in Rfps : /\ Shown(f) \in Nat
                  /\ Shown(f) # 0 => Shown(f) \in Completed(f)
                  /\ \A r \in Completed(f) : Shown(f) >= r

\* The run that is shown is a completed one, and the newest of them.
LEMMA ShownIsNewest == Types => NewestIsShown
<1> SUFFICES ASSUME Types, NEW f \in Rfps
             PROVE  /\ Shown(f) \in Nat
                    /\ Shown(f) # 0 => Shown(f) \in Completed(f)
                    /\ \A r \in Completed(f) : Shown(f) >= r
  BY DEF NewestIsShown
<1>1. PICK n \in Nat : n = Len(match_runs) /\ Runs = 1 .. n
  BY DEF Types, Runs
<1>2. PICK S : S = {0} \cup Completed(f)
  OBVIOUS
<1>3. S \in SUBSET (0 .. n) /\ S # {}
  BY <1>1, <1>2 DEF Completed
<1>4. Max(S) \in S /\ \A x \in S : Max(S) >= x
  BY <1>3, Greatest
<1>5. Shown(f) = Max(S)
  BY <1>2 DEF Shown
<1> QED BY <1>2, <1>3, <1>4, <1>5

\* The matches that are shown take into account every edit that was made before
\* they were asked for.
THEOREM FreshIsShown == Spec => []ShownIsFresh
<1>1. RunInv => ShownIsFresh
  <2> SUFFICES ASSUME RunInv, NEW f \in Rfps, Shown(f) # 0
               PROVE  match_runs[Shown(f)].seen >= match_runs[Shown(f)].asked
    BY DEF ShownIsFresh
  <2>1. Shown(f) \in Completed(f)
    <3>1. NewestIsShown
      BY ShownIsNewest DEF RunInv
    <3> QED BY <3>1 DEF NewestIsShown
  <2> QED BY <2>1 DEF RunInv, Fresh, SeenAfter, Completed
<1> QED BY <1>1, RunInvariant, PTL

\* Readers never go back to an older run, in whatever order the runs complete.
THEOREM ShownNeverGoesBack == Spec => ShownAdvances
<1>1. RunInv => NewestIsShown
  BY ShownIsNewest DEF RunInv
<1>2. RunInv /\ NewestIsShown /\ NewestIsShown' /\ [Next]_vars
        => [\A f \in Rfps : Shown(f)' >= Shown(f)]_vars
  <2> SUFFICES ASSUME RunInv, NewestIsShown, NewestIsShown', [Next]_vars, NEW f \in Rfps
               PROVE  Shown(f)' >= Shown(f)
    OBVIOUS
  <2>1. Completed(f) \subseteq Completed(f)'
    BY EndedStays DEF Completed, Terminal
  <2>2. Shown(f) \in Nat /\ (Shown(f) # 0 => Shown(f) \in Completed(f))
    BY DEF NewestIsShown
  <2>3. Shown(f)' \in Nat /\ \A r \in Completed(f)' : Shown(f)' >= r
    BY DEF NewestIsShown, Shown, Completed
  <2> QED BY <2>1, <2>2, <2>3
<1> QED BY <1>1, <1>2, RunInvariant, PTL DEF Spec, ShownAdvances

=============================================================================
