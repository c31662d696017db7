# Avadhana: a formal model

TLA+ modules for the stateful core of Avadhana (a civic platform in which people
spend a few *focus slots* on problems, and a marketplace of RFPs and solutions
beside it), the TLC configurations that check them, and machine-checked proofs
about every safety property they check. Paths below are relative to `src/`; `app/` stands for
`services/backend-api/app/`.

## 1. The system

| Component | State it keeps | Operations | Talks to |
|---|---|---|---|
| Commitment engine (`app/services/commitment_service.py`, `checkpoint_service.py`) | `commitments`, `commitment_checkpoints`, `users.reputation` | create, checkpoint (resolve, abandon, continue), history | problems (tier), users |
| Problem lifecycle (`app/services/problem_lifecycle_service.py`) | `resolution_objections`; the status itself is computed on every read | read status, raise objection | commitments and their audit rows |
| Feed and commitment gate (`app/services/feed_service.py`, `commitment_gate.py`) | `feed_posts`, `comments`, `post_likes` | post, comment, reply, toggle like, list | commitments (gate) |
| Moderation override (`app/services/moderation_service.py`) | `hidden` flags, `moderation_override_events` | hide, restore, log | feed rows |
| Marketplace (`app/services/marketplace_service.py`) | `organizations`, `organization_memberships`, `rfps`, `billing_events`, `solutions` | create organization, add member, post RFP, requirements, promote to a problem | problems (promotion) |
| Listings and search (the `GET` lists of the routers) | none of its own | problems, RFPs, solutions, feed (new, top), comments; limit and offset, two of them on a fetch capped at 1000 rows; so is the one behind an RFP's attribute matches | all tables, memberships |
| Match runs (`trigger_match_run`, `services/ai-coordinator-worker/`) | `match_runs`, `solution_matches`, the Redis queue | trigger, run job, read latest | marketplace rows, embeddings |
| Scoring and rank fusion | none (pure functions), written twice: `app/services/marketplace_matching.py` and the worker's `impl/marketplace_matching_job.py` | filter, score, rank, fuse | the API's attribute matches; the worker's job |
| Embeddings (`app/services/embeddings_provider.py`) | `embedding_vectors`, insert-only; the newest row of an owner and a space counts | embed and store | an HTTP provider |
| Authentication, users (`app/routers/auth.py`, `app/core/`) | `users`, one per e-mail; tokens are stateless and expire | signup, login, current user, profile | all routers |
| Rate limiter (`app/core/rate_limit.py`) | counters in memory of a library | limit per IP or user | some routes |
| Web client (`services/web/`) | in `localStorage`, shared by all tabs: token, commitment ids by problem, active organization; in each tab its `AuthContext` | log in and out, commit, checkpoint, pages | the API |
| Mobile client | the same kind of session | read-mostly pages | the API |
| Moderation stub, SARVAM mock, deployment files | none | health, canned answers | - |

How they run: one API process whose handlers are plain functions in the web
framework's thread pool, so requests interleave. Every request has a database
session of its own, and every repository method that writes commits by itself.
The isolation level is the database's default (READ COMMITTED), there are no row
locks, and the only uniqueness constraints that matter here are those on e-mail
addresses and on likes. A handler is therefore a *sequence of small transactions*:
what it read may be stale when it writes, and if it dies in the middle, what it
committed stays. SQLAlchemy adds two subtleties that the models keep: an object
read earlier in the same transaction is not read again, and an UPDATE names only
the columns the handler changed (none at all if the value is the one it had seen).
The worker's job is likewise a sequence of statements, each of which sees what is
committed by then; only the storing of its matches is one transaction.

Hard behaviours, with the lines where they bite, are listed under "hazards" in
`PROJECT.json`. What makes each component correct:

* engine: at most three active commitments, one per problem, no exit before the
  lock has run out, terminal states final, a complete and truthful audit trail, a
  reputation that is what the outcomes are worth;
* lifecycle: no resolution without corroboration, a window that does not move, a
  verdict that does not change, objections that are never premature and no more than
  there are overlapping requests of a user (one, if none overlap);
* feed: only members write, threads stay on their post and lose no reply;
  moderation: the log explains the flags;
* marketplace: organizations have an admin, one truthful billing event per posting,
  nobody billed before the quota is used up, promotion is bounded;
* listings: what a paging client misses or sees twice is bounded by what changed
  under it, and a search shows only what its caller may open;
* match runs: every run ends, has all its matches or none, and readers never go back
  to an older run;
* matching job: whatever is edited while it reads, the shortlist holds no unfit
  solution and misses no fit one; the worker agrees with the API's own functions;
  better signals never rank lower;
* session: only owners end commitments, a user finds an active commitment again, the
  user of a tab is known or awaited, a live token leaves the browser only by a logout,
  a newer token or the 401 of a request that was sent without it.

## 2. Modules

| Module | What it models | State and steps |
|---|---|---|
| `Commitments` | the engine, at the grain of one database round trip per step | tables as functions from primary keys; `requests[t]` is the handler of thread `t` with the values it holds. `StartCreate` (duplicate lookup), `CountSlots`, `InsertCommitment`, `RecordCreated`; `LoadCommitment` (all checks), `SaveCommitment`, `RecordCheckpoint`, `ReadReputation`, `WriteReputation`; `Fail`; `Tick` |
| `CommitmentsSerial` | EXTENDS `Commitments`: the documented rules, the history and profile reads (`CommitmentHistory`, `CommittedProblems`), and the refinement to `FocusSlots` | operators and properties only |
| `FocusSlots` | abstract specification: what a user is promised | `slots`, `lock`, `now`; atomic `Spend`, `Renew`, `Release` |
| `ProblemLifecycle` | EXTENDS `Commitments`; the computed status and `raise_objection` interleaved with the engine on the same tables | `Status(p)` as in `compute_resolution_status`; `StartObjection`, `ReadMembers`, `ReadClaims`, `CheckObjections`, `InsertObjection` |
| `FeedModeration` | gate, posts, comments, likes, moderation with its log, and the reader's comment tree | the commitment engine is reduced to `Commit` / `EndCommitment`; `PassGate` comes before each write; `SetHidden` and `RecordOverride` are the two commits of a moderation |
| `Marketplace` | organizations, memberships, postings, quota, billing, promotion | one step per round trip; `ReadQuota` / `WriteQuota` / `CompareQuota` is the counter |
| `Listings` | the lists of the API, and a client that pages through one | `rows` of one table, `memberships` of the caller, `reader`; `ReadPage` evaluates the handler of the chosen `list`; `Insert`, `Admit`, `ToggleLike`, `SetHidden` change what lies under it |
| `MarketplaceMatching` | the pure functions of the API's `marketplace_matching.py` | operators only; scores are exact fractions |
| `MatchingJob` | one job of the worker, with the worker's own copies of those functions, beside members who edit the tables it reads | `FetchRequirements`, `FetchSolutions`, `FetchAttributes`, `FetchEmbeddings`, `StoreMatches`, `FailRun`; `AddRequirement`, `AddSolution`, `PublishSolution`, `AddAttribute`, `StoreEmbedding`; `MarketplaceMatching` is instantiated as the `Backend` to agree with |
| `MatchRuns` | trigger, queue, workers, catalog edits, faults | the catalog is a version number; `Job(w)` is one worker's progress |
| `Accounts` | users, tokens, expiry | `users`, `issued`, `expired`; the parts of signup and login that `WebSession` composes |
| `WebSession` | EXTENDS `Accounts`; several tabs of one browser and the API, with requests under way in between | `Login`, `Signup`, `Commit`, `Checkpoint`, `Logout`, `Reload` send or reset; `Serve` is the API's side, one disjunct per outcome; `ReceiveUnauthorized`, `ReceiveToken`, `ReceiveUser`, `ReceiveCommitment`, `ReceiveOther`; `Lose`; `ForgetMap` and one outcome of `Remember` are the faults of the browser's storage |
| `*_proofs` | theorems about `Commitments` and `CommitmentsSerial` (one module), `ProblemLifecycle`, `FeedModeration`, `Marketplace`, `Listings`, `MatchRuns`, `MatchingJob`, `WebSession` | - |
| `MC*` | instances: symmetry sets and constants | - |

How they compose: `ProblemLifecycle` runs on the very tables and steps of
`Commitments`; `WebSession` on those of `Accounts`. `FeedModeration` and `WebSession`
need of the engine only that commitments begin and end, and have a reduced copy of it.
`MatchRuns` takes a job as read, work, store and follows many of them through queue
and faults; `MatchingJob` opens one of them up.

A request that the code rejects has no effect, so it is a step that is not taken;
a rejection in the middle of a handler ends the handler. In `WebSession` a rejection
is an answer with a status, because the client acts on it. Definitions whose name
starts with `Bad` are faults a programmer could make at that place. They are used
by nothing in the specifications; each one is what a property has to catch when it
takes the place of the definition that follows it ("mutants" in `PROJECT.json`).

## 3. Runs

All passing runs are exhaustive for their bounds.

| Run | Bounds | Shows |
|---|---|---|
| `Commitments_concurrent.cfg` | one user, two problems, three commitments, one slot, two handlers; lock period 1, clock up to 1; one handler may die half way | what overlapping requests still guarantee: the slot limit is overshot by at most one slot per additional handler, terminal commitments stay terminal, no exit before the first lock has run out, audit rows are neither missing nor premature |
| `Commitments_serial.cfg` | two users, three problems, three commitments, two slots, one handler; lock period 1, clock up to 2; no failures | the documented rules exactly: one active commitment per problem, final outcomes, a history and a reputation that agree with them, and that the engine implements `FocusSlots`, whose slots are limited |
| `Commitments_slot_race.cfg` | one user, four problems, the code's three slots, two handlers | *violation* of `SlotLimit` |
| `Commitments_terminal_race.cfg` | one commitment, two handlers, clock up to 2 | *violation* of `TerminalIsFinal` |
| `ProblemLifecycle.cfg` | two users, three commitments, one slot, one engine handler, two objection handlers; lock period 1, window 1, clock up to 2; no failures | corroboration, fixed window, final verdict, bounded and never premature objections |
| `ProblemLifecycle_lone_member.cfg` | one user, two commitments, one engine handler | *violation* of `IndependentClaims` |
| `FeedModeration.cfg` | one user, two posts, two comments, two handlers, two moderation events, one death | gated voice, threads, a tree that loses no reply, log against flag |
| `Marketplace.cfg` | two users, one organization, three RFPs, quota 1, two handlers, one death | admins, ledger, quota, bounded duplicates |
| `Listings.cfg` | each of six lists; two organizations, up to four rows at first and five in all, pages of two, fetch cap four, three changes between pages | how many rows a paging client can miss or see again, and that a search and the other reads of an RFP decide alike |
| `MatchRuns.cfg` | two RFPs, two trigger requests, two workers, three runs, catalog versions up to 2, one lost job | freshness, all or nothing, no going back, termination |
| `MatchingJob.cfg` | three solutions, two attribute pairs, one embedding space, a fetch cap of two on the API's side, the code's constant 60, two edits during the job, many catalogs to start from | a sound and complete shortlist from torn reads, agreement with the API's functions, a ranking that respects its signals |
| `WebSession.cfg` | two e-mails, two tabs, two tokens, two requests under way, two commitments | who ends commitments, the cached id, the awaited user, the kept token |

Why the bounds are enough to mean something: every race in this code is between
two handlers and a value one of them read before the other wrote it, so two
handlers exhibit it; the bound of a limit is always below the number of things
that may ask for it (more commitments than slots, more RFPs than quota, more rows
than the fetch cap, also in `MatchingJob`, more rows than two pages); the clock passes the boundary it is
compared with; and, where a run allows failures, one may strike between any two
commits. The runs of the engine and the lifecycle without failures state rules that
are about what is in the tables after a request has run to its end. A second
simultaneous failure, or a third handler, repeats what one does. Two tabs with a
request each are two independent readers and writers of one `localStorage`; two
tokens are a token and the one that has replaced it. In `MatchingJob` the edits before
the request are in the choice of catalogs, so that the two edits allowed both fall
into the job. Where there are proofs they remove the bounds. A larger instance of
`ProblemLifecycle` (lock period 2, window 2, clock up to 4; 1.8 million states)
passes as well. Deadlock checking is off in every run: a bounded instance runs out
of keys, clock ticks, postings or trigger requests and then rightly has nothing left
to do, while the real server would go on serving.

`WindowNeverMoves`, `VerdictIsFinal` and `NoPrematureObjection` are about one checkpoint
handler at a time, on purpose: with two, the race of the terminal statuses (below)
takes a claim back.

## 4. Disagreements between the code and what it says

Each is a run that TLC answers with a counterexample (`PROJECT.json`, "findings").

1. **The fourth commitment is not always blocked.** The count and the insert are two
   transactions, so overlapping requests all pass the count.
2. **Terminal states can be rewritten.** Of a resolve and an abandon that both loaded
   the row as active, the later save wins; both audit rows and both reputation
   changes stay.
3. **One user can corroborate alone** by resolving, committing again and resolving
   again: the threshold counts commitments, not users.

Observed while modelling and not made into runs of their own.

Of the engine, the lifecycle and the feed:

* **a user can object more than once to one resolution.** `models/resolution_objection.py:10`
  says "exactly ONE objection during that window" (also :22), and
  `problem_lifecycle_service.py:153` that "one objection per user per episode" is
  enforced when it is written. The check (359-366) and the insert (368) are two
  transactions and the table has no unique constraint, so two overlapping requests of
  one user both find no objection and both insert one: `OneObjection` is false of
  `ProblemLifecycle.cfg`, by a trace that ends in two `InsertObjection` of one user.
  `ObjectionsBounded` says what is left of the rule, one objection per overlapping
  request, and `OneObjectionSerially` that the rule is exact where none overlap. One
  objection or two, the problem is disputed alike;
* a second claim that comes more than seven days after the first turns a problem from
  open to resolved at once, with no moment at which anyone could object
  (`problem_lifecycle_service.py:269-284`);
* two overlapping moderations of one item can leave its flag and the last row of its
  log in disagreement, because each applies the two in its own order and skips a
  write it believes done (`LogExplainsFlag` says what remains true);
* the losing one of two overlapping signups with one e-mail, or of two likes by one
  user, is answered with an internal error by way of the unique index.

Of the marketplace and the matching:

* promotion is not one-shot when requests overlap or one dies before the link
  (`DuplicatesBounded` says how often it can happen);
* the lost updates of the quota counter let an organization post more free RFPs than
  its quota; adding a member twice locks that member out (`repositories.py:471`), and
  a sole admin can do so to herself, after which nobody can act for the organization;
* no endpoint publishes a solution;
* three fetches are capped at 1000 rows. Two are made before visibility or tags are
  looked at, so matching rows beyond them are in no page. The third is that of the
  candidates of `GET .../attribute-matches` (`marketplace_service.py:61, 408`), for which
  its comment says that it "must consider every published Solution": fit solutions
  older than the newest 1000 are not in its answer, but are among the matches of the
  worker, which has no cap; `SameAsBackend` says so;
* `run_matching_job` guards its last commit too (`marketplace_matching_job.py:403-416`). If
  that commit took effect and yet raised, the run is marked failed and keeps its
  matches. In `MatchRuns` a commit that raises has had no effect, and this is the one
  case that `AllOrNothing` leaves out;
* `rank_signal` (244-248) and `fuse_rrf` (300-305) say that leaving a solution out of a
  signal spares it a penalty, but a missing signal contributes nothing to the fused
  score, less than the last rank does. On the instance of `MatchingJob.cfg` a solution
  without an embedding can rank behind one that it beats on every signal it has and
  whose embedding scored a real 0.0; `SignalsRankAhead` says what fusion does guarantee:
  an advantage on all signals counts, and more signals outweigh fewer only as long as
  the shortlist is short against the constant 60;
* the code adds floating-point shares in an order that depends on hashing, which over
  three or more signals could tell exact ties apart; the model adds fractions;
* the worker takes for granted that the database driver hands it vectors as lists;
* `docker-compose.prod.yml:53` says lost jobs are enqueued again by the next
  invocation, but nothing enqueues a pending run again.

Of the web client:

* it reads RFPs without its token (`RealRFPsPort.ts` 36-61, `RealMatchingPort.ts`
  14-22), so members do not see their own invite-only RFPs there;
* it asks for the first page of 20 only, so the 21st comment of a thread is not shown;
* a wrong password is a 401 like any other: the error the login page looks for is
  replaced by the one of an expired session, its message is never shown, and the token
  another tab has stored meanwhile is cleared;
* storage that throws costs commitment ids in silence (`commitmentIdCache.ts`): a write
  that fails is passed over (33-36), so the id of a new commitment is not kept; a map
  that cannot be read counts as empty (23-27), and the next write stores it over the
  ids of all other problems. The commitment and its slot are then out of its user's
  reach, since no endpoint tells the id, and the browser says nothing of it;
* of two tabs, one can go on showing a user whom the stored token no longer names;
* a fetch of the current user that fails in the network leaves the tab authenticated
  without a user, although a comment there counts on the token having been cleared.

## 5. Fairness

Only `MatchRuns` states liveness. A trigger request that has started runs to its
end (its thread is scheduled), and a worker that listens keeps taking and
finishing jobs (`Worker.work()` loops, and a job that hangs is ended by its timeout,
which the job handler sees as an exception): weak fairness per request and per
worker. Nothing forces faults, edits or new requests. The other
components promise nothing eventually: a user may never act, a handler may die, an
answer may be lost and nobody asks again.

## 6. Proofs

Every invariant and every action property that the passing runs check is also a
theorem. All theorems hold for every value of the constants that the named
assumptions allow: any number of users, problems, keys, handlers, tabs, RFPs,
workers, rows, solutions, edits, any slot limit, period, window, quota, page size,
fetch cap. Handlers may die wherever the module lets them. Assumed are only the
constants' types (`TierAssumption`, `BoundAssumption`, `MarketplaceAssumption` and so
on), among them that some sets are finite (keys and threads, `Objectors`, e-mails and
tabs, solutions, the embeddings of a catalog), that in `Marketplace` "nothing" is no
organization, and that in `FeedModeration` `TopLevel`, the absent parent, is no
comment; TLC evaluates them in every run. Theorems that are about one handler at a
time say so with `Cardinality(Threads) = 1` as a hypothesis.

An induction over data (over the terms of a sum, the places of a list, the depth of a
tree) does not go through an induction theorem. Such a lemma is proved by its least
counterexample instead: the sizes at which it fails are a set of numbers, a nonempty
one has a least element (from well-foundedness), and that element is refuted.

`Commitments_proofs`

* `TypesCorrect`: type correctness. It needs `TypesInvariant`, which adds to the
  types what a handler in each step may hold.
* `RowsExist`: a handler that works on a commitment works on an existing row, whose
  owner, problem and start never change. The other invariants rest on it.
* `SlotOverrun`, `SlotLimitSerially`. The inductive invariant charges every handler
  that has passed the count with the slot it will take: the active commitments of
  a user and those handlers together never exceed the bound, because whoever
  passed the count did so while fewer than `MaxActive` were active. With one handler
  the bound is `MaxActive` itself.
* `TerminalNeverReopens`: an action property, by cases on what a save may write.
* `NoEarlyExit`: from `LockInv`: no lock expires before the start plus one period,
  and a handler that will end a commitment has seen the lock expired.
* `AuditIsComplete`, `AuditIsTruthful`: from `AuditInv`: whatever row is missing is owed
  by a handler that still has it to write or has died on it, and a handler about to
  write one has saved what the row tells of.

The same module, with one handler:

* `OnePerProblem`, `EndsAreFinal`: the invariant `Serial` says that what the only handler
  has seen is still what there is, which no interleaving bound could say, and that there
  is one active commitment for each user and problem, the one about to be inserted
  included.
* `PromiseKept`: the engine implements `FocusSlots`. The mapping makes the slots of a user
  the active rows; an insert is a `Spend`, a save a `Renew` or a `Release`, and all other
  steps stutter. That the lock of a renewed slot is the later one, and that a slot is
  there for a `Spend`, come from `Serial` and the count.
* `HistoryIsTrue`: from `Latest`: the last audit row of an ended commitment is that of
  its end, or is still owed, or was owed by a handler that died. `Engaged`, which says
  that the row the only handler is at work on is as it left it, keeps this true.
* `ReputationIsTheSum`: from `ReputationInv`: a user's reputation is the total of what
  the outcomes are worth, less the one a handler has still to pay; it says nothing of a
  user on whom a handler died, nor does the property. `Engaged` gives that the value
  about to be written is the one stored plus the outcome's. The lemmas on sums over
  finite sets (a term taken out, a term changed, the order of no matter) are proved
  there.

`ProblemLifecycle_proofs`

* `ResolutionIsCorroborated`, for any number of handlers: an audit row that claims a
  resolution tells of one (from `AuditIsTruthful`), so two claims are two commitments.
* `WindowsNeverMove`, `VerdictsAreFinal`, with one engine handler: `ClaimsHold` says that
  a claimed commitment is resolved and no handler still owes it a save or a row, so
  claims only accumulate and the earliest two stay (the least element of a set of times,
  from well-foundedness). A verdict stays because a handler that adds an objection had
  found the window open, and one that finishes late counts for nothing more.
* `NoObjectionBeforeClaims`: from `ObjectionInv`: an objection handler past the check of
  the window has found two claims, and they stay.
* `ObjectionsAreBounded`, with one engine handler and any number of objection handlers:
  `ObjectionRoom` says that among the handlers there is one for each objection of the
  user already in the window and another for each that may still come, because a
  handler that can add one has looked before the first was there. Who counts as such
  depends on what each has read: the members, the claims or the window itself.
  `OneObjectionSerially` is the case of one objection handler.

`FeedModeration_proofs`

* `VoiceGated`: from `VoiceInv`: a handler that has passed the gate works for a user with
  a commitment, and what it hangs content on exists. `ThreadsStay`: the same invariant
  carries the post of the parent comment.
* `RepliesAreShown`: from `RepliesFollow`: the comments can be given ages such that each
  reply is younger than its parent, so there is no cycle. The rendered set is the
  least one closed under replies; of the comments it lacked, the oldest would have a
  parent that was fetched and is lacking too, or would be a root.
* `LogExplains`: from `LogInv`: a hidden item is explained by the last row of its log, or
  a handler is at work on it, or one died; the handlers that have *seen* an item hidden
  have to be counted in, since they skip their write.

`Marketplace_proofs`

* `AdminIsThere`, `OneTrueEvent`: an organization without an admin, or an RFP without its
  event, is in the hands of the request that made it, or that request died; and the
  event such a request will write tells the flag it has set.
* `NobodyIsBilledEarly`: a lost update only makes the stored counter smaller than the
  number of postings, so who finds it above the quota has that many postings before.
* `PromotionsAreBounded`: whoever added a problem before the RFP's first link either has
  still to link it or has died; after the link nobody starts.

`Listings_proofs`

* `ShownCanBeRead`: from `StillThere`: a row that was shown is in the table, an RFP that
  was shown can still be shown, and so can every row that lasts. An RFP keeps its
  visibility, and memberships are only ever added.
* `RepeatsAreBounded`: from `RepeatsFollow`: the rows shown again so far, together with
  those that were shown and are still to come, are no more than the changes that can
  move a row back over the boundary of what has been read.
* `SkipsAreBounded`: from `MissesFollow`, the same for lasting rows that are among those
  read past but were not shown. Both rest on lemmas about places in a finite order: the
  first n rows are n rows or all of them, and a row that is added, taken out or moved
  takes at most one other over any boundary.

`MatchRuns_proofs`

* `RunEndsOnce`, `MatchesAllOrNothing`, `FreshIsShown`, `ShownNeverGoesBack`: the
  invariant `RunInv` says that a run is in the queue, with one worker, ended or lost, and
  in only one of these places. What is shown is the newest completed run by creation, a
  maximum of a finite set (from well-foundedness), so a late completion of an older run
  changes nothing.

`MatchingJob_proofs`

* `ShortlistIsSound`, `ShortlistIsComplete`: from `ShortlistInv`: rows are only ever
  added, so the requirements the job has fetched lie between those of the request and
  those of now, and likewise what it knows of each solution.
* `SignalsCount`: from `FusionInv`: what is stored is a fusion of well-formed scores.
  The rank on each signal is a place in a total order, so what is better on a signal has
  the larger share of it; the sums of shares are compared over a common unit, and more
  signals outweigh fewer as long as the last rank's share stays large enough.
* `ImplementationsAgree`: from `RestInv`: as long as nobody edits, the job holds what the
  tables hold. Then the worker's functions and the API's compute the same: their
  sums are one sum; the API picks some numbering of the scores in descending order
  and the worker's counting of what comes before is one, and a finite ordered set has
  only one numbering; the newest embeddings each may choose are the same. What the API
  shows is compared for every set of solutions that its capped fetch may return: the
  worker's matches among them, no others, for any cap and any number of solutions.

`WebSession_proofs`

* `OwnersEnd`, `UsersAreAwaited`, `LiveTokensStay`: from `SessionInv`: an answer of 401 is
  under way only to a request whose token does not decode, so a 401 that clears a live
  token answers a request that was sent without it; a tab that lacks its user has a
  fetch under way that has not been cancelled, or lost it to the network.
* `SlotIsReachable`: from `ReachInv`: a user has one active commitment at most
  (`OneActive`); an id that no page was told of is neither cached nor in a request, so
  nobody ends its commitment (`Untold`); and one answer at most tells of it
  (`ToldOnce`), so that once received it is the cached one, unless the storage has
  failed since the last id was written, which the history variable `unsaved` records.

Model-checked only: `EveryRunEndsOrIsLost`, which is liveness under fairness and so
beyond what the provers can treat. That the three documented rules of section 4
fail is shown by TLC's counterexamples.

## 7. Plan

The order was by what the platform could least afford to get wrong: the engine, the
lifecycle on top of it, feed and moderation, the marketplace, match runs; then the
scoring and the job that uses it, the lists, accounts and the web session; and the
proofs for all of them. Left:

1. The active organization in the web client, which is stored per browser and not per
   user, as a second cached value in `WebSession`.
2. The membership gate in front of requirements and solutions, and the roster and
   ledger reads of one organization.

## 8. Not modelled

The rate limiter (a library's counters); schemas and presenters (shapes and
formatting); the HTTP call to the embeddings provider and the choice of the client
(nothing calls them yet); the active organization; a commit that takes effect and raises
(section 4); two tabs that write to `localStorage` in the same instant, which the
browser is taken to order; reads of one organization's roster
and ledger; the mobile client, whose session works like the web client's; the
moderation stub, the SARVAM mock and its ping job; pages, styles, manifests and
pipelines. Texts, names, notes and prices are abstracted away wherever no property
tells them apart; passwords are right or wrong; scores are exact fractions and the
spaces of embeddings small.
