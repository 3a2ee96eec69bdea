# Nexus verification project

TLA+ specifications of the parts of Nexus that are hardest to test: the Postgres
job queue, its workers and their loop, the platform-token budget, durable chat runs,
dossier builds, source ingest, storage cleanup and media teardown, podcast sync.
Source paths below are relative to `python/nexus/` unless they start with another
directory of the repository.

Check a configuration with `tlc -config ChatRun.cfg MCChatRun`, a proof with
`tlapm JobQueueProofs.tla`. `PROJECT.json` lists every run, the properties it
checks, a mutant of the code's logic that breaks each property, the theorems, the
hazards and, definition by definition, the source lines a definition stands for.

## 1. The system

Nexus is a reading, listening and writing platform. A browser (through a Next.js
server), an Android shell and a browser extension call a FastAPI application over
one Postgres database and one object store. Everything slow is a row of
`background_jobs`: worker processes claim rows, run a handler, and settle the row.
Chat, oracle readings and dossiers stream their progress as rows of an event table
that the API replays over SSE. All coordination goes through Postgres: row locks,
advisory locks, compare-and-set `UPDATE`s and `NOTIFY`. Sessions are READ COMMITTED,
`autoflush=False`, `expire_on_commit=False`; several results below turn on that.

| Component | State | Operations | Talks to | What is hard | What makes it correct |
|---|---|---|---|---|---|
| Job queue (`jobs/queue.py`) | `background_jobs`: status, attempts, claimed_by, lease, available_at, error, payload | enqueue, promote, reset, supersede, revoke, claim, heartbeat, complete, fail, reschedule, dead-letter, requeue, prune | every service that enqueues, workers | lapsed leases, two owners, a non-monotone attempt count | exact attempt budget; a stale claimant changes nothing; success is final |
| Workers (`jobs/worker.py`) | job, attempt and heartbeat thread in memory | run_once: dead-letter, claim, start, settle; scheduler; LISTEN wait | queue, handlers, hooks | crash at any line, lost commit answers, late heartbeats | every job is settled; none is lost |
| Registry, periodic scheduler (`jobs/registry.py`, `worker.py:336`) | definitions; slot keys | enqueue one row per slot | queue, pruning | two schedulers, retention against slot length | one job per slot |
| Token budget (`services/rate_limit.py`) | reservations, daily usage, charges | reserve, commit, release, expire | generation execution | two lock kinds in two orders, midnight, TTL, swallowed errors | reserved = sum of reservations; quota; charge once |
| RPM and in-flight limits (same file) | request log, in-flight counter | check, acquire, release | chat | crash between acquire and release | counter = executing runs |
| Chat runs (`services/chat_runs.py`, `chat_run_*.py`) | `chat_runs`, `chat_run_events`, journal in the job's payload, `llm_calls` | create, cancel, execute, stream, publish, reconcile, project | queue, budget, provider, tools, SSE | replay after a crash, ambiguous paid calls, stale executors, cancel against dead-letter | paid calls and writes once; one outcome; a cancelled run ends |
| Step journal (`services/durable_step_journal.py`) | `Prepared -> Uncertain -> Completed` per step | checkpoint, reconcile, project | chat, dossiers, oracle, media units | whole-payload writes | completed steps are replayed, never lost |
| Generation execution, ledger (`services/llm_execution.py`, `llm_ledger.py`) | `llm_calls` | plan, reserve, dispatch, terminalize, settle | budget, providers | failure between any two of those | every dispatched call is terminalized and settled |
| Event streams (`services/run_kit.py`, `api/routes/stream.py`, `db/listen.py`) | event rows, cursor | append, replay, wait, end | chat, oracle, dossiers | lost wakeup, reconnect | every event once, in order, then done |
| Dossier builds (`services/artifacts/`) | heads, builds, revisions, terminal children | generate, cancel, reconcile, make current, purge | queue, journal, resource graph | four terminals race under the head lock | one terminal child; a current revision that exists |
| Oracle, Synapse, Dawn Write, media intelligence | reading or unit rows | one LLM task each | queue, journal, budget | as chat, with fewer steps | as chat |
| Source ingest (`services/media_source_ingest.py`) | media, source attempts | accept, run, supersede, publish, recover | queue, storage, libraries | two attempts for one media | one winner, no orphan attempt |
| Storage objects (`storage/`, `tasks/storage_object_cleanup.py`, `tasks/storage_orphan_sweep.py`) | objects; cleanup reservations | reserve, write, recheck, resolve, delete, sweep | ingest, teardown | object store outside the transaction | an owned object exists; an unowned one goes |
| Media teardown (`services/media_deletion.py`) | teardown intents | mark, tear down, void | storage, queue, libraries | jobs of a media that is going | nothing of a deleted media is left |
| Podcasts (`services/podcasts/`) | subscriptions with a sync generation, refresh runs | subscribe, refresh, sync, backfill, transcribe | queue, feeds | late jobs of an old generation | a run agrees with its items; a generation settles once |
| Consumption, Lectern (`services/consumption/`) | cursors, playback, queue of items | record, reorder, finish | clients | several devices | last write wins, order kept |
| Libraries, sharing, permissions, auth | memberships, grants, entries | one transaction each | everything | lock order | no access without a grant |
| Conversations, notes, highlights, contributors, graph, search, vault, billing | domain rows | one transaction each | queue for indexing | data, not order | per service |
| Readers (`epub_*`, `pdf_*`, `reader_*`, `sanitize_html.py`) | derived documents | parse, index, locate | ingest | data | anchors resolve |
| Clients (`apps/web`, `apps/android`, `apps/extension`) | local stores, offline downloads | views, SSE reader, playback | API | offline, reconnect | same as server |
| Deployment (`deploy/`, `docker/`, `scripts/`), migrations | release state on the host | plan, switch, roll back | containers | a failed step | one release is live |

## 2. What is modelled

### JobQueue: the queue and its workers

`row[j]` is a row, `worker[w]` a process. Every action is one transaction of
`queue.py` or one step of `JobWorker` between two transactions; the names are the
code's (`Promote` is `promote_unclaimed_job`, `RequeueDead` is `requeue_dead_job`).

* *Time.* The code compares `now()` with `lease_expires_at` and `available_at`;
  `lease` and `wait` are the ticks left until then. `Tick` is unconditional, so a
  lease may lapse under a live worker at any point.
* *Identity.* A worker id is `hostname:pid` and survives a container restart, and
  `attempts` goes down on a reschedule and to zero on a repair. `token` and
  `claims` are history: they tell claims apart that the code cannot.
* *Failures.* `Crash` is a process that dies, or an error that escapes `run_once`.
  `SettleOutcomeUnknown` is a settling transaction whose answer is lost, committed or
  not; the worker's `except` clause then calls `fail_job`.
* *Heartbeats* may come until the settling transaction is over, as the thread does.
* A dead-letter hook runs in the transaction that kills its row. A hook that
  repairs its own row (chat's) is `Fail` or `DeadLetterExpired` followed by
  `RequeueDead` here, and one step in `ChatRun`.
* Not modelled: the order of the claim (`SKIP LOCKED` may skip any prefix), payloads.
  Dedupe keys of slots, the scheduler, `LISTEN` and hooks that raise are `WorkerLoop`'s.

`JobContract` is what a caller may rely on: a job is open until it is done or dead,
dead after exactly `MaxAttempts` lost executions, done for ever, and reopened only
by a repair. `JobQueueContract` maps rows to it (`Seen`) and claims `Contract!Spec`.

### WorkerLoop: run_forever over the queue

`Queue == INSTANCE JobQueue`; `loop[w]` is what `run_forever` holds between two
statements: where it is, `idle_wait_seconds`, the time to `next_scheduler_at`, whether
a notification of its lane has arrived, and the slot and snapshot of a scheduler's
transaction. `JobQueue` assumes that an idle worker looks at its lane again; here that
is the result (`EveryRowServed`), and only time and the loop's own steps are fair.

* `Insert` and `Slotted` are `enqueue_unique_job` of one slot. The dedupe index is not
  among `RETRYABLE_UNIQUE_CONSTRAINTS`, so a lost race may also raise: the whole pass,
  with every other kind, is then lost until the next interval (`PassLost`).
* `Notify` is the commit of a statement with `pg_notify`, `Quietly` of one without:
  `complete_job`, `reschedule_running_job`, `update_unclaimed_job`, claims, and
  everything that time does. `quiet` remembers the rows whose last change was one.
* `RunFails` is the database failing under `run_once`, or a hook that raises an
  `SQLAlchemyError`; any other error escapes `run_forever` and is `Crash`. How often is
  bounded: a row whose hook always raises is first in line for ever and stops its lane.
* `Retained` is a premise and named as one: a finished row of a slot outlives the slot
  and the passes in it. Retention is at least a day and deployed intervals at most one,
  but no setting enforces it; without it (`RetainedNever`) a slot runs twice.
* One periodic kind, whose row may be inserted again after pruning. Left out: the health
  interval, which only shortens waits, the doubling of the backoff, shutdown.

### TokenBudget: reserve, commit, release

`call[c]` is one generation with the transaction it is in; `resv`, `usage`, `charge`
are the three tables, `lock` the advisory locks. A step ends where a transaction can
wait: the advisory lock of (user, day), or a reservation's row lock. `now()` is the
start of the transaction, so each remembers its day and what had expired then. The
deadlock PostgreSQL breaks, the error that `_db_swallow` only logs, a lost commit
answer, a crash, midnight and the time to live are actions. Not modelled: RPM,
in-flight slots, several users (they share no row), several entitlement periods.

### ChatRun: one run over its job

`Queue == INSTANCE JobQueue` with one job; its claim, heartbeat, repair, completion
and crash are `JobQueue`'s own, composed with what chat does in the same transaction.
`exec[w]` is what the handler holds in memory: its next statement, its copy of the
journal, the run's status in the session's identity map (read once by `Load`, never
refreshed: `SELECT ... FOR UPDATE` without `populate_existing` does not overwrite
loaded attributes), the result of the turn. `journal` is the payload in the table.

* A run is a sequence of turns: generation, then a tool, then the next. A generation
  is `Prepared`, gets a ledger row (`StartCall`), reserves, is marked `Uncertain` in
  a commit of its own, and only then is sent (`Send`, outside any transaction).
* `Fenced` is the compare-and-set on job, worker, attempt and live lease;
  `LoseLease` is the defect raised when it fails. `MarkRunning` has no fence, and
  `Send` cannot have one: the code is the same.
* Tools: `lookup` (database only, one transaction), `search` (a billed request, then
  a transaction), `write` (marked uncertain, then effect and completion in one
  transaction). One call a turn.
* Operators: repair, `ProveNotDispatched`, `AttachResult` with the checks of
  `_validate_reconciled_domain_facts`.
* `Windows` opens a race between two transactions that a finding is about:
  `"cancel"` (cancel reads, then commits), `"projection"` (run, then job), `"stall"`
  (a lease lapses between `Load` and `MarkRunning`). With a window closed its two
  halves are one step, so that the other properties can be checked beyond the known
  race; every window is opened by a run of its own.
* Not modelled: prompts, citations, idempotency of create, deletion of a conversation
  with an active run, the in-flight slot, several tool calls in a turn.

### StorageCleanup: one object, its reservations and its media

Writers of one path, one after the other; `storage_object_cleanup` and `media_teardown`
jobs as rows of `JobQueue`; the object store outside every transaction (a write that
has left may land after its process is gone, a delete is a step of its own). Every other
action is one transaction, most under the lock of the media row. `cleanup` and `teardown`
are the checkpoints in the payloads. The property every part shares: an owned object is
there, an unowned one has a job that deletes it.

`Windows` opens four races that the checked instance closes, each seen with TLC:

* `"late"`: a writer is slower than its reservation's window, which otherwise still has a
  client's time-out left when a write starts; the deadline handler claims
  the reservation just before the recheck (`storage_object_cleanup.py:240`), which then
  discards the object although its owner is committed: `OwnedObjectExists` fails in ten
  steps, where the docstring (lines 206-211) expects the recheck to decide.
* `"stall"`: a worker stalls between its decision and the delete (line 363), past its
  lease, and deletes what a later writer owns.
* `"repair"`: the same through a repaired dead row. `"sweep"`: between the sweep's check
  and its delete.

### DossierBuild: one head and its builds

`build[b]` is a build with its terminal children and events, `journal[b]` the two provider
steps in the payload of its job, `subject` what a binding collects, which changes under the
build. Everything that ends a build is one transaction under the head's lock: success,
failure, cancellation, purge, dead letter. Reconciliation and repair are operators'.

* A `document-repair` step that is `Uncertain` in a dead job cannot be reconciled:
  `engine.py:281` asks for synthesis's state, while the docstring at line 246 speaks of
  the build's uncertain step. TLC reaches such a build; the model takes the code.
* An operator who proves "not dispatched" is taken to know: a worker that stalled before
  its request and sends it after the proof is outside the model, as no fence can see it.

`HeadContract` is what the reader of a dossier may rely on: one build is active at a time
and ends once; one that succeeds is shown at once, and nothing is shown but such a build; a
purge takes all. `Fortune` maps a build's row, children, last event and job to it, with a
state of its own for what no order may leave: an event that does not tell the one child.

### PodcastSync: subscriptions, generations, refresh runs

One action per transaction of `sync.py`, `refresh.py` and the (un)subscription; the fetch
of a feed is between two of them. An epoch is a subscription row: one who subscribes again
is another epoch. Episode n is published at time n, so cutoffs and watermarks are numbers;
when a subscription is due is left open. `Stranded` is the gap of finding 3: the
properties hold but for it. Pruning of jobs is left out.

### SourceIngest: the attempts of one media

A command records an attempt in one transaction and gives it a job in another; `call[c]` is
a request between the two, the reconciler another such caller. A worker publishes in a row
of fenced transactions (`PublicationAllowed`: latest attempt, its job, the worker's claim).
Two ways a source is left with nobody to finish it are part of the property:

* `Abandoned`: the request dies between its transactions (`media_source_ingest.py:524`,
  `:1676`). The reconciler looks at `extracting` media only, a retry wants a failed
  attempt, a refresh refuses one in flight.
* `Eclipsed`: a second request for the url of an ingest in flight records an attempt that
  nobody runs (`:488`, `:2155`), or an older attempt is dispatched late (`:2725`), and the
  latest one is finished while an older one, which the fence stops, is in flight.

`docs/cutovers/durable-source-ingest-hard-cutover.md` says "The user can see the item,
delete it, and retry source acquisition when the source intent is retryable"; whether those
two are retryable it does not say, so they are conditions of the property and no finding.
`_enqueue_accepted_attempt` reads a copy that may be stale (`expire_on_commit=False`). Lost
answers of settling transactions are `JobQueue`'s; the inspect phase is folded into the next.

## 3. Runs

| Run | Shows | Bounds and why they are enough |
|---|---|---|
| `queue` | attempt ledger, fences, no effect of stale workers; every job of a served lane is settled; `JobQueue` implements `JobContract` (`FairSpec`) | 2 jobs in 2 lanes, one of an unknown kind, one never pruned when dead; 2 attempts (a retry and a last one); `MaxClaims` 3: a reschedule or a repair followed by a whole budget |
| `worker_loop` | one job per slot, no lost wakeup, every row is served (`FairSpec`) | 2 workers in 2 lanes that both schedule, a row of a slot and a caller's, 2 attempts, one fault; intervals of 1 tick. With intervals, idle waits and leases of 2 ticks the two invariants hold over 1.5 million states |
| `budget` | reserved tokens exact until an expiry, quota kept, no reservation leaks, spent is charged once | 3 generations of 2 tokens, limit 5 (the third does not fit), 2 days, TTL 1 tick |
| `chat_run` | paid calls and writes once, nothing completed is lost, one outcome, stale executors harmless; the cancel window is open | 2 workers, 2 turns (a result of one turn must survive the next), 2 attempts, 3 claims: the third claim follows a dead letter and a repair |
| `chat_run_settles` | every run ends or is suspended, a requested cancellation ends the run, a projection misses only the run's end (`FairSpec`); the projection window is open | 1 worker that crashes, stalls and comes back, 2 turns, 3 claims: a suspended run is cancelled and executed by the third |
| `storage` | no job deletes an owned object, no unowned one is unwatched, holds exclude writers, a mark has a job, nothing comes back | 2 writers, 2 reservations (one may hold against the other), 1 teardown, 2 workers, 1 fault, 2 claims; a window of 3 ticks, puts of 2 and a grace of 2, so that a write can land after its writer, its reservation's first look and a teardown's; 1.1 million states |
| `dossier` | one bill a step, the text answers the manifest, builds and jobs agree, every build settles; `DossierBuild` implements `HeadContract` (`FairSpec`) | 1 build, 2 workers, 2 attempts, 2 changes of the subject (away and back), 1 fault or collection that waits, a dead job requeued once or more (`MaxClaims` 3); 270 000 states |
| `podcast` | runs, items and subscription agree, counts and watermark are exact, a generation has a job | 2 generations, 2 runs (either may join either), 2 workers, 2 attempts, 1 episode, 2 faults or switches of `auto_queue`, a dead job requeued (`MaxClaims` 3); 1.4 million states |
| `source_ingest` | stuck only in two known ways, success on one's own artifacts, artifacts never go back, every ingest ends (`FairSpec`) | 2 requests, the reconciler, 2 workers, 2 attempts, 2 jobs, 1 fault |
| `budget_double_release`, `chat_run_cancel_race`, `podcast_dead_letter` | the findings below | the smallest instance with the race |

Larger instances that were run by hand without an error: `dossier` with 1 fault beside 1
collection that waits (670 000 states); `HeadContract` with 2 builds, the second of them
active while a stalled execution of the first lingers (360 000 up to symmetry); `podcast` with 2 faults beside 1 switch (2.9 million), `source_ingest` with 1 worker,
3 attempts and 2 faults (624 000 states up to symmetry), and with 3 jobs (590 000, liveness
included). The type invariant of each module is no property of a run: it is proved of all eight
(section 5), after TLC had found no violation on the instance of the run.

`MaxClaims` stops repairs, reschedules and new intents of a row (in `ChatRun` also
crashes, stalls and defects) after that many claims, nothing else; `MaxFaults` bounds crashes,
failures of the database and leases that lapse under live workers together. `MaxDelay`, `MaxTicks`
and `LastDay` bound clocks. `CHECK_DEADLOCK FALSE`: a system whose jobs are deleted
or whose run is over really stops.

### Fairness

`JobQueue`: time passes; a worker goes on from one statement to the next (weak
fairness of its own steps together: handlers end, which the lease and the HTTP
time-outs bound); and a row that is eligible again and again is claimed in the end
(strong fairness): a claim and its crash alternate, while the claim order is by
priority and age, so a row cannot be overtaken for ever. Nothing is assumed of crashes, lost
commits, heartbeats or callers; the property excludes only a caller that pushes
`available_at` back for ever. `ChatRun`'s fairness is the same with the executor's steps
in the place of the handler's. Faults stop after `MaxClaims` claims there, which is
what "a lease does not lapse under every attempt" means on a bounded instance; `DossierBuild`
and `SourceIngest` take over the same form. `WorkerLoop` needs less: weak fairness of
time and of each process's own steps, nothing of the claim.

## 4. Findings

Each is a run that TLC must find violated; `PROJECT.json` quotes the sentence of the
repository it contradicts.

1. **Double release** (`budget_double_release`): a settlement finds its reservation,
   expires it with the others, then subtracts it again.
2. **Cancel against dead-letter** (`chat_run_cancel_race`): each looks for the other
   before the other is visible; the run stays suspended.
3. **Dead letter of another attempt** (`podcast_dead_letter`): the hook compares the attempt
   that claimed the generation with the attempt that died, and ends nothing when the last
   attempt died before its own claim.

Seen with TLC while modelling, in windows or bounds that the checked instances close, and
without a sentence of the repository that each contradicts:

* *Abandoned settlement*: a reserve and a settlement lock in opposite orders; the settlement
  that PostgreSQL aborts is only logged, and its tokens stay reserved to the TTL.
* *Midnight*: the advisory lock of a reserve is per day and the quota per period, so two
  reserves on either side of midnight can both take the last tokens (`TokenBudget` with two
  days, a limit of 3 and two reservations of 2). `QuotaKept` is checked within one day.
* *Attached result of another turn*: after a retry before dispatch `call_seq` is not
  `turn + 1`, and a result is attached to the wrong ledger row (`chat_run_steps.py:623`).
* *Resurrected run* (`Windows = {"stall"}`): `mark_running` by a stalled worker puts a
  finished run back to `running`.
* *Projection skew*: run and job are read in two statements around the run's end;
  `ProjectionMissesOnlyTheEnd` says that nothing else is missed.
* The windows of `StorageCleanup`, the unreconcilable step of `DossierBuild`, the two gaps
  of `SourceIngest` and the premise `Retained` of `WorkerLoop` (section 2).

`docs/modules/jobs.md` also says that only `enrich_metadata` and `media_unit_build`
declare rescheduling, while the registry lets `synapse_scan` do so; no run depends on it.

## 5. Proofs

What tlapm proves, for all values of the constants that satisfy the named assumptions of
the modules (`WorkersAssumption`, `LaneAssumption`, `PolicyAssumption` of `JobQueue`,
`LoopAssumption`, `ChatAssumption`, and so on: disjointness and `Nat` bounds):

| Module | Theorem | Statement |
|---|---|---|
| `JobQueueProofs` | `LedgerExact`, `FenceSound`, `DeadRowsExplained` | `Spec => []P` for `AttemptLedger`, `OwnerHoldsLatestClaim`, `DeadSaysWhy` |
| | `SuccessFinal`, `StaleWorkerHarmless` | `Spec => P` for the action properties `SuccessIsFinal`, `StaleWorkerSettlesNothing` |
| | `QueueKeepsContract` | the queue implements `JobContract`, step by step |
| the eight | `TypeCorrect`, in `WorkerLoopProofs` `TypesKept`, in `TokenBudgetProofs` `BudgetTyped` | `Spec => []TypeOK`, whatever windows are open |
| `WorkerLoopProofs` | `SlotsInsertedOnce`, `NoWakeupIsLost` | `Spec => []P` for `OneJobPerSlot`, `NoLostWakeup` |
| `ChatRunProofs` | `RequestsAreBilledOnce`, `WritesHappenOnce`, `ActiveRunsHaveJobs`, `OutcomeIsToldOnce`, `ProjectionsAreSound` | `NoStall`: `Spec => []P` for `BilledOnce`, `WrittenOnce`, `ActiveRunHasJob`, `DoneEndsTheRun`, `ProjectionMissesOnlyTheEnd` |
| | `StaleExecutorsAreHarmless` | `NoStall`: `Spec => StaleExecutorIsHarmless` |
| | `FencedInvariant` | whatever windows are open: `Spec => []FInv` (below) |
| | `ReplayInputIsKept`, `StaleExecutorsOnlyMark` | whatever windows are open: `Spec => P` for `CompletedIsKept`, `StaleMarksAtMost` (below) |
| `DossierBuildProofs` | `BuildEndsOnce`, `StepBilledOnce`, `RevisionIsOfItsManifest`, `ActiveBuildHasJob` | `Spec => []P` for `OneEnd`, `BilledOnce`, `TextAnswersManifest`, `JobsMatchBuilds` |
| | `DossierKeepsContract` | the engine implements `HeadContract`, step by step |
| | `DossierHeadSound` | `Spec => []HeadSound`: one active build of a head at a time, and the current revision is there |
| `PodcastSyncProofs` | `SyncNeverLosesItsJob`, `RunsFollowTheirItems`, `JoinersSeeTheGeneration`, `CountsAreExact`, `WatermarkIsSafe` | `Spec => []P` for `ActiveSyncHasJob`, `RunsAgreeWithItems`, `JoinedItemsMirror`, `CountIsWhatWasIngested`, `WatermarkMissesNothing` |
| `SourceIngestProofs` | `SourceInvariant`, `SourceStuck` | `Spec => []P` for `IInv` (below), `StuckOnlyIfAbandonedOrEclipsed` |
| | `SourceRecorded` | `Spec => []Recorded`: the attempts of a source are well-formed and what is published names one of them |
| | `SourceSucceedsOnItsOwn`, `SourceNeverGoesBack` | `Spec => P` for `SucceedsOnItsOwnArtifacts`, `ArtifactsNeverGoBack` |
| `TokenBudgetProofs` | `BudgetInvariant`, `BudgetLeaksNothing`, `BudgetExact`, `BudgetSpentIsCharged`, `BudgetQuotaKept` | `Spec => []P` for `IInv` (below), `NoReservationLeaks`, `ExactUntilExpiry`, `SpentIsCharged`, `QuotaKept` |
| `StorageCleanupProofs` | `IntentKeepsItsJob` | `Spec => []IntentHasJob`, whatever windows are open |
| | `DeletedStaysDeleted` | without `"late"`: `Spec => []NothingComesBack` |
| | `HoldsAreExclusive`, `OrphansAreWatched` | without `"late"` and `"repair"`: `HoldIsExclusive`, `NoUnwatchedOrphan` |
| | `OwnedObjectsAreKept` | with no window open: `Spec => []JobsKeepOwnedObject` |

**Types.** They follow from the inductive invariants below, but for the counters those say
nothing of: attempts spent, faults, the bounds of `SourceIngest` (`Bounded`), each kept by a
lemma of its own (`SpentStep`, `FaultsStep`).

**JobQueue.** `IInv == RowsOK /\ WorkersOK /\ ClaimantHoldsLatestClaim`. The properties alone
are not inductive, for three reasons. The fence tests a lease, and a lapsed lease says
nothing of the next step, so `ClaimantHoldsLatestClaim` drops it: a worker still at the job
that names it as claimant holds the latest claim, whether its lease lives or not. A reclaim
hands the row on, so it needs that `claimed_by` is set exactly while a row runs
(`GoodRow`). The ledger of a row that is absent must be zero for `Enqueue` to start a whole
budget. `RowsStep` goes through the actions for the rows, `OnlyClaimsTake` shows that no step
but a claim makes a worker the claimant of a running row, and `ClaimTakes` that a claim gives
it the newest token. The refinement maps each action to one of the contract's or to a
stutter, with `GoodRow` to know that an execution that is lost is the last one exactly when
the row dies.

The modules over the queue instantiate this one (`QP`). Its last section, `Tidy`, is what
they need of it: rows well-formed, a worker idle exactly when it has no job, and one lemma
for each operation that says which rows, workers and claims it leaves alone.

**WorkerLoop.** `Typed /\ SlotsOK /\ WaitsOK`. That a slot is inserted once needs three facts
about the dedupe keys: a row that is gone has none (`GoneHasNoKey`), nothing was inserted for
a slot to come, nor for the current one while no row has its key (`SlotOnce`), and a pass that
saw no row of its slot, where there is none now, comes first (`PassFirst`). Pruning keeps them
because of `Retained` only. `WaitsOK` counts: no row of the lane that has not changed quietly
becomes serviceable sooner than the time-out of a worker that waits and has heard nothing; it
is established by the look, which comes after `LISTEN`, and time runs on both sides alike.
Every step but five is `Plain`: it begins no pass and no wait, drops no row, and changes none
without telling those who wait or being quiet.

**ChatRun.** Two layers. `FInv` holds of every execution, `Prompt` as long as no lease lapses
between `Load` and `MarkRunning` (`NoStall`). In `FInv`, `MemoryOK` says which phases an
executor's copy of the journal has at the step it stands at; `InStep` that the holder of the
claim (`LatestClaim`, the queue's fence) executes the run as it is, once it has marked it
running: what it saw of status and journal is still so; `Resting` that who executes nothing
remembers nothing. That is enough for `CompletedIsKept`: whoever writes the journal holds the
claim (`OnlyTheHolderWrites`) and writes over a copy that is not out of date.

`mark_running` has no fence, so a worker whose lease lapsed can put a finished run back to
`running` (section 4). With the window `"stall"` TLC violates `BilledOnce`, `WrittenOnce`,
`ActiveRunHasJob`, `DoneEndsTheRun` and `StaleExecutorIsHarmless`, which are therefore proved
under `NoStall` only, while `CompletedIsKept` holds, in TLC as in its proof. `StaleMarksAtMost`
bounds the damage in any execution: a worker that lost its claim never writes the journal, and
of the run at most the status, to `running`, at that one statement. In `Prompt`, `OnTime` says
that a worker about to mark the run still holds it; `BilledOK` counts the requests that were
sent and those about to be, against the proofs that one was not sent: there is room for
another only before `Uncertain`; `WrittenOK` binds a write to `Completed` or to the end of the
run, and `RunOK` is what readers see of it.

**DossierBuild.** `PhaseCoversSending` (who is about to send has the phase committed, and
nobody else is), `HolderKnowsJournal` (the holder of the claim has in memory what the journal
says), `EndsAgree` (status, terminal child and last event of a build are one fact, written
under the head's lock) and `CompletedHasEnded` (the job of a build succeeds after its end)
carry the theorems. For the refinement, `Fate` says what a step may do to a build and `RowFate`
what to its job: a build that has no row is new, whoever writes a terminal child has seen the
build active in the same transaction, and only `Publish` and `make_current` move the head.
`DossierHeadSound` is then read off the contract, whose own invariant (`ContractSound`) is short.

**PodcastSync.** `EpochOK` ties subscription, generation and items of an epoch together:
which items have joined, what was ingested before and after the checkpoint, where the
watermark stands; `HandlerOK` says what the worker between the fetch and its transactions may
still assume of them.

**StorageCleanup.** Four layers, each resting on those before it. `Marks`: a deletion mark
names a teardown whose job is not over, whatever happens to it. `Timing`, while no writer is
slower than its reservation: a write that is on its way has a reservation that is not due
before it lands, and a teardown that is not done waits longer than any write. `Guarded`: one
reservation at a time, a decision to delete means that nobody owns the object, an object that
nobody owns has a cleanup or a teardown that will look at it, and neither is done before the
write has landed. `Kept`: what is owned is there. Each hypothesis is a window of section 2
with a counterexample of its own: without it the theorem is false.
`OrphansAreWatched` needs neither of `"stall"` and `"sweep"`, in which things are
deleted that should not be, and nothing is forgotten.

**SourceIngest.** `IInv == Recorded /\ QP!Tidy /\ Books /\ MediaLive /\ Requests /\ Memories`.
`Recorded` is in two cases. Until its acceptance the media is `Pristine`: no attempts, no jobs,
nothing in memory, nothing published. From then on attempts are only appended, the artifacts
are of one of them, and the fence lets only the latest publish; so an artifact's attempt can
only grow. The first case is needed because `Latest` says nothing of an empty sequence, and a
worker that held a job before the first attempt could publish under it. That nothing else
strands a source needs the whole: job and attempt name each other and stay bound (`Books`);
the job of a latest attempt in flight has not succeeded, because a handler returns only when
its attempt is over; a media that is unfinished has an attempt in flight (`MediaLive`); a
request between its two transactions still finds the attempt it recorded (`Requests`); and
what a handler published it remembers until it declares it (`Memories`).

**TokenBudget.** Two halves. `Shape` has no sums: a row belongs to its generation and to a day
that has come; a settlement that found its row holds it, so nobody deletes it meanwhile; what a
reserve has deleted and not committed nobody holds; who decides or charges has the lock of the
day. On it rest the sums, each kept by comparing a table before and after: the rows that
expire are a subset of the day's (`AmountOfPart`), and only `Admit` and `Charge` write.
`QuotaKept` needs `SeenIsUsed`: what a reserve has read is still so when it decides, because
on the first day there is one lock; after midnight there are two, and the theorem would be false (section 4).
A sum over a set is a fold, which chooses its next element; the library states facts of
cardinalities only. `TotalCounts` proves once that a sum of naturals is the cardinality
of a set of units, by a smallest set for which it is not, and every lemma on sums follows.

Only model-checked: liveness (`EventuallySettled`, `EveryRowServed`, `RunSettles`,
`CancelSettles`, `BuildSettles`, `IngestEnds`), since the prover has no fairness or `ENABLED`.
Every other property that a passing run checks is a theorem, under the hypotheses of the
table, which the instance of the run satisfies.

## 6. Plan

*Done:* `JobQueue`, `JobContract`, `JobQueueContract`, `HeadContract`; `WorkerLoop`; `TokenBudget`; `ChatRun`,
`DossierBuild`, `StorageCleanup`, `PodcastSync` and `SourceIngest` over `JobQueue`; the proofs
of section 5.

*Left*, in order of how much a mistake would cost:

1. A second media in `SourceIngest`: supersession of duplicates, winner and loser.
2. `EventStream`: replay by cursor, wakeups, end of the stream; `InflightSlots`: the counter
   against crashes of `ChatRun`'s executors.
3. If they allow: podcast backfills and transcription, consumption cursors, the release
   state machine of `deploy/hetzner/release.py`, Android downloads.

## 7. Not modelled, and why

Parsers, readers, search, ranking, prompts and views are data without an order to get
wrong; libraries, sharing, conversations, notes, contributors and billing are single
transactions under ordered locks; providers, feeds, object storage and payment are
external. Section 6 names what is left out only for now. `PROJECT.json` "components"
has every part with its reason, and "hazards" every hazard with the properties that
cover it or a note why none does.
