----------------------------- MODULE PodcastSync -----------------------------
(***************************************************************************)
(* Podcast subscriptions, the generations of their sync, and the refresh   *)
(* runs that join them (services/podcasts/sync.py, refresh.py and          *)
(* subscriptions.py), with the workers that run the sync over JobQueue.    *)
(*                                                                         *)
(* A subscription is identified by its epoch: one who subscribes again has *)
(* another.  A generation is one refresh within it and has one job.  Every *)
(* action is one transaction, or the fetch of a feed between two of them.  *)
(*                                                                         *)
(* Episode n of a feed is published at time n: a cutoff, a watermark and a *)
(* look at the feed are all the number of the last episode before them.    *)
(***************************************************************************)
EXTENDS Integers, FiniteSets

CONSTANTS
  Epochs,        \* podcast_subscriptions.id
  MaxGeneration, \* bound: MaxGeneration[e] generations of e
  Runs,          \* podcast_refresh_runs
  Workers, NoWorker, NoJob,
  MaxAttempts,   \* max_attempts of podcast_sync_subscription_job
  MaxEpisodes,   \* bound: length of a feed
  MaxFaults,     \* bound: crashes, lapsed leases of live workers, defects and
                 \* switches of auto_queue, taken together
  MaxClaims      \* bound: a dead job of so many claims is not requeued

Jobs == {j \in Epochs \X (1..3) : j[2] <= MaxGeneration[j[1]]}

ASSUME PodcastAssumption ==
  /\ NoWorker \notin Workers /\ NoJob \notin Jobs
  /\ MaxGeneration \in [Epochs -> 1..3]
  /\ MaxAttempts \in Nat \ {0}
  /\ {MaxEpisodes, MaxFaults, MaxClaims} \subseteq Nat

VARIABLES
  row, worker, claims, spent, \* the queue's
  feed,     \* feed[e]: what the publisher has published, external
  known,    \* known[e]: episodes ingested
  queued,   \* history: queued[e], episodes that were ever put in the queue
  sub,      \* sub[e]: the subscription
  run,      \* run[r]: the status of a refresh run
  item,     \* item[r][e]: the item of e in r
  ingested, \* history: ingested[j], episodes first seen by a generation
  faults,   \* history: faults and switches so far
  exec      \* exec[w]: what the handler in w holds in memory

queue == <<row, worker, claims, spent>>
vars  == <<queue, feed, known, queued, sub, run, item, ingested, faults, exec>>

Queue == INSTANCE JobQueue WITH
  Allowed <- [w \in Workers |-> Jobs],
  UnknownKind <- {}, NeverPruneDead <- {}, RetryDelays <- <<>>,
  LeaseTicks <- 1, MaxDelay <- 0

-----------------------------------------------------------------------------
(* Data *)

\* _ACTIVE_SYNC_STATUSES, _ACTIVE_ITEM_STATUSES; _TERMINAL_SYNC_STATUSES
Live  == {"Pending", "Running"}
Ended == {"Complete", "SourceLimited", "Failed"}

Checkpoint == [status: {"none", "Complete", "SourceLimited"},
               cutoff: 0..MaxEpisodes, count: 0..MaxEpisodes]
NoCheckpoint == [status |-> "none", cutoff |-> 0, count |-> 0]

Subscription ==
  [status: {"absent", "deleted"} \cup Live \cup Ended, generation: 0..3,
   job: Jobs \cup {NoJob}, attempt: 0..MaxAttempts, checkpoint: Checkpoint,
   autoQueue: BOOLEAN, watermark: 0..MaxEpisodes]

Absent == [status |-> "absent", generation |-> 0, job |-> NoJob, attempt |-> 0,
           checkpoint |-> NoCheckpoint, autoQueue |-> FALSE, watermark |-> 0]

Item == [status: {"none", "Skipped"} \cup Live \cup Ended, generation: 0..3,
         count: 0..MaxEpisodes]
NoItem == [status |-> "none", generation |-> 0, count |-> 0]

Executor == [at: {"none", "claim", "fetch", "ingest", "finalize", "terminalize"},
             cutoff: 0..MaxEpisodes, snapshot: 0..MaxEpisodes]
NotExecuting == [at |-> "none", cutoff |-> 0, snapshot |-> 0]

TypeOK ==
  /\ Queue!TypeOK
  /\ feed \in [Epochs -> 0..MaxEpisodes] /\ known \in [Epochs -> 0..MaxEpisodes]
  /\ queued \in [Epochs -> SUBSET (1..MaxEpisodes)]
  /\ sub \in [Epochs -> Subscription]
  /\ run \in [Runs -> {"none", "Running", "Complete", "Partial", "Failed", "pruned"}]
  /\ item \in [Runs -> [Epochs -> Item]]
  /\ ingested \in [Jobs -> 0..MaxEpisodes]
  /\ faults \in 0..MaxFaults
  /\ exec \in [Workers -> Executor]

Init ==
  /\ Queue!Init
  /\ feed = [e \in Epochs |-> 0] /\ known = [e \in Epochs |-> 0]
  /\ queued = [e \in Epochs |-> {}]
  /\ sub = [e \in Epochs |-> Absent]
  /\ run = [r \in Runs |-> "none"]
  /\ item = [r \in Runs |-> [e \in Epochs |-> NoItem]]
  /\ ingested = [j \in Jobs |-> 0]
  /\ faults = 0
  /\ exec = [w \in Workers |-> NotExecuting]

CountFault == faults < MaxFaults /\ faults' = faults + 1

Active(e) == sub[e].status \in Live

-----------------------------------------------------------------------------
(* Refresh runs *)

\* aggregate_refresh_item_statuses
Aggregate(items) ==
  LET Has(S) == \E e \in Epochs : items[e].status \in S IN
  CASE Has(Live) -> "Running"
    [] ~Has(Live) /\ ~Has({"Failed", "Skipped"}) -> "Complete"
    [] ~Has(Live) /\ Has({"Failed", "Skipped"}) /\ Has({"Complete", "SourceLimited"}) -> "Partial"
    [] ~Has(Live) /\ Has({"Failed"}) /\ ~Has({"Complete", "SourceLimited"}) -> "Failed"
    [] OTHER -> "Complete"

\* Mutant of Recompute: the parents of the items are left as they are.
RecomputeNothing(items) == UNCHANGED run

\* recompute_refresh_runs_in_txn, of the runs of the items that changed.
Recompute(items) ==
  run' = [r \in Runs |-> IF items[r] # item[r] THEN Aggregate(items[r]) ELSE run[r]]

Touch(items) == item' = items /\ Recompute(items)

\* The live items of an epoch (skip_subscription_epoch_in_txn), or of one of
\* its generations, in whatever run they are.
LiveItem(r, e)       == item[r][e].status \in Live
LiveItemOf(r, e, j)  == LiveItem(r, e) /\ j = <<e, item[r][e].generation>>

\* set_joined_items_running_in_txn
ItemsRunning(j) ==
  [r \in Runs |-> [e \in Epochs |->
     IF LiveItemOf(r, e, j) THEN [item[r][e] EXCEPT !.status = "Running"] ELSE item[r][e]]]

\* finish_joined_items_in_txn
ItemsFinished(j, status, count) ==
  [r \in Runs |-> [e \in Epochs |->
     IF LiveItemOf(r, e, j)
     THEN [item[r][e] EXCEPT !.status = status, !.count = count] ELSE item[r][e]]]

\* Mutant of Admitted: a generation that is joined is left to its turn.
AdmittedAsPending(s, e) == "Pending"

\* The status a new item starts with: that of the generation it joins.
Admitted(s, e) == s[e].status

\* admit_subscription_generation_in_txn of each e of S: join the generation
\* that is under way, or begin the next one and enqueue its job.  Only an
\* interactive join has the job's turn brought forward.
Admit(r, S, interactive) ==
  LET new == {e \in S : ~Active(e)}
      begun == [e \in Epochs |->
        IF e \in new
        THEN [sub[e] EXCEPT !.status = "Pending", !.generation = @ + 1, !.attempt = 0,
                !.job = <<e, sub[e].generation + 1>>, !.checkpoint = NoCheckpoint]
        ELSE sub[e]]
      promoted == {sub[e].job : e \in IF interactive THEN S \ new ELSE {}}
      jobs == {begun[e].job : e \in new}
      items == [item EXCEPT ![r] = [e \in Epochs |->
        IF e \in S
        THEN [status |-> Admitted(begun, e), generation |-> begun[e].generation, count |-> 0]
        ELSE NoItem]]
  IN
  /\ run[r] = "none"
  /\ \A e \in new : sub[e].generation < MaxGeneration[e]
  /\ row' = [j \in Jobs |->
       CASE j \in jobs -> Queue!Fresh("pending", 0)
         [] j \in promoted /\ row[j].status \in {"pending", "failed"} -> [row[j] EXCEPT !.wait = 0]
         [] OTHER -> row[j]]
  /\ sub' = begun
  /\ item' = items
  /\ run' = [run EXCEPT ![r] = Aggregate(items[r])]
  /\ UNCHANGED <<worker, claims, spent, feed, known, queued, ingested, faults, exec>>

\* create_manual_refresh_run, of a podcast, a library or all of them; a replay
\* of its idempotency key changes nothing.
Refresh(r) ==
  \E S \in SUBSET {e \in Epochs : sub[e].status \in Live \cup Ended} : Admit(r, S, TRUE)

\* admit_due_refresh_runs: what is due, by now, among the idle subscriptions.
RefreshDue(r) ==
  \E S \in (SUBSET {e \in Epochs : sub[e].status \in Ended}) \ {{}} : Admit(r, S, FALSE)

\* prune_terminal_refresh_runs
PruneRun(r) ==
  /\ run[r] \in {"Complete", "Partial", "Failed"}
  /\ run' = [run EXCEPT ![r] = "pruned"]
  /\ item' = [item EXCEPT ![r] = [e \in Epochs |-> NoItem]]
  /\ UNCHANGED <<queue, feed, known, queued, sub, ingested, faults, exec>>

-----------------------------------------------------------------------------
(* Subscriptions *)

\* Subscribe, an OPML row: a new epoch, whose first generation no run joins.
Subscribe(e) ==
  /\ sub[e].status = "absent"
  /\ Queue!Enqueue(<<e, 1>>)
  /\ sub' = [sub EXCEPT ![e] =
       [Absent EXCEPT !.status = "Pending", !.generation = 1, !.job = <<e, 1>>]]
  /\ UNCHANGED <<feed, known, queued, run, item, ingested, faults, exec>>

\* skip_subscription_epoch_in_txn
Skipped(e) ==
  [r \in Runs |-> IF LiveItem(r, e)
                  THEN [item[r] EXCEPT ![e].status = "Skipped"] ELSE item[r]]

\* unsubscribe_from_podcast.  The job of the epoch is left to find out.
Unsubscribe(e) ==
  /\ sub[e].status \in Live \cup Ended
  /\ Touch(Skipped(e))
  /\ sub' = [sub EXCEPT ![e] = [Absent EXCEPT !.status = "deleted"]]
  /\ UNCHANGED <<queue, feed, known, queued, ingested, faults, exec>>

\* update_subscription_settings_for_viewer
ToggleAutoQueue(e) ==
  /\ sub[e].status \in Live \cup Ended /\ CountFault
  /\ sub' = [sub EXCEPT ![e].autoQueue = ~@]
  /\ UNCHANGED <<queue, feed, known, queued, run, item, ingested, exec>>

\* The publisher, before and during the subscription.
PublishEpisode(e) ==
  /\ sub[e].status # "deleted" /\ feed[e] < MaxEpisodes
  /\ feed' = [feed EXCEPT ![e] = @ + 1]
  /\ UNCHANGED <<queue, known, queued, sub, run, item, ingested, faults, exec>>

OnlyQueue == UNCHANGED <<feed, known, queued, sub, run, item, ingested, faults, exec>>

\* requeue_dead_job.  Pruning, which JobQueue has, leaves jobs here: nothing in
\* this module looks for the row of a job that has ended.
Requeue(j) == Queue!RequeueDead(j) /\ OnlyQueue

Request ==
  \/ \E r \in Runs : Refresh(r) \/ RefreshDue(r) \/ PruneRun(r)
  \/ \E e \in Epochs : Subscribe(e) \/ Unsubscribe(e) \/ ToggleAutoQueue(e) \/ PublishEpisode(e)
  \/ \E j \in Jobs : Requeue(j)

-----------------------------------------------------------------------------
(* The end of a generation *)

\* _lock_subscription_epoch: the row, if it is still of the job's generation.
Epoch(j) == j[1]
Current(j) ==
  sub[Epoch(j)].generation = j[2] /\ sub[Epoch(j)].job = j /\ Active(Epoch(j))

\* The columns all the ends set alike.
EndSubscription(j, status) ==
  [sub EXCEPT ![Epoch(j)] =
     [@ EXCEPT !.status = status, !.job = NoJob, !.attempt = 0, !.checkpoint = NoCheckpoint]]

\* Mutant of FailureCount: what was ingested before the failure is forgotten.
NoCount(j) == 0

FailureCount(j) == sub[Epoch(j)].checkpoint.count

EndFailed(j) ==
  /\ sub' = EndSubscription(j, "Failed")
  /\ Touch(ItemsFinished(j, "Failed", FailureCount(j)))

\* Mutant of DeadLetterApplies: only a generation that was claimed is ended.
DeadLetterIfRunning(j) ==
  Current(j) /\ sub[Epoch(j)].status = "Running" /\ sub[Epoch(j)].attempt = row[j].attempts

\* dead_letter_podcast_subscription_sync: it wants the attempt that died to be
\* the one that claimed the generation.
DeadLetterApplies(j) ==
  /\ Current(j)
  /\ sub[Epoch(j)].status = "Running" => sub[Epoch(j)].attempt = row[j].attempts

DeadLetter(j) ==
  IF DeadLetterApplies(j) THEN EndFailed(j) ELSE UNCHANGED <<sub, run, item>>

-----------------------------------------------------------------------------
(* The handler: run_podcast_subscription_sync_now *)

At(w, point) == worker[w].pc = "executing" /\ exec[w].at = point

Go(w, pc) ==
  /\ Queue!Goto(w, pc)
  /\ exec' = [exec EXCEPT ![w] = NotExecuting]

\* A return, with whatever result, and a defect that raises.
Return(w) == Go(w, "completing")

Memory(w, value) == exec' = [exec EXCEPT ![w] = value] /\ UNCHANGED worker

\* _require_exact_queue_attempt renews the lease of a claim that is current.
Renewed(w) ==
  IF Queue!ClaimIsCurrent(w)
  THEN [row EXCEPT ![worker[w].job].lease = 1] ELSE row

\* What each write after the first requires.
Fenced(w) ==
  LET j == worker[w].job IN
  /\ Queue!ClaimIsCurrent(w) /\ Current(j)
  /\ sub[Epoch(j)].status = "Running" /\ sub[Epoch(j)].attempt = worker[w].attempt

NextStep(j) == IF sub[Epoch(j)].checkpoint = NoCheckpoint THEN "fetch" ELSE "finalize"

\* _claim_sync_attempt
ClaimSync(w) ==
  LET j == worker[w].job
      e == Epoch(j)
  IN
  /\ At(w, "claim")
  /\ row' = Renewed(w)
  /\ IF Queue!ClaimIsCurrent(w) /\ Current(j)
     THEN /\ sub' = [sub EXCEPT ![e].status = "Running", ![e].attempt = worker[w].attempt]
          /\ Touch(ItemsRunning(j))
          /\ Memory(w, [at |-> NextStep(j), cutoff |-> feed[e], snapshot |-> 0])
     ELSE Return(w) /\ UNCHANGED <<sub, run, item>>
  /\ UNCHANGED <<claims, spent, feed, known, queued, ingested, faults>>

\* The provider and the feed, read with no lock.
Fetch(w) ==
  /\ At(w, "fetch")
  /\ Memory(w, [exec[w] EXCEPT !.at = "ingest", !.snapshot = feed[Epoch(worker[w].job)]])
  /\ UNCHANGED <<row, claims, spent, feed, known, queued, sub, run, item, ingested, faults>>

\* sync_subscription_ingest: what is known once the snapshot has been merged.
Merged(w) ==
  LET e == Epoch(worker[w].job)
  IN  IF exec[w].snapshot > known[e] THEN exec[w].snapshot ELSE known[e]

\* _write_ingest_checkpoint
Ingest(w) ==
  LET j == worker[w].job
      e == Epoch(j)
      found == Merged(w) - known[e]
  IN
  /\ At(w, "ingest")
  /\ row' = Renewed(w)
  /\ IF ~Fenced(w) THEN Return(w) /\ UNCHANGED <<known, sub, ingested>>
     ELSE /\ Memory(w, [exec[w] EXCEPT !.at = "finalize"])
          /\ IF sub[e].checkpoint # NoCheckpoint THEN UNCHANGED <<known, sub, ingested>>
             ELSE /\ known' = [known EXCEPT ![e] = @ + found]
                  /\ ingested' = [ingested EXCEPT ![j] = @ + found]
                  /\ \E status \in {"Complete", "SourceLimited"} :
                       sub' = [sub EXCEPT ![e].checkpoint =
                         [status |-> status, cutoff |-> exec[w].cutoff, count |-> found]]
  /\ UNCHANGED <<claims, spent, feed, queued, run, item, faults>>

\* Mutant of Cutoff: that of the attempt that finalizes.
CutoffOfAttempt(w) == exec[w].cutoff

Cutoff(w) == sub[Epoch(worker[w].job)].checkpoint.cutoff

\* _finalize_healthy_sync
Finalize(w) ==
  LET j == worker[w].job
      e == Epoch(j)
      limit == Cutoff(w)
      advance == sub[e].autoQueue /\ sub[e].watermark < limit
      ended == EndSubscription(j, sub[e].checkpoint.status)
  IN
  /\ At(w, "finalize")
  /\ row' = Renewed(w)
  /\ IF Fenced(w)
     THEN /\ queued' = IF advance
                       THEN [queued EXCEPT ![e] = @ \cup
                              {n \in 1..known[e] : sub[e].watermark < n /\ n <= limit}]
                       ELSE queued
          /\ sub' = IF advance THEN [ended EXCEPT ![e].watermark = limit] ELSE ended
          /\ Touch(ItemsFinished(j, sub[e].checkpoint.status, sub[e].checkpoint.count))
     ELSE UNCHANGED <<queued, sub, run, item>>
  /\ Return(w)
  /\ UNCHANGED <<claims, spent, feed, known, ingested, faults>>

\* An ApiError of the provider, of the feed, of the ingest or of the queue.
Refuse(w) ==
  /\ \E point \in {"fetch", "ingest", "finalize"} : At(w, point)
  /\ Memory(w, [exec[w] EXCEPT !.at = "terminalize"])
  /\ UNCHANGED <<row, claims, spent, feed, known, queued, sub, run, item, ingested, faults>>

\* _terminalize_modeled_failure
Terminalize(w) ==
  /\ At(w, "terminalize")
  /\ row' = Renewed(w)
  /\ IF Fenced(w) THEN EndFailed(worker[w].job) ELSE UNCHANGED <<sub, run, item>>
  /\ Return(w)
  /\ UNCHANGED <<claims, spent, feed, known, queued, ingested, faults>>

\* Any other exception, at any point: a retry of the queue.
Raise(w) ==
  /\ worker[w].pc = "executing" /\ CountFault
  /\ Go(w, "failing")
  /\ UNCHANGED <<row, claims, spent, feed, known, queued, sub, run, item, ingested>>

-----------------------------------------------------------------------------
(* The worker around it *)

Take(w, j) == Queue!Claim(w, j) /\ OnlyQueue

\* dead_letter_expired_job and fail_job run the hook in their transaction.
Expire(w, j) ==
  /\ Queue!DeadLetterExpired(w, j)
  /\ DeadLetter(j)
  /\ UNCHANGED <<feed, known, queued, ingested, faults, exec>>

Fail(w) ==
  LET j == worker[w].job IN
  /\ Queue!Fail(w)
  /\ IF Queue!Owns(w, j) /\ row[j].attempts >= MaxAttempts
     THEN DeadLetter(j) ELSE UNCHANGED <<sub, run, item>>
  /\ UNCHANGED <<feed, known, queued, ingested, faults, exec>>

Enter(w) ==
  /\ Queue!Start(w)
  /\ exec' = IF Queue!Owns(w, worker[w].job) THEN [exec EXCEPT ![w].at = "claim"] ELSE exec
  /\ UNCHANGED <<feed, known, queued, sub, run, item, ingested, faults>>

Sync(w) ==
  ClaimSync(w) \/ Fetch(w) \/ Ingest(w) \/ Finalize(w) \/ Refuse(w) \/ Terminalize(w)

Complete(w) == Queue!Complete(w) /\ OnlyQueue

Crash(w) ==
  /\ CountFault
  /\ Queue!Crash(w)
  /\ exec' = [exec EXCEPT ![w] = NotExecuting]
  /\ UNCHANGED <<feed, known, queued, sub, run, item, ingested>>

\* Leases lapse for dead workers; for live ones as a fault.
Tick ==
  /\ Queue!Tick
  /\ IF \E w \in Workers : Queue!ClaimIsCurrent(w)
     THEN CountFault ELSE UNCHANGED faults
  /\ UNCHANGED <<feed, known, queued, sub, run, item, ingested, exec>>

WorkerStep(w) ==
  \/ \E j \in Jobs : Take(w, j) \/ Expire(w, j)
  \/ Enter(w) \/ Sync(w) \/ Raise(w) \/ Complete(w) \/ Fail(w) \/ Crash(w)

Next == Request \/ (\E w \in Workers : WorkerStep(w)) \/ Tick

Spec == Init /\ [][Next]_vars

-----------------------------------------------------------------------------
(* Properties *)

\* A generation whose hook did not apply: an early attempt claimed it, the last
\* one died or raised before its own claim (_claim_sync_attempt).
Stranded(e) ==
  /\ sub[e].status = "Running" /\ sub[e].attempt # MaxAttempts
  /\ row[sub[e].job].status = "dead"

\* A generation under way has a job that will end it: no end of a job leaves
\* a subscription that admission joins for ever and never begins again.  The
\* one exception is Stranded.
ActiveSyncHasJob ==
  \A e \in Epochs : Active(e) =>
    /\ sub[e].job = <<e, sub[e].generation>>
    /\ row[sub[e].job].status \in {"pending", "running", "failed"} \/ Stranded(e)

\* "dead-letter exhaustion terminalize the subscription and all joined run
\* items" (docs/modules/podcast.md:163-164).
DeadLetterEndsTheSync ==
  \A e \in Epochs : Active(e) => row[sub[e].job].status # "dead"

\* Whoever joins a generation sees it as it is, whenever it joined, and sees
\* its end: a live item is of the generation that is under way.
JoinedItemsMirror ==
  \A r \in Runs, e \in Epochs : LiveItem(r, e) =>
    Active(e) /\ item[r][e].generation = sub[e].generation
              /\ item[r][e].status = sub[e].status

\* A run counts what its generation found first, however many attempts it took
\* and however it failed after that (the checkpoint "cannot recount").
CountIsWhatWasIngested ==
  \A r \in Runs, e \in Epochs : item[r][e].status \in Ended =>
    item[r][e].count = ingested[<<e, item[r][e].generation>>]

\* The watermark passes no episode that was not queued: not one published
\* between the cutoff of the attempt that ingested and that of the attempt that
\* finalized, nor while auto_queue was off.
WatermarkMissesNothing ==
  \A e \in Epochs : \A n \in 1..MaxEpisodes : n <= sub[e].watermark => n \in queued[e]

\* Five transactions change items (admission, claim, finish, dead letter,
\* unsubscription); each leaves every run with the status its items have, so
\* that none is stuck at Running when the last of them has ended.
RunsAgreeWithItems ==
  \A r \in Runs : run[r] \notin {"none", "pruned"} => run[r] = Aggregate(item[r])

=============================================================================
