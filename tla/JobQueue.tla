------------------------------ MODULE JobQueue ------------------------------
(***************************************************************************)
(* The Postgres job queue of python/nexus/jobs: the rows of the table      *)
(* background_jobs (queue.py) and the worker processes that claim, run and *)
(* settle them (worker.py).                                                *)
(*                                                                         *)
(* Every action is one committed transaction of the code, or one step of a *)
(* worker between two transactions.  Time is abstracted to what the code's *)
(* comparisons with now() tell apart: row[j].lease is how many ticks are   *)
(* left before lease_expires_at, row[j].wait how many before available_at. *)
(* The ORDER BY of the claim is not modelled: FOR UPDATE SKIP LOCKED may   *)
(* skip any prefix of it, so a claim may take any eligible row.            *)
(***************************************************************************)
EXTENDS Integers, Sequences, FiniteSets

CONSTANTS
  Jobs,          \* row ids
  Workers,       \* worker ids, hostname:pid; a restarted container keeps its id
  NoWorker,      \* claimed_by IS NULL
  NoJob,         \* a worker between two jobs
  Allowed,       \* Allowed[w]: the jobs whose kind is in the lane of w
  UnknownKind,   \* the jobs whose kind has no definition in the registry
  NeverPruneDead, \* the jobs whose kind sets never_prune_dead
  MaxAttempts,   \* JobDefinition.max_attempts
  RetryDelays,   \* JobDefinition.retry_delays_seconds, in ticks
  LeaseTicks,    \* JobDefinition.lease_seconds, in ticks
  MaxDelay,      \* bound: the largest available_at a caller asks for, in ticks
  MaxClaims      \* bound: after so many claims a row is not refunded any more

ASSUME WorkersAssumption == NoWorker \notin Workers /\ NoJob \notin Jobs
ASSUME LaneAssumption ==
  /\ Allowed \in [Workers -> SUBSET Jobs]
  /\ UnknownKind \subseteq Jobs
  /\ NeverPruneDead \subseteq Jobs
ASSUME PolicyAssumption ==
  /\ MaxAttempts \in Nat \ {0}
  /\ RetryDelays \in Seq(Nat)
  /\ LeaseTicks \in Nat \ {0}
  /\ MaxDelay \in Nat
  /\ MaxClaims \in Nat

VARIABLES
  row,     \* row[j]: the columns of one background_jobs row
  worker,  \* worker[w]: what the process w holds in memory
  claims,  \* history: how often j was claimed
  spent    \* history: executions of j that failed or were lost, since its
           \* budget was last made whole

vars == <<row, worker, claims, spent>>

-----------------------------------------------------------------------------
(* Rows and workers *)

Waiting  == {"pending", "failed"}
Terminal == {"succeeded", "dead"}
Status   == {"absent", "deleted", "running"} \cup Waiting \cup Terminal

Row == [status: Status, attempts: Nat, claimedBy: Workers \cup {NoWorker},
        lease: Nat, wait: Nat, errored: BOOLEAN]

Phases == {"idle", "claimed", "executing", "completing", "failing", "rescheduling"}

Worker == [pc: Phases, job: Jobs \cup {NoJob}, attempt: Nat, token: Nat]

Idle == [pc |-> "idle", job |-> NoJob, attempt |-> 0, token |-> 0]

\* A row no worker holds: claimed_by and lease_expires_at are NULL.
Unclaimed(status, attempts, wait, errored) ==
  [status |-> status, attempts |-> attempts, claimedBy |-> NoWorker,
   lease |-> 0, wait |-> wait, errored |-> errored]

\* A row that was never claimed, or is no row at all.
Fresh(status, wait) == Unclaimed(status, 0, wait, FALSE)

TypeOK ==
  /\ row \in [Jobs -> Row]
  /\ worker \in [Workers -> Worker]
  /\ claims \in [Jobs -> Nat]
  /\ spent \in [Jobs -> Nat]

Init ==
  /\ row = [j \in Jobs |-> Fresh("absent", 0)]
  /\ worker = [w \in Workers |-> Idle]
  /\ claims = [j \in Jobs |-> 0]
  /\ spent = [j \in Jobs |-> 0]

LeaseLive(j) == row[j].lease > 0
Due(j) == row[j].wait = 0

\* Mutant of Owns: the fence forgets who claimed the row.
OwnsAnyClaim(w, j) == row[j].status = "running" /\ LeaseLive(j)

\* The WHERE clause of heartbeat_job, complete_job and fail_job: the row is
\* running, claimed by this worker, and its lease has not lapsed.
Owns(w, j) == row[j].status = "running" /\ row[j].claimedBy = w /\ LeaseLive(j)

\* The WHERE clause of update_running_job_payload, lock_running_job_claim and
\* reschedule_running_job: the exact attempt, too.
ClaimIsCurrent(w) ==
  /\ worker[w].job \in Jobs
  /\ Owns(w, worker[w].job)
  /\ row[worker[w].job].attempts = worker[w].attempt

\* _retry_delay_for_attempt: the last delay repeats, no delays means none.
RetryDelay(n) ==
  IF RetryDelays = <<>> THEN 0
  ELSE LET i == IF n < 1 THEN 1 ELSE n
       IN  RetryDelays[IF i > Len(RetryDelays) THEN Len(RetryDelays) ELSE i]

\* The row left by a transition that ends a claim.
Released(j, status, wait) ==
  Unclaimed(status, row[j].attempts, wait, row[j].errored)

Goto(w, pc) == worker' = [worker EXCEPT ![w].pc = pc]
Return(w)   == worker' = [worker EXCEPT ![w] = Idle]

-----------------------------------------------------------------------------
(* Callers: the API and the job handlers, through queue.py's doorways *)

\* enqueue_job: one new row, due now or at the caller's available_at.
Enqueue(j) ==
  /\ row[j].status = "absent"
  /\ \E d \in 0..MaxDelay : row' = [row EXCEPT ![j] = Fresh("pending", d)]
  /\ UNCHANGED <<worker, claims, spent>>

\* promote_unclaimed_job: only a waiting, unclaimed row becomes due now.
Promote(j) ==
  /\ row[j].status \in Waiting
  /\ row[j].claimedBy = NoWorker
  /\ row' = [row EXCEPT ![j].wait = 0]
  /\ UNCHANGED <<worker, claims, spent>>

\* update_unclaimed_job: a pending, unclaimed row gets another available_at
\* (and payload).
UpdateUnclaimed(j) ==
  /\ row[j].status = "pending"
  /\ row[j].claimedBy = NoWorker
  /\ \E d \in 0..MaxDelay : row' = [row EXCEPT ![j].wait = d]
  /\ UNCHANGED <<worker, claims, spent>>

\* reset_unclaimed_job_for_new_intent: a whole new budget for a waiting row.
ResetForNewIntent(j) ==
  /\ row[j].status \in Waiting
  /\ row[j].claimedBy = NoWorker
  /\ claims[j] < MaxClaims
  /\ row' = [row EXCEPT ![j] = Fresh("pending", 0)]
  /\ spent' = [spent EXCEPT ![j] = 0]
  /\ UNCHANGED <<worker, claims>>

\* supersede_unclaimed_job: an obsolete waiting row is done without running.
Supersede(j) ==
  /\ row[j].status \in Waiting
  /\ row[j].claimedBy = NoWorker
  /\ row' = [row EXCEPT ![j] = Released(j, "succeeded", row[j].wait)]
  /\ UNCHANGED <<worker, claims, spent>>

\* revoke_jobs_by_dedupe_keys, revoke_jobs_for_payload: the row goes away
\* whatever its status, a running one included.
Revoke(j) ==
  /\ row[j].status \notin {"absent", "deleted"}
  /\ row' = [row EXCEPT ![j] = Fresh("deleted", 0)]
  /\ UNCHANGED <<worker, claims, spent>>

Repairable(j) == row[j].status = "dead"

\* requeue_dead_job: the repair transition.  error_code stays.
RequeueDead(j) ==
  /\ Repairable(j)
  /\ claims[j] < MaxClaims
  /\ row' = [row EXCEPT ![j] = Unclaimed("pending", 0, 0, row[j].errored)]
  /\ spent' = [spent EXCEPT ![j] = 0]
  /\ UNCHANGED <<worker, claims>>

\* prune_terminal_jobs: a terminal row old enough (any may be) is deleted,
\* a dead one only if its kind may be.
Prune(j) ==
  /\ \/ row[j].status = "succeeded"
     \/ row[j].status = "dead" /\ j \notin NeverPruneDead
  /\ row' = [row EXCEPT ![j] = Fresh("deleted", 0)]
  /\ UNCHANGED <<worker, claims, spent>>

-----------------------------------------------------------------------------
(* The worker: JobWorker.run_once *)

Expired(j) == Unclaimed("dead", row[j].attempts, row[j].wait, TRUE)

\* dead_letter_expired_job: a lapsed claim with no budget left is dead.  The
\* kind's hook runs in the same transaction; when it raises, nothing is left
\* of either.
DeadLetterExpired(w, j) ==
  /\ worker[w].pc = "idle"
  /\ j \in Allowed[w]
  /\ row[j].status = "running" /\ ~LeaseLive(j)
  /\ row[j].attempts >= MaxAttempts
  /\ row' = [row EXCEPT ![j] = Expired(j)]
  /\ spent' = [spent EXCEPT ![j] = @ + 1]
  /\ UNCHANGED <<worker, claims>>

\* Mutant of Claimable: a lapsed lease is not looked at.
ClaimableWhenWaiting(j) == row[j].status \in Waiting /\ Due(j)

Claimable(j) ==
  \/ row[j].status \in Waiting /\ Due(j)
  \/ row[j].status = "running" /\ ~LeaseLive(j) /\ row[j].attempts < MaxAttempts

\* Mutant of Claimed: a reclaim keeps the old claimant.
ClaimedByFirst(w, j) ==
  [row[j] EXCEPT !.status = "running", !.attempts = @ + 1, !.lease = LeaseTicks,
                 !.claimedBy = IF row[j].status = "running" THEN @ ELSE w]

Claimed(w, j) ==
  [row[j] EXCEPT !.status = "running", !.attempts = @ + 1, !.lease = LeaseTicks,
                 !.claimedBy = w]

\* claim_next_job, claim_job: a due row, or one whose lease has lapsed with
\* budget left.  A reclaim is the loss of the execution before it.
Claim(w, j) ==
  /\ worker[w].pc = "idle"
  /\ j \in Allowed[w]
  /\ Claimable(j)
  /\ row' = [row EXCEPT ![j] = Claimed(w, j)]
  /\ claims' = [claims EXCEPT ![j] = @ + 1]
  /\ spent' = [spent EXCEPT ![j] = IF row[j].status = "running" THEN @ + 1 ELSE @]
  /\ worker' = [worker EXCEPT ![w] = [pc |-> "claimed", job |-> j,
                  attempt |-> row[j].attempts + 1, token |-> claims[j] + 1]]

\* fail_job: the retry or dead transition of an owned row, RetryDelays[...]
\* later.  Both transitions spend the attempt.
FailRow(w, delay) ==
  LET j == worker[w].job
      dead == row[j].attempts >= MaxAttempts
  IN  IF Owns(w, j)
      THEN /\ row' = [row EXCEPT ![j] =
                Unclaimed(IF dead THEN "dead" ELSE "failed", row[j].attempts,
                          IF dead THEN 0 ELSE delay, TRUE)]
           /\ spent' = [spent EXCEPT ![j] = @ + 1]
      ELSE UNCHANGED <<row, spent>>

\* A claimed row of a kind the registry does not know fails at once.
FailUnknownKind(w) ==
  /\ worker[w].pc = "claimed"
  /\ worker[w].job \in UnknownKind
  /\ FailRow(w, 0)
  /\ Return(w)
  /\ UNCHANGED claims

\* The first heartbeat gives the row its kind's lease, or tells the worker
\* that it lost the row before it began.
Start(w) ==
  LET j == worker[w].job IN
  /\ worker[w].pc = "claimed"
  /\ j \notin UnknownKind
  /\ IF Owns(w, j)
     THEN row' = [row EXCEPT ![j].lease = LeaseTicks] /\ Goto(w, "executing")
     ELSE UNCHANGED row /\ Return(w)
  /\ UNCHANGED <<claims, spent>>

\* heartbeat_job from the heartbeat thread, while the handler runs and until
\* the settling transaction is over.
Heartbeat(w) ==
  LET j == worker[w].job IN
  /\ worker[w].pc \in {"executing", "completing", "failing", "rescheduling"}
  /\ Owns(w, j)
  /\ row' = [row EXCEPT ![j].lease = LeaseTicks]
  /\ UNCHANGED <<worker, claims, spent>>

\* The handler returns a result, returns a failed status or raises, or asks
\* to be rescheduled.
HandlerEnds(w) ==
  /\ worker[w].pc = "executing"
  /\ \/ Goto(w, "completing")
     \/ Goto(w, "failing")
     \/ claims[worker[w].job] < MaxClaims /\ Goto(w, "rescheduling")
  /\ UNCHANGED <<row, claims, spent>>

\* complete_job's UPDATE, which does nothing to a row the worker lost.
CompleteRow(w) ==
  LET j == worker[w].job IN
  IF Owns(w, j)
  THEN row' = [row EXCEPT ![j] = Released(j, "succeeded", row[j].wait)]
  ELSE UNCHANGED row

Complete(w) ==
  /\ worker[w].pc = "completing"
  /\ CompleteRow(w)
  /\ Return(w)
  /\ UNCHANGED <<claims, spent>>

\* Mutant of Refunded: waiting burns the attempt.
NotRefunded(n) == n

\* GREATEST(attempts - 1, 0)
Refunded(n) == IF n > 0 THEN n - 1 ELSE 0

\* reschedule_running_job's UPDATE: back to pending, the attempt refunded.
RescheduleRow(w) ==
  LET j == worker[w].job IN
  IF ClaimIsCurrent(w)
  THEN \E d \in 0..MaxDelay :
         row' = [row EXCEPT ![j] =
           Unclaimed("pending", Refunded(row[j].attempts), d, row[j].errored)]
  ELSE UNCHANGED row

Reschedule(w) ==
  /\ worker[w].pc = "rescheduling"
  /\ RescheduleRow(w)
  /\ Return(w)
  /\ UNCHANGED <<claims, spent>>

\* fail_job, with the dead-letter hook of the kind in the same transaction.
Fail(w) ==
  /\ worker[w].pc = "failing"
  /\ FailRow(w, RetryDelay(row[worker[w].job].attempts))
  /\ Return(w)
  /\ UNCHANGED claims

\* The database fails under the settling transaction.  The worker cannot tell
\* whether its commit landed; _execute_claimed's except clause then applies
\* fail_job to what may be settled already.
SettleOutcomeUnknown(w) ==
  /\ \/ worker[w].pc = "completing" /\ UNCHANGED spent /\ (CompleteRow(w) \/ UNCHANGED row)
     \/ worker[w].pc = "rescheduling" /\ UNCHANGED spent /\ (RescheduleRow(w) \/ UNCHANGED row)
     \/ worker[w].pc = "failing" /\ FailRow(w, RetryDelay(row[worker[w].job].attempts))
  /\ Goto(w, "failing")
  /\ UNCHANGED claims

\* The process dies, or run_once raises out of fail_job or its hook: nothing
\* is written and all memory of the job is gone.
Crash(w) ==
  /\ worker[w].pc # "idle"
  /\ Return(w)
  /\ UNCHANGED <<row, claims, spent>>

-----------------------------------------------------------------------------
(* Time *)

Elapse(n) == IF n > 0 THEN n - 1 ELSE 0

Tick ==
  /\ \E j \in Jobs : row[j].lease > 0 \/ row[j].wait > 0
  /\ row' = [j \in Jobs |->
       [row[j] EXCEPT !.lease = Elapse(@), !.wait = Elapse(@)]]
  /\ UNCHANGED <<worker, claims, spent>>

-----------------------------------------------------------------------------

Caller(j) ==
  \/ Enqueue(j) \/ Promote(j) \/ UpdateUnclaimed(j) \/ ResetForNewIntent(j)
  \/ Supersede(j) \/ Revoke(j) \/ RequeueDead(j) \/ Prune(j)

Settle(w) ==
  \/ Complete(w) \/ Reschedule(w) \/ SettleOutcomeUnknown(w) \/ Fail(w)
  \/ FailUnknownKind(w)

WorkerStep(w) ==
  \/ \E j \in Jobs : DeadLetterExpired(w, j) \/ Claim(w, j)
  \/ Start(w) \/ Heartbeat(w) \/ HandlerEnds(w) \/ Settle(w) \/ Crash(w)

Next ==
  \/ \E j \in Jobs : Caller(j)
  \/ \E w \in Workers : WorkerStep(w)
  \/ Tick

Spec == Init /\ [][Next]_vars

\* What the code's scheduling gives: time passes, handlers end, the worker goes
\* on from one statement to the next, and an idle worker of the lane looks at
\* lapsed rows and then at due ones, oldest first within a priority, so that a
\* row that stays eligible is taken.  Nothing is assumed of callers, of
\* crashes, of lost commits or of the heartbeat thread.
Fairness ==
  /\ WF_vars(Tick)
  /\ \A w \in Workers :
       WF_vars(Start(w) \/ HandlerEnds(w) \/ Complete(w) \/ Reschedule(w) \/ Fail(w)
               \/ FailUnknownKind(w))
  /\ \A j \in Jobs : SF_vars(\E w \in Workers : Claim(w, j) \/ DeadLetterExpired(w, j))

FairSpec == Spec /\ Fairness

-----------------------------------------------------------------------------
(* Properties *)

\* The budget is exact.  attempts goes up on a claim, down on a reschedule and
\* to zero on a repair, in five statements of queue.py that never see each
\* other's guards, and the claim of a waiting row does not look at it at all;
\* still it counts the executions that failed or were lost, plus the running
\* one: no job runs more than max_attempts times without a repair, none is
\* dead-lettered before that, and waiting out a reschedule costs nothing.
AttemptLedger ==
  \A j \in Jobs :
    /\ row[j].status \in Waiting => row[j].attempts = spent[j] /\ spent[j] < MaxAttempts
    /\ row[j].status = "running" => row[j].attempts = spent[j] + 1 /\ spent[j] < MaxAttempts
    /\ row[j].status = "dead" => row[j].attempts = MaxAttempts /\ spent[j] = MaxAttempts

\* complete_job, fail_job and heartbeat_job check the worker id and not the
\* attempt, ids outlive their process, and attempts repeats after a reschedule
\* or a repair: whoever passes even the weaker check holds the latest claim.
OwnerHoldsLatestClaim ==
  \A w \in Workers :
    LET j == worker[w].job IN
    j \in Jobs /\ Owns(w, j) => worker[w].token = claims[j]

\* A dead row always says why (fail_job's error code, or the one
\* dead_letter_expired_job fills in) and had an execution: an operator's repair
\* projects Recovering (docs/modules/jobs.md), and the asserts of
\* project_execution_phase cannot fire.
DeadSaysWhy ==
  \A j \in Jobs :
    /\ row[j].status = "dead" => row[j].errored
    /\ row[j].status = "failed" => row[j].errored
    /\ row[j].status \in {"running", "failed", "dead"} => row[j].attempts >= 1

\* Success is final: neither a retry of the settling transaction, nor a worker
\* that lost its lease, nor a repair takes a succeeded row anywhere but out of
\* the table.
SuccessIsFinal ==
  [][\A j \in Jobs : row[j].status = "succeeded" =>
       row'[j].status \in {"succeeded", "deleted"}]_vars

\* A worker whose claim is not the latest one settles nothing: when it leaves
\* its job the row is as it was.
StaleWorkerSettlesNothing ==
  [][\A w \in Workers :
       LET j == worker[w].job IN
       /\ j \in Jobs /\ worker[w].token # claims[j]
       /\ worker'[w] # worker[w]
       => row'[j] = row[j]]_vars

\* Every job of a served lane is settled, or leaves the table, however often
\* processes die and commits are lost, once callers stop pushing its
\* available_at back.  Nobody waits on a dead worker's lease for ever.
EventuallySettled ==
  <>[][\A j \in Jobs : ~UpdateUnclaimed(j)]_vars =>
  \A j \in Jobs : (row[j].status \in Waiting \cup {"running"}) ~>
                   (row[j].status \in Terminal \cup {"deleted"})

=============================================================================
