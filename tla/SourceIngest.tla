---------------------------- MODULE SourceIngest ----------------------------
(***************************************************************************)
(* The source of one media item: its attempts                              *)
(* (services/media_source_ingest.py), the jobs that run them under the     *)
(* publication fence (services/source_publication.py), and what recovers   *)
(* them (tasks/reconcile_stale_ingest_media.py, services/ingest_recovery.py).*)
(* The jobs are rows of JobQueue.                                          *)
(*                                                                         *)
(* A command of a viewer, of an operator or of the system records an       *)
(* attempt in one transaction and gives it a job in another: call[c] is    *)
(* where it stands between them.  The worker publishes in a row of fenced  *)
(* transactions, each under the locks of media, attempt and job.           *)
(***************************************************************************)
EXTENDS Integers, Sequences, FiniteSets

CONSTANTS
  Workers, NoWorker,
  Callers,     \* requests that are served at the same time
  MaxAttempts, \* max_attempts of ingest_media_source
  MaxIntents,  \* bound: so many source attempts
  MaxJobs,     \* bound: so many jobs
  MaxFaults,   \* bound: crashes, failures and lapsed leases of live workers
  MaxClaims    \* bound: a job is repaired only below so many claims

ASSUME SourceAssumption ==
  /\ NoWorker \notin Workers
  /\ {MaxAttempts, MaxIntents, MaxJobs} \subseteq Nat \ {0}
  /\ {MaxFaults, MaxClaims} \subseteq Nat

VARIABLES
  row, worker, claims, spent, \* the queue's
  media,     \* media.processing_status
  attempts,  \* the media_source_attempts, by attempt_no
  payload,   \* payload[j]: the attempt_id in the payload of a job
  artifacts, \* what readers see, by the execution that published it
  call,      \* call[c]: where a request stands
  exec,      \* exec[w]: the next transaction of the handler in w
  faults     \* history: how many faults there were

queue == <<row, worker, claims, spent>>
vars == <<queue, media, attempts, payload, artifacts, call, exec, faults>>

Jobs  == 1..MaxJobs
NoJob == 0

Queue == INSTANCE JobQueue WITH
  Allowed <- [w \in Workers |-> Jobs], UnknownKind <- {}, NeverPruneDead <- Jobs,
  RetryDelays <- <<>>, LeaseTicks <- 1, MaxDelay <- 0

-----------------------------------------------------------------------------
(* Data *)

InFlight == {"accepted", "queued", "running"}

\* A url of a provider is found again by its target; the works of the Oracle
\* corpus are not, and only they are repaired by the system.
Sources == {"provider", "corpus"}

Attempt == [source: Sources, status: InFlight \cup {"succeeded", "failed"}, job: Jobs \cup {NoJob}]

Attempts == 1..Len(attempts)
Latest == attempts[Len(attempts)]

\* The execution of a claimed job, and what there is before the first one.
NoArtifacts == [attempt |-> 0, job |-> NoJob, token |-> 0]

\* A request holds its attempt, or the media status it has read; the reconciler
\* holds the attempt it has found.
Reconciler == "reconciler"
Steps == {"none", "enqueue", "dispatch", "fail", "ensure"}
NotCalling == [at |-> "none", attempt |-> 0, seen |-> "absent"]

MediaStatus == {"absent", "pending", "extracting", "ready", "failed"}

TypeOK ==
  /\ Queue!TypeOK
  /\ media \in MediaStatus
  /\ attempts \in Seq(Attempt) /\ Len(attempts) <= MaxIntents
  /\ payload \in [Jobs -> 0..MaxIntents]
  /\ artifacts \in [attempt: 0..MaxIntents, job: Jobs \cup {NoJob}, token: Nat]
  /\ call \in [Callers \cup {Reconciler} ->
       [at: Steps \cup {"reuse"}, attempt: 0..MaxIntents, seen: MediaStatus]]
  /\ exec \in [Workers -> {"none", "mark", "begin", "fetch", "terminal"}]
  /\ faults \in 0..MaxFaults

Init ==
  /\ Queue!Init
  /\ media = "absent"
  /\ attempts = <<>>
  /\ payload = [j \in Jobs |-> 0]
  /\ artifacts = NoArtifacts
  /\ call = [c \in Callers \cup {Reconciler} |-> NotCalling]
  /\ exec = [w \in Workers |-> "none"]
  /\ faults = 0

Fault == faults < MaxFaults /\ faults' = faults + 1

Nonterminal(j) == row[j].status \in {"pending", "running", "failed"}

\* A reference to a job whose row is gone is NULL (migration 0134).
Suspended(a) == attempts[a].job # NoJob /\ row[attempts[a].job].status = "dead"

Free == {j \in Jobs : row[j].status = "absent"}
Calling == {c \in DOMAIN call : call[c].at \in Steps \ {"none"}}

\* The bound on jobs never stops what has begun.
Spare == Cardinality(Calling) < Cardinality(Free)

-----------------------------------------------------------------------------
(* Commands *)

Step(c, at) == call' = [call EXCEPT ![c].at = at]
Answer(c) == call' = [call EXCEPT ![c] = NotCalling]

\* create_attempt, committed with the request still to go on at the given step.
Record(c, source, at) ==
  /\ Len(attempts) < MaxIntents /\ Spare
  /\ attempts' = Append(attempts, [source |-> source, status |-> "accepted", job |-> NoJob])
  /\ call' = [call EXCEPT ![c] = [at |-> at, attempt |-> Len(attempts) + 1, seen |-> "absent"]]

Command(c) == call[c].at = "none"
OnlyCall == UNCHANGED <<queue, media, attempts, payload, artifacts, exec, faults>>

\* accept_url_source of a url that no media has.
Accept(c) ==
  /\ Command(c) /\ media = "absent"
  /\ media' = "pending"
  /\ \E source \in Sources : Record(c, source, "enqueue")
  /\ UNCHANGED <<queue, payload, artifacts, exec, faults>>

\* _raise_if_source_action_not_reacquirable, for the part that is control.
Reacquirable == ~Suspended(Len(attempts))

\* retry_source_for_viewer
Retry(c) ==
  /\ Command(c) /\ media = "failed"
  /\ Latest.status = "failed" /\ Reacquirable
  /\ Record(c, Latest.source, "dispatch")
  /\ UNCHANGED <<queue, media, payload, artifacts, exec, faults>>

\* refresh_source_for_viewer
Refresh(c) ==
  /\ Command(c) /\ media \in {"ready", "failed"}
  /\ Latest.status \notin InFlight /\ Reacquirable
  /\ Record(c, Latest.source, "dispatch")
  /\ UNCHANGED <<queue, media, payload, artifacts, exec, faults>>

\* repair_source_for_system_media: an accepted attempt is dispatched, whoever
\* else may be about to do it; a failed one is cloned.
Repair(c) ==
  /\ Command(c) /\ media # "absent" /\ Latest.source = "corpus"
  /\ \/ /\ Latest.status = "accepted" /\ Spare
        /\ call' = [call EXCEPT ![c] =
             [at |-> "dispatch", attempt |-> Len(attempts), seen |-> "absent"]]
        /\ UNCHANGED attempts
     \/ Latest.status = "failed" /\ Reacquirable /\ Record(c, Latest.source, "dispatch")
  /\ UNCHANGED <<queue, media, payload, artifacts, exec, faults>>

\* accept_url_source of a url that a media has: _find_reusable_url_media reads
\* the media with no lock ...
Reuse(c) ==
  /\ Command(c) /\ media # "absent" /\ Latest.source = "provider" /\ Len(attempts) < MaxIntents
  /\ call' = [call EXCEPT ![c] = [at |-> "reuse", attempt |-> 0, seen |-> media]]
  /\ OnlyCall

ReusedStatus(seen) == IF seen = "failed" THEN "failed" ELSE "succeeded"

\* ... and the attempt it records is never run.
ReuseRecorded(c) ==
  /\ call[c].at = "reuse" /\ Len(attempts) < MaxIntents
  /\ attempts' = Append(attempts,
       [source |-> Latest.source, status |-> ReusedStatus(call[c].seen), job |-> NoJob])
  /\ Answer(c)
  /\ UNCHANGED <<queue, media, payload, artifacts, exec, faults>>

\* _enqueue_source_job, and the attempt bound to the job.
Enqueued(a) ==
  \E j \in Free :
    /\ \A other \in Free : j <= other
    /\ Queue!Enqueue(j)
    /\ payload' = [payload EXCEPT ![j] = a]
    /\ attempts' = [attempts EXCEPT ![a].status = "queued", ![a].job = j]

\* Whether the request hears of its commit.
Committed(c) ==
  \/ Answer(c) /\ UNCHANGED faults
  \/ Step(c, "fail") /\ Fault

\* _enqueue_accepted_attempt: the attempt is the copy the session has loaded,
\* which still says "accepted".
EnqueueAccepted(c) ==
  /\ call[c].at = "enqueue"
  /\ Enqueued(call[c].attempt)
  /\ Committed(c)
  /\ UNCHANGED <<media, artifacts, exec>>

\* _dispatch_requeue_attempt, under the locks of media and attempt.
Dispatch(c) ==
  LET a == call[c].attempt IN
  /\ call[c].at = "dispatch"
  /\ IF attempts[a].status = "failed"
     THEN Answer(c) /\ UNCHANGED <<queue, media, attempts, payload, faults>>
     ELSE media' = "extracting" /\ Enqueued(a) /\ Committed(c)
  /\ UNCHANGED <<artifacts, exec>>

\* The transaction raises, or the look at the object store before it
\* (_verify_source_requeue_storage).
Refused(c) ==
  /\ call[c].at \in {"enqueue", "dispatch"} /\ Fault
  /\ Step(c, "fail")
  /\ UNCHANGED <<queue, media, attempts, payload, artifacts, exec>>

\* Mutant of FailSource: the media is not told.
FailAttemptOnly(a) ==
  /\ attempts' = [attempts EXCEPT ![a].status = "failed"]
  /\ UNCHANGED media

\* mark_source_attempt_and_media_failed, under no lock of attempt or media and
\* whatever became of them.
FailSource(a) ==
  /\ attempts' = [attempts EXCEPT ![a].status = "failed"]
  /\ media' = "failed"

RecordFailure(c) ==
  /\ call[c].at = "fail"
  /\ FailSource(call[c].attempt)
  /\ Answer(c)
  /\ UNCHANGED <<queue, payload, artifacts, exec, faults>>

\* The process that serves the request dies.
CallerDies(c) ==
  /\ c \in Calling /\ Fault
  /\ Answer(c)
  /\ UNCHANGED <<queue, media, attempts, payload, artifacts, exec>>

Goes(c) ==
  EnqueueAccepted(c) \/ Dispatch(c) \/ RecordFailure(c) \/ ReuseRecorded(c)

Request(c) ==
  \/ Accept(c) \/ Retry(c) \/ Refresh(c) \/ Repair(c) \/ Reuse(c)
  \/ Goes(c) \/ Refused(c) \/ CallerDies(c)

-----------------------------------------------------------------------------
(* Recovery *)

\* What reconcile_stale_ingest_media looks for: the latest attempt of a media
\* that has been extracting for long enough, which any may have been.
Discoverable(a) ==
  a = Len(attempts) /\ attempts[a].status \in InFlight /\ media = "extracting"

Discover ==
  /\ call[Reconciler].at = "none" /\ Spare
  /\ \E a \in Attempts :
       Discoverable(a) /\ call' = [call EXCEPT ![Reconciler].at = "ensure", ![Reconciler].attempt = a]
  /\ OnlyCall

Ownerless(a) == attempts[a].job = NoJob

\* ensure_stale_source_attempt_job, in a transaction of its own: it looks at the
\* attempt again, but not for a newer one, nor at the media.
EnsuresJob == call[Reconciler].at = "ensure" /\
  LET a == call[Reconciler].attempt IN attempts[a].status \in InFlight /\ Ownerless(a)

Ensure ==
  /\ call[Reconciler].at = "ensure"
  /\ IF EnsuresJob
     THEN Enqueued(call[Reconciler].attempt)
     ELSE UNCHANGED <<queue, attempts, payload>>
  /\ Answer(Reconciler)
  /\ UNCHANGED <<media, artifacts, exec, faults>>

\* retry_dead_source_job
RetryDead ==
  /\ media # "absent" /\ Suspended(Len(attempts))
  /\ Queue!RequeueDead(Latest.job)
  /\ UNCHANGED <<media, attempts, payload, artifacts, call, exec, faults>>

\* prune_terminal_jobs; job_id is ON DELETE SET NULL.
Prune(j) ==
  /\ Queue!Prune(j)
  /\ attempts' = [a \in Attempts |->
       IF attempts[a].job = j THEN [attempts[a] EXCEPT !.job = NoJob] ELSE attempts[a]]
  /\ UNCHANGED <<media, payload, artifacts, call, exec, faults>>

-----------------------------------------------------------------------------
(* The handler: run_source_attempt *)

At(w, point) == worker[w].pc = "executing" /\ exec[w] = point

Go(w, pc) == Queue!Goto(w, pc) /\ exec' = [exec EXCEPT ![w] = "none"]
Return(w) == Go(w, "completing")
Then(w, point) == exec' = [exec EXCEPT ![w] = point] /\ UNCHANGED worker

Mine(w) == payload[worker[w].job]

\* Mutants of PublicationAllowed: the fence forgets a newer attempt, or the
\* claim.
PublishesOlder(w) ==
  /\ attempts[Mine(w)].job = worker[w].job
  /\ attempts[Mine(w)].status \in InFlight
  /\ Queue!ClaimIsCurrent(w)

PublishesUnclaimed(w) ==
  /\ attempts[Mine(w)].job = worker[w].job
  /\ attempts[Mine(w)].status \in InFlight
  /\ Mine(w) = Len(attempts)

\* require_source_publication: the attempt is this job's, in flight and the
\* latest one, and the claim of the job is current.
PublicationAllowed(w) ==
  /\ attempts[Mine(w)].job = worker[w].job
  /\ attempts[Mine(w)].status \in InFlight
  /\ Mine(w) = Len(attempts)
  /\ Queue!ClaimIsCurrent(w)

\* lock_and_renew_running_job_claim
Renewed(w) ==
  IF Queue!ClaimIsCurrent(w) THEN [row EXCEPT ![worker[w].job].lease = 1] ELSE row

\* A transaction of run_source_publication_phase; SourcePublicationSuperseded
\* ends the handler with a result, not with an error.
Phase(w, point, publish) ==
  /\ At(w, point)
  /\ IF PublicationAllowed(w)
     THEN publish /\ row' = Renewed(w)
     ELSE Return(w) /\ UNCHANGED <<row, media, attempts, artifacts>>
  /\ UNCHANGED <<claims, spent, payload, call, faults>>

MarkRunning(w) ==
  Phase(w, "mark",
    /\ attempts' = [attempts EXCEPT ![Mine(w)].status = "running"]
    /\ Then(w, "begin")
    /\ UNCHANGED <<media, artifacts>>)

\* begin_extraction
Begin(w) ==
  Phase(w, "begin",
    /\ media' = "extracting"
    /\ Then(w, "fetch")
    /\ UNCHANGED <<attempts, artifacts>>)

Execution(w) == [attempt |-> Mine(w), job |-> worker[w].job, token |-> worker[w].token]

\* The adapter's own publication, once it has acquired the source: fragments,
\* files, or a transcript, which makes the media ready at once.
PublishArtifacts(w) ==
  Phase(w, "fetch",
    /\ artifacts' = Execution(w)
    /\ media' \in {media, "ready"}
    /\ Then(w, "terminal")
    /\ UNCHANGED attempts)

\* publish_failure, publish_author_failure
PublishFailure(w) ==
  \E point \in {"fetch", "terminal"} :
    Phase(w, point, FailSource(Mine(w)) /\ Return(w) /\ UNCHANGED artifacts)

\* publish_terminal
PublishTerminal(w) ==
  Phase(w, "terminal",
    /\ attempts' = [attempts EXCEPT ![Mine(w)].status =
         IF media = "failed" THEN "failed" ELSE "succeeded"]
    /\ media' = IF media = "extracting" THEN "ready" ELSE media
    /\ Return(w)
    /\ UNCHANGED artifacts)

\* Any failure that is not one of the source's: a retry of the queue.
Raise(w) ==
  /\ worker[w].pc = "executing" /\ Fault
  /\ Go(w, "failing")
  /\ UNCHANGED <<row, claims, spent, media, attempts, payload, artifacts, call>>

-----------------------------------------------------------------------------
(* The worker around it *)

OnlyQueue == UNCHANGED <<media, attempts, payload, artifacts, call, exec, faults>>

Take(w, j)   == Queue!Claim(w, j) /\ OnlyQueue
Expire(w, j) == Queue!DeadLetterExpired(w, j) /\ OnlyQueue
Complete(w)  == Queue!Complete(w) /\ OnlyQueue
Fail(w)      == Queue!Fail(w) /\ OnlyQueue

Enter(w) ==
  /\ Queue!Start(w)
  /\ exec' = IF Queue!Owns(w, worker[w].job) THEN [exec EXCEPT ![w] = "mark"] ELSE exec
  /\ UNCHANGED <<media, attempts, payload, artifacts, call, faults>>

Publish(w) ==
  \/ MarkRunning(w) \/ Begin(w) \/ PublishArtifacts(w) \/ PublishFailure(w) \/ PublishTerminal(w)

Crash(w) ==
  /\ Fault
  /\ Queue!Crash(w)
  /\ exec' = [exec EXCEPT ![w] = "none"]
  /\ UNCHANGED <<media, attempts, payload, artifacts, call>>

\* Leases lapse for dead workers; for live ones as a fault.
Tick ==
  /\ Queue!Tick
  /\ IF \E w \in Workers : Queue!ClaimIsCurrent(w) THEN Fault ELSE UNCHANGED faults
  /\ UNCHANGED <<media, attempts, payload, artifacts, call, exec>>

WorkerStep(w) ==
  \/ \E j \in Jobs : Take(w, j) \/ Expire(w, j)
  \/ Enter(w) \/ Publish(w) \/ Raise(w) \/ Complete(w) \/ Fail(w) \/ Crash(w)

Next ==
  \/ \E c \in Callers : Request(c)
  \/ Discover \/ Ensure \/ RetryDead \/ \E j \in Jobs : Prune(j)
  \/ \E w \in Workers : WorkerStep(w)
  \/ Tick

Spec == Init /\ [][Next]_vars

\* JobQueue's fairness, weakened to some request, some worker and some job: each
\* ends after finitely many steps.  The reconciler runs every ten minutes.
\* Nothing is assumed of viewers, operators, pruning or faults.
Fairness ==
  /\ WF_vars(Tick) /\ WF_vars(Discover \/ Ensure)
  /\ WF_vars(\E c \in Callers : Goes(c))
  /\ WF_vars(\E w \in Workers : Enter(w) \/ Publish(w) \/ Complete(w) \/ Fail(w))
  /\ SF_vars(\E w \in Workers, j \in Jobs : Take(w, j) \/ Expire(w, j))

FairSpec == Spec /\ Fairness

-----------------------------------------------------------------------------
(* Properties *)

\* The media is unfinished: nobody may retry or refresh it.
Unfinished == media \in {"pending", "extracting"} \/ (media # "absent" /\ Latest.status \in InFlight)

\* Somebody will finish it: a request, a job, the reconciler, or, once its job
\* is dead, an operator.
Attended ==
  /\ media # "absent" /\ Latest.status \in InFlight
  /\ \/ \E c \in Calling \ {Reconciler} : call[c].attempt = Len(attempts)
     \/ Latest.job # NoJob /\ (Nonterminal(Latest.job) \/ Suspended(Len(attempts)))
     \/ Discoverable(Len(attempts)) /\ Ownerless(Len(attempts))

\* The request died between its two transactions, and the reconciler looks at
\* extracting media only.
Abandoned == Latest.status = "accepted" /\ Latest.job = NoJob /\ media # "extracting"

\* The latest attempt is finished while an older one is in flight, which the
\* fence stops: a second request for the url of an ingest in flight recorded an
\* attempt that nobody runs, or an older attempt was dispatched late.
Eclipsed ==
  /\ Latest.status \notin InFlight
  /\ \E a \in Attempts : attempts[a].status \in InFlight

\* "The user can see the item, delete it, and retry source acquisition when the
\* source intent is retryable" (docs/cutovers/durable-source-ingest-hard-cutover.md).
\* A source is left unfinished with nobody to finish it only when a request died
\* before it gave its attempt a job, or a finished attempt eclipses one in flight.
\* No other order of commands, supersession by the fence, lost commit, repair or
\* pruning does it.
StuckOnlyIfAbandonedOrEclipsed == Unfinished /\ ~Attended => Abandoned \/ Eclipsed

\* An attempt succeeds on the artifacts of the same execution: a worker that
\* stalled between its publications does not declare those of another one, of
\* another job or of another attempt a success.
SucceedsOnItsOwnArtifacts ==
  [][\A w \in Workers : PublishTerminal(w) =>
       \A a \in Attempts : attempts'[a].status = "succeeded" /\ attempts[a].status # "succeeded" =>
         artifacts = Execution(w)]_vars

\* Readers never get an older source back: neither a late enqueue of an old
\* attempt nor a stale worker replaces what a newer attempt published.
ArtifactsNeverGoBack == [][artifacts'.attempt >= artifacts.attempt]_vars

\* Every ingest ends, unless it is stuck in one of the two ways, or its job is
\* dead and waits for an operator.
IngestEnds ==
  Unfinished ~> \/ ~Unfinished \/ Abandoned \/ Eclipsed \/ Suspended(Len(attempts))

=============================================================================
