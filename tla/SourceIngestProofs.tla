-------------------------- MODULE SourceIngestProofs --------------------------
(***************************************************************************)
(* What holds of SourceIngest for every number of attempts, jobs, requests,*)
(* workers and faults: readers never get an older source back, an attempt  *)
(* succeeds on the artifacts of its own execution, and an ingest gets      *)
(* stuck in two ways only.                                                 *)
(***************************************************************************)
EXTENDS SourceIngest, TLAPS

\* The queue's own invariant, and that each of its actions keeps it.
QP == INSTANCE JobQueueProofs WITH
  Allowed <- [w \in Workers |-> Jobs],
  UnknownKind <- {}, NeverPruneDead <- Jobs, RetryDelays <- <<>>,
  LeaseTicks <- 1, MaxDelay <- 0

\* Nothing has happened: no media, no request, no job, no worker at work.
Pristine ==
  /\ media = "absent"
  /\ row = [j \in Jobs |-> Queue!Fresh("absent", 0)]
  /\ worker = [w \in Workers |-> Queue!Idle]
  /\ call = [c \in Callers \cup {Reconciler} |-> NotCalling]

\* The invariant of the attempts: they are a sequence, the first of which is
\* recorded before anything else happens, and what is published is of an
\* attempt that exists.
Recorded ==
  /\ attempts \in Seq(Attempt) /\ Len(attempts) <= MaxIntents
  /\ artifacts.attempt \in 0..Len(attempts)
  /\ attempts = <<>> => Pristine

\* The step relation of the attempts and of what is published.
Kept ==
  /\ attempts' \in Seq(Attempt)
  /\ Len(attempts') >= Len(attempts)
  /\ Len(attempts) <= MaxIntents => Len(attempts') <= MaxIntents
  /\ artifacts' = artifacts \/ artifacts'.attempt = Len(attempts)

-----------------------------------------------------------------------------
(* Changes of the attempts *)

\* Attempts change in place.
LEMMA InPlace ==
  ASSUME attempts \in Seq(Attempt), attempts' \in [Attempts -> Attempt]
  PROVE  attempts' \in Seq(Attempt) /\ Len(attempts') = Len(attempts)
<1>1. Len(attempts) \in Nat
  OBVIOUS
<1> QED
  BY <1>1 DEF Attempts

\* An attempt that gets another status stays one.
LEMMA StatusMoves ==
  ASSUME attempts \in Seq(Attempt), NEW a, NEW st \in InFlight \cup {"succeeded", "failed"},
         attempts' = [attempts EXCEPT ![a].status = st]
  PROVE  attempts' \in Seq(Attempt) /\ Len(attempts') = Len(attempts)
<1>1. attempts \in [Attempts -> Attempt]
  BY DEF Attempts
<1>2. \A r \in Attempt : [r EXCEPT !.status = st] \in Attempt
  BY DEF Attempt
<1>3. attempts' \in [Attempts -> Attempt]
  BY <1>1, <1>2
<1> QED
  BY <1>3, InPlace

\* A new attempt of the same source.
LEMMA AttemptAppended ==
  ASSUME attempts \in Seq(Attempt), NEW r \in Attempt, attempts' = Append(attempts, r)
  PROVE  attempts' \in Seq(Attempt) /\ Len(attempts') = Len(attempts) + 1
OBVIOUS

\* An attempt bound to its job.
LEMMA EnqueuedKeeps ==
  ASSUME attempts \in Seq(Attempt), NEW a, Enqueued(a)
  PROVE  attempts' \in Seq(Attempt) /\ Len(attempts') = Len(attempts)
<1>1. PICK j \in Free : attempts' = [attempts EXCEPT ![a].status = "queued", ![a].job = j]
  BY DEF Enqueued
<1>2. j \in Jobs
  BY <1>1 DEF Free
<1>3. \A r \in Attempt : [r EXCEPT !.status = "queued", !.job = j] \in Attempt
  BY <1>2 DEF Attempt, InFlight
<1>4. attempts \in [Attempts -> Attempt]
  BY DEF Attempts
<1>5. attempts' \in [Attempts -> Attempt]
  BY <1>1, <1>3, <1>4
<1> QED
  BY <1>5, InPlace

\* The source of the latest attempt.
LEMMA LatestIsOne ==
  ASSUME attempts \in Seq(Attempt), attempts # <<>>
  PROVE  Latest \in Attempt
BY DEF Latest

\* A command records an attempt.
LEMMA RecordKeeps ==
  ASSUME attempts \in Seq(Attempt), NEW c, NEW source \in Sources, NEW at, Record(c, source, at)
  PROVE  /\ attempts' \in Seq(Attempt) /\ Len(attempts') = Len(attempts) + 1
         /\ attempts' # <<>> /\ Len(attempts) < MaxIntents
<1>1. [source |-> source, status |-> "accepted", job |-> NoJob] \in Attempt
  BY DEF Attempt, InFlight
<1>2. attempts' \in Seq(Attempt) /\ Len(attempts') = Len(attempts) + 1
  BY <1>1, AttemptAppended DEF Record
<1> QED
  BY <1>2 DEF Record

\* A failure is recorded.
LEMMA FailureKeeps ==
  ASSUME attempts \in Seq(Attempt), NEW a, FailSource(a)
  PROVE  attempts' \in Seq(Attempt) /\ Len(attempts') = Len(attempts)
BY StatusMoves DEF FailSource

-----------------------------------------------------------------------------
(* Steps *)

\* A step that leaves the published artifacts alone and loses no attempt.
LEMMA Unpublished ==
  ASSUME attempts \in Seq(Attempt), attempts' \in Seq(Attempt), UNCHANGED artifacts,
         \/ Len(attempts') = Len(attempts)
         \/ Len(attempts) < MaxIntents /\ Len(attempts') = Len(attempts) + 1
  PROVE  Kept
BY SourceAssumption DEF Kept

\* The requests.
LEMMA RequestKeeps ==
  ASSUME attempts \in Seq(Attempt), attempts # <<>>, NEW c \in Callers, Request(c)
  PROVE  Kept
<1>0. attempts \in Seq(Attempt)
  OBVIOUS
<1>l. Latest.source \in Sources
  BY LatestIsOne DEF Attempt
<1>1. CASE Accept(c)
  <2>1. PICK source \in Sources : Record(c, source, "enqueue")
    BY <1>1 DEF Accept
  <2> QED
    BY <1>0, <1>1, <2>1, RecordKeeps, Unpublished DEF Accept
<1>2. CASE Retry(c)
  BY <1>0, <1>l, <1>2, RecordKeeps, Unpublished DEF Retry
<1>3. CASE Refresh(c)
  BY <1>0, <1>l, <1>3, RecordKeeps, Unpublished DEF Refresh
<1>4. CASE Repair(c)
  <2>1. CASE UNCHANGED attempts
    BY <1>0, <1>4, <2>1, Unpublished DEF Repair
  <2>2. CASE Record(c, Latest.source, "dispatch")
    BY <1>0, <1>l, <1>4, <2>2, RecordKeeps, Unpublished DEF Repair
  <2> QED
    BY <1>4, <2>1, <2>2 DEF Repair
<1>5. CASE Reuse(c) \/ Refused(c) \/ CallerDies(c)
  BY <1>0, <1>5, Unpublished DEF Reuse, OnlyCall, Refused, CallerDies
<1>6. CASE EnqueueAccepted(c)
  BY <1>0, <1>6, EnqueuedKeeps, Unpublished DEF EnqueueAccepted
<1>7. CASE Dispatch(c)
  <2>1. CASE UNCHANGED attempts
    BY <1>0, <1>7, <2>1, Unpublished DEF Dispatch
  <2>2. CASE Enqueued(call[c].attempt)
    BY <1>0, <1>7, <2>2, EnqueuedKeeps, Unpublished DEF Dispatch
  <2> QED
    BY <1>7, <2>1, <2>2 DEF Dispatch
<1>8. CASE RecordFailure(c)
  BY <1>0, <1>8, FailureKeeps, Unpublished DEF RecordFailure
<1>9. CASE ReuseRecorded(c)
  <2>2. [source |-> Latest.source, status |-> ReusedStatus(call[c].seen), job |-> NoJob] \in Attempt
    BY <1>l DEF Attempt, ReusedStatus
  <2>3. attempts' \in Seq(Attempt) /\ Len(attempts') = Len(attempts) + 1
    BY <1>0, <1>9, <2>2, AttemptAppended DEF ReuseRecorded
  <2> QED
    BY <1>0, <1>9, <2>3, Unpublished DEF ReuseRecorded
<1> QED
  BY <1>1, <1>2, <1>3, <1>4, <1>5, <1>6, <1>7, <1>8, <1>9 DEF Request, Goes

\* The reconciler, the operator and pruning.
LEMMA RecoveryKeeps ==
  ASSUME attempts \in Seq(Attempt),
         Discover \/ Ensure \/ RetryDead \/ \E j \in Jobs : Prune(j)
  PROVE  Kept
<1>1. CASE Discover \/ RetryDead
  BY <1>1, Unpublished DEF Discover, OnlyCall, RetryDead
<1>2. CASE Ensure
  <2>1. CASE Enqueued(call[Reconciler].attempt)
    BY <1>2, <2>1, EnqueuedKeeps, Unpublished DEF Ensure
  <2>2. CASE UNCHANGED attempts
    BY <1>2, <2>2, Unpublished DEF Ensure
  <2> QED
    BY <1>2, <2>1, <2>2 DEF Ensure
<1>3. ASSUME NEW j \in Jobs, Prune(j) PROVE Kept
  <2>1. \A r \in Attempt : [r EXCEPT !.job = NoJob] \in Attempt
    BY DEF Attempt
  <2>2. attempts \in [Attempts -> Attempt]
    BY DEF Attempts
  <2>3. attempts' \in [Attempts -> Attempt]
    BY <1>3, <2>1, <2>2 DEF Prune
  <2>4. attempts' \in Seq(Attempt) /\ Len(attempts') = Len(attempts)
    BY <2>3, InPlace
  <2>5. UNCHANGED artifacts /\ Len(attempts) \in Nat
    BY <1>3 DEF Prune
  <2> QED
    BY <2>4, <2>5, Unpublished
<1> QED
  BY <1>1, <1>2, <1>3

\* The fenced transactions: what is published is of the latest attempt.
LEMMA PublishKeeps ==
  ASSUME attempts \in Seq(Attempt), NEW w \in Workers, Publish(w)
  PROVE  Kept
<1>1. CASE UNCHANGED <<attempts, artifacts>>
  BY <1>1, Unpublished
<1>2. CASE attempts' = [attempts EXCEPT ![Mine(w)].status = "running"] /\ UNCHANGED artifacts
  <2>1. "running" \in InFlight
    BY DEF InFlight
  <2>2. attempts' \in Seq(Attempt) /\ Len(attempts') = Len(attempts)
    BY <1>2, <2>1, StatusMoves
  <2> QED
    BY <1>2, <2>2, Unpublished
<1>3. CASE /\ PublicationAllowed(w) /\ UNCHANGED attempts /\ artifacts' = Execution(w)
  BY <1>3 DEF Kept, PublicationAllowed, Execution
<1>4. CASE FailSource(Mine(w)) /\ UNCHANGED artifacts
  BY <1>4, FailureKeeps, Unpublished
<1>5. CASE /\ UNCHANGED artifacts
           /\ attempts' = [attempts EXCEPT ![Mine(w)].status =
                IF media = "failed" THEN "failed" ELSE "succeeded"]
  <2> DEFINE st == IF media = "failed" THEN "failed" ELSE "succeeded"
  <2>1. st \in InFlight \cup {"succeeded", "failed"}
    OBVIOUS
  <2>2. attempts' = [attempts EXCEPT ![Mine(w)].status = st]
    BY <1>5
  <2> HIDE DEF st
  <2>3. attempts' \in Seq(Attempt) /\ Len(attempts') = Len(attempts)
    BY <2>1, <2>2, StatusMoves
  <2> QED
    BY <1>5, <2>3, Unpublished
<1>m. ASSUME MarkRunning(w)
      PROVE  \/ UNCHANGED <<attempts, artifacts>>
             \/ /\ attempts' = [attempts EXCEPT ![Mine(w)].status = "running"]
                /\ UNCHANGED artifacts
  BY <1>m DEF MarkRunning, Phase
<1>b. ASSUME Begin(w) PROVE UNCHANGED <<attempts, artifacts>>
  BY <1>b DEF Begin, Phase
<1>p. ASSUME PublishArtifacts(w)
      PROVE  \/ UNCHANGED <<attempts, artifacts>>
             \/ PublicationAllowed(w) /\ UNCHANGED attempts /\ artifacts' = Execution(w)
  BY <1>p DEF PublishArtifacts, Phase
<1>f. ASSUME PublishFailure(w)
      PROVE  \/ UNCHANGED <<attempts, artifacts>>
             \/ FailSource(Mine(w)) /\ UNCHANGED artifacts
  BY <1>f DEF PublishFailure, Phase
<1>t. ASSUME PublishTerminal(w)
      PROVE  \/ UNCHANGED <<attempts, artifacts>>
             \/ /\ UNCHANGED artifacts
                /\ attempts' = [attempts EXCEPT ![Mine(w)].status =
                     IF media = "failed" THEN "failed" ELSE "succeeded"]
  BY <1>t DEF PublishTerminal, Phase
<1> QED
  BY <1>1, <1>2, <1>3, <1>4, <1>5, <1>m, <1>b, <1>p, <1>f, <1>t DEF Publish

-----------------------------------------------------------------------------
(* The theorem *)

\* Before the acceptance of the source nothing else can happen.
LEMMA AcceptanceIsFirst ==
  ASSUME Pristine, attempts = <<>>, Next
  PROVE  \E c \in Callers : Accept(c)
<1>0. /\ \A j \in Jobs : row[j].status = "absent" /\ row[j].lease = 0 /\ row[j].wait = 0
      /\ \A w \in Workers : worker[w].pc = "idle"
      /\ \A c \in Callers \cup {Reconciler} : call[c].at = "none"
      /\ Attempts = {} /\ media = "absent"
  BY DEF Pristine, Queue!Fresh, Queue!Unclaimed, Queue!Idle, NotCalling, Attempts
<1>1. ASSUME NEW c \in Callers, Request(c) PROVE Accept(c)
  BY <1>0, <1>1 DEF Request, Retry, Refresh, Repair, Reuse, Goes, EnqueueAccepted, Dispatch,
     RecordFailure, ReuseRecorded, Refused, CallerDies, Calling, Steps
<1>2. ~Discover /\ ~Ensure
  BY <1>0 DEF Discover, Ensure
<1>3. ~RetryDead
  BY <1>0 DEF RetryDead
<1>4. ASSUME NEW j \in Jobs PROVE ~Prune(j)
  BY <1>0 DEF Prune, Queue!Prune
<1>5. ASSUME NEW w \in Workers PROVE ~WorkerStep(w)
  <2>1. ASSUME NEW j \in Jobs PROVE ~Take(w, j) /\ ~Expire(w, j)
    BY <1>0 DEF Take, Expire, Queue!Claim, Queue!Claimable, Queue!Waiting, Queue!DeadLetterExpired
  <2>2. ~Enter(w) /\ ~Complete(w) /\ ~Fail(w) /\ ~Crash(w) /\ ~Raise(w)
    BY <1>0 DEF Enter, Complete, Fail, Crash, Raise, Queue!Start, Queue!Complete, Queue!Fail, Queue!Crash
  <2>3. ~Publish(w)
    BY <1>0 DEF Publish, MarkRunning, Begin, PublishArtifacts, PublishFailure, PublishTerminal, Phase, At
  <2> QED
    BY <2>1, <2>2, <2>3 DEF WorkerStep
<1>6. ~Tick
  <2>1. Tick => \E j \in Jobs : row[j].lease > 0 \/ row[j].wait > 0
    BY DEF Tick, Queue!Tick
  <2> QED
    BY <1>0, <2>1
<1> QED
  BY <1>1, <1>2, <1>3, <1>4, <1>5, <1>6 DEF Next

\* Every step keeps the attempts, and publishes the latest one only.
LEMMA StepKeeps ==
  ASSUME Recorded, [Next]_vars
  PROVE  Kept
<1>0. attempts \in Seq(Attempt)
  BY DEF Recorded
<1>1. CASE UNCHANGED vars
  BY <1>0, <1>1, Unpublished DEF vars
<1>2. CASE Next /\ attempts = <<>>
  <2>1. PICK c \in Callers : Accept(c)
    BY <1>2, AcceptanceIsFirst DEF Recorded
  <2>2. PICK source \in Sources : Record(c, source, "enqueue")
    BY <2>1 DEF Accept
  <2> QED
    BY <1>0, <2>1, <2>2, RecordKeeps, Unpublished DEF Accept
<1>3. CASE Next /\ attempts # <<>>
  <2>1. ASSUME NEW w \in Workers, WorkerStep(w) PROVE Kept
    <3>1. CASE Publish(w)
      BY <1>0, <3>1, PublishKeeps
    <3>2. CASE ~Publish(w)
      BY <1>0, <2>1, <3>2, Unpublished DEF WorkerStep, Take, Expire, Enter, Raise, Complete, Fail,
         Crash, OnlyQueue
    <3> QED
      BY <3>1, <3>2
  <2>2. CASE Tick
    BY <1>0, <2>2, Unpublished DEF Tick
  <2> QED
    BY <1>0, <1>3, <2>1, <2>2, RequestKeeps, RecoveryKeeps DEF Next
<1> QED
  BY <1>1, <1>2, <1>3

\* Every step keeps the attempts recorded.
LEMMA SourceStepRecorded ==
  ASSUME Recorded, [Next]_vars
  PROVE  Recorded'
<1>1. Kept /\ attempts \in Seq(Attempt) /\ artifacts.attempt \in 0..Len(attempts)
  BY StepKeeps DEF Recorded
<1>2. artifacts'.attempt \in 0..Len(attempts')
  BY <1>1 DEF Kept
<1>3. CASE attempts' = <<>>
  <2>1. attempts = <<>>
    BY <1>1, <1>3 DEF Kept
  <2>2. ~Next
    <3>1. ASSUME NEW c \in Callers, Accept(c) PROVE FALSE
      <4>1. PICK source \in Sources : Record(c, source, "enqueue")
        BY <3>1 DEF Accept
      <4> QED
        BY <1>1, <1>3, <4>1, RecordKeeps
    <3> QED
      BY <2>1, <3>1, AcceptanceIsFirst DEF Recorded
  <2>3. UNCHANGED vars
    BY <2>2
  <2> QED
    BY <1>1, <1>2, <2>1, <2>3 DEF Recorded, Pristine, Kept, vars, queue
<1> QED
  BY <1>1, <1>2, <1>3 DEF Recorded, Kept

\* The invariant of the attempts holds.
THEOREM SourceRecorded == Spec => []Recorded
<1>1. Init => Recorded
  BY SourceAssumption DEF Init, Queue!Init, Recorded, Pristine, NoArtifacts, Attempt
<1>2. Recorded /\ [Next]_vars => Recorded'
  BY SourceStepRecorded
<1> QED
  BY <1>1, <1>2, PTL DEF Spec

\* Readers never get an older source back, for any number of attempts, jobs,
\* requests and workers: whatever is published is of the latest attempt, and no
\* step loses an attempt.
THEOREM SourceNeverGoesBack == Spec => ArtifactsNeverGoBack
<1>1. Recorded /\ [Next]_vars => [artifacts'.attempt >= artifacts.attempt]_vars
  <2> SUFFICES ASSUME Recorded, [Next]_vars PROVE artifacts'.attempt >= artifacts.attempt
    OBVIOUS
  <2>1. Kept /\ artifacts.attempt \in 0..Len(attempts) /\ Len(attempts) \in Nat
    BY StepKeeps DEF Recorded
  <2> QED
    BY <2>1 DEF Kept
<1> QED
  BY <1>1, SourceRecorded, PTL DEF Spec, ArtifactsNeverGoBack

-----------------------------------------------------------------------------
(* The queue *)

LEMMA QueueAssumptions ==
  /\ QP!PolicyAssumption /\ QP!WorkersAssumption
  /\ \A n \in Nat : QP!RetryDelay(n) \in Nat
<1>1. <<>> \in Seq(Nat)
  OBVIOUS
<1>2. NoWorker \notin Workers /\ NoJob \notin Jobs /\ MaxAttempts \in Nat \ {0}
      /\ MaxClaims \in Nat
  BY SourceAssumption DEF Jobs, NoJob
<1> QED
  BY <1>1, <1>2 DEF QP!PolicyAssumption, QP!WorkersAssumption, QP!RetryDelay

\* The queue of this module is the one the lemmas are about.
LEMMA SameQueue ==
  /\ \A w \in Workers : Queue!ClaimIsCurrent(w) <=> QP!ClaimIsCurrent(w)
  /\ \A w \in Workers, j \in Jobs :
       /\ Queue!Owns(w, j) <=> QP!Owns(w, j)
       /\ Queue!Claim(w, j) <=> QP!Claim(w, j)
       /\ Queue!DeadLetterExpired(w, j) <=> QP!DeadLetterExpired(w, j)
  /\ \A j \in Jobs :
       /\ Queue!Enqueue(j) <=> QP!Enqueue(j)
       /\ Queue!RequeueDead(j) <=> QP!RequeueDead(j)
       /\ Queue!Prune(j) <=> QP!Prune(j)
  /\ \A w \in Workers :
       /\ Queue!Start(w) <=> QP!Start(w)
       /\ Queue!Complete(w) <=> QP!Complete(w)
       /\ Queue!Fail(w) <=> QP!Fail(w)
       /\ Queue!Crash(w) <=> QP!Crash(w)
       /\ \A pc \in QP!Phases : Queue!Goto(w, pc) <=> QP!Goto(w, pc)
  /\ Queue!Tick <=> QP!Tick
  /\ Queue!Init <=> QP!Init
<1>1. \A w \in Workers, j \in Jobs : Queue!Owns(w, j) <=> QP!Owns(w, j)
  BY DEF Queue!Owns, QP!Owns, Queue!LeaseLive, QP!LeaseLive
<1>2. \A w \in Workers : Queue!ClaimIsCurrent(w) <=> QP!ClaimIsCurrent(w)
  BY DEF Queue!ClaimIsCurrent, QP!ClaimIsCurrent, Queue!Owns, QP!Owns,
         Queue!LeaseLive, QP!LeaseLive
<1>3. \A w \in Workers, j \in Jobs : Queue!Claim(w, j) <=> QP!Claim(w, j)
  BY DEF Queue!Claim, QP!Claim, Queue!Claimed, QP!Claimed, Queue!Claimable, QP!Claimable,
         Queue!Waiting, QP!Waiting, Queue!Due, QP!Due, Queue!LeaseLive, QP!LeaseLive
<1>4. \A w \in Workers, j \in Jobs :
        Queue!DeadLetterExpired(w, j) <=> QP!DeadLetterExpired(w, j)
  BY DEF Queue!DeadLetterExpired, QP!DeadLetterExpired, Queue!LeaseLive, QP!LeaseLive,
         Queue!Expired, QP!Expired, Queue!Unclaimed, QP!Unclaimed
<1>5. \A j \in Jobs : Queue!Enqueue(j) <=> QP!Enqueue(j)
  BY DEF Queue!Enqueue, QP!Enqueue, Queue!Fresh, QP!Fresh, Queue!Unclaimed, QP!Unclaimed
<1>6. \A j \in Jobs : Queue!RequeueDead(j) <=> QP!RequeueDead(j)
  BY DEF Queue!RequeueDead, QP!RequeueDead, Queue!Repairable, QP!Repairable,
         Queue!Unclaimed, QP!Unclaimed
<1>7. \A w \in Workers : Queue!Start(w) <=> QP!Start(w)
  BY DEF Queue!Start, QP!Start, Queue!Owns, QP!Owns, Queue!LeaseLive, QP!LeaseLive,
         Queue!Goto, QP!Goto, Queue!Return, QP!Return, Queue!Idle, QP!Idle
<1>8. \A w \in Workers : Queue!Complete(w) <=> QP!Complete(w)
  BY DEF Queue!Complete, QP!Complete, Queue!CompleteRow, QP!CompleteRow, Queue!Owns, QP!Owns,
         Queue!LeaseLive, QP!LeaseLive, Queue!Released, QP!Released, Queue!Unclaimed,
         QP!Unclaimed, Queue!Return, QP!Return, Queue!Idle, QP!Idle
<1>9. \A w \in Workers : Queue!Fail(w) <=> QP!Fail(w)
  BY DEF Queue!Fail, QP!Fail, Queue!FailRow, QP!FailRow, Queue!Owns, QP!Owns,
         Queue!LeaseLive, QP!LeaseLive, Queue!RetryDelay, QP!RetryDelay, Queue!Unclaimed,
         QP!Unclaimed, Queue!Return, QP!Return, Queue!Idle, QP!Idle
<1>10. \A w \in Workers : Queue!Crash(w) <=> QP!Crash(w)
  BY DEF Queue!Crash, QP!Crash, Queue!Return, QP!Return, Queue!Idle, QP!Idle
<1>11. \A w \in Workers, pc \in QP!Phases : Queue!Goto(w, pc) <=> QP!Goto(w, pc)
  BY DEF Queue!Goto, QP!Goto
<1>12. Queue!Tick <=> QP!Tick
  BY DEF Queue!Tick, QP!Tick, Queue!Elapse, QP!Elapse
<1>13. \A j \in Jobs : Queue!Prune(j) <=> QP!Prune(j)
  BY DEF Queue!Prune, QP!Prune, Queue!Fresh, QP!Fresh, Queue!Unclaimed, QP!Unclaimed
<1>14. Queue!Init <=> QP!Init
  BY DEF Queue!Init, QP!Init, Queue!Fresh, QP!Fresh, Queue!Unclaimed, QP!Unclaimed,
         Queue!Idle, QP!Idle
<1> QED
  BY <1>1, <1>2, <1>3, <1>4, <1>5, <1>6, <1>7, <1>8, <1>9, <1>10, <1>11, <1>12, <1>13, <1>14

\* A transaction of the handler renews the claim, or finds that it lost it.
LEMMA HandlerTidy ==
  ASSUME QP!Tidy, NEW w \in Workers, worker[w].pc # "idle", UNCHANGED claims,
         row' = row \/ row' = Renewed(w),
         \/ UNCHANGED worker
         \/ \E pc \in {"completing", "failing"} : Queue!Goto(w, pc)
  PROVE  QP!TidyStep
<1>1. \/ UNCHANGED worker
      \/ \E pc \in QP!Phases \ {"idle"} : QP!Goto(w, pc)
  BY SameQueue DEF QP!Phases
<1>2. CASE row' = row
  BY <1>1, <1>2, QP!OneWorkerQuiet, QueueAssumptions
<1>3. CASE row' # row
  <2>1. Queue!ClaimIsCurrent(w) /\ row' = [row EXCEPT ![worker[w].job].lease = 1]
    BY <1>3 DEF Renewed
  <2>2. row[worker[w].job].lease > 0
    BY <2>1 DEF Queue!ClaimIsCurrent, Queue!Owns, Queue!LeaseLive
  <2> QED
    BY <1>1, <2>1, <2>2, QP!RenewTidy, QueueAssumptions
<1> QED
  BY <1>2, <1>3

LEMMA RestTidy ==
  ASSUME QP!Tidy, UNCHANGED <<row, worker, claims>>
  PROVE  QP!TidyStep
<1>1. QP!Quiet
  BY QP!SameRowQuiet, QueueAssumptions DEF QP!Quiet, QP!QuietWorker, QP!Tidy
<1> QED
  BY <1>1, QP!QuietTidy, QueueAssumptions

LEMMA EnqueuedTidy ==
  ASSUME QP!Tidy, NEW a, Enqueued(a)
  PROVE  QP!TidyStep
<1>1. PICK j \in Jobs : Queue!Enqueue(j)
  BY DEF Enqueued, Free
<1>2. QP!Enqueue(j)
  BY <1>1, SameQueue
<1> QED
  BY <1>2, QP!CallerTidy, QueueAssumptions DEF QP!Caller

LEMMA QueueStep ==
  ASSUME QP!Tidy, [Next]_vars
  PROVE  QP!TidyStep
<1>1. CASE UNCHANGED <<row, worker, claims>>
  BY <1>1, RestTidy
<1>2. ASSUME NEW c \in Callers, Request(c)
      PROVE  QP!TidyStep
  <2>1. CASE EnqueueAccepted(c) \/ Dispatch(c)
    <3>1. Enqueued(call[c].attempt) \/ UNCHANGED queue
      BY <2>1 DEF EnqueueAccepted, Dispatch
    <3> QED
      BY <1>1, <3>1, EnqueuedTidy DEF queue
  <2>2. CASE Accept(c) \/ Retry(c) \/ Refresh(c) \/ Repair(c) \/ Reuse(c)
    BY <1>1, <2>2 DEF Accept, Retry, Refresh, Repair, Reuse, OnlyCall, queue
  <2>3. CASE RecordFailure(c) \/ ReuseRecorded(c) \/ Refused(c) \/ CallerDies(c)
    BY <1>1, <2>3 DEF RecordFailure, ReuseRecorded, Refused, CallerDies, queue
  <2> QED
    BY <1>2, <2>1, <2>2, <2>3 DEF Request, Goes
<1>3. CASE Discover
  BY <1>1, <1>3 DEF Discover, OnlyCall, queue
<1>4. CASE Ensure
  <2>1. Enqueued(call[Reconciler].attempt) \/ UNCHANGED queue
    BY <1>4 DEF Ensure
  <2> QED
    BY <1>1, <2>1, EnqueuedTidy DEF queue
<1>5. CASE RetryDead
  <2>1. Queue!RequeueDead(Latest.job) /\ row[Latest.job].status = "dead"
    BY <1>5 DEF RetryDead, Suspended, Latest
  <2>2. CASE Latest.job \in Jobs
    <3>1. QP!RequeueDead(Latest.job)
      BY <2>1, <2>2, SameQueue
    <3> QED
      BY <2>2, <3>1, QP!CallerTidy, QueueAssumptions DEF QP!Caller
  <2>3. CASE Latest.job \notin Jobs
    <3>1. UNCHANGED <<row, worker, claims>>
      BY <2>1, <2>3 DEF QP!Tidy, Queue!RequeueDead
    <3> QED
      BY <1>1, <3>1
  <2> QED
    BY <2>2, <2>3
<1>6. ASSUME NEW j \in Jobs, Prune(j)
      PROVE  QP!TidyStep
  <2>1. QP!Prune(j)
    BY <1>6, SameQueue DEF Prune
  <2> QED
    BY <2>1, QP!CallerTidy, QueueAssumptions DEF QP!Caller
<1>7. ASSUME NEW w \in Workers, NEW j \in Jobs, Take(w, j) \/ Expire(w, j)
      PROVE  QP!TidyStep
  <2>1. CASE Take(w, j)
    <3>1. QP!Claim(w, j)
      BY <2>1, SameQueue DEF Take
    <3> QED
      BY <3>1, QP!ClaimTidy, QueueAssumptions
  <2>2. CASE Expire(w, j)
    <3>1. QP!DeadLetterExpired(w, j)
      BY <2>2, SameQueue DEF Expire
    <3> QED
      BY <3>1, QP!ElapseTidy, QueueAssumptions
  <2> QED
    BY <1>7, <2>1, <2>2
<1>8. ASSUME NEW w \in Workers, Enter(w) \/ Complete(w) \/ Fail(w) \/ Crash(w)
      PROVE  QP!TidyStep
  <2>1. CASE Enter(w)
    <3>1. QP!Start(w)
      BY <2>1, SameQueue DEF Enter
    <3> QED
      BY <3>1, QP!StartTidy, QueueAssumptions
  <2>2. CASE Complete(w) \/ Fail(w)
    <3>1. QP!Complete(w) \/ QP!Fail(w)
      BY <2>2, SameQueue DEF Complete, Fail
    <3> QED
      BY <3>1, QP!SettleTidy, QueueAssumptions
  <2>3. CASE Crash(w)
    <3>1. QP!Crash(w)
      BY <2>3, SameQueue DEF Crash
    <3> QED
      BY <3>1, QP!MemoryTidy, QueueAssumptions DEF QP!Crash
  <2> QED
    BY <1>8, <2>1, <2>2, <2>3
<1>9. ASSUME NEW w \in Workers, Publish(w) \/ Raise(w)
      PROVE  QP!TidyStep
  <2>1. worker[w].pc # "idle" /\ UNCHANGED claims /\ (row' = row \/ row' = Renewed(w))
    BY <1>9 DEF Publish, MarkRunning, Begin, PublishArtifacts, PublishFailure, PublishTerminal,
                Phase, At, Raise
  <2>2. UNCHANGED worker \/ \E pc \in {"completing", "failing"} : Queue!Goto(w, pc)
    BY <1>9 DEF Publish, MarkRunning, Begin, PublishArtifacts, PublishFailure, PublishTerminal,
                Phase, Raise, Return, Go, Then
  <2> QED
    BY <2>1, <2>2, HandlerTidy
<1>10. CASE Tick
  <2>1. QP!Tick
    BY <1>10, SameQueue DEF Tick
  <2> QED
    BY <2>1, QP!ElapseTidy, QueueAssumptions
<1>11. CASE UNCHANGED vars
  BY <1>1, <1>11 DEF vars, queue
<1> QED
  BY <1>2, <1>3, <1>4, <1>5, <1>6, <1>7, <1>8, <1>9, <1>10, <1>11 DEF Next, WorkerStep

-----------------------------------------------------------------------------
(* The books: attempts, payloads, jobs, media, requests and handlers *)

\* The job of the latest attempt; a job whose handler would be superseded now.
Bound(j) == payload[j] = Len(attempts) /\ attempts[payload[j]].job = j
Over(j)  == ~(Bound(j) /\ attempts[payload[j]].status \in InFlight)

\* A job that exists has an attempt in its payload, and an attempt that has a
\* job is the one in the payload of that job.
Payloads ==
  /\ payload \in [Jobs -> Nat]
  /\ \A j \in Jobs : row[j].status # "absent" => payload[j] \in Attempts

Bindings ==
  \A a \in Attempts : attempts[a].job # NoJob =>
    /\ payload[attempts[a].job] = a
    /\ row[attempts[a].job].status \notin {"absent", "deleted"}

\* While the latest attempt is in flight its job does not succeed.
LatestAttended ==
  attempts # <<>> /\ Latest.status \in InFlight =>
    IF Latest.job = NoJob THEN Latest.status = "accepted" ELSE row[Latest.job].status # "succeeded"

\* An unfinished media has an attempt in flight, not always the latest.
MediaLive ==
  /\ media \in MediaStatus
  /\ attempts # <<>> => media # "absent"
  /\ media \in {"pending", "extracting"} => \E a \in Attempts : attempts[a].status \in InFlight

\* A request that goes on holds an attempt that exists.
Requests ==
  /\ call \in [Callers \cup {Reconciler} ->
       [at: Steps \cup {"reuse"}, attempt: Nat, seen: MediaStatus]]
  /\ \A c \in Callers \cup {Reconciler} :
       call[c].at \in Steps \ {"none"} => call[c].attempt \in Attempts

\* A handler that owns its job: if it has returned, its job is over; if it has
\* published and would not be superseded, what is published is its own.
Mem(w) ==
  /\ exec[w] # "none" => worker[w].pc = "executing"
  /\ exec[w] \in {"fetch", "terminal"} => media \notin {"absent", "pending"}
  /\ \A j \in Jobs : worker[w].job = j /\ Queue!Owns(w, j) =>
       /\ worker[w].pc = "completing" => Over(j)
       /\ exec[w] = "terminal" /\ Bound(j) => artifacts = Execution(w)

Memories ==
  /\ exec \in [Workers -> {"none", "mark", "begin", "fetch", "terminal"}]
  /\ \A w \in Workers : Mem(w)

Books == Payloads /\ Bindings /\ LatestAttended

IInv == Recorded /\ QP!Tidy /\ Books /\ MediaLive /\ Requests /\ Memories

\* What no step does to a job that exists: give it another attempt, or let a
\* handler of it publish that would have been superseded.
Steady ==
  \A j \in Jobs : row[j].status # "absent" =>
    /\ payload'[j] = payload[j]
    /\ Over(j) => Over(j)'
    /\ Bound(j)' => Bound(j)

\* What is known of every step.
Sound == IInv /\ Kept /\ QP!TidyStep

\* A step of the rows that makes and deletes none, and lets none succeed whose
\* handler could still publish.
RowsKeep ==
  \A j \in Jobs :
    /\ row'[j].status = "absent" <=> row[j].status = "absent"
    /\ row'[j].status = "deleted" => row[j].status = "deleted"
    /\ row'[j].status = "succeeded" => row[j].status = "succeeded" \/ Over(j)

\* What the proofs below use of the attempts.
LEMMA AttemptsAre ==
  ASSUME Sound
  PROVE  /\ attempts \in Seq(Attempt) /\ attempts' \in Seq(Attempt)
         /\ Len(attempts) \in Nat /\ Len(attempts') \in Nat
         /\ attempts \in [Attempts -> Attempt]
         /\ \A a \in Attempts : attempts[a] \in Attempt
         /\ Len(attempts') >= Len(attempts)
         /\ \A a \in Attempts : attempts[a].job \in Jobs \cup {NoJob}
         /\ NoJob \notin Jobs
         /\ attempts # <<>> => Len(attempts) \in Attempts
<1>1. attempts \in Seq(Attempt) /\ attempts' \in Seq(Attempt) /\ Len(attempts') >= Len(attempts)
  BY DEF Sound, IInv, Recorded, Kept
<1>2. attempts \in [Attempts -> Attempt] /\ Len(attempts) \in Nat /\ Len(attempts') \in Nat
  BY <1>1 DEF Attempts
<1>3. \A a \in Attempts : attempts[a] \in Attempt /\ attempts[a].job \in Jobs \cup {NoJob}
  BY <1>2 DEF Attempt
<1>4. attempts # <<>> => Len(attempts) \in Attempts
  BY <1>1, <1>2 DEF Attempts
<1>5. NoJob \notin Jobs
  BY SourceAssumption DEF Jobs, NoJob
<1> QED
  BY <1>1, <1>2, <1>3, <1>4, <1>5

\* A step that touches rows only.
LEMMA Untouched ==
  ASSUME Sound, UNCHANGED <<attempts, payload>>, RowsKeep
  PROVE  Books' /\ Steady
<1>1. Payloads' /\ Steady
  BY DEF Sound, IInv, Books, Payloads, RowsKeep, Attempts, Steady, Over, Bound
<1>2. Bindings'
  <2> SUFFICES ASSUME NEW a \in Attempts, attempts[a].job # NoJob
               PROVE  /\ payload[attempts[a].job] = a
                      /\ row'[attempts[a].job].status \notin {"absent", "deleted"}
    BY DEF Bindings, Attempts
  <2>1. attempts[a].job \in Jobs
    BY AttemptsAre
  <2> QED
    BY <2>1 DEF Sound, IInv, Books, Bindings, RowsKeep
<1>3. LatestAttended'
  <2> SUFFICES ASSUME attempts # <<>>, Latest.status \in InFlight, Latest.job # NoJob
               PROVE  row'[Latest.job].status # "succeeded"
    BY DEF LatestAttended, Latest, Sound, IInv, Books
  <2>1. Latest.job \in Jobs /\ Len(attempts) \in Attempts
    BY AttemptsAre DEF Latest
  <2>2. payload[Latest.job] = Len(attempts)
    BY <2>1 DEF Sound, IInv, Books, Bindings, Latest
  <2>3. ~Over(Latest.job) /\ row[Latest.job].status # "succeeded"
    BY <2>1, <2>2 DEF Over, Bound, Latest, Sound, IInv, Books, LatestAttended
  <2> QED
    BY <2>1, <2>3 DEF RowsKeep
<1> QED
  BY <1>1, <1>2, <1>3 DEF Books

\* A step that records an attempt that has no job.
LEMMA Appended ==
  ASSUME Sound, UNCHANGED <<row, payload>>, NEW r \in Attempt, attempts' = Append(attempts, r),
         r.job = NoJob, r.status \in InFlight => r.status = "accepted"
  PROVE  Books' /\ Steady
<1>0. /\ Len(attempts') = Len(attempts) + 1 /\ attempts'[Len(attempts')] = r
      /\ \A a \in Attempts : attempts'[a] = attempts[a]
      /\ Len(attempts) \in Nat
  BY AttemptsAre DEF Attempts
<1>1. \A j \in Jobs : ~Bound(j)'
  BY <1>0, AttemptsAre DEF Bound
<1>2. Payloads' /\ Steady
  BY <1>0, <1>1 DEF Sound, IInv, Books, Payloads, Attempts, Steady, Over
<1>3. Bindings'
  BY <1>0 DEF Sound, IInv, Books, Bindings, Attempts
<1>4. LatestAttended'
  BY <1>0 DEF LatestAttended, Latest
<1> QED
  BY <1>2, <1>3, <1>4 DEF Books

\* A step that gives an attempt a new job.
LEMMA GivenJob ==
  ASSUME Sound, NEW a \in Attempts, Enqueued(a)
  PROVE  /\ Books' /\ Steady /\ Len(attempts') = Len(attempts)
         /\ attempts'[a].status \in InFlight
         /\ \A b \in Attempts : attempts[b].status \in InFlight => attempts'[b].status \in InFlight
<1>1. PICK k \in Free : /\ Queue!Enqueue(k)
                        /\ payload' = [payload EXCEPT ![k] = a]
                        /\ attempts' = [attempts EXCEPT ![a].status = "queued", ![a].job = k]
  BY DEF Enqueued
<1>2. k \in Jobs /\ row[k].status = "absent" /\ k # NoJob
  BY <1>1, AttemptsAre DEF Free
<1>3. /\ row'[k].status = "pending" /\ payload'[k] = a
      /\ \A j \in Jobs \ {k} : row'[j] = row[j] /\ payload'[j] = payload[j]
  <2>1. row \in [Jobs -> QP!Row] /\ payload \in [Jobs -> Nat]
    BY DEF Sound, IInv, QP!Tidy, Books, Payloads
  <2> QED
    BY <1>1, <1>2, <2>1 DEF Queue!Enqueue, Queue!Fresh, Queue!Unclaimed
<1>4. Len(attempts') = Len(attempts)
  BY EnqueuedKeeps, AttemptsAre
<1>5. /\ attempts'[a].status = "queued" /\ attempts'[a].job = k
      /\ \A b \in Attempts \ {a} : attempts'[b] = attempts[b]
  <2>1. attempts \in [Attempts -> Attempt]
    BY AttemptsAre
  <2>2. attempts[a] \in Attempt
    BY AttemptsAre
  <2> QED
    BY <1>1, <2>1, <2>2 DEF Attempt
<1>6. \A b \in Attempts : attempts[b].status \in InFlight => attempts'[b].status \in InFlight
  BY <1>5 DEF InFlight
<1>7. Attempts' = Attempts
  BY <1>4 DEF Attempts
<1>8. Payloads'
  <2>1. payload' \in [Jobs -> Nat]
    <3>1. a \in Nat
      BY AttemptsAre DEF Attempts
    <3>2. payload \in [Jobs -> Nat]
      BY DEF Sound, IInv, Books, Payloads
    <3> QED
      BY <1>1, <3>1, <3>2
  <2>2. \A j \in Jobs : row'[j].status # "absent" => payload'[j] \in Attempts
    BY <1>3 DEF Sound, IInv, Books, Payloads
  <2> QED
    BY <1>7, <2>1, <2>2 DEF Payloads
<1>9. Bindings'
  <2> SUFFICES ASSUME NEW b \in Attempts, attempts'[b].job # NoJob
               PROVE  /\ payload'[attempts'[b].job] = b
                      /\ row'[attempts'[b].job].status \notin {"absent", "deleted"}
    BY <1>7 DEF Bindings
  <2>1. CASE b = a
    BY <1>3, <1>5, <2>1
  <2>2. CASE b # a
    <3>1. attempts'[b] = attempts[b] /\ attempts[b].job \in Jobs
      BY <1>5, <2>2, AttemptsAre
    <3>2. payload[attempts[b].job] = b /\ row[attempts[b].job].status \notin {"absent", "deleted"}
      BY <3>1 DEF Sound, IInv, Books, Bindings
    <3>3. attempts[b].job # k
      BY <1>2, <3>2
    <3> QED
      BY <1>3, <3>1, <3>2, <3>3
  <2> QED
    BY <2>1, <2>2
<1>10. LatestAttended'
  <2> SUFFICES ASSUME attempts' # <<>>, attempts'[Len(attempts)].status \in InFlight
               PROVE  IF attempts'[Len(attempts)].job = NoJob
                      THEN attempts'[Len(attempts)].status = "accepted"
                      ELSE row'[attempts'[Len(attempts)].job].status # "succeeded"
    BY <1>4 DEF LatestAttended, Latest
  <2>1. CASE a = Len(attempts)
    BY <1>2, <1>3, <1>5, <2>1
  <2>2. CASE a # Len(attempts)
    <3>1. Len(attempts) \in Attempts /\ attempts # <<>>
      BY AttemptsAre DEF Attempts
    <3>2. attempts'[Len(attempts)] = Latest
      BY <1>5, <2>2, <3>1 DEF Latest
    <3>3. CASE Latest.job = NoJob
      BY <3>1, <3>2, <3>3 DEF Sound, IInv, Books, LatestAttended
    <3>4. CASE Latest.job # NoJob
      <4>1. Latest.job \in Jobs
        BY <3>1, <3>4, AttemptsAre DEF Latest
      <4>2. row[Latest.job].status \notin {"absent", "succeeded"}
        BY <3>1, <3>2, <3>4 DEF Sound, IInv, Books, LatestAttended, Bindings, Latest
      <4> QED
        BY <1>2, <1>3, <3>2, <3>4, <4>1, <4>2
    <3> QED
      BY <3>3, <3>4
  <2> QED
    BY <2>1, <2>2
<1>11. Steady
  <2> SUFFICES ASSUME NEW j \in Jobs, row[j].status # "absent"
               PROVE  /\ payload'[j] = payload[j]
                      /\ Over(j) => Over(j)'
                      /\ Bound(j)' => Bound(j)
    BY DEF Steady
  <2>1. payload'[j] = payload[j] /\ payload[j] \in Attempts /\ j # k
    BY <1>2, <1>3 DEF Sound, IInv, Books, Payloads
  <2>2. CASE payload[j] = a
    <3>1. ~Bound(j)'
      BY <1>5, <2>1, <2>2 DEF Bound
    <3> QED
      BY <2>1, <3>1 DEF Over
  <2>3. CASE payload[j] # a
    BY <1>4, <1>5, <2>1, <2>3 DEF Over, Bound
  <2> QED
    BY <2>2, <2>3
<1> QED
  BY <1>4, <1>5, <1>6, <1>8, <1>9, <1>10, <1>11 DEF Books, InFlight

\* A step that gives an attempt another status.  None gets back in flight.
LEMMA Moved ==
  ASSUME Sound, NEW a \in Attempts, NEW st \in InFlight \cup {"succeeded", "failed"},
         attempts' = [attempts EXCEPT ![a].status = st], UNCHANGED payload, RowsKeep,
         st \in InFlight => attempts[a].status \in InFlight /\ attempts[a].job # NoJob
  PROVE  /\ Books' /\ Steady /\ Len(attempts') = Len(attempts)
         /\ attempts'[a].status = st
         /\ \A b \in Attempts \ {a} : attempts'[b] = attempts[b]
<1>1. Len(attempts') = Len(attempts)
  BY StatusMoves, AttemptsAre
<1>2. /\ attempts'[a].status = st
      /\ \A b \in Attempts \ {a} : attempts'[b] = attempts[b]
      /\ \A b \in Attempts : attempts'[b].job = attempts[b].job
  <2>1. attempts \in [Attempts -> Attempt] /\ attempts[a] \in Attempt
    BY AttemptsAre
  <2> QED
    BY <2>1 DEF Attempt
<1>3. Attempts' = Attempts
  BY <1>1 DEF Attempts
<1>4. \A b \in Attempts : attempts'[b].status \in InFlight => attempts[b].status \in InFlight
  BY <1>2
<1>5. Payloads'
  BY <1>3 DEF Sound, IInv, Books, Payloads, RowsKeep
<1>6. Bindings'
  <2> SUFFICES ASSUME NEW b \in Attempts, attempts[b].job # NoJob
               PROVE  /\ payload[attempts[b].job] = b
                      /\ row'[attempts[b].job].status \notin {"absent", "deleted"}
    BY <1>2, <1>3 DEF Bindings
  <2>1. attempts[b].job \in Jobs
    BY AttemptsAre
  <2> QED
    BY <2>1 DEF Sound, IInv, Books, Bindings, RowsKeep
<1>7. Steady
  <2> SUFFICES ASSUME NEW j \in Jobs, row[j].status # "absent"
               PROVE  /\ Over(j) => Over(j)'
                      /\ Bound(j)' => Bound(j)
    BY DEF Steady
  <2>1. payload[j] \in Attempts
    BY DEF Sound, IInv, Books, Payloads
  <2> QED
    BY <1>1, <1>2, <1>4, <2>1 DEF Over, Bound
<1>8. LatestAttended'
  <2> SUFFICES ASSUME attempts' # <<>>, attempts'[Len(attempts)].status \in InFlight
               PROVE  IF attempts'[Len(attempts)].job = NoJob
                      THEN attempts'[Len(attempts)].status = "accepted"
                      ELSE row'[attempts'[Len(attempts)].job].status # "succeeded"
    BY <1>1 DEF LatestAttended, Latest
  <2>1. Len(attempts) \in Attempts /\ attempts # <<>>
    BY AttemptsAre DEF Attempts
  <2>2. Latest.status \in InFlight /\ attempts'[Len(attempts)].job = Latest.job
    BY <1>2, <1>4, <2>1 DEF Latest
  <2>3. CASE Latest.job = NoJob
    <3>1. a # Len(attempts)
      BY <1>2, <2>3 DEF Latest
    <3>2. attempts'[Len(attempts)] = Latest
      BY <1>2, <2>1, <3>1 DEF Latest
    <3> QED
      BY <2>1, <2>2, <2>3, <3>2 DEF Sound, IInv, Books, LatestAttended
  <2>4. CASE Latest.job # NoJob
    <3>1. Latest.job \in Jobs
      BY <2>1, <2>4, AttemptsAre DEF Latest
    <3>2. payload[Latest.job] = Len(attempts) /\ row[Latest.job].status # "succeeded"
      BY <2>1, <2>2, <2>4 DEF Sound, IInv, Books, Bindings, LatestAttended, Latest
    <3>3. ~Over(Latest.job)
      BY <2>2, <3>2 DEF Over, Bound, Latest
    <3> QED
      BY <2>2, <2>4, <3>1, <3>2, <3>3 DEF RowsKeep
  <2> QED
    BY <2>3, <2>4
<1> QED
  BY <1>1, <1>2, <1>5, <1>6, <1>7, <1>8 DEF Books

\* Pruning: only the job of an attempt that is not the latest in flight.
LEMMA Pruned ==
  ASSUME Sound, NEW j \in Jobs, Prune(j)
  PROVE  /\ Books' /\ Steady /\ Len(attempts') = Len(attempts)
         /\ \A b \in Attempts : attempts'[b].status = attempts[b].status
<1>1. /\ row[j].status = "succeeded"
      /\ row'[j].status = "deleted"
      /\ \A k \in Jobs \ {j} : row'[k] = row[k]
  <2>1. row \in [Jobs -> QP!Row]
    BY DEF Sound, IInv, QP!Tidy
  <2> QED
    BY <2>1 DEF Prune, Queue!Prune, Queue!Fresh, Queue!Unclaimed
<1>2. \A b \in Attempts :
        /\ attempts'[b].status = attempts[b].status
        /\ attempts'[b].job = IF attempts[b].job = j THEN NoJob ELSE attempts[b].job
        /\ attempts[b].job # j => attempts'[b] = attempts[b]
  <2>1. \A b \in Attempts : attempts[b] \in Attempt
    BY AttemptsAre
  <2> QED
    BY <2>1 DEF Prune, Attempt
<1>3. Len(attempts') = Len(attempts)
  <2>1. \A r \in Attempt : [r EXCEPT !.job = NoJob] \in Attempt
    BY DEF Attempt
  <2>2. attempts' \in [Attempts -> Attempt]
    BY <2>1, AttemptsAre DEF Prune
  <2> QED
    BY <2>2, InPlace, AttemptsAre
<1>4. Attempts' = Attempts /\ UNCHANGED payload
  BY <1>3 DEF Attempts, Prune
<1>5. Payloads'
  BY <1>1, <1>4 DEF Sound, IInv, Books, Payloads
<1>6. Bindings'
  <2> SUFFICES ASSUME NEW b \in Attempts, attempts'[b].job # NoJob
               PROVE  /\ payload[attempts'[b].job] = b
                      /\ row'[attempts'[b].job].status \notin {"absent", "deleted"}
    BY <1>4 DEF Bindings
  <2>1. attempts'[b].job = attempts[b].job /\ attempts[b].job \in Jobs \ {j}
    BY <1>2, AttemptsAre
  <2> QED
    BY <1>1, <2>1 DEF Sound, IInv, Books, Bindings
<1>7. Steady
  <2> SUFFICES ASSUME NEW k \in Jobs, row[k].status # "absent"
               PROVE  /\ Over(k) => Over(k)'
                      /\ Bound(k)' => Bound(k)
    BY <1>4 DEF Steady
  <2>1. payload[k] \in Attempts /\ k # NoJob
    BY AttemptsAre DEF Sound, IInv, Books, Payloads
  <2> QED
    BY <1>2, <1>3, <1>4, <2>1 DEF Over, Bound
<1>8. LatestAttended'
  <2> SUFFICES ASSUME attempts' # <<>>, attempts'[Len(attempts)].status \in InFlight
               PROVE  IF attempts'[Len(attempts)].job = NoJob
                      THEN attempts'[Len(attempts)].status = "accepted"
                      ELSE row'[attempts'[Len(attempts)].job].status # "succeeded"
    BY <1>3 DEF LatestAttended, Latest
  <2>1. Len(attempts) \in Attempts /\ attempts # <<>>
    BY <1>3, AttemptsAre DEF Attempts
  <2>2. Latest.status \in InFlight
    BY <1>2, <2>1 DEF Latest
  <2>3. Latest.job # j
    <3>1. j # NoJob
      BY AttemptsAre
    <3> QED
      BY <1>1, <2>1, <2>2, <3>1 DEF Sound, IInv, Books, LatestAttended
  <2>4. attempts'[Len(attempts)] = Latest
    BY <1>2, <2>1, <2>3 DEF Latest
  <2>5. Latest.job \in Jobs \cup {NoJob}
    BY <2>1, AttemptsAre DEF Latest
  <2> QED
    BY <1>1, <2>1, <2>2, <2>3, <2>4, <2>5 DEF Sound, IInv, Books, LatestAttended
<1> QED
  BY <1>2, <1>3, <1>5, <1>6, <1>7, <1>8 DEF Books

-----------------------------------------------------------------------------
(* The handlers' memory *)

\* Once a media is past pending it stays past it.
MediaMoves ==
  /\ media' \in MediaStatus
  /\ media # "absent" => media' # "absent"
  /\ media \notin {"absent", "pending"} => media' \notin {"absent", "pending"}

\* A worker at a job owned it before the step if it owns it after.
LEMMA OwnedBefore ==
  ASSUME Sound, NEW w \in Workers, NEW j \in Jobs, worker[w].job = j, worker'[w].job = j,
         worker[w].pc # "idle", worker'[w].pc # "idle", Queue!Owns(w, j)'
  PROVE  Queue!Owns(w, j) /\ row[j].status # "absent"
<1>1. QP!Holds(w)'
  BY DEF QP!Holds, QP!Owns, QP!LeaseLive, Queue!Owns, Queue!LeaseLive
<1>2. QP!Holds(w)
  BY <1>1 DEF Sound, QP!TidyStep, QP!NoneGains
<1> QED
  BY <1>2 DEF QP!Holds, QP!Owns, QP!LeaseLive, Queue!Owns, Queue!LeaseLive

\* The fence of a worker that owns its job is the current claim's.
LEMMA OwnerIsCurrent ==
  ASSUME Sound, NEW w \in Workers, NEW j \in Jobs, worker[w].job = j, worker[w].pc # "idle",
         Queue!Owns(w, j)
  PROVE  Queue!ClaimIsCurrent(w)
<1>1. QP!Holds(w)
  BY DEF QP!Holds, QP!Owns, QP!LeaseLive, Queue!Owns, Queue!LeaseLive
<1> QED
  BY <1>1 DEF Sound, IInv, QP!Tidy, Queue!ClaimIsCurrent

\* A handler that a step does not move.
LEMMA Bystander ==
  ASSUME Sound, Steady, MediaMoves, NEW w \in Workers,
         worker'[w] = worker[w], exec'[w] = exec[w],
         \A j \in Jobs : worker[w].job = j /\ Queue!Owns(w, j) /\ Bound(j) => UNCHANGED artifacts
  PROVE  Mem(w)'
<1>1. Mem(w)
  BY DEF Sound, IInv, Memories
<1>2. ASSUME NEW j \in Jobs, worker[w].job = j, worker[w].pc # "idle", Queue!Owns(w, j)'
      PROVE  /\ worker[w].pc = "completing" => Over(j)'
             /\ exec[w] = "terminal" /\ Bound(j)' => artifacts' = Execution(w)'
  <2>1. Queue!Owns(w, j) /\ row[j].status # "absent"
    BY <1>2, OwnedBefore
  <2>2. payload'[j] = payload[j] /\ (Over(j) => Over(j)') /\ (Bound(j)' => Bound(j))
    BY <2>1 DEF Steady
  <2>3. Execution(w)' = Execution(w)
    BY <1>2, <2>2 DEF Execution, Mine
  <2> QED
    BY <1>1, <1>2, <2>1, <2>2, <2>3 DEF Mem
<1>3. exec[w] = "terminal" => worker[w].pc = "executing"
  BY <1>1 DEF Mem
<1> QED
  BY <1>1, <1>2, <1>3 DEF Mem, MediaMoves

\* A handler that has left its job, or is about to fail it.
LEMMA Leaves ==
  ASSUME NEW w \in Workers, worker'[w].pc \notin {"executing", "completing"}, exec'[w] = "none"
  PROVE  Mem(w)'
BY DEF Mem

\* A handler that has published nothing yet.
LEMMA Begins ==
  ASSUME NEW w \in Workers, worker'[w].pc = "executing", exec'[w] \in {"mark", "begin"}
  PROVE  Mem(w)'
BY DEF Mem

\* A handler that returns: its job is over.
LEMMA Finishes ==
  ASSUME NEW w \in Workers, exec'[w] = "none", NEW j, worker'[w].job = j,
         j \in Jobs /\ Queue!Owns(w, j)' => Over(j)'
  PROVE  Mem(w)'
BY DEF Mem

\* A step of somebody else, which publishes nothing.
LEMMA AllBystanders ==
  ASSUME Sound, Steady, MediaMoves, UNCHANGED <<worker, exec, artifacts>>
  PROVE  Memories'
BY Bystander DEF Sound, IInv, Memories

\* A step of one worker, which publishes nothing.
LEMMA OneMoves ==
  ASSUME Sound, Steady, MediaMoves, NEW w \in Workers, UNCHANGED artifacts,
         NEW pos \in Queue!Worker, worker' = [worker EXCEPT ![w] = pos],
         NEW point \in {"none", "mark", "begin", "fetch", "terminal"},
         exec' = [exec EXCEPT ![w] = point], Mem(w)'
  PROVE  Memories'
<1>1. worker \in [Workers -> QP!Worker]
      /\ exec \in [Workers -> {"none", "mark", "begin", "fetch", "terminal"}]
  BY DEF Sound, IInv, QP!Tidy, Memories
<1>2. ASSUME NEW v \in Workers, v # w PROVE Mem(v)'
  <2>1. worker'[v] = worker[v] /\ exec'[v] = exec[v]
    BY <1>1, <1>2
  <2> QED
    BY <2>1, Bystander
<1> QED
  BY <1>1, <1>2 DEF Memories

-----------------------------------------------------------------------------
(* The requests' memory *)

\* A request is at another step, with an attempt that exists.
LEMMA Requested ==
  ASSUME Sound, NEW c \in Callers \cup {Reconciler},
         NEW r \in [at: Steps \cup {"reuse"}, attempt: Nat, seen: MediaStatus],
         call' = [call EXCEPT ![c] = r],
         r.at \in Steps \ {"none"} => r.attempt \in 1..Len(attempts')
  PROVE  Requests'
<1>1. Attempts \subseteq Attempts' /\ Attempts' = 1..Len(attempts')
  BY AttemptsAre DEF Attempts
<1> QED
  BY <1>1 DEF Sound, IInv, Requests

LEMMA NobodyAsked ==
  ASSUME Sound, UNCHANGED call
  PROVE  Requests'
<1>1. Attempts \subseteq Attempts'
  BY AttemptsAre DEF Attempts
<1> QED
  BY <1>1 DEF Sound, IInv, Requests

LEMMA Answered ==
  ASSUME Sound, NEW c \in Callers \cup {Reconciler}, Answer(c)
  PROVE  Requests'
BY Requested DEF Answer, NotCalling, Steps, MediaStatus

LEMMA Stepped ==
  ASSUME Sound, NEW c \in Callers \cup {Reconciler}, NEW at \in Steps, Step(c, at),
         call[c].at \in Steps \ {"none"}
  PROVE  Requests'
<1> DEFINE r == [call[c] EXCEPT !.at = at]
<1>1. /\ call[c] \in [at: Steps \cup {"reuse"}, attempt: Nat, seen: MediaStatus]
      /\ call[c].attempt \in Attempts
  BY DEF Sound, IInv, Requests
<1>2. /\ r \in [at: Steps \cup {"reuse"}, attempt: Nat, seen: MediaStatus]
      /\ r.attempt = call[c].attempt
  BY <1>1
<1>3. call' = [call EXCEPT ![c] = r]
  BY DEF Step
<1>4. call[c].attempt \in 1..Len(attempts')
  BY <1>1, AttemptsAre DEF Attempts
<1> HIDE DEF r
<1> QED
  BY <1>2, <1>3, <1>4, Requested

-----------------------------------------------------------------------------
(* Steps of the requests and of recovery *)

Done == Books' /\ MediaLive' /\ Requests' /\ Memories'

\* A media that keeps its status, and its attempts in flight.
LEMMA LiveKept ==
  ASSUME Sound, UNCHANGED media, media # "absent" \/ UNCHANGED attempts,
         \A b \in Attempts : attempts[b].status \in InFlight => attempts'[b].status \in InFlight
  PROVE  MediaLive' /\ MediaMoves
<1>1. Attempts \subseteq Attempts'
  BY AttemptsAre DEF Attempts
<1> QED
  BY <1>1 DEF Sound, IInv, MediaLive, MediaMoves

\* A media that comes to an end, or goes on with an attempt in flight.
LEMMA LiveMoved ==
  ASSUME Sound, media' \in {"extracting", "ready", "failed"},
         media' = "extracting" => \E b \in Attempts : attempts'[b].status \in InFlight
  PROVE  MediaLive' /\ MediaMoves
<1>1. Attempts \subseteq Attempts'
  BY AttemptsAre DEF Attempts
<1> QED
  BY <1>1 DEF MediaLive, MediaMoves, MediaStatus

\* The first attempt is recorded with the media.
LEMMA MediaThere ==
  ASSUME Sound, media # "absent"
  PROVE  attempts # <<>> /\ Len(attempts) \in Attempts /\ Latest \in Attempt
BY AttemptsAre DEF Sound, IInv, Recorded, Pristine, Latest

\* A request records an attempt.
LEMMA RecordDone ==
  ASSUME Sound, NEW c \in Callers \cup {Reconciler}, NEW source \in Sources,
         NEW at \in {"enqueue", "dispatch"}, Record(c, source, at), UNCHANGED <<row, payload>>
  PROVE  /\ Books' /\ Steady /\ Requests'
         /\ \A b \in Attempts : attempts'[b] = attempts[b]
         /\ Len(attempts) + 1 \in 1..Len(attempts')
         /\ attempts'[Len(attempts) + 1].status \in InFlight
<1> DEFINE r == [source |-> source, status |-> "accepted", job |-> NoJob]
           q == [at |-> at, attempt |-> Len(attempts) + 1, seen |-> "absent"]
<1>1. r \in Attempt /\ r.job = NoJob /\ r.status = "accepted"
  BY DEF Attempt, InFlight
<1>2. attempts' = Append(attempts, r) /\ call' = [call EXCEPT ![c] = q]
  BY DEF Record
<1>3. /\ Len(attempts') = Len(attempts) + 1 /\ attempts'[Len(attempts) + 1] = r
      /\ \A b \in Attempts : attempts'[b] = attempts[b]
      /\ Len(attempts) \in Nat
  BY <1>1, <1>2, AttemptsAre DEF Attempts
<1>4. /\ q \in [at: Steps \cup {"reuse"}, attempt: Nat, seen: MediaStatus]
      /\ q.attempt = Len(attempts) + 1
  BY <1>3 DEF Steps, MediaStatus
<1> HIDE DEF r, q
<1>5. Books' /\ Steady
  BY <1>1, <1>2, Appended
<1>6. Requests'
  <2>1. q.attempt \in 1..Len(attempts')
    BY <1>3, <1>4
  <2> QED
    BY <1>2, <1>4, <2>1, Requested
<1> QED
  BY <1>1, <1>3, <1>5, <1>6 DEF InFlight

\* A request that gives its attempt a job, and may not hear of it.
LEMMA EnqueuedDone ==
  ASSUME Sound, NEW c \in Callers \cup {Reconciler}, call[c].at \in Steps \ {"none"},
         Enqueued(call[c].attempt), Answer(c) \/ Step(c, "fail"),
         UNCHANGED <<artifacts, exec>>, UNCHANGED media \/ media' = "extracting"
  PROVE  Done
<1>1. PICK a \in Attempts : a = call[c].attempt
  BY DEF Sound, IInv, Requests
<1>2. /\ Books' /\ Steady /\ Len(attempts') = Len(attempts)
      /\ attempts'[a].status \in InFlight
      /\ \A b \in Attempts : attempts[b].status \in InFlight => attempts'[b].status \in InFlight
  BY <1>1, GivenJob
<1>3. UNCHANGED worker
  BY DEF Enqueued, Queue!Enqueue
<1>4. MediaLive' /\ MediaMoves
  <2>1. CASE UNCHANGED media
    <3>1. media # "absent"
      <4>1. attempts # <<>>
        BY <1>1, AttemptsAre DEF Attempts
      <4> QED
        BY <4>1 DEF Sound, IInv, MediaLive
    <3> QED
      BY <1>2, <2>1, <3>1, LiveKept
  <2>2. CASE media' = "extracting"
    BY <1>2, <2>2, LiveMoved
  <2> QED
    BY <2>1, <2>2
<1>5. Requests'
  <2>1. "fail" \in Steps
    BY DEF Steps
  <2> QED
    BY <2>1, Answered, Stepped
<1> QED
  BY <1>2, <1>3, <1>4, <1>5, AllBystanders DEF Done

\* A step of a request that leaves media, attempts, jobs and handlers alone.
LEMMA OnlyCallDone ==
  ASSUME Sound, Requests', UNCHANGED <<queue, media, attempts, payload, artifacts, exec>>
  PROVE  Done
<1>1. RowsKeep
  BY DEF RowsKeep, queue
<1>2. Books' /\ Steady
  BY <1>1, Untouched
<1>3. MediaLive' /\ MediaMoves
  BY LiveKept
<1> QED
  BY <1>2, <1>3, AllBystanders DEF Done, queue

LEMMA RequestDone ==
  ASSUME Sound, NEW c \in Callers, Request(c)
  PROVE  Done
<1>0. Sound /\ c \in Callers \cup {Reconciler}
  OBVIOUS
<1>1. CASE Accept(c)
  <2>1. PICK source \in Sources : Record(c, source, "enqueue")
    BY <1>1 DEF Accept
  <2>2. UNCHANGED <<row, worker, payload, artifacts, exec>> /\ media' = "pending" /\ media = "absent"
    BY <1>1 DEF Accept, queue
  <2>3. /\ Books' /\ Steady /\ Requests'
        /\ Len(attempts) + 1 \in 1..Len(attempts')
        /\ attempts'[Len(attempts) + 1].status \in InFlight
    BY <1>0, <2>1, <2>2, RecordDone
  <2>4. MediaLive' /\ MediaMoves
    BY <2>2, <2>3 DEF MediaLive, MediaMoves, MediaStatus, Attempts
  <2> QED
    BY <1>0, <2>2, <2>3, <2>4, AllBystanders DEF Done
<1>2. CASE Retry(c) \/ Refresh(c) \/ (Repair(c) /\ Record(c, Latest.source, "dispatch"))
  <2>1. /\ Record(c, Latest.source, "dispatch") /\ media # "absent"
        /\ UNCHANGED <<row, worker, payload, artifacts, exec, media>>
    BY <1>2 DEF Retry, Refresh, Repair, queue
  <2>2. Latest.source \in Sources
    BY <2>1, MediaThere DEF Attempt
  <2>3. Books' /\ Steady /\ Requests' /\ \A b \in Attempts : attempts'[b] = attempts[b]
    BY <1>0, <2>1, <2>2, RecordDone
  <2>4. MediaLive' /\ MediaMoves
    BY <2>1, <2>3, LiveKept
  <2> QED
    BY <1>0, <2>1, <2>3, <2>4, AllBystanders DEF Done
<1>3. CASE Repair(c) /\ ~Record(c, Latest.source, "dispatch")
  <2> DEFINE q == [at |-> "dispatch", attempt |-> Len(attempts), seen |-> "absent"]
  <2>1. /\ call' = [call EXCEPT ![c] = q] /\ media # "absent"
        /\ UNCHANGED <<queue, media, attempts, payload, artifacts, exec>>
    BY <1>3 DEF Repair
  <2>2. Len(attempts) \in 1..Len(attempts') /\ Len(attempts) \in Nat
    BY <2>1, MediaThere DEF Attempts
  <2>3. q \in [at: Steps \cup {"reuse"}, attempt: Nat, seen: MediaStatus] /\ q.attempt = Len(attempts)
    BY <2>2 DEF Steps, MediaStatus
  <2> HIDE DEF q
  <2> QED
    BY <1>0, <2>1, <2>2, <2>3, Requested, OnlyCallDone
<1>4. CASE Reuse(c)
  <2> DEFINE q == [at |-> "reuse", attempt |-> 0, seen |-> media]
  <2>1. /\ call' = [call EXCEPT ![c] = q]
        /\ UNCHANGED <<queue, media, attempts, payload, artifacts, exec>>
    BY <1>4 DEF Reuse, OnlyCall
  <2>2. q \in [at: Steps \cup {"reuse"}, attempt: Nat, seen: MediaStatus] /\ q.at \notin Steps
    BY DEF Steps, Sound, IInv, MediaLive
  <2> HIDE DEF q
  <2> QED
    BY <1>0, <2>1, <2>2, Requested, OnlyCallDone
<1>5. CASE Refused(c) \/ CallerDies(c)
  <2>1. UNCHANGED <<queue, media, attempts, payload, artifacts, exec>>
    BY <1>5 DEF Refused, CallerDies
  <2>2. Answer(c) \/ (Step(c, "fail") /\ call[c].at \in Steps \ {"none"} /\ "fail" \in Steps)
    BY <1>5 DEF Refused, CallerDies, Steps
  <2> QED
    BY <1>0, <2>1, <2>2, Answered, Stepped, OnlyCallDone
<1>6. CASE EnqueueAccepted(c)
  <2>1. /\ call[c].at \in Steps \ {"none"} /\ Enqueued(call[c].attempt)
        /\ Answer(c) \/ Step(c, "fail")
        /\ UNCHANGED <<artifacts, exec, media>>
    BY <1>6 DEF EnqueueAccepted, Committed, Steps
  <2> QED
    BY <1>0, <2>1, EnqueuedDone
<1>7. CASE Dispatch(c)
  <2>1. CASE attempts[call[c].attempt].status = "failed"
    BY <1>0, <1>7, <2>1, Answered, OnlyCallDone DEF Dispatch
  <2>2. CASE attempts[call[c].attempt].status # "failed"
    <3>1. /\ call[c].at \in Steps \ {"none"} /\ Enqueued(call[c].attempt)
          /\ Answer(c) \/ Step(c, "fail")
          /\ media' = "extracting" /\ UNCHANGED <<artifacts, exec>>
      BY <1>7, <2>2 DEF Dispatch, Committed, Steps
    <3> QED
      BY <1>0, <3>1, EnqueuedDone
  <2> QED
    BY <2>1, <2>2
<1>8. CASE RecordFailure(c)
  <2>1. PICK a \in Attempts : a = call[c].attempt
    BY <1>8 DEF RecordFailure, Steps, Sound, IInv, Requests
  <2>2. /\ attempts' = [attempts EXCEPT ![a].status = "failed"] /\ media' = "failed"
        /\ Answer(c) /\ UNCHANGED <<row, worker, payload, artifacts, exec>>
    BY <1>8, <2>1 DEF RecordFailure, FailSource, queue
  <2>3. RowsKeep
    BY <2>2 DEF RowsKeep
  <2>4. Books' /\ Steady
    BY <1>0, <2>2, <2>3, Moved DEF InFlight
  <2>5. MediaLive' /\ MediaMoves
    BY <2>2, LiveMoved
  <2> QED
    BY <1>0, <2>2, <2>4, <2>5, Answered, AllBystanders DEF Done
<1>9. CASE ReuseRecorded(c)
  <2> DEFINE r == [source |-> Latest.source, status |-> ReusedStatus(call[c].seen), job |-> NoJob]
  <2>1. /\ attempts' = Append(attempts, r) /\ Answer(c)
        /\ UNCHANGED <<row, worker, payload, artifacts, exec, media>>
    BY <1>9 DEF ReuseRecorded, queue
  <2>2. attempts # <<>>
    BY <1>9 DEF ReuseRecorded, Sound, IInv, Recorded, Pristine, NotCalling
  <2>3. media # "absent" /\ Latest.source \in Sources
    <3>1. media # "absent"
      BY <2>2 DEF Sound, IInv, MediaLive
    <3> QED
      BY <3>1, MediaThere DEF Attempt
  <2>4. r \in Attempt /\ r.job = NoJob /\ r.status \notin InFlight
    BY <2>3 DEF Attempt, ReusedStatus, InFlight
  <2> HIDE DEF r
  <2>5. Books' /\ Steady
    BY <1>0, <2>1, <2>4, Appended
  <2>6. \A b \in Attempts : attempts'[b] = attempts[b]
    BY <2>1, <2>4, AttemptsAre DEF Attempts
  <2>7. MediaLive' /\ MediaMoves
    BY <2>1, <2>3, <2>6, LiveKept
  <2> QED
    BY <1>0, <2>1, <2>5, <2>7, Answered, AllBystanders DEF Done
<1> QED
  BY <1>1, <1>2, <1>3, <1>4, <1>5, <1>6, <1>7, <1>8, <1>9 DEF Request, Goes

\* Recovery.
LEMMA RecoveryDone ==
  ASSUME Sound, Discover \/ Ensure \/ RetryDead \/ \E j \in Jobs : Prune(j)
  PROVE  Done
<1>0. Sound /\ Reconciler \in Callers \cup {Reconciler}
  OBVIOUS
<1>1. CASE Discover
  <2>1. PICK a \in Attempts :
          call' = [call EXCEPT ![Reconciler].at = "ensure", ![Reconciler].attempt = a]
    BY <1>1 DEF Discover
  <2> DEFINE q == [call[Reconciler] EXCEPT !.at = "ensure", !.attempt = a]
  <2>2. call \in [Callers \cup {Reconciler} ->
          [at: Steps \cup {"reuse"}, attempt: Nat, seen: MediaStatus]]
    BY DEF Sound, IInv, Requests
  <2>3. a \in Nat /\ "ensure" \in Steps
    BY AttemptsAre DEF Attempts, Steps
  <2>4. q \in [at: Steps \cup {"reuse"}, attempt: Nat, seen: MediaStatus] /\ q.attempt = a
    BY <2>2, <2>3
  <2>5. call' = [call EXCEPT ![Reconciler] = q]
    BY <2>1, <2>2
  <2>6. UNCHANGED <<queue, media, attempts, payload, artifacts, exec>>
    BY <1>1 DEF Discover, OnlyCall
  <2>7. a \in 1..Len(attempts')
    BY <2>6 DEF Attempts
  <2> HIDE DEF q
  <2>8. Requests'
    BY <1>0, <2>4, <2>5, <2>7, Requested
  <2> QED
    BY <1>0, <2>6, <2>8, OnlyCallDone
<1>2. CASE Ensure
  <2>1. CASE EnsuresJob
    <3>1. /\ call[Reconciler].at \in Steps \ {"none"} /\ Enqueued(call[Reconciler].attempt)
          /\ Answer(Reconciler) /\ UNCHANGED <<artifacts, exec, media>>
      BY <1>2, <2>1 DEF Ensure, Steps
    <3> QED
      BY <1>0, <3>1, EnqueuedDone
  <2>2. CASE ~EnsuresJob
    <3>1. /\ Answer(Reconciler)
          /\ UNCHANGED <<queue, media, attempts, payload, artifacts, exec>>
      BY <1>2, <2>2 DEF Ensure
    <3> QED
      BY <1>0, <3>1, Answered, OnlyCallDone
  <2> QED
    BY <2>1, <2>2
<1>3. CASE RetryDead
  <2>1. /\ UNCHANGED <<worker, media, attempts, payload, artifacts, call, exec>>
        /\ Queue!RequeueDead(Latest.job)
    BY <1>3 DEF RetryDead, Queue!RequeueDead
  <2>2. PICK k \in Jobs : k = Latest.job
    BY <1>3, MediaThere, AttemptsAre DEF RetryDead, Suspended, Attempt, Latest
  <2>3. /\ row[k].status = "dead" /\ row'[k].status = "pending"
        /\ \A j \in Jobs \ {k} : row'[j] = row[j]
    <3>1. row \in [Jobs -> QP!Row]
      BY DEF Sound, IInv, QP!Tidy
    <3> QED
      BY <2>1, <2>2, <3>1 DEF Queue!RequeueDead, Queue!Repairable, Queue!Unclaimed
  <2>4. RowsKeep
    BY <2>3 DEF RowsKeep
  <2>5. Books' /\ Steady
    BY <2>1, <2>4, Untouched
  <2>6. MediaLive' /\ MediaMoves
    BY <2>1, LiveKept
  <2> QED
    BY <2>1, <2>5, <2>6, NobodyAsked, AllBystanders DEF Done
<1>4. ASSUME NEW j \in Jobs, Prune(j) PROVE Done
  <2>1. Books' /\ Steady /\ \A b \in Attempts : attempts'[b].status = attempts[b].status
    BY <1>4, Pruned
  <2>2. UNCHANGED <<worker, media, payload, artifacts, call, exec>>
    BY <1>4 DEF Prune, Queue!Prune
  <2>3. media # "absent" \/ UNCHANGED attempts
    <3>1. CASE attempts = <<>>
      <4>1. row[j].status = "absent"
        BY <3>1 DEF Sound, IInv, Recorded, Pristine, Queue!Fresh, Queue!Unclaimed
      <4> QED
        BY <1>4, <4>1 DEF Prune, Queue!Prune
    <3>2. CASE attempts # <<>>
      BY <3>2 DEF Sound, IInv, MediaLive
    <3> QED
      BY <3>1, <3>2
  <2>4. MediaLive' /\ MediaMoves
    BY <2>1, <2>2, <2>3, LiveKept
  <2> QED
    BY <2>1, <2>2, <2>4, NobodyAsked, AllBystanders DEF Done
<1> QED
  BY <1>1, <1>2, <1>3, <1>4

-----------------------------------------------------------------------------
(* Steps of the workers *)

\* A transaction of the handler changes the lease of its job at most.
LEMMA RenewedKeeps ==
  ASSUME Sound, NEW w \in Workers, row' = row \/ row' = Renewed(w)
  PROVE  RowsKeep
<1>1. row \in [Jobs -> QP!Row]
  BY DEF Sound, IInv, QP!Tidy
<1>2. \A j \in Jobs : row'[j].status = row[j].status
  <2>1. CASE row' = row
    BY <2>1
  <2>2. CASE row' # row
    <3>1. row' = [row EXCEPT ![worker[w].job].lease = 1]
      BY <2>2 DEF Renewed
    <3> QED
      BY <1>1, <3>1 DEF QP!Row
  <2> QED
    BY <2>1, <2>2
<1> QED
  BY <1>2 DEF RowsKeep

\* A step of the worker around the handler: it changes the row of its job, and
\* the job succeeds only if its handler has returned.
LEMMA AroundDone ==
  ASSUME Sound, NEW w \in Workers, RowsKeep,
         UNCHANGED <<media, attempts, payload, artifacts, call>>,
         \/ UNCHANGED <<worker, exec>>
         \/ /\ \E pos \in Queue!Worker : worker' = [worker EXCEPT ![w] = pos]
            /\ \E point \in {"none", "mark"} : exec' = [exec EXCEPT ![w] = point]
            /\ Mem(w)'
  PROVE  Done
<1>1. Books' /\ Steady
  BY Untouched
<1>2. MediaLive' /\ MediaMoves
  BY LiveKept
<1>3. Memories'
  BY <1>1, <1>2, AllBystanders, OneMoves
<1> QED
  BY <1>1, <1>2, <1>3, NobodyAsked DEF Done

LEMMA AroundTheHandler ==
  ASSUME Sound, NEW w \in Workers,
         \/ \E j \in Jobs : Take(w, j) \/ Expire(w, j)
         \/ Enter(w) \/ Raise(w) \/ Complete(w) \/ Fail(w) \/ Crash(w)
  PROVE  Done
<1>0. /\ row \in [Jobs -> Queue!Row] /\ worker \in [Workers -> Queue!Worker]
      /\ exec \in [Workers -> {"none", "mark", "begin", "fetch", "terminal"}]
      /\ claims \in [Jobs -> Nat]
  BY DEF Sound, IInv, QP!Tidy, Memories, QP!Row, Queue!Row, QP!Worker, Queue!Worker,
         QP!Status, Queue!Status, QP!Waiting, Queue!Waiting, QP!Terminal, Queue!Terminal,
         QP!Phases, Queue!Phases
<1>m. Mem(w)
  BY DEF Sound, IInv, Memories
<1>i. Queue!Idle \in Queue!Worker /\ Queue!Idle.pc = "idle"
  BY DEF Queue!Idle, Queue!Worker, Queue!Phases
<1>e. worker[w].pc # "executing" => exec = [exec EXCEPT ![w] = "none"] /\ exec[w] = "none"
  BY <1>0, <1>m DEF Mem
<1>1. ASSUME NEW j \in Jobs, Take(w, j) PROVE Done
  <2> DEFINE pos == [pc |-> "claimed", job |-> j, attempt |-> row[j].attempts + 1,
                     token |-> claims[j] + 1]
  <2>1. /\ worker' = [worker EXCEPT ![w] = pos] /\ worker[w].pc = "idle"
        /\ row' = [row EXCEPT ![j] = Queue!Claimed(w, j)]
        /\ row[j].status \in {"pending", "failed", "running"}
        /\ UNCHANGED <<media, attempts, payload, artifacts, call, exec>>
    BY <1>1 DEF Take, Queue!Claim, Queue!Claimable, Queue!Waiting, OnlyQueue
  <2>2. pos \in Queue!Worker /\ pos.pc = "claimed"
    BY <1>0 DEF Queue!Worker, Queue!Phases, Queue!Row
  <2>3. row'[j].status = "running" /\ \A k \in Jobs \ {j} : row'[k] = row[k]
    BY <1>0, <2>1 DEF Queue!Claimed, Queue!Row
  <2>4. RowsKeep
    BY <2>1, <2>3 DEF RowsKeep
  <2> HIDE DEF pos
  <2>5. worker'[w].pc = "claimed" /\ exec'[w] = "none" /\ exec' = [exec EXCEPT ![w] = "none"]
    BY <1>0, <1>e, <2>1, <2>2
  <2>6. Mem(w)'
    BY <2>5, Leaves
  <2> QED
    BY <2>1, <2>2, <2>4, <2>5, <2>6, AroundDone
<1>2. ASSUME NEW j \in Jobs, Expire(w, j) PROVE Done
  <2>1. /\ row[j].status = "running" /\ row'[j].status = "dead"
        /\ \A k \in Jobs \ {j} : row'[k] = row[k]
        /\ UNCHANGED <<media, attempts, payload, artifacts, call, worker, exec>>
    BY <1>0, <1>2 DEF Expire, Queue!DeadLetterExpired, Queue!Expired, Queue!Unclaimed, OnlyQueue
  <2>2. RowsKeep
    BY <2>1 DEF RowsKeep
  <2> QED
    BY <2>1, <2>2, AroundDone
<1>3. CASE Enter(w)
  <2>j. PICK j : j = worker[w].job
    OBVIOUS
  <2>0. worker[w].pc = "claimed" /\ UNCHANGED <<media, attempts, payload, artifacts, call>>
    BY <1>3 DEF Enter, Queue!Start
  <2>1. CASE Queue!Owns(w, j)
    <3>1. /\ row' = [row EXCEPT ![j].lease = 1] /\ Queue!Goto(w, "executing")
          /\ exec' = [exec EXCEPT ![w] = "mark"]
      BY <1>3, <2>1, <2>j DEF Enter, Queue!Start
    <3>2. RowsKeep
      <4>1. \A k \in Jobs : row'[k].status = row[k].status
        BY <1>0, <3>1 DEF Queue!Row
      <4> QED
        BY <4>1 DEF RowsKeep
    <3>3. PICK pos \in Queue!Worker : worker' = [worker EXCEPT ![w] = pos] /\ pos.pc = "executing"
      <4> DEFINE pos == [worker[w] EXCEPT !.pc = "executing"]
      <4>1. worker' = [worker EXCEPT ![w] = pos]
        BY <1>0, <3>1 DEF Queue!Goto
      <4>2. pos \in Queue!Worker /\ pos.pc = "executing"
        BY <1>0 DEF Queue!Worker, Queue!Phases
      <4> QED
        BY <4>1, <4>2
    <3>4. Mem(w)'
      BY <1>0, <3>1, <3>3, Begins
    <3> QED
      BY <2>0, <3>1, <3>2, <3>3, <3>4, AroundDone
  <2>2. CASE ~Queue!Owns(w, j)
    <3>1. UNCHANGED <<row, exec>> /\ worker' = [worker EXCEPT ![w] = Queue!Idle]
      BY <1>3, <2>2, <2>j DEF Enter, Queue!Start, Queue!Return
    <3>2. RowsKeep
      BY <3>1 DEF RowsKeep
    <3>3. worker'[w] = Queue!Idle /\ exec'[w] = "none"
      BY <1>0, <1>e, <2>0, <3>1
    <3>4. Mem(w)'
      BY <1>i, <3>3, Leaves
    <3>5. exec' = [exec EXCEPT ![w] = "none"]
      BY <1>e, <2>0, <3>1
    <3> QED
      BY <1>i, <2>0, <3>1, <3>2, <3>4, <3>5, AroundDone
  <2> QED
    BY <2>1, <2>2
<1>4. CASE Raise(w)
  <2>1. /\ UNCHANGED <<row, media, attempts, payload, artifacts, call>>
        /\ Queue!Goto(w, "failing") /\ exec' = [exec EXCEPT ![w] = "none"]
    BY <1>4 DEF Raise, Go
  <2>2. RowsKeep
    BY <2>1 DEF RowsKeep
  <2>3. PICK pos \in Queue!Worker : worker' = [worker EXCEPT ![w] = pos] /\ pos.pc = "failing"
    <3> DEFINE pos == [worker[w] EXCEPT !.pc = "failing"]
    <3>1. worker' = [worker EXCEPT ![w] = pos]
      BY <1>0, <2>1 DEF Queue!Goto
    <3>2. pos \in Queue!Worker /\ pos.pc = "failing"
      BY <1>0 DEF Queue!Worker, Queue!Phases
    <3> QED
      BY <3>1, <3>2
  <2>4. Mem(w)'
    BY <1>0, <2>1, <2>3, Leaves
  <2> QED
    BY <2>1, <2>2, <2>3, <2>4, AroundDone
<1>5. CASE Complete(w) \/ Fail(w) \/ Crash(w)
  <2>j. PICK j : j = worker[w].job
    OBVIOUS
  <2>1. /\ worker' = [worker EXCEPT ![w] = Queue!Idle]
        /\ UNCHANGED <<media, attempts, payload, artifacts, call>>
    BY <1>5 DEF Complete, Fail, Crash, Queue!Complete, Queue!Fail, Queue!Crash, Queue!Return, OnlyQueue
  <2>2. exec' = [exec EXCEPT ![w] = "none"]
    BY <1>5, <1>e DEF Complete, Fail, Crash, Queue!Complete, Queue!Fail, OnlyQueue
  <2>3. worker'[w] = Queue!Idle /\ exec'[w] = "none"
    BY <1>0, <2>1, <2>2
  <2>4. Mem(w)'
    BY <1>i, <2>3, Leaves
  <2>5. RowsKeep
    <3>1. CASE UNCHANGED row
      BY <3>1 DEF RowsKeep
    <3>2. CASE Complete(w) /\ row' # row
      <4>1. /\ worker[w].pc = "completing" /\ Queue!Owns(w, j)
            /\ row' = [row EXCEPT ![j] = Queue!Released(j, "succeeded", row[j].wait)]
        BY <3>2, <2>j DEF Complete, Queue!Complete, Queue!CompleteRow
      <4>2. j \in Jobs
        BY <3>2, <4>1, <1>0
      <4>3. Over(j)
        BY <1>m, <2>j, <4>1, <4>2 DEF Mem
      <4>4. /\ row[j].status = "running" /\ row'[j].status = "succeeded"
            /\ \A k \in Jobs \ {j} : row'[k] = row[k]
        BY <1>0, <4>1, <4>2 DEF Queue!Owns, Queue!Released, Queue!Unclaimed
      <4> QED
        BY <4>3, <4>4 DEF RowsKeep
    <3>3. CASE Fail(w) /\ row' # row
      <4>1. /\ Queue!Owns(w, j)
            /\ \E st \in {"dead", "failed"} : \E d, n :
                 row' = [row EXCEPT ![j] = Queue!Unclaimed(st, n, d, TRUE)]
        BY <3>3, <2>j DEF Fail, Queue!Fail, Queue!FailRow
      <4>2. j \in Jobs
        BY <3>3, <4>1, <1>0
      <4>3. /\ row[j].status = "running" /\ row'[j].status \in {"dead", "failed"}
            /\ \A k \in Jobs \ {j} : row'[k] = row[k]
        BY <1>0, <4>1, <4>2 DEF Queue!Owns, Queue!Unclaimed
      <4> QED
        BY <4>3 DEF RowsKeep
    <3> QED
      BY <1>5, <3>1, <3>2, <3>3 DEF Crash, Queue!Crash
  <2> QED
    BY <1>i, <2>1, <2>2, <2>4, <2>5, AroundDone
<1> QED
  BY <1>1, <1>2, <1>3, <1>4, <1>5

\* A handler that the fence stops: its job is over.
LEMMA SupersededDone ==
  ASSUME Sound, NEW w \in Workers, worker[w].pc = "executing", ~PublicationAllowed(w), Return(w),
         UNCHANGED <<row, media, attempts, artifacts, payload, call>>
  PROVE  Done
<1>0. worker \in [Workers -> Queue!Worker]
      /\ exec \in [Workers -> {"none", "mark", "begin", "fetch", "terminal"}]
  BY DEF Sound, IInv, QP!Tidy, Memories, QP!Worker, Queue!Worker, QP!Phases, Queue!Phases
<1>1. Books' /\ Steady
  <2>1. RowsKeep
    BY DEF RowsKeep
  <2> QED
    BY <2>1, Untouched
<1>2. MediaLive' /\ MediaMoves
  BY LiveKept
<1>3. PICK j : j = worker[w].job
  OBVIOUS
<1>4. PICK pos \in Queue!Worker :
        worker' = [worker EXCEPT ![w] = pos] /\ pos.pc = "completing" /\ pos.job = j
  <2> DEFINE pos == [worker[w] EXCEPT !.pc = "completing"]
  <2>1. worker' = [worker EXCEPT ![w] = pos]
    BY <1>0 DEF Return, Go, Queue!Goto
  <2>2. pos \in Queue!Worker /\ pos.pc = "completing" /\ pos.job = j
    BY <1>0, <1>3 DEF Queue!Worker, Queue!Phases
  <2> QED
    BY <2>1, <2>2
<1>5. exec' = [exec EXCEPT ![w] = "none"]
  BY DEF Return, Go
<1>6. ASSUME j \in Jobs, Queue!Owns(w, j)' PROVE Over(j)'
  <2>1. Queue!Owns(w, j)
    BY <1>6 DEF Queue!Owns, Queue!LeaseLive
  <2>2. Queue!ClaimIsCurrent(w)
    BY <1>3, <1>6, <2>1, OwnerIsCurrent
  <2>3. Over(j)
    BY <1>3, <2>2 DEF PublicationAllowed, Mine, Over, Bound
  <2> QED
    BY <2>3 DEF Over, Bound, Attempts
<1>7. Mem(w)'
  <2>1. worker'[w].job = j /\ exec'[w] = "none"
    BY <1>0, <1>4, <1>5
  <2> QED
    BY <1>6, <2>1, Finishes
<1>8. Memories'
  BY <1>1, <1>2, <1>4, <1>5, <1>7, OneMoves
<1> QED
  BY <1>1, <1>2, <1>8, NobodyAsked DEF Done

\* What a handler knows that the fence lets through.
LEMMA LetThrough ==
  ASSUME Sound, NEW w \in Workers, PublicationAllowed(w)
  PROVE  /\ worker[w].job \in Jobs /\ Mine(w) \in Attempts /\ Mine(w) = Len(attempts)
         /\ attempts[Mine(w)].status \in InFlight
         /\ attempts[Mine(w)].job = worker[w].job /\ attempts[Mine(w)].job # NoJob
         /\ Queue!Owns(w, worker[w].job)
<1>1. worker[w].job \in Jobs /\ Queue!Owns(w, worker[w].job)
  BY DEF PublicationAllowed, Queue!ClaimIsCurrent
<1>2. row[worker[w].job].status # "absent"
  BY <1>1 DEF Queue!Owns
<1>3. Mine(w) \in Attempts
  BY <1>1, <1>2 DEF Mine, Sound, IInv, Books, Payloads
<1>4. worker[w].job # NoJob
  BY <1>1, AttemptsAre
<1> QED
  BY <1>1, <1>3, <1>4 DEF PublicationAllowed

\* A handler that stays where it is in its job.
LEMMA Stays ==
  ASSUME Sound, Steady, MediaMoves, NEW w \in Workers, UNCHANGED <<worker, artifacts>>,
         NEW point \in {"none", "mark", "begin", "fetch", "terminal"},
         exec' = [exec EXCEPT ![w] = point], Mem(w)'
  PROVE  Memories'
<1>1. worker[w] \in Queue!Worker /\ worker' = [worker EXCEPT ![w] = worker[w]]
  BY DEF Sound, IInv, QP!Tidy, QP!Worker, Queue!Worker, QP!Phases, Queue!Phases
<1>2. PICK pos \in Queue!Worker : worker' = [worker EXCEPT ![w] = pos]
  BY <1>1
<1> QED
  BY <1>2, OneMoves

LEMMA MarkRunningDone ==
  ASSUME Sound, NEW w \in Workers, MarkRunning(w), PublicationAllowed(w)
  PROVE  Done
<1>1. PICK a \in Attempts : a = Mine(w)
  BY LetThrough
<1>2. /\ attempts' = [attempts EXCEPT ![a].status = "running"]
      /\ worker[w].pc = "executing" /\ exec' = [exec EXCEPT ![w] = "begin"]
      /\ UNCHANGED <<worker, media, artifacts, payload, call>> /\ row' = Renewed(w)
  BY <1>1 DEF MarkRunning, Phase, At, Then
<1>3. RowsKeep
  BY <1>2, RenewedKeeps
<1>4. "running" \in InFlight \cup {"succeeded", "failed"}
      /\ attempts[a].status \in InFlight /\ attempts[a].job # NoJob
  BY <1>1, LetThrough DEF InFlight
<1>5. /\ Books' /\ Steady /\ attempts'[a].status = "running"
      /\ \A b \in Attempts \ {a} : attempts'[b] = attempts[b]
  BY <1>2, <1>3, <1>4, Moved
<1>6. MediaLive' /\ MediaMoves
  <2>1. media # "absent"
    <3>1. attempts # <<>>
      BY <1>1, AttemptsAre DEF Attempts
    <3> QED
      BY <3>1 DEF Sound, IInv, MediaLive
  <2>2. \A b \in Attempts : attempts[b].status \in InFlight => attempts'[b].status \in InFlight
    BY <1>5 DEF InFlight
  <2> QED
    BY <1>2, <2>1, <2>2, LiveKept
<1>7. Mem(w)'
  <2>1. exec'[w] = "begin" /\ worker'[w].pc = "executing"
    BY <1>2 DEF Sound, IInv, Memories
  <2> QED
    BY <2>1, Begins
<1>8. Memories'
  BY <1>2, <1>5, <1>6, <1>7, Stays
<1> QED
  BY <1>2, <1>5, <1>6, <1>8, NobodyAsked DEF Done

LEMMA BeginDone ==
  ASSUME Sound, NEW w \in Workers, Begin(w), PublicationAllowed(w)
  PROVE  Done
<1>1. PICK a \in Attempts : a = Mine(w)
  BY LetThrough
<1>2. /\ media' = "extracting"
      /\ worker[w].pc = "executing" /\ exec' = [exec EXCEPT ![w] = "fetch"]
      /\ UNCHANGED <<worker, attempts, artifacts, payload, call>> /\ row' = Renewed(w)
  BY DEF Begin, Phase, At, Then
<1>3. Books' /\ Steady
  <2>1. RowsKeep
    BY <1>2, RenewedKeeps
  <2> QED
    BY <1>2, <2>1, Untouched
<1>4. MediaLive' /\ MediaMoves
  <2>1. attempts'[a].status \in InFlight
    BY <1>1, <1>2, LetThrough
  <2> QED
    BY <1>2, <2>1, LiveMoved
<1>5. Mem(w)'
  <2>1. exec'[w] = "fetch" /\ worker'[w].pc = "executing"
    BY <1>2 DEF Sound, IInv, Memories
  <2> QED
    BY <1>2, <2>1 DEF Mem
<1>6. Memories'
  BY <1>2, <1>3, <1>4, <1>5, Stays
<1> QED
  BY <1>2, <1>3, <1>4, <1>6, NobodyAsked DEF Done

\* Whoever else owns a job of the latest attempt is the publisher.
LEMMA PublishArtifactsDone ==
  ASSUME Sound, NEW w \in Workers, PublishArtifacts(w), PublicationAllowed(w)
  PROVE  Done
<1>1. PICK a \in Attempts : a = Mine(w)
  BY LetThrough
<1>2. /\ media' \in {media, "ready"} /\ artifacts' = Execution(w)
      /\ worker[w].pc = "executing" /\ exec[w] = "fetch" /\ exec' = [exec EXCEPT ![w] = "terminal"]
      /\ UNCHANGED <<worker, attempts, payload, call>> /\ row' = Renewed(w)
  BY DEF PublishArtifacts, Phase, At, Then
<1>3. Books' /\ Steady
  <2>1. RowsKeep
    BY <1>2, RenewedKeeps
  <2> QED
    BY <1>2, <2>1, Untouched
<1>4. attempts[a].status \in InFlight /\ media \notin {"absent", "pending"}
  <2>1. Mem(w)
    BY DEF Sound, IInv, Memories
  <2> QED
    BY <1>1, <1>2, <2>1, LetThrough DEF Mem
<1>5. MediaLive' /\ MediaMoves
  <2>1. CASE media' = media
    BY <1>2, <1>4, <2>1, LiveKept
  <2>2. CASE media' = "ready"
    BY <2>2, LiveMoved
  <2> QED
    BY <1>2, <2>1, <2>2
<1>6. Mem(w)'
  <2>1. exec'[w] = "terminal" /\ worker'[w].pc = "executing"
    BY <1>2 DEF Sound, IInv, Memories
  <2>2. media' \notin {"absent", "pending"}
    BY <1>4, <1>5 DEF MediaMoves
  <2>3. artifacts' = Execution(w)'
    BY <1>2 DEF Execution, Mine
  <2> QED
    BY <2>1, <2>2, <2>3 DEF Mem
<1>7. ASSUME NEW v \in Workers, v # w PROVE Mem(v)'
  <2>1. worker'[v] = worker[v] /\ exec'[v] = exec[v]
    BY <1>2, <1>7 DEF Sound, IInv, Memories
  <2>2. ASSUME NEW j \in Jobs, worker[v].job = j, Queue!Owns(v, j), Bound(j)
        PROVE  FALSE
    <3>1. j = worker[w].job
      BY <2>2, LetThrough DEF Bound
    <3> QED
      BY <1>7, <2>2, <3>1, LetThrough DEF Queue!Owns
  <2> QED
    BY <1>3, <1>5, <2>1, <2>2, Bystander
<1>8. Memories'
  BY <1>2, <1>6, <1>7 DEF Memories, Sound, IInv
<1> QED
  BY <1>2, <1>3, <1>5, <1>8, NobodyAsked DEF Done

\* A handler that ends its attempt and returns.
LEMMA EndsDone ==
  ASSUME Sound, NEW w \in Workers, worker[w].pc = "executing", PublicationAllowed(w), Return(w),
         NEW st \in {"succeeded", "failed"},
         attempts' = [attempts EXCEPT ![Mine(w)].status = st], media' \in {"ready", "failed"},
         row' = Renewed(w), UNCHANGED <<artifacts, payload, call>>
  PROVE  Done
<1>0. worker \in [Workers -> Queue!Worker]
      /\ exec \in [Workers -> {"none", "mark", "begin", "fetch", "terminal"}]
  BY DEF Sound, IInv, QP!Tidy, Memories, QP!Worker, Queue!Worker, QP!Phases, Queue!Phases
<1>1. PICK a \in Attempts : a = Mine(w)
  BY LetThrough
<1>2. PICK j \in Jobs : j = worker[w].job
  BY LetThrough
<1>3. /\ Books' /\ Steady /\ attempts'[a].status = st
  <2>1. RowsKeep
    BY RenewedKeeps
  <2>2. st \in InFlight \cup {"succeeded", "failed"} /\ st \notin InFlight
    BY DEF InFlight
  <2>3. attempts' = [attempts EXCEPT ![a].status = st]
    BY <1>1
  <2> QED
    BY <2>1, <2>2, <2>3, Moved
<1>4. MediaLive' /\ MediaMoves
  BY LiveMoved
<1>5. PICK pos \in Queue!Worker :
        worker' = [worker EXCEPT ![w] = pos] /\ pos.pc = "completing" /\ pos.job = j
  <2> DEFINE pos == [worker[w] EXCEPT !.pc = "completing"]
  <2>1. worker' = [worker EXCEPT ![w] = pos]
    BY <1>0 DEF Return, Go, Queue!Goto
  <2>2. pos \in Queue!Worker /\ pos.pc = "completing" /\ pos.job = j
    BY <1>0, <1>2 DEF Queue!Worker, Queue!Phases
  <2> QED
    BY <2>1, <2>2
<1>6. exec' = [exec EXCEPT ![w] = "none"]
  BY DEF Return, Go
<1>7. Over(j)'
  <2>1. payload'[j] = a
    BY <1>1, <1>2 DEF Mine
  <2> QED
    BY <1>3, <2>1 DEF Over, InFlight
<1>8. Mem(w)'
  <2>1. worker'[w].job = j /\ exec'[w] = "none"
    BY <1>0, <1>5, <1>6
  <2> QED
    BY <1>7, <2>1, Finishes
<1>9. Memories'
  BY <1>3, <1>4, <1>5, <1>6, <1>8, OneMoves
<1> QED
  BY <1>3, <1>4, <1>9, NobodyAsked DEF Done

LEMMA PublishDone ==
  ASSUME Sound, NEW w \in Workers, Publish(w)
  PROVE  Done
<1>1. CASE ~PublicationAllowed(w)
  <2>1. /\ worker[w].pc = "executing" /\ Return(w)
        /\ UNCHANGED <<row, media, attempts, artifacts, payload, call>>
    BY <1>1 DEF Publish, MarkRunning, Begin, PublishArtifacts, PublishFailure, PublishTerminal,
       Phase, At
  <2> QED
    BY <1>1, <2>1, SupersededDone
<1>2. CASE PublicationAllowed(w)
  <2>1. CASE MarkRunning(w)
    BY <1>2, <2>1, MarkRunningDone
  <2>2. CASE Begin(w)
    BY <1>2, <2>2, BeginDone
  <2>3. CASE PublishArtifacts(w)
    BY <1>2, <2>3, PublishArtifactsDone
  <2>4. CASE PublishFailure(w)
    <3>1. /\ worker[w].pc = "executing" /\ Return(w) /\ media' = "failed"
          /\ attempts' = [attempts EXCEPT ![Mine(w)].status = "failed"]
          /\ row' = Renewed(w) /\ UNCHANGED <<artifacts, payload, call>>
      BY <1>2, <2>4 DEF PublishFailure, Phase, At, FailSource
    <3> QED
      BY <1>2, <3>1, EndsDone
  <2>5. CASE PublishTerminal(w)
    <3>1. PICK st \in {"succeeded", "failed"} : st = IF media = "failed" THEN "failed" ELSE "succeeded"
      OBVIOUS
    <3>2. /\ worker[w].pc = "executing" /\ exec[w] = "terminal" /\ Return(w)
          /\ media' = IF media = "extracting" THEN "ready" ELSE media
          /\ attempts' = [attempts EXCEPT ![Mine(w)].status =
               IF media = "failed" THEN "failed" ELSE "succeeded"]
          /\ row' = Renewed(w) /\ UNCHANGED <<artifacts, payload, call>>
      BY <1>2, <2>5 DEF PublishTerminal, Phase, At
    <3>3. media' \in {"ready", "failed"}
      <4>1. Mem(w) /\ media \in MediaStatus
        BY DEF Sound, IInv, Memories, MediaLive
      <4> QED
        BY <3>2, <4>1 DEF Mem, MediaStatus
    <3>4. attempts' = [attempts EXCEPT ![Mine(w)].status = st]
      BY <3>1, <3>2
    <3> QED
      BY <1>2, <3>2, <3>3, <3>4, EndsDone
  <2> QED
    BY <2>1, <2>2, <2>3, <2>4, <2>5 DEF Publish
<1> QED
  BY <1>1, <1>2

\* Time: leases lapse.
LEMMA TickDone ==
  ASSUME Sound, Tick
  PROVE  Done
<1>1. /\ UNCHANGED <<worker, media, attempts, payload, artifacts, call, exec>>
      /\ \A j \in Jobs : row'[j].status = row[j].status
  BY DEF Tick, Queue!Tick, Sound, IInv, QP!Tidy, QP!Row
<1>2. RowsKeep
  BY <1>1 DEF RowsKeep
<1>3. Books' /\ Steady
  BY <1>1, <1>2, Untouched
<1>4. MediaLive' /\ MediaMoves
  BY <1>1, LiveKept
<1> QED
  BY <1>1, <1>3, <1>4, NobodyAsked, AllBystanders DEF Done

-----------------------------------------------------------------------------
(* The theorems on the media and on the handlers *)

LEMMA StepSound ==
  ASSUME IInv, [Next]_vars
  PROVE  Sound
BY StepKeeps, QueueStep DEF IInv, Sound

\* The inductive invariant of the whole holds.
THEOREM SourceInvariant == Spec => []IInv
<1>1. Init => IInv
  <2> SUFFICES ASSUME Init PROVE IInv
    OBVIOUS
  <2>1. Recorded
    BY SourceAssumption DEF Init, Queue!Init, Recorded, Pristine, NoArtifacts, Attempt
  <2>2. QP!Tidy
    BY SourceAssumption, QueueAssumptions DEF Init, Queue!Init, QP!Tidy, QP!Holds, QP!Owns, Queue!Fresh, Queue!Unclaimed, Queue!Idle,
       QP!Row, QP!Worker, QP!Status, QP!Waiting, QP!Terminal, QP!Phases
  <2>3. Books
    BY DEF Init, Queue!Init, Queue!Fresh, Queue!Unclaimed, Books, Payloads, Bindings, LatestAttended,
       Attempts
  <2>4. MediaLive /\ Requests
    BY DEF Init, MediaLive, MediaStatus, Requests, NotCalling, Steps
  <2>5. Memories
    BY DEF Init, Queue!Init, Queue!Idle, Memories, Mem
  <2> QED
    BY <2>1, <2>2, <2>3, <2>4, <2>5 DEF IInv
<1>2. IInv /\ [Next]_vars => IInv'
  <2> SUFFICES ASSUME IInv, [Next]_vars PROVE IInv'
    OBVIOUS
  <2>1. Sound
    BY StepSound
  <2>2. Recorded'
    BY SourceStepRecorded DEF IInv
  <2>3. Done
    <3>1. CASE UNCHANGED vars
      <4>1. UNCHANGED <<queue, media, attempts, payload, artifacts, exec, call>>
        BY <3>1 DEF vars
      <4> QED
        BY <2>1, <4>1, NobodyAsked, OnlyCallDone
    <3>2. ASSUME NEW w \in Workers, WorkerStep(w) PROVE Done
      BY <2>1, <3>2, PublishDone, AroundTheHandler DEF WorkerStep
    <3> QED
      BY <2>1, <3>1, <3>2, RequestDone, RecoveryDone, TickDone DEF Next
  <2> QED
    BY <2>1, <2>2, <2>3 DEF Done, IInv, Sound, QP!TidyStep
<1> QED
  BY <1>1, <1>2, PTL DEF Spec

\* An ingest gets stuck in two ways only, for any number of attempts, jobs,
\* requests, workers and faults: while the latest attempt is in flight its job
\* does not succeed, and an unfinished media has an attempt in flight.
THEOREM SourceStuck == Spec => []StuckOnlyIfAbandonedOrEclipsed
<1>1. IInv => StuckOnlyIfAbandonedOrEclipsed
  <2> SUFFICES ASSUME IInv, Unfinished, ~Attended PROVE Abandoned \/ Eclipsed
    BY DEF StuckOnlyIfAbandonedOrEclipsed
  <2>1. media # "absent" /\ attempts # <<>> /\ attempts \in Seq(Attempt)
    BY DEF Unfinished, IInv, Recorded, Pristine
  <2>2. Len(attempts) \in Attempts /\ Latest.job \in Jobs \cup {NoJob}
    <3>1. Len(attempts) \in Nat /\ Len(attempts) # 0
      BY <2>1
    <3>2. Latest \in Attempt
      BY <2>1, LatestIsOne
    <3> QED
      BY <3>1, <3>2 DEF Attempts, Attempt
  <2>3. CASE Latest.status \notin InFlight
    BY <2>1, <2>3 DEF Unfinished, IInv, MediaLive, Eclipsed
  <2>4. CASE Latest.status \in InFlight /\ Latest.job = NoJob
    <3>1. Latest.status = "accepted"
      BY <2>1, <2>4 DEF IInv, Books, LatestAttended
    <3>2. media # "extracting"
      BY <2>1, <2>4 DEF Attended, Discoverable, Ownerless, Latest
    <3> QED
      BY <2>4, <3>1, <3>2 DEF Abandoned
  <2>5. CASE Latest.status \in InFlight /\ Latest.job # NoJob
    <3>1. row[Latest.job].status \notin {"absent", "deleted", "succeeded"}
      BY <2>1, <2>2, <2>5 DEF IInv, Books, LatestAttended, Bindings, Latest
    <3>2. row[Latest.job].status \in {"pending", "running", "failed", "dead"}
      BY <2>2, <2>5, <3>1 DEF IInv, QP!Tidy, QP!Row, QP!Status, QP!Waiting, QP!Terminal
    <3> QED
      BY <2>1, <2>5, <3>2 DEF Attended, Nonterminal, Suspended, Latest
  <2> QED
    BY <2>3, <2>4, <2>5
<1> QED
  BY <1>1, SourceInvariant, PTL

\* An attempt succeeds on the artifacts of the same execution: whoever passes
\* the fence of publish_terminal owns the job of the latest attempt, and nobody
\* else has published since.
THEOREM SourceSucceedsOnItsOwn == Spec => SucceedsOnItsOwnArtifacts
<1>1. IInv /\ [Next]_vars =>
        [\A w \in Workers : PublishTerminal(w) =>
           \A a \in Attempts : attempts'[a].status = "succeeded" /\ attempts[a].status # "succeeded" =>
             artifacts = Execution(w)]_vars
  <2> SUFFICES ASSUME IInv, [Next]_vars, NEW w \in Workers, PublishTerminal(w), NEW a \in Attempts,
                      attempts'[a].status = "succeeded", attempts[a].status # "succeeded"
               PROVE  artifacts = Execution(w)
    OBVIOUS
  <2>1. Sound
    BY StepSound
  <2>2. PublicationAllowed(w) /\ exec[w] = "terminal"
    BY DEF PublishTerminal, Phase, At
  <2>3. PICK j \in Jobs : j = worker[w].job
    BY <2>1, <2>2, LetThrough
  <2>4. Queue!Owns(w, j) /\ Bound(j)
    BY <2>1, <2>2, <2>3, LetThrough DEF Bound, Mine
  <2> QED
    BY <2>2, <2>3, <2>4 DEF IInv, Memories, Mem
<1> QED
  BY <1>1, SourceInvariant, PTL DEF Spec, SucceedsOnItsOwnArtifacts

-----------------------------------------------------------------------------
(* Types *)

\* What IInv says nothing of: the counts, and that the bound on attempts is one
\* of every number that names an attempt.
Bounded ==
  /\ spent \in [Jobs -> Nat] /\ faults \in 0..MaxFaults
  /\ payload \in [Jobs -> 0..MaxIntents]
  /\ \A c \in Callers \cup {Reconciler} : call[c].attempt <= MaxIntents
  /\ artifacts \in [attempt: 0..MaxIntents, job: Jobs \cup {NoJob}, token: Nat]

\* What executions have spent is counted up or reset, whatever the step.
LEMMA SpentStep ==
  ASSUME spent \in [Jobs -> Nat], [Next]_vars
  PROVE  spent' \in [Jobs -> Nat]
<1>1. ASSUME NEW j, \/ spent' = [spent EXCEPT ![j] = 0]
                   \/ spent' = [spent EXCEPT ![j] = @ + 1]
      PROVE  spent' \in [Jobs -> Nat]
  BY <1>1
<1>2. CASE UNCHANGED spent
  BY <1>2
<1>3. ASSUME NEW j \in Jobs, Queue!RequeueDead(j)
      PROVE  spent' \in [Jobs -> Nat]
  BY <1>1, <1>3 DEF Queue!RequeueDead
<1>4. ASSUME NEW w \in Workers, NEW j \in Jobs, Queue!Claim(w, j) \/ Queue!DeadLetterExpired(w, j)
      PROVE  spent' \in [Jobs -> Nat]
  <2>1. \/ UNCHANGED spent
        \/ spent' = [spent EXCEPT ![j] = @ + 1]
    BY <1>4 DEF Queue!Claim, Queue!DeadLetterExpired
  <2> QED
    BY <1>1, <1>2, <2>1
<1>5. ASSUME NEW w \in Workers, Queue!Fail(w)
      PROVE  spent' \in [Jobs -> Nat]
  <2>1. \/ UNCHANGED spent
        \/ spent' = [spent EXCEPT ![worker[w].job] = @ + 1]
    BY <1>5 DEF Queue!Fail, Queue!FailRow
  <2> QED
    BY <1>1, <1>2, <2>1
<1>6. ASSUME NEW c, Request(c)
      PROVE  UNCHANGED spent
  BY <1>6 DEF Request, Accept, Retry, Refresh, Repair, Reuse, OnlyCall, Goes, EnqueueAccepted,
     Dispatch, Enqueued, Queue!Enqueue, RecordFailure, ReuseRecorded, Refused, CallerDies, queue
<1>7. CASE Discover \/ Ensure \/ RetryDead \/ \E j \in Jobs : Prune(j)
  <2>1. CASE Discover \/ Ensure \/ \E j \in Jobs : Prune(j)
    BY <1>2, <2>1 DEF Discover, OnlyCall, Ensure, Enqueued, Queue!Enqueue, Prune, Queue!Prune, queue
  <2>2. CASE RetryDead
    BY <1>1, <2>2 DEF RetryDead, Queue!RequeueDead
  <2> QED
    BY <1>7, <2>1, <2>2
<1>8. CASE Tick \/ UNCHANGED vars
  BY <1>2, <1>8 DEF Tick, Queue!Tick, vars, queue
<1>9. ASSUME NEW w \in Workers, WorkerStep(w)
      PROVE  \/ UNCHANGED spent
             \/ \E j \in Jobs : Queue!Claim(w, j) \/ Queue!DeadLetterExpired(w, j)
             \/ Queue!Fail(w)
  <2>1. CASE Publish(w)
    BY <2>1 DEF Publish, MarkRunning, Begin, PublishArtifacts, PublishFailure, PublishTerminal,
       Phase
  <2>2. CASE ~Publish(w)
    BY <1>9, <2>2 DEF WorkerStep, Take, Expire, Enter, Queue!Start, Raise, Complete,
       Queue!Complete, Fail, Crash, Queue!Crash
  <2> QED
    BY <2>1, <2>2
<1> QED
  BY <1>2, <1>4, <1>5, <1>6, <1>7, <1>8, <1>9 DEF Next

\* The faults the model allows are never exceeded.
LEMMA FaultsStep ==
  ASSUME faults \in 0..MaxFaults, [Next]_vars
  PROVE  faults' \in 0..MaxFaults
<1>1. ASSUME faults' = faults \/ Fault
      PROVE  faults' \in 0..MaxFaults
  BY <1>1, SourceAssumption DEF Fault
<1>2. ASSUME NEW c, Request(c)
      PROVE  faults' = faults \/ Fault
  BY <1>2 DEF Request, Accept, Retry, Refresh, Repair, Reuse, OnlyCall, Goes, EnqueueAccepted,
     Dispatch, Committed, RecordFailure, ReuseRecorded, Refused, CallerDies
<1>3. CASE Discover \/ Ensure \/ RetryDead \/ (\E j \in Jobs : Prune(j)) \/ Tick \/ UNCHANGED vars
  BY <1>1, <1>3 DEF Discover, OnlyCall, Ensure, RetryDead, Prune, Tick, vars
<1>4. ASSUME NEW w \in Workers, WorkerStep(w)
      PROVE  faults' = faults \/ Fault
  <2>1. CASE Publish(w)
    BY <2>1 DEF Publish, MarkRunning, Begin, PublishArtifacts, PublishFailure, PublishTerminal,
       Phase
  <2>2. CASE ~Publish(w)
    BY <1>4, <2>2 DEF WorkerStep, Take, Expire, Enter, Raise, Complete, Fail, Crash, OnlyQueue
  <2> QED
    BY <2>1, <2>2
<1> QED
  BY <1>1, <1>2, <1>3, <1>4 DEF Next

\* A payload names an attempt that a request or the reconciler holds.
LEMMA PayloadStep ==
  ASSUME IInv, payload \in [Jobs -> 0..MaxIntents], [Next]_vars
  PROVE  payload' \in [Jobs -> 0..MaxIntents]
<1>0. Attempts \subseteq 0..MaxIntents
  BY SourceAssumption DEF IInv, Recorded, Attempts
<1>1. ASSUME NEW a \in Attempts, Enqueued(a)
      PROVE  payload' \in [Jobs -> 0..MaxIntents]
  BY <1>0, <1>1 DEF Enqueued
<1>2. ASSUME NEW c \in Callers, Request(c)
      PROVE  UNCHANGED payload \/ \E a \in Attempts : Enqueued(a)
  <2>1. CASE EnqueueAccepted(c) \/ Dispatch(c)
    <3>1. call[c].at \in Steps \ {"none"}
      BY <2>1 DEF EnqueueAccepted, Dispatch, Steps
    <3>2. call[c].attempt \in Attempts
      BY <3>1 DEF IInv, Requests
    <3>3. UNCHANGED payload \/ Enqueued(call[c].attempt)
      BY <2>1 DEF EnqueueAccepted, Dispatch
    <3> QED
      BY <3>2, <3>3
  <2>2. CASE ~(EnqueueAccepted(c) \/ Dispatch(c))
    BY <1>2, <2>2 DEF Request, Accept, Retry, Refresh, Repair, Reuse, OnlyCall, Goes,
       RecordFailure, ReuseRecorded, Refused, CallerDies
  <2> QED
    BY <2>1, <2>2
<1>3. ASSUME Ensure
      PROVE  UNCHANGED payload \/ \E a \in Attempts : Enqueued(a)
  <2>1. call[Reconciler].attempt \in Attempts
    BY <1>3 DEF Ensure, IInv, Requests, Steps
  <2> QED
    BY <1>3, <2>1 DEF Ensure
<1>4. CASE Discover \/ RetryDead \/ (\E j \in Jobs : Prune(j)) \/ Tick \/ UNCHANGED vars
  BY <1>4 DEF Discover, OnlyCall, RetryDead, Prune, Tick, vars
<1>5. ASSUME NEW w \in Workers, WorkerStep(w)
      PROVE  UNCHANGED payload
  BY <1>5 DEF WorkerStep, Take, Expire, Enter, Publish, MarkRunning, Begin, PublishArtifacts,
     PublishFailure, PublishTerminal, Phase, Raise, Complete, Fail, Crash, OnlyQueue
<1> QED
  BY <1>1, <1>2, <1>3, <1>4, <1>5 DEF Next

\* What a request or the reconciler holds is an attempt, a new one, or none.
LEMMA CallStep ==
  ASSUME IInv, \A c \in Callers \cup {Reconciler} : call[c].attempt <= MaxIntents, [Next]_vars
  PROVE  \A c \in Callers \cup {Reconciler} : call'[c].attempt <= MaxIntents
<1> DEFINE All == Callers \cup {Reconciler}
           Small == \A c \in All : call'[c].attempt <= MaxIntents
<1>0. /\ call \in [All -> [at: Steps \cup {"reuse"}, attempt: Nat, seen: MediaStatus]]
      /\ Len(attempts) \in Nat /\ Len(attempts) <= MaxIntents /\ 0 <= MaxIntents
  BY SourceAssumption DEF IInv, Recorded, Requests
<1>1. \A c \in All : Answer(c) => Small
  BY <1>0 DEF Answer, NotCalling
<1>2. \A at : \A c \in All : Step(c, at) => Small
  BY <1>0 DEF Step
<1>3. ASSUME NEW c \in All, NEW source, NEW at, Record(c, source, at)
      PROVE  Small
  <2>1. Len(attempts) + 1 <= MaxIntents
    BY <1>0, <1>3, SourceAssumption DEF Record
  <2> QED
    BY <1>0, <1>3, <2>1 DEF Record
<1>4. UNCHANGED call => Small
  OBVIOUS
<1>5. ASSUME NEW c \in Callers, Request(c)
      PROVE  Small
  <2> HIDE DEF Small, All
  <2>1. c \in All
    BY DEF All
  <2>2. CASE Accept(c) \/ Retry(c) \/ Refresh(c)
    BY <1>3, <2>1, <2>2 DEF Accept, Retry, Refresh
  <2>3. CASE Repair(c)
    <3>1. CASE Record(c, Latest.source, "dispatch")
      BY <1>3, <2>1, <3>1
    <3>2. CASE call' = [call EXCEPT ![c] =
                 [at |-> "dispatch", attempt |-> Len(attempts), seen |-> "absent"]]
      BY <1>0, <3>2 DEF Small, All
    <3> QED
      BY <2>3, <3>1, <3>2 DEF Repair
  <2>4. CASE Reuse(c)
    BY <1>0, <2>4 DEF Reuse, Small, All
  <2>5. CASE EnqueueAccepted(c) \/ Dispatch(c)
    BY <1>1, <1>2, <2>1, <2>5 DEF EnqueueAccepted, Dispatch, Committed
  <2>6. CASE RecordFailure(c) \/ ReuseRecorded(c) \/ Refused(c) \/ CallerDies(c)
    BY <1>1, <1>2, <2>1, <2>6 DEF RecordFailure, ReuseRecorded, Refused, CallerDies
  <2> QED
    BY <1>5, <2>2, <2>3, <2>4, <2>5, <2>6 DEF Request, Goes
<1>6. CASE Discover
  <2>1. PICK a \in Attempts :
          call' = [call EXCEPT ![Reconciler].at = "ensure", ![Reconciler].attempt = a]
    BY <1>6 DEF Discover
  <2>2. a <= MaxIntents
    BY <1>0, SourceAssumption DEF Attempts
  <2> QED
    BY <1>0, <2>1, <2>2
<1>7. CASE Ensure
  BY <1>1, <1>7 DEF Ensure
<1>8. CASE RetryDead \/ (\E j \in Jobs : Prune(j)) \/ Tick \/ UNCHANGED vars
  BY <1>4, <1>8 DEF RetryDead, Prune, Tick, vars
<1>9. ASSUME NEW w \in Workers, WorkerStep(w)
      PROVE  UNCHANGED call
  BY <1>9 DEF WorkerStep, Take, Expire, Enter, Publish, MarkRunning, Begin, PublishArtifacts,
     PublishFailure, PublishTerminal, Phase, Raise, Complete, Fail, Crash, OnlyQueue
<1> QED
  BY <1>4, <1>5, <1>6, <1>7, <1>8, <1>9 DEF Next

\* What is published names the attempt, the job and the claim of an execution.
LEMMA ArtifactsStep ==
  ASSUME IInv, [Next]_vars,
         artifacts \in [attempt: 0..MaxIntents, job: Jobs \cup {NoJob}, token: Nat]
  PROVE  artifacts' \in [attempt: 0..MaxIntents, job: Jobs \cup {NoJob}, token: Nat]
<1>1. ASSUME NEW w \in Workers, PublishArtifacts(w), artifacts' # artifacts
      PROVE  artifacts' \in [attempt: 0..MaxIntents, job: Jobs \cup {NoJob}, token: Nat]
  <2>1. artifacts' = Execution(w) /\ Mine(w) = Len(attempts)
    BY <1>1 DEF PublishArtifacts, Phase, PublicationAllowed
  <2>2. Mine(w) \in 0..MaxIntents
    BY <2>1, SourceAssumption DEF IInv, Recorded
  <2>3. worker[w].job \in Jobs \cup {NoJob} /\ worker[w].token \in Nat
    BY DEF IInv, QP!Tidy, QP!Worker
  <2> QED
    BY <2>1, <2>2, <2>3 DEF Execution
<1>2. ASSUME NEW w \in Workers, WorkerStep(w)
      PROVE  artifacts' = artifacts \/ PublishArtifacts(w)
  BY <1>2 DEF WorkerStep, Take, Expire, Enter, Publish, MarkRunning, Begin, PublishFailure,
     PublishTerminal, Phase, Raise, Complete, Fail, Crash, OnlyQueue
<1>3. ASSUME NEW c, Request(c)
      PROVE  artifacts' = artifacts
  BY <1>3 DEF Request, Accept, Retry, Refresh, Repair, Reuse, OnlyCall, Goes, EnqueueAccepted,
     Dispatch, RecordFailure, ReuseRecorded, Refused, CallerDies
<1>4. CASE Discover \/ Ensure \/ RetryDead \/ (\E j \in Jobs : Prune(j)) \/ Tick \/ UNCHANGED vars
  BY <1>4 DEF Discover, OnlyCall, Ensure, RetryDead, Prune, Tick, vars
<1> QED
  BY <1>1, <1>2, <1>3, <1>4 DEF Next

\* Every variable keeps its type, and the bounds of the model hold.
THEOREM TypeCorrect == Spec => []TypeOK
<1>1. Init => Bounded
  BY SourceAssumption DEF Init, Queue!Init, Bounded, NotCalling, NoArtifacts
<1>2. IInv /\ Bounded /\ [Next]_vars => Bounded'
  BY SpentStep, FaultsStep, PayloadStep, CallStep, ArtifactsStep DEF Bounded
<1>3. IInv /\ Bounded => TypeOK
  <2> SUFFICES ASSUME IInv, Bounded PROVE TypeOK
    OBVIOUS
  <2>1. QP!Row = Queue!Row /\ QP!Worker = Queue!Worker
    BY DEF QP!Row, Queue!Row, QP!Worker, Queue!Worker, QP!Status, Queue!Status, QP!Waiting,
       Queue!Waiting, QP!Terminal, Queue!Terminal, QP!Phases, Queue!Phases
  <2>2. Queue!TypeOK
    BY <2>1 DEF Queue!TypeOK, IInv, QP!Tidy, Bounded
  <2>3. call \in [Callers \cup {Reconciler} ->
                   [at: Steps \cup {"reuse"}, attempt: 0..MaxIntents, seen: MediaStatus]]
    BY SourceAssumption DEF IInv, Requests, Bounded
  <2> QED
    BY <2>2, <2>3 DEF TypeOK, IInv, Recorded, MediaLive, Memories, Bounded
<1> QED
  BY <1>1, <1>2, <1>3, SourceInvariant, PTL DEF Spec

=============================================================================
