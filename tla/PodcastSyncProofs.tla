--------------------------- MODULE PodcastSyncProofs ---------------------------
(* What holds of PodcastSync for any epochs, runs, workers and bounds: a        *)
(* generation under way has a job that ends it, the items and the runs that     *)
(* joined it agree with it, its count is what it ingested, and the watermark    *)
(* passes no episode that was not queued.                                       *)
EXTENDS PodcastSync, Sequences, TLAPS

\* The queue's own invariant, and that each of its actions keeps it.
QP == INSTANCE JobQueueProofs WITH
  Allowed <- [w \in Workers |-> Jobs],
  UnknownKind <- {}, NeverPruneDead <- {}, RetryDelays <- <<>>,
  LeaseTicks <- 1, MaxDelay <- 0

-----------------------------------------------------------------------------
(* What makes the invariants inductive *)

TypesOK ==
  /\ feed \in [Epochs -> 0..MaxEpisodes] /\ known \in [Epochs -> 0..MaxEpisodes]
  /\ queued \in [Epochs -> SUBSET (1..MaxEpisodes)]
  /\ sub \in [Epochs -> Subscription]
  /\ run \in [Runs -> {"none", "Running", "Complete", "Partial", "Failed", "pruned"}]
  /\ item \in [Runs -> [Epochs -> Item]]
  /\ ingested \in [Jobs -> 0..MaxEpisodes]
  /\ faults \in 0..MaxFaults
  /\ exec \in [Workers -> Executor]

\* A generation under way has its own job and counts what it ingested; those
\* that have not begun have no job and ingested nothing.
GenerationsOK(e) ==
  /\ sub[e].status = "absent" => sub[e] = Absent
  /\ Active(e) => /\ sub[e].job = <<e, sub[e].generation>> /\ sub[e].job \in Jobs
                  /\ sub[e].checkpoint.count = ingested[sub[e].job]
  /\ sub[e].status # "deleted" =>
       \A j \in Jobs : Epoch(j) = e /\ j[2] > sub[e].generation =>
         row[j].status = "absent" /\ ingested[j] = 0

\* A checkpoint says how the ingest ended, and its cutoff is behind what was
\* ingested, so that the watermark stops there.
CheckpointOK(e) ==
  LET checkpoint == sub[e].checkpoint IN
  /\ checkpoint = NoCheckpoint \/ checkpoint.status # "none"
  /\ checkpoint.cutoff <= known[e]

\* JoinedItemsMirror and CountIsWhatWasIngested of one item: one that has ended
\* is of a generation that has ended, which ingests nothing any more.
ItemOK(r, e) ==
  /\ LiveItem(r, e) =>
       Active(e) /\ item[r][e].generation = sub[e].generation
                 /\ item[r][e].status = sub[e].status
  /\ item[r][e].status \in Ended =>
       /\ <<e, item[r][e].generation>> \in Jobs
       /\ item[r][e].count = ingested[<<e, item[r][e].generation>>]
       /\ \/ sub[e].status = "deleted"
          \/ item[r][e].generation < sub[e].generation
          \/ item[r][e].generation = sub[e].generation /\ ~Active(e)

WatermarkOK(e) == \A n \in 1..MaxEpisodes : n <= sub[e].watermark => n \in queued[e]

EpochOK(e) ==
  GenerationsOK(e) /\ CheckpointOK(e) /\ WatermarkOK(e) /\ \A r \in Runs : ItemOK(r, e)

\* What a handler has in memory is still so of the generation of its job: the
\* claim of the generation is its own, the cutoff is behind what it saw, and it
\* returns only when the generation has ended.
HandlerOK(w) ==
  LET j == worker[w].job
      e == Epoch(j)
  IN
  /\ At(w, "fetch") => exec[w].cutoff <= feed[e]
  /\ At(w, "ingest") => exec[w].cutoff <= exec[w].snapshot
  /\ At(w, "finalize") /\ Current(j) => sub[e].checkpoint.status # "none"
  /\ worker[w].pc = "executing" /\ exec[w].at \in {"fetch", "ingest", "finalize", "terminalize"}
     /\ QP!Holds(w) /\ Current(j) =>
       sub[e].status = "Running" /\ sub[e].attempt = worker[w].attempt
  /\ worker[w].pc = "completing" /\ QP!Holds(w) => ~Current(j)

IInv ==
  /\ QP!Tidy /\ TypesOK /\ ActiveSyncHasJob /\ RunsAgreeWithItems
  /\ \A e \in Epochs : EpochOK(e)
  /\ \A w \in Workers : HandlerOK(w)

-----------------------------------------------------------------------------
(* The queue *)

LEMMA QueueAssumptions ==
  /\ QP!PolicyAssumption /\ QP!WorkersAssumption
  /\ \A n \in Nat : QP!RetryDelay(n) \in Nat
<1>1. <<>> \in Seq(Nat)
  OBVIOUS
<1>2. NoWorker \notin Workers /\ NoJob \notin Jobs /\ MaxAttempts \in Nat \ {0}
      /\ MaxClaims \in Nat
  BY PodcastAssumption
<1> QED
  BY <1>1, <1>2 DEF QP!PolicyAssumption, QP!WorkersAssumption, QP!RetryDelay

\* The queue of this module is the one the lemmas are about.
LEMMA SameQueue ==
  /\ \A w \in Workers : Queue!ClaimIsCurrent(w) <=> QP!ClaimIsCurrent(w)
  /\ \A w \in Workers, j \in Jobs :
       /\ Queue!Owns(w, j) <=> QP!Owns(w, j)
       /\ Queue!Claim(w, j) <=> QP!Claim(w, j)
       /\ Queue!DeadLetterExpired(w, j) <=> QP!DeadLetterExpired(w, j)
  /\ \A j \in Jobs :
       /\ Queue!Enqueue(j) <=> QP!Enqueue(j)
       /\ Queue!RequeueDead(j) <=> QP!RequeueDead(j)
  /\ \A w \in Workers :
       /\ Queue!Start(w) <=> QP!Start(w)
       /\ Queue!Complete(w) <=> QP!Complete(w)
       /\ Queue!Fail(w) <=> QP!Fail(w)
       /\ Queue!Crash(w) <=> QP!Crash(w)
       /\ \A pc \in QP!Phases : Queue!Goto(w, pc) <=> QP!Goto(w, pc)
  /\ Queue!Tick <=> QP!Tick
  /\ Queue!Init <=> QP!Init
  /\ Queue!Fresh("pending", 0) = QP!Fresh("pending", 0)
<1>1. \A w \in Workers, j \in Jobs : Queue!Owns(w, j) <=> QP!Owns(w, j)
  BY DEF Queue!Owns, QP!Owns, Queue!LeaseLive, QP!LeaseLive
<1>2. \A w \in Workers : Queue!ClaimIsCurrent(w) <=> QP!ClaimIsCurrent(w)
  BY DEF Queue!ClaimIsCurrent, QP!ClaimIsCurrent, Queue!Owns, QP!Owns,
         Queue!LeaseLive, QP!LeaseLive
<1>3. \A w \in Workers, j \in Jobs : Queue!Claim(w, j) <=> QP!Claim(w, j)
  BY DEF Queue!Claim, QP!Claim, Queue!Claimed, QP!Claimed, Queue!Claimable, QP!Claimable,
         Queue!Waiting, QP!Waiting, Queue!Due, QP!Due, Queue!LeaseLive, QP!LeaseLive
<1>4. \A w \in Workers, j \in Jobs :
        Queue!DeadLetterExpired(w, j) <=> QP!DeadLetterExpired(w, j)
  BY DEF Queue!DeadLetterExpired, QP!DeadLetterExpired, Queue!LeaseLive, QP!LeaseLive,
         Queue!Expired, QP!Expired, Queue!Unclaimed, QP!Unclaimed
<1>5. \A j \in Jobs : Queue!Enqueue(j) <=> QP!Enqueue(j)
  BY DEF Queue!Enqueue, QP!Enqueue, Queue!Fresh, QP!Fresh, Queue!Unclaimed, QP!Unclaimed
<1>6. \A j \in Jobs : Queue!RequeueDead(j) <=> QP!RequeueDead(j)
  BY DEF Queue!RequeueDead, QP!RequeueDead, Queue!Repairable, QP!Repairable,
         Queue!Unclaimed, QP!Unclaimed
<1>7. \A w \in Workers : Queue!Start(w) <=> QP!Start(w)
  BY DEF Queue!Start, QP!Start, Queue!Owns, QP!Owns, Queue!LeaseLive, QP!LeaseLive,
         Queue!Goto, QP!Goto, Queue!Return, QP!Return, Queue!Idle, QP!Idle
<1>8. \A w \in Workers : Queue!Complete(w) <=> QP!Complete(w)
  BY DEF Queue!Complete, QP!Complete, Queue!CompleteRow, QP!CompleteRow, Queue!Owns, QP!Owns,
         Queue!LeaseLive, QP!LeaseLive, Queue!Released, QP!Released, Queue!Unclaimed,
         QP!Unclaimed, Queue!Return, QP!Return, Queue!Idle, QP!Idle
<1>9. \A w \in Workers : Queue!Fail(w) <=> QP!Fail(w)
  BY DEF Queue!Fail, QP!Fail, Queue!FailRow, QP!FailRow, Queue!Owns, QP!Owns,
         Queue!LeaseLive, QP!LeaseLive, Queue!RetryDelay, QP!RetryDelay, Queue!Unclaimed,
         QP!Unclaimed, Queue!Return, QP!Return, Queue!Idle, QP!Idle
<1>10. \A w \in Workers : Queue!Crash(w) <=> QP!Crash(w)
  BY DEF Queue!Crash, QP!Crash, Queue!Return, QP!Return, Queue!Idle, QP!Idle
<1>11. \A w \in Workers, pc \in QP!Phases : Queue!Goto(w, pc) <=> QP!Goto(w, pc)
  BY DEF Queue!Goto, QP!Goto
<1>12. Queue!Tick <=> QP!Tick
  BY DEF Queue!Tick, QP!Tick, Queue!Elapse, QP!Elapse
<1>13. Queue!Fresh("pending", 0) = QP!Fresh("pending", 0)
  BY DEF Queue!Fresh, QP!Fresh, Queue!Unclaimed, QP!Unclaimed
<1>14. Queue!Init <=> QP!Init
  BY DEF Queue!Init, QP!Init, Queue!Fresh, QP!Fresh, Queue!Unclaimed, QP!Unclaimed,
         Queue!Idle, QP!Idle
<1> QED
  BY <1>1, <1>2, <1>3, <1>4, <1>5, <1>6, <1>7, <1>8, <1>9, <1>10, <1>11, <1>12, <1>13, <1>14

\* Who is in a handler is at a job of some epoch.
LEMMA AtJob ==
  ASSUME IInv, NEW w \in Workers, worker[w].pc # "idle"
  PROVE  /\ worker[w].job \in Jobs /\ Epoch(worker[w].job) \in Epochs
         /\ row[worker[w].job].status # "absent"
         /\ QP!Holds(w) <=> Queue!Owns(w, worker[w].job)
         /\ QP!Holds(w) <=> Queue!ClaimIsCurrent(w)
<1>1. worker[w].job \in Jobs
  BY DEF IInv, QP!Tidy, QP!Worker
<1>2. Queue!Owns(w, worker[w].job) <=> QP!Owns(w, worker[w].job)
  BY <1>1, SameQueue
<1>3. QP!Holds(w) <=> Queue!Owns(w, worker[w].job)
  BY <1>2 DEF QP!Holds
<1>4. QP!Holds(w) => row[worker[w].job].attempts = worker[w].attempt
  BY DEF IInv, QP!Tidy
<1>5. Queue!ClaimIsCurrent(w) <=>
        Queue!Owns(w, worker[w].job) /\ row[worker[w].job].attempts = worker[w].attempt
  BY <1>1 DEF Queue!ClaimIsCurrent
<1>6. row[worker[w].job].status # "absent"
  BY <1>1 DEF IInv, QP!Tidy
<1> QED
  BY <1>1, <1>3, <1>4, <1>5, <1>6 DEF Jobs, Epoch

\* A transaction of the handler renews the claim, or finds that it lost it.
LEMMA HandlerTidy ==
  ASSUME IInv, NEW w \in Workers, worker[w].pc # "idle", UNCHANGED claims,
         row' = row \/ row' = Renewed(w),
         \/ UNCHANGED worker
         \/ \E pc \in {"completing", "failing"} : Queue!Goto(w, pc)
  PROVE  QP!TidyStep
<1>0. QP!Tidy
  BY DEF IInv
<1>1. \/ UNCHANGED worker
      \/ \E pc \in QP!Phases \ {"idle"} : QP!Goto(w, pc)
  BY SameQueue DEF QP!Phases
<1>2. CASE row' = row
  BY <1>0, <1>1, <1>2, QP!OneWorkerQuiet, QueueAssumptions
<1>3. CASE row' # row
  <2>1. Queue!ClaimIsCurrent(w) /\ row' = [row EXCEPT ![worker[w].job].lease = 1]
    BY <1>3 DEF Renewed
  <2>2. row[worker[w].job].lease > 0
    BY <2>1 DEF Queue!ClaimIsCurrent, Queue!Owns, Queue!LeaseLive
  <2> QED
    BY <1>0, <1>1, <2>1, <2>2, QP!RenewTidy, QueueAssumptions
<1> QED
  BY <1>2, <1>3

\* The subscriptions as admission leaves them.
AdmittedSub(S) ==
  [e \in Epochs |->
     IF e \in {n \in S : ~Active(n)}
     THEN [sub[e] EXCEPT !.status = "Pending", !.generation = @ + 1, !.attempt = 0,
             !.job = <<e, sub[e].generation + 1>>, !.checkpoint = NoCheckpoint]
     ELSE sub[e]]

\* Admission enqueues the jobs of what begins and promotes those of the rest.
LEMMA AdmitTidy ==
  ASSUME IInv, NEW r \in Runs, NEW S \in SUBSET {e \in Epochs : sub[e].status \in Live \cup Ended},
         NEW interactive \in BOOLEAN, Admit(r, S, interactive)
  PROVE  QP!TidyStep
<1>0. QP!Tidy /\ UNCHANGED <<worker, claims>>
  BY DEF IInv, Admit
<1>1. row' \in [Jobs -> QP!Row] /\ \A j \in Jobs : QP!QuietRow(row[j], row'[j])
  <2> DEFINE new == {e \in S : ~Active(e)}
             promoted == {sub[e].job : e \in IF interactive THEN S \ new ELSE {}}
             jobs == {AdmittedSub(S)[e].job : e \in new}
  <2>0. row' = [j \in Jobs |->
          CASE j \in jobs -> Queue!Fresh("pending", 0)
            [] j \in promoted /\ row[j].status \in {"pending", "failed"} -> [row[j] EXCEPT !.wait = 0]
            [] OTHER -> row[j]]
    BY DEF Admit, AdmittedSub
  <2>1. \A j \in Jobs : \/ row'[j] = QP!Fresh("pending", 0)
                        \/ row'[j] = [row[j] EXCEPT !.wait = 0]
                        \/ row'[j] = row[j]
    <3> HIDE DEF promoted, jobs
    <3> QED
      BY <2>0, SameQueue
  <2>2. 0 < MaxAttempts /\ "pending" \in QP!Status \ {"running", "absent"}
    BY PodcastAssumption DEF QP!Status, QP!Waiting
  <2>3. \A j \in Jobs : QP!Fresh("pending", 0) \in QP!Row
                        /\ QP!QuietRow(row[j], QP!Fresh("pending", 0))
    BY <2>2, QP!UnclaimedQuiet, QueueAssumptions DEF QP!Fresh
  <2>4. \A j \in Jobs : [row[j] EXCEPT !.wait = 0] \in QP!Row
                        /\ QP!QuietRow(row[j], [row[j] EXCEPT !.wait = 0])
    BY <1>0, QP!WaitQuiet, QueueAssumptions
  <2>5. \A j \in Jobs : row[j] \in QP!Row /\ QP!QuietRow(row[j], row[j])
    BY <1>0, QP!SameRowQuiet, QueueAssumptions DEF QP!Tidy
  <2>6. \A j \in Jobs : row'[j] \in QP!Row /\ QP!QuietRow(row[j], row'[j])
    BY <2>1, <2>3, <2>4, <2>5
  <2>7. row' = [j \in Jobs |-> row'[j]]
    <3> HIDE DEF promoted, jobs
    <3> QED
      BY <2>0
  <2> QED
    BY <2>6, <2>7
<1>2. QP!Quiet
  BY <1>0, <1>1 DEF QP!Quiet, QP!QuietWorker, QP!Tidy
<1> QED
  BY <1>0, <1>2, QP!QuietTidy, QueueAssumptions

LEMMA QueueStep ==
  ASSUME IInv, [Next]_vars
  PROVE  QP!TidyStep
<1>0. QP!Tidy
  BY DEF IInv
<1>1. CASE UNCHANGED <<row, worker, claims>>
  <2>1. QP!Quiet
    BY <1>0, <1>1, QP!SameRowQuiet, QueueAssumptions DEF QP!Quiet, QP!QuietWorker, QP!Tidy
  <2> QED
    BY <1>0, <2>1, QP!QuietTidy, QueueAssumptions
<1>2. ASSUME NEW r \in Runs, Refresh(r) \/ RefreshDue(r) \/ PruneRun(r)
      PROVE  QP!TidyStep
  <2>1. CASE Refresh(r)
    BY <2>1, AdmitTidy DEF Refresh
  <2>2. CASE RefreshDue(r)
    <3>1. PICK S \in SUBSET {e \in Epochs : sub[e].status \in Ended} : Admit(r, S, FALSE)
      BY <2>2 DEF RefreshDue
    <3>2. S \in SUBSET {e \in Epochs : sub[e].status \in Live \cup Ended}
      OBVIOUS
    <3> QED
      BY <3>1, <3>2, AdmitTidy
  <2>3. CASE PruneRun(r)
    BY <1>1, <2>3 DEF PruneRun, queue
  <2> QED
    BY <1>2, <2>1, <2>2, <2>3
<1>3. ASSUME NEW e \in Epochs,
             Subscribe(e) \/ Unsubscribe(e) \/ ToggleAutoQueue(e) \/ PublishEpisode(e)
      PROVE  QP!TidyStep
  <2>1. CASE Subscribe(e)
    <3>1. \E j \in Jobs : QP!Enqueue(j)
      <4>1. <<e, 1>> \in Jobs
        BY PodcastAssumption DEF Jobs
      <4> QED
        BY <2>1, <4>1, SameQueue DEF Subscribe
    <3> QED
      BY <1>0, <3>1, QP!CallerTidy, QueueAssumptions DEF QP!Caller
  <2>2. CASE Unsubscribe(e) \/ ToggleAutoQueue(e) \/ PublishEpisode(e)
    BY <1>1, <2>2 DEF Unsubscribe, ToggleAutoQueue, PublishEpisode, queue
  <2> QED
    BY <1>3, <2>1, <2>2
<1>4. ASSUME NEW j \in Jobs, Requeue(j)
      PROVE  QP!TidyStep
  <2>1. QP!RequeueDead(j)
    BY <1>4, SameQueue DEF Requeue
  <2> QED
    BY <1>0, <2>1, QP!CallerTidy, QueueAssumptions DEF QP!Caller
<1>5. ASSUME NEW w \in Workers, NEW j \in Jobs, Take(w, j) \/ Expire(w, j)
      PROVE  QP!TidyStep
  <2>1. CASE Take(w, j)
    <3>1. QP!Claim(w, j)
      BY <2>1, SameQueue DEF Take
    <3> QED
      BY <1>0, <3>1, QP!ClaimTidy, QueueAssumptions
  <2>2. CASE Expire(w, j)
    <3>1. QP!DeadLetterExpired(w, j)
      BY <2>2, SameQueue DEF Expire
    <3> QED
      BY <1>0, <3>1, QP!ElapseTidy, QueueAssumptions
  <2> QED
    BY <1>5, <2>1, <2>2
<1>6. ASSUME NEW w \in Workers, Enter(w) \/ Complete(w) \/ Fail(w) \/ Crash(w)
      PROVE  QP!TidyStep
  <2>1. CASE Enter(w)
    <3>1. QP!Start(w)
      BY <2>1, SameQueue DEF Enter
    <3> QED
      BY <1>0, <3>1, QP!StartTidy, QueueAssumptions
  <2>2. CASE Complete(w) \/ Fail(w)
    <3>1. QP!Complete(w) \/ QP!Fail(w)
      BY <2>2, SameQueue DEF Complete, Fail
    <3> QED
      BY <1>0, <3>1, QP!SettleTidy, QueueAssumptions
  <2>3. CASE Crash(w)
    <3>1. QP!Crash(w)
      BY <2>3, SameQueue DEF Crash
    <3> QED
      BY <1>0, <3>1, QP!MemoryTidy, QueueAssumptions DEF QP!Crash
  <2> QED
    BY <1>6, <2>1, <2>2, <2>3
<1>7. ASSUME NEW w \in Workers, Sync(w) \/ Raise(w)
      PROVE  QP!TidyStep
  <2>1. worker[w].pc # "idle" /\ UNCHANGED claims /\ (row' = row \/ row' = Renewed(w))
    BY <1>7 DEF Sync, ClaimSync, Fetch, Ingest, Finalize, Refuse, Terminalize, Raise, At
  <2>2. UNCHANGED worker \/ \E pc \in {"completing", "failing"} : Queue!Goto(w, pc)
    BY <1>7 DEF Sync, ClaimSync, Fetch, Ingest, Finalize, Refuse, Terminalize, Raise, Memory,
                Return, Go
  <2> QED
    BY <2>1, <2>2, HandlerTidy
<1>8. CASE Tick
  <2>1. QP!Tick
    BY <1>8, SameQueue DEF Tick
  <2> QED
    BY <1>0, <2>1, QP!ElapseTidy, QueueAssumptions
<1>9. CASE UNCHANGED vars
  BY <1>1, <1>9 DEF vars, queue
<1> QED
  BY <1>2, <1>3, <1>4, <1>5, <1>6, <1>7, <1>8, <1>9 DEF Next, Request, WorkerStep

-----------------------------------------------------------------------------
(* What a step may do to one epoch: six things *)

SameCounts(e) == \A j \in Jobs : Epoch(j) = e => ingested'[j] = ingested[j]

SameKnowledge(e) == SameCounts(e) /\ known'[e] = known[e] /\ queued'[e] = queued[e]

SameItems(e) == \A r \in Runs : item'[r][e] = item[r][e]

\* An item that is live is marked, those that are not stay as they are.
LiveItemsBecome(e, statuses, counts) ==
  \A r \in Runs :
    /\ ~LiveItem(r, e) => item'[r][e] = item[r][e]
    /\ LiveItem(r, e) => /\ item'[r][e].status \in statuses
                         /\ item'[r][e].generation = item[r][e].generation
                         /\ item'[r][e].count \in counts

\* A run is pruned, or admitted: its item has the generation as it is by then.
ItemsComeAndGo(e) ==
  \A r \in Runs :
    \/ item'[r][e] = item[r][e]
    \/ item'[r][e] = NoItem
    \/ /\ Active(e)'
       /\ item'[r][e] = [status |-> sub'[e].status, generation |-> sub'[e].generation,
                         count |-> 0]

SameGeneration(e) ==
  /\ sub'[e].generation = sub[e].generation /\ sub'[e].job = sub[e].job
  /\ sub'[e].watermark = sub[e].watermark

\* Nothing, or a switch of auto_queue, or a run that joins or goes.
Rests(e) ==
  /\ SameKnowledge(e) /\ ItemsComeAndGo(e) /\ SameGeneration(e)
  /\ sub'[e].status = sub[e].status /\ sub'[e].attempt = sub[e].attempt
  /\ sub'[e].checkpoint = sub[e].checkpoint
  /\ sub[e].status = "absent" => sub'[e] = sub[e]

Begins(e) ==
  /\ SameKnowledge(e) /\ ItemsComeAndGo(e)
  /\ ~Active(e) /\ sub[e].status # "deleted"
  /\ <<e, sub[e].generation + 1>> \in Jobs
  /\ sub'[e].status = "Pending"
  /\ sub'[e].generation = sub[e].generation + 1
  /\ sub'[e].job = <<e, sub[e].generation + 1>>
  /\ sub'[e].checkpoint = NoCheckpoint
  /\ sub'[e].watermark = sub[e].watermark

Leaves(e) ==
  /\ SameKnowledge(e) /\ LiveItemsBecome(e, {"Skipped"}, 0..MaxEpisodes)
  /\ sub'[e].status = "deleted"
  /\ sub'[e].checkpoint = NoCheckpoint /\ sub'[e].watermark = 0

IsClaimed(e) ==
  /\ SameKnowledge(e) /\ LiveItemsBecome(e, {"Running"}, 0..MaxEpisodes) /\ SameGeneration(e)
  /\ Active(e) /\ sub'[e].status = "Running"
  /\ sub'[e].checkpoint = sub[e].checkpoint
  /\ \E w \in Workers : /\ At(w, "claim") /\ QP!Holds(w) /\ worker[w].job = sub[e].job
                        /\ sub'[e].attempt = worker[w].attempt

Ingests(e) ==
  /\ SameItems(e) /\ SameGeneration(e)
  /\ Active(e) /\ sub'[e].status = sub[e].status /\ sub'[e].attempt = sub[e].attempt
  /\ sub'[e].checkpoint.status # "none"
  /\ sub'[e].checkpoint.cutoff <= known'[e]
  /\ sub'[e].checkpoint.count = ingested'[sub[e].job]
  /\ known'[e] >= known[e] /\ queued'[e] = queued[e]
  /\ \A j \in Jobs : j # sub[e].job => ingested'[j] = ingested[j]

Ends(e) ==
  /\ SameCounts(e) /\ known'[e] = known[e]
  /\ LiveItemsBecome(e, Ended, {sub[e].checkpoint.count})
  /\ Active(e) /\ sub'[e].status \in Ended
  /\ sub'[e].generation = sub[e].generation
  /\ sub'[e].checkpoint = NoCheckpoint
  /\ queued[e] \subseteq queued'[e]
  /\ \A n \in 1..MaxEpisodes :
       n <= sub'[e].watermark => n <= sub[e].watermark \/ n \in queued'[e]

EpochStep(e) ==
  /\ sub'[e] \in Subscription /\ \A r \in Runs : item'[r][e] \in Item
  /\ feed'[e] \in 0..MaxEpisodes /\ feed'[e] >= feed[e]
  /\ known'[e] \in 0..MaxEpisodes /\ queued'[e] \subseteq 1..MaxEpisodes
  /\ \A j \in Jobs : Epoch(j) = e => ingested'[j] \in 0..MaxEpisodes
  /\ \/ Rests(e) \/ Begins(e) \/ Leaves(e) \/ IsClaimed(e) \/ Ingests(e) \/ Ends(e)

\* A job comes into being as that of the generation that begins.
JobsBegin ==
  \A j \in Jobs : row[j].status = "absent" => row'[j].status = "absent" \/ Current(j)'

LEMMA JobParts ==
  /\ \A j \in Jobs : j = <<Epoch(j), j[2]>> /\ Epoch(j) \in Epochs /\ j[2] \in 1..3
                     /\ j[2] <= MaxGeneration[Epoch(j)]
  /\ \A e \in Epochs, n \in 1..3 : n <= MaxGeneration[e] => <<e, n>> \in Jobs
  /\ \A e, n : <<e, n>> \in Jobs => Epoch(<<e, n>>) = e
BY DEF Jobs, Epoch

\* Each of the six keeps what is so of the epoch.
LEMMA GenerationsStep ==
  ASSUME IInv, NEW e \in Epochs, EpochStep(e), JobsBegin
  PROVE  GenerationsOK(e)'
<1>0. /\ sub[e] \in Subscription /\ GenerationsOK(e) /\ CheckpointOK(e)
      /\ sub[e].generation \in 0..3 /\ sub'[e] \in Subscription /\ sub'[e].generation \in 0..3
  BY DEF IInv, TypesOK, EpochOK, EpochStep, Subscription
<1>1. \A j \in Jobs : Epoch(j) = e /\ j[2] > sub[e].generation /\ sub[e].status # "deleted" =>
        row[j].status = "absent" /\ ingested[j] = 0
  BY <1>0 DEF GenerationsOK
<1>2. Active(e) => sub[e].job = <<e, sub[e].generation>> /\ sub[e].job \in Jobs
                   /\ sub[e].checkpoint.count = ingested[sub[e].job]
  BY <1>0 DEF GenerationsOK
<1>3. \A j \in Jobs : row'[j].status # "absent" /\ row[j].status = "absent" /\ Epoch(j) = e =>
        sub'[e].generation = j[2]
  BY DEF JobsBegin, Current
<1>4. "deleted" \notin Live /\ "absent" \notin Live /\ "Pending" \in Live /\ "Running" \in Live
      /\ NoCheckpoint.count = 0 /\ \A st \in Ended : st \notin Live /\ st # "absent"
  BY DEF Live, Ended, NoCheckpoint
<1>5. CASE Rests(e)
  BY <1>0, <1>1, <1>2, <1>3, <1>4, <1>5, JobParts
     DEF Rests, SameKnowledge, SameCounts, SameGeneration, GenerationsOK, Active
<1>6. CASE Begins(e)
  BY <1>0, <1>1, <1>2, <1>3, <1>4, <1>6, JobParts
     DEF Begins, SameKnowledge, SameCounts, GenerationsOK, Active
<1>7. CASE Leaves(e)
  BY <1>4, <1>7 DEF Leaves, GenerationsOK, Active
<1>8. CASE IsClaimed(e)
  BY <1>0, <1>1, <1>2, <1>3, <1>4, <1>8, JobParts
     DEF IsClaimed, SameKnowledge, SameCounts, SameGeneration, GenerationsOK, Active
<1>9. CASE Ingests(e)
  BY <1>0, <1>1, <1>2, <1>3, <1>4, <1>9, JobParts
     DEF Ingests, SameGeneration, GenerationsOK, Active
<1>10. CASE Ends(e)
  BY <1>0, <1>1, <1>2, <1>3, <1>4, <1>10, JobParts
     DEF Ends, SameCounts, GenerationsOK, Active
<1> QED
  BY <1>5, <1>6, <1>7, <1>8, <1>9, <1>10 DEF EpochStep

LEMMA CheckpointStep ==
  ASSUME IInv, NEW e \in Epochs, EpochStep(e)
  PROVE  CheckpointOK(e)' /\ WatermarkOK(e)'
<1>0. /\ CheckpointOK(e) /\ WatermarkOK(e)
      /\ known[e] \in Nat /\ known'[e] \in Nat
      /\ sub[e].watermark \in Nat /\ sub'[e].watermark \in Nat
  BY PodcastAssumption DEF IInv, TypesOK, EpochOK, EpochStep, Subscription
<1>1. NoCheckpoint.cutoff = 0
  BY DEF NoCheckpoint
<1>2. CheckpointOK(e)'
  <2>1. CASE Rests(e) \/ IsClaimed(e)
    BY <1>0, <2>1 DEF Rests, IsClaimed, SameKnowledge, CheckpointOK
  <2>2. CASE Begins(e) \/ Leaves(e) \/ Ends(e)
    <3>1. sub'[e].checkpoint = NoCheckpoint
      BY <2>2 DEF Begins, Leaves, Ends
    <3> QED
      BY <1>0, <1>1, <3>1 DEF CheckpointOK
  <2>3. CASE Ingests(e)
    BY <1>0, <2>3 DEF Ingests, CheckpointOK
  <2> QED
    BY <2>1, <2>2, <2>3 DEF EpochStep
<1>3. WatermarkOK(e)'
  <2>1. CASE Rests(e) \/ IsClaimed(e) \/ Begins(e) \/ Ingests(e)
    BY <1>0, <2>1 DEF Rests, IsClaimed, Begins, Ingests, SameKnowledge, SameGeneration, WatermarkOK
  <2>2. CASE Leaves(e)
    BY <2>2 DEF Leaves, WatermarkOK
  <2>3. CASE Ends(e)
    BY <1>0, <2>3 DEF Ends, WatermarkOK
  <2> QED
    BY <2>1, <2>2, <2>3 DEF EpochStep
<1> QED
  BY <1>2, <1>3

\* The item of a run, when it comes, goes, or stays.
LEMMA ItemComesAndGoes ==
  ASSUME IInv, NEW e \in Epochs, NEW r \in Runs, EpochStep(e), ItemsComeAndGo(e), SameCounts(e),
         Rests(e) \/ Begins(e)
  PROVE  ItemOK(r, e)'
<1>0. /\ ItemOK(r, e) /\ item[r][e] \in Item /\ sub[e] \in Subscription
      /\ sub'[e] \in Subscription
  BY DEF IInv, TypesOK, EpochOK, EpochStep
<1>1. "none" \notin Live /\ "none" \notin Ended /\ \A st \in Live : st \notin Ended
  BY DEF Live, Ended
<1>2. CASE item'[r][e] = item[r][e]
  <2>1. CASE LiveItem(r, e)
    <3>1. Rests(e)
      BY <1>0, <2>1 DEF ItemOK, Begins
    <3> QED
      BY <1>0, <1>1, <1>2, <2>1, <3>1
         DEF ItemOK, LiveItem, Rests, SameGeneration, Active
  <2>2. CASE ~LiveItem(r, e)
    <3>1. ~LiveItem(r, e)'
      BY <1>2, <2>2 DEF LiveItem
    <3>2. CASE item[r][e].status \in Ended
      <4>1. ingested'[<<e, item[r][e].generation>>] = ingested[<<e, item[r][e].generation>>]
        BY <1>0, <3>2, JobParts DEF ItemOK, SameCounts
      <4>2. item[r][e].generation \in Nat /\ sub[e].generation \in Nat
        BY <1>0 DEF Item, Subscription
      <4>3. \/ sub'[e].status = "deleted"
            \/ item[r][e].generation < sub'[e].generation
            \/ item[r][e].generation = sub'[e].generation /\ ~Active(e)'
        BY <1>0, <3>2, <4>2 DEF ItemOK, Rests, Begins, SameGeneration, Active
      <4> QED
        BY <1>0, <1>2, <3>1, <3>2, <4>1, <4>3 DEF ItemOK
    <3>3. CASE item[r][e].status \notin Ended
      BY <1>2, <3>1, <3>3 DEF ItemOK
    <3> QED
      BY <3>2, <3>3
  <2> QED
    BY <2>1, <2>2
<1>3. CASE item'[r][e] = NoItem
  BY <1>1, <1>3 DEF NoItem, ItemOK, LiveItem
<1>4. CASE /\ Active(e)'
           /\ item'[r][e] = [status |-> sub'[e].status, generation |-> sub'[e].generation,
                             count |-> 0]
  BY <1>1, <1>4 DEF ItemOK, LiveItem, Active
<1> QED
  BY <1>2, <1>3, <1>4 DEF ItemsComeAndGo

\* The item of a run when what is live is marked.
LEMMA LiveItemIsMarked ==
  ASSUME IInv, NEW e \in Epochs, NEW r \in Runs, EpochStep(e), SameCounts(e),
         IsClaimed(e) \/ Leaves(e) \/ Ends(e)
  PROVE  ItemOK(r, e)'
<1>0. /\ ItemOK(r, e) /\ item[r][e] \in Item /\ sub[e] \in Subscription
      /\ sub'[e] \in Subscription /\ GenerationsOK(e)
  BY DEF IInv, TypesOK, EpochOK, EpochStep
<1>1. "Running" \in Live /\ "Skipped" \notin Live /\ "Skipped" \notin Ended
      /\ \A st \in Live : st \notin Ended
  BY DEF Live, Ended
<1>2. CASE LiveItem(r, e)
  <2>1. Active(e) /\ item[r][e].generation = sub[e].generation /\ sub[e].job \in Jobs
        /\ sub[e].job = <<e, sub[e].generation>>
        /\ sub[e].checkpoint.count = ingested[sub[e].job]
    BY <1>0, <1>2 DEF ItemOK, GenerationsOK
  <2>2. CASE IsClaimed(e)
    <3>1. item'[r][e].status = "Running" /\ item'[r][e].generation = sub'[e].generation
          /\ sub'[e].status = "Running"
      BY <1>2, <2>1, <2>2 DEF IsClaimed, LiveItemsBecome, SameGeneration
    <3> QED
      BY <1>1, <3>1 DEF ItemOK, LiveItem, Active
  <2>3. CASE Leaves(e)
    <3>1. item'[r][e].status = "Skipped"
      BY <1>2, <2>3 DEF Leaves, LiveItemsBecome
    <3> QED
      BY <1>1, <3>1 DEF ItemOK, LiveItem
  <2>4. CASE Ends(e)
    <3>1. /\ item'[r][e].status \in Ended /\ item'[r][e].generation = sub'[e].generation
          /\ item'[r][e].count = ingested[sub[e].job]
          /\ sub'[e].generation = sub[e].generation
          /\ sub'[e].status \in Ended
      BY <1>2, <2>1, <2>4 DEF Ends, LiveItemsBecome
    <3>2. ingested'[sub[e].job] = ingested[sub[e].job]
      BY <2>1, JobParts DEF SameCounts
    <3> QED
      BY <1>1, <2>1, <3>1, <3>2 DEF ItemOK, LiveItem, Active
  <2> QED
    BY <2>2, <2>3, <2>4
<1>3. CASE ~LiveItem(r, e)
  <2>1. item'[r][e] = item[r][e] /\ ~LiveItem(r, e)'
    BY <1>3 DEF IsClaimed, Leaves, Ends, LiveItemsBecome, LiveItem
  <2>2. CASE item[r][e].status \in Ended
    <3>1. ingested'[<<e, item[r][e].generation>>] = ingested[<<e, item[r][e].generation>>]
      BY <1>0, <2>2, JobParts DEF ItemOK, SameCounts
    <3>2. \/ sub'[e].status = "deleted"
          \/ item[r][e].generation < sub'[e].generation
          \/ item[r][e].generation = sub'[e].generation /\ ~Active(e)'
      BY <1>0, <1>1, <2>2 DEF ItemOK, IsClaimed, Leaves, Ends, SameGeneration, Active, Live
    <3> QED
      BY <1>0, <2>1, <2>2, <3>1, <3>2 DEF ItemOK
  <2>3. CASE item[r][e].status \notin Ended
    BY <2>1, <2>3 DEF ItemOK
  <2> QED
    BY <2>2, <2>3
<1> QED
  BY <1>2, <1>3

LEMMA ItemStep ==
  ASSUME IInv, NEW e \in Epochs, NEW r \in Runs, EpochStep(e)
  PROVE  ItemOK(r, e)'
<1>1. CASE Rests(e) \/ Begins(e)
  BY <1>1, ItemComesAndGoes DEF Rests, Begins, SameKnowledge
<1>2. CASE IsClaimed(e) \/ Leaves(e) \/ Ends(e)
  BY <1>2, LiveItemIsMarked DEF IsClaimed, Leaves, Ends, SameKnowledge
<1>3. CASE Ingests(e)
  <2>1. /\ ItemOK(r, e) /\ GenerationsOK(e) /\ item'[r][e] = item[r][e]
        /\ sub'[e].generation = sub[e].generation /\ sub'[e].status = sub[e].status
        /\ sub[e].status # "deleted" /\ Active(e)
    BY <1>3 DEF IInv, EpochOK, Ingests, SameItems, SameGeneration, Active, Live
  <2>2. CASE item[r][e].status \in Ended
    <3>1. <<e, item[r][e].generation>> # sub[e].job /\ <<e, item[r][e].generation>> \in Jobs
          /\ item[r][e].generation < sub[e].generation
      <4>1. item[r][e].generation < sub[e].generation
        BY <2>1, <2>2 DEF ItemOK
      <4>2. item[r][e].generation \in 0..3
        BY DEF IInv, TypesOK, Item
      <4>3. item[r][e].generation # sub[e].generation
        BY <4>1, <4>2
      <4> QED
        BY <2>1, <2>2, <4>1, <4>3 DEF ItemOK, GenerationsOK
    <3>2. ingested'[<<e, item[r][e].generation>>] = ingested[<<e, item[r][e].generation>>]
      BY <1>3, <3>1 DEF Ingests
    <3> QED
      BY <2>1, <2>2, <3>1, <3>2 DEF ItemOK, LiveItem, Active
  <2>3. CASE item[r][e].status \notin Ended
    BY <2>1, <2>3 DEF ItemOK, LiveItem, Active
  <2> QED
    BY <2>2, <2>3
<1> QED
  BY <1>1, <1>2, <1>3 DEF EpochStep

-----------------------------------------------------------------------------
(* What a step may do to the row of a job *)

Alive == {"pending", "running", "failed"}

\* The job of a generation that goes on is not settled but as Stranded has it;
\* only a dead job that is requeued comes back.
RowStep(j) ==
  /\ row[j].status \in Alive =>
       \/ row'[j].status \in Alive
       \/ ~Current(j)'
       \/ /\ row'[j].status = "dead" /\ sub'[Epoch(j)].status = "Running"
          /\ sub'[Epoch(j)].attempt # MaxAttempts
  /\ row[j].status = "dead" => row'[j].status \in {"dead", "pending"}
  /\ row[j].status = "absent" => row'[j].status = "absent" \/ Current(j)'
  /\ row[j].status = "absent" /\ Current(j)' => row'[j].status = "pending"

LEMMA ActiveSyncStep ==
  ASSUME IInv, \A e \in Epochs : EpochStep(e), \A e \in Epochs : GenerationsOK(e)',
         \A j \in Jobs : RowStep(j)
  PROVE  ActiveSyncHasJob'
<1> SUFFICES ASSUME NEW e \in Epochs, Active(e)'
             PROVE  row'[sub'[e].job].status \in Alive \/ Stranded(e)'
  BY DEF ActiveSyncHasJob, GenerationsOK, Alive
<1>a. PICK j \in Jobs : j = sub'[e].job
  BY DEF GenerationsOK
<1>0. Epoch(j) = e /\ Current(j)' /\ EpochStep(e) /\ RowStep(j) /\ GenerationsOK(e)
  <2>1. j = <<e, sub'[e].generation>>
    BY <1>a DEF GenerationsOK
  <2>2. Epoch(j) = e /\ j[2] = sub'[e].generation
    BY <2>1 DEF Epoch
  <2>3. Current(j)'
    BY <1>a, <2>1, <2>2 DEF Current
  <2>4. EpochStep(e) /\ RowStep(j)
    BY <1>a, <2>1, <2>2
  <2>5. GenerationsOK(e)
    BY DEF IInv, EpochOK
  <2> QED
    BY <2>1, <2>2, <2>3, <2>4, <2>5
<1>1. CASE Begins(e)
  <2>1. j[2] = sub[e].generation + 1 /\ sub[e].status # "deleted"
    BY <1>0, <1>1 DEF Begins, Current
  <2>2. sub[e].generation \in Nat
    BY DEF IInv, TypesOK, Subscription
  <2>3. j[2] > sub[e].generation
    BY <2>1, <2>2
  <2>4. row[j].status = "absent"
    BY <1>0, <2>1, <2>3 DEF GenerationsOK
  <2> QED
    BY <1>a, <1>0, <2>4 DEF RowStep, Alive
<1>2. CASE Rests(e) \/ IsClaimed(e) \/ Ingests(e)
  <2>1. Active(e) /\ j = sub[e].job
    BY <1>a, <1>2 DEF Rests, IsClaimed, Ingests, SameGeneration, Active
  <2>2. row[j].status \in Alive \/ Stranded(e)
    BY <2>1 DEF IInv, ActiveSyncHasJob, Alive
  <2>3. CASE row[j].status \in Alive
    BY <1>a, <1>0, <2>3 DEF RowStep, Stranded
  <2>4. CASE Stranded(e) /\ row[j].status \notin Alive
    <3>1. row[j].status = "dead" /\ row'[j].status \in {"dead", "pending"}
      BY <1>0, <2>1, <2>4 DEF Stranded, RowStep
    <3>2. ~IsClaimed(e)
      BY <2>1, <3>1 DEF IsClaimed, QP!Holds, QP!Owns
    <3>3. sub'[e].status = sub[e].status /\ sub'[e].attempt = sub[e].attempt
      BY <1>2, <3>2 DEF Rests, Ingests
    <3> QED
      BY <1>a, <2>1, <2>4, <3>1, <3>3 DEF Stranded, Alive
  <2> QED
    BY <2>2, <2>3, <2>4
<1>3. CASE Leaves(e) \/ Ends(e)
  BY <1>3 DEF Leaves, Ends, Active, Live, Ended
<1> QED
  BY <1>0, <1>1, <1>2, <1>3 DEF EpochStep

-----------------------------------------------------------------------------
(* What a step may do to a handler *)

\* Who neither claims the generation nor moves: what it knows is still so.
LEMMA Bystander ==
  ASSUME IInv, QP!TidyStep, \A e \in Epochs : EpochStep(e),
         NEW w \in Workers, worker'[w] = worker[w], exec'[w] = exec[w],
         ~At(w, "claim")
  PROVE  HandlerOK(w)'
<1> DEFINE j == worker[w].job
           e == Epoch(j)
<1>0. CASE worker[w].pc = "idle"
  BY <1>0 DEF HandlerOK, At
<1>1. CASE worker[w].pc # "idle"
  <2>1. /\ j \in Jobs /\ e \in Epochs /\ row[j].status # "absent" /\ HandlerOK(w)
        /\ EpochStep(e) /\ GenerationsOK(e)
    BY <1>1, AtJob DEF IInv, EpochOK
  <2>2. worker'[w].pc # "claimed" => (QP!Holds(w)' => QP!Holds(w))
    BY DEF QP!TidyStep, QP!NoneGains
  <2>3. Current(j)' => Current(j) \/ Begins(e)
    BY <2>1 DEF EpochStep, Current, Active, Rests, IsClaimed, Ingests, SameGeneration, Leaves,
                Ends, Live, Ended
  <2>4. ~Begins(e) \/ ~Current(j)'
    <3>1. sub[e].generation \in Nat
      BY <2>1 DEF IInv, TypesOK, Subscription
    <3>2. Begins(e) /\ Current(j)' => j[2] > sub[e].generation /\ sub[e].status # "deleted"
      BY <3>1 DEF Begins, Current
    <3> QED
      BY <2>1, <3>2 DEF GenerationsOK
  <2>5. Current(j)' => Current(j) /\ (Rests(e) \/ IsClaimed(e) \/ Ingests(e))
    BY <2>1, <2>3, <2>4 DEF EpochStep, Leaves, Ends, Current, Active, Live, Ended
  <2>6. feed[e] \in Nat /\ feed'[e] \in Nat /\ feed'[e] >= feed[e]
        /\ exec[w].cutoff \in Nat
    BY <2>1, PodcastAssumption DEF EpochStep, IInv, TypesOK, Executor
  <2>7. Current(j)' /\ sub[e].checkpoint.status # "none" => sub'[e].checkpoint.status # "none"
    BY <2>5 DEF Rests, IsClaimed, Ingests
  <2>8. IsClaimed(e) /\ Current(j) => ~QP!Holds(w)
    <3> SUFFICES ASSUME IsClaimed(e), Current(j), QP!Holds(w) PROVE FALSE
      OBVIOUS
    <3>1. PICK v \in Workers : At(v, "claim") /\ QP!Holds(v) /\ worker[v].job = sub[e].job
      BY DEF IsClaimed
    <3>2. worker[v].job = j
      BY <3>1 DEF Current
    <3> QED
      BY <3>1, <3>2 DEF QP!Holds, QP!Owns
  <2>9. Current(j)' /\ QP!Holds(w) => sub'[e].status = sub[e].status /\ sub'[e].attempt = sub[e].attempt
    BY <2>5, <2>8 DEF Rests, Ingests
  <2>10. At(w, "fetch")' => exec'[w].cutoff <= feed'[e]
    BY <2>1, <2>6 DEF HandlerOK, At
  <2> QED
    BY <2>1, <2>2, <2>5, <2>7, <2>9, <2>10 DEF HandlerOK, At
<1> QED
  BY <1>0, <1>1

-----------------------------------------------------------------------------
(* The steps, one by one *)

LEMMA SubTypes ==
  ASSUME IInv, NEW e \in Epochs
  PROVE  /\ sub[e] \in Subscription /\ sub[e].generation \in 0..3
         /\ sub[e].checkpoint \in Checkpoint /\ sub[e].watermark \in 0..MaxEpisodes
         /\ sub[e].attempt \in 0..MaxAttempts /\ sub[e].autoQueue \in BOOLEAN
         /\ feed[e] \in 0..MaxEpisodes /\ known[e] \in 0..MaxEpisodes
         /\ queued[e] \subseteq 1..MaxEpisodes /\ MaxEpisodes \in Nat
         /\ \A r \in Runs : item[r][e] \in Item
         /\ \A j \in Jobs : ingested[j] \in 0..MaxEpisodes
BY PodcastAssumption DEF IInv, TypesOK, Subscription

\* The live items of a generation that is current are the live items of its epoch.
LEMMA LiveItems ==
  ASSUME IInv, NEW j \in Jobs, Current(j), NEW r \in Runs, NEW e \in Epochs
  PROVE  LiveItemOf(r, e, j) <=> e = Epoch(j) /\ LiveItem(r, e)
<1>1. LiveItem(r, e) => item[r][e].generation = sub[e].generation
  BY DEF IInv, EpochOK, ItemOK
<1>2. j = <<Epoch(j), j[2]>> /\ sub[Epoch(j)].generation = j[2]
  BY JobParts DEF Current
<1> QED
  BY <1>1, <1>2 DEF LiveItemOf

LEMMA NothingDone ==
  ASSUME IInv, NEW e \in Epochs, sub'[e] = sub[e], SameItems(e), SameKnowledge(e),
         feed'[e] = feed[e]
  PROVE  EpochStep(e)
<1>1. Rests(e)
  BY DEF Rests, SameItems, ItemsComeAndGo, SameGeneration
<1> QED
  BY <1>1, SubTypes DEF EpochStep, SameItems, SameKnowledge, SameCounts

LEMMA NothingDoneAnywhere ==
  ASSUME IInv, UNCHANGED <<sub, item, known, queued, ingested, feed>>
  PROVE  \A e \in Epochs : EpochStep(e)
BY NothingDone DEF SameItems, SameKnowledge, SameCounts

\* The end of a generation, in whatever way.
LEMMA EndedItem ==
  ASSUME NEW i \in Item, NEW st \in Ended \cup {"Skipped", "Running"}
  PROVE  /\ [i EXCEPT !.status = st] \in Item
         /\ \A n \in 0..MaxEpisodes : [i EXCEPT !.status = st, !.count = n] \in Item
<1>1. st \in {"none", "Skipped"} \cup Live \cup Ended
  BY DEF Live
<1> QED
  BY <1>1 DEF Item

LEMMA EndStep ==
  ASSUME IInv, NEW j \in Jobs, Current(j), NEW st \in Ended, NEW n \in 0..MaxEpisodes,
         sub' = [sub EXCEPT ![Epoch(j)] =
           [@ EXCEPT !.status = st, !.job = NoJob, !.attempt = 0, !.checkpoint = NoCheckpoint,
                     !.watermark = n]],
         item' = ItemsFinished(j, st, sub[Epoch(j)].checkpoint.count),
         UNCHANGED <<feed, known, ingested>>,
         queued' = [queued EXCEPT ![Epoch(j)] = queued'[Epoch(j)]],
         queued[Epoch(j)] \subseteq queued'[Epoch(j)],
         queued'[Epoch(j)] \subseteq 1..MaxEpisodes,
         \A k \in 1..MaxEpisodes :
           k <= n => k <= sub[Epoch(j)].watermark \/ k \in queued'[Epoch(j)]
  PROVE  \A e \in Epochs : EpochStep(e)
<1> DEFINE E == Epoch(j)
<1>0. E \in Epochs /\ j = <<E, j[2]>> /\ sub \in [Epochs -> Subscription]
      /\ queued \in [Epochs -> SUBSET (1..MaxEpisodes)]
  BY JobParts DEF IInv, TypesOK
<1>1. \A r \in Runs, e \in Epochs :
        item'[r][e] = IF LiveItemOf(r, e, j)
                      THEN [item[r][e] EXCEPT !.status = st, !.count = sub[E].checkpoint.count]
                      ELSE item[r][e]
  BY DEF ItemsFinished
<1>2. ASSUME NEW e \in Epochs, e # E
      PROVE  EpochStep(e)
  <2>1. SameItems(e)
    BY <1>1, <1>2, LiveItems DEF SameItems
  <2>2. sub'[e] = sub[e] /\ queued'[e] = queued[e]
    BY <1>0, <1>2
  <2> QED
    BY <2>1, <2>2, NothingDone DEF SameKnowledge, SameCounts
<1>3. EpochStep(E)
  <2>1. /\ sub'[E] \in Subscription /\ sub'[E].status = st
        /\ sub'[E].generation = sub[E].generation /\ sub'[E].checkpoint = NoCheckpoint
        /\ sub'[E].watermark = n
    <3>1. sub'[E] = [sub[E] EXCEPT !.status = st, !.job = NoJob, !.attempt = 0,
                       !.checkpoint = NoCheckpoint, !.watermark = n]
      BY <1>0
    <3>2. sub[E] \in Subscription
      BY <1>0
    <3>3. NoCheckpoint \in Checkpoint /\ 0 \in 0..MaxAttempts
      BY PodcastAssumption DEF NoCheckpoint, Checkpoint
    <3>4. st \in {"absent", "deleted"} \cup Live \cup Ended /\ NoJob \in Jobs \cup {NoJob}
      OBVIOUS
    <3>5. \A s \in Subscription :
            LET t == [s EXCEPT !.status = st, !.job = NoJob, !.attempt = 0,
                               !.checkpoint = NoCheckpoint, !.watermark = n]
            IN  /\ t \in Subscription /\ t.status = st /\ t.generation = s.generation
                /\ t.checkpoint = NoCheckpoint /\ t.watermark = n
      BY <3>3, <3>4 DEF Subscription
    <3> HIDE DEF E
    <3> QED
      BY <3>1, <3>2, <3>5
  <2>2. \A r \in Runs : item'[r][E] \in Item
    <3>1. sub[E].checkpoint.count \in 0..MaxEpisodes
      BY <1>0, SubTypes DEF Checkpoint
    <3>2. \A i \in Item, k \in 0..MaxEpisodes : [i EXCEPT !.status = st, !.count = k] \in Item
      BY EndedItem
    <3>3. \A r \in Runs : item[r][E] \in Item
      BY <1>0, SubTypes
    <3>4. E \in Epochs
      BY <1>0
    <3>5. ASSUME NEW r \in Runs
          PROVE  item'[r][E] \in Item
      <4>1. \/ item'[r][E] = item[r][E]
            \/ item'[r][E] = [item[r][E] EXCEPT !.status = st, !.count = sub[E].checkpoint.count]
        BY <1>1, <3>4
      <4>2. item[r][E] \in Item
        BY <3>3
      <4>3. [item[r][E] EXCEPT !.status = st, !.count = sub[E].checkpoint.count] \in Item
        BY <3>1, <3>2, <4>2
      <4> QED
        BY <4>1, <4>2, <4>3
    <3> QED
      BY <3>5
  <2>3. LiveItemsBecome(E, Ended, {sub[E].checkpoint.count})
    <3>1. \A r \in Runs : item[r][E] \in Item
      BY <1>0, SubTypes
    <3>2. \A r \in Runs : LiveItemOf(r, E, j) <=> LiveItem(r, E)
      BY <1>0, LiveItems
    <3> QED
      BY <1>0, <1>1, <3>1, <3>2 DEF LiveItemsBecome, Item
  <2>4. Ends(E)
    BY <1>0, <2>1, <2>3 DEF Ends, SameCounts, Current
  <2> QED
    BY <1>0, <2>1, <2>2, <2>4, SubTypes DEF EpochStep
<1> QED
  BY <1>2, <1>3

LEMMA EndFailedStep ==
  ASSUME IInv, NEW j \in Jobs, Current(j), EndFailed(j),
         UNCHANGED <<feed, known, queued, ingested>>
  PROVE  \A e \in Epochs : EpochStep(e)
<1> DEFINE E == Epoch(j)
<1>1. E \in Epochs /\ sub[E] \in Subscription /\ sub \in [Epochs -> Subscription]
      /\ queued \in [Epochs -> SUBSET (1..MaxEpisodes)]
  BY JobParts DEF IInv, TypesOK
<1>2. sub[E].watermark \in 0..MaxEpisodes /\ queued[E] \subseteq 1..MaxEpisodes
  BY <1>1, SubTypes
<1>3. sub' = [sub EXCEPT ![E] =
        [@ EXCEPT !.status = "Failed", !.job = NoJob, !.attempt = 0, !.checkpoint = NoCheckpoint,
                  !.watermark = sub[E].watermark]]
  BY <1>1 DEF EndFailed, EndSubscription, Subscription
<1>4. item' = ItemsFinished(j, "Failed", sub[E].checkpoint.count)
  BY DEF EndFailed, Touch, FailureCount
<1>5. queued' = [queued EXCEPT ![E] = queued'[E]] /\ "Failed" \in Ended
  BY <1>1 DEF Ended
<1> QED
  BY <1>1, <1>2, <1>3, <1>4, <1>5, EndStep

LEMMA FinalizeStep ==
  ASSUME IInv, NEW w \in Workers, Finalize(w)
  PROVE  \A e \in Epochs : EpochStep(e)
<1> DEFINE j == worker[w].job
           E == Epoch(j)
<1>0. worker[w].pc # "idle" /\ j \in Jobs /\ E \in Epochs
  BY AtJob DEF Finalize, At
<1>1. CASE ~Fenced(w)
  BY <1>1, NothingDoneAnywhere DEF Finalize
<1>2. CASE Fenced(w)
  <2> DEFINE limit == sub[E].checkpoint.cutoff
             advance == sub[E].autoQueue /\ sub[E].watermark < limit
             n == IF advance THEN limit ELSE sub[E].watermark
             st == sub[E].checkpoint.status
  <2>1. /\ Current(j) /\ sub[E] \in Subscription /\ sub[E].checkpoint \in Checkpoint
        /\ sub[E].watermark \in 0..MaxEpisodes /\ MaxEpisodes \in Nat
        /\ queued[E] \subseteq 1..MaxEpisodes /\ known[E] \in 0..MaxEpisodes
    BY <1>0, <1>2, SubTypes DEF Fenced
  <2>2. limit \in 0..MaxEpisodes /\ limit <= known[E] /\ n \in 0..MaxEpisodes
    <3>1. limit <= known[E]
      BY <1>0 DEF IInv, EpochOK, CheckpointOK
    <3> QED
      BY <2>1, <3>1 DEF Checkpoint
  <2>3. st \in Ended
    <3>1. st # "none"
      BY <2>1 DEF IInv, HandlerOK, Finalize
    <3> QED
      BY <2>1, <3>1 DEF Checkpoint, Ended
  <2>4. sub' = [sub EXCEPT ![E] =
          [@ EXCEPT !.status = st, !.job = NoJob, !.attempt = 0, !.checkpoint = NoCheckpoint,
                    !.watermark = n]]
    <3>1. sub \in [Epochs -> Subscription]
      BY DEF IInv, TypesOK
    <3>2. sub' = IF advance THEN [EndSubscription(j, st) EXCEPT ![E].watermark = limit]
                 ELSE EndSubscription(j, st)
      BY <1>2 DEF Finalize, Cutoff
    <3> QED
      BY <1>0, <2>1, <3>1, <3>2 DEF EndSubscription, Subscription
  <2>5. item' = ItemsFinished(j, st, sub[E].checkpoint.count)
        /\ UNCHANGED <<feed, known, ingested>>
    BY <1>2 DEF Finalize, Touch
  <2>6. /\ queued' = [queued EXCEPT ![E] = queued'[E]]
        /\ queued'[E] = IF advance
                        THEN queued[E] \cup {k \in 1..known[E] : sub[E].watermark < k /\ k <= limit}
                        ELSE queued[E]
    <3>1. queued \in [Epochs -> SUBSET (1..MaxEpisodes)]
      BY DEF IInv, TypesOK
    <3>2. queued' = IF advance
                    THEN [queued EXCEPT ![E] = @ \cup
                            {k \in 1..known[E] : sub[E].watermark < k /\ k <= limit}]
                    ELSE queued
      BY <1>2 DEF Finalize, Cutoff
    <3> QED
      BY <1>0, <3>1, <3>2
  <2>7. queued[E] \subseteq queued'[E] /\ queued'[E] \subseteq 1..MaxEpisodes
    BY <2>1, <2>6
  <2>8. \A k \in 1..MaxEpisodes : k <= n => k <= sub[E].watermark \/ k \in queued'[E]
    BY <2>1, <2>2, <2>6
  <2> HIDE DEF n, st, E, j
  <2> QED
    BY <1>0, <2>1, <2>2, <2>3, <2>4, <2>5, <2>6, <2>7, <2>8, EndStep DEF E
<1> QED
  BY <1>1, <1>2

\* The claim of a generation.
LEMMA ClaimStep ==
  ASSUME IInv, NEW w \in Workers, ClaimSync(w)
  PROVE  \A e \in Epochs : EpochStep(e)
<1> DEFINE j == worker[w].job
           E == Epoch(j)
<1>0. /\ worker[w].pc # "idle" /\ j \in Jobs /\ E \in Epochs /\ At(w, "claim")
      /\ QP!Holds(w) <=> Queue!ClaimIsCurrent(w)
  BY AtJob DEF ClaimSync, At
<1>1. CASE ~(Queue!ClaimIsCurrent(w) /\ Current(j))
  BY <1>1, NothingDoneAnywhere DEF ClaimSync
<1>2. CASE Queue!ClaimIsCurrent(w) /\ Current(j)
  <2>1. /\ sub' = [sub EXCEPT ![E].status = "Running", ![E].attempt = worker[w].attempt]
        /\ item' = ItemsRunning(j) /\ UNCHANGED <<feed, known, queued, ingested>>
    BY <1>2 DEF ClaimSync, Touch
  <2>2. \A r \in Runs, e \in Epochs :
          item'[r][e] = IF e = E /\ LiveItem(r, e)
                        THEN [item[r][e] EXCEPT !.status = "Running"] ELSE item[r][e]
    BY <1>0, <1>2, <2>1, LiveItems DEF ItemsRunning
  <2>3. sub \in [Epochs -> Subscription]
    BY DEF IInv, TypesOK
  <2>4. ASSUME NEW e \in Epochs, e # E
        PROVE  EpochStep(e)
    <3>1. SameItems(e)
      BY <2>2, <2>4 DEF SameItems
    <3>2. sub'[e] = sub[e]
      BY <2>1, <2>3, <2>4
    <3> QED
      BY <2>1, <3>1, <3>2, NothingDone DEF SameKnowledge, SameCounts
  <2>5. EpochStep(E)
    <3>1. worker[w].attempt \in 0..MaxAttempts
      <4>1. row[j].attempts = worker[w].attempt /\ row[j].attempts <= MaxAttempts
        BY <1>0, <1>2 DEF IInv, QP!Tidy, Queue!ClaimIsCurrent, Queue!Owns
      <4>2. worker[w].attempt \in Nat
        BY DEF IInv, QP!Tidy, QP!Worker
      <4> QED
        BY <4>1, <4>2, PodcastAssumption
    <3>2. /\ sub'[E] = [sub[E] EXCEPT !.status = "Running", !.attempt = worker[w].attempt]
          /\ sub[E] \in Subscription
      BY <1>0, <2>1, <2>3
    <3>3. /\ sub'[E] \in Subscription /\ sub'[E].status = "Running"
          /\ sub'[E].attempt = worker[w].attempt /\ SameGeneration(E)
          /\ sub'[E].checkpoint = sub[E].checkpoint
      BY <3>1, <3>2 DEF Subscription, SameGeneration, Live
    <3>4. \A r \in Runs : item[r][E] \in Item
      BY <1>0, SubTypes
    <3>5. \A r \in Runs : item'[r][E] \in Item
      <4>1. \A i \in Item : [i EXCEPT !.status = "Running"] \in Item
        BY EndedItem
      <4> QED
        BY <1>0, <2>2, <3>4, <4>1
    <3>6. LiveItemsBecome(E, {"Running"}, 0..MaxEpisodes)
      BY <1>0, <2>2, <3>4 DEF LiveItemsBecome, Item
    <3>7. Active(E) /\ j = sub[E].job
      BY <1>2 DEF Current
    <3>8. IsClaimed(E)
      BY <1>0, <1>2, <2>1, <3>3, <3>6, <3>7 DEF IsClaimed, SameKnowledge, SameCounts
    <3> QED
      BY <1>0, <2>1, <3>3, <3>5, <3>8, SubTypes DEF EpochStep
  <2> QED
    BY <2>4, <2>5
<1> QED
  BY <1>1, <1>2

LEMMA FoundIsKnown ==
  ASSUME NEW k \in Nat, NEW seen \in Nat, NEW m \in Nat, NEW c \in Nat,
         k <= m, seen <= m, c <= seen
  PROVE  LET found == (IF seen > k THEN seen ELSE k) - k
         IN  found \in 0..m /\ k + found \in 0..m /\ k + found >= k /\ c <= k + found
<1>1. CASE seen > k
  BY <1>1
<1>2. CASE ~(seen > k)
  BY <1>2
<1> QED
  BY <1>1, <1>2

LEMMA IngestStep ==
  ASSUME IInv, NEW w \in Workers, Ingest(w)
  PROVE  \A e \in Epochs : EpochStep(e)
<1> DEFINE j == worker[w].job
           E == Epoch(j)
           found == Merged(w) - known[E]
<1>0. worker[w].pc # "idle" /\ j \in Jobs /\ E \in Epochs /\ At(w, "ingest")
  BY AtJob DEF Ingest, At
<1>1. CASE ~Fenced(w) \/ sub[E].checkpoint # NoCheckpoint
  <2>1. UNCHANGED <<sub, item, known, queued, ingested, feed>>
    BY <1>1 DEF Ingest
  <2> QED
    BY <2>1, NothingDoneAnywhere
<1>2. CASE Fenced(w) /\ sub[E].checkpoint = NoCheckpoint
  <2>1. /\ known' = [known EXCEPT ![E] = @ + found]
        /\ ingested' = [ingested EXCEPT ![j] = @ + found]
        /\ UNCHANGED <<feed, queued, item>>
    BY <1>2 DEF Ingest
  <2>2. PICK status \in {"Complete", "SourceLimited"} :
          sub' = [sub EXCEPT ![E].checkpoint =
            [status |-> status, cutoff |-> exec[w].cutoff, count |-> found]]
    BY <1>2 DEF Ingest
  <2>3. /\ sub \in [Epochs -> Subscription] /\ known \in [Epochs -> 0..MaxEpisodes]
        /\ ingested \in [Jobs -> 0..MaxEpisodes]
        /\ exec[w].snapshot \in 0..MaxEpisodes /\ exec[w].cutoff \in 0..MaxEpisodes
    BY DEF IInv, TypesOK, Executor
  <2>4. /\ found \in 0..MaxEpisodes /\ known[E] + found \in 0..MaxEpisodes
        /\ known[E] + found >= known[E] /\ exec[w].cutoff <= known[E] + found
    <3>1. exec[w].cutoff <= exec[w].snapshot
      BY <1>0 DEF IInv, HandlerOK
    <3>2. found = (IF exec[w].snapshot > known[E] THEN exec[w].snapshot ELSE known[E]) - known[E]
      BY DEF Merged
    <3>3. /\ known[E] \in Nat /\ known[E] <= MaxEpisodes /\ exec[w].snapshot \in Nat
          /\ exec[w].snapshot <= MaxEpisodes /\ MaxEpisodes \in Nat /\ exec[w].cutoff \in Nat
      BY <1>0, <2>3, PodcastAssumption
    <3> DEFINE f == (IF exec[w].snapshot > known[E] THEN exec[w].snapshot ELSE known[E]) - known[E]
    <3>4. /\ f \in 0..MaxEpisodes /\ known[E] + f \in 0..MaxEpisodes
          /\ known[E] + f >= known[E] /\ exec[w].cutoff <= known[E] + f
      <4> HIDE DEF E
      <4> QED
        BY <3>1, <3>3, FoundIsKnown
    <3> HIDE DEF found, f, E
    <3>5. found = f
      BY <3>2 DEF f
    <3> QED
      BY <3>4, <3>5
  <2>5. Current(j) /\ j = sub[E].job /\ Active(E)
    BY <1>2 DEF Fenced, Current
  <2>6. ingested[j] = 0
    <3>1. sub[E].checkpoint.count = ingested[sub[E].job]
      BY <1>0, <2>5 DEF IInv, EpochOK, GenerationsOK
    <3> QED
      BY <1>2, <2>5, <3>1 DEF NoCheckpoint
  <2>7. ASSUME NEW e \in Epochs, e # E
        PROVE  EpochStep(e)
    <3>1. sub'[e] = sub[e] /\ known'[e] = known[e]
      BY <2>1, <2>2, <2>3, <2>7
    <3>2. \A i \in Jobs : Epoch(i) = e => ingested'[i] = ingested[i]
      BY <2>1, <2>3, <2>7
    <3> QED
      BY <2>1, <3>1, <3>2, NothingDone DEF SameKnowledge, SameCounts, SameItems
  <2>8. EpochStep(E)
    <3> DEFINE cp == [status |-> status, cutoff |-> exec[w].cutoff, count |-> found]
    <3>1. cp \in Checkpoint
      <4> HIDE DEF found
      <4> QED
        BY <2>3, <2>4 DEF Checkpoint
    <3>2. cp.status # "none" /\ cp.cutoff = exec[w].cutoff /\ cp.count = found
      OBVIOUS
    <3>3. sub'[E] = [sub[E] EXCEPT !.checkpoint = cp] /\ sub[E] \in Subscription
      BY <1>0, <2>2, <2>3
    <3>4. /\ sub'[E] \in Subscription /\ sub'[E].checkpoint = cp /\ SameGeneration(E)
          /\ sub'[E].status = sub[E].status /\ sub'[E].attempt = sub[E].attempt
      <4> HIDE DEF cp
      <4> QED
        BY <3>1, <3>3 DEF Subscription, SameGeneration
    <3>5. known'[E] = known[E] + found /\ queued'[E] = queued[E] /\ feed'[E] = feed[E]
      BY <1>0, <2>1, <2>3
    <3>6. ingested'[j] = found /\ \A i \in Jobs : i # j => ingested'[i] = ingested[i]
      <4>1. ingested'[j] = 0 + found /\ \A i \in Jobs : i # j => ingested'[i] = ingested[i]
        BY <1>0, <2>1, <2>3, <2>6
      <4> HIDE DEF found
      <4> QED
        BY <2>4, <4>1
    <3> HIDE DEF found, cp
    <3>7. Ingests(E)
      BY <2>1, <2>4, <2>5, <3>2, <3>4, <3>5, <3>6 DEF Ingests, SameItems
    <3>8. \A i \in Jobs : ingested'[i] \in 0..MaxEpisodes
      BY <2>3, <2>4, <3>6
    <3> QED
      BY <1>0, <2>1, <2>4, <3>4, <3>5, <3>7, <3>8, SubTypes DEF EpochStep
  <2> QED
    BY <2>7, <2>8
<1> QED
  BY <1>1, <1>2

\* The small requests.
LEMMA SubscribeStep ==
  ASSUME IInv, NEW e \in Epochs, Subscribe(e)
  PROVE  /\ \A n \in Epochs : EpochStep(n)
         /\ \A j \in Jobs : RowStep(j)
<1>0. /\ sub \in [Epochs -> Subscription] /\ sub[e] = Absent /\ <<e, 1>> \in Jobs
      /\ MaxAttempts \in Nat \ {0} /\ MaxEpisodes \in Nat
  <2>1. sub \in [Epochs -> Subscription] /\ sub[e] = Absent
    <3>1. GenerationsOK(e) /\ sub \in [Epochs -> Subscription]
      BY DEF IInv, TypesOK, EpochOK
    <3>2. sub[e].status = "absent"
      BY DEF Subscribe
    <3> QED
      BY <3>1, <3>2 DEF GenerationsOK
  <2>2. MaxGeneration[e] \in 1..3
    BY PodcastAssumption
  <2>3. <<e, 1>> \in Jobs
    <3>1. 1 \in 1..3 /\ 1 <= MaxGeneration[e]
      BY <2>2
    <3> QED
      BY <3>1, JobParts
  <2> QED
    BY <2>1, <2>3, PodcastAssumption
<1>1. ASSUME NEW n \in Epochs, n # e
      PROVE  EpochStep(n)
  <2>1. sub'[n] = sub[n]
    BY <1>0, <1>1 DEF Subscribe
  <2> QED
    BY <1>1, <2>1, NothingDone DEF Subscribe, SameItems, SameKnowledge, SameCounts
<1>2. sub'[e] = [Absent EXCEPT !.status = "Pending", !.generation = 1, !.job = <<e, 1>>]
  BY <1>0 DEF Subscribe
<1>3. EpochStep(e)
  <2>1. NoCheckpoint \in Checkpoint
    BY <1>0 DEF NoCheckpoint, Checkpoint
  <2>2. /\ sub'[e] \in Subscription /\ sub'[e].status = "Pending" /\ sub'[e].generation = 1
        /\ sub'[e].job = <<e, 1>> /\ sub'[e].checkpoint = NoCheckpoint
        /\ sub'[e].watermark = 0
    <3>1. sub'[e] = [status |-> "Pending", generation |-> 1, job |-> <<e, 1>>, attempt |-> 0,
                     checkpoint |-> NoCheckpoint, autoQueue |-> FALSE, watermark |-> 0]
      BY <1>2 DEF Absent
    <3> QED
      BY <1>0, <2>1, <3>1 DEF Subscription, Live
  <2>3. sub[e].status = "absent" /\ sub[e].generation = 0 /\ sub[e].watermark = 0
    BY <1>0 DEF Absent
  <2>4. Begins(e)
    BY <1>0, <2>2, <2>3
       DEF Begins, Subscribe, SameKnowledge, SameCounts, ItemsComeAndGo, Active, Live
  <2> QED
    BY <2>2, <2>4, SubTypes DEF EpochStep, Subscribe
<1>4. \A j \in Jobs : RowStep(j)
  <2>1. row' = [row EXCEPT ![<<e, 1>>] = Queue!Fresh("pending", 0)]
        /\ row[<<e, 1>>].status = "absent"
    BY DEF Subscribe, Queue!Enqueue
  <2>2. row \in [Jobs -> QP!Row] /\ Queue!Fresh("pending", 0).status = "pending"
    BY DEF IInv, QP!Tidy, Queue!Fresh, Queue!Unclaimed
  <2>3. Current(<<e, 1>>)'
    BY <1>0, <1>2 DEF Current, Active, Epoch, Live, Absent
  <2>4. ASSUME NEW j \in Jobs, j # <<e, 1>>
        PROVE  row'[j] = row[j] /\ (row[j].status = "absent" => ~Current(j)')
    <3>1. row'[j] = row[j]
      BY <2>1, <2>2, <2>4
    <3>2. CASE Epoch(j) = e
      BY <1>2, <2>4, <3>1, <3>2 DEF Current, Absent
    <3>3. CASE Epoch(j) # e
      <4>1. sub'[Epoch(j)] = sub[Epoch(j)] /\ Epoch(j) \in Epochs
        BY <1>0, <3>3, JobParts DEF Subscribe
      <4>2. Current(j)' => Current(j)
        BY <4>1 DEF Current, Active
      <4>3. Current(j) => row[j].status # "absent"
        BY <4>1 DEF IInv, ActiveSyncHasJob, Stranded, Current
      <4> QED
        BY <3>1, <4>2, <4>3
    <3> QED
      BY <3>1, <3>2, <3>3
  <2>5. \A j \in Jobs : j # <<e, 1>> => row[j].status = "absent" \/ row[j].status # "absent"
    OBVIOUS
  <2> QED
    BY <1>0, <2>1, <2>2, <2>3, <2>4 DEF RowStep, Alive
<1> QED
  BY <1>1, <1>3, <1>4

\* A row that stays as it was suits a generation that goes on or ends.
LEMMA RowKept ==
  ASSUME IInv, NEW j \in Jobs, row'[j].status = row[j].status, Current(j)' => Current(j)
  PROVE  RowStep(j)
<1>1. Current(j) => row[j].status # "absent"
  BY JobParts DEF IInv, ActiveSyncHasJob, Stranded, Current
<1> QED
  BY <1>1 DEF RowStep, Alive

LEMMA CurrentGoesOn ==
  ASSUME IInv, NEW j \in Jobs, EpochStep(Epoch(j)), Active(Epoch(j))' => Active(Epoch(j))
  PROVE  Current(j)' => Current(j)
BY JobParts DEF EpochStep, Current, Active, Rests, Begins, IsClaimed, Ingests, Leaves, Ends,
   SameGeneration, Live, Ended

LEMMA RowsKept ==
  ASSUME IInv, \A e \in Epochs : EpochStep(e), \A e \in Epochs : Active(e)' => Active(e),
         \A j \in Jobs : row'[j].status = row[j].status
  PROVE  \A j \in Jobs : RowStep(j)
<1> SUFFICES ASSUME NEW j \in Jobs PROVE RowStep(j)
  OBVIOUS
<1>1. Epoch(j) \in Epochs
  BY JobParts
<1>2. Current(j)' => Current(j)
  BY <1>1, CurrentGoesOn
<1> QED
  BY <1>2, RowKept

LEMMA UnsubscribeStep ==
  ASSUME IInv, NEW e \in Epochs, Unsubscribe(e)
  PROVE  \A n \in Epochs : EpochStep(n) /\ (Active(n)' => Active(n))
<1>0. /\ sub' = [sub EXCEPT ![e] = [Absent EXCEPT !.status = "deleted"]]
      /\ item' = Skipped(e) /\ UNCHANGED <<feed, known, queued, ingested>>
      /\ sub \in [Epochs -> Subscription] /\ item \in [Runs -> [Epochs -> Item]]
  BY DEF Unsubscribe, Touch, IInv, TypesOK
<1>1. \A r \in Runs, n \in Epochs :
        item'[r][n] = IF n = e /\ LiveItem(r, e)
                      THEN [item[r][n] EXCEPT !.status = "Skipped"] ELSE item[r][n]
  BY <1>0 DEF Skipped
<1>2. ASSUME NEW n \in Epochs, n # e
      PROVE  EpochStep(n) /\ (Active(n)' => Active(n))
  <2>1. SameItems(n) /\ sub'[n] = sub[n]
    BY <1>0, <1>1, <1>2 DEF SameItems
  <2> QED
    BY <1>0, <2>1, NothingDone DEF SameKnowledge, SameCounts, Active
<1>3. EpochStep(e) /\ ~Active(e)'
  <2>1. sub'[e] = [status |-> "deleted", generation |-> 0, job |-> NoJob, attempt |-> 0,
                   checkpoint |-> NoCheckpoint, autoQueue |-> FALSE, watermark |-> 0]
    BY <1>0 DEF Absent
  <2>2. NoCheckpoint \in Checkpoint /\ 0 \in 0..MaxAttempts /\ 0 \in 0..MaxEpisodes
    BY PodcastAssumption DEF NoCheckpoint, Checkpoint
  <2>3. /\ sub'[e] \in Subscription /\ sub'[e].status = "deleted"
        /\ sub'[e].checkpoint = NoCheckpoint /\ sub'[e].watermark = 0
    BY <2>1, <2>2 DEF Subscription
  <2>4. \A i \in Item : [i EXCEPT !.status = "Skipped"] \in Item
    BY EndedItem
  <2>5. \A r \in Runs : item[r][e] \in Item
    BY SubTypes
  <2>6. \A r \in Runs : item'[r][e] \in Item
    BY <1>1, <2>4, <2>5
  <2>7. LiveItemsBecome(e, {"Skipped"}, 0..MaxEpisodes)
    BY <1>1, <2>5 DEF LiveItemsBecome, Item
  <2>8. Leaves(e)
    BY <1>0, <2>3, <2>7 DEF Leaves, SameKnowledge, SameCounts
  <2>9. ~Active(e)'
    BY <2>3 DEF Active, Live
  <2> QED
    BY <1>0, <2>3, <2>6, <2>8, <2>9, SubTypes DEF EpochStep
<1> QED
  BY <1>2, <1>3

LEMMA ToggleStep ==
  ASSUME IInv, NEW e \in Epochs, ToggleAutoQueue(e)
  PROVE  \A n \in Epochs : EpochStep(n) /\ (Active(n)' => Active(n))
<1>0. /\ sub' = [sub EXCEPT ![e].autoQueue = ~@] /\ sub[e].status \in Live \cup Ended
      /\ UNCHANGED <<item, feed, known, queued, ingested>>
      /\ sub \in [Epochs -> Subscription]
  BY DEF ToggleAutoQueue, IInv, TypesOK
<1>1. ASSUME NEW n \in Epochs, n # e
      PROVE  EpochStep(n) /\ (Active(n)' => Active(n))
  <2>1. sub'[n] = sub[n]
    BY <1>0, <1>1
  <2> QED
    BY <1>0, <2>1, NothingDone DEF SameKnowledge, SameCounts, SameItems, Active
<1>2. EpochStep(e) /\ (Active(e)' => Active(e))
  <2>1. sub'[e] = [sub[e] EXCEPT !.autoQueue = ~sub[e].autoQueue] /\ sub[e] \in Subscription
    BY <1>0
  <2>2. /\ sub'[e] \in Subscription /\ sub'[e].status = sub[e].status
        /\ sub'[e].attempt = sub[e].attempt /\ sub'[e].checkpoint = sub[e].checkpoint
        /\ SameGeneration(e)
    BY <2>1 DEF Subscription, SameGeneration
  <2>3. sub[e].status # "absent"
    BY <1>0 DEF Live, Ended
  <2>4. Rests(e)
    BY <1>0, <2>2, <2>3 DEF Rests, SameKnowledge, SameCounts, ItemsComeAndGo
  <2> QED
    BY <1>0, <2>2, <2>4, SubTypes DEF EpochStep, Active
<1> QED
  BY <1>1, <1>2

LEMMA PublishStep ==
  ASSUME IInv, NEW e \in Epochs, PublishEpisode(e)
  PROVE  \A n \in Epochs : EpochStep(n) /\ (Active(n)' => Active(n))
<1> SUFFICES ASSUME NEW n \in Epochs PROVE EpochStep(n) /\ (Active(n)' => Active(n))
  OBVIOUS
<1>1. /\ UNCHANGED <<known, queued, sub, item, ingested>>
      /\ feed' = [feed EXCEPT ![e] = @ + 1] /\ feed[e] < MaxEpisodes
      /\ feed \in [Epochs -> 0..MaxEpisodes] /\ MaxEpisodes \in Nat
  BY PodcastAssumption DEF PublishEpisode, IInv, TypesOK
<1>2. feed'[n] \in 0..MaxEpisodes /\ feed'[n] >= feed[n]
  BY <1>1
<1>3. Rests(n)
  BY <1>1 DEF Rests, SameKnowledge, SameCounts, ItemsComeAndGo, SameGeneration
<1> QED
  BY <1>1, <1>2, <1>3, SubTypes DEF EpochStep, Active

LEMMA PruneStep ==
  ASSUME IInv, NEW r \in Runs, PruneRun(r)
  PROVE  \A n \in Epochs : EpochStep(n) /\ (Active(n)' => Active(n))
<1> SUFFICES ASSUME NEW n \in Epochs PROVE EpochStep(n) /\ (Active(n)' => Active(n))
  OBVIOUS
<1>1. /\ UNCHANGED <<known, queued, sub, feed, ingested>>
      /\ item' = [item EXCEPT ![r] = [e \in Epochs |-> NoItem]]
      /\ item \in [Runs -> [Epochs -> Item]]
  BY DEF PruneRun, IInv, TypesOK
<1>2. \A q \in Runs : item'[q][n] = item[q][n] \/ item'[q][n] = NoItem
  BY <1>1
<1>3. NoItem \in Item
  BY PodcastAssumption DEF NoItem, Item
<1>4. Rests(n)
  BY <1>1, <1>2 DEF Rests, SameKnowledge, SameCounts, ItemsComeAndGo, SameGeneration
<1> QED
  BY <1>1, <1>2, <1>3, <1>4, SubTypes DEF EpochStep, Active

\* Admission: what is idle begins, the rest is joined.
LEMMA AdmitStep ==
  ASSUME IInv, NEW r \in Runs, NEW S \in SUBSET {e \in Epochs : sub[e].status \in Live \cup Ended},
         NEW interactive \in BOOLEAN, Admit(r, S, interactive)
  PROVE  /\ \A e \in Epochs : EpochStep(e)
         /\ \A j \in Jobs : RowStep(j)
<1> DEFINE new == {n \in S : ~Active(n)}
           promoted == {sub[e].job : e \in IF interactive THEN S \ new ELSE {}}
           jobs == {AdmittedSub(S)[e].job : e \in new}
<1>0. /\ UNCHANGED <<feed, known, queued, ingested>>
      /\ sub' = AdmittedSub(S)
      /\ \A e \in new : sub[e].generation < MaxGeneration[e]
  BY DEF Admit, AdmittedSub
<1>1. \A e \in Epochs :
        sub'[e] = IF e \in new
                  THEN [sub[e] EXCEPT !.status = "Pending", !.generation = @ + 1, !.attempt = 0,
                          !.job = <<e, sub[e].generation + 1>>, !.checkpoint = NoCheckpoint]
                  ELSE sub[e]
  BY <1>0 DEF AdmittedSub
<1>2. item' = [item EXCEPT ![r] = [e \in Epochs |->
        IF e \in S
        THEN [status |-> Admitted(AdmittedSub(S), e),
              generation |-> AdmittedSub(S)[e].generation, count |-> 0]
        ELSE NoItem]]
  BY DEF Admit, AdmittedSub
<1>3. \A q \in Runs, e \in Epochs :
        \/ item'[q][e] = item[q][e]
        \/ item'[q][e] = NoItem
        \/ /\ e \in S
           /\ item'[q][e] = [status |-> sub'[e].status, generation |-> sub'[e].generation,
                             count |-> 0]
  <2>1. item \in [Runs -> [Epochs -> Item]]
    BY DEF IInv, TypesOK
  <2> QED
    BY <1>0, <1>2, <2>1 DEF Admitted
<1>4. ASSUME NEW e \in new
      PROVE  /\ Begins(e) /\ sub'[e] \in Subscription /\ Active(e)'
             /\ Epoch(sub'[e].job) = e /\ row[sub'[e].job].status = "absent"
             /\ sub'[e].job \in Jobs
  <2>0. e \in Epochs /\ e \in S /\ ~Active(e) /\ sub[e].status \in Ended
    BY DEF Active
  <2>1. /\ sub[e] \in Subscription /\ sub[e].generation \in 0..3 /\ MaxGeneration[e] \in 1..3
        /\ sub[e].generation < MaxGeneration[e]
    BY <1>0, <2>0, SubTypes, PodcastAssumption
  <2>2. sub[e].generation + 1 \in 1..3 /\ sub[e].generation + 1 <= MaxGeneration[e]
        /\ sub[e].generation + 1 > sub[e].generation /\ sub[e].generation + 1 \in 0..3
    BY <2>1
  <2>3. <<e, sub[e].generation + 1>> \in Jobs /\ Epoch(<<e, sub[e].generation + 1>>) = e
    BY <2>0, <2>2, JobParts
  <2>4. NoCheckpoint \in Checkpoint /\ 0 \in 0..MaxAttempts
    BY PodcastAssumption DEF NoCheckpoint, Checkpoint
  <2>5. /\ sub'[e] \in Subscription /\ sub'[e].status = "Pending"
        /\ sub'[e].generation = sub[e].generation + 1
        /\ sub'[e].job = <<e, sub[e].generation + 1>>
        /\ sub'[e].checkpoint = NoCheckpoint /\ sub'[e].watermark = sub[e].watermark
    BY <1>1, <2>0, <2>1, <2>2, <2>3, <2>4 DEF Subscription, Live
  <2>6. Active(e)'
    BY <2>5 DEF Active, Live
  <2>7. Begins(e)
    BY <1>0, <1>3, <2>0, <2>3, <2>5, <2>6
       DEF Begins, SameKnowledge, SameCounts, ItemsComeAndGo, Ended
  <2>8. row[<<e, sub[e].generation + 1>>].status = "absent"
    <3>1. GenerationsOK(e) /\ sub[e].status # "deleted"
      BY <2>0 DEF IInv, EpochOK, Ended
    <3> QED
      BY <2>2, <2>3, <3>1 DEF GenerationsOK
  <2> QED
    BY <2>3, <2>5, <2>6, <2>7, <2>8 DEF Current, Active
<1>5. ASSUME NEW e \in Epochs, e \notin new
      PROVE  Rests(e) /\ sub'[e] = sub[e] /\ (e \in S => Active(e)')
  <2>1. sub'[e] = sub[e]
    BY <1>1, <1>5
  <2>2. e \in S => Active(e)'
    BY <1>5, <2>1 DEF Active
  <2>3. ItemsComeAndGo(e)
    BY <1>3, <2>2 DEF ItemsComeAndGo
  <2> QED
    BY <1>0, <2>1, <2>2, <2>3 DEF Rests, SameKnowledge, SameCounts, SameGeneration
<1>6. ASSUME NEW e \in Epochs
      PROVE  EpochStep(e)
  <2>1. sub'[e] \in Subscription /\ (e \in S => sub'[e].status \in Live)
    BY <1>4, <1>5, SubTypes DEF Active
  <2>2. NoItem \in Item /\ MaxEpisodes \in Nat
    BY PodcastAssumption DEF NoItem, Item
  <2>3. e \in S => [status |-> sub'[e].status, generation |-> sub'[e].generation, count |-> 0] \in Item
    BY <2>1, <2>2 DEF Item, Subscription
  <2>4. \A q \in Runs : item'[q][e] \in Item
    BY <1>3, <2>2, <2>3, SubTypes
  <2> QED
    BY <1>0, <1>4, <1>5, <2>1, <2>4, SubTypes DEF EpochStep
<1>7. ASSUME NEW j \in Jobs
      PROVE  RowStep(j)
  <2>1. row' = [i \in Jobs |->
          CASE i \in jobs -> Queue!Fresh("pending", 0)
            [] i \in promoted /\ row[i].status \in {"pending", "failed"} -> [row[i] EXCEPT !.wait = 0]
            [] OTHER -> row[i]]
    BY DEF Admit, AdmittedSub
  <2>2. CASE j \in jobs
    <3>1. PICK e \in new : j = sub'[e].job
      BY <1>0, <2>2
    <3>2. row[j].status = "absent"
      BY <1>4, <3>1
    <3>3. row'[j].status = "pending"
      <4>1. row'[j] = Queue!Fresh("pending", 0)
        <5> HIDE DEF promoted, jobs
        <5> QED
          BY <2>1, <2>2, <3>2
      <4> QED
        BY <4>1 DEF Queue!Fresh, Queue!Unclaimed
    <3>4. Current(j)'
      <4>1. Epoch(j) = e /\ Active(e)' /\ Begins(e)
        BY <1>4, <3>1
      <4>2. j[2] = sub'[e].generation
        BY <3>1, <4>1 DEF Begins
      <4> QED
        BY <3>1, <4>1, <4>2 DEF Current
    <3> QED
      BY <3>2, <3>3, <3>4 DEF RowStep, Alive
  <2>3. CASE j \notin jobs
    <3>1. row'[j] = row[j] \/ row'[j] = [row[j] EXCEPT !.wait = 0]
      <4> HIDE DEF promoted, jobs
      <4> QED
        BY <2>1, <2>3
    <3>2. row'[j].status = row[j].status
      BY <3>1 DEF IInv, QP!Tidy, QP!Row
    <3>3. Current(j)' => Current(j)
      <4>1. CASE Epoch(j) \in new
        BY <1>0, <2>3, <4>1 DEF Current
      <4>2. CASE Epoch(j) \notin new
        BY <1>5, <4>2, JobParts DEF Current, Active
      <4> QED
        BY <4>1, <4>2
    <3> QED
      BY <3>2, <3>3, RowKept
  <2> QED
    BY <2>2, <2>3
<1> QED
  BY <1>6, <1>7

\* A job that dies ends its generation, or leaves it as Stranded has it.
LEMMA DeadLetterStep ==
  ASSUME IInv, NEW j \in Jobs, DeadLetter(j), UNCHANGED <<feed, known, queued, ingested>>,
         row[j].status = "running", row[j].attempts >= MaxAttempts,
         row'[j].status = "dead", \A i \in Jobs \ {j} : row'[i] = row[i]
  PROVE  /\ \A e \in Epochs : EpochStep(e)
         /\ \A i \in Jobs : RowStep(i)
<1>1. CASE DeadLetterApplies(j)
  <2>1. Current(j) /\ EndFailed(j)
    BY <1>1 DEF DeadLetter, DeadLetterApplies
  <2>2. \A e \in Epochs : EpochStep(e)
    BY <2>1, EndFailedStep
  <2>3. sub \in [Epochs -> Subscription] /\ Epoch(j) \in Epochs
    BY JobParts DEF IInv, TypesOK
  <2>4. sub'[Epoch(j)].status = "Failed" /\ \A e \in Epochs : e # Epoch(j) => sub'[e] = sub[e]
    BY <2>1, <2>3 DEF EndFailed, EndSubscription, Subscription
  <2>5. \A i \in Jobs : Current(i)' => Current(i) /\ Epoch(i) # Epoch(j)
    BY <2>4, JobParts DEF Current, Active, Live
  <2>6. RowStep(j)
    BY <2>5 DEF RowStep, Alive
  <2>7. \A i \in Jobs \ {j} : RowStep(i)
    BY <2>5, RowKept
  <2> QED
    BY <2>2, <2>6, <2>7
<1>2. CASE ~DeadLetterApplies(j)
  <2>1. UNCHANGED <<sub, run, item>>
    BY <1>2 DEF DeadLetter
  <2>2. \A e \in Epochs : EpochStep(e)
    BY <2>1, NothingDoneAnywhere
  <2>3. \A i \in Jobs : Current(i)' <=> Current(i)
    BY <2>1 DEF Current, Active
  <2>4. RowStep(j)
    <3>1. row[j].attempts = MaxAttempts
      <4>1. row[j].attempts <= MaxAttempts /\ row[j].attempts \in Nat
        BY DEF IInv, QP!Tidy, QP!Row
      <4> QED
        BY <4>1, PodcastAssumption
    <3>2. Current(j) => sub[Epoch(j)].status = "Running" /\ sub[Epoch(j)].attempt # MaxAttempts
      BY <1>2, <3>1 DEF DeadLetterApplies
    <3> QED
      BY <2>1, <2>3, <3>2 DEF RowStep, Alive
  <2>5. \A i \in Jobs \ {j} : RowStep(i)
    BY <2>3, RowKept
  <2> QED
    BY <2>2, <2>4, <2>5
<1> QED
  BY <1>1, <1>2

\* The rows of the queue, when nothing is done to the epochs.
LEMMA OnlyRows ==
  ASSUME IInv, UNCHANGED <<sub, item, known, queued, ingested, feed>>,
         \A j \in Jobs : \/ row'[j].status = row[j].status
                         \/ row[j].status \in Alive /\ row'[j].status \in Alive
                         \/ row[j].status = "dead" /\ row'[j].status = "pending"
                         \/ row[j].status = "running" /\ ~Current(j)
  PROVE  /\ \A e \in Epochs : EpochStep(e)
         /\ \A j \in Jobs : RowStep(j)
<1>1. \A j \in Jobs : Current(j)' <=> Current(j)
  BY DEF Current, Active
<1>2. ASSUME NEW j \in Jobs, row'[j].status # row[j].status
      PROVE  RowStep(j)
  <2>1. CASE row[j].status \in Alive /\ row'[j].status \in Alive
    BY <2>1 DEF RowStep, Alive
  <2>2. CASE row[j].status = "dead" /\ row'[j].status = "pending"
    BY <2>2 DEF RowStep, Alive
  <2>3. CASE row[j].status = "running" /\ ~Current(j)
    BY <1>1, <2>3 DEF RowStep, Alive
  <2> QED
    BY <1>2, <2>1, <2>2, <2>3
<1> QED
  BY <1>1, <1>2, RowKept, NothingDoneAnywhere

\* What the handler does, its claim renewed.
LEMMA SyncStep ==
  ASSUME IInv, NEW w \in Workers, Sync(w)
  PROVE  /\ \A e \in Epochs : EpochStep(e)
         /\ \A j \in Jobs : RowStep(j)
<1> DEFINE j == worker[w].job
           E == Epoch(j)
<1>0. worker[w].pc # "idle" /\ j \in Jobs /\ E \in Epochs
  BY AtJob DEF Sync, ClaimSync, Fetch, Ingest, Finalize, Refuse, Terminalize, At
<1>1. \A e \in Epochs : EpochStep(e)
  <2>1. CASE ClaimSync(w)
    BY <2>1, ClaimStep
  <2>2. CASE Fetch(w) \/ Refuse(w)
    BY <2>2, NothingDoneAnywhere DEF Fetch, Refuse
  <2>3. CASE Ingest(w)
    BY <2>3, IngestStep
  <2>4. CASE Finalize(w)
    BY <2>4, FinalizeStep
  <2>5. CASE Terminalize(w)
    <3>1. CASE Fenced(w)
      BY <1>0, <2>5, <3>1, EndFailedStep DEF Terminalize, Fenced
    <3>2. CASE ~Fenced(w)
      BY <2>5, <3>2, NothingDoneAnywhere DEF Terminalize
    <3> QED
      BY <3>1, <3>2
  <2> QED
    BY <2>1, <2>2, <2>3, <2>4, <2>5 DEF Sync
<1>2. \A e \in Epochs : Active(e)' => Active(e)
  <2>1. \/ sub' = sub
        \/ Active(E) /\ \A e \in Epochs : e # E => sub'[e] = sub[e]
    <3>1. sub \in [Epochs -> Subscription]
      BY DEF IInv, TypesOK
    <3>2. CASE ClaimSync(w)
      BY <3>1, <3>2 DEF ClaimSync, Current
    <3>3. CASE Fetch(w) \/ Refuse(w)
      BY <3>3 DEF Fetch, Refuse
    <3>4. CASE Ingest(w)
      BY <3>1, <3>4 DEF Ingest, Fenced, Current
    <3>5. CASE Finalize(w)
      BY <3>1, <3>5 DEF Finalize, Fenced, Current, EndSubscription
    <3>6. CASE Terminalize(w)
      BY <3>1, <3>6 DEF Terminalize, EndFailed, Fenced, Current, EndSubscription
    <3> QED
      BY <3>2, <3>3, <3>4, <3>5, <3>6 DEF Sync
  <2> QED
    BY <1>0, <2>1 DEF Active
<1>3. \A i \in Jobs : row'[i].status = row[i].status
  <2>1. row' = row \/ row' = [row EXCEPT ![j].lease = 1]
    BY DEF Sync, ClaimSync, Fetch, Ingest, Finalize, Refuse, Terminalize, Renewed
  <2>2. row \in [Jobs -> QP!Row]
    BY DEF IInv, QP!Tidy
  <2> QED
    BY <1>0, <2>1, <2>2 DEF QP!Row
<1> QED
  BY <1>1, <1>2, <1>3, RowsKept

LEMMA WorkerRows ==
  ASSUME IInv, NEW w \in Workers, WorkerStep(w)
  PROVE  /\ \A e \in Epochs : EpochStep(e)
         /\ \A j \in Jobs : RowStep(j)
<1>0. row \in [Jobs -> QP!Row]
  BY DEF IInv, QP!Tidy
<1>1. ASSUME NEW j \in Jobs, Take(w, j)
      PROVE  /\ \A e \in Epochs : EpochStep(e)
             /\ \A i \in Jobs : RowStep(i)
  <2>1. row' = [row EXCEPT ![j] = Queue!Claimed(w, j)]
        /\ row[j].status \in {"pending", "failed", "running"}
    BY <1>1 DEF Take, Queue!Claim, Queue!Claimable, Queue!Waiting
  <2>2. Queue!Claimed(w, j).status = "running"
    BY <1>0 DEF Queue!Claimed, QP!Row
  <2>3. \A i \in Jobs : \/ row'[i] = row[i]
                        \/ row[i].status \in Alive /\ row'[i].status \in Alive
    BY <1>0, <2>1, <2>2 DEF Alive
  <2> QED
    BY <1>1, <2>3, OnlyRows DEF Take, OnlyQueue
<1>2. ASSUME NEW j \in Jobs, Expire(w, j)
      PROVE  /\ \A e \in Epochs : EpochStep(e)
             /\ \A i \in Jobs : RowStep(i)
  <2>1. row' = [row EXCEPT ![j] = Queue!Expired(j)]
        /\ row[j].status = "running" /\ row[j].attempts >= MaxAttempts
    BY <1>2 DEF Expire, Queue!DeadLetterExpired
  <2>2. Queue!Expired(j).status = "dead"
    BY DEF Queue!Expired, Queue!Unclaimed
  <2> QED
    BY <1>0, <1>2, <2>1, <2>2, DeadLetterStep DEF Expire
<1>3. CASE Fail(w)
  <2> DEFINE j == worker[w].job
  <2>0. worker[w].pc # "idle" /\ j \in Jobs /\ UNCHANGED <<feed, known, queued, ingested>>
    BY <1>3, AtJob DEF Fail, Queue!Fail
  <2>1. CASE Queue!Owns(w, j) /\ row[j].attempts >= MaxAttempts
    <3>1. \E d, n : row' = [row EXCEPT ![j] = Queue!Unclaimed("dead", n, d, TRUE)]
      BY <1>3, <2>1 DEF Fail, Queue!Fail, Queue!FailRow
    <3>2. row'[j].status = "dead" /\ \A i \in Jobs \ {j} : row'[i] = row[i]
      BY <1>0, <2>0, <3>1 DEF Queue!Unclaimed
    <3> QED
      BY <1>3, <2>0, <2>1, <3>2, DeadLetterStep DEF Fail, Queue!Owns
  <2>2. CASE Queue!Owns(w, j) /\ ~(row[j].attempts >= MaxAttempts)
    <3>1. \E d, n : row' = [row EXCEPT ![j] = Queue!Unclaimed("failed", n, d, TRUE)]
      BY <1>3, <2>2 DEF Fail, Queue!Fail, Queue!FailRow
    <3>2. row'[j].status = "failed" /\ row[j].status = "running"
          /\ \A i \in Jobs \ {j} : row'[i] = row[i]
      BY <1>0, <2>0, <2>2, <3>1 DEF Queue!Unclaimed, Queue!Owns
    <3>3. UNCHANGED <<sub, run, item>>
      BY <1>3, <2>2 DEF Fail
    <3> QED
      BY <2>0, <3>2, <3>3, OnlyRows DEF Alive
  <2>3. CASE ~Queue!Owns(w, j)
    <3>1. UNCHANGED row
      BY <1>3, <2>3 DEF Fail, Queue!Fail, Queue!FailRow
    <3>2. UNCHANGED <<sub, run, item>>
      BY <1>3, <2>3 DEF Fail
    <3> QED
      BY <2>0, <3>1, <3>2, OnlyRows
  <2> QED
    BY <2>1, <2>2, <2>3
<1>4. CASE Enter(w)
  <2>1. row' = row \/ row' = [row EXCEPT ![worker[w].job].lease = 1]
    BY <1>4 DEF Enter, Queue!Start
  <2>2. \A i \in Jobs : row'[i].status = row[i].status
    BY <1>0, <2>1 DEF QP!Row
  <2> QED
    BY <1>4, <2>2, OnlyRows DEF Enter
<1>5. CASE Complete(w)
  <2> DEFINE j == worker[w].job
  <2>0. worker[w].pc = "completing" /\ j \in Jobs /\ (QP!Holds(w) <=> Queue!Owns(w, j))
    BY <1>5, AtJob DEF Complete, Queue!Complete
  <2>1. CASE Queue!Owns(w, j)
    <3>1. ~Current(j) /\ row[j].status = "running"
      BY <2>0, <2>1 DEF IInv, HandlerOK, Queue!Owns
    <3>2. \A i \in Jobs \ {j} : row'[i] = row[i]
      BY <1>0, <1>5, <2>0, <2>1 DEF Complete, Queue!Complete, Queue!CompleteRow
    <3> QED
      BY <1>5, <3>1, <3>2, OnlyRows DEF Complete, OnlyQueue
  <2>2. CASE ~Queue!Owns(w, j)
    <3>1. UNCHANGED row
      BY <1>5, <2>2 DEF Complete, Queue!Complete, Queue!CompleteRow
    <3> QED
      BY <1>5, <3>1, OnlyRows DEF Complete, OnlyQueue
  <2> QED
    BY <2>1, <2>2
<1>6. CASE Raise(w) \/ Crash(w)
  BY <1>6, OnlyRows DEF Raise, Crash, Queue!Crash
<1> QED
  BY <1>1, <1>2, <1>3, <1>4, <1>5, <1>6, SyncStep DEF WorkerStep

LEMMA EpochsStep ==
  ASSUME IInv, [Next]_vars
  PROVE  /\ \A e \in Epochs : EpochStep(e)
         /\ \A j \in Jobs : RowStep(j)
<1>0. row \in [Jobs -> QP!Row]
  BY DEF IInv, QP!Tidy
<1>1. ASSUME NEW r \in Runs, Refresh(r) \/ RefreshDue(r)
      PROVE  /\ \A e \in Epochs : EpochStep(e)
             /\ \A j \in Jobs : RowStep(j)
  <2>1. PICK S \in SUBSET {e \in Epochs : sub[e].status \in Live \cup Ended} :
          Admit(r, S, TRUE) \/ Admit(r, S, FALSE)
    BY <1>1 DEF Refresh, RefreshDue
  <2> QED
    BY <2>1, AdmitStep
<1>2. ASSUME NEW r \in Runs, PruneRun(r)
      PROVE  /\ \A e \in Epochs : EpochStep(e)
             /\ \A j \in Jobs : RowStep(j)
  BY <1>2, PruneStep, RowsKept DEF PruneRun, queue
<1>3. ASSUME NEW e \in Epochs, Unsubscribe(e) \/ ToggleAutoQueue(e) \/ PublishEpisode(e)
      PROVE  /\ \A n \in Epochs : EpochStep(n)
             /\ \A j \in Jobs : RowStep(j)
  BY <1>3, UnsubscribeStep, ToggleStep, PublishStep, RowsKept
     DEF Unsubscribe, ToggleAutoQueue, PublishEpisode, queue
<1>4. ASSUME NEW j \in Jobs, Requeue(j)
      PROVE  /\ \A e \in Epochs : EpochStep(e)
             /\ \A i \in Jobs : RowStep(i)
  <2>1. row[j].status = "dead"
        /\ row' = [row EXCEPT ![j] = Queue!Unclaimed("pending", 0, 0, row[j].errored)]
    BY <1>4 DEF Requeue, Queue!RequeueDead, Queue!Repairable
  <2>2. Queue!Unclaimed("pending", 0, 0, row[j].errored).status = "pending"
    BY DEF Queue!Unclaimed
  <2>3. \A i \in Jobs : \/ row'[i] = row[i]
                        \/ row[i].status = "dead" /\ row'[i].status = "pending"
    BY <1>0, <2>1, <2>2
  <2> QED
    BY <1>4, <2>3, OnlyRows DEF Requeue, OnlyQueue
<1>5. CASE Tick
  <2>1. \A i \in Jobs : row'[i].status = row[i].status
    BY <1>0, <1>5 DEF Tick, Queue!Tick, QP!Row
  <2> QED
    BY <1>5, <2>1, OnlyRows DEF Tick
<1>6. CASE UNCHANGED vars
  BY <1>6, OnlyRows DEF vars, queue
<1> QED
  BY <1>1, <1>2, <1>3, <1>4, <1>5, <1>6, SubscribeStep, WorkerRows DEF Next, Request

-----------------------------------------------------------------------------
(* The handlers *)

LEMMA Unmoved ==
  ASSUME IInv, QP!TidyStep, \A e \in Epochs : EpochStep(e),
         NEW w \in Workers, worker'[w] = worker[w], exec'[w] = exec[w]
  PROVE  HandlerOK(w)'
<1>1. CASE At(w, "claim")
  BY <1>1 DEF HandlerOK, At
<1>2. CASE ~At(w, "claim")
  BY <1>2, Bystander
<1> QED
  BY <1>1, <1>2

\* The steps of a worker are its own.
LEMMA OthersUnmoved ==
  ASSUME IInv, NEW w \in Workers, WorkerStep(w), NEW v \in Workers, v # w
  PROVE  worker'[v] = worker[v] /\ exec'[v] = exec[v]
<1>0. worker \in [Workers -> QP!Worker] /\ exec \in [Workers -> Executor]
  BY DEF IInv, QP!Tidy, TypesOK
<1>1. worker' = worker \/ \E n : worker' = [worker EXCEPT ![w] = n]
  <2>1. CASE Sync(w) \/ Raise(w)
    <3>1. UNCHANGED worker \/ \E pc : worker' = [worker EXCEPT ![w].pc = pc]
      BY <2>1 DEF Sync, ClaimSync, Fetch, Ingest, Finalize, Refuse, Terminalize, Raise, Memory,
                  Return, Go, Queue!Goto
    <3> QED
      BY <3>1
  <2>2. CASE Enter(w)
    BY <2>2 DEF Enter, Queue!Start, Queue!Goto, Queue!Return
  <2>3. CASE Complete(w) \/ Fail(w) \/ Crash(w)
    BY <2>3 DEF Complete, Fail, Crash, Queue!Complete, Queue!Fail, Queue!Crash, Queue!Return
  <2>4. CASE \E j \in Jobs : Take(w, j) \/ Expire(w, j)
    BY <2>4 DEF Take, Expire, Queue!Claim, Queue!DeadLetterExpired
  <2> QED
    BY <2>1, <2>2, <2>3, <2>4 DEF WorkerStep
<1>2. exec' = exec \/ \E n : exec' = [exec EXCEPT ![w] = n]
  <2>1. CASE Sync(w) \/ Raise(w)
    BY <2>1 DEF Sync, ClaimSync, Fetch, Ingest, Finalize, Refuse, Terminalize, Raise, Memory,
                Return, Go
  <2>2. CASE Enter(w)
    BY <2>2 DEF Enter
  <2>3. CASE Complete(w) \/ Fail(w) \/ Crash(w) \/ \E j \in Jobs : Take(w, j) \/ Expire(w, j)
    BY <2>3 DEF Complete, Fail, Crash, Take, Expire, OnlyQueue
  <2> QED
    BY <2>1, <2>2, <2>3 DEF WorkerStep
<1> QED
  BY <1>0, <1>1, <1>2

\* A worker that has left its handler, or has just entered it, knows nothing.
LEMMA KnowsNothing ==
  ASSUME NEW w \in Workers,
         \/ worker'[w].pc \notin {"executing", "completing"}
         \/ worker'[w].pc = "executing" /\ exec'[w].at = "claim"
  PROVE  HandlerOK(w)'
BY DEF HandlerOK, At

\* A handler that goes on holds what it held.
LEMMA StillHolds ==
  ASSUME IInv, QP!TidyStep, NEW w \in Workers, worker[w].pc # "idle",
         worker' = worker \/ Queue!Goto(w, "completing"), worker[w].pc # "claimed"
  PROVE  /\ QP!Holds(w)' => QP!Holds(w) /\ Queue!ClaimIsCurrent(w)
         /\ worker'[w].job = worker[w].job /\ worker'[w].attempt = worker[w].attempt
         /\ worker' # worker => worker'[w].pc = "completing"
<1>0. worker \in [Workers -> QP!Worker]
  BY DEF IInv, QP!Tidy
<1>1. /\ worker'[w].job = worker[w].job /\ worker'[w].attempt = worker[w].attempt
      /\ worker'[w].pc = worker[w].pc \/ worker'[w].pc = "completing"
      /\ worker' # worker => worker'[w].pc = "completing"
  BY <1>0 DEF Queue!Goto, QP!Worker
<1>2. worker'[w].pc # "claimed"
  BY <1>1
<1>3. QP!Holds(w)' => QP!Holds(w)
  BY <1>2 DEF QP!TidyStep, QP!NoneGains
<1> QED
  BY <1>1, <1>3, AtJob

LEMMA SyncKnows ==
  ASSUME IInv, QP!TidyStep, NEW w \in Workers, Sync(w)
  PROVE  HandlerOK(w)'
<1> DEFINE j == worker[w].job
           e == Epoch(j)
<1>0. /\ worker[w].pc = "executing" /\ j \in Jobs /\ e \in Epochs /\ HandlerOK(w)
      /\ sub \in [Epochs -> Subscription] /\ exec \in [Workers -> Executor]
      /\ CheckpointOK(e) /\ feed[e] \in Nat
  <2>1. worker[w].pc = "executing"
    BY DEF Sync, ClaimSync, Fetch, Ingest, Finalize, Refuse, Terminalize, At
  <2>2. j \in Jobs /\ e \in Epochs
    BY <2>1, AtJob
  <2>3. feed[e] \in Nat
    BY <2>2, PodcastAssumption, SubTypes
  <2> QED
    BY <2>1, <2>2, <2>3 DEF IInv, TypesOK, EpochOK
<1>1. worker' = worker \/ Queue!Goto(w, "completing")
  BY DEF Sync, ClaimSync, Fetch, Ingest, Finalize, Refuse, Terminalize, Memory, Return, Go
<1>2. /\ QP!Holds(w)' => QP!Holds(w) /\ Queue!ClaimIsCurrent(w)
      /\ worker'[w].job = j /\ worker'[w].attempt = worker[w].attempt
      /\ worker' # worker => worker'[w].pc = "completing"
  BY <1>0, <1>1, StillHolds
<1>3. QP!Holds(w) /\ Current(j) /\ exec[w].at \in {"fetch", "ingest", "finalize", "terminalize"} =>
        sub[e].status = "Running" /\ sub[e].attempt = worker[w].attempt
  BY <1>0 DEF HandlerOK
<1>4. exec[w].at \in {"fetch", "ingest", "finalize", "terminalize"} /\ ~Fenced(w) /\ QP!Holds(w)' =>
        ~Current(j)
  BY <1>2, <1>3 DEF Fenced
\* It returns.
<1>5. ASSUME worker'[w].pc = "completing", QP!Holds(w)' => ~Current(j)'
      PROVE  HandlerOK(w)'
  BY <1>2, <1>5 DEF HandlerOK, At
<1>6. CASE ClaimSync(w)
  <2>1. CASE Queue!ClaimIsCurrent(w) /\ Current(j)
    <3>1. /\ sub' = [sub EXCEPT ![e].status = "Running", ![e].attempt = worker[w].attempt]
          /\ exec' = [exec EXCEPT ![w] = [at |-> NextStep(j), cutoff |-> feed[e], snapshot |-> 0]]
          /\ UNCHANGED <<worker, feed>>
      BY <1>6, <2>1 DEF ClaimSync, Memory
    <3>2. /\ sub'[e] = [sub[e] EXCEPT !.status = "Running", !.attempt = worker[w].attempt]
          /\ sub[e] \in Subscription
      BY <1>0, <3>1
    <3>3. /\ sub'[e].status = "Running" /\ sub'[e].attempt = worker[w].attempt
          /\ sub'[e].checkpoint = sub[e].checkpoint
      BY <3>2 DEF Subscription
    <3>4. exec'[w].at = NextStep(j) /\ exec'[w].cutoff = feed'[e]
      BY <1>0, <3>1
    <3>5. exec'[w].at = "finalize" => sub[e].checkpoint # NoCheckpoint
      BY <3>4 DEF NextStep
    <3>6. exec'[w].at \in {"fetch", "finalize"}
      BY <3>4 DEF NextStep
    <3>7. exec'[w].at = "finalize" => sub'[e].checkpoint.status # "none"
      BY <1>0, <3>3, <3>5 DEF CheckpointOK
    <3>8. exec'[w].cutoff <= feed'[e] /\ worker'[w] = worker[w]
      BY <1>0, <3>1, <3>4
    <3> QED
      BY <1>0, <3>3, <3>6, <3>7, <3>8 DEF HandlerOK, At
  <2>2. CASE ~(Queue!ClaimIsCurrent(w) /\ Current(j))
    <3>1. Return(w) /\ UNCHANGED sub
      BY <1>6, <2>2 DEF ClaimSync
    <3>2. worker'[w].pc = "completing"
      BY <1>0, <3>1 DEF Return, Go, Queue!Goto, IInv, QP!Tidy, QP!Worker
    <3>3. QP!Holds(w)' => ~Current(j)'
      BY <1>2, <2>2, <3>1 DEF Current, Active
    <3> QED
      BY <1>5, <3>2, <3>3
  <2> QED
    BY <2>1, <2>2
<1>7. CASE Fetch(w)
  <2>1. /\ exec' = [exec EXCEPT ![w] = [exec[w] EXCEPT !.at = "ingest", !.snapshot = feed[e]]]
        /\ UNCHANGED <<worker, sub, feed>> /\ exec[w].at = "fetch" /\ exec[w].cutoff <= feed[e]
    BY <1>0, <1>7 DEF Fetch, Memory, At, HandlerOK
  <2>2. exec'[w].at = "ingest" /\ exec'[w].cutoff <= exec'[w].snapshot
    BY <1>0, <2>1 DEF Executor
  <2>3. Current(j)' => Current(j)
    BY <2>1 DEF Current, Active
  <2> QED
    BY <1>0, <1>2, <1>3, <2>1, <2>2, <2>3 DEF HandlerOK, At
<1>8. CASE Refuse(w)
  <2>1. /\ exec' = [exec EXCEPT ![w] = [exec[w] EXCEPT !.at = "terminalize"]]
        /\ UNCHANGED <<worker, sub, feed>> /\ exec[w].at \in {"fetch", "ingest", "finalize"}
    BY <1>8 DEF Refuse, Memory, At
  <2>2. exec'[w].at = "terminalize"
    BY <1>0, <2>1 DEF Executor
  <2>3. Current(j)' => Current(j)
    BY <2>1 DEF Current, Active
  <2> QED
    BY <1>0, <1>2, <1>3, <2>1, <2>2, <2>3 DEF HandlerOK, At
<1>9. CASE Ingest(w)
  <2>1. exec[w].at = "ingest"
    BY <1>9 DEF Ingest, At
  <2>2. CASE ~Fenced(w)
    <3>1. Return(w) /\ UNCHANGED sub
      BY <1>9, <2>2 DEF Ingest
    <3>2. worker'[w].pc = "completing"
      BY <1>0, <3>1 DEF Return, Go, Queue!Goto, IInv, QP!Tidy, QP!Worker
    <3>3. QP!Holds(w)' => ~Current(j)'
      BY <1>2, <1>4, <2>1, <2>2, <3>1 DEF Current, Active
    <3> QED
      BY <1>5, <3>2, <3>3
  <2>3. CASE Fenced(w)
    <3>1. /\ exec' = [exec EXCEPT ![w] = [exec[w] EXCEPT !.at = "finalize"]] /\ UNCHANGED worker
          /\ sub[e].status = "Running" /\ sub[e].attempt = worker[w].attempt
      BY <1>9, <2>3 DEF Ingest, Memory, Fenced
    <3>2. exec'[w].at = "finalize"
      BY <1>0, <3>1 DEF Executor
    <3>3. /\ sub'[e].status = "Running" /\ sub'[e].attempt = worker[w].attempt
          /\ sub'[e].checkpoint.status # "none"
      <4>1. CASE sub[e].checkpoint # NoCheckpoint
        <5>1. UNCHANGED sub
          BY <1>9, <2>3, <4>1 DEF Ingest
        <5> QED
          BY <1>0, <3>1, <4>1, <5>1 DEF CheckpointOK
      <4>2. CASE sub[e].checkpoint = NoCheckpoint
        <5>1. PICK status \in {"Complete", "SourceLimited"} : \E n :
                sub' = [sub EXCEPT ![e].checkpoint =
                  [status |-> status, cutoff |-> exec[w].cutoff, count |-> n]]
          BY <1>9, <2>3, <4>2 DEF Ingest
        <5>2. PICK n :
                sub' = [sub EXCEPT ![e].checkpoint =
                  [status |-> status, cutoff |-> exec[w].cutoff, count |-> n]]
          BY <5>1
        <5>3. sub'[e] = [sub[e] EXCEPT !.checkpoint =
                [status |-> status, cutoff |-> exec[w].cutoff, count |-> n]]
              /\ sub[e] \in Subscription
          BY <1>0, <5>2
        <5> QED
          BY <3>1, <5>3 DEF Subscription
      <4> QED
        BY <4>1, <4>2
    <3> QED
      BY <1>0, <3>1, <3>2, <3>3 DEF HandlerOK, At
  <2> QED
    BY <2>2, <2>3
<1>10. CASE Finalize(w) \/ Terminalize(w)
  <2>1. exec[w].at \in {"finalize", "terminalize"} /\ Return(w)
    BY <1>10 DEF Finalize, Terminalize, At
  <2>2. worker'[w].pc = "completing"
    BY <1>0, <2>1 DEF Return, Go, Queue!Goto, IInv, QP!Tidy, QP!Worker
  <2>3. CASE ~Fenced(w)
    <3>1. UNCHANGED sub
      BY <1>10, <2>3 DEF Finalize, Terminalize
    <3> QED
      BY <1>2, <1>4, <1>5, <2>1, <2>2, <2>3, <3>1 DEF Current, Active
  <2>4. CASE Fenced(w)
    <3>1. sub'[e].job = NoJob
      <4>1. \E status : \/ sub' = EndSubscription(j, status)
                        \/ \E n : sub' = [EndSubscription(j, status) EXCEPT ![e].watermark = n]
        <5>1. CASE Finalize(w)
          BY <2>4, <5>1 DEF Finalize
        <5>2. CASE Terminalize(w)
          BY <2>4, <5>2 DEF Terminalize, EndFailed
        <5> QED
          BY <1>10, <5>1, <5>2
      <4> QED
        BY <1>0, <4>1 DEF EndSubscription, Subscription
    <3>2. ~Current(j)'
      BY <1>0, <1>2, <3>1, PodcastAssumption DEF Current
    <3> QED
      BY <1>5, <2>2, <3>2
  <2> QED
    BY <2>3, <2>4
<1> QED
  BY <1>6, <1>7, <1>8, <1>9, <1>10 DEF Sync

LEMMA HandlersStep ==
  ASSUME IInv, [Next]_vars, QP!TidyStep, \A e \in Epochs : EpochStep(e)
  PROVE  \A w \in Workers : HandlerOK(w)'
<1>0. worker \in [Workers -> QP!Worker] /\ exec \in [Workers -> Executor]
  BY DEF IInv, QP!Tidy, TypesOK
<1>1. CASE Request \/ Tick \/ UNCHANGED vars
  <2>1. CASE Tick \/ UNCHANGED vars
    BY <2>1, Unmoved DEF Tick, Queue!Tick, vars, queue
  <2>2. CASE \E e \in Epochs :
               Subscribe(e) \/ Unsubscribe(e) \/ ToggleAutoQueue(e) \/ PublishEpisode(e)
    BY <2>2, Unmoved DEF Subscribe, Unsubscribe, ToggleAutoQueue, PublishEpisode, queue,
                         Queue!Enqueue
  <2>3. CASE \E j \in Jobs : Requeue(j)
    BY <2>3, Unmoved DEF Requeue, OnlyQueue, Queue!RequeueDead
  <2>4. CASE \E r \in Runs : Refresh(r) \/ RefreshDue(r) \/ PruneRun(r)
    BY <2>4, Unmoved DEF Refresh, RefreshDue, PruneRun, Admit, queue
  <2> QED
    BY <1>1, <2>1, <2>2, <2>3, <2>4 DEF Request
<1>2. ASSUME NEW w \in Workers, WorkerStep(w)
      PROVE  \A v \in Workers : HandlerOK(v)'
  <2>1. \A v \in Workers \ {w} : HandlerOK(v)'
    BY <1>2, OthersUnmoved, Unmoved
  <2>2. HandlerOK(w)'
    <3>1. CASE Sync(w)
      BY <3>1, SyncKnows
    <3>2. CASE Raise(w)
      BY <1>0, <3>2, KnowsNothing DEF Raise, Go, Queue!Goto, QP!Worker
    <3>3. CASE Enter(w)
      <4>1. CASE Queue!Owns(w, worker[w].job)
        BY <1>0, <3>3, <4>1, KnowsNothing
           DEF Enter, Queue!Start, Queue!Goto, QP!Worker, Executor
      <4>2. CASE ~Queue!Owns(w, worker[w].job)
        BY <1>0, <3>3, <4>2, KnowsNothing DEF Enter, Queue!Start, Queue!Return, Queue!Idle
      <4> QED
        BY <4>1, <4>2
    <3>4. CASE Complete(w) \/ Fail(w) \/ Crash(w)
      BY <1>0, <3>4, KnowsNothing
         DEF Complete, Fail, Crash, Queue!Complete, Queue!Fail, Queue!Crash, Queue!Return,
             Queue!Idle
    <3>5. ASSUME NEW j \in Jobs, Take(w, j)
          PROVE  HandlerOK(w)'
      <4>1. worker'[w].pc = "claimed"
        BY <1>0, <3>5 DEF Take, Queue!Claim
      <4> QED
        BY <4>1, KnowsNothing
    <3>6. ASSUME NEW j \in Jobs, Expire(w, j)
          PROVE  HandlerOK(w)'
      BY <3>6, Unmoved DEF Expire, Queue!DeadLetterExpired
    <3> QED
      BY <1>2, <3>1, <3>2, <3>3, <3>4, <3>5, <3>6 DEF WorkerStep
  <2> QED
    BY <2>1, <2>2
<1> QED
  BY <1>1, <1>2 DEF Next

-----------------------------------------------------------------------------
(* Types, and the runs *)

LEMMA AggregateType ==
  ASSUME NEW items
  PROVE  Aggregate(items) \in {"Running", "Complete", "Partial", "Failed"}
BY DEF Aggregate

\* The items are those of the same runs and epochs, and each run whose items
\* changed has the status they have.
RunsStep ==
  /\ item' = [r \in Runs |-> [e \in Epochs |-> item'[r][e]]]
  /\ run' = [r \in Runs |-> run'[r]]
  /\ \A r \in Runs : \/ run'[r] = run[r] /\ item'[r] = item[r]
                     \/ run'[r] = Aggregate(item'[r])
                     \/ run'[r] = "pruned"

LEMMA RunsUntouched ==
  ASSUME IInv, UNCHANGED <<run, item>>
  PROVE  RunsStep
BY DEF IInv, TypesOK, RunsStep

LEMMA TouchStep ==
  ASSUME IInv, NEW items, Touch(items), items = [r \in Runs |-> [e \in Epochs |-> items[r][e]]]
  PROVE  RunsStep
<1>1. item' = items /\ run' = [r \in Runs |-> IF items[r] # item[r] THEN Aggregate(items[r]) ELSE run[r]]
  BY DEF Touch, Recompute
<1> QED
  BY <1>1 DEF RunsStep

LEMMA RunsStepHolds ==
  ASSUME IInv, [Next]_vars
  PROVE  RunsStep
<1>0. item \in [Runs -> [Epochs -> Item]]
      /\ run \in [Runs -> {"none", "Running", "Complete", "Partial", "Failed", "pruned"}]
  BY DEF IInv, TypesOK
<1>1. CASE UNCHANGED <<run, item>>
  BY <1>1, RunsUntouched
<1>2. ASSUME NEW r \in Runs, NEW S, NEW i, Admit(r, S, i)
      PROVE  RunsStep
  <2>1. \E f : item' = [item EXCEPT ![r] = [e \in Epochs |-> f[e]]]
               /\ run' = [run EXCEPT ![r] = Aggregate([e \in Epochs |-> f[e]])]
    <3> DEFINE f == [e \in Epochs |->
                       IF e \in S
                       THEN [status |-> Admitted(AdmittedSub(S), e),
                             generation |-> AdmittedSub(S)[e].generation, count |-> 0]
                       ELSE NoItem]
    <3>1. item' = [item EXCEPT ![r] = f] /\ run' = [run EXCEPT ![r] = Aggregate(item'[r])]
      BY <1>2 DEF Admit, AdmittedSub
    <3>2. item'[r] = f /\ f = [e \in Epochs |-> f[e]]
      BY <1>0, <3>1
    <3> HIDE DEF f
    <3> QED
      BY <3>1, <3>2
  <2>2. PICK f : item' = [item EXCEPT ![r] = [e \in Epochs |-> f[e]]]
                 /\ run' = [run EXCEPT ![r] = Aggregate([e \in Epochs |-> f[e]])]
    BY <2>1
  <2> QED
    BY <1>0, <2>2 DEF RunsStep
<1>3. ASSUME NEW r \in Runs, PruneRun(r)
      PROVE  RunsStep
  BY <1>0, <1>3 DEF PruneRun, RunsStep
<1>4. ASSUME NEW e \in Epochs, Unsubscribe(e)
      PROVE  RunsStep
  <2>1. Touch(Skipped(e))
    BY <1>4 DEF Unsubscribe
  <2>2. Skipped(e) = [r \in Runs |-> [n \in Epochs |-> Skipped(e)[r][n]]]
    BY <1>0 DEF Skipped
  <2> QED
    BY <2>1, <2>2, TouchStep
<1>5. ASSUME NEW j, Touch(ItemsRunning(j)) \/ \E st, n : Touch(ItemsFinished(j, st, n))
      PROVE  RunsStep
  <2>1. ItemsRunning(j) = [r \in Runs |-> [n \in Epochs |-> ItemsRunning(j)[r][n]]]
    BY DEF ItemsRunning
  <2>2. \A st, k : ItemsFinished(j, st, k)
                     = [r \in Runs |-> [n \in Epochs |-> ItemsFinished(j, st, k)[r][n]]]
    BY DEF ItemsFinished
  <2> QED
    BY <1>5, <2>1, <2>2, TouchStep
<1>6. ASSUME NEW j, DeadLetter(j)
      PROVE  RunsStep
  BY <1>1, <1>5, <1>6 DEF DeadLetter, EndFailed
<1>7. ASSUME NEW w \in Workers, Sync(w)
      PROVE  RunsStep
  BY <1>1, <1>5, <1>7
     DEF Sync, ClaimSync, Fetch, Ingest, Finalize, Refuse, Terminalize, EndFailed
<1>8. ASSUME NEW w \in Workers, WorkerStep(w)
      PROVE  RunsStep
  BY <1>1, <1>6, <1>7, <1>8
     DEF WorkerStep, Take, Expire, Fail, Enter, Raise, Complete, Crash, OnlyQueue
<1>9. CASE Request
  BY <1>1, <1>2, <1>3, <1>4, <1>9
     DEF Request, Refresh, RefreshDue, Subscribe, ToggleAutoQueue, PublishEpisode, Requeue,
         OnlyQueue
<1>10. CASE Tick \/ UNCHANGED vars
  BY <1>1, <1>10 DEF Tick, vars
<1> QED
  BY <1>8, <1>9, <1>10 DEF Next

\* The variables about epochs stay functions of them.
FunctionsStep ==
  /\ feed' = [e \in Epochs |-> feed'[e]] /\ known' = [e \in Epochs |-> known'[e]]
  /\ queued' = [e \in Epochs |-> queued'[e]] /\ sub' = [e \in Epochs |-> sub'[e]]
  /\ ingested' = [j \in Jobs |-> ingested'[j]]

LEMMA FunctionsStepHolds ==
  ASSUME IInv, [Next]_vars
  PROVE  FunctionsStep
<1>0. /\ feed = [e \in Epochs |-> feed[e]] /\ known = [e \in Epochs |-> known[e]]
      /\ queued = [e \in Epochs |-> queued[e]] /\ sub = [e \in Epochs |-> sub[e]]
      /\ ingested = [j \in Jobs |-> ingested[j]]
  BY DEF IInv, TypesOK
<1>1. CASE UNCHANGED <<feed, known, queued, sub, ingested>>
  BY <1>0, <1>1 DEF FunctionsStep
<1>2. ASSUME UNCHANGED <<feed, known, queued, ingested>>,
             \/ \E e, n : sub' = [sub EXCEPT ![e] = n]
             \/ \E S : sub' = AdmittedSub(S)
      PROVE  FunctionsStep
  <2>1. sub' = [e \in Epochs |-> sub'[e]]
    BY <1>0, <1>2 DEF AdmittedSub
  <2> QED
    BY <1>0, <1>2, <2>1 DEF FunctionsStep
<1>3. ASSUME NEW j, DeadLetter(j) \/ EndFailed(j), UNCHANGED <<feed, known, queued, ingested>>
      PROVE  FunctionsStep
  <2>1. UNCHANGED sub \/ \E n : sub' = [sub EXCEPT ![Epoch(j)] = n]
    BY <1>3 DEF DeadLetter, EndFailed, EndSubscription
  <2> QED
    BY <1>1, <1>2, <1>3, <2>1
<1>4. ASSUME NEW r \in Runs, Refresh(r) \/ RefreshDue(r)
      PROVE  FunctionsStep
  <2>1. (\E S : sub' = AdmittedSub(S)) /\ UNCHANGED <<feed, known, queued, ingested>>
    BY <1>4 DEF Refresh, RefreshDue, Admit, AdmittedSub
  <2> QED
    BY <1>2, <2>1
<1>5. ASSUME NEW e \in Epochs, Subscribe(e) \/ Unsubscribe(e) \/ ToggleAutoQueue(e)
      PROVE  FunctionsStep
  <2>1. (\E n : sub' = [sub EXCEPT ![e] = n]) /\ UNCHANGED <<feed, known, queued, ingested>>
    <3>1. CASE Subscribe(e)
      BY <3>1 DEF Subscribe
    <3>2. CASE Unsubscribe(e)
      BY <3>2 DEF Unsubscribe
    <3>3. CASE ToggleAutoQueue(e)
      BY <3>3 DEF ToggleAutoQueue
    <3> QED
      BY <1>5, <3>1, <3>2, <3>3
  <2> QED
    BY <1>2, <2>1
<1>6. ASSUME NEW e \in Epochs, PublishEpisode(e)
      PROVE  FunctionsStep
  BY <1>0, <1>6 DEF PublishEpisode, FunctionsStep
<1>7. ASSUME NEW w \in Workers, ClaimSync(w) \/ Fetch(w) \/ Refuse(w) \/ Terminalize(w)
      PROVE  FunctionsStep
  <2>1. CASE ClaimSync(w)
    <3>1. /\ UNCHANGED <<feed, known, queued, ingested>>
          /\ UNCHANGED sub \/ \E e, n : sub' = [sub EXCEPT ![e] = n]
      <4>1. UNCHANGED sub \/ sub' = [sub EXCEPT ![Epoch(worker[w].job)] =
              [@ EXCEPT !.status = "Running", !.attempt = worker[w].attempt]]
        BY <1>0, <2>1 DEF ClaimSync
      <4> QED
        BY <2>1, <4>1 DEF ClaimSync
    <3> QED
      BY <1>1, <1>2, <3>1
  <2>2. CASE Fetch(w) \/ Refuse(w)
    BY <1>1, <2>2 DEF Fetch, Refuse
  <2>3. CASE Terminalize(w)
    BY <1>1, <1>3, <2>3 DEF Terminalize
  <2> QED
    BY <1>7, <2>1, <2>2, <2>3
<1>8. ASSUME NEW w \in Workers, Ingest(w)
      PROVE  FunctionsStep
  <2> DEFINE j == worker[w].job
  <2>1. CASE UNCHANGED <<known, sub, ingested>>
    BY <1>1, <1>8, <2>1 DEF Ingest
  <2>2. CASE ~UNCHANGED <<known, sub, ingested>>
    <3>1. /\ \E n : known' = [known EXCEPT ![Epoch(j)] = n]
          /\ \E n : ingested' = [ingested EXCEPT ![j] = n]
          /\ \E n : sub' = [sub EXCEPT ![Epoch(j)].checkpoint = n]
          /\ UNCHANGED <<feed, queued>>
      BY <1>8, <2>2 DEF Ingest
    <3> QED
      BY <1>0, <3>1 DEF FunctionsStep
  <2> QED
    BY <2>1, <2>2
<1>9. ASSUME NEW w \in Workers, Finalize(w)
      PROVE  FunctionsStep
  <2> DEFINE e == Epoch(worker[w].job)
  <2>1. UNCHANGED queued \/ \E n : queued' = [queued EXCEPT ![e] = n]
    BY <1>9 DEF Finalize
  <2>2. sub' = [n \in Epochs |-> sub'[n]]
    BY <1>0, <1>9 DEF Finalize, EndSubscription
  <2> QED
    BY <1>0, <1>9, <2>1, <2>2 DEF Finalize, FunctionsStep
<1>10. ASSUME NEW w \in Workers, WorkerStep(w)
       PROVE  FunctionsStep
  <2>1. CASE Sync(w)
    BY <1>7, <1>8, <1>9, <2>1 DEF Sync
  <2>2. CASE ~Sync(w)
    BY <1>1, <1>3, <1>10, <2>2
       DEF WorkerStep, Take, Expire, Fail, Enter, Raise, Complete, Crash, OnlyQueue
  <2> QED
    BY <2>1, <2>2
<1>11. ASSUME NEW r \in Runs, PruneRun(r)
       PROVE  FunctionsStep
  BY <1>1, <1>11 DEF PruneRun
<1>12. ASSUME NEW j \in Jobs, Requeue(j)
       PROVE  FunctionsStep
  BY <1>1, <1>12 DEF Requeue, OnlyQueue
<1>13. CASE Tick \/ UNCHANGED vars
  BY <1>1, <1>13 DEF Tick, vars
<1> QED
  BY <1>4, <1>5, <1>6, <1>10, <1>11, <1>12, <1>13 DEF Next, Request

\* What a handler has in memory, and the faults.
LEMMA MemoryTypes ==
  ASSUME IInv, [Next]_vars
  PROVE  exec' \in [Workers -> Executor] /\ faults' \in 0..MaxFaults
<1>0. /\ exec \in [Workers -> Executor] /\ faults \in 0..MaxFaults /\ MaxFaults \in Nat
      /\ feed \in [Epochs -> 0..MaxEpisodes] /\ MaxEpisodes \in Nat
  BY PodcastAssumption DEF IInv, TypesOK
<1>1. faults' \in 0..MaxFaults
  <2>1. UNCHANGED faults \/ CountFault
    BY DEF Next, Request, WorkerStep, Refresh, RefreshDue, Admit, PruneRun, Subscribe, Unsubscribe,
           ToggleAutoQueue, PublishEpisode, Requeue, OnlyQueue, Take, Expire, Enter, Sync,
           ClaimSync, Fetch, Ingest, Finalize, Refuse, Terminalize, Raise, Complete, Fail, Crash,
           Tick, vars
  <2> QED
    BY <1>0, <2>1 DEF CountFault
<1>2. NotExecuting \in Executor
  BY <1>0 DEF NotExecuting, Executor
<1>3. ASSUME NEW w \in Workers, NEW m \in Executor, exec' = [exec EXCEPT ![w] = m]
      PROVE  exec' \in [Workers -> Executor]
  BY <1>0, <1>3
<1>4. CASE UNCHANGED exec
  BY <1>0, <1>1, <1>4
<1>5. ASSUME NEW w \in Workers, Sync(w)
      PROVE  exec' \in [Workers -> Executor]
  <2>0. worker[w].pc # "idle" /\ Epoch(worker[w].job) \in Epochs /\ exec[w] \in Executor
    <3>1. worker[w].pc # "idle"
      BY <1>5 DEF Sync, ClaimSync, Fetch, Ingest, Finalize, Refuse, Terminalize, At
    <3> QED
      BY <1>0, <3>1, AtJob
  <2>1. CASE Return(w)
    BY <1>2, <1>3, <2>1 DEF Return, Go
  <2>2. CASE ~Return(w) /\ ClaimSync(w)
    <3>1. exec' = [exec EXCEPT ![w] = [at |-> NextStep(worker[w].job),
                     cutoff |-> feed[Epoch(worker[w].job)], snapshot |-> 0]]
      BY <2>2 DEF ClaimSync, Memory
    <3>2. NextStep(worker[w].job) \in {"fetch", "finalize"}
      BY DEF NextStep
    <3>3. [at |-> NextStep(worker[w].job), cutoff |-> feed[Epoch(worker[w].job)],
           snapshot |-> 0] \in Executor
      BY <1>0, <2>0, <3>2 DEF Executor
    <3> QED
      BY <1>3, <3>1, <3>3
  <2>3. CASE Fetch(w)
    <3>1. [exec[w] EXCEPT !.at = "ingest", !.snapshot = feed[Epoch(worker[w].job)]] \in Executor
      BY <1>0, <2>0 DEF Executor
    <3> QED
      BY <1>3, <2>3, <3>1 DEF Fetch, Memory
  <2>4. CASE ~Return(w) /\ Ingest(w)
    <3>1. [exec[w] EXCEPT !.at = "finalize"] \in Executor
      BY <1>0, <2>0 DEF Executor
    <3> QED
      BY <1>3, <2>4, <3>1 DEF Ingest, Memory
  <2>5. CASE Refuse(w)
    <3>1. [exec[w] EXCEPT !.at = "terminalize"] \in Executor
      BY <1>0, <2>0 DEF Executor
    <3> QED
      BY <1>3, <2>5, <3>1 DEF Refuse, Memory
  <2> QED
    BY <1>5, <2>1, <2>2, <2>3, <2>4, <2>5 DEF Sync, Finalize, Terminalize
<1>6. ASSUME NEW w \in Workers, Raise(w) \/ Crash(w)
      PROVE  exec' \in [Workers -> Executor]
  BY <1>2, <1>3, <1>6 DEF Raise, Crash, Go
<1>7. ASSUME NEW w \in Workers, Enter(w)
      PROVE  exec' \in [Workers -> Executor]
  <2>1. [exec[w] EXCEPT !.at = "claim"] \in Executor
    BY <1>0 DEF Executor
  <2>2. UNCHANGED exec \/ exec' = [exec EXCEPT ![w] = [exec[w] EXCEPT !.at = "claim"]]
    BY <1>0, <1>7 DEF Enter
  <2> QED
    BY <1>3, <1>4, <2>1, <2>2
<1>8. exec' \in [Workers -> Executor]
  BY <1>4, <1>5, <1>6, <1>7
     DEF Next, Request, WorkerStep, Refresh, RefreshDue, Admit, PruneRun, Subscribe, Unsubscribe,
         ToggleAutoQueue, PublishEpisode, Requeue, OnlyQueue, Take, Expire, Complete, Fail, Tick,
         vars
<1> QED
  BY <1>1, <1>8

LEMMA TypesStep ==
  ASSUME IInv, [Next]_vars, \A e \in Epochs : EpochStep(e), RunsStep, FunctionsStep
  PROVE  TypesOK'
<1>1. exec' \in [Workers -> Executor] /\ faults' \in 0..MaxFaults
  BY MemoryTypes
<1>2. \A r \in Runs : run'[r] \in {"none", "Running", "Complete", "Partial", "Failed", "pruned"}
  BY AggregateType DEF RunsStep, IInv, TypesOK
<1>3. \A j \in Jobs : ingested'[j] \in 0..MaxEpisodes
  BY JobParts DEF EpochStep
<1>4. /\ \A e \in Epochs : sub'[e] \in Subscription /\ feed'[e] \in 0..MaxEpisodes
      /\ \A e \in Epochs : known'[e] \in 0..MaxEpisodes /\ queued'[e] \in SUBSET (1..MaxEpisodes)
      /\ \A e \in Epochs, r \in Runs : item'[r][e] \in Item
  BY DEF EpochStep
<1>5. /\ feed' \in [Epochs -> 0..MaxEpisodes] /\ known' \in [Epochs -> 0..MaxEpisodes]
      /\ queued' \in [Epochs -> SUBSET (1..MaxEpisodes)]
      /\ sub' \in [Epochs -> Subscription] /\ ingested' \in [Jobs -> 0..MaxEpisodes]
  BY <1>3, <1>4 DEF FunctionsStep
<1>6. item' \in [Runs -> [Epochs -> Item]]
  BY <1>4 DEF RunsStep
<1>7. run' \in [Runs -> {"none", "Running", "Complete", "Partial", "Failed", "pruned"}]
  BY <1>2 DEF RunsStep
<1> QED
  BY <1>1, <1>5, <1>6, <1>7 DEF TypesOK

-----------------------------------------------------------------------------
(* The invariant *)

LEMMA InitHolds == Init => IInv
<1> SUFFICES ASSUME Init PROVE IInv
  OBVIOUS
<1>1. QP!Tidy
  BY SameQueue, QP!InitTidy, QueueAssumptions DEF Init
<1>2. TypesOK
  BY PodcastAssumption
     DEF Init, TypesOK, Subscription, Absent, NoCheckpoint, Checkpoint, Item, NoItem, Executor,
         NotExecuting, Live
<1>3. ActiveSyncHasJob /\ RunsAgreeWithItems
  BY DEF Init, ActiveSyncHasJob, RunsAgreeWithItems, Active, Absent, Live
<1>4. \A e \in Epochs : EpochOK(e)
  <2>1. \A e \in Epochs : GenerationsOK(e)
    BY DEF Init, GenerationsOK, Active, Absent, Live, Queue!Init, Queue!Fresh, Queue!Unclaimed
  <2>2. \A e \in Epochs : CheckpointOK(e) /\ WatermarkOK(e)
    BY DEF Init, CheckpointOK, WatermarkOK, Absent, NoCheckpoint
  <2>3. \A e \in Epochs, r \in Runs : ItemOK(r, e)
    BY DEF Init, ItemOK, LiveItem, NoItem, Live, Ended
  <2> QED
    BY <2>1, <2>2, <2>3 DEF EpochOK
<1>5. \A w \in Workers : HandlerOK(w)
  BY DEF Init, HandlerOK, At, Queue!Init, Queue!Idle
<1> QED
  BY <1>1, <1>2, <1>3, <1>4, <1>5 DEF IInv

LEMMA StepHolds == IInv /\ [Next]_vars => IInv'
<1> SUFFICES ASSUME IInv, [Next]_vars PROVE IInv'
  OBVIOUS
<1>1. QP!TidyStep
  BY QueueStep
<1>2. (\A e \in Epochs : EpochStep(e)) /\ (\A j \in Jobs : RowStep(j))
  BY EpochsStep
<1>3. JobsBegin
  BY <1>2 DEF JobsBegin, RowStep
<1>4. \A e \in Epochs : GenerationsOK(e)'
  BY <1>2, <1>3, GenerationsStep
<1>5. \A e \in Epochs : EpochOK(e)'
  BY <1>2, <1>4, CheckpointStep, ItemStep DEF EpochOK
<1>6. ActiveSyncHasJob'
  BY <1>2, <1>4, ActiveSyncStep
<1>7. \A w \in Workers : HandlerOK(w)'
  BY <1>1, <1>2, HandlersStep
<1>8. RunsStep /\ FunctionsStep
  BY RunsStepHolds, FunctionsStepHolds
<1>9. RunsAgreeWithItems'
  BY <1>8 DEF RunsStep, RunsAgreeWithItems, IInv
<1>10. TypesOK'
  BY <1>2, <1>8, TypesStep
<1> QED
  BY <1>1, <1>5, <1>6, <1>7, <1>9, <1>10 DEF IInv, QP!TidyStep

\* IInv is an invariant.
THEOREM Invariant == Spec => []IInv
<1>1. Init => IInv
  BY InitHolds
<1>2. IInv /\ [Next]_vars => IInv'
  BY StepHolds
<1> QED
  BY <1>1, <1>2, PTL DEF Spec

\* What executions have spent is counted up or reset, whatever the step.
LEMMA SpentStep ==
  ASSUME spent \in [Jobs -> Nat], [Next]_vars
  PROVE  spent' \in [Jobs -> Nat]
<1>1. ASSUME NEW j, \/ spent' = [spent EXCEPT ![j] = 0]
                   \/ spent' = [spent EXCEPT ![j] = @ + 1]
      PROVE  spent' \in [Jobs -> Nat]
  BY <1>1
<1>2. CASE UNCHANGED spent
  BY <1>2
<1>3. ASSUME NEW j \in Jobs, Queue!RequeueDead(j)
      PROVE  spent' \in [Jobs -> Nat]
  BY <1>1, <1>3 DEF Queue!RequeueDead
<1>4. ASSUME NEW w \in Workers, NEW j \in Jobs, Queue!Claim(w, j) \/ Queue!DeadLetterExpired(w, j)
      PROVE  spent' \in [Jobs -> Nat]
  <2>1. \/ UNCHANGED spent
        \/ spent' = [spent EXCEPT ![j] = @ + 1]
    BY <1>4 DEF Queue!Claim, Queue!DeadLetterExpired
  <2> QED
    BY <1>1, <1>2, <2>1
<1>5. ASSUME NEW w \in Workers, Queue!Fail(w)
      PROVE  spent' \in [Jobs -> Nat]
  <2>1. \/ UNCHANGED spent
        \/ spent' = [spent EXCEPT ![worker[w].job] = @ + 1]
    BY <1>5 DEF Queue!Fail, Queue!FailRow
  <2> QED
    BY <1>1, <1>2, <2>1
<1>6. ASSUME Request \/ Tick \/ UNCHANGED vars
      PROVE  UNCHANGED spent \/ \E j \in Jobs : Queue!RequeueDead(j)
  BY <1>6 DEF Request, Refresh, RefreshDue, Admit, PruneRun, Subscribe, Unsubscribe,
     ToggleAutoQueue, PublishEpisode, Requeue, Queue!Enqueue, Tick, Queue!Tick, queue, vars
<1>7. ASSUME NEW w \in Workers, WorkerStep(w)
      PROVE  \/ UNCHANGED spent
             \/ \E j \in Jobs : Queue!Claim(w, j) \/ Queue!DeadLetterExpired(w, j)
             \/ Queue!Fail(w)
  BY <1>7 DEF WorkerStep, Take, Expire, Enter, Queue!Start, Sync, ClaimSync, Fetch, Ingest,
     Finalize, Refuse, Terminalize, Raise, Complete, Queue!Complete, Fail, Crash, Queue!Crash
<1> QED
  BY <1>2, <1>3, <1>4, <1>5, <1>6, <1>7 DEF Next

\* Every variable keeps its type.
THEOREM TypeCorrect == Spec => []TypeOK
<1>1. Init => spent \in [Jobs -> Nat]
  BY DEF Init, Queue!Init
<1>2. spent \in [Jobs -> Nat] /\ [Next]_vars => (spent \in [Jobs -> Nat])'
  BY SpentStep
<1>3. IInv /\ spent \in [Jobs -> Nat] => TypeOK
  <2> SUFFICES ASSUME IInv, spent \in [Jobs -> Nat] PROVE TypeOK
    OBVIOUS
  <2>1. QP!Row = Queue!Row /\ QP!Worker = Queue!Worker
    BY DEF QP!Row, Queue!Row, QP!Worker, Queue!Worker, QP!Status, Queue!Status, QP!Waiting,
       Queue!Waiting, QP!Terminal, Queue!Terminal, QP!Phases, Queue!Phases
  <2>2. Queue!TypeOK
    BY <2>1 DEF Queue!TypeOK, IInv, QP!Tidy
  <2> QED
    BY <2>2 DEF TypeOK, IInv, TypesOK
<1> QED
  BY <1>1, <1>2, <1>3, Invariant, PTL DEF Spec

\* A generation under way has a job that will end it, or is stranded by a dead
\* letter whose hook did not apply (podcasts/sync.py, dead_letter_...).
THEOREM SyncNeverLosesItsJob == Spec => []ActiveSyncHasJob
<1>1. IInv => ActiveSyncHasJob
  BY DEF IInv
<1> QED
  BY <1>1, Invariant, PTL

\* Every transaction that changes items leaves their runs with the status they
\* have (recompute_refresh_runs_in_txn).
THEOREM RunsFollowTheirItems == Spec => []RunsAgreeWithItems
<1>1. IInv => RunsAgreeWithItems
  BY DEF IInv
<1> QED
  BY <1>1, Invariant, PTL

\* Whoever joined a generation sees it as it is.
THEOREM JoinersSeeTheGeneration == Spec => []JoinedItemsMirror
<1>1. IInv => JoinedItemsMirror
  BY DEF IInv, EpochOK, ItemOK, JoinedItemsMirror
<1> QED
  BY <1>1, Invariant, PTL

\* An item counts what its generation found first, however it ended.
THEOREM CountsAreExact == Spec => []CountIsWhatWasIngested
<1>1. IInv => CountIsWhatWasIngested
  BY DEF IInv, EpochOK, ItemOK, CountIsWhatWasIngested
<1> QED
  BY <1>1, Invariant, PTL

\* The watermark passes no episode that was not queued.
THEOREM WatermarkIsSafe == Spec => []WatermarkMissesNothing
<1>1. IInv => WatermarkMissesNothing
  BY DEF IInv, EpochOK, WatermarkOK, WatermarkMissesNothing
<1> QED
  BY <1>1, Invariant, PTL

=============================================================================
