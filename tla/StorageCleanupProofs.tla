------------------------- MODULE StorageCleanupProofs -------------------------
(* What holds of StorageCleanup for any workers, jobs, writers, windows and     *)
(* time-outs: a deleting media keeps its job, a hold is exclusive, nothing that *)
(* is owned is taken away by a job, and nothing that is not owned is left.      *)
EXTENDS StorageCleanup, FiniteSetTheorems, TLAPS

\* The queue's own invariant, and that each of its actions keeps it.
QP == INSTANCE JobQueueProofs WITH
  Allowed <- [w \in Workers |-> Jobs], UnknownKind <- {}, NeverPruneDead <- Jobs,
  RetryDelays <- <<>>, LeaseTicks <- 1, MaxDelay <- Larger(Window, Grace)

-----------------------------------------------------------------------------
(* The mark on the media: whatever happens *)

\* What a teardown has decided for good, and not to do again.
Final == {"DeletionCommitted", "Voided", "NoOp", "Stale"}

TypesOK ==
  /\ media \in Media /\ object \in BOOLEAN /\ sweeping \in BOOLEAN
  /\ cleanup \in [Cleanups -> CleanupCheckpoint]
  /\ teardown \in [Teardowns -> Teardown]
  /\ writer \in [Writers -> Writer]
  /\ exec \in [Workers -> Executor]
  /\ \A j \in Cleanups : row[j].wait <= Window

Gone == ~media.live => ~media.owned /\ media.intent = NoIntent

\* A handler is at a statement of its own kind, and has returned only from a
\* teardown that is decided.
PlaceOK(w) ==
  LET j == worker[w].job IN
  /\ worker[w].pc = "executing" <=> exec[w].at # "none"
  /\ exec[w].at \in {"resolve", "delete", "record"} => j \in Cleanups
  /\ exec[w].at \in {"prepare", "commit", "storage"} => j \in Teardowns
  /\ exec[w].at = "commit" => teardown[j].kind # "Unprepared"
  /\ exec[w].at = "storage" => teardown[j].kind = "DeletionCommitted"
  /\ worker[w].pc = "completing" /\ j \in Teardowns => teardown[j].kind \in Final
  /\ worker[w].pc = "rescheduling" /\ j \in Cleanups => exec[w].wait <= Window

\* An intent comes once, with its job, and is over when the teardown is decided.
IntentOK(t) ==
  /\ row[t].status = "absent" => teardown[t].kind = "Unprepared"
  /\ row[t].status = "succeeded" \/ teardown[t].kind \in Final => media.intent # t
  /\ row[t].status = "succeeded" => teardown[t].kind \in Final
  /\ teardown[t].kind = "DeletionCommitted" => ~media.live

Marks ==
  /\ QP!Tidy /\ TypesOK /\ Gone /\ IntentHasJob
  /\ \A w \in Workers : PlaceOK(w)
  /\ \A t \in Teardowns : IntentOK(t)

-----------------------------------------------------------------------------
(* The queue *)

LEMMA QueueAssumptions ==
  /\ QP!PolicyAssumption /\ QP!WorkersAssumption
  /\ \A n \in Nat : QP!RetryDelay(n) \in Nat
<1>1. <<>> \in Seq(Nat)
  OBVIOUS
<1>2. NoWorker \notin Workers /\ NoJob \notin Jobs /\ MaxAttempts \in Nat \ {0}
      /\ MaxClaims \in Nat /\ Larger(Window, Grace) \in Nat
  BY StorageAssumption DEF Jobs, Larger
<1> QED
  BY <1>1, <1>2 DEF QP!PolicyAssumption, QP!WorkersAssumption, QP!RetryDelay

\* The queue of this module is the one the lemmas are about.
LEMMA SameQueue ==
  /\ \A w \in Workers : Queue!ClaimIsCurrent(w) <=> QP!ClaimIsCurrent(w)
  /\ \A w \in Workers, j \in Jobs :
       /\ Queue!Owns(w, j) <=> QP!Owns(w, j)
       /\ Queue!Claim(w, j) <=> QP!Claim(w, j)
       /\ Queue!DeadLetterExpired(w, j) <=> QP!DeadLetterExpired(w, j)
  /\ \A j \in Jobs :
       /\ Queue!Enqueue(j) <=> QP!Enqueue(j)
       /\ Queue!UpdateUnclaimed(j) <=> QP!UpdateUnclaimed(j)
       /\ Queue!RequeueDead(j) <=> QP!RequeueDead(j)
  /\ \A w \in Workers :
       /\ Queue!Start(w) <=> QP!Start(w)
       /\ Queue!Complete(w) <=> QP!Complete(w)
       /\ Queue!Reschedule(w) <=> QP!Reschedule(w)
       /\ Queue!Fail(w) <=> QP!Fail(w)
       /\ Queue!Crash(w) <=> QP!Crash(w)
       /\ \A pc \in QP!Phases : Queue!Goto(w, pc) <=> QP!Goto(w, pc)
  /\ Queue!Tick <=> QP!Tick
  /\ Queue!Init <=> QP!Init
<1>1. \A w \in Workers, j \in Jobs : Queue!Owns(w, j) <=> QP!Owns(w, j)
  BY DEF Queue!Owns, QP!Owns, Queue!LeaseLive, QP!LeaseLive
<1>2. \A w \in Workers : Queue!ClaimIsCurrent(w) <=> QP!ClaimIsCurrent(w)
  BY DEF Queue!ClaimIsCurrent, QP!ClaimIsCurrent, Queue!Owns, QP!Owns,
         Queue!LeaseLive, QP!LeaseLive
<1>3. \A w \in Workers, j \in Jobs : Queue!Claim(w, j) <=> QP!Claim(w, j)
  BY DEF Queue!Claim, QP!Claim, Queue!Claimed, QP!Claimed, Queue!Claimable, QP!Claimable,
         Queue!Waiting, QP!Waiting, Queue!Due, QP!Due, Queue!LeaseLive, QP!LeaseLive
<1>4. \A w \in Workers, j \in Jobs :
        Queue!DeadLetterExpired(w, j) <=> QP!DeadLetterExpired(w, j)
  BY DEF Queue!DeadLetterExpired, QP!DeadLetterExpired, Queue!LeaseLive, QP!LeaseLive,
         Queue!Expired, QP!Expired, Queue!Unclaimed, QP!Unclaimed
<1>5. \A j \in Jobs : Queue!Enqueue(j) <=> QP!Enqueue(j)
  BY DEF Queue!Enqueue, QP!Enqueue, Queue!Fresh, QP!Fresh, Queue!Unclaimed, QP!Unclaimed
<1>6. \A j \in Jobs : Queue!RequeueDead(j) <=> QP!RequeueDead(j)
  BY DEF Queue!RequeueDead, QP!RequeueDead, Queue!Repairable, QP!Repairable,
         Queue!Unclaimed, QP!Unclaimed
<1>7. \A w \in Workers : Queue!Start(w) <=> QP!Start(w)
  BY DEF Queue!Start, QP!Start, Queue!Owns, QP!Owns, Queue!LeaseLive, QP!LeaseLive,
         Queue!Goto, QP!Goto, Queue!Return, QP!Return, Queue!Idle, QP!Idle
<1>8. \A w \in Workers : Queue!Complete(w) <=> QP!Complete(w)
  BY DEF Queue!Complete, QP!Complete, Queue!CompleteRow, QP!CompleteRow, Queue!Owns, QP!Owns,
         Queue!LeaseLive, QP!LeaseLive, Queue!Released, QP!Released, Queue!Unclaimed,
         QP!Unclaimed, Queue!Return, QP!Return, Queue!Idle, QP!Idle
<1>9. \A w \in Workers : Queue!Fail(w) <=> QP!Fail(w)
  BY DEF Queue!Fail, QP!Fail, Queue!FailRow, QP!FailRow, Queue!Owns, QP!Owns,
         Queue!LeaseLive, QP!LeaseLive, Queue!RetryDelay, QP!RetryDelay, Queue!Unclaimed,
         QP!Unclaimed, Queue!Return, QP!Return, Queue!Idle, QP!Idle
<1>10. \A w \in Workers : Queue!Crash(w) <=> QP!Crash(w)
  BY DEF Queue!Crash, QP!Crash, Queue!Return, QP!Return, Queue!Idle, QP!Idle
<1>11. \A w \in Workers, pc \in QP!Phases : Queue!Goto(w, pc) <=> QP!Goto(w, pc)
  BY DEF Queue!Goto, QP!Goto
<1>12. Queue!Tick <=> QP!Tick
  BY DEF Queue!Tick, QP!Tick, Queue!Elapse, QP!Elapse
<1>13. \A w \in Workers : Queue!Reschedule(w) <=> QP!Reschedule(w)
  BY <1>2 DEF Queue!Reschedule, QP!Reschedule, Queue!RescheduleRow, QP!RescheduleRow,
         Queue!ClaimIsCurrent, QP!ClaimIsCurrent, Queue!Owns, QP!Owns,
         Queue!LeaseLive, QP!LeaseLive, Queue!Refunded, QP!Refunded,
         Queue!Unclaimed, QP!Unclaimed, Queue!Return, QP!Return, Queue!Idle, QP!Idle
<1>15. \A j \in Jobs : Queue!UpdateUnclaimed(j) <=> QP!UpdateUnclaimed(j)
  BY DEF Queue!UpdateUnclaimed, QP!UpdateUnclaimed
<1>14. Queue!Init <=> QP!Init
  BY DEF Queue!Init, QP!Init, Queue!Fresh, QP!Fresh, Queue!Unclaimed, QP!Unclaimed,
         Queue!Idle, QP!Idle
<1> QED
  BY <1>1, <1>2, <1>3, <1>4, <1>5, <1>6, <1>7, <1>8, <1>9, <1>10, <1>11, <1>12, <1>13, <1>14,
     <1>15

\* A handler's statement leaves the queue alone; the handler goes on or returns.
LEMMA HandlerMoves ==
  ASSUME NEW w \in Workers, HandlerStep(w) \/ Defect(w)
  PROVE  /\ worker[w].pc = "executing" /\ UNCHANGED <<row, claims, spent>>
         /\ \/ UNCHANGED worker
            \/ \E pc \in {"completing", "failing", "rescheduling"} : Queue!Goto(w, pc)
<1> DEFINE Moves == /\ UNCHANGED <<row, claims, spent>>
                    /\ \/ UNCHANGED worker
                       \/ \E pc \in {"completing", "failing", "rescheduling"} : Queue!Goto(w, pc)
<1>1. \A pc \in {"completing", "failing", "rescheduling"} : End(w, pc) => Moves
  BY DEF End
<1>2. \A n : AskAgain(w, n) => Moves
  BY DEF AskAgain
<1>3. LoseLease(w) \/ Absent(w) => Moves
  BY <1>1 DEF LoseLease, Absent
<1>4. \A t, s : Checkpoint(w, t, s) => Moves
  <2> HIDE DEF Moves
  <2> QED
    BY <1>1, <1>2 DEF Checkpoint
<1>5. UNCHANGED queue => Moves
  BY DEF queue
<1> HIDE DEF Moves
<1>6. CASE Read(w)
  BY <1>1, <1>5, <1>6 DEF Read, At, Moves
<1>7. CASE Resolve(w)
  BY <1>1, <1>2, <1>3, <1>5, <1>7 DEF Resolve, Fenced, At, Moves
<1>8. CASE DeleteObject(w) \/ RecordDeleted(w)
  BY <1>1, <1>3, <1>5, <1>8 DEF DeleteObject, RecordDeleted, Fenced, At, Moves
<1>9. CASE PreparePaths(w)
  BY <1>3, <1>4, <1>9 DEF PreparePaths, Fenced, At, Moves
<1>10. CASE CommitOrVoid(w)
  BY <1>3, <1>4, <1>10 DEF CommitOrVoid, Fenced, At, Moves
<1>11. CASE DeletePaths(w)
  BY <1>1, <1>2, <1>11 DEF DeletePaths, At, Moves
<1>12. CASE Defect(w)
  BY <1>1, <1>12 DEF Defect, Moves
<1> QED
  BY <1>6, <1>7, <1>8, <1>9, <1>10, <1>11, <1>12 DEF HandlerStep

\* What is not of the workers leaves the queue alone, but for these.
LEMMA OthersRest ==
  ASSUME \/ \E i \in Writers : StartPut(i) \/ Land(i) \/ Own(i) \/ Discard(i) \/ LoseWriter(i)
         \/ AddReference \/ RepointGrants \/ SweepFinds \/ SweepDeletes \/ UNCHANGED vars
  PROVE  UNCHANGED <<row, worker, claims, teardown, cleanup, exec, faults>>
BY DEF StartPut, Land, Own, Discard, LoseWriter, AddReference, RepointGrants, SweepFinds,
       SweepDeletes, OnlyWriterMoves, OnlyMediaMoves, vars, queue, payload, rest

LEMMA QueueStep ==
  ASSUME QP!Tidy, [Next]_vars
  PROVE  QP!TidyStep
<1>1. CASE UNCHANGED <<row, worker, claims>>
  <2>1. QP!Quiet
    BY <1>1, QP!SameRowQuiet, QueueAssumptions DEF QP!Quiet, QP!QuietWorker, QP!Tidy
  <2> QED
    BY <2>1, QP!QuietTidy, QueueAssumptions
<1>2. ASSUME NEW j \in Jobs, QP!Enqueue(j) \/ QP!UpdateUnclaimed(j) \/ QP!RequeueDead(j)
      PROVE  QP!TidyStep
  BY <1>2, QP!CallerTidy, QueueAssumptions DEF QP!Caller
<1>3. ASSUME NEW i \in Writers, Reserve(i) \/ Finalize(i)
      PROVE  QP!TidyStep
  <2>1. Cleanups \subseteq Jobs /\ Reservations \subseteq Jobs
    BY DEF Jobs, Reservations
  <2>2. CASE Reserve(i)
    BY <1>2, <2>1, <2>2, SameQueue DEF Reserve, Rearm
  <2>3. CASE Finalize(i)
    BY <1>1, <1>2, <2>1, <2>3, SameQueue DEF Finalize, queue
  <2> QED
    BY <1>3, <2>2, <2>3
<1>4. ASSUME NEW t \in Teardowns, ClaimTeardown(t)
      PROVE  QP!TidyStep
  BY <1>2, <1>4, SameQueue DEF ClaimTeardown, Jobs
<1>5. ASSUME NEW j \in Jobs, Repair(j)
      PROVE  QP!TidyStep
  BY <1>2, <1>5, SameQueue DEF Repair
<1>6. ASSUME NEW w \in Workers, NEW j \in Jobs, Take(w, j)
      PROVE  QP!TidyStep
  <2>1. QP!Claim(w, j) \/ QP!DeadLetterExpired(w, j)
    BY <1>6, SameQueue DEF Take
  <2> QED
    BY <2>1, QP!ClaimTidy, QP!ElapseTidy, QueueAssumptions
<1>7. ASSUME NEW w \in Workers, EnterHandler(w) \/ Settle(w) \/ Crash(w)
      PROVE  QP!TidyStep
  <2>1. QP!Start(w) \/ QP!Complete(w) \/ QP!Reschedule(w) \/ QP!Fail(w) \/ QP!Crash(w)
    BY <1>7, SameQueue DEF EnterHandler, Settle, Reschedule, Crash
  <2> QED
    BY <2>1, QP!StartTidy, QP!SettleTidy, QP!MemoryTidy, QueueAssumptions DEF QP!Crash
<1>8. ASSUME NEW w \in Workers, HandlerStep(w) \/ Defect(w)
      PROVE  QP!TidyStep
  <2>1. /\ worker[w].pc # "idle" /\ UNCHANGED <<row, claims>>
        /\ \/ UNCHANGED worker
           \/ \E pc \in {"completing", "failing", "rescheduling"} : Queue!Goto(w, pc)
    BY <1>8, HandlerMoves
  <2>2. UNCHANGED worker \/ \E pc \in QP!Phases \ {"idle"} : QP!Goto(w, pc)
    BY <2>1, SameQueue DEF QP!Phases
  <2> QED
    BY <1>1, <2>1, <2>2, QP!MemoryTidy, QueueAssumptions
<1>9. CASE Tick
  <2>1. QP!Tick \/ UNCHANGED <<row, worker, claims>>
    BY <1>9, SameQueue DEF Tick, queue
  <2> QED
    BY <1>1, <2>1, QP!ElapseTidy, QueueAssumptions
<1> QED
  BY <1>1, <1>3, <1>4, <1>5, <1>6, <1>7, <1>8, <1>9, OthersRest DEF Next, WriterStep, WorkerStep

-----------------------------------------------------------------------------
(* What the actions do to the rows and to the workers *)

Only(j) == \A k \in Jobs : k # j => row'[k] = row[k]

\* The status and the time to available_at become these.
Becomes(j, status, wait) == Only(j) /\ row'[j].status = status /\ row'[j].wait = wait

Returns(w) ==
  /\ worker[w].pc # "idle" /\ worker'[w].pc = "idle"
  /\ \A v \in Workers : v # w => worker'[v] = worker[v]

Goes(w, pc) ==
  /\ worker'[w].pc = pc /\ worker'[w].job = worker[w].job
  /\ \A v \in Workers : v # w => worker'[v] = worker[v]

LEMMA MemoryEffect ==
  ASSUME QP!Tidy, NEW w \in Workers
  PROVE  /\ Queue!Return(w) /\ worker[w].pc # "idle" => Returns(w)
         /\ \A pc \in QP!Phases : Queue!Goto(w, pc) => Goes(w, pc)
BY DEF QP!Tidy, QP!Worker, Queue!Return, Queue!Idle, Queue!Goto, Returns, Goes

LEMMA RearmEffect ==
  ASSUME QP!Tidy, NEW j \in Cleanups, Rearm(j)
  PROVE  /\ Becomes(j, "pending", Window) /\ UNCHANGED worker
         /\ row[j].status = "pending" \/ (row[j].status = "absent" /\ Reservations = {})
<1>1. j \in Jobs /\ row[j] \in QP!Row
  BY DEF Jobs, QP!Tidy
<1>2. CASE Reservations = {} /\ Queue!Enqueue(j)
  BY <1>1, <1>2 DEF Rearm, Queue!Enqueue, Queue!Fresh, Queue!Unclaimed, QP!Tidy, Becomes, Only
<1>3. CASE Queue!UpdateUnclaimed(j)
  BY <1>1, <1>3 DEF Rearm, Queue!UpdateUnclaimed, QP!Tidy, QP!Row, Becomes, Only
<1> QED
  BY <1>2, <1>3 DEF Rearm

LEMMA FinalizeEffect ==
  ASSUME QP!Tidy, NEW j \in Reservations, Queue!UpdateUnclaimed(j), row'[j].wait = 0
  PROVE  Becomes(j, "pending", 0) /\ UNCHANGED worker /\ row[j].status = "pending"
BY DEF Reservations, Jobs, Queue!UpdateUnclaimed, QP!Tidy, QP!Row, Becomes, Only

LEMMA ClaimTeardownEffect ==
  ASSUME QP!Tidy, NEW t \in Teardowns, Queue!Enqueue(t), row'[t].wait = 0
  PROVE  Becomes(t, "pending", 0) /\ UNCHANGED worker /\ row[t].status = "absent"
BY DEF Jobs, Queue!Enqueue, Queue!Fresh, Queue!Unclaimed, QP!Tidy, Becomes, Only

LEMMA RepairEffect ==
  ASSUME QP!Tidy, NEW j \in Jobs, Queue!RequeueDead(j)
  PROVE  Becomes(j, "pending", 0) /\ UNCHANGED worker /\ row[j].status = "dead"
BY DEF Queue!RequeueDead, Queue!Repairable, Queue!Unclaimed, QP!Tidy, Becomes, Only

LEMMA ClaimEffect ==
  ASSUME QP!Tidy, NEW w \in Workers, NEW j \in Jobs, Queue!Claim(w, j)
  PROVE  /\ Becomes(j, "running", row[j].wait)
         /\ \/ row[j].status = "running"
            \/ row[j].status \in {"pending", "failed"} /\ row[j].wait = 0
         /\ worker[w].pc = "idle" /\ worker'[w].pc = "claimed" /\ worker'[w].job = j
         /\ \A v \in Workers : v # w => worker'[v] = worker[v]
<1>1. row[j] \in QP!Row /\ row'[j] = Queue!Claimed(w, j)
  BY DEF QP!Tidy, Queue!Claim
<1>2. Queue!Claimed(w, j).status = "running" /\ Queue!Claimed(w, j).wait = row[j].wait
  BY <1>1 DEF Queue!Claimed, QP!Row
<1> QED
  BY <1>1, <1>2 DEF QP!Tidy, Queue!Claim, Queue!Claimable, Queue!Waiting, Queue!Due, Becomes, Only

LEMMA ExpireEffect ==
  ASSUME QP!Tidy, NEW w \in Workers, NEW j \in Jobs, Queue!DeadLetterExpired(w, j)
  PROVE  Becomes(j, "dead", row[j].wait) /\ UNCHANGED worker /\ row[j].status = "running"
BY DEF Queue!DeadLetterExpired, Queue!Expired, Queue!Unclaimed, QP!Tidy, Becomes, Only

LEMMA StartEffect ==
  ASSUME QP!Tidy, NEW w \in Workers, Queue!Start(w)
  PROVE  /\ \A k \in Jobs : row'[k].status = row[k].status /\ row'[k].wait = row[k].wait
         /\ worker[w].pc = "claimed"
         /\ IF Queue!Owns(w, worker[w].job) THEN Goes(w, "executing") ELSE Returns(w)
<1>1. worker[w].pc = "claimed" /\ worker[w].job \in Jobs
  BY DEF Queue!Start, QP!Tidy, QP!Worker
<1>2. CASE Queue!Owns(w, worker[w].job)
  <2>1. row' = [row EXCEPT ![worker[w].job].lease = 1] /\ Queue!Goto(w, "executing")
    BY <1>2 DEF Queue!Start
  <2>2. \A k \in Jobs : row'[k].status = row[k].status /\ row'[k].wait = row[k].wait
    BY <1>1, <2>1 DEF QP!Tidy, QP!Row
  <2>3. "executing" \in QP!Phases
    BY DEF QP!Phases
  <2> QED
    BY <1>1, <1>2, <2>1, <2>2, <2>3, MemoryEffect
<1>3. CASE ~Queue!Owns(w, worker[w].job)
  BY <1>1, <1>3, MemoryEffect DEF Queue!Start
<1> QED
  BY <1>2, <1>3

\* A settling transaction writes the row of its own job, if that is still its claim.
Settles(w, statuses) ==
  LET j == worker[w].job IN
  \/ UNCHANGED row
  \/ QP!Holds(w) /\ row[j].status = "running" /\ Only(j) /\ row'[j].status \in statuses

LEMMA SettleEffect ==
  ASSUME QP!Tidy, NEW w \in Workers
  PROVE  /\ Queue!Complete(w) =>
              worker[w].pc = "completing" /\ Returns(w) /\ Settles(w, {"succeeded"})
         /\ Queue!Reschedule(w) =>
              /\ worker[w].pc = "rescheduling" /\ Returns(w) /\ Settles(w, {"pending"})
              /\ row' = row \/ Queue!ClaimIsCurrent(w)
         /\ Queue!Fail(w) =>
              /\ worker[w].pc = "failing" /\ Returns(w) /\ Settles(w, {"failed", "dead"})
              /\ row' = row \/ row'[worker[w].job].wait = 0
<1> DEFINE j == worker[w].job
<1>1. worker[w].pc # "idle" => j \in Jobs
  BY DEF QP!Tidy, QP!Worker
<1>2. Queue!Owns(w, j) /\ worker[w].pc # "idle" => QP!Holds(w) /\ row[j].status = "running"
  BY <1>1, SameQueue DEF QP!Holds, Queue!Owns
<1>3. ASSUME Queue!Complete(w)
      PROVE  worker[w].pc = "completing" /\ Returns(w) /\ Settles(w, {"succeeded"})
  <2>1. worker[w].pc = "completing" /\ Returns(w)
    BY <1>3, MemoryEffect DEF Queue!Complete
  <2>2. Settles(w, {"succeeded"})
    BY <1>1, <1>2, <1>3, <2>1 DEF Queue!Complete, Queue!CompleteRow, Queue!Released, Queue!Unclaimed,
       QP!Tidy, Settles, Only
  <2> QED
    BY <2>1, <2>2
<1>4. ASSUME Queue!Reschedule(w)
      PROVE  /\ worker[w].pc = "rescheduling" /\ Returns(w) /\ Settles(w, {"pending"})
             /\ row' = row \/ Queue!ClaimIsCurrent(w)
  <2>1. worker[w].pc = "rescheduling" /\ Returns(w)
    BY <1>4, MemoryEffect DEF Queue!Reschedule
  <2>2. Queue!ClaimIsCurrent(w) => Queue!Owns(w, j)
    BY DEF Queue!ClaimIsCurrent
  <2>3. row' = row \/ Queue!ClaimIsCurrent(w)
    BY <1>4 DEF Queue!Reschedule, Queue!RescheduleRow
  <2>4. Settles(w, {"pending"})
    <3>1. CASE Queue!ClaimIsCurrent(w)
      <4>0. PICK d : row' = [row EXCEPT ![j] = Queue!Unclaimed("pending",
                               Queue!Refunded(row[j].attempts), d, row[j].errored)]
        BY <1>4, <3>1 DEF Queue!Reschedule, Queue!RescheduleRow
      <4>1. PICK r : row' = [row EXCEPT ![j] = r] /\ r.status = "pending"
        <5> DEFINE q == Queue!Unclaimed("pending", Queue!Refunded(row[j].attempts), d,
                                        row[j].errored)
        <5>1. q.status = "pending"
          BY DEF Queue!Unclaimed
        <5> HIDE DEF q
        <5> QED
          BY <4>0, <5>1 DEF q
      <4> QED
        BY <1>1, <1>2, <2>1, <2>2, <3>1, <4>1 DEF QP!Tidy, Settles, Only
    <3> QED
      BY <2>3, <3>1 DEF Settles
  <2> QED
    BY <2>1, <2>3, <2>4
<1>5. ASSUME Queue!Fail(w)
      PROVE  /\ worker[w].pc = "failing" /\ Returns(w) /\ Settles(w, {"failed", "dead"})
             /\ row' = row \/ row'[worker[w].job].wait = 0
  <2>1. worker[w].pc = "failing" /\ Returns(w)
    BY <1>5, MemoryEffect DEF Queue!Fail
  <2>2. Queue!RetryDelay(row[j].attempts) = 0
    BY DEF Queue!RetryDelay
  <2>3. Queue!FailRow(w, 0)
    BY <1>5, <2>2 DEF Queue!Fail
  <2>4. Settles(w, {"failed", "dead"}) /\ (row' = row \/ row'[j].wait = 0)
    BY <1>1, <1>2, <2>1, <2>3 DEF Queue!FailRow, Queue!Unclaimed, QP!Tidy, Settles, Only
  <2> QED
    BY <2>1, <2>4
<1> QED
  BY <1>3, <1>4, <1>5

LEMMA TickEffect ==
  ASSUME QP!Tidy, Queue!Tick
  PROVE  /\ UNCHANGED worker
         /\ \A k \in Jobs : /\ row'[k].status = row[k].status
                            /\ row'[k].wait = Queue!Elapse(row[k].wait)
<1>1. ASSUME NEW k \in Jobs
      PROVE  row'[k].status = row[k].status /\ row'[k].wait = Queue!Elapse(row[k].wait)
  <2> DEFINE l == Queue!Elapse(row[k].lease)
             d == Queue!Elapse(row[k].wait)
  <2>1. row[k] \in QP!Row /\ row'[k] = [row[k] EXCEPT !.lease = l, !.wait = d]
    BY DEF QP!Tidy, Queue!Tick
  <2> HIDE DEF l, d
  <2>2. row'[k].status = row[k].status /\ row'[k].wait = d
    BY <2>1 DEF QP!Row
  <2> QED
    BY <2>2 DEF d
<1> QED
  BY <1>1 DEF Queue!Tick

-----------------------------------------------------------------------------
(* The time until which a write may land *)

\* Every set of naturals that has a member has a least one: the intervals up to
\* its members are well ordered by inclusion.
LEMMA Least ==
  ASSUME NEW T, T \subseteq Nat, T # {}
  PROVE  \E m \in T : \A k \in T : m <= k
<1> DEFINE R == StrictSubsetOrdering(Nat)
           S == {1..n : n \in T}
<1>1. IsWellFoundedOn(R, FiniteSubsetsOf(Nat))
  BY FS_StrictSubsetOrderingWellFounded
<1>2. S \subseteq FiniteSubsetsOf(Nat) /\ S # {}
  <2>1. ASSUME NEW n \in T PROVE 1..n \in FiniteSubsetsOf(Nat)
    <3>1. n \in Int /\ 1 \in Int /\ 1..n \subseteq Nat
      OBVIOUS
    <3>2. IsFiniteSet(1..n)
      BY <3>1, FS_Interval
    <3> QED
      BY <3>1, <3>2 DEF FiniteSubsetsOf
  <2> QED
    BY <2>1
<1>3. PICK s \in S : \A r \in S : <<r, s>> \notin R
  <2> HIDE DEF R, S
  <2> QED
    BY <1>1, <1>2, WFMin
<1>4. PICK m \in T : s = 1..m
  OBVIOUS
<1>5. ASSUME NEW k \in T, k < m PROVE FALSE
  <2>1. /\ 1..k \subseteq 1..m /\ m \in 1..m /\ m \notin 1..k
        /\ 1..k \in SUBSET Nat /\ 1..m \in SUBSET Nat
    BY <1>5
  <2>2. <<1..k, 1..m>> \in R
    BY <2>1 DEF StrictSubsetOrdering
  <2> QED
    BY <1>3, <1>4, <2>2
<1> QED
  BY <1>5

\* WriteMayLandFor is what it says.
LEMMA LatestWindow ==
  ASSUME QP!Tidy, TypesOK
  PROVE  /\ WriteMayLandFor \in 0..Window
         /\ \A j \in Reservations : row[j].wait <= WriteMayLandFor
<1> DEFINE T == {n \in 0..Window : \A j \in Reservations : row[j].wait <= n}
<1>0. Window \in Nat
  BY StorageAssumption
<1>1. \A j \in Reservations : row[j].wait \in 0..Window
  <2> SUFFICES ASSUME NEW j \in Reservations PROVE row[j].wait \in 0..Window
    OBVIOUS
  <2>1. j \in Cleanups /\ row[j] \in QP!Row
    BY DEF Reservations, Jobs, QP!Tidy
  <2>2. row[j].wait \in Nat /\ row[j].wait <= Window
    BY <2>1 DEF TypesOK, QP!Row
  <2> QED
    BY <1>0, <2>2
<1>2. T \subseteq Nat /\ Window \in T
  BY <1>0, <1>1
<1>3. PICK m \in T : \A k \in T : m <= k
  <2> HIDE DEF T
  <2> QED
    BY <1>2, Least
<1>4. m = 0 \/ \E j \in Reservations : row[j].wait = m
  <2> SUFFICES ASSUME m # 0, \A j \in Reservations : row[j].wait # m PROVE FALSE
    OBVIOUS
  <2>1. m \in 0..Window /\ \A j \in Reservations : row[j].wait <= m
    OBVIOUS
  <2>2. m - 1 \in 0..Window
    BY <1>0, <2>1
  <2>3. \A j \in Reservations : row[j].wait <= m - 1
    BY <1>1, <2>1
  <2>4. m - 1 \in T
    BY <2>2, <2>3
  <2>5. ~(m <= m - 1)
    BY <2>1
  <2> QED
    BY <1>3, <2>4, <2>5
<1>5. \E n \in 0..Window : /\ \A j \in Reservations : row[j].wait <= n
                           /\ n = 0 \/ \E j \in Reservations : row[j].wait = n
  BY <1>4
<1> HIDE DEF T
<1> QED
  BY <1>5 DEF WriteMayLandFor

-----------------------------------------------------------------------------
(* What a step may do to the mark *)

\* The media row: nothing revives it, an intent comes with its job.
MediaStep ==
  /\ media' \in Media
  /\ \/ /\ media'.live = media.live /\ media'.intent = media.intent
        /\ media'.owned = media.owned \/ media.live
     \/ /\ media.live /\ media.intent = NoIntent
        /\ media'.live /\ media'.intent \in Teardowns
        /\ row[media'.intent].status = "absent" /\ row'[media'.intent].status = "pending"
     \/ /\ media'.live = media.live /\ media'.owned = media.owned
        /\ media'.intent = NoIntent
     \/ media' = Deleted

\* The job of a teardown ends with its decision, or takes the mark with it.
TeardownRowStep(t) ==
  /\ row[t].status = "succeeded" => row'[t].status = "succeeded"
  /\ row'[t].status = "succeeded" => row[t].status = "succeeded" \/ teardown[t].kind \in Final
  /\ Nonterminal(t) => \/ Nonterminal(t)'
                       \/ row'[t].status = "succeeded"
                       \/ media'.intent # t

\* The checkpoint of a teardown.
TeardownStep(t) ==
  /\ teardown'[t] \in Teardown
  /\ \/ teardown'[t].kind = teardown[t].kind
     \/ /\ row[t].status # "absent" /\ teardown[t].kind # "DeletionCommitted"
        /\ \/ teardown'[t].kind = "PathsPrepared" /\ teardown[t].kind \notin Final
           \/ /\ teardown'[t].kind \in Final /\ media'.intent # t
              /\ teardown'[t].kind = "DeletionCommitted" => ~media'.live

MarkStep ==
  /\ MediaStep
  /\ \A t \in Teardowns : TeardownRowStep(t) /\ TeardownStep(t)
  /\ object' \in BOOLEAN /\ sweeping' \in BOOLEAN
  /\ cleanup' \in [Cleanups -> CleanupCheckpoint]
  /\ teardown' \in [Teardowns -> Teardown]
  /\ writer' \in [Writers -> Writer]
  /\ exec' \in [Workers -> Executor]
  /\ \A j \in Cleanups : row'[j].wait <= Window
  /\ \A w \in Workers : PlaceOK(w)'

LEMMA MarksKept ==
  ASSUME Marks, MarkStep, QP!TidyStep
  PROVE  Marks'
<1>0. NoIntent \notin Teardowns
  BY StorageAssumption DEF NoIntent
<1>1. TypesOK'
  BY DEF MarkStep, MediaStep, TypesOK
<1>2. Gone'
  BY <1>0 DEF Marks, Gone, MarkStep, MediaStep, Media, Deleted, TypesOK
<1>3. ASSUME NEW t \in Teardowns PROVE IntentOK(t)'
  <2>1. IntentOK(t) /\ TeardownRowStep(t) /\ TeardownStep(t) /\ MediaStep
    BY DEF Marks, MarkStep
  <2>2. media'.intent = t => media.intent = t \/ row[t].status = "absent"
    BY <1>0, <2>1 DEF MediaStep, Deleted
  <2>3. "Unprepared" \notin Final /\ "PathsPrepared" \notin Final /\ "DeletionCommitted" \in Final
    BY DEF Final
  <2>4. row'[t].status = "absent" => row[t].status = "absent"
    BY DEF QP!TidyStep, QP!NoneForgotten, Jobs
  <2>5. media.live \/ ~media'.live
    BY <2>1 DEF MediaStep, Deleted
  <2>6. teardown[t].kind \in Final => teardown'[t].kind \in Final
    BY <2>1 DEF TeardownStep
  <2>7. row'[t].status = "succeeded" => teardown'[t].kind \in Final
    BY <2>1, <2>6 DEF TeardownRowStep, IntentOK
  <2>8. teardown'[t].kind \in Final => media'.intent # t
    BY <2>1, <2>2, <2>3 DEF TeardownStep, IntentOK
  <2>9. teardown'[t].kind = "DeletionCommitted" => ~media'.live
    BY <2>1, <2>3, <2>5 DEF TeardownStep, IntentOK
  <2>10. row'[t].status = "absent" => teardown'[t].kind = "Unprepared"
    BY <2>1, <2>4 DEF TeardownStep, IntentOK
  <2> QED
    BY <2>7, <2>8, <2>9, <2>10 DEF IntentOK
<1>4. IntentHasJob'
  <2> SUFFICES ASSUME media'.intent # NoIntent
               PROVE  row'[media'.intent].status \in {"pending", "running", "failed"}
    BY DEF IntentHasJob, Nonterminal
  <2>1. PICK t \in Teardowns : t = media'.intent
    BY DEF MarkStep, MediaStep, Media, NoIntent
  <2>2. row'[t].status # "succeeded"
    BY <1>3, <2>1 DEF IntentOK
  <2>3. CASE media'.intent = media.intent
    BY <2>1, <2>2, <2>3 DEF Marks, IntentHasJob, MarkStep, TeardownRowStep, Nonterminal
  <2>4. CASE media'.intent # media.intent
    BY <2>1, <2>4 DEF MarkStep, MediaStep, Deleted
  <2> QED
    BY <2>1, <2>3, <2>4
<1> QED
  BY <1>1, <1>2, <1>3, <1>4 DEF Marks, MarkStep, QP!TidyStep

\* A worker whose memory is as before is at a statement that still makes sense.
LEMMA Bystander ==
  ASSUME Marks, \A t \in Teardowns : TeardownStep(t), NEW w \in Workers,
         worker'[w] = worker[w], exec'[w] = exec[w]
  PROVE  PlaceOK(w)'
<1> DEFINE j == worker[w].job
<1>1. PlaceOK(w)
  BY DEF Marks
<1>2. ASSUME j \in Teardowns
      PROVE  /\ teardown[j].kind \in Final => teardown'[j].kind \in Final
             /\ teardown[j].kind = "DeletionCommitted" => teardown'[j].kind = "DeletionCommitted"
             /\ teardown[j].kind # "Unprepared" => teardown'[j].kind # "Unprepared"
  BY <1>2 DEF TeardownStep, Final
<1> QED
  BY <1>1, <1>2 DEF PlaceOK

\* ... and a worker that is idle, or has just taken a job, is at none.
LEMMA AtNone ==
  ASSUME NEW w \in Workers, worker'[w].pc \in {"idle", "claimed", "failing"},
         exec'[w].at = "none"
  PROVE  PlaceOK(w)'
BY DEF PlaceOK

\* A media and its teardowns that are left alone.
LEMMA MarkRests ==
  ASSUME Marks
  PROVE  /\ media' = media => MediaStep
         /\ \A t \in Teardowns : teardown'[t] = teardown[t] => TeardownStep(t)
         /\ \A t \in Teardowns : row'[t].status = row[t].status => TeardownRowStep(t)
BY DEF Marks, TypesOK, MediaStep, TeardownStep, TeardownRowStep, IntentOK, Nonterminal

-----------------------------------------------------------------------------
(* Every step is such a step *)

\* One in which no handler moves.
LEMMA NoHandlerMoves ==
  ASSUME Marks, UNCHANGED <<worker, exec, teardown>>, MediaStep,
         \A t \in Teardowns : TeardownRowStep(t),
         object' \in BOOLEAN, sweeping' \in BOOLEAN,
         cleanup' \in [Cleanups -> CleanupCheckpoint], writer' \in [Writers -> Writer],
         \A j \in Cleanups : row'[j].wait <= Window
  PROVE  MarkStep
<1>1. \A t \in Teardowns : TeardownStep(t)
  BY MarkRests
<1>2. \A w \in Workers : PlaceOK(w)'
  BY <1>1, Bystander
<1> QED
  BY <1>1, <1>2 DEF Marks, TypesOK, MarkStep

\* What a writer's step leaves of the writers.
LEMMA WritersTyped ==
  ASSUME writer \in [Writers -> Writer], NEW i \in Writers
  PROVE  /\ \A pc \in {"idle", "lost", "done", "discarded"} \cup InWrite :
              Move(i, pc) => writer' \in [Writers -> Writer]
         /\ Displaced(i) \in [Writers -> Writer]
         /\ \A pc \in {"idle", "lost", "done", "discarded"} \cup InWrite, n \in 0..PutTicks :
              [writer EXCEPT ![i] = [pc |-> pc, left |-> n]] \in [Writers -> Writer]
<1>1. 0 \in 0..PutTicks
  BY StorageAssumption
<1>2. \A pc \in {"idle", "lost", "done", "discarded"} \cup InWrite :
        Move(i, pc) => writer' \in [Writers -> Writer]
  BY DEF Move, Writer
<1>3. Displaced(i) \in [Writers -> Writer]
  <2>1. [pc |-> "reserved", left |-> 0] \in Writer /\ [pc |-> "done", left |-> 0] \in Writer
    BY <1>1 DEF Writer, InWrite
  <2>2. \A x \in Writers : [writer[x] EXCEPT !.pc = "lost"] \in Writer
    BY DEF Writer
  <2> QED
    BY <2>1, <2>2 DEF Displaced
<1>4. \A pc \in {"idle", "lost", "done", "discarded"} \cup InWrite, n \in 0..PutTicks :
        [writer EXCEPT ![i] = [pc |-> pc, left |-> n]] \in [Writers -> Writer]
  BY DEF Writer
<1> QED
  BY <1>2, <1>3, <1>4

LEMMA OthersMark ==
  ASSUME Marks,
         \/ \E i \in Writers : StartPut(i) \/ Land(i) \/ Own(i) \/ Discard(i) \/ LoseWriter(i)
         \/ AddReference \/ RepointGrants \/ SweepFinds \/ SweepDeletes \/ UNCHANGED vars
  PROVE  MarkStep
<1>0. /\ UNCHANGED <<row, worker, claims, teardown, cleanup, exec>>
      /\ TypesOK /\ media \in Media
  BY OthersRest DEF Marks, TypesOK
<1>1. MediaStep /\ object' \in BOOLEAN /\ sweeping' \in BOOLEAN
  <2>1. ASSUME NEW i \in Writers,
               StartPut(i) \/ Land(i) \/ Own(i) \/ Discard(i) \/ LoseWriter(i)
        PROVE  MediaStep /\ object' \in BOOLEAN /\ sweeping' \in BOOLEAN
    <3>1. media' = media \/ (media.live /\ media' = [media EXCEPT !.owned = TRUE])
      BY <2>1 DEF StartPut, Land, Own, Discard, LoseWriter
    <3>2. MediaStep
      BY <1>0, <3>1 DEF MediaStep, Media
    <3>3. object' \in BOOLEAN /\ sweeping' \in BOOLEAN
      BY <1>0, <2>1 DEF StartPut, Land, Own, Discard, LoseWriter, OnlyWriterMoves, rest, TypesOK
    <3> QED
      BY <3>2, <3>3
  <2>2. CASE AddReference \/ RepointGrants
    <3>1. media' = [media EXCEPT !.referenced = TRUE]
      BY <2>2 DEF AddReference, RepointGrants
    <3>2. MediaStep
      BY <1>0, <3>1 DEF MediaStep, Media
    <3>3. object' \in BOOLEAN /\ sweeping' \in BOOLEAN
      BY <1>0, <2>2 DEF AddReference, RepointGrants, OnlyMediaMoves, rest, TypesOK
    <3> QED
      BY <3>2, <3>3
  <2>3. CASE SweepFinds \/ SweepDeletes \/ UNCHANGED vars
    BY <1>0, <2>3, MarkRests DEF SweepFinds, SweepDeletes, vars, rest, TypesOK
  <2> QED
    BY <2>1, <2>2, <2>3
<1>2. writer' \in [Writers -> Writer]
  <2>0. writer \in [Writers -> Writer] /\ 0 \in 0..PutTicks /\ PutTicks \in 0..PutTicks
    BY <1>0, StorageAssumption DEF TypesOK
  <2>1. ASSUME NEW i \in Writers, StartPut(i) \/ Land(i)
        PROVE  writer' \in [Writers -> Writer]
    <3>1. \E pc \in {"putting", "put", "done"}, n \in 0..PutTicks :
            writer' = [writer EXCEPT ![i] = [pc |-> pc, left |-> n]]
      BY <2>0, <2>1 DEF StartPut, Land
    <3> QED
      BY <2>0, <3>1, WritersTyped DEF InWrite
  <2>2. ASSUME NEW i \in Writers, Own(i) \/ Discard(i) \/ LoseWriter(i)
        PROVE  writer' \in [Writers -> Writer]
    <3>1. \E pc \in {"owning", "discarded", "done", "lost"} : Move(i, pc)
      BY <2>2 DEF Own, Discard, LoseWriter
    <3> QED
      BY <2>0, <3>1, WritersTyped DEF InWrite
  <2>3. CASE AddReference \/ RepointGrants \/ SweepFinds \/ SweepDeletes \/ UNCHANGED vars
    BY <2>0, <2>3 DEF AddReference, RepointGrants, OnlyMediaMoves, SweepFinds, SweepDeletes, vars
  <2> QED
    BY <2>1, <2>2, <2>3
<1>3. \A t \in Teardowns : TeardownRowStep(t)
  BY <1>0, MarkRests
<1> QED
  BY <1>0, <1>1, <1>2, <1>3, NoHandlerMoves DEF TypesOK

\* A cleanup's row that moves moves no teardown's.
LEMMA CleanupRowMoves ==
  ASSUME Marks, NEW j \in Cleanups, Only(j), row'[j].wait <= Window
  PROVE  /\ \A t \in Teardowns : TeardownRowStep(t)
         /\ \A k \in Cleanups : row'[k].wait <= Window
<1>1. \A t \in Teardowns : t # j /\ t \in Jobs
  BY StorageAssumption DEF Jobs
<1> QED
  BY <1>1, MarkRests DEF Marks, TypesOK, Only, Jobs

\* A teardown's row that moves moves no cleanup's.
LEMMA TeardownRowMoves ==
  ASSUME Marks, NEW t \in Teardowns, Only(t), TeardownRowStep(t)
  PROVE  /\ \A s \in Teardowns : TeardownRowStep(s)
         /\ \A k \in Cleanups : row'[k].wait <= Window
<1>1. \A k \in Cleanups : k # t /\ k \in Jobs
  BY StorageAssumption DEF Jobs
<1>2. ASSUME NEW s \in Teardowns, s # t PROVE TeardownRowStep(s)
  <2>1. row'[s] = row[s]
    BY <1>2 DEF Only, Jobs
  <2> QED
    BY <2>1, MarkRests
<1> QED
  BY <1>1, <1>2 DEF Marks, TypesOK, Only

LEMMA ReserveMark ==
  ASSUME Marks, NEW i \in Writers, Reserve(i)
  PROVE  MarkStep
<1>0. QP!Tidy /\ TypesOK
  BY DEF Marks
<1>1. PICK j \in Cleanups : Rearm(j) /\ cleanup' = [cleanup EXCEPT ![j] = "Armed"]
  BY DEF Reserve
<1>2. Becomes(j, "pending", Window) /\ UNCHANGED worker
  BY <1>0, <1>1, RearmEffect
<1>3. /\ \A t \in Teardowns : TeardownRowStep(t)
      /\ \A k \in Cleanups : row'[k].wait <= Window
  BY <1>2, CleanupRowMoves, StorageAssumption DEF Becomes
<1>4. writer' \in [Writers -> Writer]
  BY <1>0, WritersTyped DEF Reserve, TypesOK
<1>5. UNCHANGED <<media, object, teardown, sweeping, exec>>
  BY DEF Reserve, rest
<1> QED
  BY <1>0, <1>1, <1>2, <1>3, <1>4, <1>5, MarkRests, NoHandlerMoves DEF TypesOK, CleanupCheckpoint

LEMMA FinalizeMark ==
  ASSUME Marks, NEW i \in Writers, Finalize(i)
  PROVE  MarkStep
<1>0. QP!Tidy /\ TypesOK /\ UNCHANGED <<media, object, teardown, sweeping, exec>>
  BY DEF Marks, Finalize, rest
<1>1. writer' \in [Writers -> Writer]
  <2>1. \E pc \in {"done", "rejected"} : Move(i, pc)
    BY DEF Finalize
  <2> QED
    BY <1>0, <2>1, WritersTyped DEF TypesOK, InWrite
<1>2. CASE UNCHANGED <<queue, cleanup>>
  BY <1>0, <1>1, <1>2, MarkRests, NoHandlerMoves DEF TypesOK, queue
<1>3. CASE \E j \in Reservations : /\ Queue!UpdateUnclaimed(j) /\ row'[j].wait = 0
                                   /\ cleanup' = [cleanup EXCEPT ![j] = "Retained"]
  <2>1. PICK j \in Reservations : /\ Queue!UpdateUnclaimed(j) /\ row'[j].wait = 0
                                  /\ cleanup' = [cleanup EXCEPT ![j] = "Retained"]
    BY <1>3
  <2>2. Becomes(j, "pending", 0) /\ UNCHANGED worker /\ j \in Cleanups
    BY <1>0, <2>1, FinalizeEffect DEF Reservations
  <2>3. /\ \A t \in Teardowns : TeardownRowStep(t)
        /\ \A k \in Cleanups : row'[k].wait <= Window
    BY <2>2, CleanupRowMoves, StorageAssumption DEF Becomes
  <2>4. cleanup' \in [Cleanups -> CleanupCheckpoint]
    BY <1>0, <2>1 DEF TypesOK, CleanupCheckpoint
  <2> QED
    BY <1>0, <1>1, <2>2, <2>3, <2>4, MarkRests, NoHandlerMoves DEF TypesOK
<1> QED
  BY <1>2, <1>3 DEF Finalize

LEMMA ClaimTeardownMark ==
  ASSUME Marks, NEW t \in Teardowns, ClaimTeardown(t)
  PROVE  MarkStep
<1>0. QP!Tidy /\ TypesOK /\ UNCHANGED <<object, cleanup, teardown, writer, sweeping, exec>>
  BY DEF Marks, ClaimTeardown, payload, rest
<1>1. Becomes(t, "pending", 0) /\ UNCHANGED worker /\ row[t].status = "absent"
  BY <1>0, ClaimTeardownEffect DEF ClaimTeardown
<1>2. TeardownRowStep(t)
  BY <1>1 DEF Becomes, TeardownRowStep, Nonterminal
<1>3. MediaStep
  <2>1. /\ media' \in Media /\ media'.live = media.live /\ media'.intent = t
    BY <1>0 DEF ClaimTeardown, TypesOK, Media
  <2> QED
    BY <1>1, <2>1 DEF MediaStep, ClaimTeardown, Becomes
<1> QED
  BY <1>0, <1>1, <1>2, <1>3, TeardownRowMoves, NoHandlerMoves DEF Becomes, TypesOK

LEMMA RepairMark ==
  ASSUME Marks, NEW j \in Jobs, Repair(j)
  PROVE  MarkStep
<1>0. /\ QP!Tidy /\ TypesOK
      /\ UNCHANGED <<media, object, cleanup, teardown, writer, sweeping, exec>>
  BY DEF Marks, Repair, OnlyQueueMoves, payload, rest
<1>1. Becomes(j, "pending", 0) /\ UNCHANGED worker /\ row[j].status = "dead"
  BY <1>0, RepairEffect DEF Repair
<1>2. /\ \A t \in Teardowns : TeardownRowStep(t)
      /\ \A k \in Cleanups : row'[k].wait <= Window
  <2>1. CASE j \in Cleanups
    BY <1>1, <2>1, CleanupRowMoves, StorageAssumption DEF Becomes
  <2>2. CASE j \in Teardowns
    <3>1. TeardownRowStep(j)
      BY <1>1 DEF Becomes, TeardownRowStep, Nonterminal
    <3> QED
      BY <1>1, <2>2, <3>1, TeardownRowMoves DEF Becomes
  <2> QED
    BY <2>1, <2>2 DEF Jobs
<1> QED
  BY <1>0, <1>1, <1>2, MarkRests, NoHandlerMoves DEF TypesOK

LEMMA TickMark ==
  ASSUME Marks, Tick
  PROVE  MarkStep
<1>0. /\ QP!Tidy /\ TypesOK
      /\ UNCHANGED <<media, object, cleanup, sweeping, exec>>
  BY DEF Marks, Tick
<1>a. \A n \in Nat : Queue!Elapse(n) \in Nat /\ Queue!Elapse(n) <= n
  BY DEF Queue!Elapse
<1>1. /\ UNCHANGED worker
      /\ \A k \in Jobs : row'[k].status = row[k].status /\ row'[k].wait <= row[k].wait
  <2>1. \A k \in Jobs : row[k].wait \in Nat
    BY <1>0 DEF QP!Tidy, QP!Row
  <2>2. CASE Queue!Tick
    BY <1>0, <1>a, <2>1, <2>2, TickEffect
  <2>3. CASE UNCHANGED queue
    BY <2>1, <2>3 DEF queue
  <2> QED
    BY <2>2, <2>3 DEF Tick
<1>2. \A t \in Teardowns : teardown'[t] \in Teardown /\ teardown'[t].kind = teardown[t].kind
  <2> SUFFICES ASSUME NEW t \in Teardowns
               PROVE  teardown'[t] \in Teardown /\ teardown'[t].kind = teardown[t].kind
    OBVIOUS
  <2> DEFINE n == Queue!Elapse(teardown[t].notBefore)
  <2>1. teardown[t] \in Teardown /\ teardown[t].notBefore \in Nat
    BY <1>0 DEF TypesOK, Teardown
  <2>2. teardown'[t] = [teardown[t] EXCEPT !.notBefore = n] /\ n \in Nat
    BY <1>a, <2>1 DEF Tick
  <2> HIDE DEF n
  <2> QED
    BY <2>1, <2>2 DEF Teardown
<1>3. writer' \in [Writers -> Writer]
  <2>1. ASSUME NEW i \in Writers
        PROVE  [writer[i] EXCEPT !.left = Queue!Elapse(writer[i].left)] \in Writer
    <3>1. writer[i] \in Writer /\ writer[i].left \in 0..PutTicks /\ PutTicks \in Nat
      BY <1>0, StorageAssumption DEF TypesOK, Writer
    <3>2. Queue!Elapse(writer[i].left) \in 0..PutTicks
      BY <3>1 DEF Queue!Elapse
    <3> QED
      BY <3>1, <3>2 DEF Writer
  <2> QED
    BY <2>1 DEF Tick
<1>4. \A t \in Teardowns : TeardownStep(t) /\ TeardownRowStep(t)
  BY <1>1, <1>2, MarkRests DEF TeardownStep, Jobs
<1>5. \A w \in Workers : PlaceOK(w)'
  BY <1>0, <1>1, <1>4, Bystander
<1>6. \A j \in Cleanups : row'[j].wait <= Window
  <2>1. \A j \in Cleanups : /\ row[j].wait \in Nat /\ row'[j].wait <= row[j].wait
                            /\ row[j].wait <= Window
    BY <1>0, <1>1 DEF QP!Tidy, QP!Row, Jobs, TypesOK
  <2>2. row' \in [Jobs -> QP!Row]
    <3>1. QP!TidyStep
      BY <1>0, QueueStep DEF Next
    <3> QED
      BY <3>1 DEF QP!TidyStep, QP!Tidy
  <2>3. \A j \in Cleanups : row'[j].wait \in Nat
    BY <2>2 DEF QP!Row, Jobs
  <2> QED
    BY <2>1, <2>3, StorageAssumption
<1>7. teardown' \in [Teardowns -> Teardown]
  <2>1. teardown' = [t \in Teardowns |-> teardown'[t]]
    BY DEF Tick
  <2> QED
    BY <1>2, <2>1
<1> QED
  BY <1>0, <1>3, <1>4, <1>5, <1>6, <1>7, MarkRests DEF MarkStep, TypesOK

\* One in which a handler moves.
LEMMA OneHandlerMoves ==
  ASSUME Marks, NEW w \in Workers, PlaceOK(w)', exec' \in [Workers -> Executor],
         \A v \in Workers : v # w => worker'[v] = worker[v] /\ exec'[v] = exec[v],
         UNCHANGED <<writer, sweeping>>, object' \in BOOLEAN,
         cleanup' \in [Cleanups -> CleanupCheckpoint],
         teardown' \in [Teardowns -> Teardown], MediaStep,
         \A t \in Teardowns : TeardownStep(t) /\ TeardownRowStep(t),
         \A j \in Cleanups : row'[j].wait <= Window
  PROVE  MarkStep
<1>1. \A v \in Workers : PlaceOK(v)'
  BY Bystander
<1> QED
  BY <1>1 DEF Marks, TypesOK, MarkStep

\* The transaction that makes a row dead takes the mark with it.
LEMMA DeadLetterMark ==
  ASSUME Marks, NEW j \in Jobs, DeadLettered(j), Only(j), row[j].status = "running",
         row'[j].status \in {"failed", "dead"}, j \in Cleanups => row'[j].wait <= Window
  PROVE  /\ MediaStep
         /\ \A t \in Teardowns : TeardownRowStep(t)
         /\ \A k \in Cleanups : row'[k].wait <= Window
<1>1. MediaStep
  <2>1. media' = media \/ media' = [media EXCEPT !.intent = NoIntent]
    BY DEF DeadLettered
  <2> QED
    BY <2>1, MarkRests DEF Marks, TypesOK, Media, MediaStep
<1>2. CASE j \in Cleanups
  BY <1>1, <1>2, CleanupRowMoves
<1>3. CASE j \in Teardowns
  <2>1. media'.intent # j \/ row'[j].status = "failed"
    <3>1. NoIntent # j
      BY <1>3, StorageAssumption DEF NoIntent
    <3> QED
      BY <1>3, <3>1 DEF DeadLettered, Voids, Marks, TypesOK, Media
  <2>2. TeardownRowStep(j)
    BY <2>1 DEF TeardownRowStep, Nonterminal
  <2> QED
    BY <1>1, <1>3, <2>2, TeardownRowMoves
<1> QED
  BY <1>2, <1>3 DEF Jobs

LEMMA TakeMark ==
  ASSUME Marks, NEW w \in Workers, NEW j \in Jobs, Take(w, j)
  PROVE  MarkStep
<1>0. QP!Tidy /\ TypesOK /\ UNCHANGED <<object, cleanup, teardown, writer, sweeping, exec>>
  BY DEF Marks, Take, OnlyQueueMoves, payload, rest
<1>1. CASE Queue!Claim(w, j) /\ OnlyQueueMoves
  <2>1. /\ Becomes(j, "running", row[j].wait)
        /\ row[j].status \in {"running", "pending", "failed"}
        /\ worker[w].pc = "idle" /\ worker'[w].pc = "claimed"
        /\ \A v \in Workers : v # w => worker'[v] = worker[v]
    BY <1>0, <1>1, ClaimEffect
  <2>2. /\ \A t \in Teardowns : TeardownRowStep(t)
        /\ \A k \in Cleanups : row'[k].wait <= Window
    <3>1. CASE j \in Cleanups
      BY <1>0, <2>1, <3>1, CleanupRowMoves DEF Becomes, TypesOK
    <3>2. CASE j \in Teardowns
      <4>1. TeardownRowStep(j)
        BY <2>1 DEF Becomes, TeardownRowStep, Nonterminal
      <4> QED
        BY <2>1, <3>2, <4>1, TeardownRowMoves DEF Becomes
    <3> QED
      BY <3>1, <3>2 DEF Jobs
  <2>3. PlaceOK(w)'
    <3>1. exec[w].at = "none"
      BY <2>1 DEF Marks, PlaceOK
    <3> QED
      BY <1>0, <2>1, <3>1, AtNone
  <2>4. media' = media
    BY <1>1 DEF OnlyQueueMoves
  <2> QED
    BY <1>0, <2>1, <2>2, <2>3, <2>4, MarkRests, OneHandlerMoves DEF TypesOK
<1>2. CASE Queue!DeadLetterExpired(w, j) /\ DeadLettered(j)
  <2>1. Becomes(j, "dead", row[j].wait) /\ UNCHANGED worker /\ row[j].status = "running"
    BY <1>0, <1>2, ExpireEffect
  <2>2. /\ Only(j) /\ row'[j].status = "dead"
        /\ j \in Cleanups => row'[j].wait <= Window
    BY <1>0, <2>1 DEF Becomes, TypesOK
  <2>3. /\ MediaStep /\ \A t \in Teardowns : TeardownRowStep(t)
        /\ \A k \in Cleanups : row'[k].wait <= Window
    BY <1>2, <2>1, <2>2, DeadLetterMark
  <2> QED
    BY <1>0, <2>1, <2>3, NoHandlerMoves DEF TypesOK
<1> QED
  BY <1>1, <1>2 DEF Take

LEMMA EnterMark ==
  ASSUME Marks, NEW w \in Workers, EnterHandler(w)
  PROVE  MarkStep
<1>0. /\ QP!Tidy /\ TypesOK /\ PlaceOK(w)
      /\ UNCHANGED <<media, object, cleanup, teardown, writer, sweeping>>
  BY DEF Marks, EnterHandler, payload, rest
<1>1. /\ \A k \in Jobs : row'[k].status = row[k].status /\ row'[k].wait = row[k].wait
      /\ worker[w].pc = "claimed"
      /\ IF Queue!Owns(w, worker[w].job) THEN Goes(w, "executing") ELSE Returns(w)
  BY <1>0, StartEffect DEF EnterHandler
<1>2. exec[w].at = "none" /\ exec[w] \in Executor
  BY <1>0, <1>1 DEF PlaceOK, TypesOK
<1>3. exec' \in [Workers -> Executor] /\ \A v \in Workers : v # w => exec'[v] = exec[v]
  <2>1. [exec[w] EXCEPT !.at = "read"] \in Executor
    BY <1>2 DEF Executor
  <2> QED
    BY <1>0, <2>1 DEF EnterHandler, Go, TypesOK
<1>4. PlaceOK(w)'
  <2>1. CASE Queue!Owns(w, worker[w].job)
    <3>1. exec'[w].at = "read" /\ worker'[w].pc = "executing"
      BY <1>0, <1>1, <1>2, <2>1 DEF EnterHandler, Go, TypesOK, Executor, Goes
    <3> QED
      BY <3>1 DEF PlaceOK
  <2>2. CASE ~Queue!Owns(w, worker[w].job)
    BY <1>1, <1>2, <2>2, AtNone DEF EnterHandler, Returns
  <2> QED
    BY <2>1, <2>2
<1>5. \A v \in Workers : v # w => worker'[v] = worker[v]
  BY <1>1 DEF Goes, Returns
<1>6. \A j \in Cleanups : row'[j].wait <= Window
  BY <1>0, <1>1 DEF TypesOK, Jobs
<1> QED
  BY <1>0, <1>1, <1>3, <1>4, <1>5, <1>6, MarkRests, OneHandlerMoves DEF TypesOK, Jobs

\* A handler that leaves has nothing in memory any more.
LEMMA LeaveEffect ==
  ASSUME TypesOK, NEW w \in Workers, Leave(w)
  PROVE  /\ exec' \in [Workers -> Executor] /\ exec'[w].at = "none"
         /\ \A v \in Workers : v # w => exec'[v] = exec[v]
BY DEF TypesOK, Leave, NotExecuting, Executor

LEMMA SettleMark ==
  ASSUME Marks, NEW w \in Workers, Settle(w)
  PROVE  MarkStep
<1>0. /\ QP!Tidy /\ TypesOK /\ PlaceOK(w)
      /\ UNCHANGED <<object, cleanup, teardown, writer, sweeping>>
  BY DEF Marks, Settle, Reschedule, OnlyQueueMoves, payload, rest
<1>1. Returns(w)
  BY <1>0, SettleEffect DEF Settle, Reschedule
<1>2. PICK j \in Jobs : j = worker[w].job
  BY <1>0, <1>1 DEF Returns, QP!Tidy, QP!Worker
<1>3. /\ exec' \in [Workers -> Executor] /\ exec'[w].at = "none"
      /\ \A v \in Workers : v # w => worker'[v] = worker[v] /\ exec'[v] = exec[v]
  <2>1. CASE Reschedule(w)
    BY <1>0, <1>1, <2>1, LeaveEffect DEF Reschedule, Returns
  <2>2. CASE UNCHANGED exec
    <3>1. worker[w].pc \in {"completing", "failing"} \/ Reschedule(w)
      BY <1>0, SettleEffect DEF Settle
    <3>2. exec[w].at = "none" \/ Reschedule(w)
      BY <1>0, <3>1 DEF PlaceOK
    <3> QED
      BY <1>0, <1>1, <2>1, <2>2, <3>2 DEF Returns, TypesOK
  <2> QED
    BY <2>1, <2>2 DEF Settle, OnlyQueueMoves
<1>4. PlaceOK(w)'
  BY <1>1, <1>3, AtNone DEF Returns
<1>5. ASSUME UNCHANGED row
      PROVE  /\ \A t \in Teardowns : TeardownRowStep(t)
             /\ \A k \in Cleanups : row'[k].wait <= Window
  BY <1>0, <1>5, MarkRests DEF TypesOK
<1>6. /\ MediaStep
      /\ \A t \in Teardowns : TeardownRowStep(t)
      /\ \A k \in Cleanups : row'[k].wait <= Window
  <2>1. CASE Queue!Complete(w) /\ OnlyQueueMoves
    <3>1. MediaStep
      BY <2>1, MarkRests DEF OnlyQueueMoves
    <3>2. worker[w].pc = "completing" /\ Settles(w, {"succeeded"})
      BY <1>0, <2>1, SettleEffect
    <3>3. CASE Only(j) /\ row'[j].status = "succeeded"
      <4>1. CASE j \in Teardowns
        <5>1. teardown[j].kind \in Final
          BY <1>2, <1>0, <3>2, <4>1 DEF PlaceOK
        <5>2. TeardownRowStep(j)
          BY <3>3, <5>1 DEF TeardownRowStep
        <5> QED
          BY <3>1, <3>3, <4>1, <5>2, TeardownRowMoves
      <4>2. CASE j \in Cleanups /\ row'[j].wait <= Window
        BY <3>1, <3>3, <4>2, CleanupRowMoves
      <4>3. row'[j].wait = row[j].wait
        BY <1>0, <1>2, <2>1 DEF Queue!Complete, Queue!CompleteRow, Queue!Released,
           Queue!Unclaimed, QP!Tidy
      <4> QED
        BY <1>0, <1>2, <4>1, <4>2, <4>3 DEF Jobs, TypesOK
    <3> QED
      BY <1>2, <1>5, <3>1, <3>2, <3>3 DEF Settles
  <2>2. CASE Reschedule(w)
    <3>1. MediaStep
      BY <2>2, MarkRests DEF Reschedule
    <3>2. /\ worker[w].pc = "rescheduling" /\ Settles(w, {"pending"})
          /\ row' = row \/ row'[j].wait = exec[w].wait
      BY <1>2, <1>0, <2>2, SettleEffect DEF Reschedule
    <3>3. CASE /\ Only(j) /\ row[j].status = "running" /\ row'[j].status = "pending"
               /\ row'[j].wait = exec[w].wait
      <4>1. CASE j \in Teardowns
        <5>1. TeardownRowStep(j)
          BY <3>3 DEF TeardownRowStep, Nonterminal
        <5> QED
          BY <3>1, <3>3, <4>1, <5>1, TeardownRowMoves
      <4>2. CASE j \in Cleanups
        <5>1. exec[w].wait <= Window
          BY <1>2, <1>0, <3>2, <4>2 DEF PlaceOK
        <5> QED
          BY <3>1, <3>3, <4>2, <5>1, CleanupRowMoves
      <4> QED
        BY <1>2, <4>1, <4>2 DEF Jobs
    <3> QED
      BY <1>2, <1>5, <3>1, <3>2, <3>3 DEF Settles
  <2>3. CASE Queue!Fail(w) /\ DeadLettered(j)
    <3>1. /\ Settles(w, {"failed", "dead"}) /\ (row' = row \/ row'[j].wait = 0)
      BY <1>2, <1>0, <2>3, SettleEffect
    <3>2. CASE /\ Only(j) /\ row[j].status = "running" /\ row'[j].status \in {"failed", "dead"}
               /\ row'[j].wait = 0
      BY <1>2, <2>3, <3>2, DeadLetterMark, StorageAssumption
    <3>3. CASE UNCHANGED row
      <4>1. MediaStep
        <5>1. media' = media \/ media' = [media EXCEPT !.intent = NoIntent]
          BY <2>3 DEF DeadLettered
        <5> QED
          BY <1>0, <5>1, MarkRests DEF TypesOK, Media, MediaStep
      <4> QED
        BY <1>5, <3>3, <4>1
    <3> QED
      BY <1>2, <3>1, <3>2, <3>3 DEF Settles
  <2> QED
    BY <1>2, <2>1, <2>2, <2>3 DEF Settle
<1> QED
  BY <1>0, <1>3, <1>4, <1>6, MarkRests, OneHandlerMoves DEF TypesOK

LEMMA CrashMark ==
  ASSUME Marks, NEW w \in Workers, Crash(w)
  PROVE  MarkStep
<1>0. /\ QP!Tidy /\ TypesOK
      /\ UNCHANGED <<row, media, object, cleanup, teardown, writer, sweeping>>
  BY DEF Marks, Crash, Queue!Crash, payload
<1>1. Returns(w)
  BY <1>0, MemoryEffect DEF Crash, Queue!Crash
<1>2. /\ exec' \in [Workers -> Executor] /\ exec'[w].at = "none"
      /\ \A v \in Workers : v # w => exec'[v] = exec[v]
  BY <1>0, LeaveEffect DEF Crash
<1>3. PlaceOK(w)'
  BY <1>1, <1>2, AtNone DEF Returns
<1> QED
  BY <1>0, <1>1, <1>2, <1>3, MarkRests, OneHandlerMoves DEF TypesOK, Returns

-----------------------------------------------------------------------------
(* ... those of the handlers too *)

\* How a handler goes on or ends, and what must be so for it.
LEMMA HandlerPlace ==
  ASSUME Marks, NEW w \in Workers, worker[w].pc = "executing",
         NEW j \in Jobs, j = worker[w].job,
         \/ End(w, "failing")
         \/ End(w, "completing") /\ (j \in Teardowns => teardown'[j].kind \in Final)
         \/ \E n \in Nat : AskAgain(w, n) /\ (j \in Cleanups => n <= Window)
         \/ \E point \in {"resolve", "delete", "record"} :
              UNCHANGED queue /\ Go(w, point) /\ j \in Cleanups
         \/ UNCHANGED queue /\ Go(w, "prepare") /\ j \in Teardowns
         \/ /\ UNCHANGED queue /\ Go(w, "commit") /\ j \in Teardowns
            /\ teardown'[j].kind # "Unprepared"
         \/ /\ UNCHANGED queue /\ Go(w, "storage") /\ j \in Teardowns
            /\ teardown'[j].kind = "DeletionCommitted"
  PROVE  /\ PlaceOK(w)' /\ exec' \in [Workers -> Executor] /\ UNCHANGED row
         /\ \A v \in Workers : v # w => worker'[v] = worker[v] /\ exec'[v] = exec[v]
<1>0. QP!Tidy /\ TypesOK /\ exec[w] \in Executor /\ exec[w].at # "none"
  BY DEF Marks, TypesOK, PlaceOK
<1>a. Cleanups \cap Teardowns = {}
  BY StorageAssumption
<1>1. ASSUME NEW pc \in {"failing", "completing"}, End(w, pc)
      PROVE  /\ Goes(w, pc) /\ UNCHANGED row /\ exec'[w].at = "none"
             /\ exec' \in [Workers -> Executor]
             /\ \A v \in Workers : v # w => worker'[v] = worker[v] /\ exec'[v] = exec[v]
  <2>1. Goes(w, pc)
    BY <1>0, <1>1, MemoryEffect DEF End, QP!Phases
  <2> QED
    BY <1>0, <1>1, <2>1, LeaveEffect DEF End, Goes
<1>2. ASSUME NEW n \in Nat, AskAgain(w, n)
      PROVE  /\ Goes(w, "rescheduling") /\ UNCHANGED row /\ exec'[w].at = "none" /\ exec'[w].wait = n
             /\ exec' \in [Workers -> Executor]
             /\ \A v \in Workers : v # w => worker'[v] = worker[v] /\ exec'[v] = exec[v]
  <2>1. Goes(w, "rescheduling")
    BY <1>0, <1>2, MemoryEffect DEF AskAgain, QP!Phases
  <2> QED
    BY <1>0, <1>2, <2>1 DEF AskAgain, Goes, TypesOK, Executor
<1>3. ASSUME NEW point \in {"resolve", "delete", "record", "prepare", "commit", "storage"},
             UNCHANGED queue, Go(w, point)
      PROVE  /\ UNCHANGED <<row, worker>> /\ exec'[w].at = point
             /\ exec' \in [Workers -> Executor]
             /\ \A v \in Workers : v # w => exec'[v] = exec[v]
  <2>1. [exec[w] EXCEPT !.at = point] \in Executor /\ [exec[w] EXCEPT !.at = point].at = point
    BY <1>0 DEF Executor
  <2> QED
    BY <1>0, <1>3, <2>1 DEF Go, TypesOK, queue
<1>4. CASE End(w, "failing")
  BY <1>1, <1>4, AtNone DEF Goes
<1>5. CASE End(w, "completing") /\ (j \in Teardowns => teardown'[j].kind \in Final)
  BY <1>1, <1>5 DEF Goes, PlaceOK
<1>6. CASE \E n \in Nat : AskAgain(w, n) /\ (j \in Cleanups => n <= Window)
  BY <1>2, <1>6 DEF Goes, PlaceOK
<1>7. CASE \E point \in {"resolve", "delete", "record"} :
             UNCHANGED queue /\ Go(w, point) /\ j \in Cleanups
  BY <1>3, <1>7 DEF PlaceOK
<1>8. CASE UNCHANGED queue /\ Go(w, "prepare") /\ j \in Teardowns
  BY <1>3, <1>8 DEF PlaceOK
<1>9. CASE /\ UNCHANGED queue /\ Go(w, "commit") /\ j \in Teardowns
           /\ teardown'[j].kind # "Unprepared"
  BY <1>3, <1>9 DEF PlaceOK
<1>10. CASE /\ UNCHANGED queue /\ Go(w, "storage") /\ j \in Teardowns
            /\ teardown'[j].kind = "DeletionCommitted"
  BY <1>3, <1>10 DEF PlaceOK
<1> QED
  BY <1>4, <1>5, <1>6, <1>7, <1>8, <1>9, <1>10

\* A statement of a handler that writes no checkpoint of a teardown.
LEMMA CleanerMark ==
  ASSUME Marks, NEW w \in Workers,
         PlaceOK(w)', exec' \in [Workers -> Executor], UNCHANGED row,
         \A v \in Workers : v # w => worker'[v] = worker[v] /\ exec'[v] = exec[v],
         UNCHANGED <<media, teardown, writer, rest>>,
         object' \in BOOLEAN, cleanup' \in [Cleanups -> CleanupCheckpoint]
  PROVE  MarkStep
BY MarkRests, OneHandlerMoves DEF Marks, TypesOK, rest

LEMMA AtHandler ==
  ASSUME Marks, NEW w \in Workers, worker[w].pc = "executing"
  PROVE  /\ worker[w].job \in Jobs /\ row[worker[w].job].status # "absent"
         /\ QP!Tidy /\ TypesOK /\ PlaceOK(w)
         /\ media \in Media /\ object \in BOOLEAN /\ cleanup \in [Cleanups -> CleanupCheckpoint]
BY DEF Marks, TypesOK, QP!Tidy, QP!Worker

LEMMA LoseLeaseMark ==
  ASSUME Marks, NEW w \in Workers, worker[w].pc = "executing", LoseLease(w) \/ Absent(w)
  PROVE  MarkStep
<1>1. PICK j \in Jobs : j = worker[w].job
  BY AtHandler
<1>2. End(w, "failing") /\ UNCHANGED <<media, object, payload, writer, rest>>
  BY DEF LoseLease, Absent
<1>3. /\ PlaceOK(w)' /\ exec' \in [Workers -> Executor] /\ UNCHANGED row
      /\ \A v \in Workers : v # w => worker'[v] = worker[v] /\ exec'[v] = exec[v]
  BY <1>1, <1>2, HandlerPlace
<1> QED
  BY <1>2, <1>3, AtHandler, CleanerMark DEF payload

LEMMA ReadMark ==
  ASSUME Marks, NEW w \in Workers, Read(w)
  PROVE  MarkStep
<1>0. worker[w].pc = "executing" /\ UNCHANGED <<media, object, payload, writer, rest>>
  BY DEF Read, At
<1>1. PICK j \in Jobs : j = worker[w].job
  BY <1>0, AtHandler
<1>2. /\ PlaceOK(w)' /\ exec' \in [Workers -> Executor] /\ UNCHANGED row
      /\ \A v \in Workers : v # w => worker'[v] = worker[v] /\ exec'[v] = exec[v]
  <2>1. CASE j \in Cleanups
    <3>1. \/ End(w, "completing")
          \/ UNCHANGED queue /\ Go(w, "delete")
          \/ UNCHANGED queue /\ Go(w, "resolve")
      BY <1>1, <2>1 DEF Read
    <3>2. j \notin Teardowns
      BY <2>1, StorageAssumption
    <3> QED
      BY <1>0, <1>1, <2>1, <3>1, <3>2, HandlerPlace
  <2>2. CASE j \in Teardowns
    <3>1. j \notin Cleanups /\ teardown'[j] = teardown[j] /\ teardown[j] \in Teardown
      BY <1>0, <2>2, AtHandler, StorageAssumption DEF payload, TypesOK
    <3>2. \/ teardown[j].kind = "Unprepared" /\ UNCHANGED queue /\ Go(w, "prepare")
          \/ teardown[j].kind = "PathsPrepared" /\ UNCHANGED queue /\ Go(w, "commit")
          \/ teardown[j].kind = "DeletionCommitted" /\ UNCHANGED queue /\ Go(w, "storage")
          \/ /\ teardown[j].kind \notin {"Unprepared", "PathsPrepared"}
             /\ End(w, "completing")
      BY <1>1, <3>1 DEF Read
    <3>3. teardown[j].kind \notin {"Unprepared", "PathsPrepared"} => teardown[j].kind \in Final
      BY <3>1 DEF Teardown, Final
    <3> QED
      BY <1>0, <1>1, <2>2, <3>1, <3>2, <3>3, HandlerPlace
  <2> QED
    BY <2>1, <2>2 DEF Jobs
<1> QED
  BY <1>0, <1>2, AtHandler, CleanerMark DEF payload

LEMMA CleanupHandlerMark ==
  ASSUME Marks, NEW w \in Workers, Resolve(w) \/ DeleteObject(w) \/ RecordDeleted(w)
  PROVE  MarkStep
<1>0. worker[w].pc = "executing"
  BY DEF Resolve, DeleteObject, RecordDeleted, At
<1>1. PICK j \in Jobs : j = worker[w].job
  BY <1>0, AtHandler
<1>2. j \in Cleanups /\ j \notin Teardowns
  <2>1. j \in Cleanups
    BY <1>0, <1>1, AtHandler DEF PlaceOK, Resolve, DeleteObject, RecordDeleted, At
  <2> QED
    BY <2>1, StorageAssumption
<1>3. Window \in Nat
  BY StorageAssumption
<1>4. ASSUME \/ End(w, "completing")
             \/ AskAgain(w, Window)
             \/ UNCHANGED queue /\ (Go(w, "delete") \/ Go(w, "record")),
             UNCHANGED <<media, teardown, writer, rest>>,
             object' \in BOOLEAN, cleanup' \in [Cleanups -> CleanupCheckpoint]
      PROVE  MarkStep
  <2>1. /\ PlaceOK(w)' /\ exec' \in [Workers -> Executor] /\ UNCHANGED row
        /\ \A v \in Workers : v # w => worker'[v] = worker[v] /\ exec'[v] = exec[v]
    BY <1>0, <1>1, <1>2, <1>3, <1>4, HandlerPlace
  <2> QED
    BY <1>4, <2>1, CleanerMark
<1>5. \A c \in CleanupCheckpoint :
        [cleanup EXCEPT ![j] = c] \in [Cleanups -> CleanupCheckpoint]
  BY <1>0, AtHandler
<1>6. object \in BOOLEAN /\ cleanup \in [Cleanups -> CleanupCheckpoint]
  BY <1>0, AtHandler
<1>7. {"DeleteRequired", "Retained", "Deleted"} \subseteq CleanupCheckpoint
  BY DEF CleanupCheckpoint
<1>8. CASE Resolve(w)
  <2>1. \/ LoseLease(w)
        \/ /\ cleanup' = [cleanup EXCEPT ![j] = "DeleteRequired"] /\ Go(w, "delete")
           /\ UNCHANGED <<queue, media, object, teardown, writer, rest>>
        \/ /\ cleanup' = [cleanup EXCEPT ![j] = "Retained"] /\ End(w, "completing")
           /\ UNCHANGED <<media, object, teardown, writer, rest>>
        \/ AskAgain(w, Window) /\ UNCHANGED <<media, object, payload, writer, rest>>
    BY <1>1, <1>8 DEF Resolve, Fenced
  <2> QED
    BY <1>0, <1>4, <1>5, <1>6, <1>7, <2>1, LoseLeaseMark DEF payload
<1>9. CASE DeleteObject(w)
  BY <1>0, <1>4, <1>6, <1>9, LoseLeaseMark DEF DeleteObject, payload
<1>10. CASE RecordDeleted(w)
  BY <1>0, <1>1, <1>4, <1>5, <1>6, <1>7, <1>10, LoseLeaseMark DEF RecordDeleted, Fenced
<1> QED
  BY <1>8, <1>9, <1>10

\* A checkpoint of a teardown, in the transaction that makes it true of the media.
LEMMA CheckpointMark ==
  ASSUME Marks, NEW w \in Workers, worker[w].pc = "executing",
         NEW t \in Teardowns, t = worker[w].job, NEW state \in Teardown,
         Checkpoint(w, t, state), MediaStep, media.live,
         \/ state.kind = "PathsPrepared" /\ teardown[t].kind \notin Final
         \/ /\ state.kind \in Final /\ media'.intent # t
            /\ state.kind = "DeletionCommitted" => ~media'.live
  PROVE  MarkStep
<1>0. /\ QP!Tidy /\ TypesOK /\ teardown' = [teardown EXCEPT ![t] = state]
      /\ UNCHANGED <<object, cleanup, writer, rest>> /\ row[t].status # "absent"
  BY AtHandler DEF Checkpoint
<1>1. /\ teardown' \in [Teardowns -> Teardown] /\ teardown'[t] = state
      /\ \A s \in Teardowns : s # t => teardown'[s] = teardown[s]
  BY <1>0 DEF TypesOK
<1>2. teardown[t].kind # "DeletionCommitted"
  BY DEF Marks, IntentOK
<1>3. \A s \in Teardowns : TeardownStep(s)
  BY <1>0, <1>1, <1>2, MarkRests DEF TeardownStep
<1>4. /\ PlaceOK(w)' /\ exec' \in [Workers -> Executor] /\ UNCHANGED row
      /\ \A v \in Workers : v # w => worker'[v] = worker[v] /\ exec'[v] = exec[v]
  <2>1. t \in Jobs /\ t \notin Cleanups /\ state.notBefore \in Nat /\ 0 \in Nat
    BY StorageAssumption DEF Jobs, Teardown
  <2>2. \/ \E n \in Nat : AskAgain(w, n)
        \/ End(w, "completing") /\ teardown'[t].kind \in Final
    BY <1>1, <2>1 DEF Checkpoint, Final
  <2> QED
    BY <2>1, <2>2, HandlerPlace
<1> QED
  BY <1>0, <1>1, <1>3, <1>4, MarkRests, OneHandlerMoves DEF TypesOK, rest

LEMMA TeardownHandlerMark ==
  ASSUME Marks, NEW w \in Workers, PreparePaths(w) \/ CommitOrVoid(w) \/ DeletePaths(w)
  PROVE  MarkStep
<1>0. worker[w].pc = "executing"
  BY DEF PreparePaths, CommitOrVoid, DeletePaths, At
<1>1. PICK t \in Teardowns : t = worker[w].job
  BY <1>0, AtHandler DEF PlaceOK, PreparePaths, CommitOrVoid, DeletePaths, At
<1>2. /\ t \in Jobs /\ t \notin Cleanups /\ NoIntent # t /\ TypesOK /\ QP!Tidy /\ IntentOK(t)
      /\ teardown[t] \in Teardown /\ media \in Media
  BY <1>0, <1>1, StorageAssumption DEF Jobs, NoIntent, Marks, TypesOK
<1>3. NotMine(t) \in Teardown /\ NotMine(t).kind \in {"NoOp", "Stale"}
  BY DEF NotMine, Unprepared, Teardown
<1>4. "NoOp" \in Final /\ "Stale" \in Final /\ "Voided" \in Final /\ "DeletionCommitted" \in Final
  BY DEF Final
<1>5. ASSUME LoseLease(w) \/ Absent(w) PROVE MarkStep
  BY <1>0, <1>5, LoseLeaseMark
<1>6. ASSUME Checkpoint(w, t, NotMine(t)), UNCHANGED media, media.live, media.intent # t
      PROVE  MarkStep
  <2>1. MediaStep
    BY <1>6, MarkRests
  <2> QED
    BY <1>0, <1>1, <1>3, <1>4, <1>6, <2>1, CheckpointMark
<1>7. CASE PreparePaths(w)
  <2>1. \/ LoseLease(w) \/ Absent(w)
        \/ /\ media.live /\ UNCHANGED media
           /\ IF media.intent = t THEN Checkpoint(w, t, Plan) ELSE Checkpoint(w, t, NotMine(t))
    BY <1>1, <1>7 DEF PreparePaths, Fenced
  <2>2. CASE media.live /\ UNCHANGED media /\ media.intent = t /\ Checkpoint(w, t, Plan)
    <3>1. Plan \in Teardown /\ Plan.kind = "PathsPrepared"
      <4>1. WriteMayLandFor \in Nat
        <5>1. WriteMayLandFor \in 0..Window
          BY <1>2, LatestWindow
        <5> QED
          BY <5>1
      <4>2. Larger(Grace, WriteMayLandFor) \in Nat
        BY <4>1, StorageAssumption DEF Larger
      <4>3. (media.owned \/ Reservations # {}) \in BOOLEAN
        BY <1>2 DEF Media
      <4> QED
        BY <4>2, <4>3 DEF Plan, Teardown
    <3>2. teardown[t].kind \notin Final
      BY <1>2, <2>2 DEF IntentOK
    <3>3. MediaStep
      BY <2>2, MarkRests
    <3> QED
      BY <1>0, <1>1, <2>2, <3>1, <3>2, <3>3, CheckpointMark
  <2> QED
    BY <1>5, <1>6, <2>1, <2>2
<1>8. CASE CommitOrVoid(w)
  <2>1. \/ LoseLease(w) \/ Absent(w)
        \/ media.live /\ media.intent # t /\ Checkpoint(w, t, NotMine(t)) /\ UNCHANGED media
        \/ /\ media.live /\ media.intent = t
           /\ Checkpoint(w, t, [Unprepared EXCEPT !.kind = "Voided"])
           /\ media' = [media EXCEPT !.intent = NoIntent]
        \/ /\ media.live /\ media.intent = t
           /\ Checkpoint(w, t, [teardown[t] EXCEPT !.kind = "DeletionCommitted"])
           /\ media' = Deleted
    BY <1>1, <1>8 DEF CommitOrVoid, Fenced
  <2>2. CASE /\ media.live /\ media.intent = t
             /\ Checkpoint(w, t, [Unprepared EXCEPT !.kind = "Voided"])
             /\ media' = [media EXCEPT !.intent = NoIntent]
    <3>1. [Unprepared EXCEPT !.kind = "Voided"] \in Teardown
          /\ [Unprepared EXCEPT !.kind = "Voided"].kind = "Voided"
      BY DEF Unprepared, Teardown
    <3>2. MediaStep /\ media'.intent # t
      BY <1>2, <2>2 DEF Media, MediaStep
    <3> QED
      BY <1>0, <1>1, <1>4, <2>2, <3>1, <3>2, CheckpointMark
  <2>3. CASE /\ media.live /\ media.intent = t
             /\ Checkpoint(w, t, [teardown[t] EXCEPT !.kind = "DeletionCommitted"])
             /\ media' = Deleted
    <3>1. [teardown[t] EXCEPT !.kind = "DeletionCommitted"] \in Teardown
          /\ [teardown[t] EXCEPT !.kind = "DeletionCommitted"].kind = "DeletionCommitted"
      BY <1>2 DEF Teardown
    <3>2. MediaStep /\ media'.intent # t /\ ~media'.live
      BY <1>2, <2>3 DEF Deleted, Media, MediaStep
    <3> QED
      BY <1>0, <1>1, <1>4, <2>3, <3>1, <3>2, CheckpointMark
  <2> QED
    BY <1>5, <1>6, <2>1, <2>2, <2>3
<1>9. CASE DeletePaths(w)
  <2>1. /\ UNCHANGED <<media, payload, writer, rest>>
        /\ object' = object \/ object' = (object /\ ~teardown[t].listed)
        /\ teardown[t].kind = "DeletionCommitted" /\ teardown'[t] = teardown[t]
    <3>1. PlaceOK(w) /\ exec[w].at = "storage"
      BY <1>0, <1>9, AtHandler DEF DeletePaths, At
    <3> QED
      BY <1>1, <1>9, <3>1 DEF DeletePaths, PlaceOK, payload
  <2>2. object' \in BOOLEAN
    BY <1>2, <2>1 DEF TypesOK, Teardown
  <2>3. \/ \E n \in Nat : AskAgain(w, n)
        \/ End(w, "completing") /\ teardown'[t].kind \in Final
    BY <1>1, <1>2, <1>4, <1>9, <2>1 DEF DeletePaths, Teardown
  <2>4. /\ PlaceOK(w)' /\ exec' \in [Workers -> Executor] /\ UNCHANGED row
        /\ \A v \in Workers : v # w => worker'[v] = worker[v] /\ exec'[v] = exec[v]
    BY <1>0, <1>1, <1>2, <2>3, HandlerPlace
  <2> QED
    BY <1>0, <2>1, <2>2, <2>4, AtHandler, CleanerMark DEF payload
<1> QED
  BY <1>7, <1>8, <1>9

LEMMA DefectMark ==
  ASSUME Marks, NEW w \in Workers, Defect(w)
  PROVE  MarkStep
<1>1. PICK j \in Jobs : j = worker[w].job
  BY AtHandler DEF Defect
<1>2. /\ PlaceOK(w)' /\ exec' \in [Workers -> Executor] /\ UNCHANGED row
      /\ \A v \in Workers : v # w => worker'[v] = worker[v] /\ exec'[v] = exec[v]
  BY <1>1, HandlerPlace DEF Defect
<1> QED
  BY <1>2, MarkRests, OneHandlerMoves DEF Defect, Marks, TypesOK, payload

LEMMA EveryStepMarks ==
  ASSUME Marks, [Next]_vars
  PROVE  MarkStep
<1>1. ASSUME NEW i \in Writers, WriterStep(i) PROVE MarkStep
  BY <1>1, OthersMark, ReserveMark, FinalizeMark DEF WriterStep
<1>2. ASSUME NEW w \in Workers, WorkerStep(w) PROVE MarkStep
  BY <1>2, TakeMark, EnterMark, ReadMark, CleanupHandlerMark, TeardownHandlerMark, SettleMark,
     DefectMark, CrashMark DEF WorkerStep, HandlerStep
<1> QED
  BY <1>1, <1>2, OthersMark, ClaimTeardownMark, RepairMark, TickMark DEF Next

LEMMA InitMarks == Init => Marks
<1> SUFFICES ASSUME Init PROVE Marks
  OBVIOUS
<1>1. QP!Tidy
  BY SameQueue, QP!InitTidy, QueueAssumptions DEF Init
<1>2. /\ \A j \in Jobs : row[j].status = "absent" /\ row[j].wait = 0
      /\ \A w \in Workers : worker[w].pc = "idle"
  BY DEF Init, Queue!Init, Queue!Fresh, Queue!Unclaimed, Queue!Idle
<1>3. /\ Unprepared \in Teardown /\ Unprepared.kind = "Unprepared" /\ NotExecuting \in Executor
      /\ NotExecuting.at = "none" /\ 0 \in 0..PutTicks
  BY StorageAssumption DEF Unprepared, Teardown, NotExecuting, Executor
<1>4. TypesOK
  <2>1. media \in Media /\ object \in BOOLEAN /\ sweeping \in BOOLEAN
    BY DEF Init, Media, NoIntent
  <2>2. /\ cleanup \in [Cleanups -> CleanupCheckpoint]
        /\ teardown \in [Teardowns -> Teardown] /\ exec \in [Workers -> Executor]
    BY <1>3 DEF Init, CleanupCheckpoint
  <2>3. writer \in [Writers -> Writer]
    <3>1. [pc |-> "idle", left |-> 0] \in Writer
      BY <1>3 DEF Writer
    <3> QED
      BY <3>1 DEF Init
  <2>4. \A j \in Cleanups : row[j].wait <= Window
    BY <1>2, StorageAssumption DEF Jobs
  <2> QED
    BY <2>1, <2>2, <2>3, <2>4 DEF TypesOK
<1>5. Gone /\ IntentHasJob
  BY DEF Init, Gone, IntentHasJob
<1>6. \A w \in Workers : PlaceOK(w)
  BY <1>2, <1>3 DEF Init, PlaceOK
<1>7. \A t \in Teardowns : IntentOK(t)
  BY <1>2, <1>3 DEF Init, IntentOK, Jobs, Final
<1> QED
  BY <1>1, <1>4, <1>5, <1>6, <1>7 DEF Marks

\* Whatever the races an instance opens.
THEOREM MarksInvariant == Spec => []Marks
<1>1. Marks /\ [Next]_vars => Marks'
  <2> SUFFICES ASSUME Marks, [Next]_vars PROVE Marks'
    OBVIOUS
  <2>1. QP!TidyStep
    BY QueueStep DEF Marks
  <2> QED
    BY <2>1, EveryStepMarks, MarksKept
<1> QED
  BY <1>1, InitMarks, PTL DEF Spec

\* A media marked as deleting never loses the job that deletes it or voids the
\* mark, whatever is claimed, rescheduled, repaired, dead-lettered or lost.
THEOREM IntentKeepsItsJob == Spec => []IntentHasJob
<1>1. Marks => IntentHasJob
  BY DEF Marks
<1> QED
  BY <1>1, MarksInvariant, PTL

-----------------------------------------------------------------------------
(* Types *)

\* A handler counts no fault of its own.
LEMMA HandlerFaultless ==
  ASSUME NEW w \in Workers, HandlerStep(w)
  PROVE  faults' = faults
<1>1. CASE Read(w) \/ Resolve(w) \/ DeleteObject(w) \/ RecordDeleted(w)
  BY <1>1 DEF Read, Resolve, DeleteObject, RecordDeleted, Fenced, LoseLease, rest
<1>2. CASE PreparePaths(w) \/ CommitOrVoid(w)
  BY <1>2 DEF PreparePaths, CommitOrVoid, Absent, Fenced, LoseLease, Checkpoint, rest
<1>3. CASE DeletePaths(w)
  BY <1>3 DEF DeletePaths, rest
<1> QED
  BY <1>1, <1>2, <1>3 DEF HandlerStep

\* The faults the model allows are never exceeded.
LEMMA FaultsStep ==
  ASSUME faults \in 0..MaxFaults, [Next]_vars
  PROVE  faults' \in 0..MaxFaults
<1>1. ASSUME faults' = faults \/ Fault
      PROVE  faults' \in 0..MaxFaults
  BY <1>1, StorageAssumption DEF Fault
<1>2. ASSUME NEW i \in Writers, WriterStep(i)
      PROVE  faults' = faults
  BY <1>2 DEF WriterStep, Reserve, StartPut, Land, Own, Finalize, Discard, LoseWriter,
     OnlyWriterMoves, rest
<1>3. ASSUME NEW w \in Workers, WorkerStep(w)
      PROVE  faults' = faults \/ Fault
  <2>1. CASE HandlerStep(w)
    BY <2>1, HandlerFaultless
  <2>2. CASE ~HandlerStep(w)
    BY <1>3, <2>2 DEF WorkerStep, Take, OnlyQueueMoves, EnterHandler, Settle, Reschedule,
       Defect, Crash, rest
  <2> QED
    BY <2>1, <2>2
<1>4. CASE AddReference \/ RepointGrants \/ \E t \in Teardowns : ClaimTeardown(t)
  BY <1>1, <1>4 DEF AddReference, RepointGrants, ClaimTeardown, OnlyMediaMoves, rest
<1>5. CASE (\E j \in Jobs : Repair(j)) \/ SweepFinds \/ SweepDeletes
  BY <1>1, <1>5 DEF Repair, OnlyQueueMoves, SweepFinds, SweepDeletes, rest
<1>6. CASE Tick \/ UNCHANGED vars
  BY <1>1, <1>6 DEF Tick, vars, rest
<1> QED
  BY <1>1, <1>2, <1>3, <1>4, <1>5, <1>6 DEF Next

\* What executions have spent is counted up or reset, whatever the step.
LEMMA SpentStep ==
  ASSUME Marks, spent \in [Jobs -> Nat], [Next]_vars
  PROVE  spent' \in [Jobs -> Nat]
<1>1. ASSUME NEW j, \/ spent' = [spent EXCEPT ![j] = 0]
                   \/ spent' = [spent EXCEPT ![j] = @ + 1]
      PROVE  spent' \in [Jobs -> Nat]
  BY <1>1
<1>2. CASE UNCHANGED spent
  BY <1>2
<1>3. ASSUME NEW j \in Jobs, Queue!RequeueDead(j)
      PROVE  spent' \in [Jobs -> Nat]
  BY <1>1, <1>3 DEF Queue!RequeueDead
<1>4. ASSUME NEW w \in Workers, NEW j \in Jobs, Queue!Claim(w, j) \/ Queue!DeadLetterExpired(w, j)
      PROVE  spent' \in [Jobs -> Nat]
  <2>1. \/ UNCHANGED spent
        \/ spent' = [spent EXCEPT ![j] = @ + 1]
    BY <1>4 DEF Queue!Claim, Queue!DeadLetterExpired
  <2> QED
    BY <1>1, <1>2, <2>1
<1>5. ASSUME NEW w \in Workers, Queue!Fail(w)
      PROVE  spent' \in [Jobs -> Nat]
  <2>1. \/ UNCHANGED spent
        \/ spent' = [spent EXCEPT ![worker[w].job] = @ + 1]
    BY <1>5 DEF Queue!Fail, Queue!FailRow
  <2> QED
    BY <1>1, <1>2, <2>1
<1>6. ASSUME NEW i \in Writers, WriterStep(i)
      PROVE  UNCHANGED spent
  BY <1>6 DEF WriterStep, Reserve, Rearm, Queue!Enqueue, Queue!UpdateUnclaimed, StartPut, Land,
     Own, Finalize, Discard, LoseWriter, OnlyWriterMoves, queue
<1>7. CASE AddReference \/ RepointGrants \/ \E t \in Teardowns : ClaimTeardown(t)
  BY <1>2, <1>7 DEF AddReference, RepointGrants, ClaimTeardown, OnlyMediaMoves, Queue!Enqueue,
     queue
<1>8. CASE (\E j \in Jobs : Repair(j)) \/ SweepFinds \/ SweepDeletes
  BY <1>2, <1>3, <1>8 DEF Repair, SweepFinds, SweepDeletes, queue
<1>9. CASE Tick \/ UNCHANGED vars
  BY <1>2, <1>9 DEF Tick, Queue!Tick, vars, queue
<1>10. ASSUME NEW w \in Workers, WorkerStep(w)
       PROVE  \/ UNCHANGED spent
              \/ \E j \in Jobs : Queue!Claim(w, j) \/ Queue!DeadLetterExpired(w, j)
              \/ Queue!Fail(w)
  <2>1. CASE HandlerStep(w)
    BY <2>1, HandlerMoves
  <2>2. CASE ~HandlerStep(w)
    BY <1>10, <2>2 DEF WorkerStep, Take, EnterHandler, Queue!Start, Settle, Queue!Complete,
       Reschedule, Queue!Reschedule, Defect, End, Crash, Queue!Crash
  <2> QED
    BY <2>1, <2>2
<1> QED
  BY <1>2, <1>4, <1>5, <1>6, <1>7, <1>8, <1>9, <1>10 DEF Next

\* Every variable keeps its type.
THEOREM TypeCorrect == Spec => []TypeOK
<1> DEFINE Rest == spent \in [Jobs -> Nat] /\ faults \in 0..MaxFaults
<1>1. Init => Rest
  BY StorageAssumption DEF Init, Queue!Init
<1>2. Marks /\ Rest /\ [Next]_vars => Rest'
  BY SpentStep, FaultsStep
<1>3. Marks /\ Rest => TypeOK
  <2> SUFFICES ASSUME Marks, Rest PROVE TypeOK
    OBVIOUS
  <2>1. QP!Row = Queue!Row /\ QP!Worker = Queue!Worker
    BY DEF QP!Row, Queue!Row, QP!Worker, Queue!Worker, QP!Status, Queue!Status, QP!Waiting,
       Queue!Waiting, QP!Terminal, Queue!Terminal, QP!Phases, Queue!Phases
  <2>2. Queue!TypeOK
    BY <2>1 DEF Queue!TypeOK, Marks, QP!Tidy
  <2> QED
    BY <2>2 DEF TypeOK, Marks, TypesOK
<1> QED
  BY <1>1, <1>2, <1>3, MarksInvariant, PTL DEF Spec

-----------------------------------------------------------------------------
(* Time: no writer is slower than its reservation *)

Writes(i) == writer[i].pc \in InWrite

\* A reservation that is not due.
Sleeps(j) == row[j].status = "pending" /\ row[j].wait >= 1

\* ... until i has written.
Covers(j, i) ==
  /\ Sleeps(j) /\ cleanup[j] = "Armed"
  /\ row[j].wait >= writer[i].left
  /\ writer[i].pc = "reserved" => row[j].wait >= PutTicks

WritersOK ==
  /\ \A i, k \in Writers : Writes(i) /\ Writes(k) => i = k
  /\ \A i \in Writers : Writes(i) => \E j \in Cleanups : Covers(j, i)
  /\ \A i \in Writers : writer[i].left > 0 => writer[i].pc \in {"putting", "lost"}

\* The time until which the teardown waits covers every write that may land.
Waits(t) ==
  \/ media.intent = t /\ teardown[t].kind = "PathsPrepared"
  \/ teardown[t].kind = "DeletionCommitted"

CoversFor(j, n) == Sleeps(j) /\ row[j].wait >= PutTicks /\ row[j].wait <= n

WaitOK(t) ==
  Waits(t) => \A i \in Writers :
    /\ writer[i].left <= teardown[t].notBefore
    /\ writer[i].pc = "reserved" => \E j \in Cleanups : CoversFor(j, teardown[t].notBefore)

\* Its paths are deleted when that time is over.
Done(t) ==
  \/ row[t].status = "succeeded"
  \/ \E w \in Workers : worker[w].pc = "completing" /\ worker[w].job = t

DoneOK(t) == teardown[t].kind = "DeletionCommitted" /\ Done(t) => teardown[t].notBefore = 0

Timing ==
  /\ WritersOK
  /\ \A t \in Teardowns : WaitOK(t) /\ DoneOK(t)

\* What is not due stays as it is.
SleepersStay ==
  \A j \in Cleanups : Sleeps(j) =>
    /\ row'[j].status = "pending" /\ row'[j].wait = row[j].wait
    /\ cleanup'[j] = cleanup[j]

\* Nothing new to wait for that is not waited for, and nothing done too early.
Calm(t) ==
  /\ \/ Waits(t)' => Waits(t) /\ teardown'[t].notBefore = teardown[t].notBefore
     \/ WaitOK(t)'
  /\ DoneOK(t)'

LEMMA TimingRests ==
  ASSUME Timing, SleepersStay, UNCHANGED writer, \A t \in Teardowns : Calm(t)
  PROVE  Timing'
<1>1. \A i \in Writers, j \in Cleanups : Covers(j, i) => Covers(j, i)'
  BY DEF SleepersStay, Covers, Sleeps
<1>2. WritersOK'
  BY <1>1 DEF Timing, WritersOK, Writes
<1>3. ASSUME NEW t \in Teardowns PROVE WaitOK(t)'
  <2>1. \A j \in Cleanups : \A n : CoversFor(j, n) => CoversFor(j, n)'
    BY DEF SleepersStay, CoversFor, Sleeps
  <2>2. /\ WaitOK(t)
        /\ \/ WaitOK(t)'
           \/ Waits(t)' => Waits(t) /\ teardown'[t].notBefore = teardown[t].notBefore
    BY DEF Timing, Calm
  <2> QED
    BY <2>1, <2>2 DEF WaitOK
<1> QED
  BY <1>2, <1>3 DEF Timing, Calm

\* A media and its teardowns that stay as they are, with nobody to complete one.
LEMMA CalmWhenNobodyCompletes ==
  ASSUME Timing, NEW t \in Teardowns, teardown'[t] = teardown[t],
         media'.intent = t => media.intent = t \/ teardown[t].kind = "Unprepared",
         Done(t)' => Done(t) \/ teardown[t].kind # "DeletionCommitted"
  PROVE  Calm(t)
BY DEF Timing, Calm, Waits, DoneOK

LEMMA SameWorkersDone ==
  ASSUME NEW t \in Teardowns, UNCHANGED worker, row'[t].status = row[t].status
  PROVE  Done(t)' => Done(t)
BY DEF Done

\* Actions under which no writer moves and no time passes, but for the
\* checkpoints of a teardown.
LEMMA CalmActions ==
  ASSUME Marks, Timing,
         \/ AddReference \/ RepointGrants \/ SweepFinds \/ SweepDeletes \/ UNCHANGED vars
         \/ \E t \in Teardowns : ClaimTeardown(t)
         \/ \E j \in Jobs : Repair(j)
  PROVE  Timing'
<1>0. QP!Tidy /\ NoIntent \notin Teardowns /\ Cleanups \cap Teardowns = {}
  BY StorageAssumption DEF Marks, NoIntent
<1>1. CASE AddReference \/ RepointGrants \/ SweepFinds \/ SweepDeletes \/ UNCHANGED vars
  <2>1. UNCHANGED <<row, worker, cleanup, teardown, writer>> /\ media'.intent = media.intent
    <3>1. media' = media \/ media' = [media EXCEPT !.referenced = TRUE]
      BY <1>1 DEF AddReference, RepointGrants, SweepFinds, SweepDeletes, vars
    <3>2. media'.intent = media.intent
      BY <3>1 DEF Marks, TypesOK, Media
    <3> QED
      BY <1>1, <3>2 DEF AddReference, RepointGrants, SweepFinds, SweepDeletes, OnlyMediaMoves, vars,
                        queue, payload
  <2>2. SleepersStay
    BY <2>1 DEF SleepersStay, Sleeps
  <2>3. \A t \in Teardowns : Calm(t)
    BY <2>1, SameWorkersDone, CalmWhenNobodyCompletes
  <2> QED
    BY <2>1, <2>2, <2>3, TimingRests
<1>2. ASSUME NEW t \in Teardowns, ClaimTeardown(t) PROVE Timing'
  <2>1. Becomes(t, "pending", 0) /\ UNCHANGED worker /\ row[t].status = "absent"
        /\ UNCHANGED <<cleanup, teardown, writer>>
    BY <1>0, <1>2, ClaimTeardownEffect DEF ClaimTeardown, payload
  <2>2. SleepersStay
    BY <1>0, <2>1 DEF SleepersStay, Becomes, Only, Jobs, Sleeps
  <2>3. ASSUME NEW s \in Teardowns PROVE Calm(s)
    <3>1. media'.intent = t
      BY <1>2 DEF ClaimTeardown, Marks, TypesOK, Media
    <3>2. teardown[t].kind = "Unprepared"
      BY <2>1 DEF Marks, IntentOK
    <3>3. Done(s)' => Done(s) \/ teardown[s].kind # "DeletionCommitted"
      BY <2>1, <3>2 DEF Done, Becomes, Only, Jobs
    <3> QED
      BY <2>1, <3>1, <3>2, <3>3, CalmWhenNobodyCompletes
  <2> QED
    BY <2>1, <2>2, <2>3, TimingRests
<1>3. ASSUME NEW j \in Jobs, Repair(j) PROVE Timing'
  <2>1. Becomes(j, "pending", 0) /\ UNCHANGED worker /\ row[j].status = "dead"
        /\ UNCHANGED <<media, cleanup, teardown, writer>>
    BY <1>0, <1>3, RepairEffect DEF Repair, OnlyQueueMoves, payload
  <2>2. SleepersStay
    BY <2>1 DEF SleepersStay, Becomes, Only, Jobs, Sleeps
  <2>3. \A s \in Teardowns : Done(s)' => Done(s)
    BY <2>1 DEF Done, Becomes, Only, Jobs
  <2>4. \A s \in Teardowns : Calm(s)
    BY <2>1, <2>3, CalmWhenNobodyCompletes
  <2> QED
    BY <2>1, <2>2, <2>4, TimingRests
<1> QED
  BY <1>1, <1>2, <1>3

\* The worker's own transactions: what they write was running, or due.
LEMMA CalmWorkers ==
  ASSUME Marks, Timing, NEW w \in Workers,
         (\E j \in Jobs : Take(w, j)) \/ EnterHandler(w) \/ Settle(w) \/ Crash(w)
  PROVE  Timing'
<1>0. /\ QP!Tidy /\ NoIntent \notin Teardowns /\ Cleanups \cap Teardowns = {} /\ TypesOK
      /\ UNCHANGED <<cleanup, teardown, writer>>
  BY StorageAssumption DEF Marks, NoIntent, Take, EnterHandler, Settle, Reschedule, Crash,
     OnlyQueueMoves, payload
<1>a. \A t \in Teardowns : media'.intent = t => media.intent = t
  <2>1. \A j : DeadLettered(j) => media' = media \/ media' = [media EXCEPT !.intent = NoIntent]
    BY DEF DeadLettered
  <2>2. media' = media \/ media' = [media EXCEPT !.intent = NoIntent]
    BY <2>1 DEF Take, EnterHandler, Settle, Reschedule, Crash, OnlyQueueMoves
  <2> QED
    BY <1>0, <2>2 DEF TypesOK, Media
<1>1. ASSUME NEW j \in Jobs, Take(w, j) PROVE Timing'
  <2>1. /\ Only(j) /\ ~Sleeps(j) /\ row'[j].status \in {"running", "dead"}
        /\ \A v \in Workers : worker'[v] = worker[v] \/ worker'[v].pc = "claimed"
    <3>1. CASE Queue!Claim(w, j)
      BY <1>0, <3>1, ClaimEffect DEF Becomes, Sleeps
    <3>2. CASE Queue!DeadLetterExpired(w, j)
      BY <1>0, <3>2, ExpireEffect DEF Becomes, Sleeps
    <3> QED
      BY <1>1, <3>1, <3>2 DEF Take
  <2>2. SleepersStay
    BY <1>0, <2>1 DEF SleepersStay, Only, Jobs, Sleeps
  <2>3. \A t \in Teardowns : Done(t)' => Done(t)
    BY <2>1 DEF Done, Only, Jobs
  <2>4. \A t \in Teardowns : Calm(t)
    BY <1>0, <1>a, <2>3, CalmWhenNobodyCompletes
  <2> QED
    BY <1>0, <2>2, <2>4, TimingRests
<1>2. CASE EnterHandler(w)
  <2>1. /\ \A k \in Jobs : row'[k].status = row[k].status /\ row'[k].wait = row[k].wait
        /\ \A v \in Workers : worker'[v] = worker[v] \/ worker'[v].pc \in {"executing", "idle"}
    BY <1>0, <1>2, StartEffect DEF EnterHandler, Goes, Returns
  <2>2. SleepersStay
    BY <1>0, <2>1 DEF SleepersStay, Jobs, Sleeps
  <2>3. \A t \in Teardowns : Done(t)' => Done(t)
    BY <2>1 DEF Done, Jobs
  <2>4. \A t \in Teardowns : Calm(t)
    BY <1>0, <1>a, <2>3, CalmWhenNobodyCompletes
  <2> QED
    BY <1>0, <2>2, <2>4, TimingRests
<1>3. CASE Settle(w) \/ Crash(w)
  <2>1. /\ Returns(w)
        /\ \/ UNCHANGED row
           \/ worker[w].pc = "completing" /\ Settles(w, {"succeeded"})
           \/ Settles(w, {"pending", "failed", "dead"})
    <3>1. CASE Crash(w)
      BY <1>0, <3>1, MemoryEffect DEF Crash, Queue!Crash
    <3>2. CASE Queue!Complete(w)
      BY <1>0, <3>2, SettleEffect
    <3>3. CASE Queue!Reschedule(w) \/ Queue!Fail(w)
      BY <1>0, <3>3, SettleEffect DEF Settles
    <3> QED
      BY <1>3, <3>1, <3>2, <3>3 DEF Settle, Reschedule
  <2>2. PICK j \in Jobs : j = worker[w].job
    BY <1>0, <2>1 DEF Returns, QP!Tidy, QP!Worker
  <2>3. \/ UNCHANGED row
        \/ /\ row[j].status = "running" /\ Only(j)
           /\ row'[j].status = "succeeded" => worker[w].pc = "completing"
    BY <2>1, <2>2 DEF Settles
  <2>4. SleepersStay
    BY <1>0, <2>3 DEF SleepersStay, Only, Jobs, Sleeps
  <2>5. ASSUME NEW t \in Teardowns, Done(t)' PROVE Done(t)
    <3>1. CASE row'[t].status = "succeeded"
      <4>1. row[t].status = "succeeded" \/ (t = j /\ worker[w].pc = "completing")
        BY <2>3, <3>1 DEF Only, Jobs
      <4> QED
        BY <2>2, <4>1 DEF Done
    <3>2. CASE \E v \in Workers : worker'[v].pc = "completing" /\ worker'[v].job = t
      BY <2>1, <3>2 DEF Done, Returns
    <3> QED
      BY <2>5, <3>1, <3>2 DEF Done
  <2>6. \A t \in Teardowns : Calm(t)
    BY <1>0, <1>a, <2>5, CalmWhenNobodyCompletes
  <2> QED
    BY <1>0, <2>4, <2>6, TimingRests
<1> QED
  BY <1>1, <1>2, <1>3

\* Who begins to complete, and nobody else does.
LEMMA CompletesNext ==
  ASSUME Marks, NEW w \in Workers, NEW j \in Jobs, j = worker[w].job, UNCHANGED row,
         NEW t \in Teardowns, Done(t)', NEW ready \in BOOLEAN,
         \/ UNCHANGED queue
         \/ End(w, "failing")
         \/ \E n : AskAgain(w, n)
         \/ End(w, "completing") /\ ready
  PROVE  Done(t) \/ (ready /\ j = t)
<1>1. CASE row'[t].status = "succeeded"
  BY <1>1 DEF Done
<1>2. ASSUME NEW v \in Workers, worker'[v].pc = "completing" /\ worker'[v].job = t
      PROVE  Done(t) \/ (ready /\ j = t)
  <2>1. CASE UNCHANGED queue
    BY <1>2, <2>1 DEF queue, Done
  <2>2. CASE End(w, "failing") \/ \E n : AskAgain(w, n)
    <3>1. Goes(w, "failing") \/ Goes(w, "rescheduling")
      BY <2>2, MemoryEffect DEF Marks, End, AskAgain, QP!Phases
    <3> QED
      BY <1>2, <3>1 DEF Goes, Done
  <2>3. CASE End(w, "completing") /\ ready
    <3>1. Goes(w, "completing")
      BY <2>3, MemoryEffect DEF Marks, End, QP!Phases
    <3> QED
      BY <1>2, <2>3, <3>1 DEF Goes, Done
  <2> QED
    BY <2>1, <2>2, <2>3
<1> QED
  BY <1>1, <1>2 DEF Done

\* A statement of a handler that writes no checkpoint of a teardown.
LEMMA CalmHandler ==
  ASSUME Marks, Timing, NEW w \in Workers, NEW j \in Jobs, j = worker[w].job,
         UNCHANGED <<row, media, teardown, writer>>,
         \/ UNCHANGED cleanup
         \/ row[j].status = "running" /\ \E c : cleanup' = [cleanup EXCEPT ![j] = c],
         \/ UNCHANGED queue
         \/ End(w, "failing")
         \/ \E n : AskAgain(w, n)
         \/ /\ End(w, "completing")
            /\ j \in Teardowns => teardown[j].kind # "DeletionCommitted" \/ teardown[j].notBefore = 0
  PROVE  Timing'
<1>1. SleepersStay
  BY DEF SleepersStay, Sleeps, Marks, TypesOK
<1>2. ASSUME NEW t \in Teardowns PROVE Calm(t)
  <2>0. PICK ready \in BOOLEAN :
          ready <=> (j \in Teardowns => teardown[j].kind # "DeletionCommitted"
                                         \/ teardown[j].notBefore = 0)
    OBVIOUS
  <2>1. ASSUME Done(t)' PROVE Done(t) \/ (ready /\ j = t)
    BY <2>0, <2>1, CompletesNext
  <2>2. DoneOK(t)'
    BY <2>0, <2>1 DEF DoneOK, Timing
  <2> QED
    BY <2>2 DEF Calm, Waits
<1> QED
  BY <1>1, <1>2, TimingRests

LEMMA CalmHandlers ==
  ASSUME Marks, Timing, NEW w \in Workers,
         \/ Read(w) \/ Resolve(w) \/ DeleteObject(w) \/ RecordDeleted(w) \/ DeletePaths(w)
         \/ Defect(w) \/ (worker[w].pc = "executing" /\ (LoseLease(w) \/ Absent(w)))
  PROVE  Timing'
<1>0. worker[w].pc = "executing"
  BY DEF Read, Resolve, DeleteObject, RecordDeleted, DeletePaths, Defect, At
<1>1. PICK j \in Jobs : j = worker[w].job
  BY <1>0, AtHandler
<1>2. Queue!ClaimIsCurrent(w) => row[j].status = "running"
  BY <1>1 DEF Queue!ClaimIsCurrent, Queue!Owns
<1>3. PlaceOK(w) /\ TypesOK /\ Cleanups \cap Teardowns = {}
  BY StorageAssumption DEF Marks
<1>4. \A pc : End(w, pc) => UNCHANGED row
  BY DEF End
<1>5. \A n : AskAgain(w, n) => UNCHANGED row
  BY DEF AskAgain
<1>6. UNCHANGED queue => UNCHANGED row
  BY DEF queue
<1>7. CASE Read(w)
  <2>1. \/ UNCHANGED queue
        \/ /\ End(w, "completing")
           /\ j \in Teardowns => teardown[j].kind # "DeletionCommitted"
    <3>1. CASE j \in Cleanups
      BY <1>1, <1>3, <1>7, <3>1 DEF Read
    <3>2. CASE j \in Teardowns
      BY <1>1, <1>3, <1>7, <3>2 DEF Read
    <3> QED
      BY <3>1, <3>2 DEF Jobs
  <2> QED
    BY <1>1, <1>4, <1>6, <1>7, <2>1, CalmHandler DEF Read, payload
<1>8. CASE LoseLease(w) \/ Absent(w) \/ Defect(w)
  BY <1>1, <1>4, <1>8, CalmHandler DEF LoseLease, Absent, Defect, payload
<1>9. CASE Resolve(w) \/ DeleteObject(w) \/ RecordDeleted(w)
  <2>1. j \notin Teardowns
    <3>1. j \in Cleanups
      BY <1>1, <1>3, <1>9 DEF Resolve, DeleteObject, RecordDeleted, At, PlaceOK
    <3> QED
      BY <1>3, <3>1
  <2>2. \/ LoseLease(w)
        \/ /\ UNCHANGED <<media, teardown, writer>>
           /\ \/ UNCHANGED cleanup
              \/ Queue!ClaimIsCurrent(w) /\ \E c : cleanup' = [cleanup EXCEPT ![j] = c]
           /\ UNCHANGED queue \/ End(w, "completing") \/ AskAgain(w, Window)
    <3>1. CASE Resolve(w)
      BY <1>1, <3>1 DEF Resolve, Fenced, payload
    <3>2. CASE DeleteObject(w)
      BY <3>2 DEF DeleteObject, payload
    <3>3. CASE RecordDeleted(w)
      BY <1>1, <3>3 DEF RecordDeleted, Fenced
    <3> QED
      BY <1>9, <3>1, <3>2, <3>3
  <2> QED
    BY <1>1, <1>2, <1>4, <1>5, <1>6, <1>8, <2>1, <2>2, CalmHandler
<1>10. CASE DeletePaths(w)
  <2>1. j \in Teardowns /\ teardown[j] \in Teardown
    BY <1>1, <1>3, <1>10 DEF DeletePaths, At, PlaceOK, TypesOK
  <2>2. \/ AskAgain(w, teardown[j].notBefore)
        \/ End(w, "completing") /\ ~(teardown[j].notBefore > 0)
    BY <1>1, <1>10 DEF DeletePaths
  <2>3. teardown[j].notBefore > 0 \/ teardown[j].notBefore = 0
    BY <2>1 DEF Teardown
  <2>4. UNCHANGED <<media, cleanup, teardown, writer>>
    BY <1>10 DEF DeletePaths, payload
  <2> QED
    BY <1>1, <1>4, <1>5, <2>2, <2>3, <2>4, CalmHandler
<1> QED
  BY <1>7, <1>8, <1>9, <1>10

\* Every checkpoint of a teardown leaves the others as they are.
LEMMA CalmCheckpoint ==
  ASSUME Marks, Timing, NEW w \in Workers, NEW t \in Teardowns, t = worker[w].job,
         worker[w].pc = "executing", NEW state \in Teardown, Checkpoint(w, t, state),
         media' = media \/ media'.intent = NoIntent,
         \/ state.kind \in {"NoOp", "Stale", "Voided"}
         \/ state = Plan /\ media.intent = t
         \/ /\ state = [teardown[t] EXCEPT !.kind = "DeletionCommitted"]
            /\ media.intent = t /\ teardown[t].kind = "PathsPrepared"
  PROVE  Timing'
<1>0. /\ QP!Tidy /\ TypesOK /\ IntentOK(t) /\ t \in Jobs /\ NoIntent \notin Teardowns
      /\ UNCHANGED <<object, cleanup, writer>>
  BY StorageAssumption DEF Marks, Jobs, NoIntent, Checkpoint
<1>1. /\ teardown'[t] = state
      /\ \A s \in Teardowns : s # t => teardown'[s] = teardown[s]
  BY <1>0 DEF Checkpoint, TypesOK
<1>2. UNCHANGED row
  BY DEF Checkpoint, End, AskAgain
<1>3. SleepersStay
  BY <1>0, <1>2 DEF SleepersStay, Sleeps
<1>4. PICK ready \in BOOLEAN : ready <=> state.kind \notin {"PathsPrepared", "DeletionCommitted"}
  OBVIOUS
<1>5. ASSUME NEW s \in Teardowns, Done(s)' PROVE Done(s) \/ (ready /\ t = s)
  <2>1. \/ \E n : AskAgain(w, n)
        \/ End(w, "completing") /\ ready
    BY <1>4 DEF Checkpoint
  <2> QED
    BY <1>0, <1>2, <1>5, <2>1, CompletesNext
<1>6. ASSUME NEW s \in Teardowns, s # t PROVE Calm(s)
  BY <1>0, <1>1, <1>5, <1>6, CalmWhenNobodyCompletes
<1>7. CASE state.kind \in {"NoOp", "Stale", "Voided"}
  <2>1. Calm(t)
    BY <1>1, <1>7 DEF Calm, Waits, DoneOK
  <2> QED
    BY <1>0, <1>3, <1>6, <2>1, TimingRests
<1>8. CASE state = Plan /\ media.intent = t
  <2>1. state.kind = "PathsPrepared" /\ state.notBefore = Larger(Grace, WriteMayLandFor)
    BY <1>8 DEF Plan
  <2>2. /\ WriteMayLandFor \in 0..Window /\ \A j \in Reservations : row[j].wait <= WriteMayLandFor
    BY <1>0, LatestWindow
  <2>3. /\ state.notBefore \in Nat /\ state.notBefore >= PutTicks
        /\ state.notBefore >= WriteMayLandFor
    BY <2>1, <2>2, StorageAssumption DEF Larger
  <2>4. ASSUME NEW i \in Writers
        PROVE  /\ writer[i].left <= state.notBefore
               /\ writer[i].pc = "reserved" => \E j \in Cleanups : CoversFor(j, state.notBefore)
    <3>1. writer[i].left \in 0..PutTicks
      BY <1>0 DEF TypesOK, Writer
    <3>2. ASSUME writer[i].pc = "reserved"
          PROVE  \E j \in Cleanups : CoversFor(j, state.notBefore)
      <4>1. PICK j \in Cleanups : Covers(j, i)
        BY <3>2 DEF Timing, WritersOK, Writes, InWrite
      <4>2. Sleeps(j) /\ row[j].wait >= PutTicks
        BY <3>2, <4>1 DEF Covers
      <4>3. row[j].wait <= WriteMayLandFor /\ row[j].wait \in Nat
        BY <1>0, <2>2, <4>2 DEF Sleeps, Reservations, Nonterminal, QP!Tidy, QP!Row, Jobs
      <4>4. row[j].wait <= state.notBefore
        BY <2>2, <2>3, <4>3
      <4> QED
        BY <4>2, <4>4 DEF CoversFor
    <3> QED
      BY <2>3, <3>1, <3>2, StorageAssumption
  <2>5. WaitOK(t)'
    BY <1>0, <1>1, <1>2, <2>4 DEF WaitOK, CoversFor, Sleeps
  <2>6. Calm(t)
    BY <1>1, <2>1, <2>5 DEF Calm, DoneOK
  <2> QED
    BY <1>0, <1>3, <1>6, <2>6, TimingRests
<1>9. CASE /\ state = [teardown[t] EXCEPT !.kind = "DeletionCommitted"]
           /\ media.intent = t /\ teardown[t].kind = "PathsPrepared"
  <2>1. state.kind = "DeletionCommitted" /\ state.notBefore = teardown[t].notBefore
    BY <1>0, <1>9 DEF TypesOK, Teardown
  <2>2. ~Done(t)
    BY <1>9, <1>0 DEF Done, IntentOK, Marks, PlaceOK, Final
  <2>3. ~ready
    BY <1>4, <2>1
  <2>4. Calm(t)
    BY <1>1, <1>5, <1>9, <2>1, <2>2, <2>3 DEF Calm, Waits, DoneOK
  <2> QED
    BY <1>0, <1>3, <1>6, <2>4, TimingRests
<1> QED
  BY <1>7, <1>8, <1>9

\* A plan is of the type of the checkpoints, and so is a refusal.
LEMMA CheckpointTypes ==
  ASSUME Marks, NEW t \in Teardowns
  PROVE  /\ Plan \in Teardown /\ NotMine(t) \in Teardown
         /\ NotMine(t).kind \in {"NoOp", "Stale"}
         /\ [Unprepared EXCEPT !.kind = "Voided"] \in Teardown
         /\ [Unprepared EXCEPT !.kind = "Voided"].kind = "Voided"
         /\ [teardown[t] EXCEPT !.kind = "DeletionCommitted"] \in Teardown
<1>0. QP!Tidy /\ TypesOK
  BY DEF Marks
<1>1. WriteMayLandFor \in 0..Window
  BY <1>0, LatestWindow
<1>2. Larger(Grace, WriteMayLandFor) \in Nat
  BY <1>1, StorageAssumption DEF Larger
<1>3. (media.owned \/ Reservations # {}) \in BOOLEAN
  BY <1>0 DEF TypesOK, Media
<1>4. Plan \in Teardown
  BY <1>2, <1>3 DEF Plan, Teardown
<1>5. [teardown[t] EXCEPT !.kind = "DeletionCommitted"] \in Teardown
  BY <1>0 DEF TypesOK, Teardown
<1>6. /\ NotMine(t) \in Teardown /\ NotMine(t).kind \in {"NoOp", "Stale"}
      /\ [Unprepared EXCEPT !.kind = "Voided"] \in Teardown
      /\ [Unprepared EXCEPT !.kind = "Voided"].kind = "Voided"
  BY DEF NotMine, Unprepared, Teardown
<1> QED
  BY <1>4, <1>5, <1>6

LEMMA CalmTeardowns ==
  ASSUME Marks, Timing, NEW w \in Workers, PreparePaths(w) \/ CommitOrVoid(w)
  PROVE  Timing'
<1>0. worker[w].pc = "executing"
  BY DEF PreparePaths, CommitOrVoid, At
<1>1. PICK t \in Teardowns : t = worker[w].job
  BY <1>0, AtHandler DEF PlaceOK, PreparePaths, CommitOrVoid, At
<1>2. IntentOK(t) /\ PlaceOK(w) /\ teardown[t] \in Teardown
  BY DEF Marks, TypesOK
<1>3. \/ LoseLease(w) \/ Absent(w)
      \/ Checkpoint(w, t, NotMine(t)) /\ UNCHANGED media
      \/ Checkpoint(w, t, Plan) /\ UNCHANGED media /\ media.intent = t
      \/ /\ Checkpoint(w, t, [Unprepared EXCEPT !.kind = "Voided"])
         /\ media' = [media EXCEPT !.intent = NoIntent]
      \/ /\ Checkpoint(w, t, [teardown[t] EXCEPT !.kind = "DeletionCommitted"])
         /\ media' = Deleted /\ media.intent = t /\ exec[w].at = "commit"
  <2>1. CASE PreparePaths(w)
    BY <1>1, <2>1 DEF PreparePaths, Fenced
  <2>2. CASE CommitOrVoid(w)
    BY <1>1, <2>2 DEF CommitOrVoid, Fenced, At
  <2> QED
    BY <2>1, <2>2
<1>4. CASE LoseLease(w) \/ Absent(w)
  BY <1>0, <1>4, CalmHandlers
<1>5. CASE Checkpoint(w, t, NotMine(t)) /\ UNCHANGED media
  BY <1>0, <1>1, <1>5, CheckpointTypes, CalmCheckpoint
<1>6. CASE Checkpoint(w, t, Plan) /\ UNCHANGED media /\ media.intent = t
  BY <1>0, <1>1, <1>6, CheckpointTypes, CalmCheckpoint
<1>7. CASE /\ Checkpoint(w, t, [Unprepared EXCEPT !.kind = "Voided"])
           /\ media' = [media EXCEPT !.intent = NoIntent]
  <2>1. media'.intent = NoIntent
    BY <1>7 DEF Marks, TypesOK, Media
  <2> QED
    BY <1>0, <1>1, <1>7, <2>1, CheckpointTypes, CalmCheckpoint
<1>8. CASE /\ Checkpoint(w, t, [teardown[t] EXCEPT !.kind = "DeletionCommitted"])
           /\ media' = Deleted /\ media.intent = t /\ exec[w].at = "commit"
  <2>1. media'.intent = NoIntent
    BY <1>8 DEF Deleted
  <2>2. teardown[t].kind = "PathsPrepared"
    BY <1>1, <1>2, <1>8 DEF IntentOK, PlaceOK, Final, Teardown
  <2> QED
    BY <1>0, <1>1, <1>8, <2>1, <2>2, CheckpointTypes, CalmCheckpoint
<1> QED
  BY <1>3, <1>4, <1>5, <1>6, <1>7, <1>8

\* The step of one writer, while no reservation and no teardown moves.
LEMMA TimingOfWriter ==
  ASSUME Marks, Timing, NEW i \in Writers, writer' \in [Writers -> Writer],
         \A x \in Writers : x # i => writer'[x] = writer[x],
         \/ /\ writer[i].pc = "reserved"
            /\ writer'[i].pc = "putting" /\ writer'[i].left = PutTicks
         \/ /\ writer'[i].pc \in {"put", "owning", "rejected"} => Writes(i)
            /\ writer'[i].pc \in {"put", "owning", "rejected", "done", "discarded"}
            /\ writer'[i].left = 0
         \/ writer[i].pc = "putting" /\ writer'[i].pc = "lost" /\ writer'[i].left = writer[i].left,
         UNCHANGED <<row, worker, cleanup, teardown>>, media'.intent = media.intent
  PROVE  Timing'
<1>0. /\ TypesOK /\ PutTicks \in Nat /\ WritersOK
      /\ \A x \in Writers : writer[x].left \in Nat /\ writer'[x].left \in Nat
  BY StorageAssumption DEF Marks, TypesOK, Writer, Timing
<1>1. ASSUME NEW x \in Writers
      PROVE  /\ Writes(x)' => Writes(x)
             /\ writer'[x].left > 0 => writer'[x].pc \in {"putting", "lost"}
             /\ writer'[x].pc = "reserved" => writer[x].pc = "reserved" /\ writer'[x] = writer[x]
             /\ writer'[x].left <= writer[x].left \/ (writer[x].pc = "reserved" /\ writer'[x].left = PutTicks)
  BY <1>0, <1>1 DEF Writes, WritersOK, InWrite
<1>2. ASSUME NEW x \in Writers, NEW j \in Cleanups, Covers(j, x), Writes(x)'
      PROVE  Covers(j, x)'
  <2>1. row[j].wait \in Nat
    BY DEF Marks, QP!Tidy, QP!Row, Jobs
  <2> QED
    BY <1>0, <1>1, <1>2, <2>1 DEF Covers, Sleeps
<1>3. WritersOK'
  BY <1>0, <1>1, <1>2 DEF WritersOK
<1>4. ASSUME NEW t \in Teardowns PROVE WaitOK(t)' /\ DoneOK(t)'
  <2>0. WaitOK(t) /\ DoneOK(t) /\ (Waits(t)' => Waits(t)) /\ (Done(t)' => Done(t))
    BY DEF Timing, Waits, Done
  <2>1. ASSUME Waits(t)', NEW x \in Writers
        PROVE  /\ writer'[x].left <= teardown[t].notBefore
               /\ writer'[x].pc = "reserved" =>
                    \E j \in Cleanups : CoversFor(j, teardown[t].notBefore)'
    <3>1. /\ writer[x].left <= teardown[t].notBefore /\ teardown[t].notBefore \in Nat
          /\ writer[x].pc = "reserved" => \E j \in Cleanups : CoversFor(j, teardown[t].notBefore)
      BY <1>0, <2>0, <2>1 DEF WaitOK, TypesOK, Teardown
    <3>2. \A j \in Cleanups : /\ CoversFor(j, teardown[t].notBefore) <=> CoversFor(j, teardown[t].notBefore)'
                              /\ CoversFor(j, teardown[t].notBefore) => PutTicks <= teardown[t].notBefore
      BY <1>0, <3>1 DEF CoversFor, Sleeps, Marks, QP!Tidy, QP!Row, Jobs
    <3> QED
      BY <1>0, <1>1, <3>1, <3>2
  <2>2. WaitOK(t)'
    BY <2>1 DEF WaitOK
  <2>3. DoneOK(t)'
    BY <2>0 DEF DoneOK
  <2> QED
    BY <2>2, <2>3
<1> QED
  BY <1>3, <1>4 DEF Timing

LEMMA WriterTiming ==
  ASSUME Marks, Timing, NEW i \in Writers,
         \/ StartPut(i) \/ Land(i) \/ Own(i) \/ Discard(i) \/ LoseWriter(i)
         \/ Finalize(i) /\ UNCHANGED <<queue, cleanup>>
  PROVE  Timing'
<1>0. TypesOK /\ writer[i] \in Writer /\ WritersOK
  BY DEF Marks, TypesOK, Timing
<1>1. writer' \in [Writers -> Writer]
  <2>1. CASE StartPut(i) \/ Land(i) \/ Own(i) \/ Discard(i) \/ LoseWriter(i)
    BY <2>1, OthersMark DEF MarkStep
  <2>2. CASE Finalize(i)
    BY <2>2, FinalizeMark DEF MarkStep
  <2> QED
    BY <2>1, <2>2
<1>2. UNCHANGED <<row, worker, cleanup, teardown>>
  BY DEF StartPut, Land, Own, Discard, LoseWriter, OnlyWriterMoves, Finalize, queue, payload
<1>3. media'.intent = media.intent
  BY <1>0 DEF StartPut, Land, Own, Discard, LoseWriter, Finalize, TypesOK, Media
<1>4. \A x \in Writers : x # i => writer'[x] = writer[x]
  BY <1>0 DEF StartPut, Land, Own, Discard, LoseWriter, Finalize, Move, TypesOK
<1>5. \A pc : Move(i, pc) => writer'[i].pc = pc /\ writer'[i].left = writer[i].left
  BY <1>0 DEF Move, TypesOK, Writer
<1>6. writer[i].pc \notin {"putting", "lost"} => writer[i].left = 0
  BY <1>0, StorageAssumption DEF WritersOK, Writer
<1>7. \/ /\ writer[i].pc = "reserved"
         /\ writer'[i].pc = "putting" /\ writer'[i].left = PutTicks
      \/ /\ writer'[i].pc \in {"put", "owning", "rejected"} => Writes(i)
         /\ writer'[i].pc \in {"put", "owning", "rejected", "done", "discarded"}
         /\ writer'[i].left = 0
      \/ writer[i].pc = "putting" /\ writer'[i].pc = "lost" /\ writer'[i].left = writer[i].left
  <2>1. CASE StartPut(i)
    BY <1>0, <2>1 DEF StartPut, TypesOK
  <2>2. CASE Land(i)
    BY <1>0, <2>2 DEF Land, TypesOK, Writes, InWrite
  <2>3. CASE Own(i)
    BY <1>5, <1>6, <2>3 DEF Own, Writes, InWrite
  <2>4. CASE Discard(i)
    BY <1>5, <1>6, <2>4 DEF Discard, Writes, InWrite
  <2>5. CASE LoseWriter(i)
    <3>1. writer[i].pc = "putting" \/ writer[i].left = 0
      BY <1>6, <2>5 DEF LoseWriter, InWrite
    <3> QED
      BY <1>5, <2>5, <3>1 DEF LoseWriter
  <2>6. CASE Finalize(i)
    <3>1. writer[i].pc = "owning" /\ (Move(i, "done") \/ Move(i, "rejected"))
      BY <2>6 DEF Finalize
    <3> QED
      BY <1>5, <1>6, <3>1 DEF Writes, InWrite
  <2> QED
    BY <2>1, <2>2, <2>3, <2>4, <2>5, <2>6
<1> QED
  BY <1>1, <1>2, <1>3, <1>4, <1>7, TimingOfWriter

\* A reservation covers its writer for the whole window; no teardown waits, for
\* the media has neither gone nor an intent.
LEMMA ReserveTiming ==
  ASSUME Marks, Timing, NEW i \in Writers, Reserve(i)
  PROVE  Timing'
<1>0. /\ QP!Tidy /\ TypesOK /\ WritersOK /\ NoIntent \notin Teardowns
      /\ UNCHANGED <<media, teardown>> /\ media.live /\ media.intent = NoIntent
      /\ Cleanups \cap Teardowns = {}
  BY StorageAssumption DEF Marks, Timing, Reserve, NoIntent
<1>1. PICK j \in Cleanups : Rearm(j) /\ cleanup' = [cleanup EXCEPT ![j] = "Armed"]
  BY DEF Reserve
<1>2. Becomes(j, "pending", Window) /\ UNCHANGED worker
  BY <1>0, <1>1, RearmEffect
<1>3. /\ writer'[i] = [pc |-> "reserved", left |-> 0]
      /\ \A x \in Writers : x # i => ~Writes(x)' /\ (writer'[x].left > 0 => writer'[x].pc = "lost")
  <2>1. writer' = Displaced(i)
    BY DEF Reserve
  <2>2. ASSUME NEW x \in Writers, x # i
        PROVE  ~Writes(x)' /\ (writer'[x].left > 0 => writer'[x].pc = "lost")
    <3>1. CASE writer[x].pc = "putting"
      <4>1. writer'[x] = [writer[x] EXCEPT !.pc = "lost"] /\ writer[x] \in Writer
        BY <1>0, <2>1, <2>2, <3>1 DEF Displaced, TypesOK
      <4> QED
        BY <4>1 DEF Writes, InWrite, Writer
    <3>2. CASE writer[x].pc # "putting" /\ Writes(x)
      <4>1. writer'[x] = [pc |-> "done", left |-> 0]
        BY <2>1, <2>2, <3>2 DEF Displaced, Writes
      <4> QED
        BY <4>1 DEF Writes, InWrite
    <3>3. CASE ~Writes(x)
      <4>1. writer'[x] = writer[x]
        BY <2>1, <2>2, <3>3 DEF Displaced, Writes, InWrite
      <4> QED
        BY <1>0, <3>3, <4>1 DEF Writes, InWrite, WritersOK
    <3> QED
      BY <3>1, <3>2, <3>3
  <2> QED
    BY <2>1, <2>2 DEF Displaced
<1>4. WritersOK'
  <2>1. Covers(j, i)'
    <3>1. cleanup'[j] = "Armed"
      BY <1>0, <1>1 DEF TypesOK
    <3> QED
      BY <1>2, <1>3, <3>1, StorageAssumption DEF Covers, Sleeps, Becomes
  <2> QED
    BY <1>3, <2>1 DEF WritersOK
<1>5. ASSUME NEW t \in Teardowns PROVE WaitOK(t)' /\ DoneOK(t)'
  <2>1. ~Waits(t)
    BY <1>0 DEF Waits, Marks, IntentOK
  <2>2. ~Waits(t)' /\ teardown'[t].kind # "DeletionCommitted"
    BY <1>0, <2>1 DEF Waits
  <2> QED
    BY <2>2 DEF WaitOK, DoneOK
<1> QED
  BY <1>4, <1>5 DEF Timing

\* A writer that has marked its reservation is the last one at work.
LEMMA FinalizeTiming ==
  ASSUME Marks, Timing, NEW i \in Writers, Finalize(i)
  PROVE  Timing'
<1>1. CASE UNCHANGED <<queue, cleanup>>
  BY <1>1, WriterTiming
<1>2. ASSUME NEW j \in Reservations, Retainable(j), Move(i, "done")
      PROVE  Timing'
  <2>0. /\ TypesOK /\ WritersOK /\ NoIntent \notin Teardowns
        /\ UNCHANGED <<media, teardown>> /\ media.live /\ media.intent = NoIntent
        /\ writer[i].pc = "owning"
    BY <1>2, StorageAssumption DEF Marks, Timing, Finalize, NoIntent, Retainable
  <2>1. /\ writer'[i].pc = "done" /\ writer'[i].left = writer[i].left
        /\ \A x \in Writers : x # i => writer'[x] = writer[x]
    BY <1>2, <2>0 DEF Move, TypesOK, Writer
  <2>2. Writes(i) /\ \A x \in Writers : x # i => ~Writes(x)
    BY <2>0 DEF WritersOK, Writes, InWrite
  <2>3. \A x \in Writers : ~Writes(x)'
    BY <2>1, <2>2 DEF Writes, InWrite
  <2>4. WritersOK'
    BY <2>0, <2>1, <2>3 DEF WritersOK
  <2>5. ASSUME NEW t \in Teardowns PROVE WaitOK(t)' /\ DoneOK(t)'
    <3>1. ~Waits(t)
      BY <2>0 DEF Waits, Marks, IntentOK
    <3>2. ~Waits(t)' /\ teardown'[t].kind # "DeletionCommitted"
      BY <2>0, <3>1 DEF Waits
    <3> QED
      BY <3>2 DEF WaitOK, DoneOK
  <2> QED
    BY <2>4, <2>5 DEF Timing
<1> QED
  BY <1>1, <1>2 DEF Finalize

\* Time passes for the write, the reservation and the teardown alike, and not
\* for a reservation that its writer still needs.
LEMMA TickTiming ==
  ASSUME Marks, Timing, "late" \notin Windows, Tick
  PROVE  Timing'
<1>0. /\ QP!Tidy /\ TypesOK /\ WritersOK /\ Timely
      /\ UNCHANGED <<media, cleanup>> /\ PutTicks \in Nat \ {0}
  BY StorageAssumption DEF Marks, Timing, Tick
<1>a. /\ \A n \in Nat : /\ Queue!Elapse(n) \in Nat /\ Queue!Elapse(n) <= n
                        /\ n >= 1 => Queue!Elapse(n) = n - 1
      /\ \A m, n \in Nat : m <= n => Queue!Elapse(m) <= Queue!Elapse(n)
  BY DEF Queue!Elapse
<1>b. Queue!Elapse(0) = 0
  BY DEF Queue!Elapse
<1>1. /\ \A t \in Teardowns : /\ teardown[t].notBefore \in Nat
                              /\ teardown'[t].kind = teardown[t].kind
                              /\ teardown'[t].notBefore = Queue!Elapse(teardown[t].notBefore)
      /\ \A i \in Writers : /\ writer[i].left \in Nat
                            /\ writer'[i].pc = writer[i].pc
                            /\ writer'[i].left = Queue!Elapse(writer[i].left)
  <2>1. ASSUME NEW t \in Teardowns
        PROVE  /\ teardown[t].notBefore \in Nat
               /\ teardown'[t].kind = teardown[t].kind
               /\ teardown'[t].notBefore = Queue!Elapse(teardown[t].notBefore)
    <3> DEFINE n == Queue!Elapse(teardown[t].notBefore)
    <3>1. teardown[t] \in Teardown /\ teardown'[t] = [teardown[t] EXCEPT !.notBefore = n]
      BY <1>0 DEF Tick, TypesOK
    <3> HIDE DEF n
    <3>2. teardown[t].notBefore \in Nat /\ teardown'[t].kind = teardown[t].kind /\ teardown'[t].notBefore = n
      BY <3>1 DEF Teardown
    <3> QED
      BY <3>2 DEF n
  <2>2. ASSUME NEW i \in Writers
        PROVE  /\ writer[i].left \in Nat
               /\ writer'[i].pc = writer[i].pc
               /\ writer'[i].left = Queue!Elapse(writer[i].left)
    <3> DEFINE n == Queue!Elapse(writer[i].left)
    <3>1. writer[i] \in Writer /\ writer'[i] = [writer[i] EXCEPT !.left = n]
      BY <1>0 DEF Tick, TypesOK
    <3> HIDE DEF n
    <3>2. writer[i].left \in Nat /\ writer'[i].pc = writer[i].pc /\ writer'[i].left = n
      BY <1>0, <3>1 DEF Writer
    <3> QED
      BY <3>2 DEF n
  <2> QED
    BY <2>1, <2>2
<1>2. /\ UNCHANGED worker
      /\ \A k \in Jobs : row[k].wait \in Nat /\ row'[k].status = row[k].status
      /\ \/ \A k \in Jobs : row'[k].wait = Queue!Elapse(row[k].wait)
         \/ \A k \in Jobs : ~Sleeps(k)
  <2>1. CASE Queue!Tick
    BY <1>0, <2>1, TickEffect DEF QP!Tidy, QP!Row
  <2>2. CASE UNCHANGED queue /\ \A j \in Jobs : row[j].wait = 0
    BY <1>0, <2>2 DEF queue, QP!Tidy, QP!Row, Sleeps
  <2> QED
    BY <2>1, <2>2 DEF Tick
<1>3. ASSUME NEW i \in Writers, Writes(i), NEW j \in Cleanups, Sleeps(j)
      PROVE  /\ row[j].wait >= 2 /\ row'[j].status = "pending"
             /\ row'[j].wait \in Nat /\ row'[j].wait = row[j].wait - 1
             /\ writer[i].pc = "reserved" => row[j].wait >= PutTicks + 1
  <2>1. j \in Jobs /\ j \in Reservations /\ row[j].wait \in Nat /\ row[j].wait >= 1
    BY <1>2, <1>3 DEF Jobs, Reservations, Nonterminal, Sleeps
  <2>2. /\ writer[i].pc = "reserved" => row[j].wait \notin 1..PutTicks
        /\ writer[i].pc # "reserved" => row[j].wait \notin 1..1
    BY <1>0, <1>3, <2>1 DEF Timely, Writes
  <2>3. row[j].wait >= 2 /\ (writer[i].pc = "reserved" => row[j].wait >= PutTicks + 1)
    BY <1>0, <2>1, <2>2
  <2> QED
    BY <1>a, <1>2, <1>3, <2>1, <2>3 DEF Sleeps
<1>4. WritersOK'
  <2>1. ASSUME NEW i \in Writers, NEW j \in Cleanups, Writes(i), Covers(j, i)
        PROVE  Covers(j, i)'
    <3>1. Sleeps(j) /\ row[j].wait >= writer[i].left /\ cleanup'[j] = "Armed"
      BY <1>0, <2>1 DEF Covers
    <3>2. /\ row[j].wait >= 2 /\ row'[j].status = "pending" /\ row'[j].wait = row[j].wait - 1
          /\ writer[i].pc = "reserved" => row[j].wait >= PutTicks + 1
          /\ row[j].wait \in Nat
      BY <1>2, <1>3, <2>1, <3>1 DEF Jobs
    <3>3. writer[i].left \in Nat /\ writer'[i].left <= row[j].wait - 1
      <4>1. CASE writer[i].left = 0
        BY <1>1, <1>b, <3>2, <4>1
      <4>2. CASE writer[i].left # 0
        BY <1>1, <1>a, <3>1, <3>2, <4>2
      <4> QED
        BY <1>1, <4>1, <4>2
    <3> QED
      BY <1>0, <1>1, <3>1, <3>2, <3>3 DEF Covers, Sleeps
  <2>2. \A i \in Writers : /\ Writes(i)' <=> Writes(i)
                           /\ writer'[i].left > 0 => writer[i].left > 0
    BY <1>1, <1>a DEF Writes
  <2> QED
    BY <1>0, <1>1, <2>1, <2>2 DEF WritersOK
<1>5. ASSUME NEW t \in Teardowns PROVE WaitOK(t)' /\ DoneOK(t)'
  <2>1. /\ Waits(t)' => Waits(t)
        /\ Done(t)' => Done(t)
    BY <1>0, <1>1, <1>2 DEF Waits, Done, Jobs
  <2>2. DoneOK(t)'
    BY <1>1, <1>b, <2>1 DEF DoneOK, Timing
  <2>3. ASSUME Waits(t), NEW i \in Writers
        PROVE  /\ writer'[i].left <= teardown'[t].notBefore
               /\ writer'[i].pc = "reserved" =>
                    \E j \in Cleanups : CoversFor(j, teardown[t].notBefore)'
    <3>1. /\ writer[i].left <= teardown[t].notBefore
          /\ writer[i].pc = "reserved" => \E j \in Cleanups : CoversFor(j, teardown[t].notBefore)
      BY <2>3 DEF Timing, WaitOK
    <3>2. writer'[i].left <= teardown'[t].notBefore
      BY <1>1, <1>a, <3>1
    <3>3. ASSUME NEW j \in Cleanups, writer[i].pc = "reserved", CoversFor(j, teardown[t].notBefore)
          PROVE  CoversFor(j, teardown[t].notBefore)'
      <4>1. Sleeps(j) /\ row[j].wait <= teardown[t].notBefore
        BY <3>3 DEF CoversFor
      <4>2. /\ row[j].wait >= 2 /\ row'[j].status = "pending" /\ row'[j].wait = row[j].wait - 1
            /\ row[j].wait >= PutTicks + 1 /\ row[j].wait \in Nat
        BY <1>2, <1>3, <3>3, <4>1 DEF Jobs, Writes, InWrite
      <4>3. teardown'[t].notBefore = teardown[t].notBefore - 1
        BY <1>1, <1>a, <4>1, <4>2
      <4> QED
        BY <1>0, <1>1, <4>1, <4>2, <4>3 DEF CoversFor, Sleeps
    <3> QED
      BY <1>1, <3>1, <3>2, <3>3
  <2>4. WaitOK(t)'
    BY <2>1, <2>3 DEF WaitOK
  <2> QED
    BY <2>2, <2>4
<1> QED
  BY <1>4, <1>5 DEF Timing

LEMMA InitTiming == Init => Timing
<1> SUFFICES ASSUME Init PROVE Timing
  OBVIOUS
<1>1. \A i \in Writers : writer[i].pc = "idle" /\ writer[i].left = 0
  BY DEF Init
<1>2. \A t \in Teardowns : teardown[t].kind = "Unprepared"
  BY DEF Init, Unprepared
<1> QED
  BY <1>1, <1>2 DEF Timing, WritersOK, Writes, InWrite, WaitOK, Waits, DoneOK

LEMMA TimingKept ==
  ASSUME Marks, Timing, "late" \notin Windows, [Next]_vars
  PROVE  Timing'
<1>1. ASSUME NEW i \in Writers, WriterStep(i) PROVE Timing'
  BY <1>1, WriterTiming, ReserveTiming, FinalizeTiming DEF WriterStep
<1>2. ASSUME NEW w \in Workers, WorkerStep(w) PROVE Timing'
  BY <1>2, CalmWorkers, CalmHandlers, CalmTeardowns DEF WorkerStep, HandlerStep
<1> QED
  BY <1>1, <1>2, CalmActions, TickTiming DEF Next

\* While no writer is slower than its reservation, each has one that is not due,
\* and a teardown waits for what may still land.
THEOREM TimingInvariant ==
  ASSUME "late" \notin Windows
  PROVE  Spec => [](Marks /\ Timing)
<1>1. Timing /\ Marks /\ Marks' /\ [Next]_vars => Timing'
  BY TimingKept
<1> QED
  BY <1>1, InitTiming, MarksInvariant, PTL DEF Spec

\* cleanupNotBefore is late enough: once a teardown has deleted its paths and
\* succeeded, no write that was under way can bring the object back.
THEOREM DeletedStaysDeleted ==
  ASSUME "late" \notin Windows
  PROVE  Spec => []NothingComesBack
<1>1. Marks /\ Timing => NothingComesBack
  <2> SUFFICES ASSUME Marks, Timing, NEW t \in Teardowns, NEW i \in Writers,
                      teardown[t].kind = "DeletionCommitted", row[t].status = "succeeded"
               PROVE  writer[i].left = 0
    BY DEF NothingComesBack
  <2>1. teardown[t].notBefore = 0 /\ writer[i].left <= teardown[t].notBefore
    BY DEF Timing, DoneOK, Done, WaitOK, Waits
  <2>2. writer[i].left \in 0..PutTicks
    BY DEF Marks, TypesOK, Writer
  <2> QED
    BY <2>1, <2>2, StorageAssumption
<1> QED
  BY <1>1, TimingInvariant, PTL

-----------------------------------------------------------------------------
(* One reservation *)

OneReservation == \A j, k \in Reservations : j = k

\* A reservation comes only when there is none.
LEMMA ReservationsStep ==
  ASSUME Marks, "repair" \notin Windows, [Next]_vars
  PROVE  \/ Reservations' \subseteq Reservations
         \/ Reservations = {} /\ \E j \in Cleanups : Reservations' \subseteq {j}
<1>0. QP!Tidy /\ Cleanups \cap Teardowns = {} /\ Cleanups \subseteq Jobs
  BY StorageAssumption DEF Marks, Jobs
<1>1. (\A k \in Cleanups : Nonterminal(k)' => Nonterminal(k)) => Reservations' \subseteq Reservations
  BY DEF Reservations
<1>2. ASSUME NEW j \in Jobs, Only(j), Nonterminal(j)
      PROVE  \A k \in Cleanups : Nonterminal(k)' => Nonterminal(k)
  BY <1>0, <1>2 DEF Only, Nonterminal
<1>3. ASSUME NEW j \in Teardowns, Only(j)
      PROVE  \A k \in Cleanups : Nonterminal(k)' => Nonterminal(k)
  BY <1>0, <1>3 DEF Only, Nonterminal
<1>4. ASSUME NEW j \in Cleanups, Only(j), Reservations = {}
      PROVE  Reservations' \subseteq {j}
  BY <1>0, <1>4 DEF Only, Nonterminal, Reservations
<1>5. ASSUME \A k \in Jobs : row'[k].status = row[k].status
      PROVE  Reservations' \subseteq Reservations
  BY <1>0, <1>5 DEF Reservations, Nonterminal
<1>6. ASSUME NEW i \in Writers, Reserve(i)
      PROVE  \/ Reservations' \subseteq Reservations
             \/ Reservations = {} /\ \E j \in Cleanups : Reservations' \subseteq {j}
  <2>1. PICK j \in Cleanups : Rearm(j)
    BY <1>6 DEF Reserve
  <2>2. Only(j) /\ (Reservations = {} \/ Nonterminal(j))
    BY <1>0, <2>1, RearmEffect DEF Becomes, Nonterminal
  <2> QED
    BY <1>0, <1>1, <1>2, <1>4, <2>2
<1>7. ASSUME NEW i \in Writers, Finalize(i) PROVE Reservations' \subseteq Reservations
  <2>1. CASE UNCHANGED queue
    BY <1>5, <2>1 DEF queue
  <2>2. ASSUME NEW j \in Reservations, Queue!UpdateUnclaimed(j), row'[j].wait = 0
        PROVE  Reservations' \subseteq Reservations
    BY <1>0, <1>1, <1>2, <2>2, FinalizeEffect DEF Becomes, Nonterminal, Reservations
  <2> QED
    BY <1>7, <2>1, <2>2 DEF Finalize
<1>8. ASSUME NEW t \in Teardowns, ClaimTeardown(t) PROVE Reservations' \subseteq Reservations
  BY <1>0, <1>1, <1>3, <1>8, ClaimTeardownEffect DEF ClaimTeardown, Becomes
<1>9. ASSUME NEW j \in Jobs, Repair(j)
      PROVE  \/ Reservations' \subseteq Reservations
             \/ Reservations = {} /\ \E k \in Cleanups : Reservations' \subseteq {k}
  <2>1. Only(j)
    BY <1>0, <1>9, RepairEffect DEF Repair, Becomes
  <2>2. j \in Teardowns \/ (j \in Cleanups /\ Reservations = {})
    BY <1>9 DEF Repair, Jobs
  <2> QED
    BY <1>1, <1>3, <1>4, <2>1, <2>2
<1>10. ASSUME NEW w \in Workers, NEW j \in Jobs, Take(w, j)
       PROVE  Reservations' \subseteq Reservations
  <2>1. Only(j) /\ Nonterminal(j)
    BY <1>0, <1>10, ClaimEffect, ExpireEffect DEF Take, Becomes, Nonterminal
  <2> QED
    BY <1>1, <1>2, <2>1
<1>11. ASSUME NEW w \in Workers, EnterHandler(w) PROVE Reservations' \subseteq Reservations
  BY <1>0, <1>5, <1>11, StartEffect DEF EnterHandler
<1>12. ASSUME NEW w \in Workers, Settle(w) \/ Crash(w)
       PROVE  Reservations' \subseteq Reservations
  <2>1. \/ UNCHANGED row
        \/ \E S : Settles(w, S)
    <3>1. CASE Crash(w)
      BY <3>1 DEF Crash, Queue!Crash
    <3>2. CASE Queue!Complete(w) \/ Queue!Reschedule(w) \/ Queue!Fail(w)
      BY <1>0, <3>2, SettleEffect
    <3> QED
      BY <1>12, <3>1, <3>2 DEF Settle, Reschedule
  <2>2. CASE UNCHANGED row
    BY <1>5, <2>2
  <2>3. ASSUME QP!Holds(w), row[worker[w].job].status = "running", Only(worker[w].job)
        PROVE  Reservations' \subseteq Reservations
    <3>1. PICK j \in Jobs : j = worker[w].job
      BY <1>0, <2>3 DEF QP!Holds, QP!Tidy, QP!Worker
    <3>2. Only(j) /\ Nonterminal(j)
      BY <2>3, <3>1 DEF Nonterminal
    <3> QED
      BY <1>1, <1>2, <3>2
  <2> QED
    BY <2>1, <2>2, <2>3 DEF Settles
<1>13. ASSUME NEW w \in Workers, HandlerStep(w) \/ Defect(w)
       PROVE  Reservations' \subseteq Reservations
  BY <1>5, <1>13, HandlerMoves
<1>14. CASE Tick
  <2>1. CASE Queue!Tick
    BY <1>0, <1>5, <2>1, TickEffect
  <2>2. CASE UNCHANGED queue
    BY <1>5, <2>2 DEF queue
  <2> QED
    BY <1>14, <2>1, <2>2 DEF Tick
<1> QED
  BY <1>5, <1>6, <1>7, <1>8, <1>9, <1>10, <1>11, <1>12, <1>13, <1>14, OthersRest
  DEF Next, WriterStep, WorkerStep

\* DeleteRequired excludes every other reservation and every writer, as long as
\* no writer is slower than its own and nobody repairs a reservation blindly.
THEOREM HoldsAreExclusive ==
  ASSUME "late" \notin Windows, "repair" \notin Windows
  PROVE  Spec => []HoldIsExclusive
<1>1. Init => OneReservation
  BY DEF Init, Queue!Init, Queue!Fresh, Queue!Unclaimed, OneReservation, Reservations,
         Nonterminal, Jobs
<1>2. OneReservation /\ Marks /\ [Next]_vars => OneReservation'
  <2> SUFFICES ASSUME OneReservation, Marks, [Next]_vars PROVE OneReservation'
    OBVIOUS
  <2>1. \/ Reservations' \subseteq Reservations
        \/ \E j \in Cleanups : Reservations' \subseteq {j}
    BY ReservationsStep
  <2> QED
    BY <2>1 DEF OneReservation
<1>3. OneReservation /\ Marks /\ Timing => HoldIsExclusive
  <2> SUFFICES ASSUME OneReservation, Timing, NEW j \in Cleanups,
                      Nonterminal(j), cleanup[j] = "DeleteRequired"
               PROVE  Reservations = {j} /\ \A i \in Writers : writer[i].pc \notin InWrite
    BY DEF HoldIsExclusive
  <2>1. j \in Reservations /\ Reservations = {j}
    BY DEF OneReservation, Reservations
  <2>2. \A i \in Writers : Writes(i) => \E k \in Reservations : cleanup[k] = "Armed"
    BY DEF Timing, WritersOK, Covers, Sleeps, Reservations, Nonterminal
  <2> QED
    BY <2>1, <2>2 DEF Writes
<1> QED
  BY <1>1, <1>2, <1>3, TimingInvariant, PTL DEF Spec

-----------------------------------------------------------------------------
(* Who writes what *)

\* What a step may do to a row.
RowMoves(j) ==
  \/ row'[j].status = row[j].status /\ row'[j].wait = row[j].wait
  \/ /\ ~Sleeps(j) /\ row'[j].status \in {"pending", "running", "failed", "dead"}
     /\ Nonterminal(j) \/ Repair(j) \/ j \in Teardowns
  \/ /\ ~Sleeps(j) /\ row'[j].status = "succeeded"
     /\ \E w \in Workers : QP!Holds(w) /\ worker[w].pc = "completing" /\ worker[w].job = j
  \/ row'[j].status = row[j].status /\ Tick
  \/ row'[j].status = "pending" /\ \E i \in Writers : Reserve(i) \/ Finalize(i)

LEMMA EveryRowMoves ==
  ASSUME Marks, [Next]_vars, NEW j \in Jobs
  PROVE  RowMoves(j)
<1>0. QP!Tidy /\ Cleanups \subseteq Jobs /\ Reservations \subseteq Cleanups
  BY DEF Marks, Jobs, Reservations
<1>1. CASE UNCHANGED row
  BY <1>1 DEF RowMoves
<1>2. ASSUME NEW k \in Jobs, Only(k), j # k PROVE RowMoves(j)
  BY <1>2 DEF Only, RowMoves
<1>3. ASSUME NEW i \in Writers, Reserve(i) PROVE RowMoves(j)
  <2>1. PICK k \in Cleanups : Rearm(k)
    BY <1>3 DEF Reserve
  <2>2. Only(k) /\ row'[k].status = "pending"
    BY <1>0, <2>1, RearmEffect DEF Becomes
  <2> QED
    BY <1>0, <1>2, <1>3, <2>2 DEF RowMoves
<1>4. ASSUME NEW i \in Writers, Finalize(i) PROVE RowMoves(j)
  <2>1. CASE UNCHANGED queue
    BY <1>1, <2>1 DEF queue
  <2>2. ASSUME NEW k \in Reservations, Queue!UpdateUnclaimed(k), row'[k].wait = 0
        PROVE  RowMoves(j)
    <3>1. Only(k) /\ row'[k].status = "pending" /\ k \in Jobs
      BY <1>0, <2>2, FinalizeEffect DEF Becomes
    <3> QED
      BY <1>2, <1>4, <3>1 DEF RowMoves
  <2> QED
    BY <1>4, <2>1, <2>2 DEF Finalize
<1>5. ASSUME NEW t \in Teardowns, ClaimTeardown(t) PROVE RowMoves(j)
  <2>1. Only(t) /\ row'[t].status = "pending" /\ ~Sleeps(t) /\ t \in Jobs
    BY <1>0, <1>5, ClaimTeardownEffect DEF ClaimTeardown, Becomes, Sleeps, Jobs
  <2> QED
    BY <1>2, <2>1 DEF RowMoves
<1>6. ASSUME NEW k \in Jobs, Repair(k) PROVE RowMoves(j)
  <2>1. Only(k) /\ row'[k].status = "pending" /\ ~Sleeps(k)
    BY <1>0, <1>6, RepairEffect DEF Repair, Becomes, Sleeps
  <2> QED
    BY <1>2, <1>6, <2>1 DEF RowMoves
<1>7. ASSUME NEW w \in Workers, NEW k \in Jobs, Take(w, k) PROVE RowMoves(j)
  <2>1. Only(k) /\ row'[k].status \in {"running", "dead"} /\ ~Sleeps(k)
    BY <1>0, <1>7, ClaimEffect, ExpireEffect DEF Take, Becomes, Sleeps
  <2>2. Nonterminal(k)
    BY <1>0, <1>7, ClaimEffect, ExpireEffect DEF Take, Nonterminal
  <2> QED
    BY <1>2, <2>1, <2>2 DEF RowMoves
<1>8. ASSUME NEW w \in Workers, EnterHandler(w) PROVE RowMoves(j)
  BY <1>0, <1>8, StartEffect DEF EnterHandler, RowMoves
<1>9. ASSUME NEW w \in Workers, Settle(w) \/ Crash(w) PROVE RowMoves(j)
  <2>1. \/ UNCHANGED row
        \/ worker[w].pc = "completing" /\ Settles(w, {"succeeded"})
        \/ Settles(w, {"pending"}) \/ Settles(w, {"failed", "dead"})
    <3>1. CASE Crash(w)
      BY <3>1 DEF Crash, Queue!Crash
    <3>2. CASE Queue!Complete(w) \/ Queue!Reschedule(w) \/ Queue!Fail(w)
      BY <1>0, <3>2, SettleEffect
    <3> QED
      BY <1>9, <3>1, <3>2 DEF Settle, Reschedule
  <2>2. CASE UNCHANGED row
    BY <1>1, <2>2
  <2>3. ASSUME ~(UNCHANGED row) PROVE RowMoves(j)
    <3>1. QP!Holds(w)
      BY <2>1, <2>3 DEF Settles
    <3>2. PICK k \in Jobs : k = worker[w].job
      BY <1>0, <3>1 DEF QP!Holds, QP!Tidy, QP!Worker
    <3>3. /\ Only(k) /\ ~Sleeps(k) /\ Nonterminal(k)
          /\ \/ worker[w].pc = "completing" /\ row'[k].status = "succeeded"
             \/ row'[k].status \in {"pending", "failed", "dead"}
      BY <2>1, <2>3, <3>2 DEF Settles, Sleeps, Nonterminal
    <3> QED
      BY <1>2, <3>1, <3>2, <3>3 DEF RowMoves
  <2> QED
    BY <2>2, <2>3
<1>10. ASSUME NEW w \in Workers, HandlerStep(w) \/ Defect(w) PROVE RowMoves(j)
  BY <1>1, <1>10, HandlerMoves
<1>11. CASE Tick
  <2>1. row'[j].status = row[j].status
    <3>1. CASE Queue!Tick
      BY <1>0, <3>1, TickEffect
    <3>2. CASE UNCHANGED queue
      BY <3>2 DEF queue
    <3> QED
      BY <1>11, <3>1, <3>2 DEF Tick
  <2> QED
    BY <1>11, <2>1 DEF RowMoves
<1> QED
  BY <1>1, <1>3, <1>4, <1>5, <1>6, <1>7, <1>8, <1>9, <1>10, <1>11, OthersRest
  DEF Next, WriterStep, WorkerStep

\* The memory of a worker is its own.
LEMMA OwnMemory ==
  ASSUME Marks, NEW v \in Workers, WorkerStep(v), NEW w \in Workers, w # v
  PROVE  worker'[w] = worker[w] /\ exec'[w] = exec[w]
<1>0. QP!Tidy /\ TypesOK /\ worker \in [Workers -> QP!Worker]
  BY DEF Marks, QP!Tidy
<1> DEFINE Mine == \E r : exec' = [exec EXCEPT ![v] = r]
           Rests == exec'[w] = exec[w]
<1>1. Mine \/ exec' = exec => Rests
  BY <1>0 DEF TypesOK
<1>2. /\ \A pc : End(v, pc) => Rests
      /\ \A n : AskAgain(v, n) => Rests
      /\ \A point : Go(v, point) => Rests
      /\ Leave(v) => Rests
  BY <1>0 DEF End, AskAgain, Go, Leave, TypesOK
<1> HIDE DEF Mine, Rests
<1>3. ASSUME HandlerStep(v) \/ Defect(v)
      PROVE  worker'[w] = worker[w] /\ Rests
  <2>1. worker'[w] = worker[w]
    BY <1>0, <1>3, HandlerMoves DEF Queue!Goto
  <2>2. LoseLease(v) \/ Absent(v) => Rests
    BY <1>2 DEF LoseLease, Absent
  <2>3. \A t, s : Checkpoint(v, t, s) => Rests
    BY <1>2 DEF Checkpoint
  <2>4. Read(v) => Rests
    BY <1>2 DEF Read
  <2>5. Resolve(v) \/ DeleteObject(v) \/ RecordDeleted(v) => Rests
    BY <1>2, <2>2 DEF Resolve, DeleteObject, RecordDeleted, Fenced
  <2>6. PreparePaths(v) => Rests
    BY <1>2, <2>2, <2>3 DEF PreparePaths, Fenced
  <2>7. CommitOrVoid(v) => Rests
    BY <1>2, <2>2, <2>3 DEF CommitOrVoid, Fenced
  <2>8. DeletePaths(v) \/ Defect(v) => Rests
    BY <1>2 DEF DeletePaths, Defect
  <2> QED
    BY <1>3, <2>1, <2>4, <2>5, <2>6, <2>7, <2>8 DEF HandlerStep
<1>4. ASSUME NEW j \in Jobs, Take(v, j)
      PROVE  worker'[w] = worker[w] /\ Rests
  BY <1>0, <1>1, <1>4, ClaimEffect, ExpireEffect DEF Take, OnlyQueueMoves
<1>5. ASSUME EnterHandler(v)
      PROVE  worker'[w] = worker[w] /\ Rests
  BY <1>0, <1>1, <1>2, <1>5, StartEffect DEF EnterHandler, Goes, Returns
<1>6. ASSUME Settle(v) \/ Crash(v)
      PROVE  worker'[w] = worker[w] /\ Rests
  <2>1. Returns(v)
    BY <1>0, <1>6, SettleEffect, MemoryEffect DEF Settle, Reschedule, Crash, Queue!Crash
  <2> QED
    BY <1>1, <1>2, <1>6, <2>1 DEF Settle, Reschedule, Crash, OnlyQueueMoves, Returns
<1> QED
  BY <1>3, <1>4, <1>5, <1>6 DEF WorkerStep, Rests

LEMMA Bystanders ==
  ASSUME Marks, [Next]_vars, NEW w \in Workers, ~WorkerStep(w)
  PROVE  worker'[w] = worker[w] /\ exec'[w] = exec[w]
<1>0. QP!Tidy
  BY DEF Marks
<1>1. ASSUME NEW i \in Writers, Reserve(i) \/ Finalize(i)
      PROVE  UNCHANGED <<worker, exec>>
  BY <1>0, <1>1, RearmEffect, FinalizeEffect DEF Reserve, Finalize, queue
<1>2. ASSUME NEW t \in Teardowns, ClaimTeardown(t) PROVE UNCHANGED <<worker, exec>>
  BY <1>0, <1>2, ClaimTeardownEffect DEF ClaimTeardown
<1>3. ASSUME NEW j \in Jobs, Repair(j) PROVE UNCHANGED <<worker, exec>>
  BY <1>0, <1>3, RepairEffect DEF Repair, OnlyQueueMoves
<1>4. CASE Tick
  BY <1>0, <1>4, TickEffect DEF Tick, queue
<1>5. ASSUME NEW v \in Workers, WorkerStep(v)
      PROVE  worker'[w] = worker[w] /\ exec'[w] = exec[w]
  BY <1>5, OwnMemory
<1> QED
  BY <1>1, <1>2, <1>3, <1>4, <1>5, OthersRest DEF Next, WriterStep

\* Each variable of the system is written by these alone.
LEMMA WhoWrites ==
  ASSUME Marks, [Next]_vars
  PROVE  /\ writer' = writer \/ Tick \/ \E i \in Writers : WriterStep(i)
         /\ (object' => object) \/ \E i \in Writers : Land(i)
         /\ \/ UNCHANGED cleanup
            \/ \E i \in Writers : Reserve(i) \/ Finalize(i)
            \/ \E w \in Workers : Resolve(w) \/ RecordDeleted(w)
         /\ teardown' = teardown \/ Tick \/ \E w \in Workers : PreparePaths(w) \/ CommitOrVoid(w)
         /\ \/ media'.owned = media.owned
            \/ \E i \in Writers : Own(i)
            \/ \E w \in Workers : CommitOrVoid(w) /\ media' = Deleted
<1> DEFINE Result ==
       /\ writer' = writer \/ Tick \/ \E i \in Writers : WriterStep(i)
       /\ (object' => object) \/ \E i \in Writers : Land(i)
       /\ \/ UNCHANGED cleanup
          \/ \E i \in Writers : Reserve(i) \/ Finalize(i)
          \/ \E w \in Workers : Resolve(w) \/ RecordDeleted(w)
       /\ teardown' = teardown \/ Tick \/ \E w \in Workers : PreparePaths(w) \/ CommitOrVoid(w)
       /\ \/ media'.owned = media.owned
          \/ \E i \in Writers : Own(i)
          \/ \E w \in Workers : CommitOrVoid(w) /\ media' = Deleted
<1>0. TypesOK
  BY DEF Marks
<1>a. /\ \A intent : [media EXCEPT !.intent = intent].owned = media.owned
      /\ [media EXCEPT !.referenced = TRUE].owned = media.owned
      /\ \A t : [media EXCEPT !.intent = t, !.referenced = FALSE].owned = media.owned
  BY <1>0 DEF TypesOK, Media
<1>1. ASSUME NEW i \in Writers, WriterStep(i) PROVE Result
  <2>1. UNCHANGED cleanup \/ Reserve(i) \/ Finalize(i)
    BY <1>1 DEF WriterStep, StartPut, Land, Own, Discard, LoseWriter, OnlyWriterMoves, payload
  <2>2. (object' => object) \/ Land(i)
    BY <1>1 DEF WriterStep, Reserve, StartPut, Own, Finalize, Discard, LoseWriter
  <2>3. teardown' = teardown
    BY <1>1 DEF WriterStep, Reserve, StartPut, Land, Own, Finalize, Discard, LoseWriter,
                OnlyWriterMoves, payload
  <2>4. media' = media \/ Own(i)
    BY <1>1 DEF WriterStep, Reserve, StartPut, Land, Finalize, Discard, LoseWriter
  <2> QED
    BY <1>1, <2>1, <2>2, <2>3, <2>4
<1>2. CASE AddReference \/ RepointGrants \/ SweepFinds \/ SweepDeletes \/ UNCHANGED vars
  <2>1. UNCHANGED <<cleanup, teardown, writer>> /\ (object' => object)
    BY <1>2 DEF AddReference, RepointGrants, SweepFinds, SweepDeletes, OnlyMediaMoves, vars, payload
  <2>2. media' = media \/ media' = [media EXCEPT !.referenced = TRUE]
    BY <1>2 DEF AddReference, RepointGrants, SweepFinds, SweepDeletes, vars
  <2> QED
    BY <1>a, <2>1, <2>2
<1>3. ASSUME NEW t \in Teardowns, ClaimTeardown(t) PROVE Result
  BY <1>a, <1>3 DEF ClaimTeardown, payload
<1>4. ASSUME NEW j \in Jobs, Repair(j) PROVE Result
  BY <1>4 DEF Repair, OnlyQueueMoves, payload
<1>5. CASE Tick
  BY <1>5 DEF Tick
<1>6. ASSUME NEW j, DeadLettered(j) PROVE media'.owned = media.owned
  BY <1>a, <1>6 DEF DeadLettered
<1>7. ASSUME NEW w \in Workers,
             (\E j \in Jobs : Take(w, j)) \/ EnterHandler(w) \/ Settle(w) \/ Defect(w) \/ Crash(w)
      PROVE  Result
  BY <1>6, <1>7 DEF Take, EnterHandler, Settle, Reschedule, Defect, Crash, OnlyQueueMoves, payload
<1>8. ASSUME NEW w \in Workers, Read(w) \/ Resolve(w) \/ DeleteObject(w) \/ RecordDeleted(w)
      PROVE  Result
  <2>1. LoseLease(w) => UNCHANGED <<media, object, cleanup, teardown, writer>>
    BY DEF LoseLease, payload
  <2>2. CASE Read(w)
    BY <2>2 DEF Read, payload
  <2>3. CASE Resolve(w)
    BY <2>1, <2>3 DEF Resolve, Fenced, payload
  <2>4. CASE DeleteObject(w) \/ RecordDeleted(w)
    BY <2>1, <2>4 DEF DeleteObject, RecordDeleted, Fenced, payload
  <2> QED
    BY <1>8, <2>2, <2>3, <2>4
<1>9. ASSUME NEW w \in Workers, PreparePaths(w) \/ CommitOrVoid(w) \/ DeletePaths(w)
      PROVE  Result
  <2>1. LoseLease(w) \/ Absent(w) => UNCHANGED <<media, object, cleanup, teardown, writer>>
    BY DEF LoseLease, Absent, payload
  <2>2. \A t, s : Checkpoint(w, t, s) => UNCHANGED <<object, cleanup, writer>>
    BY DEF Checkpoint
  <2>3. CASE PreparePaths(w)
    BY <2>1, <2>2, <2>3 DEF PreparePaths, Fenced
  <2>4. CASE CommitOrVoid(w)
    <3>1. UNCHANGED <<object, cleanup, writer>>
      BY <2>1, <2>2, <2>4 DEF CommitOrVoid, Fenced
    <3>2. media' = media \/ media' = [media EXCEPT !.intent = NoIntent] \/ media' = Deleted
      BY <2>1, <2>4 DEF CommitOrVoid, Fenced
    <3> QED
      BY <1>a, <2>4, <3>1, <3>2
  <2>5. CASE DeletePaths(w)
    BY <1>0, <2>5 DEF DeletePaths, payload, TypesOK
  <2> QED
    BY <1>9, <2>3, <2>4, <2>5
<1> QED
  BY <1>1, <1>2, <1>3, <1>4, <1>5, <1>7, <1>8, <1>9 DEF Next, WorkerStep, HandlerStep

-----------------------------------------------------------------------------
(* What is deleted, and what is not *)

\* A cleanup, and a teardown, that will still look at the path.
Watcher(j) ==
  row[j].status \notin {"absent", "succeeded"} /\ cleanup[j] \in {"Armed", "DeleteRequired"}

Watching(t) ==
  teardown[t].kind = "DeletionCommitted" /\ teardown[t].listed /\ row[t].status # "succeeded"

Watched == (\E j \in Cleanups : Watcher(j)) \/ (\E t \in Teardowns : Watching(t))

OrphanOK == object /\ ~media.owned => Watched

\* A decision to delete holds the path until it is done.
HoldOK == \A j \in Reservations : cleanup[j] = "DeleteRequired" => ~media.owned

\* A write whose process is gone lands before its reservation falls due, under an
\* owner, or before a teardown looks.
Shelters(j, i) == Sleeps(j) /\ cleanup[j] = "Armed" /\ row[j].wait >= writer[i].left

LostOK(i) ==
  writer[i].pc = "lost" /\ writer[i].left > 0 =>
    \/ media.owned
    \/ \E j \in Cleanups : Shelters(j, i)
    \/ \E t \in Teardowns : Watching(t)

\* A teardown lists the path if there is, or may yet be, something to delete.
ListedOK(t) ==
  /\ Waits(t) => teardown[t].listed \/ (~media.owned /\ \A i \in Writers : ~Writes(i))
  /\ teardown[t].kind = "DeletionCommitted" /\ teardown[t].listed /\ Done(t) => ~object

\* The cleanup of whoever holds its claim is as the handler has read it.
CleanerOK(w) ==
  LET j == worker[w].job IN
  QP!Holds(w) =>
    /\ exec[w].at \in {"delete", "record"} => cleanup[j] = "DeleteRequired"
    /\ exec[w].at = "record" /\ object => \E t \in Teardowns : Watching(t)
    /\ worker[w].pc = "completing" /\ j \in Cleanups => cleanup[j] \in TerminalCheckpoints

Guarded ==
  /\ OneReservation /\ OrphanOK /\ HoldOK
  /\ \A i \in Writers : LostOK(i)
  /\ \A t \in Teardowns : ListedOK(t)
  /\ \A w \in Workers : CleanerOK(w)

\* A teardown that has looked left nothing, and nothing was on its way.
LEMMA WatchingIsNotDone ==
  ASSUME Marks, Timing, NEW t \in Teardowns, ListedOK(t), Watching(t),
         object \/ \E i \in Writers : writer[i].left > 0
  PROVE  ~Done(t)
<1>1. \A i \in Writers : writer[i].left \in Nat
  BY StorageAssumption DEF Marks, TypesOK, Writer
<1> QED
  BY <1>1 DEF Watching, ListedOK, Timing, DoneOK, WaitOK, Waits

\* What is committed to deletion stays so, with its paths.
LEMMA CommittedStays ==
  ASSUME Marks, [Next]_vars, NEW t \in Teardowns, teardown[t].kind = "DeletionCommitted"
  PROVE  teardown'[t].kind = "DeletionCommitted" /\ teardown'[t].listed = teardown[t].listed
<1>1. ~media.live /\ teardown[t] \in Teardown
  BY DEF Marks, IntentOK, TypesOK
<1>2. CASE teardown' = teardown
  BY <1>2
<1>3. CASE Tick
  <2> DEFINE n == Queue!Elapse(teardown[t].notBefore)
  <2>1. teardown'[t] = [teardown[t] EXCEPT !.notBefore = n]
    BY <1>3 DEF Tick
  <2> HIDE DEF n
  <2> QED
    BY <1>1, <2>1 DEF Teardown
<1>4. ASSUME NEW w \in Workers, PreparePaths(w) \/ CommitOrVoid(w)
      PROVE  teardown' = teardown
  BY <1>1, <1>4 DEF PreparePaths, CommitOrVoid, Absent, payload
<1> QED
  BY <1>2, <1>3, <1>4, WhoWrites

LEMMA WatchingStays ==
  ASSUME Marks, Timing, [Next]_vars, NEW t \in Teardowns, ListedOK(t), Watching(t),
         object \/ \E i \in Writers : writer[i].left > 0
  PROVE  Watching(t)'
<1>1. row'[t].status = "succeeded" => Done(t)
  BY EveryRowMoves DEF RowMoves, Done, Jobs
<1> QED
  BY <1>1, WatchingIsNotDone, CommittedStays DEF Watching

\* A writer at work needs an armed reservation, and there is but one.
LEMMA WriterExcludesHold ==
  ASSUME Timing, OneReservation, NEW i \in Writers, Writes(i),
         NEW j \in Reservations, cleanup[j] = "DeleteRequired"
  PROVE  FALSE
<1>1. PICK k \in Cleanups : Covers(k, i)
  BY DEF Timing, WritersOK
<1>2. k \in Reservations /\ cleanup[k] = "Armed"
  BY <1>1 DEF Covers, Sleeps, Reservations, Nonterminal
<1> QED
  BY <1>2 DEF OneReservation

LEMMA HoldKept ==
  ASSUME Marks, Timing, Guarded, "repair" \notin Windows, [Next]_vars
  PROVE  HoldOK'
<1>0. QP!Tidy /\ TypesOK /\ Cleanups \subseteq Jobs /\ Cleanups \cap Teardowns = {}
  BY StorageAssumption DEF Marks, Jobs
<1> SUFFICES ASSUME NEW j \in Cleanups, Nonterminal(j)', cleanup'[j] = "DeleteRequired",
                    media'.owned
             PROVE  FALSE
  BY DEF HoldOK, Reservations
<1>1. media.owned \/ \E i \in Writers : Own(i)
  <2>1. \/ media'.owned = media.owned
        \/ \E i \in Writers : Own(i)
        \/ media' = Deleted
    BY WhoWrites
  <2>2. ASSUME media'.owned = media.owned PROVE media.owned
    BY <2>2, Zenon
  <2>3. media' # Deleted
    BY DEF Deleted
  <2> QED
    BY <2>1, <2>2, <2>3
<1>2. CASE j \in Reservations /\ cleanup[j] = "DeleteRequired"
  <2>1. ~media.owned
    BY <1>2 DEF Guarded, HoldOK
  <2>2. PICK i \in Writers : Own(i)
    BY <1>1, <2>1
  <2>3. Writes(i)
    BY <2>2 DEF Own, Writes, InWrite
  <2> QED
    BY <1>2, <2>3, WriterExcludesHold DEF Guarded
<1>3. ASSUME NEW i \in Writers, Reserve(i) PROVE FALSE
  <2>1. PICK k \in Cleanups : Rearm(k) /\ cleanup' = [cleanup EXCEPT ![k] = "Armed"]
    BY <1>3 DEF Reserve
  <2>2. Only(k) /\ cleanup'[k] = "Armed" /\ (j # k => cleanup'[j] = cleanup[j])
    BY <1>0, <2>1, RearmEffect DEF Becomes, TypesOK
  <2>3. j # k /\ j \in Reservations
    BY <1>0, <2>2 DEF Only, Reservations, Nonterminal
  <2> QED
    BY <1>2, <2>2, <2>3
<1>4. ASSUME NEW i \in Writers, Finalize(i) PROVE FALSE
  <2>1. CASE UNCHANGED <<queue, cleanup>>
    BY <1>2, <2>1 DEF queue, Reservations, Nonterminal
  <2>2. ASSUME NEW k \in Reservations, Queue!UpdateUnclaimed(k), row'[k].wait = 0,
               cleanup' = [cleanup EXCEPT ![k] = "Retained"]
        PROVE  FALSE
    <3>1. Only(k) /\ cleanup'[k] = "Retained" /\ (j # k => cleanup'[j] = cleanup[j])
      BY <1>0, <2>2, FinalizeEffect DEF Becomes, TypesOK, Reservations
    <3>2. j # k /\ j \in Reservations
      BY <1>0, <3>1 DEF Only, Reservations, Nonterminal
    <3> QED
      BY <1>2, <3>1, <3>2
  <2> QED
    BY <1>4, <2>1, <2>2 DEF Finalize
<1>5. CASE j \notin Reservations
  <2>1. Repair(j)
    BY <1>0, <1>3, <1>4, <1>5, EveryRowMoves DEF RowMoves, Reservations, Nonterminal
  <2> QED
    BY <1>0, <2>1 DEF Repair, OnlyQueueMoves
<1>6. CASE cleanup[j] # "DeleteRequired"
  <2>1. PICK w \in Workers : Resolve(w) \/ RecordDeleted(w)
    BY <1>3, <1>4, <1>6, WhoWrites
  <2>2. ~LoseLease(w)
    BY <1>6 DEF LoseLease, payload
  <2>3. CASE RecordDeleted(w)
    <3>1. cleanup' = [cleanup EXCEPT ![worker[w].job] = "Deleted"]
      BY <2>2, <2>3 DEF RecordDeleted, Fenced
    <3> QED
      BY <1>0, <1>6, <3>1 DEF TypesOK
  <2>4. CASE Resolve(w)
    <3>1. PICK k : k = worker[w].job
      OBVIOUS
    <3>2. \/ Held(k) /\ media' = media
          \/ cleanup' = [cleanup EXCEPT ![k] = "Retained"]
          \/ cleanup' = cleanup
      BY <2>2, <2>4, <3>1 DEF Resolve, Fenced, payload
    <3>3. ~Held(k) \/ media' # media
      BY DEF Held
    <3> QED
      BY <1>0, <1>6, <3>2, <3>3 DEF TypesOK
  <2> QED
    BY <2>1, <2>3, <2>4
<1> QED
  BY <1>2, <1>5, <1>6

\* Who begins to complete a teardown.
LEMMA CompletingStep ==
  ASSUME Marks, [Next]_vars, NEW t \in Teardowns, Done(t)', ~Done(t)
  PROVE  \E w \in Workers :
           /\ worker[w].job = t /\ worker[w].pc = "executing"
           /\ \/ Read(w) /\ teardown[t].kind # "DeletionCommitted"
              \/ DeletePaths(w) /\ ~AskAgain(w, teardown[t].notBefore)
              \/ /\ PreparePaths(w) \/ CommitOrVoid(w)
                 /\ teardown'[t].kind # "DeletionCommitted"
<1>0. QP!Tidy /\ TypesOK /\ Cleanups \cap Teardowns = {}
  BY StorageAssumption DEF Marks
<1>1. row'[t].status # "succeeded"
  BY EveryRowMoves DEF RowMoves, Done, Jobs
<1>2. PICK w \in Workers : worker'[w].pc = "completing" /\ worker'[w].job = t
  BY <1>1 DEF Done
<1>3. worker'[w] # worker[w]
  BY <1>2 DEF Done
<1>4. WorkerStep(w)
  BY <1>3, Bystanders
<1>5. ~(\E j \in Jobs : Take(w, j))
  <2>1. \A j \in Jobs : Take(w, j) => worker'[w].pc = "claimed" \/ UNCHANGED worker
    BY <1>0, ClaimEffect, ExpireEffect DEF Take
  <2> QED
    BY <1>2, <1>3, <2>1
<1>6. ~EnterHandler(w)
  <2>1. EnterHandler(w) => worker'[w].pc \in {"executing", "idle"}
    BY <1>0, StartEffect DEF EnterHandler, Goes, Returns
  <2> QED
    BY <1>2, <2>1
<1>7. ~Settle(w) /\ ~Crash(w)
  <2>1. Settle(w) \/ Crash(w) => Returns(w)
    BY <1>0, SettleEffect, MemoryEffect DEF Settle, Reschedule, Crash, Queue!Crash
  <2> QED
    BY <1>2, <2>1 DEF Returns
<1>8. worker[w].pc = "executing" /\ worker[w].job = t /\ HandlerStep(w)
  <2>1. HandlerStep(w) \/ Defect(w)
    BY <1>4, <1>5, <1>6, <1>7 DEF WorkerStep
  <2>2. worker[w].pc = "executing" /\ \E pc \in QP!Phases : Goes(w, pc)
    BY <1>0, <1>3, <2>1, HandlerMoves, MemoryEffect DEF QP!Phases
  <2>3. ~Defect(w)
    <3>1. Defect(w) => Goes(w, "failing")
      BY <1>0, MemoryEffect DEF Defect, End, QP!Phases
    <3> QED
      BY <1>2, <3>1 DEF Goes
  <2> QED
    BY <1>2, <2>1, <2>2, <2>3 DEF Goes
<1>9. /\ ~End(w, "failing") /\ \A n : ~AskAgain(w, n)
      /\ ~LoseLease(w) /\ ~Absent(w)
  <2>1. ~End(w, "failing") /\ \A n : ~AskAgain(w, n)
    <3>1. /\ End(w, "failing") => Goes(w, "failing")
          /\ \A n : AskAgain(w, n) => Goes(w, "rescheduling")
      BY <1>0, MemoryEffect DEF End, AskAgain, QP!Phases
    <3> QED
      BY <1>2, <3>1 DEF Goes
  <2> QED
    BY <2>1 DEF LoseLease, Absent
<1>10. CASE Read(w)
  <2>1. ~UNCHANGED queue
    BY <1>3 DEF queue
  <2>2. teardown[t].kind # "DeletionCommitted"
    BY <1>0, <1>8, <1>10, <2>1 DEF Read
  <2> QED
    BY <1>8, <1>10, <2>2
<1>11. ~Resolve(w) /\ ~DeleteObject(w) /\ ~RecordDeleted(w)
  BY <1>0, <1>8 DEF Resolve, DeleteObject, RecordDeleted, At, PlaceOK, Marks
<1>12. CASE PreparePaths(w) \/ CommitOrVoid(w)
  <2>1. PICK state : Checkpoint(w, t, state)
    BY <1>8, <1>9, <1>12 DEF PreparePaths, CommitOrVoid, Fenced
  <2>2. teardown'[t] = state /\ state.kind # "DeletionCommitted"
    BY <1>0, <1>9, <2>1 DEF Checkpoint, TypesOK
  <2> QED
    BY <1>8, <1>12, <2>2
<1>13. CASE DeletePaths(w)
  BY <1>8, <1>9, <1>13
<1> QED
  BY <1>8, <1>10, <1>11, <1>12, <1>13 DEF HandlerStep

\* What has been reserved is still at work, or has just been reserved.
LEMMA WritersStep ==
  ASSUME Marks, [Next]_vars, NEW i \in Writers, Writes(i)'
  PROVE  Writes(i) \/ \E x \in Writers : Reserve(x)
<1>0. TypesOK
  BY DEF Marks
<1>1. CASE writer' = writer
  BY <1>1 DEF Writes
<1>2. CASE Tick
  <2> DEFINE n == Queue!Elapse(writer[i].left)
  <2>1. writer'[i] = [writer[i] EXCEPT !.left = n] /\ writer[i] \in Writer
    BY <1>0, <1>2 DEF Tick, TypesOK
  <2> HIDE DEF n
  <2> QED
    BY <2>1 DEF Writes, Writer
<1>3. ASSUME NEW x \in Writers, WriterStep(x), ~Reserve(x)
      PROVE  Writes(i)
  <2>1. CASE x # i
    <3>1. writer'[i] = writer[i]
      BY <1>0, <1>3, <2>1 DEF WriterStep, StartPut, Land, Own, Finalize, Discard, LoseWriter, Move, TypesOK
    <3> QED
      BY <3>1 DEF Writes
  <2>2. CASE x = i
    <3>1. \A pc : Move(i, pc) => writer'[i].pc = pc
      BY <1>0 DEF Move, TypesOK, Writer
    <3>2. CASE StartPut(i) \/ Own(i) \/ Finalize(i) \/ LoseWriter(i)
      BY <3>2 DEF StartPut, Own, Finalize, LoseWriter, Writes, InWrite
    <3>3. CASE Land(i)
      BY <1>0, <3>3 DEF Land, Writes, InWrite, TypesOK
    <3>4. CASE Discard(i)
      BY <3>1, <3>4 DEF Discard, Writes, InWrite
    <3> QED
      BY <1>3, <2>2, <3>2, <3>3, <3>4 DEF WriterStep
  <2> QED
    BY <2>1, <2>2
<1> QED
  BY <1>1, <1>2, <1>3, WhoWrites

\* The checkpoints of the teardown in w's hands.
LEMMA OwnCheckpoint ==
  ASSUME Marks, NEW w \in Workers, PreparePaths(w) \/ CommitOrVoid(w), NEW t \in Teardowns
  PROVE  \/ teardown'[t] = teardown[t]
         \/ ~Waits(t)'
         \/ teardown'[t] = Plan /\ media' = media
         \/ /\ media' = Deleted /\ media.intent = t /\ teardown[t].kind = "PathsPrepared"
            /\ teardown'[t] = [teardown[t] EXCEPT !.kind = "DeletionCommitted"]
            /\ worker[w].job = t /\ row[t].status = "running"
<1>0. TypesOK /\ worker[w].pc = "executing" /\ PlaceOK(w)
  BY DEF Marks, PreparePaths, CommitOrVoid, At
<1>1. PICK s \in Teardowns : s = worker[w].job
  BY <1>0, AtHandler DEF PlaceOK, PreparePaths, CommitOrVoid, At
<1>2. \A state : Checkpoint(w, s, state) =>
        teardown'[s] = state /\ (t # s => teardown'[t] = teardown[t])
  BY <1>0 DEF Checkpoint, TypesOK
<1>3. CASE LoseLease(w) \/ Absent(w)
  BY <1>3 DEF LoseLease, Absent, payload
<1>4. CASE PreparePaths(w) /\ ~LoseLease(w) /\ ~Absent(w)
  <2>1. Checkpoint(w, s, Plan) \/ Checkpoint(w, s, NotMine(s))
    BY <1>1, <1>4 DEF PreparePaths, Fenced
  <2>2. media' = media
    BY <1>4 DEF PreparePaths, Fenced
  <2>3. NotMine(s).kind \in {"NoOp", "Stale"}
    BY CheckpointTypes
  <2> QED
    BY <1>2, <2>1, <2>2, <2>3 DEF Waits
<1>5. CASE CommitOrVoid(w) /\ ~LoseLease(w) /\ ~Absent(w)
  <2>1. Queue!ClaimIsCurrent(w)
    BY <1>5 DEF CommitOrVoid, Fenced
  <2>2. row[s].status = "running"
    BY <1>1, <2>1 DEF Queue!ClaimIsCurrent, Queue!Owns
  <2>3. \/ Checkpoint(w, s, NotMine(s))
        \/ Checkpoint(w, s, [Unprepared EXCEPT !.kind = "Voided"])
        \/ /\ Checkpoint(w, s, [teardown[s] EXCEPT !.kind = "DeletionCommitted"])
           /\ media' = Deleted /\ media.intent = s
    BY <1>1, <1>5 DEF CommitOrVoid, Fenced
  <2>4. /\ NotMine(s).kind \in {"NoOp", "Stale"}
        /\ [Unprepared EXCEPT !.kind = "Voided"].kind = "Voided"
    BY CheckpointTypes
  <2>5. media.intent = s => teardown[s].kind = "PathsPrepared"
    <3>1. exec[w].at = "commit" /\ IntentOK(s) /\ teardown[s] \in Teardown
      BY <1>0, <1>5 DEF CommitOrVoid, At, Marks, TypesOK
    <3> QED
      BY <1>0, <1>1, <3>1 DEF PlaceOK, IntentOK, Final, Teardown
  <2>6. CASE s # t
    BY <1>2, <2>3, <2>6
  <2>7. CASE s = t /\ teardown'[t].kind \notin {"PathsPrepared", "DeletionCommitted"}
    BY <2>7 DEF Waits
  <2>8. CASE /\ s = t /\ media' = Deleted /\ media.intent = s
             /\ Checkpoint(w, s, [teardown[s] EXCEPT !.kind = "DeletionCommitted"])
    BY <1>1, <1>2, <2>2, <2>5, <2>8
  <2> QED
    BY <1>2, <2>3, <2>4, <2>6, <2>7, <2>8
<1> QED
  BY <1>3, <1>4, <1>5

\* What the handler of a cleanup decides, it decides under its claim.
LEMMA CleanupStep ==
  ASSUME Marks, NEW w \in Workers, Resolve(w) \/ RecordDeleted(w), NEW j \in Cleanups
  PROVE  \/ cleanup'[j] = cleanup[j]
         \/ /\ QP!Holds(w) /\ worker[w].job = j /\ row[j].status = "running" /\ media' = media
            /\ \/ cleanup'[j] = "DeleteRequired"
               \/ cleanup'[j] = "Retained" /\ media.owned
               \/ cleanup'[j] = "Deleted" /\ exec[w].at = "record"
<1>0. TypesOK /\ worker[w].pc = "executing"
  BY DEF Marks, Resolve, RecordDeleted, At
<1>1. PICK k \in Jobs : k = worker[w].job
  BY <1>0, AtHandler
<1>2. CASE cleanup' = cleanup
  BY <1>2
<1>3. ASSUME cleanup' # cleanup
      PROVE  /\ Queue!ClaimIsCurrent(w) /\ media' = media
             /\ \/ cleanup' = [cleanup EXCEPT ![k] = "DeleteRequired"]
                \/ cleanup' = [cleanup EXCEPT ![k] = "Retained"] /\ media.owned
                \/ cleanup' = [cleanup EXCEPT ![k] = "Deleted"] /\ exec[w].at = "record"
  <2>1. ~LoseLease(w)
    BY <1>3 DEF LoseLease, payload
  <2>2. CASE RecordDeleted(w)
    BY <1>1, <1>3, <2>1, <2>2 DEF RecordDeleted, Fenced, At
  <2>3. CASE Resolve(w)
    BY <1>1, <1>3, <2>1, <2>3 DEF Resolve, Fenced, Owned, payload
  <2> QED
    BY <2>2, <2>3
<1>4. Queue!ClaimIsCurrent(w) => QP!Holds(w) /\ row[k].status = "running"
  BY <1>0, <1>1, SameQueue DEF Queue!ClaimIsCurrent, Queue!Owns, QP!Holds
<1> QED
  BY <1>0, <1>1, <1>2, <1>3, <1>4 DEF TypesOK

\* The media goes by the commit of its teardown.
LEMMA CommitDeletes ==
  ASSUME Marks, NEW w \in Workers, CommitOrVoid(w), media' = Deleted, media.owned
  PROVE  \E t \in Teardowns :
           /\ media.intent = t /\ teardown[t].kind = "PathsPrepared"
           /\ teardown'[t] = [teardown[t] EXCEPT !.kind = "DeletionCommitted"]
           /\ row[t].status = "running" /\ UNCHANGED row
<1>0. TypesOK /\ worker[w].pc = "executing" /\ PlaceOK(w) /\ exec[w].at = "commit"
  BY DEF Marks, CommitOrVoid, At
<1>1. PICK s \in Teardowns : s = worker[w].job
  BY <1>0, AtHandler DEF PlaceOK
<1>2. media' # media /\ media'.owned # media.owned
  BY DEF Deleted
<1>3. ~LoseLease(w) /\ ~Absent(w) /\ media' # [media EXCEPT !.intent = NoIntent]
  BY <1>0, <1>2 DEF LoseLease, Absent, TypesOK, Media
<1>4. /\ Queue!ClaimIsCurrent(w) /\ media.intent = s
      /\ Checkpoint(w, s, [teardown[s] EXCEPT !.kind = "DeletionCommitted"])
  BY <1>1, <1>2, <1>3 DEF CommitOrVoid, Fenced
<1>5. row[s].status = "running" /\ UNCHANGED row
  <2>1. UNCHANGED row
    BY HandlerMoves DEF HandlerStep
  <2> QED
    BY <1>1, <1>4, <2>1 DEF Queue!ClaimIsCurrent, Queue!Owns
<1>6. teardown'[s] = [teardown[s] EXCEPT !.kind = "DeletionCommitted"]
  BY <1>0, <1>4 DEF Checkpoint, TypesOK
<1>7. teardown[s].kind = "PathsPrepared"
  <2>1. IntentOK(s) /\ teardown[s] \in Teardown
    BY <1>0 DEF Marks, TypesOK
  <2> QED
    BY <1>0, <1>1, <1>4, <2>1 DEF PlaceOK, IntentOK, Final, Teardown
<1> QED
  BY <1>4, <1>5, <1>6, <1>7

\* ... with the path listed, so that the teardown will look.
LEMMA CommitWatches ==
  ASSUME Marks, Guarded, [Next]_vars, media.owned, ~media'.owned
  PROVE  \E t \in Teardowns : Watching(t)'
<1>1. \/ media'.owned = media.owned
      \/ \E i \in Writers : Own(i)
      \/ \E w \in Workers : CommitOrVoid(w) /\ media' = Deleted
  BY WhoWrites
<1>2. media'.owned # media.owned
  BY Zenon
<1>3. \A i \in Writers : ~Own(i)
  BY DEF Own, Marks, TypesOK, Media
<1>4. PICK w \in Workers : CommitOrVoid(w) /\ media' = Deleted
  BY <1>1, <1>2, <1>3
<1>5. PICK t \in Teardowns :
         /\ media.intent = t /\ teardown[t].kind = "PathsPrepared"
         /\ teardown'[t] = [teardown[t] EXCEPT !.kind = "DeletionCommitted"]
         /\ row[t].status = "running" /\ UNCHANGED row
  BY <1>4, CommitDeletes
<1>6. teardown[t].listed
  BY <1>5 DEF Guarded, ListedOK, Waits
<1>7. teardown[t] \in Teardown
  BY DEF Marks, TypesOK
<1> QED
  BY <1>5, <1>6, <1>7 DEF Watching, Teardown

LEMMA ListedKept ==
  ASSUME Marks, Timing, Guarded, [Next]_vars, NEW t \in Teardowns
  PROVE  ListedOK(t)'
<1>0. /\ TypesOK /\ NoIntent \notin Teardowns /\ teardown[t] \in Teardown
      /\ IntentOK(t) /\ ListedOK(t)
  BY StorageAssumption DEF Marks, Guarded, TypesOK, NoIntent
<1>1. \A x \in Writers : Reserve(x) => ~Waits(t) /\ ~Waits(t)'
  BY <1>0 DEF Reserve, Waits, IntentOK
<1>2. ASSUME Tick
      PROVE  teardown'[t].kind = teardown[t].kind /\ teardown'[t].listed = teardown[t].listed
  <2> DEFINE n == Queue!Elapse(teardown[t].notBefore)
  <2>1. teardown'[t] = [teardown[t] EXCEPT !.notBefore = n]
    BY <1>2 DEF Tick
  <2> HIDE DEF n
  <2> QED
    BY <1>0, <2>1 DEF Teardown
<1>3. ASSUME Waits(t)'
      PROVE  teardown'[t].listed \/ (~media'.owned /\ \A i \in Writers : ~Writes(i)')
  <2>0. \A i \in Writers : Writes(i)' => Writes(i)
    BY <1>1, <1>3, WritersStep
  <2>1. ASSUME Waits(t), teardown'[t].listed = teardown[t].listed
        PROVE  teardown'[t].listed \/ (~media'.owned /\ \A i \in Writers : ~Writes(i)')
    <3>1. CASE teardown[t].listed
      BY <2>1, <3>1, Zenon
    <3>2. ASSUME ~media.owned, \A i \in Writers : ~Writes(i) PROVE ~media'.owned
      <4>1. \/ media'.owned = media.owned
            \/ \E i \in Writers : Own(i)
            \/ media' = Deleted
        BY WhoWrites
      <4>2. ASSUME media'.owned = media.owned PROVE ~media'.owned
        BY <3>2, <4>2, Zenon
      <4>3. \A i \in Writers : ~Own(i)
        BY <3>2 DEF Own, Writes, InWrite
      <4>4. media' = Deleted => ~media'.owned
        BY DEF Deleted
      <4> QED
        BY <4>1, <4>2, <4>3, <4>4
    <3> QED
      BY <1>0, <2>0, <2>1, <3>1, <3>2 DEF ListedOK
  <2>2. ASSUME teardown'[t].kind = teardown[t].kind
        PROVE  Waits(t)
    <3>1. row[t].status = "absent" => teardown[t].kind = "Unprepared"
      BY <1>0 DEF IntentOK
    <3>2. media'.intent = t => media.intent = t \/ row[t].status = "absent"
      BY <1>0, EveryStepMarks DEF MarkStep, MediaStep, Deleted
    <3> QED
      BY <1>3, <2>2, <3>1, <3>2 DEF Waits
  <2>3. CASE teardown'[t] = teardown[t] \/ Tick
    BY <1>2, <2>1, <2>2, <2>3
  <2>4. CASE teardown'[t] = Plan /\ media' = media
    <3>1. ASSUME ~Plan.listed PROVE ~media.owned /\ Reservations = {}
      BY <3>1 DEF Plan
    <3>2. Reservations = {} => \A i \in Writers : ~Writes(i)
      BY DEF Timing, WritersOK, Covers, Sleeps, Reservations, Nonterminal
    <3> QED
      BY <2>0, <2>4, <3>1, <3>2
  <2>5. CASE /\ media' = Deleted /\ media.intent = t /\ teardown[t].kind = "PathsPrepared"
             /\ teardown'[t] = [teardown[t] EXCEPT !.kind = "DeletionCommitted"]
    <3>1. teardown'[t].listed = teardown[t].listed /\ Waits(t)
      BY <1>0, <2>5 DEF Teardown, Waits
    <3> QED
      BY <2>1, <3>1
  <2> QED
    BY <1>3, <2>3, <2>4, <2>5, WhoWrites, OwnCheckpoint
<1>4. ASSUME teardown'[t].kind = "DeletionCommitted", teardown'[t].listed, Done(t)'
      PROVE  ~object'
  <2>1. CASE teardown[t].kind = "DeletionCommitted"
    <3>1. teardown[t].listed
      <4>1. teardown'[t].listed = teardown[t].listed
        BY <2>1, CommittedStays
      <4> QED
        BY <1>4, <4>1, Zenon
    <3>2. CASE Done(t)
      <4>1. ~object
        BY <1>0, <2>1, <3>1, <3>2 DEF ListedOK
      <4>2. \A i \in Writers : ~(writer[i].left > 0)
        <5>1. \A i \in Writers : writer[i].left <= 0 /\ writer[i].left \in Nat
          BY <1>0, <2>1, <3>2, StorageAssumption DEF Timing, DoneOK, WaitOK, Waits, TypesOK, Writer
        <5> QED
          BY <5>1
      <4> QED
        BY <4>1, <4>2, WhoWrites DEF Land
    <3>3. CASE ~Done(t)
      <4>1. PICK w \in Workers : /\ worker[w].job = t
                                 /\ DeletePaths(w) /\ ~AskAgain(w, teardown[t].notBefore)
        BY <1>4, <2>1, <3>3, CompletingStep
      <4> QED
        BY <3>1, <4>1 DEF DeletePaths
    <3> QED
      BY <3>2, <3>3
  <2>2. CASE teardown[t].kind # "DeletionCommitted"
    <3>1. PICK w \in Workers : PreparePaths(w) \/ CommitOrVoid(w)
      BY <1>2, <1>4, <2>2, WhoWrites
    <3>2. teardown[t].kind = "PathsPrepared"
      <4>1. Waits(t)' /\ teardown'[t] # teardown[t]
        BY <1>4, <2>2 DEF Waits
      <4>2. Plan.kind = "PathsPrepared"
        BY DEF Plan
      <4> QED
        BY <1>4, <3>1, <4>1, <4>2, OwnCheckpoint
    <3>3. ~Done(t)
      BY <1>0, <3>2 DEF Done, IntentOK, Marks, PlaceOK, Final
    <3>4. \A v \in Workers : Read(v) \/ DeletePaths(v) => teardown' = teardown
      BY DEF Read, DeletePaths, payload
    <3> QED
      BY <1>4, <2>2, <3>3, <3>4, CompletingStep
  <2> QED
    BY <2>1, <2>2
<1> QED
  BY <1>3, <1>4 DEF ListedOK

\* A write whose process is gone has somebody who looks after it.
LEMMA LostKept ==
  ASSUME Marks, Timing, Guarded, [Next]_vars, NEW i \in Writers
  PROVE  LostOK(i)'
<1>0. /\ QP!Tidy /\ TypesOK /\ WritersOK /\ Cleanups \subseteq Jobs
      /\ writer[i] \in Writer /\ writer[i].left \in Nat
      /\ \A j \in Jobs : row[j].wait \in Nat
  BY StorageAssumption DEF Marks, Timing, TypesOK, Jobs, Writer, QP!Tidy, QP!Row
<1> SUFFICES ASSUME writer'[i].pc = "lost", writer'[i].left > 0, ~media'.owned,
                    \A t \in Teardowns : ~Watching(t)'
             PROVE  \E j \in Cleanups : Shelters(j, i)'
  BY DEF LostOK
<1>1. ASSUME NEW x \in Writers, Reserve(x)
      PROVE  \E j \in Cleanups : Shelters(j, i)'
  <2>1. PICK j \in Cleanups : Rearm(j) /\ cleanup' = [cleanup EXCEPT ![j] = "Armed"]
    BY <1>1 DEF Reserve
  <2>2. row'[j].status = "pending" /\ row'[j].wait = Window /\ cleanup'[j] = "Armed"
    BY <1>0, <2>1, RearmEffect DEF Becomes, TypesOK
  <2>3. writer'[i].left \in 0..PutTicks
    BY <1>1, EveryStepMarks DEF MarkStep, Writer
  <2> QED
    BY <2>2, <2>3, StorageAssumption DEF Shelters, Sleeps
<1>2. CASE writer[i].pc # "lost" /\ \A x \in Writers : ~Reserve(x)
  <2>1. ~Tick
    <3> DEFINE n == Queue!Elapse(writer[i].left)
    <3>1. Tick => writer'[i] = [writer[i] EXCEPT !.left = n]
      BY <1>0 DEF Tick, TypesOK
    <3> HIDE DEF n
    <3> QED
      BY <1>0, <1>2, <3>1 DEF Writer
  <2>2. PICK x \in Writers : WriterStep(x)
    BY <1>2, <2>1, WhoWrites
  <2>3. \A pc : Move(x, pc) => /\ writer'[x].pc = pc /\ writer'[x].left = writer[x].left
                               /\ x # i => writer'[i] = writer[i]
    BY <1>0 DEF Move, TypesOK, Writer
  <2>4. LoseWriter(i) /\ writer[i].pc = "putting"
    <3>1. CASE StartPut(x) \/ Land(x)
      BY <1>0, <1>2, <3>1 DEF StartPut, Land, TypesOK
    <3>2. CASE Own(x) \/ Finalize(x) \/ Discard(x)
      <4>1. \E pc \in {"owning", "done", "rejected", "discarded"} : Move(x, pc)
        BY <3>2 DEF Own, Finalize, Discard
      <4> QED
        BY <1>2, <2>3, <4>1
    <3>3. CASE LoseWriter(x)
      BY <1>2, <2>3, <3>3 DEF LoseWriter
    <3> QED
      BY <1>2, <2>2, <3>1, <3>2, <3>3 DEF WriterStep
  <2>5. PICK j \in Cleanups : Covers(j, i)
    BY <1>0, <2>4 DEF WritersOK, Writes, InWrite
  <2>6. writer'[i].left = writer[i].left /\ UNCHANGED <<row, cleanup>>
    BY <1>0, <2>4 DEF LoseWriter, Move, TypesOK, Writer, OnlyWriterMoves, queue, payload
  <2> QED
    BY <2>5, <2>6 DEF Covers, Shelters, Sleeps
<1>3. CASE writer[i].pc = "lost" /\ \A x \in Writers : ~Reserve(x)
  <2>1. /\ writer[i].left > 0
        /\ IF Tick THEN writer'[i].left = writer[i].left - 1
                   ELSE writer'[i].left = writer[i].left
    <3>1. CASE Tick
      <4> DEFINE n == Queue!Elapse(writer[i].left)
      <4>1. writer'[i] = [writer[i] EXCEPT !.left = n]
        BY <1>0, <3>1 DEF Tick, TypesOK
      <4>2. writer'[i].left = n
        <5> HIDE DEF n
        <5> QED
          BY <1>0, <4>1 DEF Writer
      <4> QED
        BY <1>0, <3>1, <4>2 DEF Queue!Elapse
    <3>2. CASE ~Tick /\ writer' = writer
      BY <3>2
    <3>3. ASSUME NEW x \in Writers, WriterStep(x), ~Tick
          PROVE  writer[i].left > 0 /\ writer'[i].left = writer[i].left
      <4>1. CASE x # i
        <5>1. writer'[i] = writer[i]
          BY <1>0, <1>3, <3>3, <4>1
          DEF WriterStep, StartPut, Land, Own, Finalize, Discard, LoseWriter, Move, TypesOK
        <5> QED
          BY <5>1
      <4>2. CASE x = i
        <5>1. Land(i)
          BY <1>3, <3>3, <4>2 DEF WriterStep, StartPut, Own, Finalize, Discard, LoseWriter, InWrite
        <5> QED
          BY <1>0, <1>3, <5>1 DEF Land, TypesOK
      <4> QED
        BY <4>1, <4>2
    <3> QED
      BY <3>1, <3>2, <3>3, WhoWrites
  <2>2. ~media.owned /\ \A t \in Teardowns : ~Watching(t)
    <3>1. ~media.owned
      BY CommitWatches
    <3>2. ASSUME NEW t \in Teardowns, Watching(t) PROVE FALSE
      BY <2>1, <3>2, WatchingStays DEF Guarded
    <3> QED
      BY <3>1, <3>2
  <2>3. PICK j \in Cleanups : Shelters(j, i)
    BY <1>3, <2>1, <2>2 DEF Guarded, LostOK
  <2>4. ASSUME NEW x \in Writers, Finalize(x) PROVE UNCHANGED <<row, cleanup>>
    BY <2>2, <2>4 DEF Finalize, Retainable, queue
  <2>5. cleanup'[j] = "Armed"
    <3>1. row[j].status # "running" /\ cleanup[j] = "Armed"
      BY <2>3 DEF Shelters, Sleeps
    <3> QED
      BY <1>3, <2>4, <3>1, WhoWrites, CleanupStep
  <2>6. CASE row'[j].status = row[j].status /\ row'[j].wait = row[j].wait
    <3>1. writer'[i].left <= writer[i].left
      BY <1>0, <2>1
    <3>2. row[j].wait >= writer'[i].left
      BY <1>0, <2>1, <2>3, <3>1 DEF Shelters
    <3> QED
      BY <2>3, <2>5, <2>6, <3>2 DEF Shelters, Sleeps
  <2>7. CASE Tick
    <3>1. row[j].wait >= writer[i].left /\ row[j].status = "pending" /\ j \in Jobs
      BY <1>0, <2>3 DEF Shelters, Sleeps
    <3>2. Queue!Tick
      BY <1>0, <2>1, <2>7, <3>1 DEF Tick
    <3>3. row'[j].status = "pending" /\ row'[j].wait = row[j].wait - 1
      BY <1>0, <2>1, <3>1, <3>2, TickEffect DEF Queue!Elapse
    <3> QED
      BY <1>0, <2>1, <2>5, <2>7, <3>1, <3>3 DEF Shelters, Sleeps
  <2>8. RowMoves(j) /\ Sleeps(j)
    BY <1>0, <2>3, EveryRowMoves DEF Shelters
  <2>9. CASE \E x \in Writers : Finalize(x)
    BY <2>4, <2>6, <2>9
  <2> QED
    BY <1>3, <2>6, <2>7, <2>8, <2>9 DEF RowMoves
<1> QED
  BY <1>1, <1>2, <1>3

\* What is there and is not owned has somebody who will look at it.
LEMMA OrphanKept ==
  ASSUME Marks, Timing, Guarded, [Next]_vars
  PROVE  OrphanOK'
<1>0. QP!Tidy /\ TypesOK /\ Cleanups \subseteq Jobs
  BY DEF Marks, Jobs
<1> SUFFICES ASSUME object', ~media'.owned
             PROVE  Watched'
  BY DEF OrphanOK
<1>1. ASSUME NEW i \in Writers, Land(i) PROVE Watched'
  <2>1. /\ UNCHANGED <<row, cleanup, teardown, media>>
        /\ writer[i].left > 0 /\ writer[i].pc \in {"putting", "lost"}
    BY <1>1 DEF Land, OnlyWriterMoves, queue, payload
  <2>2. ASSUME NEW j \in Cleanups, Sleeps(j), cleanup[j] = "Armed" PROVE Watched'
    BY <2>1, <2>2 DEF Sleeps, Watched, Watcher
  <2>3. ASSUME NEW t \in Teardowns, Watching(t) PROVE Watched'
    BY <2>1, <2>3 DEF Watched, Watching
  <2>4. CASE writer[i].pc = "putting"
    BY <2>2, <2>4 DEF Timing, WritersOK, Writes, InWrite, Covers
  <2>5. CASE writer[i].pc = "lost"
    <3>1. ~media.owned
      BY <2>1
    <3> QED
      BY <2>1, <2>2, <2>3, <2>5, <3>1 DEF Guarded, LostOK, Shelters
  <2> QED
    BY <2>1, <2>4, <2>5
<1>2. CASE object /\ media.owned
  BY <1>2, CommitWatches DEF Watched
<1>3. CASE object /\ ~media.owned
  <2>1. ASSUME NEW t \in Teardowns, Watching(t) PROVE Watched'
    BY <1>3, <2>1, WatchingStays DEF Guarded, Watched
  <2>2. ASSUME NEW j \in Cleanups, Watcher(j) PROVE Watched'
    <3>1. row'[j].status \notin {"absent", "succeeded"}
      <4>1. RowMoves(j)
        BY <1>0, EveryRowMoves
      <4>2. ~(\E w \in Workers : QP!Holds(w) /\ worker[w].pc = "completing" /\ worker[w].job = j)
        BY <2>2 DEF Watcher, Guarded, CleanerOK, TerminalCheckpoints
      <4> QED
        BY <2>2, <4>1, <4>2 DEF RowMoves, Watcher
    <3>2. ASSUME cleanup'[j] \in {"Armed", "DeleteRequired"} PROVE Watched'
      BY <3>1, <3>2 DEF Watched, Watcher
    <3>3. CASE cleanup'[j] = cleanup[j]
      BY <2>2, <3>2, <3>3 DEF Watcher
    <3>4. ASSUME NEW i \in Writers, Reserve(i) PROVE Watched'
      <4>1. PICK k \in Cleanups : cleanup' = [cleanup EXCEPT ![k] = "Armed"]
        BY <3>4 DEF Reserve
      <4> QED
        BY <1>0, <2>2, <3>2, <4>1 DEF TypesOK, Watcher
    <3>5. ASSUME NEW i \in Writers, Finalize(i) PROVE Watched'
      BY <1>3, <3>3, <3>5 DEF Finalize, Retainable
    <3>6. ASSUME NEW w \in Workers, Resolve(w) \/ RecordDeleted(w) PROVE Watched'
      <4>1. \/ cleanup'[j] = cleanup[j]
            \/ cleanup'[j] = "DeleteRequired"
            \/ QP!Holds(w) /\ exec[w].at = "record"
        BY <1>3, <3>6, CleanupStep
      <4>2. CASE QP!Holds(w) /\ exec[w].at = "record"
        BY <1>3, <2>1, <4>2 DEF Guarded, CleanerOK
      <4> QED
        BY <3>2, <3>3, <4>1, <4>2
    <3> QED
      BY <3>3, <3>4, <3>5, <3>6, WhoWrites
  <2> QED
    BY <1>3, <2>1, <2>2 DEF Guarded, OrphanOK, Watched
<1>4. object \/ \E i \in Writers : Land(i)
  BY WhoWrites
<1> QED
  BY <1>1, <1>2, <1>3, <1>4

\* A step of another leaves what w has read of its cleanup as it is.
LEMMA CleanerRests ==
  ASSUME Marks, Timing, Guarded, [Next]_vars, NEW w \in Workers,
         QP!Holds(w), QP!Holds(w)', ~WorkerStep(w)
  PROVE  CleanerOK(w)'
<1>0. QP!Tidy /\ TypesOK /\ PlaceOK(w) /\ CleanerOK(w) /\ Cleanups \subseteq Jobs
  BY DEF Marks, Jobs, Guarded
<1>1. worker'[w] = worker[w] /\ exec'[w] = exec[w]
  BY Bystanders
<1>2. PICK j : j = worker[w].job
  OBVIOUS
<1>3. row[j].status = "running" /\ row[j].claimedBy = w /\ row'[j].status = "running"
  BY <1>1, <1>2 DEF QP!Holds, QP!Owns
<1>4. ASSUME j \in Cleanups PROVE cleanup'[j] = cleanup[j]
  <2>1. ASSUME NEW k \in Cleanups, row'[k].status = "pending", NEW c,
               cleanup' = [cleanup EXCEPT ![k] = c]
        PROVE  cleanup'[j] = cleanup[j]
    BY <1>0, <1>3, <1>4, <2>1 DEF TypesOK
  <2>2. ASSUME NEW i \in Writers, Reserve(i) PROVE cleanup'[j] = cleanup[j]
    <3>1. PICK k \in Cleanups : Rearm(k) /\ cleanup' = [cleanup EXCEPT ![k] = "Armed"]
      BY <2>2 DEF Reserve
    <3>2. row'[k].status = "pending"
      BY <1>0, <3>1, RearmEffect DEF Becomes
    <3> QED
      BY <2>1, <3>1, <3>2
  <2>3. ASSUME NEW i \in Writers, Finalize(i) PROVE cleanup'[j] = cleanup[j]
    <3>1. CASE UNCHANGED cleanup
      BY <3>1
    <3>2. ASSUME NEW k \in Reservations, Queue!UpdateUnclaimed(k), row'[k].wait = 0,
                 cleanup' = [cleanup EXCEPT ![k] = "Retained"]
          PROVE  cleanup'[j] = cleanup[j]
      <4>1. row'[k].status = "pending" /\ k \in Cleanups
        BY <1>0, <3>2, FinalizeEffect DEF Becomes, Reservations
      <4> QED
        BY <2>1, <3>2, <4>1
    <3> QED
      BY <2>3, <3>1, <3>2 DEF Finalize
  <2>4. ASSUME NEW v \in Workers, Resolve(v) \/ RecordDeleted(v)
        PROVE  cleanup'[j] = cleanup[j]
    <3>1. v # w
      BY <2>4 DEF WorkerStep, HandlerStep
    <3>2. ~(QP!Holds(v) /\ worker[v].job = j)
      BY <1>3, <3>1 DEF QP!Holds, QP!Owns
    <3> QED
      BY <1>4, <2>4, <3>2, CleanupStep
  <2> QED
    BY <2>2, <2>3, <2>4, WhoWrites
<1>5. ASSUME exec[w].at = "record", object'
      PROVE  \E t \in Teardowns : Watching(t)'
  <2>1. /\ j \in Reservations /\ cleanup[j] = "DeleteRequired"
        /\ object => \E t \in Teardowns : Watching(t)
    BY <1>0, <1>2, <1>3, <1>5 DEF PlaceOK, CleanerOK, Reservations, Nonterminal
  <2>2. CASE object
    <3>1. PICK t \in Teardowns : Watching(t)
      BY <2>1, <2>2
    <3> QED
      BY <2>2, <3>1, WatchingStays DEF Guarded
  <2>3. CASE ~object
    <3>1. PICK i \in Writers : Land(i)
      BY <1>5, <2>3, WhoWrites
    <3>2. writer[i].left > 0 /\ writer[i].pc \in {"putting", "lost"}
      BY <3>1 DEF Land
    <3>3. writer[i].pc = "lost"
      BY <2>1, <3>2, WriterExcludesHold DEF Guarded, Writes, InWrite
    <3>4. ~media.owned
      BY <2>1 DEF Guarded, HoldOK
    <3>5. \A k \in Cleanups : ~Shelters(k, i)
      <4>1. \A k \in Cleanups : Shelters(k, i) => k \in Reservations /\ cleanup[k] = "Armed"
        BY DEF Shelters, Sleeps, Reservations, Nonterminal
      <4> QED
        BY <2>1, <4>1 DEF Guarded, OneReservation
    <3>6. PICK t \in Teardowns : Watching(t)
      BY <3>2, <3>3, <3>4, <3>5 DEF Guarded, LostOK
    <3> QED
      BY <3>2, <3>6, WatchingStays DEF Guarded
  <2> QED
    BY <2>2, <2>3
<1>6. /\ exec'[w].at \in {"delete", "record"} => cleanup'[j] = "DeleteRequired"
      /\ worker'[w].pc = "completing" /\ j \in Cleanups => cleanup'[j] \in TerminalCheckpoints
  BY <1>0, <1>1, <1>2, <1>4 DEF CleanerOK, PlaceOK
<1> QED
  BY <1>1, <1>2, <1>5, <1>6 DEF CleanerOK

\* Nor does w lose sight of it by its own step.
LEMMA CleanerSteps ==
  ASSUME Marks, Timing, Guarded, [Next]_vars, NEW w \in Workers,
         QP!Holds(w), QP!Holds(w)', WorkerStep(w)
  PROVE  CleanerOK(w)'
<1>0. QP!Tidy /\ TypesOK /\ PlaceOK(w) /\ CleanerOK(w) /\ Cleanups \cap Teardowns = {}
  BY StorageAssumption DEF Marks, Guarded
<1>1. worker[w].pc # "idle" /\ worker'[w].pc # "idle"
  BY DEF QP!Holds
<1>2. PICK j : j = worker[w].job
  OBVIOUS
<1>3. /\ \A p : Go(w, p) => exec'[w].at = p
      /\ \A pc \in QP!Phases : End(w, pc) =>
            exec'[w].at = "none" /\ worker'[w].pc = pc /\ worker'[w].job = j
      /\ \A n : AskAgain(w, n) =>
            exec'[w].at = "none" /\ worker'[w].pc = "rescheduling"
      /\ UNCHANGED queue => worker'[w] = worker[w]
  <2>1. \A p : Go(w, p) => exec'[w].at = p
    BY <1>0 DEF Go, TypesOK, Executor
  <2>2. \A pc \in QP!Phases : End(w, pc) =>
            exec'[w].at = "none" /\ worker'[w].pc = pc /\ worker'[w].job = j
    BY <1>0, <1>2, MemoryEffect DEF End, Leave, NotExecuting, TypesOK, Goes
  <2>3. \A n : AskAgain(w, n) => exec'[w].at = "none" /\ worker'[w].pc = "rescheduling"
    BY <1>0, MemoryEffect DEF AskAgain, TypesOK, Goes, QP!Phases
  <2> QED
    BY <2>1, <2>2, <2>3 DEF queue
<1>4. {"completing", "failing"} \subseteq QP!Phases
  BY DEF QP!Phases
<1>5. exec'[w].at = "none" /\ worker'[w].pc # "completing" => CleanerOK(w)'
  BY DEF CleanerOK
<1>6. LoseLease(w) \/ Defect(w) => CleanerOK(w)'
  BY <1>3, <1>4, <1>5 DEF LoseLease, Defect
<1>7. ASSUME NEW k \in Jobs, Take(w, k) PROVE CleanerOK(w)'
  <2>1. Queue!DeadLetterExpired(w, k) /\ UNCHANGED <<worker, object, cleanup, teardown, exec>>
    BY <1>0, <1>1, <1>7, ClaimEffect, ExpireEffect DEF Take, payload
  <2>2. object /\ (\E t \in Teardowns : Watching(t)) => \E t \in Teardowns : Watching(t)'
    BY WatchingStays DEF Guarded
  <2> QED
    BY <1>0, <2>1, <2>2 DEF CleanerOK
<1>8. CASE EnterHandler(w)
  <2>1. Goes(w, "executing") /\ exec'[w].at = "read"
    BY <1>0, <1>1, <1>3, <1>8, StartEffect DEF EnterHandler, Returns
  <2> QED
    BY <2>1 DEF CleanerOK, Goes
<1>9. ~Settle(w) /\ ~Crash(w)
  <2>1. Settle(w) \/ Crash(w) => Returns(w)
    BY <1>0, SettleEffect, MemoryEffect DEF Settle, Reschedule, Crash, Queue!Crash
  <2> QED
    BY <1>1, <2>1 DEF Returns
<1>10. CASE Read(w)
  <2>1. UNCHANGED <<cleanup>> /\ exec[w].at = "read"
    BY <1>10 DEF Read, payload, At
  <2>2. CASE j \in Cleanups
    <3>1. \/ cleanup[j] \in TerminalCheckpoints /\ End(w, "completing")
          \/ cleanup[j] = "DeleteRequired" /\ Go(w, "delete") /\ UNCHANGED queue
          \/ Go(w, "resolve") /\ UNCHANGED queue
      BY <1>2, <1>10, <2>2 DEF Read
    <3>2. CASE cleanup[j] \in TerminalCheckpoints /\ End(w, "completing")
      BY <1>3, <1>4, <2>1, <3>2 DEF CleanerOK
    <3>3. CASE cleanup[j] = "DeleteRequired" /\ Go(w, "delete") /\ UNCHANGED queue
      <4>1. /\ exec'[w].at = "delete" /\ worker'[w].job = j
            /\ worker'[w].pc = "executing" /\ cleanup'[j] = "DeleteRequired"
        BY <1>2, <1>3, <1>10, <2>1, <3>3 DEF Read, At
      <4> QED
        BY <4>1 DEF CleanerOK
    <3>4. CASE Go(w, "resolve") /\ UNCHANGED queue
      <4>1. exec'[w].at = "resolve" /\ worker'[w].pc = "executing"
        BY <1>2, <1>3, <1>10, <3>4 DEF Read, At
      <4> QED
        BY <4>1 DEF CleanerOK
    <3> QED
      BY <3>1, <3>2, <3>3, <3>4
  <2>3. CASE j \notin Cleanups
    BY <1>2, <1>3, <1>4, <1>10, <2>1, <2>3 DEF Read, CleanerOK
  <2> QED
    BY <2>2, <2>3
<1>11. CASE Resolve(w)
  <2>1. j \in Cleanups
    BY <1>0, <1>2, <1>11 DEF Resolve, At, PlaceOK
  <2>2. CASE cleanup' = [cleanup EXCEPT ![j] = "DeleteRequired"] /\ Go(w, "delete") /\ UNCHANGED queue
    BY <1>0, <1>2, <1>3, <1>11, <2>1, <2>2 DEF CleanerOK, TypesOK, Resolve, At
  <2>3. CASE cleanup' = [cleanup EXCEPT ![j] = "Retained"] /\ End(w, "completing")
    BY <1>0, <1>3, <1>4, <2>1, <2>3 DEF CleanerOK, TypesOK, TerminalCheckpoints
  <2>4. CASE AskAgain(w, Window)
    BY <1>3, <1>5, <2>4
  <2> QED
    BY <1>2, <1>6, <1>11, <2>2, <2>3, <2>4 DEF Resolve, Fenced
<1>12. CASE DeleteObject(w)
  <2>1. CASE object' = FALSE /\ Go(w, "record") /\ UNCHANGED <<queue, payload>>
    BY <1>0, <1>2, <1>3, <1>12, <2>1 DEF CleanerOK, DeleteObject, At, payload
  <2> QED
    BY <1>6, <1>12, <2>1 DEF DeleteObject
<1>13. CASE RecordDeleted(w)
  <2>1. j \in Cleanups
    BY <1>0, <1>2, <1>13 DEF RecordDeleted, At, PlaceOK
  <2>2. CASE cleanup' = [cleanup EXCEPT ![j] = "Deleted"] /\ End(w, "completing")
    BY <1>0, <1>3, <1>4, <2>1, <2>2 DEF CleanerOK, TypesOK, TerminalCheckpoints
  <2> QED
    BY <1>2, <1>6, <1>13, <2>2 DEF RecordDeleted, Fenced
<1>14. CASE PreparePaths(w) \/ CommitOrVoid(w) \/ DeletePaths(w)
  <2>1. j \notin Cleanups
    BY <1>0, <1>2, <1>14 DEF PreparePaths, CommitOrVoid, DeletePaths, At, PlaceOK
  <2>2. LoseLease(w) \/ Absent(w) \/ (\E t, s : Checkpoint(w, t, s))
        \/ (\E n : AskAgain(w, n)) \/ End(w, "completing")
    BY <1>14 DEF PreparePaths, CommitOrVoid, DeletePaths, Fenced
  <2>3. Absent(w) => End(w, "failing")
    BY DEF Absent
  <2>4. (\E t, s : Checkpoint(w, t, s)) => End(w, "completing") \/ \E n : AskAgain(w, n)
    BY DEF Checkpoint
  <2>5. exec'[w].at = "none" /\ (worker'[w].pc = "completing" => worker'[w].job = j)
    BY <1>3, <1>4, <2>2, <2>3, <2>4 DEF LoseLease
  <2> QED
    BY <2>1, <2>5 DEF CleanerOK
<1> QED
  BY <1>6, <1>7, <1>8, <1>9, <1>10, <1>11, <1>12, <1>13, <1>14 DEF WorkerStep, HandlerStep

LEMMA CleanerKept ==
  ASSUME Marks, Marks', Timing, Guarded, [Next]_vars, NEW w \in Workers
  PROVE  CleanerOK(w)'
<1>1. QP!NoneGains
  BY QueueStep DEF Marks, QP!TidyStep
<1>2. CASE ~QP!Holds(w)'
  BY <1>2 DEF CleanerOK
<1>3. CASE QP!Holds(w)' /\ QP!Holds(w)
  BY <1>3, CleanerRests, CleanerSteps
<1>4. CASE worker'[w].pc = "claimed"
  BY <1>4 DEF CleanerOK, Marks, PlaceOK
<1> QED
  BY <1>1, <1>2, <1>3, <1>4 DEF QP!NoneGains

LEMMA InitGuarded == Init => Guarded
<1> SUFFICES ASSUME Init PROVE Guarded
  OBVIOUS
<1>1. /\ Reservations = {} /\ ~object
      /\ \A i \in Writers : writer[i].pc = "idle" /\ writer[i].left = 0
      /\ \A t \in Teardowns : teardown[t].kind = "Unprepared"
      /\ \A w \in Workers : worker[w].pc = "idle"
  BY DEF Init, Queue!Init, Queue!Fresh, Queue!Unclaimed, Queue!Idle, Reservations, Nonterminal,
         Jobs, Unprepared
<1>2. \A t \in Teardowns : media.intent # t
  BY StorageAssumption DEF Init, NoIntent
<1> QED
  BY <1>1, <1>2 DEF Guarded, OneReservation, OrphanOK, HoldOK, LostOK, ListedOK, Waits, CleanerOK,
                    QP!Holds

LEMMA GuardedKept ==
  ASSUME Marks, Marks', Timing, Guarded, "repair" \notin Windows, [Next]_vars
  PROVE  Guarded'
<1>1. OneReservation'
  <2>1. \/ Reservations' \subseteq Reservations
        \/ \E j \in Cleanups : Reservations' \subseteq {j}
    BY ReservationsStep
  <2> QED
    BY <2>1 DEF Guarded, OneReservation
<1> QED
  BY <1>1, OrphanKept, HoldKept, LostKept, ListedKept, CleanerKept DEF Guarded

\* Whoever decides to delete holds the path until it is gone, a write that is on
\* its way is looked after, and a teardown has listed what it must delete.
THEOREM GuardedInvariant ==
  ASSUME "late" \notin Windows, "repair" \notin Windows
  PROVE  Spec => [](Marks /\ Timing /\ Guarded)
<1>1. Guarded /\ Marks /\ Marks' /\ Timing /\ [Next]_vars => Guarded'
  BY GuardedKept
<1> QED
  BY <1>1, InitGuarded, TimingInvariant, PTL DEF Spec

\* No order of writes, crashes, retries and teardowns leaves an object that is
\* not owned to the sweep alone, even when a stalled worker or the sweep deletes
\* late: a cleanup or a teardown that is not done will still look at it.
THEOREM OrphansAreWatched ==
  ASSUME "late" \notin Windows, "repair" \notin Windows
  PROVE  Spec => []NoUnwatchedOrphan
<1>1. Guarded => NoUnwatchedOrphan
  BY DEF Guarded, OrphanOK, Watched, Watcher, Watching, NoUnwatchedOrphan
<1> QED
  BY <1>1, GuardedInvariant, PTL

-----------------------------------------------------------------------------
(* What is owned is kept, when no race is opened *)

Discarded == \E i \in Writers : writer[i].pc = "discarded"

\* What is published is there, what has landed is there to be published, and the
\* sweep deletes nothing that anybody is about to publish.
Kept ==
  /\ media.owned => object \/ Discarded
  /\ media.live => \A i \in Writers : writer[i].pc = "put" => object
  /\ sweeping => ~media.owned /\ \A i \in Writers : ~Writes(i)

LEMMA WhoDeletes ==
  ASSUME Marks, "stall" \notin Windows, [Next]_vars, object, ~object'
  PROVE  \/ \E i \in Writers : Discard(i)
         \/ \E w \in Workers : DeleteObject(w) /\ Queue!ClaimIsCurrent(w)
         \/ \E w \in Workers : DeletePaths(w)
         \/ SweepDeletes
<1>0. object' # object
  BY Zenon
<1>1. ASSUME NEW i \in Writers, WriterStep(i) PROVE Discard(i)
  BY <1>0, <1>1 DEF WriterStep, Reserve, StartPut, Land, Own, Finalize, LoseWriter
<1>2. /\ ~AddReference /\ ~RepointGrants /\ ~SweepFinds /\ ~Tick /\ ~UNCHANGED vars
      /\ \A t \in Teardowns : ~ClaimTeardown(t)
      /\ \A j \in Jobs : ~Repair(j)
  BY <1>0 DEF AddReference, RepointGrants, SweepFinds, Tick, ClaimTeardown, Repair, OnlyMediaMoves,
              OnlyQueueMoves, vars
<1>3. ASSUME NEW w \in Workers, WorkerStep(w)
      PROVE  (DeleteObject(w) /\ Queue!ClaimIsCurrent(w)) \/ DeletePaths(w)
  <2>1. /\ \A j \in Jobs : ~Take(w, j)
        /\ ~EnterHandler(w) /\ ~Settle(w) /\ ~Defect(w) /\ ~Crash(w) /\ ~Read(w)
    BY <1>0 DEF Take, EnterHandler, Settle, Reschedule, Defect, Crash, Read, OnlyQueueMoves
  <2>2. ~LoseLease(w) /\ ~Absent(w) /\ \A t, s : ~Checkpoint(w, t, s)
    BY <1>0 DEF LoseLease, Absent, Checkpoint
  <2>3. ~Resolve(w) /\ ~RecordDeleted(w) /\ ~PreparePaths(w) /\ ~CommitOrVoid(w)
    BY <1>0, <2>2 DEF Resolve, RecordDeleted, PreparePaths, CommitOrVoid, Fenced
  <2>4. DeleteObject(w) => Queue!ClaimIsCurrent(w)
    BY <2>2 DEF DeleteObject
  <2> QED
    BY <1>3, <2>1, <2>3, <2>4 DEF WorkerStep, HandlerStep
<1> QED
  BY <1>1, <1>2, <1>3 DEF Next

LEMMA WhoSweeps ==
  ASSUME [Next]_vars, ~sweeping, sweeping'
  PROVE  SweepFinds
<1>0. sweeping' # sweeping
  BY Zenon
<1>1. ASSUME NEW i \in Writers, WriterStep(i) PROVE FALSE
  BY <1>0, <1>1 DEF WriterStep, Reserve, StartPut, Land, Own, Finalize, Discard, LoseWriter,
                    OnlyWriterMoves, rest
<1>2. /\ ~AddReference /\ ~RepointGrants /\ ~SweepDeletes /\ ~Tick /\ ~UNCHANGED vars
      /\ \A t \in Teardowns : ~ClaimTeardown(t)
      /\ \A j \in Jobs : ~Repair(j)
  BY <1>0 DEF AddReference, RepointGrants, SweepDeletes, Tick, ClaimTeardown, Repair,
              OnlyMediaMoves, OnlyQueueMoves, vars, rest
<1>3. ASSUME NEW w \in Workers, WorkerStep(w) PROVE FALSE
  <2>1. /\ \A j \in Jobs : ~Take(w, j)
        /\ ~EnterHandler(w) /\ ~Settle(w) /\ ~Defect(w) /\ ~Crash(w) /\ ~Read(w)
    BY <1>0 DEF Take, EnterHandler, Settle, Reschedule, Defect, Crash, Read, OnlyQueueMoves, rest
  <2>2. ~LoseLease(w) /\ ~Absent(w) /\ \A t, s : ~Checkpoint(w, t, s)
    BY <1>0 DEF LoseLease, Absent, Checkpoint, rest
  <2>3. /\ ~Resolve(w) /\ ~DeleteObject(w) /\ ~RecordDeleted(w)
        /\ ~PreparePaths(w) /\ ~CommitOrVoid(w) /\ ~DeletePaths(w)
    BY <1>0, <2>2 DEF Resolve, DeleteObject, RecordDeleted, PreparePaths, CommitOrVoid, DeletePaths,
                      Fenced, rest
  <2> QED
    BY <1>3, <2>1, <2>3 DEF WorkerStep, HandlerStep
<1> QED
  BY <1>1, <1>2, <1>3 DEF Next

\* A writer has put only what has landed, and a rejection is not forgotten.
LEMMA WriterPhases ==
  ASSUME Marks, [Next]_vars, NEW i \in Writers
  PROVE  /\ writer'[i].pc = "put" => writer[i].pc = "put" \/ Land(i)
         /\ writer[i].pc = "discarded" => writer'[i].pc = "discarded"
<1>0. TypesOK
  BY DEF Marks
<1>1. CASE writer' = writer
  BY <1>1
<1>2. CASE Tick
  <2> DEFINE n == Queue!Elapse(writer[i].left)
  <2>1. writer'[i] = [writer[i] EXCEPT !.left = n] /\ writer[i] \in Writer
    BY <1>0, <1>2 DEF Tick, TypesOK
  <2> HIDE DEF n
  <2> QED
    BY <2>1 DEF Writer
<1>3. ASSUME NEW x \in Writers, Reserve(x)
      PROVE  writer'[i].pc \in {"reserved", "lost", "done"} \/ writer'[i] = writer[i]
  BY <1>0, <1>3 DEF Reserve, Displaced, TypesOK, Writer
<1>4. ASSUME NEW x \in Writers, Reserve(x), writer[i].pc = "discarded"
      PROVE  writer'[i].pc = "discarded"
  BY <1>0, <1>4 DEF Reserve, Displaced, TypesOK, InWrite
<1>5. ASSUME NEW x \in Writers, WriterStep(x), ~Reserve(x), x # i
      PROVE  writer'[i] = writer[i]
  BY <1>0, <1>5 DEF WriterStep, StartPut, Land, Own, Finalize, Discard, LoseWriter, Move, TypesOK
<1>6. ASSUME WriterStep(i), ~Reserve(i)
      PROVE  writer[i].pc \in InWrite \cup {"lost"} /\ (writer'[i].pc = "put" => Land(i))
  <2>1. \A pc : Move(i, pc) => writer'[i].pc = pc
    BY <1>0 DEF Move, TypesOK, Writer
  <2>2. CASE StartPut(i)
    BY <1>0, <2>2 DEF StartPut, InWrite, TypesOK
  <2>3. CASE Land(i)
    BY <2>3 DEF Land, InWrite
  <2>4. CASE Own(i) \/ Discard(i)
    BY <2>1, <2>4 DEF Own, Discard, InWrite
  <2>5. CASE Finalize(i) \/ LoseWriter(i)
    BY <2>1, <2>5 DEF Finalize, LoseWriter, InWrite
  <2> QED
    BY <1>6, <2>2, <2>3, <2>4, <2>5 DEF WriterStep
<1>7. "discarded" \notin InWrite \cup {"lost"}
  BY DEF InWrite
<1>8. ASSUME NEW x \in Writers, WriterStep(x)
      PROVE  /\ writer'[i].pc = "put" => writer[i].pc = "put" \/ Land(i)
             /\ writer[i].pc = "discarded" => writer'[i].pc = "discarded"
  BY <1>3, <1>4, <1>5, <1>6, <1>7, <1>8
<1> QED
  BY <1>1, <1>2, <1>8, WhoWrites

LEMMA KeptStep ==
  ASSUME Marks, Timing, Guarded, Kept, Windows = {}, [Next]_vars
  PROVE  Kept'
<1>0. TypesOK
  BY DEF Marks
<1>1. ASSUME object, ~object'
      PROVE  /\ media.owned => Discarded'
             /\ media.live => \A x \in Writers : writer[x].pc = "put" => writer'[x].pc # "put"
  <2>1. CASE \E i \in Writers : Discard(i)
    <3>1. PICK i \in Writers : Discard(i)
      BY <2>1
    <3>2. Writes(i) /\ \A x \in Writers : writer[x].pc = "put" => x = i
      BY <3>1 DEF Discard, Writes, InWrite, Timing, WritersOK
    <3>3. writer'[i].pc = IF writer[i].pc = "rejected" THEN "discarded" ELSE "done"
      BY <1>0, <3>1 DEF Discard, Move, TypesOK, Writer
    <3>4. media.owned => writer[i].pc = "rejected"
      BY <3>1 DEF Discard
    <3> QED
      BY <3>2, <3>3, <3>4 DEF Discarded
  <2>2. ASSUME NEW w \in Workers, DeleteObject(w), Queue!ClaimIsCurrent(w)
        PROVE  ~media.owned /\ \A x \in Writers : writer[x].pc # "put"
    <3>1. PICK j \in Cleanups : j = worker[w].job
      BY <2>2, AtHandler DEF DeleteObject, At, PlaceOK
    <3>2. QP!Holds(w) /\ row[j].status = "running"
      BY <2>2, <3>1, SameQueue
      DEF DeleteObject, At, QP!Holds, QP!Owns, QP!ClaimIsCurrent
    <3>3. j \in Reservations /\ cleanup[j] = "DeleteRequired"
      BY <2>2, <3>1, <3>2
      DEF DeleteObject, At, Guarded, CleanerOK, Reservations, Nonterminal
    <3> QED
      BY <3>3, WriterExcludesHold DEF Guarded, HoldOK, Writes, InWrite
  <2>3. ASSUME NEW w \in Workers, DeletePaths(w) PROVE ~media.live /\ ~media.owned
    <3>1. PlaceOK(w) /\ exec[w].at = "storage"
      BY <2>3 DEF Marks, DeletePaths, At
    <3> QED
      BY <3>1 DEF Marks, PlaceOK, IntentOK, Gone
  <2>4. SweepDeletes => ~media.owned /\ \A x \in Writers : writer[x].pc # "put"
    BY DEF SweepDeletes, Kept, Writes, InWrite
  <2> QED
    BY <1>1, <2>1, <2>2, <2>3, <2>4, WhoDeletes
<1>2. Discarded => Discarded'
  BY WriterPhases DEF Discarded
<1>3. media'.owned => media.owned \/ \E i \in Writers : Own(i)
  <2>1. media'.owned = media.owned => (media'.owned => media.owned)
    BY Zenon
  <2>2. media' = Deleted => ~media'.owned
    BY DEF Deleted
  <2> QED
    BY <2>1, <2>2, WhoWrites
<1>4. ASSUME NEW i \in Writers, Own(i)
      PROVE  object' /\ Writes(i)
  BY <1>4 DEF Own, Kept, Writes, InWrite
<1>5. media'.owned => object' \/ Discarded'
  <2>1. ASSUME media.owned PROVE object' \/ Discarded'
    <3>1. object /\ ~object' => Discarded'
      BY <1>1, <2>1
    <3>2. object \/ Discarded
      BY <2>1 DEF Kept
    <3> QED
      BY <1>2, <3>1, <3>2
  <2>2. (\E i \in Writers : Own(i)) => object'
    BY <1>4
  <2> QED
    BY <1>3, <2>1, <2>2, Zenon
<1>6. ASSUME media'.live, NEW i \in Writers, writer'[i].pc = "put" PROVE object'
  <2>1. media.live
    <3>1. media'.live = media.live \/ media.live \/ media' = Deleted
      BY EveryStepMarks DEF MarkStep, MediaStep
    <3>2. media' = Deleted => ~media'.live
      BY DEF Deleted
    <3> QED
      BY <1>6, <3>1, <3>2, Zenon
  <2>2. Land(i) => object'
    BY DEF Land
  <2>3. CASE writer[i].pc = "put"
    BY <1>1, <1>6, <2>1, <2>3 DEF Kept
  <2> QED
    BY <1>6, <2>2, <2>3, WriterPhases
<1>7. ASSUME sweeping' PROVE ~media'.owned /\ \A i \in Writers : ~Writes(i)'
  <2>1. CASE SweepFinds
    BY <2>1 DEF SweepFinds, Writes
  <2>2. CASE sweeping
    <3>1. ~media.owned /\ \A i \in Writers : ~Writes(i)
      BY <2>2 DEF Kept
    <3>2. \A x \in Writers : ~Reserve(x)
      BY <2>2 DEF Reserve
    <3> QED
      BY <1>3, <1>4, <3>1, <3>2, WritersStep
  <2> QED
    BY <1>7, <2>1, <2>2, WhoSweeps
<1> QED
  BY <1>5, <1>6, <1>7 DEF Kept

\* No cleanup, teardown or sweep deletes the object of a media that owns it: not
\* across lapsed reservations, voided teardowns or dead rows that are repaired.
THEOREM OwnedObjectsAreKept ==
  ASSUME Windows = {}
  PROVE  Spec => []JobsKeepOwnedObject
<1>1. Init => Kept
  BY DEF Init, Kept
<1>2. Kept /\ Marks /\ Timing /\ Guarded /\ [Next]_vars => Kept'
  BY KeptStep
<1>3. Kept => JobsKeepOwnedObject
  BY DEF Kept, Discarded, JobsKeepOwnedObject, OwnedObjectExists
<1>4. Spec => [](Marks /\ Timing /\ Guarded)
  BY GuardedInvariant
<1> QED
  BY <1>1, <1>2, <1>3, <1>4, PTL DEF Spec

=============================================================================
