----------------------------- MODULE ChatRunProofs -----------------------------
(* What holds of ChatRun for any workers, turns, tools and bounds.  Always: the *)
(* types, what is journaled stays until the outcome, and a worker that lost its  *)
(* claim does nothing to the run but mark it running.  As long as no lease       *)
(* lapses between Load and MarkRunning (the window "stall": mark_running has no  *)
(* fence): requests are billed and writes happen once, the outcome is told once, *)
(* a run without one has a job, and who lost its claim does nothing at all.      *)
EXTENDS ChatRun, FiniteSetTheorems, TLAPS

\* The queue's own invariant, and that each of its actions keeps it.
QP == INSTANCE JobQueueProofs WITH
  Jobs <- {job}, Allowed <- [w \in Workers |-> {job}], UnknownKind <- {},
  NeverPruneDead <- {job}, RetryDelays <- <<>>, LeaseTicks <- 1, MaxDelay <- 0

NoStall == "stall" \notin Windows

-----------------------------------------------------------------------------
(* What makes the invariants inductive *)

Ended == run.status \in TerminalRun
LiveRow == {"pending", "running", "failed", "dead"}
Sendable == Generations \cup ToolSteps

\* A generation's result is one that the provider gives.
Journal == {g \in [Steps -> StepState] : \A p \in Generations : g[p].result # "done"}

\* The points a handler reaches after MarkRunning, and those inside a turn.
Working == Points \ {"none", "load", "clear", "mark"}
InTurn == {"turn", "generate", "call", "reserve", "send", "stream", "record", "fold",
           "tool", "use", "effect", "store", "used"}

\* Between the commit of Uncertain and the request itself.
InFlight(m, p) ==
  \/ m.at = "send" /\ p = Generation(m.turn)
  \/ m.at = "effect" /\ m.result = "search" /\ p = ToolStep(m.turn)

About(p) == {w \in Workers : InFlight(exec[w], p)}

\* What a handler holds in memory fits the statement it is at.
MemoryOK(m) ==
  /\ m \in Executor /\ m.journal \in Journal
  /\ m.at \in Working => m.seen = "running"
  /\ m.at = "mark" => m.seen \in ActiveRun
  /\ m.at \in InTurn => m.turn \in 1..Turns
  /\ m.at \in {"call", "reserve"} => m.journal[Generation(m.turn)] = Prepared
  /\ m.at \in {"send", "stream"} => m.journal[Generation(m.turn)] = Uncertain
  /\ m.at = "record" => m.journal[Generation(m.turn)] \in {Prepared, Uncertain}
                        /\ m.result \in Results
  /\ m.at = "use" => m.journal[ToolStep(m.turn)] = Prepared
  /\ m.at \in {"effect", "store"} => m.journal[ToolStep(m.turn)] = Uncertain

\* Who executes nothing holds nothing in memory.
Resting == \A w \in Workers : exec[w].at = "none" => exec[w] = NotExecuting

\* The holder of the claim executes the run as it is: what it saw of the journal
\* is still so, and of the status but for a mark_running of another.
InStep(w) ==
  /\ worker[w].pc = "executing" <=> exec[w].at # "none"
  /\ QP!Holds(w) =>
       /\ exec[w].at = "mark" => run.status \in {exec[w].seen, "running"}
       /\ exec[w].at \in Working => run.status = "running"
       /\ exec[w].at \in Working \cup {"mark", "clear"} => exec[w].journal = journal
       /\ exec[w].at = "clear" => journal = Cleared

\* No claim lapses before mark_running, and no run that has ended goes on.
OnTime(w) ==
  /\ exec[w].at \in {"load", "mark"} => QP!Holds(w)
  /\ exec[w].at = "clear" \/ worker[w].pc = "completing" => Ended
  /\ QP!Holds(w) /\ exec[w].at = "mark" => run.status = exec[w].seen

\* Every request that left, or will, has its own commit of Uncertain, and every
\* such commit that an operator took back has its proof.
BilledOK(p) ==
  /\ IsFiniteSet(About(p))
  /\ sent[p] + Cardinality(About(p)) <= proofs[p] + 1
  /\ ~Ended /\ journal[p] \in {Unknown, Prepared} => sent[p] + Cardinality(About(p)) <= proofs[p]

WrittenOK(p) ==
  \/ written[p] = 0
  \/ written[p] = 1 /\ (Ended \/ journal[p].phase = "Completed")

RunOK == ActiveRunHasJob /\ DoneEndsTheRun /\ ProjectionMissesOnlyTheEnd

\* Who has a job or a request under way has a run.
PresentOK ==
  /\ run.status = "absent" <=> row[job].status = "absent"
  /\ canceller \/ reader = "loaded" => run.status # "absent"

TypesOK ==
  /\ spent \in [{job} -> Nat]
  /\ run \in [status: {"absent"} \cup ActiveRun \cup TerminalRun, cancel: BOOLEAN,
              tail: {"none", "event", "done"}, dones: Nat]
  /\ journal \in Journal
  /\ exec \in [Workers -> Executor]
  /\ calls \in Seq([turn: 1..Turns, outcome: {"open", "succeeded", "failed"}])
  /\ canceller \in BOOLEAN /\ reader \in {"idle", "loaded", "defect"}
  /\ sent \in [Sendable -> Nat] /\ proofs \in [Sendable -> Nat]
  /\ written \in [ToolSteps -> Nat]

\* Who holds the claim, holds the latest one.
LatestClaim == \A w \in Workers : QP!Holds(w) => worker[w].token = claims[job]

\* What holds whenever leases lapse: the fences are all it needs.
FInv ==
  /\ QP!Tidy /\ LatestClaim /\ TypesOK /\ PresentOK /\ Resting
  /\ Ended => journal = Cleared
  /\ \A w \in Workers : MemoryOK(exec[w]) /\ InStep(w)

\* What a mark_running without its claim destroys.
Prompt ==
  /\ RunOK
  /\ \A w \in Workers : OnTime(w)
  /\ \A p \in Sendable : BilledOK(p)
  /\ \A p \in ToolSteps : WrittenOK(p)

-----------------------------------------------------------------------------
(* The queue *)

LEMMA QueueAssumptions ==
  /\ QP!PolicyAssumption /\ QP!WorkersAssumption
  /\ \A n \in Nat : QP!RetryDelay(n) \in Nat
  /\ MaxAttempts > 0 /\ NoJob # job
<1>1. <<>> \in Seq(Nat)
  OBVIOUS
<1>2. NoWorker \notin Workers /\ NoJob # job /\ MaxAttempts \in Nat \ {0}
      /\ MaxClaims \in Nat
  BY ChatAssumption
<1> QED
  BY <1>1, <1>2 DEF QP!PolicyAssumption, QP!WorkersAssumption, QP!RetryDelay

\* The queue of this module is the one the lemmas are about.
LEMMA SameQueue ==
  /\ \A w \in Workers : Queue!ClaimIsCurrent(w) <=> QP!ClaimIsCurrent(w)
  /\ \A w \in Workers :
       /\ Queue!Owns(w, job) <=> QP!Owns(w, job)
       /\ Queue!Claim(w, job) <=> QP!Claim(w, job)
       /\ Queue!DeadLetterExpired(w, job) <=> QP!DeadLetterExpired(w, job)
       /\ Queue!Start(w) <=> QP!Start(w)
       /\ Queue!Heartbeat(w) <=> QP!Heartbeat(w)
       /\ Queue!Complete(w) <=> QP!Complete(w)
       /\ Queue!Crash(w) <=> QP!Crash(w)
       /\ Queue!Return(w) <=> QP!Return(w)
       /\ \A pc \in QP!Phases : Queue!Goto(w, pc) <=> QP!Goto(w, pc)
  /\ Queue!Enqueue(job) <=> QP!Enqueue(job)
  /\ Queue!RequeueDead(job) <=> QP!RequeueDead(job)
  /\ Queue!Tick <=> QP!Tick
  /\ Queue!Init <=> QP!Init
<1>1. \A w \in Workers : Queue!Owns(w, job) <=> QP!Owns(w, job)
  BY DEF Queue!Owns, QP!Owns, Queue!LeaseLive, QP!LeaseLive
<1>2. \A w \in Workers : Queue!ClaimIsCurrent(w) <=> QP!ClaimIsCurrent(w)
  BY DEF Queue!ClaimIsCurrent, QP!ClaimIsCurrent, Queue!Owns, QP!Owns,
         Queue!LeaseLive, QP!LeaseLive
<1>3. \A w \in Workers : Queue!Claim(w, job) <=> QP!Claim(w, job)
  BY DEF Queue!Claim, QP!Claim, Queue!Claimed, QP!Claimed, Queue!Claimable, QP!Claimable,
         Queue!Waiting, QP!Waiting, Queue!Due, QP!Due, Queue!LeaseLive, QP!LeaseLive
<1>4. \A w \in Workers : Queue!DeadLetterExpired(w, job) <=> QP!DeadLetterExpired(w, job)
  BY DEF Queue!DeadLetterExpired, QP!DeadLetterExpired, Queue!LeaseLive, QP!LeaseLive,
         Queue!Expired, QP!Expired, Queue!Unclaimed, QP!Unclaimed
<1>5. Queue!Enqueue(job) <=> QP!Enqueue(job)
  BY DEF Queue!Enqueue, QP!Enqueue, Queue!Fresh, QP!Fresh, Queue!Unclaimed, QP!Unclaimed
<1>6. Queue!RequeueDead(job) <=> QP!RequeueDead(job)
  BY DEF Queue!RequeueDead, QP!RequeueDead, Queue!Repairable, QP!Repairable,
         Queue!Unclaimed, QP!Unclaimed
<1>7. \A w \in Workers : Queue!Start(w) <=> QP!Start(w)
  BY DEF Queue!Start, QP!Start, Queue!Owns, QP!Owns, Queue!LeaseLive, QP!LeaseLive,
         Queue!Goto, QP!Goto, Queue!Return, QP!Return, Queue!Idle, QP!Idle
<1>8. \A w \in Workers : Queue!Complete(w) <=> QP!Complete(w)
  BY DEF Queue!Complete, QP!Complete, Queue!CompleteRow, QP!CompleteRow, Queue!Owns, QP!Owns,
         Queue!LeaseLive, QP!LeaseLive, Queue!Released, QP!Released, Queue!Unclaimed,
         QP!Unclaimed, Queue!Return, QP!Return, Queue!Idle, QP!Idle
<1>9. \A w \in Workers : Queue!Heartbeat(w) <=> QP!Heartbeat(w)
  BY DEF Queue!Heartbeat, QP!Heartbeat, Queue!Owns, QP!Owns, Queue!LeaseLive, QP!LeaseLive
<1>10. \A w \in Workers : (Queue!Crash(w) <=> QP!Crash(w)) /\ (Queue!Return(w) <=> QP!Return(w))
  BY DEF Queue!Crash, QP!Crash, Queue!Return, QP!Return, Queue!Idle, QP!Idle
<1>11. \A w \in Workers, pc \in QP!Phases : Queue!Goto(w, pc) <=> QP!Goto(w, pc)
  BY DEF Queue!Goto, QP!Goto
<1>12. Queue!Tick <=> QP!Tick
  BY DEF Queue!Tick, QP!Tick, Queue!Elapse, QP!Elapse
<1>13. Queue!Init <=> QP!Init
  BY DEF Queue!Init, QP!Init, Queue!Fresh, QP!Fresh, Queue!Unclaimed, QP!Unclaimed,
         Queue!Idle, QP!Idle
<1> QED
  BY <1>1, <1>2, <1>3, <1>4, <1>5, <1>6, <1>7, <1>8, <1>9, <1>10, <1>11, <1>12, <1>13

\* Only one worker holds the claim.
LEMMA HoldsFacts ==
  ASSUME QP!Tidy, NEW w \in Workers
  PROVE  /\ worker[w].job \in {job, NoJob}
         /\ worker[w].pc # "idle" <=> worker[w].job = job
         /\ QP!Holds(w) <=> /\ worker[w].pc # "idle" /\ row[job].status = "running"
                            /\ row[job].claimedBy = w /\ row[job].lease > 0
<1>1. /\ worker[w].job \in {job, NoJob} /\ NoJob # job
      /\ worker[w].pc # "idle" <=> worker[w].job = job
  BY ChatAssumption DEF QP!Tidy, QP!Worker
<1>2. QP!Holds(w) <=> /\ worker[w].pc # "idle" /\ row[job].status = "running"
                      /\ row[job].claimedBy = w /\ row[job].lease > 0
  BY <1>1 DEF QP!Holds, QP!Owns, QP!LeaseLive
<1> QED
  BY <1>1, <1>2

LEMMA HoldsNext ==
  ASSUME QP!Tidy', NEW w \in Workers
  PROVE  QP!Holds(w)' <=> /\ worker'[w].pc # "idle" /\ row'[job].status = "running"
                          /\ row'[job].claimedBy = w /\ row'[job].lease > 0
<1>1. worker'[w].pc # "idle" <=> worker'[w].job = job
  BY ChatAssumption DEF QP!Tidy, QP!Worker
<1> QED
  BY <1>1 DEF QP!Holds, QP!Owns, QP!LeaseLive

\* For the holder every fence is open.
LEMMA Holder ==
  ASSUME FInv, NEW w \in Workers
  PROVE  /\ worker[w].job \in {job, NoJob}
         /\ worker[w].pc # "idle" <=> worker[w].job = job
         /\ QP!Holds(w) <=> Queue!ClaimIsCurrent(w)
         /\ worker[w].pc # "idle" => (QP!Holds(w) <=> Queue!Owns(w, job))
         /\ QP!Holds(w) <=> /\ worker[w].pc # "idle" /\ row[job].status = "running"
                            /\ row[job].claimedBy = w /\ row[job].lease > 0
         /\ \A v \in Workers : QP!Holds(v) /\ QP!Holds(w) => v = w
<1>0. QP!Tidy
  BY DEF FInv
<1>1. /\ worker[w].job \in {job, NoJob} /\ NoJob # job
      /\ worker[w].pc # "idle" <=> worker[w].job = job
  BY <1>0, HoldsFacts, ChatAssumption
<1>2. \A v \in Workers : QP!Holds(v) => row[job].claimedBy = v
  BY <1>0, HoldsFacts
<1>3. QP!Holds(w) <=> /\ worker[w].pc # "idle" /\ row[job].status = "running"
                      /\ row[job].claimedBy = w /\ row[job].lease > 0
  BY <1>0, HoldsFacts
<1>4. QP!Holds(w) => row[job].attempts = worker[w].attempt
  BY <1>0, <1>1, <1>3 DEF QP!Tidy
<1>5. Queue!ClaimIsCurrent(w) <=>
        worker[w].job = job /\ Queue!Owns(w, job) /\ row[job].attempts = worker[w].attempt
  BY <1>1 DEF Queue!ClaimIsCurrent
<1>6. Queue!Owns(w, job) <=> /\ row[job].status = "running" /\ row[job].claimedBy = w
                             /\ row[job].lease > 0
  BY DEF Queue!Owns, Queue!LeaseLive
<1> QED
  BY <1>1, <1>2, <1>3, <1>4, <1>5, <1>6

\* Who is at a job has a row and a run.
LEMMA HasRun ==
  ASSUME FInv, NEW w \in Workers, worker[w].pc # "idle"
  PROVE  run.status # "absent" /\ run.status \in ActiveRun \cup TerminalRun
<1>1. worker[w].job = job /\ NoJob # job
  BY Holder, ChatAssumption
<1>2. row[job].status # "absent"
  BY <1>1 DEF FInv, QP!Tidy
<1> QED
  BY <1>2 DEF FInv, PresentOK, TypesOK

\* fail_job with the hook, and complete_job: the row of the claim is given up.
GivesUp(w, statuses) ==
  \/ UNCHANGED row
  \/ /\ QP!Holds(w)
     /\ \E st \in statuses : \E n \in Nat, d \in Nat, e \in BOOLEAN :
          /\ st \in QP!Waiting => n < MaxAttempts
          /\ row' = [row EXCEPT ![job] = QP!Unclaimed(st, n, d, e)]

LEMMA FailGivesUp ==
  ASSUME FInv, NEW w \in Workers, worker[w].pc # "idle", FailRow(w)
  PROVE  GivesUp(w, {"pending", "failed", "dead"})
<1>1. /\ worker[w].job = job /\ (QP!Holds(w) <=> Queue!Owns(w, job))
      /\ row[job].attempts \in Nat /\ MaxAttempts \in Nat /\ 0 < MaxAttempts
  BY Holder, QueueAssumptions, ChatAssumption DEF FInv, QP!Tidy, QP!Row
<1>2. \A st, n, d, e : Queue!Unclaimed(st, n, d, e) = QP!Unclaimed(st, n, d, e)
  BY DEF Queue!Unclaimed, QP!Unclaimed
<1>3. CASE Queue!Owns(w, job) /\ row[job].attempts >= MaxAttempts /\ Recalled
  <2>1. row' = [row EXCEPT ![job] = QP!Unclaimed("pending", 0, 0, TRUE)]
    BY <1>2, <1>3 DEF FailRow, Requeued
  <2> QED
    BY <1>1, <1>3, <2>1 DEF GivesUp
<1>4. CASE ~(Queue!Owns(w, job) /\ row[job].attempts >= MaxAttempts /\ Recalled)
  <2>1. Queue!FailRow(w, 0)
    BY <1>4 DEF FailRow
  <2>2. CASE ~Queue!Owns(w, job)
    BY <1>1, <2>1, <2>2 DEF Queue!FailRow, GivesUp
  <2>3. CASE Queue!Owns(w, job) /\ row[job].attempts >= MaxAttempts
    <3>1. row' = [row EXCEPT ![job] = QP!Unclaimed("dead", row[job].attempts, 0, TRUE)]
      BY <1>1, <1>2, <2>1, <2>3 DEF Queue!FailRow
    <3>2. "dead" \notin QP!Waiting
      BY DEF QP!Waiting
    <3> QED
      BY <1>1, <2>3, <3>1, <3>2 DEF GivesUp
  <2>4. CASE Queue!Owns(w, job) /\ ~(row[job].attempts >= MaxAttempts)
    <3>1. row' = [row EXCEPT ![job] = QP!Unclaimed("failed", row[job].attempts, 0, TRUE)]
      BY <1>1, <1>2, <2>1, <2>4 DEF Queue!FailRow
    <3>2. row[job].attempts < MaxAttempts
      BY <1>1, <2>4
    <3> QED
      BY <1>1, <2>4, <3>1, <3>2 DEF GivesUp
  <2> QED
    BY <2>2, <2>3, <2>4
<1> QED
  BY <1>3, <1>4

LEMMA CompleteGivesUp ==
  ASSUME FInv, NEW w \in Workers, worker[w].pc # "idle", Queue!CompleteRow(w)
  PROVE  GivesUp(w, {"succeeded"})
<1>1. /\ worker[w].job = job /\ (QP!Holds(w) <=> Queue!Owns(w, job))
      /\ row[job].attempts \in Nat /\ row[job].wait \in Nat /\ row[job].errored \in BOOLEAN
      /\ "succeeded" \notin QP!Waiting
  BY Holder DEF FInv, QP!Tidy, QP!Row, QP!Waiting
<1>2. CASE Queue!Owns(w, job)
  <2>1. row' = [row EXCEPT ![job] = QP!Unclaimed("succeeded", row[job].attempts, row[job].wait,
                                                 row[job].errored)]
    BY <1>1, <1>2 DEF Queue!CompleteRow, Queue!Released, Queue!Unclaimed, QP!Unclaimed
  <2> QED
    BY <1>1, <1>2, <2>1 DEF GivesUp
<1>3. CASE ~Queue!Owns(w, job)
  BY <1>1, <1>3 DEF Queue!CompleteRow, GivesUp
<1> QED
  BY <1>2, <1>3

LEMMA GivenUpTidy ==
  ASSUME FInv, NEW w \in Workers, worker[w].pc # "idle", UNCHANGED claims,
         NEW statuses \in SUBSET {"pending", "failed", "dead", "succeeded"}, GivesUp(w, statuses),
         Queue!Return(w) \/ \E pc \in {"failing", "completing"} : Queue!Goto(w, pc)
  PROVE  QP!TidyStep
<1>1. QP!Tidy /\ worker[w].job = job
  BY Holder DEF FInv
<1>2. \/ QP!Return(w)
      \/ \E pc \in QP!Phases \ {"idle"} : QP!Goto(w, pc)
  BY SameQueue DEF QP!Phases
<1>3. CASE UNCHANGED row
  BY <1>1, <1>2, <1>3, QP!OneWorkerQuiet, QueueAssumptions
<1>4. ASSUME NEW st \in statuses, NEW n \in Nat, NEW d \in Nat, NEW e \in BOOLEAN,
             st \in QP!Waiting => n < MaxAttempts,
             row' = [row EXCEPT ![job] = QP!Unclaimed(st, n, d, e)]
      PROVE  QP!TidyStep
  <2> DEFINE r == QP!Unclaimed(st, n, d, e)
  <2>1. st \in QP!Status \ {"running", "absent"}
    BY DEF QP!Status, QP!Waiting, QP!Terminal
  <2>2. r \in QP!Row /\ QP!QuietRow(row[job], r)
    BY <1>4, <2>1, QP!UnclaimedQuiet, QueueAssumptions
  <2>3. row' = [row EXCEPT ![job] = r]
    BY <1>4
  <2> HIDE DEF r
  <2> QED
    BY <1>1, <1>2, <2>2, <2>3, QP!OneWorkerQuiet, QueueAssumptions
<1> QED
  BY <1>3, <1>4 DEF GivesUp

-----------------------------------------------------------------------------
(* Steps, states and memories *)

LEMMA StepNames ==
  /\ \A t \in 1..Turns : /\ Generation(t) \in Generations /\ Generation(t) \in Sendable
                         /\ ToolStep(t) \in ToolSteps /\ ToolStep(t) \in Sendable
  /\ Sendable \subseteq Steps /\ Generations \subseteq Steps /\ ToolSteps \subseteq Sendable
  /\ Prepare \in Steps \ Sendable /\ Publication \in Steps \ Sendable
  /\ \A t, u : Generation(t) # ToolStep(u) /\ Generation(t) # Publication
  /\ \A t, u : Generation(t) = Generation(u) => t = u
  /\ \A t, u : ToolStep(t) = ToolStep(u) => t = u
  /\ Generations \cap ToolSteps = {}
BY DEF Generation, ToolStep, Generations, ToolSteps, Sendable, Steps, Prepare, Publication

LEMMA StateFacts ==
  /\ {Unknown, Prepared, Uncertain} \subseteq StepState
  /\ \A r \in Results \cup {"done"} : Completed(r) \in StepState
  /\ \A r : Completed(r).phase = "Completed" /\ Completed(r).result = r
  /\ \A s \in {Unknown, Prepared, Uncertain} : s.phase # "Completed" /\ s.result = "none"
  /\ Unknown # Prepared /\ Unknown # Uncertain /\ Prepared # Uncertain
  /\ \A s \in StepState :
       \/ s \in {Unknown, Prepared, Uncertain}
       \/ s.phase = "Completed" /\ s.result \in Results \cup {"done"}
  /\ \A s \in StepState : s.phase = "Completed" => s \notin {Unknown, Prepared, Uncertain}
<1>1. /\ Unknown.phase = "unknown" /\ Prepared.phase = "Prepared" /\ Uncertain.phase = "Uncertain"
      /\ Unknown.result = "none" /\ Prepared.result = "none" /\ Uncertain.result = "none"
  BY DEF Unknown, Prepared, Uncertain
<1>2. \A r : Completed(r).phase = "Completed" /\ Completed(r).result = r
  BY DEF Completed
<1>3. \A s : s \in StepState <=> \/ s \in {Unknown, Prepared, Uncertain}
                               \/ \E r \in Results \cup {"done"} : s = Completed(r)
  BY DEF StepState
<1> QED
  BY <1>1, <1>2, <1>3

LEMMA JournalFacts ==
  /\ Cleared \in Journal /\ \A p \in Steps : Cleared[p] = Unknown
  /\ \A g \in Journal : \A p \in Steps : g[p] \in StepState
  /\ \A g \in Journal : \A p \in Generations : g[p].result # "done"
  /\ \A g \in Journal, p \in Steps, s \in StepState :
       (p \in Generations => s.result # "done") =>
         /\ [g EXCEPT ![p] = s] \in Journal
         /\ [g EXCEPT ![p] = s][p] = s
         /\ \A q \in Steps : q # p => [g EXCEPT ![p] = s][q] = g[q]
<1>1. Cleared \in Journal /\ \A p \in Steps : Cleared[p] = Unknown
  BY StateFacts, StepNames DEF Journal, Cleared
<1>2. \A g \in Journal : /\ \A p \in Steps : g[p] \in StepState
                         /\ \A p \in Generations : g[p].result # "done"
  BY DEF Journal
<1>3. ASSUME NEW g \in Journal, NEW p \in Steps, NEW s \in StepState,
             p \in Generations => s.result # "done"
      PROVE  /\ [g EXCEPT ![p] = s] \in Journal
             /\ [g EXCEPT ![p] = s][p] = s
             /\ \A q \in Steps : q # p => [g EXCEPT ![p] = s][q] = g[q]
  BY <1>3, StepNames DEF Journal
<1> QED
  BY <1>1, <1>2, <1>3

LEMMA PointFacts ==
  /\ InTurn \subseteq Working /\ Working \subseteq Points
  /\ {"entry", "prepare", "closing", "publish", "publishing", "cancel"} \subseteq Working \ InTurn
  /\ {"none", "load", "clear", "mark"} \cap Working = {}
BY DEF InTurn, Working, Points

\* The memory of a worker that executes nothing.
LEMMA NotExecutingOK ==
  MemoryOK(NotExecuting) /\ NotExecuting.at = "none" /\ \A p : ~InFlight(NotExecuting, p)
<1>1. /\ NotExecuting.at = "none" /\ NotExecuting.turn = 0 /\ NotExecuting.journal = Cleared
      /\ NotExecuting \in Executor
  <2>1. Cleared \in [Steps -> StepState] /\ 0 \in 0..Turns
    BY JournalFacts, ChatAssumption DEF Journal
  <2> QED
    BY <2>1 DEF NotExecuting, Executor, Points
<1>2. "none" \notin Working \cup InTurn
  BY PointFacts
<1> QED
  BY <1>1, <1>2, JournalFacts DEF MemoryOK, InFlight

-----------------------------------------------------------------------------
(* What a statement of the handler does to the run: nine things *)

Moves(w, m) ==
  /\ worker[w].pc = "executing"
  /\ exec' = [exec EXCEPT ![w] = m] /\ MemoryOK(m)
  /\ UNCHANGED <<row, claims, spent, clients, proofs>>

SameRun == UNCHANGED <<run, journal, sent, written>>

Loads(w, m) ==
  /\ exec[w].at = "load" /\ m.at = IF Active THEN "mark" ELSE "clear"
  /\ m.seen = run.status /\ m.journal = journal
  /\ UNCHANGED worker /\ SameRun

Marks(w, m) ==
  /\ exec[w].at = "mark" /\ m.at = "entry" /\ m.journal = exec[w].journal
  /\ run' = IF exec[w].seen = "queued" THEN [run EXCEPT !.status = "running"] ELSE run
  /\ UNCHANGED <<worker, journal, sent, written>>

\* From one statement to the next, around no request.
GoesOn(w, m) ==
  /\ exec[w].at \in Working /\ m.at \in Working
  /\ \A p : ~InFlight(m, p)
  /\ UNCHANGED worker

Thinks(w, m) ==
  /\ GoesOn(w, m) /\ m.journal = exec[w].journal
  /\ \A p : ~InFlight(exec[w], p)
  /\ SameRun

Dispatches(w, m) ==
  /\ GoesOn(w, m) /\ m.journal = exec[w].journal
  /\ \E p \in Sendable : /\ \A q : InFlight(exec[w], q) <=> q = p
                         /\ sent' = [sent EXCEPT ![p] = @ + 1]
  /\ UNCHANGED <<run, journal, written>>

Tells(w, m) ==
  /\ Queue!ClaimIsCurrent(w) /\ exec[w].at \in Working
  /\ m = exec[w] /\ run' = Appended(run)
  /\ UNCHANGED <<worker, journal, sent, written>>

\* What a checkpoint may make of a step.
Advances(old, new) ==
  \/ old = Unknown /\ new = Prepared
  \/ old = Prepared /\ new = Uncertain
  \/ old.phase # "Completed" /\ new.phase = "Completed"

Saves(w, m) ==
  /\ Queue!ClaimIsCurrent(w)
  /\ exec[w].at \in Working /\ m.at \in Working
  /\ \A q : ~InFlight(exec[w], q)
  /\ m.journal = journal' /\ journal' \in Journal
  /\ \E p \in Steps, s \in StepState :
       /\ journal' = [exec[w].journal EXCEPT ![p] = s]
       /\ Advances(exec[w].journal[p], s)
       /\ \A q : InFlight(m, q) => q = p /\ s = Uncertain
       /\ \/ UNCHANGED written
          \/ p \in ToolSteps /\ s.phase = "Completed" /\ written' = [written EXCEPT ![p] = @ + 1]
  /\ run' = run \/ run' = Appended(run)
  /\ UNCHANGED <<worker, sent>>

Returns(w, m) ==
  /\ Queue!ClaimIsCurrent(w)
  /\ m = NotExecuting /\ Queue!Goto(w, "completing")
  /\ journal' = Cleared
  /\ UNCHANGED <<sent, written>>

Ends(w, m) ==
  /\ exec[w].at \in Working /\ Returns(w, m)
  /\ \E status \in TerminalRun :
       run' = [run EXCEPT !.status = status, !.tail = "done", !.dones = @ + 1]

Skips(w, m) == exec[w].at = "clear" /\ Returns(w, m) /\ UNCHANGED run

Quits(w, m) == m = NotExecuting /\ Queue!Goto(w, "failing") /\ SameRun

HandlerEffect(w, m) ==
  /\ Moves(w, m)
  /\ \/ Loads(w, m) \/ Marks(w, m) \/ Thinks(w, m) \/ Dispatches(w, m) \/ Tells(w, m)
     \/ Saves(w, m) \/ Ends(w, m) \/ Skips(w, m) \/ Quits(w, m)

\* The handler in w takes the statement at a point, with what it holds.
LEMMA Memories ==
  ASSUME FInv, NEW w \in Workers, worker[w].pc = "executing"
  PROVE  /\ exec[w] \in Executor /\ MemoryOK(exec[w]) /\ DOMAIN exec = Workers
         /\ exec[w].at # "none"
         /\ exec[w].turn \in 0..Turns /\ exec[w].journal \in Journal
         /\ \A m : exec' = [exec EXCEPT ![w] = m] => exec'[w] = m
BY DEF FInv, TypesOK, MemoryOK, InStep, Executor

LEMMA RaiseQuits ==
  ASSUME FInv, NEW w \in Workers, worker[w].pc = "executing", Raise(w)
  PROVE  HandlerEffect(w, NotExecuting)
BY NotExecutingOK DEF Raise, Leave, HandlerEffect, Moves, Quits, SameRun, history

LEMMA FinalizeEnds ==
  ASSUME FInv, NEW w \in Workers, worker[w].pc = "executing", exec[w].at \in Working,
         NEW status \in TerminalRun, Fenced(w, FinalizeAndClear(w, status))
  PROVE  HandlerEffect(w, NotExecuting)
<1>1. exec[w].seen \notin TerminalRun
  BY Memories DEF MemoryOK, TerminalRun
<1>2. run' = [run EXCEPT !.status = status, !.tail = "done", !.dones = @ + 1]
  BY <1>1 DEF Fenced, FinalizeAndClear, Finalized
<1>3. /\ exec' = [exec EXCEPT ![w] = NotExecuting] /\ Queue!Goto(w, "completing")
      /\ journal' = Cleared /\ Queue!ClaimIsCurrent(w)
      /\ UNCHANGED <<row, claims, spent, clients, history>>
  BY DEF Fenced, FinalizeAndClear, Leave
<1> QED
  BY <1>2, <1>3, NotExecutingOK DEF HandlerEffect, Moves, Ends, Returns, history

\* Statements at which no step of the turn is under way.
Plain == {"entry", "prepare", "turn", "generate", "fold", "tool", "used", "closing",
          "publish", "publishing", "cancel"}

LEMMA PlainOK ==
  ASSUME NEW m \in Executor, m.journal \in Journal, m.seen = "running", m.at \in Plain,
         m.at \in InTurn => m.turn \in 1..Turns
  PROVE  MemoryOK(m) /\ m.at \in Working /\ \A p : ~InFlight(m, p)
BY DEF Plain, MemoryOK, InFlight, Working, Points

\* A checkpoint, by what comes after it.
LEMMA CheckpointSaves ==
  ASSUME FInv, NEW w \in Workers, worker[w].pc = "executing", exec[w].at \in Working,
         \A q : ~InFlight(exec[w], q),
         NEW p \in Steps, NEW s \in StepState, p \in Generations => s.result # "done",
         Advances(exec[w].journal[p], s),
         NEW point, point \in InTurn => exec[w].turn \in 1..Turns,
         \/ point = "call" /\ p = GenerationOf(w) /\ s = Prepared
         \/ point = "send" /\ p = GenerationOf(w) /\ s = Uncertain
         \/ point = "use" /\ p = ToolOf(w) /\ s = Prepared
         \/ point = "effect" /\ p = ToolOf(w) /\ s = Uncertain
         \/ point \in Plain,
         Queue!ClaimIsCurrent(w), Checkpoint(w, p, s, point),
         run' = run \/ run' = Appended(run),
         \/ UNCHANGED written
         \/ p \in ToolSteps /\ s.phase = "Completed" /\ written' = [written EXCEPT ![p] = @ + 1],
         UNCHANGED <<row, worker, claims, spent, clients, sent, proofs>>
  PROVE  \E m : HandlerEffect(w, m)
<1> DEFINE e == exec[w]
           g == [e.journal EXCEPT ![p] = s]
           m == [e EXCEPT !.journal = g, !.at = point]
<1>1. e \in Executor /\ MemoryOK(e) /\ e.journal \in Journal /\ e.turn \in 0..Turns
  BY Memories
<1>2. g \in Journal /\ g[p] = s
  <2>1. \A h \in Journal : [h EXCEPT ![p] = s] \in Journal /\ [h EXCEPT ![p] = s][p] = s
    BY JournalFacts
  <2> QED
    BY <1>1, <2>1
<1>3. e.seen = "running"
  BY <1>1 DEF MemoryOK
<1>4. journal' = g /\ exec' = [exec EXCEPT ![w] = m]
  BY DEF Checkpoint
<1>5. point \in Working \cap Points
  BY DEF Plain, Working, Points
<1>6. m \in Executor /\ m.at = point /\ m.journal = g /\ m.seen = e.seen /\ m.turn = e.turn
      /\ m.result = e.result
  <2>1. g \in [Steps -> StepState]
    BY <1>2 DEF Journal
  <2> HIDE DEF g
  <2> QED
    BY <1>1, <1>5, <2>1 DEF Executor
<1>7. MemoryOK(m) /\ \A q : InFlight(m, q) => q = p /\ s = Uncertain
  <2> HIDE DEF m, g, e
  <2>1. CASE point \in Plain
    <3>1. m.at \in InTurn => m.turn \in 1..Turns
      BY <1>6, <2>1 DEF e
    <3> QED
      BY <1>2, <1>3, <1>6, <2>1, <3>1, PlainOK
  <2>2. CASE point \notin Plain
    <3>1. m.turn \in 1..Turns
      BY <1>6, <2>2 DEF InTurn, e
    <3>2. GenerationOf(w) = Generation(m.turn) /\ ToolOf(w) = ToolStep(m.turn)
      BY <1>6 DEF GenerationOf, ToolOf, e
    <3> QED
      BY <1>2, <1>3, <1>6, <2>2, <3>1, <3>2 DEF MemoryOK, InFlight
  <2> QED
    BY <2>1, <2>2
<1>8. Moves(w, m)
  <2> HIDE DEF m
  <2> QED
    BY <1>4, <1>7 DEF Moves
<1>9. Saves(w, m)
  <2>1. m.journal = journal' /\ journal' \in Journal
    BY <1>2, <1>4, <1>6
  <2>2. journal' = [exec[w].journal EXCEPT ![p] = s]
    BY <1>4
  <2> HIDE DEF m, g, e
  <2> QED
    BY <1>5, <1>6, <1>7, <2>1, <2>2 DEF Saves
<1> QED
  BY <1>8, <1>9 DEF HandlerEffect

\* The memory goes on to a plain statement, and nothing else changes.
LEMMA PlainThinks ==
  ASSUME FInv, NEW w \in Workers, worker[w].pc = "executing", exec[w].at \in Working,
         \A q : ~InFlight(exec[w], q),
         NEW m \in Executor, exec' = [exec EXCEPT ![w] = m],
         m.journal = exec[w].journal, m.seen = exec[w].seen, m.at \in Plain,
         m.at \in InTurn => m.turn \in 1..Turns,
         UNCHANGED <<row, worker, claims, spent, run, journal, clients, history>>
  PROVE  HandlerEffect(w, m)
<1>1. exec[w].journal \in Journal /\ exec[w].seen = "running"
  BY Memories DEF MemoryOK
<1>2. MemoryOK(m) /\ m.at \in Working /\ \A p : ~InFlight(m, p)
  BY <1>1, PlainOK
<1> QED
  BY <1>2 DEF HandlerEffect, Moves, Thinks, GoesOn, SameRun, history

LEMMA LoadEffect ==
  ASSUME FInv, NEW w \in Workers, Load(w)
  PROVE  \E m : HandlerEffect(w, m)
<1> DEFINE m == [exec[w] EXCEPT !.at = IF Active THEN "mark" ELSE "clear",
                               !.seen = run.status, !.journal = journal]
<1>1. exec[w] \in Executor /\ worker[w].pc = "executing" /\ exec[w].at = "load"
  BY Memories DEF Load, At
<1>2. run.status \in ActiveRun \cup TerminalRun
  BY <1>1, HasRun
<1>3. journal \in Journal
  BY DEF FInv, TypesOK
<1>4. m \in Executor /\ m.at = (IF Active THEN "mark" ELSE "clear") /\ m.seen = run.status
      /\ m.journal = journal
  BY <1>1, <1>2, <1>3 DEF Executor, Points, Journal
<1>5. exec' = [exec EXCEPT ![w] = m]
      /\ UNCHANGED <<row, worker, claims, spent, run, journal, clients, history>>
  BY DEF Load, Quiet, queue
<1> HIDE DEF m
<1>6. MemoryOK(m)
  BY <1>3, <1>4 DEF MemoryOK, Working, InTurn, Active
<1> QED
  BY <1>1, <1>4, <1>5, <1>6 DEF HandlerEffect, Moves, Loads, SameRun, history

LEMMA ClearEffect ==
  ASSUME FInv, NEW w \in Workers, Clear(w)
  PROVE  \E m : HandlerEffect(w, m)
<1>1. worker[w].pc = "executing" /\ exec[w].at = "clear"
  BY DEF Clear, At
<1>2. CASE LoseLease(w)
  BY <1>1, <1>2, RaiseQuits DEF LoseLease
<1>3. CASE ~LoseLease(w)
  <2>1. /\ Queue!ClaimIsCurrent(w) /\ journal' = Cleared /\ Queue!Goto(w, "completing")
        /\ exec' = [exec EXCEPT ![w] = NotExecuting]
        /\ UNCHANGED <<row, claims, spent, run, clients, history>>
    BY <1>3 DEF Clear, Fenced, Leave
  <2>2. HandlerEffect(w, NotExecuting)
    BY <1>1, <2>1, NotExecutingOK DEF HandlerEffect, Moves, Skips, Returns, history
  <2> QED
    BY <2>2
<1> QED
  BY <1>2, <1>3

LEMMA MarkRunningEffect ==
  ASSUME FInv, NEW w \in Workers, MarkRunning(w)
  PROVE  \E m : HandlerEffect(w, m)
<1> DEFINE m == [exec[w] EXCEPT !.at = "entry", !.seen = "running"]
<1>1. /\ exec[w] \in Executor /\ worker[w].pc = "executing" /\ exec[w].at = "mark"
      /\ exec[w].journal \in Journal
  BY Memories DEF MarkRunning, At
<1>2. m \in Executor /\ m.at = "entry" /\ m.seen = "running" /\ m.journal = exec[w].journal
  BY <1>1 DEF Executor, Points, ActiveRun
<1>3. exec' = [exec EXCEPT ![w] = m]
      /\ UNCHANGED <<row, worker, claims, spent, journal, clients, history>>
      /\ run' = IF exec[w].seen = "queued" THEN [run EXCEPT !.status = "running"] ELSE run
  BY DEF MarkRunning, queue
<1> HIDE DEF m
<1>4. MemoryOK(m)
  BY <1>1, <1>2, PlainOK DEF Plain, InTurn
<1> QED
  BY <1>1, <1>2, <1>3, <1>4 DEF HandlerEffect, Moves, Marks, history

LEMMA AskCancelEffect ==
  ASSUME FInv, NEW w \in Workers, NEW point \in {"entry", "turn", "used", "closing"},
         NEW goOn \in {"prepare", "turn", "generate", "closing", "publish"},
         NEW turn \in 0..Turns, goOn \in InTurn => turn \in 1..Turns,
         AskCancel(w, point, goOn, turn)
  PROVE  \E m : HandlerEffect(w, m)
<1> DEFINE m == [exec[w] EXCEPT !.at = IF run.cancel THEN "cancel" ELSE goOn,
                               !.turn = IF run.cancel THEN exec[w].turn ELSE turn,
                               !.result = "none", !.call = 0]
<1>1. /\ exec[w] \in Executor /\ worker[w].pc = "executing" /\ exec[w].at = point
      /\ 0 \in 0..Turns
  BY Memories, ChatAssumption DEF AskCancel, At
<1>2. point \in Working /\ \A p : ~InFlight(exec[w], p)
  BY <1>1 DEF Working, Points, InFlight
<1>3. /\ m \in Executor /\ m.at = (IF run.cancel THEN "cancel" ELSE goOn)
      /\ m.turn = (IF run.cancel THEN exec[w].turn ELSE turn)
      /\ m.seen = exec[w].seen /\ m.journal = exec[w].journal
  BY <1>1 DEF Executor, Points
<1>4. UNCHANGED <<row, worker, claims, spent, run, journal, clients, history>>
  BY DEF AskCancel, Quiet, queue
<1>6. exec' = [exec EXCEPT ![w] = m]
  BY DEF AskCancel
<1> HIDE DEF m
<1>5. m.at \in Plain /\ (m.at \in InTurn => m.turn \in 1..Turns)
  BY <1>3 DEF Plain, InTurn
<1> QED
  BY <1>1, <1>2, <1>3, <1>4, <1>5, <1>6, PlainThinks

LEMMA CancelCheckEffect ==
  ASSUME FInv, NEW w \in Workers, CancelCheck(w)
  PROVE  \E m : HandlerEffect(w, m)
<1>1. worker[w].pc = "executing" /\ Turns \in Nat \ {0}
  BY ChatAssumption DEF CancelCheck, AskCancel, At
<1> DEFINE turn == exec[w].turn
<1>2. turn \in 0..Turns /\ (exec[w].at \in InTurn => turn \in 1..Turns)
  BY <1>1, Memories DEF MemoryOK
<1>3. /\ 0 \in 0..Turns
      /\ exec[w].at = "used" /\ turn < Turns => turn + 1 \in 1..Turns /\ turn + 1 \in 0..Turns
  BY <1>1, <1>2
<1>4. CASE AskCancel(w, "entry", "prepare", 0)
  BY <1>3, <1>4, AskCancelEffect DEF InTurn
<1>5. CASE AskCancel(w, "turn", "generate", turn)
  <2>1. turn \in 1..Turns
    BY <1>2, <1>5 DEF AskCancel, At, InTurn
  <2> QED
    BY <1>2, <1>5, <2>1, AskCancelEffect
<1>6. CASE AskCancel(w, "used", "turn", turn + 1) /\ turn < Turns
  <2>1. turn + 1 \in 1..Turns /\ turn + 1 \in 0..Turns
    BY <1>3, <1>6 DEF AskCancel, At
  <2> QED
    BY <1>6, <2>1, AskCancelEffect
<1>7. CASE AskCancel(w, "used", "closing", turn) \/ AskCancel(w, "closing", "publish", turn)
  BY <1>2, <1>7, AskCancelEffect DEF InTurn
<1> QED
  BY <1>4, <1>5, <1>6, <1>7 DEF CancelCheck

LEMMA FinalizeEffect ==
  ASSUME FInv, NEW w \in Workers, exec[w].at \in Working, worker[w].pc = "executing",
         NEW status \in TerminalRun,
         Fenced(w, FinalizeAndClear(w, status)) \/ LoseLease(w)
  PROVE  \E m : HandlerEffect(w, m)
BY FinalizeEnds, RaiseQuits DEF LoseLease

LEMMA PrepareRunEffect ==
  ASSUME FInv, NEW w \in Workers, PrepareRun(w)
  PROVE  \E m : HandlerEffect(w, m)
<1>1. /\ worker[w].pc = "executing" /\ exec[w].at = "prepare" /\ exec[w] \in Executor
      /\ exec[w].journal \in Journal /\ 1 \in 0..Turns /\ 1 \in 1..Turns
      /\ exec[w].at \in Working /\ \A q : ~InFlight(exec[w], q)
  BY Memories, ChatAssumption DEF PrepareRun, At, Working, Points, InFlight
<1>2. CASE exec[w].journal[Prepare].phase = "Completed"
  <2> DEFINE m == [exec[w] EXCEPT !.at = "turn", !.turn = 1]
  <2>1. m \in Executor /\ m.at = "turn" /\ m.turn = 1 /\ m.journal = exec[w].journal
        /\ m.seen = exec[w].seen
    BY <1>1 DEF Executor, Points
  <2>2. exec' = [exec EXCEPT ![w] = m]
        /\ UNCHANGED <<row, worker, claims, spent, run, journal, clients, history>>
    BY <1>2 DEF PrepareRun, Quiet, queue
  <2> HIDE DEF m
  <2>3. m.at \in Plain
    BY <2>1 DEF Plain
  <2> QED
    BY <1>1, <2>1, <2>2, <2>3, PlainThinks
<1>3. CASE LoseLease(w)
  BY <1>1, <1>3, RaiseQuits DEF LoseLease
<1>4. CASE ~LoseLease(w) /\ exec[w].journal[Prepare].phase # "Completed"
  <2> DEFINE s == Completed("done")
             g == [exec[w].journal EXCEPT ![Prepare] = s]
             m == [exec[w] EXCEPT !.at = "turn", !.turn = 1, !.journal = g]
  <2>1. s \in StepState /\ s.phase = "Completed" /\ s # Uncertain
    BY StateFacts
  <2>2. Prepare \in Steps \ Sendable /\ Prepare \notin Generations
    BY StepNames DEF Sendable
  <2>3. g \in Journal
    <3> HIDE DEF s
    <3> QED
      BY <1>1, <2>1, <2>2, JournalFacts
  <2>4. /\ m \in Executor /\ m.at = "turn" /\ m.turn = 1 /\ m.journal = g
        /\ m.seen = exec[w].seen
    <3>1. g \in [Steps -> StepState]
      BY <2>3 DEF Journal
    <3> HIDE DEF g
    <3> QED
      BY <1>1, <3>1 DEF Executor, Points
  <2>5. journal' = g /\ exec' = [exec EXCEPT ![w] = m] /\ Queue!ClaimIsCurrent(w)
    BY <1>4 DEF PrepareRun, Fenced
  <2>6. UNCHANGED <<row, worker, claims, spent, run, clients, history>>
    BY <1>4 DEF PrepareRun, Fenced, Quiet, queue
  <2>7. Advances(exec[w].journal[Prepare], s)
    BY <1>4, <2>1 DEF Advances
  <2>8. exec[w].seen = "running"
    BY <1>1, Memories DEF MemoryOK
  <2>9. journal' = [exec[w].journal EXCEPT ![Prepare] = s]
    BY <2>5
  <2> HIDE DEF m, g, s
  <2>10. MemoryOK(m) /\ m.at \in Working /\ \A p : ~InFlight(m, p)
    BY <1>1, <2>3, <2>4, <2>8, PlainOK DEF Plain
  <2>11. Saves(w, m)
    BY <1>1, <2>1, <2>2, <2>3, <2>4, <2>5, <2>6, <2>7, <2>9, <2>10 DEF Saves, history
  <2>12. Moves(w, m)
    BY <1>1, <2>5, <2>6, <2>10 DEF Moves, history
  <2> QED
    BY <2>11, <2>12 DEF HandlerEffect
<1> QED
  BY <1>2, <1>3, <1>4

\* The three steps that ReadStep reads.
Reads(w, point, p, ready, replay) ==
  \/ point = "generate" /\ p = GenerationOf(w) /\ ready = "call" /\ replay = "fold"
  \/ point = "tool" /\ p = ToolOf(w) /\ ready = "use" /\ replay = "used"
  \/ point = "publish" /\ p = Publication /\ ready = "publishing" /\ replay = "publishing"

LEMMA ReadStepEffect ==
  ASSUME FInv, NEW w \in Workers, NEW point, NEW p, NEW ready, NEW replay,
         Reads(w, point, p, ready, replay), ReadStep(w, point, p, ready, replay)
  PROVE  \E m : HandlerEffect(w, m)
<1> DEFINE e == exec[w]
           s == e.journal[p]
<1>1. worker[w].pc = "executing" /\ e.at = point
  BY DEF ReadStep, At
<1>2. /\ e \in Executor /\ MemoryOK(e) /\ e.journal \in Journal
      /\ point \in InTurn => e.turn \in 1..Turns
  BY <1>1, Memories DEF MemoryOK
<1>3. /\ point \in Working /\ (point # "publish" => point \in InTurn)
      /\ \A q : ~InFlight(e, q)
      /\ ready \in InTurn \/ ready \in Plain
      /\ ready \in InTurn \/ replay \in InTurn => point \in InTurn
      /\ replay \in Plain
  BY <1>1 DEF Reads, Working, Points, InTurn, InFlight, Plain
<1>4. /\ p \in Steps
      /\ p = Generation(e.turn) => p \in Generations
  <2>1. CASE point = "publish"
    BY <2>1, StepNames DEF Reads
  <2>2. CASE point # "publish"
    <3>1. e.turn \in 1..Turns /\ (p = Generation(e.turn) \/ p = ToolStep(e.turn))
      BY <1>2, <1>3, <2>2 DEF Reads, GenerationOf, ToolOf
    <3>2. \A t \in 1..Turns : Generation(t) \in Generations /\ Generation(t) \in Steps
                            /\ ToolStep(t) \in Steps
      BY StepNames
    <3> QED
      BY <3>1, <3>2
  <2> QED
    BY <2>1, <2>2
<1>5. s \in StepState /\ (p \in Generations => s.result # "done")
  BY <1>2, <1>4, JournalFacts
<1>6. e.seen = "running"
  BY <1>1, <1>2, <1>3 DEF MemoryOK
<1>7. CASE Raise(w)
  BY <1>1, <1>7, RaiseQuits
<1>8. CASE s \in {Unknown} /\ Fenced(w, Checkpoint(w, p, Prepared, ready) /\ Quiet)
  <2>1. Queue!ClaimIsCurrent(w) /\ Checkpoint(w, p, Prepared, ready)
        /\ UNCHANGED <<row, worker, claims, spent, run, clients, history>>
    BY <1>8 DEF Fenced, Quiet, queue
  <2>2. Prepared \in StepState /\ Prepared.result # "done" /\ Advances(s, Prepared)
    BY <1>8, StateFacts DEF Advances
  <2>3. \/ ready = "call" /\ p = GenerationOf(w)
        \/ ready = "use" /\ p = ToolOf(w)
        \/ ready \in Plain
    BY DEF Reads, Plain
  <2> HIDE DEF s
  <2> QED
    BY <1>1, <1>2, <1>3, <1>4, <2>1, <2>2, <2>3, CheckpointSaves DEF history, s
<1>9. CASE /\ ~Interrupted(s) /\ s # Unknown
           /\ exec' = [exec EXCEPT ![w] = [@ EXCEPT
                !.at = IF s.phase = "Completed" THEN replay ELSE ready,
                !.result = IF p = Generation(exec[w].turn) THEN s.result ELSE exec[w].result]]
           /\ UNCHANGED journal /\ Quiet
  <2> DEFINE m == [e EXCEPT !.at = IF s.phase = "Completed" THEN replay ELSE ready,
                            !.result = IF p = Generation(e.turn) THEN s.result ELSE e.result]
  <2>1. exec' = [exec EXCEPT ![w] = m]
    BY <1>9
  <2>2. UNCHANGED <<row, worker, claims, spent, run, journal, clients, history>>
    BY <1>9 DEF Quiet, queue
  <2>3. s.phase # "Completed" => s = Prepared
    BY <1>5, <1>9, StateFacts DEF Interrupted
  <2>4. (p = Generation(e.turn)) => s.result \in Results \cup {"none"}
    BY <1>4, <1>5, StateFacts
  <2>5. /\ m \in Executor /\ m.at = (IF s.phase = "Completed" THEN replay ELSE ready)
        /\ m.turn = e.turn /\ m.seen = e.seen /\ m.journal = e.journal
    <3>1. ready \in Points /\ replay \in Points
      BY DEF Reads, Points
    <3> HIDE DEF s, e
    <3> QED
      BY <1>2, <2>4, <3>1 DEF Executor
  <2> HIDE DEF m
  <2>6. CASE m.at \in Plain
    <3>1. m.at \in InTurn => m.turn \in 1..Turns
      BY <1>2, <1>3, <2>5
    <3> QED
      BY <1>1, <1>3, <2>1, <2>2, <2>5, <2>6, <3>1, PlainThinks
  <2>7. CASE m.at \notin Plain
    <3>1. m.at = ready /\ s = Prepared /\ point \in InTurn
      BY <1>3, <2>3, <2>5, <2>7
    <3>2. \/ ready = "call" /\ p = Generation(m.turn)
          \/ ready = "use" /\ p = ToolStep(m.turn)
      BY <2>5, <2>7, <3>1 DEF Reads, Plain, GenerationOf, ToolOf
    <3>3. m.journal[p] = Prepared /\ m.turn \in 1..Turns
      BY <1>2, <2>5, <3>1
    <3>4. MemoryOK(m) /\ m.at \in Working /\ \A q : ~InFlight(m, q)
      BY <1>2, <1>6, <2>5, <3>1, <3>2, <3>3 DEF MemoryOK, InFlight, Working, Points
    <3>5. Thinks(w, m) /\ Moves(w, m)
      BY <1>1, <1>3, <2>1, <2>2, <2>5, <3>4 DEF Thinks, GoesOn, Moves, SameRun, history
    <3> QED
      BY <3>5 DEF HandlerEffect
  <2> QED
    BY <2>6, <2>7
<1> QED
  BY <1>7, <1>8, <1>9 DEF ReadStep, LoseLease

\* A statement inside a turn that leaves the run alone: the memory moves on.
LEMMA TurnThinks ==
  ASSUME FInv, NEW w \in Workers, worker[w].pc = "executing", exec[w].at \in InTurn,
         \A q : ~InFlight(exec[w], q),
         NEW m \in Executor, exec' = [exec EXCEPT ![w] = m],
         m.journal = exec[w].journal, m.seen = exec[w].seen, m.turn = exec[w].turn,
         \/ m.at = "reserve" /\ exec[w].at = "call"
         \/ m.at = "record" /\ exec[w].at \in {"reserve", "stream"} /\ m.result \in Results
         \/ m.at \in Plain,
         UNCHANGED <<row, worker, claims, spent, run, journal, clients, history>>
  PROVE  \E n : HandlerEffect(w, n)
<1>1. /\ exec[w].turn \in 1..Turns /\ exec[w].journal \in Journal /\ exec[w].seen = "running"
      /\ exec[w].at \in Working
      /\ exec[w].at \in {"call", "reserve"} =>
           exec[w].journal[Generation(exec[w].turn)] = Prepared
      /\ exec[w].at = "stream" => exec[w].journal[Generation(exec[w].turn)] = Uncertain
  BY Memories, PointFacts DEF MemoryOK
<1>2. CASE m.at \in Plain
  BY <1>1, <1>2, PlainThinks
<1>3. CASE m.at \notin Plain
  <2>1. MemoryOK(m) /\ m.at \in Working /\ \A q : ~InFlight(m, q)
    BY <1>1, <1>3 DEF MemoryOK, InFlight, Working, Points
  <2>2. Thinks(w, m) /\ Moves(w, m)
    BY <1>1, <2>1 DEF Thinks, GoesOn, Moves, SameRun, history
  <2> QED
    BY <2>2 DEF HandlerEffect
<1> QED
  BY <1>2, <1>3

LEMMA StartCallEffect ==
  ASSUME FInv, NEW w \in Workers, StartCall(w)
  PROVE  \E m : HandlerEffect(w, m)
<1>1. /\ worker[w].pc = "executing" /\ exec[w].at = "call" /\ exec[w] \in Executor
      /\ \A q : ~InFlight(exec[w], q)
  BY Memories DEF StartCall, At, InFlight
<1>2. PICK n \in {0, Len(calls) + 1} :
        /\ n = 0 \/ Len(calls) < Turns
        /\ exec' = [exec EXCEPT ![w] = [exec[w] EXCEPT !.at = "reserve", !.call = n]]
  BY DEF StartCall
<1>3. n \in 0..Turns
  <2>1. Len(calls) \in Nat /\ Turns \in Nat
    BY ChatAssumption DEF FInv, TypesOK
  <2> QED
    BY <1>2, <2>1
<1> DEFINE m == [exec[w] EXCEPT !.at = "reserve", !.call = n]
<1>4. /\ m \in Executor /\ m.at = "reserve" /\ m.turn = exec[w].turn
      /\ m.seen = exec[w].seen /\ m.journal = exec[w].journal
  BY <1>1, <1>3 DEF Executor, Points
<1>5. exec' = [exec EXCEPT ![w] = m]
      /\ UNCHANGED <<row, worker, claims, spent, run, journal, clients, history>>
  BY <1>2 DEF StartCall, queue
<1> HIDE DEF m
<1> QED
  BY <1>1, <1>4, <1>5, TurnThinks DEF InTurn

LEMMA RecordResult ==
  ASSUME FInv, NEW w \in Workers, Refuse(w) \/ Answered(w)
  PROVE  \E m : HandlerEffect(w, m)
<1>1. /\ worker[w].pc = "executing" /\ exec[w].at \in {"reserve", "stream"}
      /\ exec[w] \in Executor /\ \A q : ~InFlight(exec[w], q)
  BY Memories DEF Refuse, Answered, At, InFlight
<1>2. PICK result \in Results :
        exec' = [exec EXCEPT ![w] = [exec[w] EXCEPT !.at = "record", !.result = result]]
  BY DEF Refuse, Answered, Results
<1> DEFINE m == [exec[w] EXCEPT !.at = "record", !.result = result]
<1>3. /\ m \in Executor /\ m.at = "record" /\ m.turn = exec[w].turn /\ m.result = result
      /\ m.seen = exec[w].seen /\ m.journal = exec[w].journal
  BY <1>1 DEF Executor, Points
<1>4. exec' = [exec EXCEPT ![w] = m]
      /\ UNCHANGED <<row, worker, claims, spent, run, journal, clients, history>>
  BY <1>2 DEF Refuse, Answered, queue
<1> HIDE DEF m
<1> QED
  BY <1>1, <1>3, <1>4, TurnThinks DEF InTurn

LEMMA MarkUncertainEffect ==
  ASSUME FInv, NEW w \in Workers, NEW point, NEW p, NEW next,
         \/ point = "reserve" /\ p = GenerationOf(w) /\ next = "send"
         \/ point = "use" /\ p = ToolOf(w) /\ next = "effect",
         MarkUncertain(w, point, p, next)
  PROVE  \E m : HandlerEffect(w, m)
<1>1. worker[w].pc = "executing" /\ exec[w].at = point
  BY DEF MarkUncertain, At
<1>2. exec[w].at \in InTurn /\ exec[w].at \in Working /\ \A q : ~InFlight(exec[w], q)
  BY <1>1 DEF InTurn, Working, Points, InFlight
<1>3. exec[w].turn \in 1..Turns
  BY <1>1, <1>2, Memories DEF MemoryOK
<1>4. p \in Steps
  <2>1. \A t \in 1..Turns : Generation(t) \in Steps /\ ToolStep(t) \in Steps
    BY StepNames
  <2> QED
    BY <1>3, <2>1 DEF GenerationOf, ToolOf
<1>5. CASE LoseLease(w)
  BY <1>1, <1>5, RaiseQuits DEF LoseLease
<1>6. CASE ~LoseLease(w)
  <2>1. /\ Queue!ClaimIsCurrent(w) /\ Checkpoint(w, p, Uncertain, next)
        /\ UNCHANGED <<row, worker, claims, spent, run, clients, history>>
    BY <1>6 DEF MarkUncertain, Fenced, Quiet, queue
  <2>2. /\ Uncertain \in StepState /\ Uncertain.result # "done"
        /\ Advances(exec[w].journal[p], Uncertain)
    BY StateFacts DEF MarkUncertain, Advances
  <2> QED
    BY <1>1, <1>2, <1>3, <1>4, <2>1, <2>2, CheckpointSaves DEF history
<1> QED
  BY <1>5, <1>6

LEMMA SendEffect ==
  ASSUME FInv, NEW w \in Workers, NEW point, NEW p, NEW next,
         \/ point = "send" /\ p = GenerationOf(w) /\ next = "stream"
         \/ point = "effect" /\ p = ToolOf(w) /\ next = "store" /\ exec[w].result = "search",
         Send(w, point, p, next)
  PROVE  \E m : HandlerEffect(w, m)
<1> DEFINE m == [exec[w] EXCEPT !.at = next]
<1>1. /\ worker[w].pc = "executing" /\ exec[w].at = point
      /\ exec[w] \in Executor /\ MemoryOK(exec[w])
  BY Memories DEF Send, At
<1>2. exec[w].at \in InTurn /\ exec[w].at \in Working
  BY <1>1 DEF InTurn, Working, Points
<1>3. exec[w].turn \in 1..Turns /\ exec[w].seen = "running" /\ exec[w].journal \in Journal
  BY <1>1, <1>2 DEF MemoryOK
<1>4. p \in Sendable
  <2>1. \A t \in 1..Turns : Generation(t) \in Sendable /\ ToolStep(t) \in Sendable
    BY StepNames
  <2> QED
    BY <1>3, <2>1 DEF GenerationOf, ToolOf
<1>5. \A q : InFlight(exec[w], q) <=> q = p
  BY <1>1 DEF InFlight, GenerationOf, ToolOf
<1>6. /\ m \in Executor /\ m.at = next /\ m.turn = exec[w].turn /\ m.result = exec[w].result
      /\ m.seen = exec[w].seen /\ m.journal = exec[w].journal
  BY <1>1 DEF Executor, Points
<1>7. /\ exec' = [exec EXCEPT ![w] = m] /\ sent' = [sent EXCEPT ![p] = @ + 1]
      /\ UNCHANGED <<row, worker, claims, spent, run, journal, clients, proofs, written>>
  BY DEF Send, Go, queue
<1> HIDE DEF m
<1>8. MemoryOK(m) /\ m.at \in Working /\ \A q : ~InFlight(m, q)
  BY <1>1, <1>3, <1>6 DEF MemoryOK, InFlight, Working, Points
<1>9. Dispatches(w, m) /\ Moves(w, m)
  BY <1>1, <1>2, <1>4, <1>5, <1>6, <1>7, <1>8 DEF Dispatches, GoesOn, Moves
<1> QED
  BY <1>9 DEF HandlerEffect

LEMMA StreamEffect ==
  ASSUME FInv, NEW w \in Workers, Stream(w)
  PROVE  \E m : HandlerEffect(w, m)
<1>1. worker[w].pc = "executing" /\ exec[w].at = "stream" /\ exec[w].at \in Working
  BY DEF Stream, At, Working, Points
<1>2. CASE LoseLease(w)
  BY <1>1, <1>2, RaiseQuits DEF LoseLease
<1>3. CASE ~LoseLease(w)
  <2>1. /\ Queue!ClaimIsCurrent(w) /\ run' = Appended(run)
        /\ UNCHANGED <<row, worker, claims, spent, journal, exec, clients, history>>
    BY <1>3 DEF Stream, Fenced, queue
  <2>2. exec' = [exec EXCEPT ![w] = exec[w]]
    BY <2>1 DEF FInv, TypesOK
  <2>3. HandlerEffect(w, exec[w])
    BY <1>1, <2>1, <2>2, Memories DEF HandlerEffect, Moves, Tells, history
  <2> QED
    BY <2>3
<1> QED
  BY <1>2, <1>3

LEMMA RecordEffect ==
  ASSUME FInv, NEW w \in Workers, Record(w)
  PROVE  \E m : HandlerEffect(w, m)
<1>1. worker[w].pc = "executing" /\ exec[w].at = "record"
  BY DEF Record, At
<1>2. exec[w].at \in InTurn /\ exec[w].at \in Working /\ \A q : ~InFlight(exec[w], q)
  BY <1>1 DEF InTurn, Working, Points, InFlight
<1> DEFINE p == GenerationOf(w)
           s == Completed(exec[w].result)
<1>3. /\ exec[w].turn \in 1..Turns /\ exec[w].result \in Results
      /\ exec[w].journal[p] \in {Prepared, Uncertain}
  BY <1>1, <1>2, Memories DEF MemoryOK, GenerationOf
<1>4. p \in Steps
  BY <1>3, StepNames DEF GenerationOf
<1>5. s \in StepState /\ s.phase = "Completed" /\ s.result # "done"
  <2>1. "done" \notin Results
    BY ChatAssumption DEF Results, AssistantTurn
  <2> QED
    BY <1>3, <2>1, StateFacts
<1>6. Advances(exec[w].journal[p], s)
  BY <1>3, <1>5, StateFacts DEF Advances
<1>7. CASE LoseLease(w)
  BY <1>1, <1>7, RaiseQuits DEF LoseLease
<1>8. CASE ~LoseLease(w)
  <2>1. /\ Queue!ClaimIsCurrent(w) /\ Checkpoint(w, p, s, "fold")
        /\ UNCHANGED <<row, worker, claims, spent, run, clients, history>>
    BY <1>8 DEF Record, Fenced, Quiet, queue
  <2> HIDE DEF p, s
  <2> QED
    BY <1>1, <1>2, <1>3, <1>4, <1>5, <1>6, <2>1, CheckpointSaves DEF history, Plain
<1> QED
  BY <1>7, <1>8

LEMMA FoldEffect ==
  ASSUME FInv, NEW w \in Workers, Fold(w)
  PROVE  \E m : HandlerEffect(w, m)
<1>1. worker[w].pc = "executing" /\ exec[w].at = "fold" /\ exec[w] \in Executor
  BY Memories DEF Fold, At
<1>2. exec[w].at \in InTurn /\ exec[w].at \in Working /\ \A q : ~InFlight(exec[w], q)
  BY <1>1 DEF InTurn, Working, Points, InFlight
<1>3. CASE exec[w].result \in AssistantTurn
  <2>1. PICK point \in {"closing", "tool"} : Go(w, point)
    BY <1>3 DEF Fold
  <2> DEFINE m == [exec[w] EXCEPT !.at = point]
  <2>2. /\ m \in Executor /\ m.at = point /\ m.turn = exec[w].turn
        /\ m.seen = exec[w].seen /\ m.journal = exec[w].journal
    BY <1>1 DEF Executor, Points
  <2>3. exec' = [exec EXCEPT ![w] = m]
        /\ UNCHANGED <<row, worker, claims, spent, run, journal, clients, history>>
    BY <1>3, <2>1 DEF Fold, Go, Quiet, queue
  <2> HIDE DEF m
  <2> QED
    BY <1>1, <1>2, <2>2, <2>3, TurnThinks DEF Plain
<1>4. CASE exec[w].result \notin AssistantTurn
  <2>1. \E status \in TerminalRun : Fenced(w, FinalizeAndClear(w, status)) \/ LoseLease(w)
    BY <1>4 DEF Fold, TerminalRun
  <2> QED
    BY <1>1, <1>2, <2>1, FinalizeEffect
<1> QED
  BY <1>3, <1>4

\* A tool is done: its step is completed in the transaction of its effect.
LEMMA CompleteToolEffect ==
  ASSUME FInv, NEW w \in Workers, worker[w].pc = "executing",
         exec[w].at \in {"use", "effect", "store"}, \A q : ~InFlight(exec[w], q),
         LoseLease(w) \/ (Queue!ClaimIsCurrent(w) /\ CompleteTool(w)),
         \/ UNCHANGED written
         \/ written' = [written EXCEPT ![ToolOf(w)] = @ + 1]
  PROVE  \E m : HandlerEffect(w, m)
<1>1. exec[w].at \in InTurn /\ exec[w].at \in Working
  BY DEF InTurn, Working, Points
<1> DEFINE p == ToolOf(w)
           s == Completed("done")
<1>2. exec[w].turn \in 1..Turns /\ exec[w].journal[p] \in {Prepared, Uncertain}
  BY <1>1, Memories DEF MemoryOK, ToolOf
<1>3. p \in Steps /\ p \in ToolSteps /\ p \notin Generations
  BY <1>2, StepNames DEF ToolOf
<1>4. s \in StepState /\ s.phase = "Completed" /\ Advances(exec[w].journal[p], s)
  BY <1>2, StateFacts DEF Advances
<1>5. CASE LoseLease(w)
  BY <1>5, RaiseQuits DEF LoseLease
<1>6. CASE ~LoseLease(w)
  <2>1. /\ Queue!ClaimIsCurrent(w) /\ Checkpoint(w, p, s, "used")
        /\ run' = Appended(run)
        /\ UNCHANGED <<row, worker, claims, spent, clients, sent, proofs>>
    BY <1>6 DEF CompleteTool, queue
  <2>2. \/ UNCHANGED written
        \/ written' = [written EXCEPT ![p] = @ + 1]
    OBVIOUS
  <2> HIDE DEF p, s
  <2> QED
    BY <1>1, <1>2, <1>3, <1>4, <2>1, <2>2, CheckpointSaves DEF Plain
<1> QED
  BY <1>5, <1>6

LEMMA ToolEffect ==
  ASSUME FInv, NEW w \in Workers, Tool(w)
  PROVE  \E m : HandlerEffect(w, m)
<1>0. LoseLease(w) => UNCHANGED written
  BY DEF LoseLease, Raise, history
<1>1. CASE ReadStep(w, "tool", ToolOf(w), "use", "used")
  BY <1>1, ReadStepEffect DEF Reads
<1>2. CASE MarkUncertain(w, "use", ToolOf(w), "effect")
  BY <1>2, MarkUncertainEffect
<1>3. CASE exec[w].result = "search" /\ Send(w, "effect", ToolOf(w), "store")
  BY <1>3, SendEffect
<1>4. CASE Lookup(w)
  <2>1. /\ worker[w].pc = "executing" /\ exec[w].at = "use" /\ \A q : ~InFlight(exec[w], q)
        /\ LoseLease(w) \/ (Queue!ClaimIsCurrent(w) /\ CompleteTool(w) /\ UNCHANGED written)
    BY <1>4 DEF Lookup, At, Fenced, InFlight
  <2> QED
    BY <1>0, <2>1, CompleteToolEffect
<1>5. CASE StoreSearch(w)
  <2>1. /\ worker[w].pc = "executing" /\ exec[w].at = "store" /\ \A q : ~InFlight(exec[w], q)
        /\ LoseLease(w) \/ (Queue!ClaimIsCurrent(w) /\ CompleteTool(w) /\ UNCHANGED written)
    BY <1>5 DEF StoreSearch, At, Fenced, InFlight
  <2> QED
    BY <1>0, <2>1, CompleteToolEffect
<1>6. CASE Write(w)
  <2>1. /\ worker[w].pc = "executing" /\ exec[w].at = "effect" /\ \A q : ~InFlight(exec[w], q)
        /\ \/ LoseLease(w)
           \/ /\ Queue!ClaimIsCurrent(w) /\ CompleteTool(w)
              /\ written' = [written EXCEPT ![ToolOf(w)] = @ + 1]
    BY <1>6 DEF Write, At, Fenced, InFlight
  <2> QED
    BY <1>0, <2>1, CompleteToolEffect
<1> QED
  BY <1>1, <1>2, <1>3, <1>4, <1>5, <1>6 DEF Tool

LEMMA HandlerStepEffect ==
  ASSUME FInv, NEW w \in Workers, HandlerStep(w) \/ Defect(w)
  PROVE  \E m : HandlerEffect(w, m)
<1>1. CASE FinalizeCancelled(w) \/ ContextTooLarge(w) \/ Publish(w)
  <2>1. /\ worker[w].pc = "executing" /\ exec[w].at \in {"cancel", "prepare", "publishing"}
        /\ \E status \in TerminalRun : Fenced(w, FinalizeAndClear(w, status)) \/ LoseLease(w)
    BY <1>1 DEF FinalizeCancelled, ContextTooLarge, Publish, At, TerminalRun
  <2>2. exec[w].at \in Working
    BY <2>1, PointFacts
  <2> QED
    BY <2>1, <2>2, FinalizeEffect
<1>2. CASE GenerationStep(w)
  <2>1. CASE ReadStep(w, "generate", GenerationOf(w), "call", "fold")
    BY <2>1, ReadStepEffect DEF Reads
  <2>2. CASE MarkUncertain(w, "reserve", GenerationOf(w), "send")
    BY <2>2, MarkUncertainEffect
  <2>3. CASE Send(w, "send", GenerationOf(w), "stream")
    BY <2>3, SendEffect
  <2>4. CASE Ambiguous(w)
    BY <2>4, RaiseQuits DEF Ambiguous, At
  <2> QED
    BY <1>2, <2>1, <2>2, <2>3, <2>4, StartCallEffect, RecordResult, StreamEffect, RecordEffect,
       FoldEffect DEF GenerationStep
<1>3. CASE ReadStep(w, "publish", Publication, "publishing", "publishing")
  BY <1>3, ReadStepEffect DEF Reads
<1>4. CASE Defect(w)
  BY <1>4, RaiseQuits DEF Defect
<1> QED
  BY <1>1, <1>2, <1>3, <1>4, LoadEffect, ClearEffect, MarkRunningEffect, CancelCheckEffect,
     PrepareRunEffect, ToolEffect DEF HandlerStep

-----------------------------------------------------------------------------
(* Steps outside the handler *)

\* A worker whose handler takes no statement: it is where it was, or it enters
\* the handler under its claim, or it has left.
OutsideWorker(v) ==
  /\ \/ /\ exec'[v] = exec[v]
        /\ (worker'[v].pc = "executing") <=> (worker[v].pc = "executing")
     \/ /\ exec'[v] = [NotExecuting EXCEPT !.at = "load"]
        /\ worker'[v].pc = "executing" /\ QP!Holds(v)'
     \/ exec'[v] = NotExecuting /\ worker'[v].pc # "executing"
  /\ worker'[v].pc = "completing" => worker[v].pc = "completing"

Begins ==
  /\ run.status = "absent" /\ run' = Appended([run EXCEPT !.status = "queued"])
  /\ row'[job].status = "pending"
  /\ UNCHANGED <<journal, proofs>>

Asks ==
  /\ run.status # "absent" /\ run' = [run EXCEPT !.cancel = TRUE]
  /\ UNCHANGED <<journal, proofs>>

Reconciles ==
  /\ row[job].status = "dead" /\ UNCHANGED run
  /\ \E p \in Sendable : \E s \in StepState :
       /\ journal[p] = Uncertain /\ journal' = [journal EXCEPT ![p] = s]
       /\ p \in Generations => s.result # "done"
       /\ \/ s = Prepared /\ proofs' = [proofs EXCEPT ![p] = @ + 1]
          \/ s.phase = "Completed" /\ UNCHANGED proofs

Rests == UNCHANGED <<run, journal, proofs>>

OutsideEffect ==
  /\ exec' = [v \in Workers |-> exec'[v]]
  /\ \A v \in Workers : OutsideWorker(v)
  /\ UNCHANGED <<sent, written>>
  /\ Rests \/ Begins \/ Asks \/ Reconciles

\* The queue's own steps: what becomes of the workers.
LEMMA IdleWorkers ==
  ASSUME FInv, UNCHANGED <<exec, worker>>
  PROVE  exec' = [v \in Workers |-> exec'[v]] /\ \A v \in Workers : OutsideWorker(v)
BY DEF FInv, TypesOK, OutsideWorker

\* A worker that is not in the handler moves.
LEMMA OtherWorkers ==
  ASSUME FInv, NEW w \in Workers, worker[w].pc # "executing", UNCHANGED exec,
         \/ worker' = [worker EXCEPT ![w] = worker'[w]]
         \/ UNCHANGED worker,
         worker'[w].pc # "executing", worker'[w].pc # "completing"
  PROVE  exec' = [v \in Workers |-> exec'[v]] /\ \A v \in Workers : OutsideWorker(v)
<1>1. worker \in [Workers -> QP!Worker]
  BY DEF FInv, QP!Tidy
<1> QED
  BY <1>1 DEF FInv, TypesOK, OutsideWorker

LEMMA ClientOutside ==
  ASSUME FInv, Client \/ Operator
  PROVE  OutsideEffect /\ UNCHANGED <<exec, worker>>
<1>1. UNCHANGED <<exec, worker>>
  BY DEF Client, CreateRun, CancelSuspended, BeginCancel, CommitCancel, LoadForProjection, Project,
         Operator, Repair, ProveNotDispatched, AttachResult, Queue!Enqueue, Queue!RequeueDead, queue
<1>2. UNCHANGED <<sent, written>>
  BY DEF Client, CreateRun, CancelSuspended, BeginCancel, CommitCancel, LoadForProjection, Project,
         Operator, Repair, ProveNotDispatched, AttachResult, history
<1>3. CASE CreateRun
  <2>1. PICK d : row' = [row EXCEPT ![job] = Queue!Fresh("pending", d)]
    BY <1>3 DEF CreateRun, Queue!Enqueue
  <2>2. row'[job].status = "pending"
    BY <2>1 DEF Queue!Fresh, Queue!Unclaimed, FInv, QP!Tidy
  <2>3. Begins
    BY <1>3, <2>2 DEF CreateRun, Begins, history
  <2> QED
    BY <1>1, <1>2, <2>3, IdleWorkers DEF OutsideEffect
<1>4. CASE CancelSuspended \/ BeginCancel
  <2>1. Asks \/ Rests
    BY <1>4 DEF CancelSuspended, BeginCancel, Asks, Rests, history, Active, ActiveRun
  <2> QED
    BY <1>1, <1>2, <2>1, IdleWorkers DEF OutsideEffect
<1>5. CASE CommitCancel
  <2>1. UNCHANGED <<journal, proofs>> /\ run' = [run EXCEPT !.cancel = TRUE] /\ canceller
    BY <1>5 DEF CommitCancel, history
  <2>2. run.status # "absent"
    BY <2>1 DEF FInv, PresentOK
  <2> QED
    BY <1>1, <1>2, <2>1, <2>2, IdleWorkers DEF OutsideEffect, Asks
<1>6. CASE LoadForProjection \/ Project \/ Repair
  <2>1. Rests
    BY <1>6 DEF LoadForProjection, Project, Repair, Rests, history
  <2> QED
    BY <1>1, <1>2, <2>1, IdleWorkers DEF OutsideEffect
<1>7. ASSUME NEW p \in Sendable, ProveNotDispatched(p)
      PROVE  OutsideEffect
  <2>1. Prepared \in StepState /\ Prepared.result # "done"
    BY StateFacts
  <2>2. Reconciles
    BY <1>7, <2>1 DEF ProveNotDispatched, Reconciles, Queue!RequeueDead, Queue!Repairable
  <2> QED
    BY <1>1, <1>2, <2>2, IdleWorkers DEF OutsideEffect
<1>8. ASSUME NEW t \in 1..Turns, NEW result \in Results, AttachResult(t, result)
      PROVE  OutsideEffect
  <2> DEFINE s == Completed(result)
  <2>1. s \in StepState /\ s.phase = "Completed" /\ s.result # "done"
    <3>1. "done" \notin Results
      BY ChatAssumption DEF Results, AssistantTurn
    <3> QED
      BY <3>1, StateFacts
  <2>2. Generation(t) \in Sendable
    BY StepNames
  <2>3. /\ journal[Generation(t)] = Uncertain /\ journal' = [journal EXCEPT ![Generation(t)] = s]
        /\ UNCHANGED <<run, proofs>> /\ row[job].status = "dead"
    BY <1>8 DEF AttachResult, Queue!RequeueDead, Queue!Repairable, history
  <2> HIDE DEF s
  <2>4. Reconciles
    BY <2>1, <2>2, <2>3 DEF Reconciles
  <2> QED
    BY <1>1, <1>2, <2>4, IdleWorkers DEF OutsideEffect
<1> QED
  BY <1>1, <1>3, <1>4, <1>5, <1>6, <1>7, <1>8 DEF Client, Operator, Sendable

\* Complete, Fail and SettleOutcomeUnknown: the row is given up, or not.
LEMMA SettleRow ==
  ASSUME FInv, NEW w \in Workers, Settle(w) \/ SettleOutcomeUnknown(w)
  PROVE  /\ worker[w].pc \in {"completing", "failing"} /\ UNCHANGED claims
         /\ Queue!Return(w) \/ Queue!Goto(w, "failing")
         /\ GivesUp(w, IF worker[w].pc = "completing" THEN {"succeeded"}
                       ELSE {"pending", "failed", "dead"})
<1>1. CASE Queue!Complete(w)
  BY <1>1, CompleteGivesUp DEF Queue!Complete
<1>2. CASE Fail(w)
  BY <1>2, FailGivesUp DEF Fail
<1>3. CASE SettleOutcomeUnknown(w)
  <2>1. worker[w].pc \in {"completing", "failing"} /\ UNCHANGED claims /\ Queue!Goto(w, "failing")
    BY <1>3 DEF SettleOutcomeUnknown
  <2>2. CASE worker[w].pc = "completing"
    <3>1. Queue!CompleteRow(w) \/ UNCHANGED row
      BY <1>3, <2>2 DEF SettleOutcomeUnknown
    <3>2. CASE UNCHANGED row
      BY <2>1, <2>2, <3>2 DEF GivesUp
    <3> QED
      BY <2>1, <2>2, <3>1, <3>2, CompleteGivesUp
  <2>3. CASE worker[w].pc = "failing"
    BY <1>3, <2>1, <2>3, FailGivesUp DEF SettleOutcomeUnknown
  <2> QED
    BY <2>1, <2>2, <2>3
<1> QED
  BY <1>1, <1>2, <1>3 DEF Settle

\* The sweep: a lapsed claim without budget is dead, or goes back to be folded.
LEMMA SweepRow ==
  ASSUME FInv, NEW w \in Workers, DeadLetterExpired(w)
  PROVE  /\ UNCHANGED <<worker, claims>> /\ row[job].status = "running" /\ ~(row[job].lease > 0)
         /\ \E st \in {"dead", "pending"}, n \in Nat, d \in Nat :
              /\ st = "pending" => n = 0
              /\ row' = [row EXCEPT ![job] = QP!Unclaimed(st, n, d, TRUE)]
<1>1. row[job].attempts \in Nat /\ row[job].wait \in Nat
  BY DEF FInv, QP!Tidy, QP!Row
<1>2. \A st, n, d, e : Queue!Unclaimed(st, n, d, e) = QP!Unclaimed(st, n, d, e)
  BY DEF Queue!Unclaimed, QP!Unclaimed
<1>3. CASE Recalled
  <2>1. row' = [row EXCEPT ![job] = QP!Unclaimed("pending", 0, 0, TRUE)]
    BY <1>2, <1>3 DEF DeadLetterExpired, Requeued
  <2> QED
    BY <1>3, <2>1 DEF DeadLetterExpired, Queue!LeaseLive
<1>4. CASE ~Recalled
  <2>1. row' = [row EXCEPT ![job] = QP!Unclaimed("dead", row[job].attempts, row[job].wait, TRUE)]
    BY <1>2, <1>4 DEF DeadLetterExpired, Queue!DeadLetterExpired, Queue!Expired
  <2> QED
    BY <1>1, <1>4, <2>1 DEF DeadLetterExpired, Queue!DeadLetterExpired, Queue!LeaseLive
<1> QED
  BY <1>3, <1>4

LEMMA WorkerOutside ==
  ASSUME FInv, QP!TidyStep, NEW w \in Workers,
         Take(w) \/ EnterHandler(w) \/ Settle(w) \/ Interference(w) \/ Crash(w)
  PROVE  OutsideEffect
<1>0. worker \in [Workers -> QP!Worker] /\ exec \in [Workers -> Executor] /\ QP!Tidy'
  BY DEF FInv, QP!Tidy, TypesOK, QP!TidyStep
<1>1. UNCHANGED <<sent, written>> /\ Rests
  BY DEF Take, EnterHandler, Settle, Interference, Crash, OnlyQueueMoves, Rests, history
<1>2. CASE Take(w)
  <2>1. UNCHANGED exec
    BY <1>2 DEF Take, OnlyQueueMoves
  <2>2. CASE Queue!Claim(w, job)
    <3>1. worker[w].pc = "idle" /\ worker'[w].pc = "claimed"
          /\ worker' = [worker EXCEPT ![w] = worker'[w]]
      BY <1>0, <2>2 DEF Queue!Claim
    <3> QED
      BY <1>1, <2>1, <3>1, OtherWorkers DEF OutsideEffect
  <2>3. CASE DeadLetterExpired(w)
    BY <1>1, <2>1, <2>3, SweepRow, IdleWorkers DEF OutsideEffect
  <2> QED
    BY <1>2, <2>2, <2>3 DEF Take
<1>3. CASE EnterHandler(w)
  <2>1. worker[w].pc = "claimed" /\ worker[w].job = job
    BY <1>3, Holder DEF EnterHandler, Queue!Start
  <2>2. CASE Queue!Owns(w, job)
    <3>1. /\ worker' = [worker EXCEPT ![w].pc = "executing"]
          /\ row' = [row EXCEPT ![job].lease = 1]
          /\ exec' = [exec EXCEPT ![w].at = "load"]
      BY <1>3, <2>1, <2>2 DEF EnterHandler, Queue!Start, Queue!Goto, Go
    <3>2. row[job].status = "running" /\ row[job].claimedBy = w /\ row \in [{job} -> QP!Row]
      BY <2>2 DEF Queue!Owns, FInv, QP!Tidy
    <3>3. /\ worker'[w].pc = "executing" /\ row'[job].status = "running"
          /\ row'[job].claimedBy = w /\ row'[job].lease > 0
      BY <1>0, <3>1, <3>2 DEF QP!Row, QP!Worker
    <3>4. QP!Holds(w)'
      BY <1>0, <3>3, HoldsNext
    <3>5. exec[w] = NotExecuting
      <4>1. exec[w].at = "none"
        BY <2>1, <1>0 DEF FInv, InStep, Executor, Points
      <4> QED
        BY <4>1 DEF FInv, Resting
    <3>6. exec'[w] = [NotExecuting EXCEPT !.at = "load"]
      BY <1>0, <3>1, <3>5
    <3>7. \A v \in Workers \ {w} : exec'[v] = exec[v] /\ worker'[v] = worker[v]
      BY <1>0, <3>1
    <3>8. OutsideWorker(w)
      BY <3>3, <3>4, <3>6 DEF OutsideWorker
    <3>9. \A v \in Workers \ {w} : OutsideWorker(v)
      BY <3>7 DEF OutsideWorker
    <3>10. exec' = [v \in Workers |-> exec'[v]]
      BY <1>0, <3>1
    <3> QED
      BY <1>1, <3>8, <3>9, <3>10 DEF OutsideEffect
  <2>3. CASE ~Queue!Owns(w, job)
    <3>1. worker' = [worker EXCEPT ![w] = Queue!Idle] /\ UNCHANGED exec
      BY <1>3, <2>1, <2>3 DEF EnterHandler, Queue!Start, Queue!Return
    <3>2. worker'[w].pc = "idle"
      BY <1>0, <3>1 DEF Queue!Idle
    <3>3. worker' = [worker EXCEPT ![w] = worker'[w]]
      BY <1>0, <3>1
    <3> QED
      BY <1>1, <2>1, <3>1, <3>2, <3>3, OtherWorkers DEF OutsideEffect
  <2> QED
    BY <2>2, <2>3
<1>4. CASE Settle(w) \/ (SettleOutcomeUnknown(w) /\ OnlyQueueMoves)
  <2>1. /\ worker[w].pc \in {"completing", "failing"} /\ UNCHANGED exec
        /\ Queue!Return(w) \/ Queue!Goto(w, "failing")
    BY <1>4, SettleRow DEF Settle, OnlyQueueMoves
  <2>2. worker'[w].pc \in {"idle", "failing"} /\ worker' = [worker EXCEPT ![w] = worker'[w]]
    BY <1>0, <2>1 DEF Queue!Return, Queue!Goto, Queue!Idle, QP!Worker
  <2> QED
    BY <1>1, <2>1, <2>2, OtherWorkers DEF OutsideEffect
<1>5. CASE Queue!Heartbeat(w) /\ OnlyQueueMoves
  BY <1>1, <1>5, IdleWorkers DEF Queue!Heartbeat, OnlyQueueMoves, OutsideEffect
<1>6. CASE Crash(w)
  <2>1. exec' = [exec EXCEPT ![w] = NotExecuting] /\ worker' = [worker EXCEPT ![w] = Queue!Idle]
    BY <1>6 DEF Crash, Queue!Crash, Queue!Return, Leave
  <2>2. exec'[w] = NotExecuting /\ worker'[w].pc = "idle"
        /\ \A v \in Workers \ {w} : exec'[v] = exec[v] /\ worker'[v] = worker[v]
    BY <1>0, <2>1 DEF Queue!Idle
  <2>3. exec' = [v \in Workers |-> exec'[v]] /\ \A v \in Workers : OutsideWorker(v)
    BY <1>0, <2>1, <2>2 DEF OutsideWorker
  <2> QED
    BY <1>1, <2>3 DEF OutsideEffect
<1> QED
  BY <1>2, <1>3, <1>4, <1>5, <1>6 DEF Interference

LEMMA NextEffect ==
  ASSUME FInv, QP!TidyStep, [Next]_vars
  PROVE  OutsideEffect \/ \E w \in Workers : \E m : HandlerEffect(w, m)
<1>1. CASE Client \/ Operator
  BY <1>1, ClientOutside
<1>2. ASSUME NEW w \in Workers, WorkerStep(w)
      PROVE  OutsideEffect \/ \E m : HandlerEffect(w, m)
  <2>1. CASE HandlerStep(w) \/ Defect(w)
    BY <2>1, HandlerStepEffect
  <2> QED
    BY <1>2, <2>1, WorkerOutside DEF WorkerStep
<1>3. CASE Tick \/ UNCHANGED vars
  <2>1. UNCHANGED <<exec, worker, sent, written>> /\ Rests
    BY <1>3 DEF Tick, Queue!Tick, OnlyQueueMoves, Rests, history, vars, queue
  <2> QED
    BY <2>1, IdleWorkers DEF OutsideEffect
<1> QED
  BY <1>1, <1>2, <1>3 DEF Next

LEMMA QueueStep ==
  ASSUME FInv, [Next]_vars
  PROVE  QP!TidyStep
<1>0. QP!Tidy /\ job \in {job} /\ worker \in [Workers -> QP!Worker]
  BY DEF FInv, QP!Tidy
<1>1. CASE UNCHANGED <<row, worker, claims>>
  <2>1. QP!Quiet
    BY <1>0, <1>1, QP!SameRowQuiet, QueueAssumptions DEF QP!Quiet, QP!QuietWorker, QP!Tidy
  <2> QED
    BY <1>0, <2>1, QP!QuietTidy, QueueAssumptions
<1>2. CASE Client \/ Operator
  <2>1. UNCHANGED queue \/ Queue!Enqueue(job) \/ Queue!RequeueDead(job)
    BY <1>2 DEF Client, CreateRun, CancelSuspended, BeginCancel, CommitCancel, LoadForProjection,
         Project, Operator, Repair, ProveNotDispatched, AttachResult
  <2>2. CASE Queue!Enqueue(job) \/ Queue!RequeueDead(job)
    <3>1. QP!Caller(job)
      BY <2>2, SameQueue DEF QP!Caller
    <3> QED
      BY <1>0, <3>1, QP!CallerTidy, QueueAssumptions
  <2> QED
    BY <1>1, <2>1, <2>2 DEF queue
<1>3. ASSUME NEW w \in Workers, Take(w)
      PROVE  QP!TidyStep
  <2>1. CASE Queue!Claim(w, job)
    <3>1. QP!Claim(w, job)
      BY <2>1, SameQueue
    <3> QED
      BY <1>0, <3>1, QP!ClaimTidy, QueueAssumptions
  <2>2. CASE DeadLetterExpired(w)
    <3>1. PICK st \in {"dead", "pending"}, n \in Nat, d \in Nat :
            /\ st = "pending" => n = 0
            /\ row' = [row EXCEPT ![job] = QP!Unclaimed(st, n, d, TRUE)]
      BY <2>2, SweepRow
    <3> DEFINE r == QP!Unclaimed(st, n, d, TRUE)
    <3>2. /\ st \in QP!Status \ {"running", "absent"} /\ TRUE \in BOOLEAN
          /\ st \in QP!Waiting => n < MaxAttempts
      BY <3>1, QueueAssumptions DEF QP!Status, QP!Waiting, QP!Terminal
    <3>3. r \in QP!Row /\ QP!QuietRow(row[job], r)
      BY <3>2, QP!UnclaimedQuiet, QueueAssumptions
    <3>4. row' = [row EXCEPT ![job] = r] /\ UNCHANGED <<worker, claims>>
      BY <2>2, <3>1, SweepRow
    <3> HIDE DEF r
    <3> QED
      BY <1>0, <3>3, <3>4, QP!OneRowQuiet, QueueAssumptions
  <2> QED
    BY <1>3, <2>1, <2>2 DEF Take
<1>4. ASSUME NEW w \in Workers, EnterHandler(w) \/ Interference(w) \/ Settle(w) \/ Crash(w)
      PROVE  QP!TidyStep
  <2>1. CASE EnterHandler(w) \/ Queue!Heartbeat(w)
    <3>1. QP!Start(w) \/ QP!Heartbeat(w)
      BY <2>1, SameQueue DEF EnterHandler
    <3> QED
      BY <1>0, <3>1, QP!StartTidy, QueueAssumptions
  <2>2. CASE Settle(w) \/ SettleOutcomeUnknown(w)
    <3> DEFINE statuses == IF worker[w].pc = "completing" THEN {"succeeded"}
                           ELSE {"pending", "failed", "dead"}
    <3>1. /\ worker[w].pc # "idle" /\ UNCHANGED claims /\ GivesUp(w, statuses)
          /\ Queue!Return(w) \/ Queue!Goto(w, "failing")
      BY <2>2, SettleRow
    <3>2. statuses \in SUBSET {"pending", "failed", "dead", "succeeded"}
      OBVIOUS
    <3> HIDE DEF statuses
    <3> QED
      BY <3>1, <3>2, GivenUpTidy
  <2>3. CASE Crash(w)
    <3>1. QP!Crash(w)
      BY <2>3, SameQueue DEF Crash
    <3> QED
      BY <1>0, <3>1, QP!MemoryTidy, QueueAssumptions DEF QP!Crash
  <2> QED
    BY <1>4, <2>1, <2>2, <2>3 DEF Interference
<1>5. ASSUME NEW w \in Workers, HandlerStep(w) \/ Defect(w)
      PROVE  QP!TidyStep
  <2>1. PICK m : HandlerEffect(w, m)
    BY <1>5, HandlerStepEffect
  <2>2. worker[w].pc # "idle" /\ UNCHANGED <<row, claims>>
    BY <2>1 DEF HandlerEffect, Moves
  <2>3. \/ UNCHANGED worker
        \/ \E pc \in {"completing", "failing"} : Queue!Goto(w, pc)
    BY <2>1 DEF HandlerEffect, Loads, Marks, Thinks, Dispatches, Tells, Saves, Ends, Skips, Quits,
                Returns, GoesOn
  <2>4. UNCHANGED worker \/ \E pc \in QP!Phases \ {"idle"} : QP!Goto(w, pc)
    BY <2>3, SameQueue DEF QP!Phases
  <2> QED
    BY <1>0, <1>1, <2>2, <2>4, QP!MemoryTidy, QueueAssumptions
<1>6. CASE Tick
  <2>1. QP!Tick
    BY <1>6, SameQueue DEF Tick
  <2> QED
    BY <1>0, <2>1, QP!ElapseTidy, QueueAssumptions
<1>7. CASE UNCHANGED vars
  BY <1>1, <1>7 DEF vars, queue
<1> QED
  BY <1>2, <1>3, <1>4, <1>5, <1>6, <1>7 DEF Next, WorkerStep

-----------------------------------------------------------------------------
(* What becomes of the run's job *)

\* The job goes on until a handler has completed it, and without a lapse nobody
\* loses the claim between Load and MarkRunning.
RowFate ==
  /\ \/ Begins
     \/ row'[job].status = "absent" <=> row[job].status = "absent"
  /\ row[job].status \in LiveRow => \/ row'[job].status \in LiveRow
                                   \/ \E v \in Workers : worker[v].pc = "completing"
  /\ NoStall => \A v \in Workers : QP!Holds(v) /\ exec[v].at \in {"load", "mark"} =>
       QP!Holds(v)' \/ worker'[v].pc # "executing"

LEMMA SameRowFate ==
  ASSUME FInv, QP!Tidy', row'[job].status = row[job].status,
         row'[job].claimedBy = row[job].claimedBy,
         row[job].lease > 0 => row'[job].lease > 0,
         \A v \in Workers : worker[v].pc = "executing" /\ worker'[v].pc # worker[v].pc =>
           worker'[v].pc # "executing"
  PROVE  RowFate
<1>1. ASSUME NEW v \in Workers, QP!Holds(v), worker'[v].pc = "executing"
      PROVE  QP!Holds(v)'
  <2>1. row[job].status = "running" /\ row[job].claimedBy = v /\ row[job].lease > 0
    BY <1>1, Holder
  <2> QED
    BY <1>1, <2>1, HoldsNext
<1> QED
  BY <1>1 DEF RowFate

\* The row leaves the claim of a worker that has left the handler, or that has
\* lapsed, or of nobody.
LEMMA NewRowFate ==
  ASSUME FInv, row[job].status # "absent", row'[job].status # "absent",
         \/ row'[job].status \in LiveRow
         \/ \E v \in Workers : worker[v].pc = "completing",
         \A v \in Workers : QP!Holds(v) => worker[v].pc # "executing"
  PROVE  RowFate
<1>1. \A v \in Workers : exec[v].at \in {"load", "mark"} => worker[v].pc = "executing"
  BY DEF FInv, InStep
<1> QED
  BY <1>1 DEF RowFate

LEMMA RowFateStep ==
  ASSUME FInv, QP!TidyStep, [Next]_vars
  PROVE  RowFate
<1>0. /\ QP!Tidy' /\ worker \in [Workers -> QP!Worker] /\ row \in [{job} -> QP!Row]
  BY DEF FInv, QP!Tidy, QP!TidyStep
<1>1. CASE UNCHANGED <<row, worker>>
  BY <1>0, <1>1, SameRowFate
<1>2. CASE Client \/ Operator
  <2>1. UNCHANGED queue \/ Queue!RequeueDead(job) \/ CreateRun
    BY <1>2 DEF Client, CancelSuspended, BeginCancel, CommitCancel, LoadForProjection,
         Project, Operator, Repair, ProveNotDispatched, AttachResult
  <2>2. CASE Queue!RequeueDead(job)
    <3>1. row[job].status = "dead" /\ row'[job].status = "pending"
      BY <1>0, <2>2 DEF Queue!RequeueDead, Queue!Repairable, Queue!Unclaimed
    <3>2. \A v \in Workers : ~QP!Holds(v)
      BY <3>1, Holder
    <3> QED
      BY <3>1, <3>2, NewRowFate DEF LiveRow
  <2>3. CASE CreateRun
    <3>1. row[job].status = "absent" /\ UNCHANGED <<journal, proofs>>
      BY <2>3 DEF CreateRun, Queue!Enqueue, history
    <3>2. PICK d : row' = [row EXCEPT ![job] = Queue!Fresh("pending", d)]
      BY <2>3 DEF CreateRun, Queue!Enqueue
    <3>3. row'[job].status = "pending"
      BY <1>0, <3>2 DEF Queue!Fresh, Queue!Unclaimed
    <3>4. Begins
      BY <2>3, <3>1, <3>3 DEF CreateRun, Begins
    <3>5. \A v \in Workers : ~QP!Holds(v)
      BY <3>1, Holder
    <3> QED
      BY <3>1, <3>4, <3>5 DEF RowFate, LiveRow
  <2> QED
    BY <1>1, <2>1, <2>2, <2>3 DEF queue
<1>3. ASSUME NEW w \in Workers, Take(w)
      PROVE  RowFate
  <2>1. CASE Queue!Claim(w, job)
    <3>1. /\ row[job].status \in {"pending", "failed"} \/ ~(row[job].lease > 0)
          /\ row[job].status \in {"pending", "failed", "running"}
      BY <2>1 DEF Queue!Claim, Queue!Claimable, Queue!Waiting, Queue!LeaseLive
    <3>2. row'[job].status = "running"
      BY <1>0, <2>1 DEF Queue!Claim, Queue!Claimed, QP!Row
    <3>3. \A v \in Workers : ~QP!Holds(v)
      BY <3>1, Holder
    <3> QED
      BY <3>1, <3>2, <3>3, NewRowFate DEF LiveRow
  <2>2. CASE DeadLetterExpired(w)
    <3>1. PICK st \in {"dead", "pending"}, n \in Nat, d \in Nat :
            row' = [row EXCEPT ![job] = QP!Unclaimed(st, n, d, TRUE)]
      BY <2>2, SweepRow
    <3>2. row'[job].status = st
      BY <1>0, <3>1 DEF QP!Unclaimed
    <3>3. row[job].status = "running" /\ ~(row[job].lease > 0)
      BY <2>2, SweepRow
    <3>4. \A v \in Workers : ~QP!Holds(v)
      BY <3>3, Holder
    <3> QED
      BY <3>2, <3>3, <3>4, NewRowFate DEF LiveRow
  <2> QED
    BY <1>3, <2>1, <2>2 DEF Take
<1>4. ASSUME NEW w \in Workers, EnterHandler(w) \/ Queue!Heartbeat(w)
      PROVE  RowFate
  <2>1. /\ worker[w].pc # "idle" /\ worker[w].job = job
        /\ worker'[w].pc = worker[w].pc \/ worker[w].pc # "executing"
        /\ \A v \in Workers \ {w} : worker'[v] = worker[v]
    BY <1>0, <1>4, Holder DEF EnterHandler, Queue!Start, Queue!Heartbeat, Queue!Goto, Queue!Return
  <2>2. UNCHANGED row \/ row' = [row EXCEPT ![job].lease = 1]
    BY <1>4, <2>1 DEF EnterHandler, Queue!Start, Queue!Heartbeat
  <2>3. /\ row'[job].status = row[job].status /\ row'[job].claimedBy = row[job].claimedBy
        /\ row[job].lease > 0 => row'[job].lease > 0
    BY <1>0, <2>2 DEF QP!Row
  <2> QED
    BY <1>0, <2>1, <2>3, SameRowFate
<1>5. ASSUME NEW w \in Workers, Settle(w) \/ SettleOutcomeUnknown(w)
      PROVE  RowFate
  <2> DEFINE statuses == IF worker[w].pc = "completing" THEN {"succeeded"}
                         ELSE {"pending", "failed", "dead"}
  <2>1. /\ worker[w].pc \in {"completing", "failing"} /\ GivesUp(w, statuses)
        /\ Queue!Return(w) \/ Queue!Goto(w, "failing")
    BY <1>5, SettleRow
  <2>2. CASE UNCHANGED row
    <3>1. \A v \in Workers : worker[v].pc = "executing" => worker'[v] = worker[v]
      BY <1>0, <2>1 DEF Queue!Return, Queue!Goto
    <3> QED
      BY <1>0, <2>2, <3>1, SameRowFate
  <2>3. CASE ~UNCHANGED row
    <3>1. QP!Holds(w)
      BY <2>1, <2>3 DEF GivesUp
    <3>2. PICK st \in statuses : \E n \in Nat, d \in Nat, e \in BOOLEAN :
            row' = [row EXCEPT ![job] = QP!Unclaimed(st, n, d, e)]
      BY <2>1, <2>3 DEF GivesUp
    <3>3. row'[job].status = st
      BY <1>0, <3>2 DEF QP!Unclaimed
    <3>4. row[job].status = "running"
      BY <3>1, Holder
    <3>5. \A v \in Workers : QP!Holds(v) => worker[v].pc # "executing"
      BY <2>1, <3>1, Holder
    <3>6. row'[job].status \in LiveRow \/ worker[w].pc = "completing"
      BY <3>3 DEF LiveRow
    <3>7. row'[job].status # "absent"
      BY <3>3
    <3> QED
      BY <3>4, <3>5, <3>6, <3>7, NewRowFate
  <2> QED
    BY <2>2, <2>3
<1>6. ASSUME NEW w \in Workers, Crash(w)
      PROVE  RowFate
  <2>1. UNCHANGED row /\ worker' = [worker EXCEPT ![w] = Queue!Idle]
    BY <1>6 DEF Crash, Queue!Crash, Queue!Return
  <2>2. \A v \in Workers : worker'[v] = worker[v] \/ worker'[v].pc = "idle"
    BY <1>0, <2>1 DEF Queue!Idle
  <2> QED
    BY <1>0, <2>1, <2>2, SameRowFate
<1>7. ASSUME NEW w \in Workers, HandlerStep(w) \/ Defect(w)
      PROVE  RowFate
  <2>1. PICK m : HandlerEffect(w, m)
    BY <1>7, HandlerStepEffect
  <2>2. UNCHANGED row
    BY <2>1 DEF HandlerEffect, Moves
  <2>3. \/ UNCHANGED worker
        \/ \E pc \in {"completing", "failing"} : Queue!Goto(w, pc)
    BY <2>1 DEF HandlerEffect, Loads, Marks, Thinks, Dispatches, Tells, Saves, Ends, Skips, Quits,
                Returns, GoesOn
  <2>4. \A v \in Workers : worker'[v] = worker[v] \/ worker'[v].pc \in {"completing", "failing"}
    BY <1>0, <2>3 DEF Queue!Goto, QP!Worker
  <2> QED
    BY <1>0, <2>2, <2>4, SameRowFate
<1>8. CASE Tick
  <2>1. /\ row'[job].status = row[job].status /\ UNCHANGED worker
    BY <1>0, <1>8 DEF Tick, Queue!Tick, QP!Row
  <2>2. NoStall => \A v \in Workers : QP!Holds(v) => exec[v].at \notin {"load", "mark"}
    BY <1>8, Holder DEF Tick, NoStall
  <2> QED
    BY <2>1, <2>2 DEF RowFate
<1>9. CASE UNCHANGED vars
  BY <1>1, <1>9 DEF vars, queue
<1> QED
  BY <1>2, <1>3, <1>4, <1>5, <1>6, <1>7, <1>8, <1>9 DEF Next, WorkerStep, Interference

-----------------------------------------------------------------------------
(* Types and memories *)

Ledger == Seq([turn: 1..Turns, outcome: {"open", "succeeded", "failed"}])

LEMMA ClosedLedger ==
  ASSUME calls \in Ledger, NEW w \in Workers, NEW outcome \in {"succeeded", "failed"}
  PROVE  CallsClosed(w, outcome) \in Ledger
<1>1. ASSUME NEW i \in DOMAIN calls
      PROVE  [calls EXCEPT ![i].outcome = outcome] \in Ledger
  <2> DEFINE S == [turn: 1..Turns, outcome: {"open", "succeeded", "failed"}]
             r == [calls[i] EXCEPT !.outcome = outcome]
  <2>1. \A c \in S : [c EXCEPT !.outcome = outcome] \in S
    OBVIOUS
  <2>2. calls \in Seq(S)
    BY DEF Ledger
  <2>3. [calls EXCEPT ![i].outcome = outcome] = [calls EXCEPT ![i] = r]
    OBVIOUS
  <2> HIDE DEF S
  <2>4. calls[i] \in S
    BY <1>1, <2>2
  <2>5. r \in S
    BY <2>1, <2>4
  <2> HIDE DEF r
  <2>6. [calls EXCEPT ![i] = r] \in Seq(S)
    BY <1>1, <2>2, <2>5
  <2> QED
    BY <2>3, <2>6 DEF S, Ledger
<1> QED
  BY <1>1 DEF CallsClosed

LEMMA StartedLedger ==
  ASSUME FInv, NEW w \in Workers, StartCall(w)
  PROVE  calls' \in Ledger
<1>1. exec[w].turn \in 1..Turns
  <2>1. worker[w].pc = "executing" /\ exec[w].at = "call"
    BY DEF StartCall, At
  <2> QED
    BY <2>1, Memories DEF MemoryOK, InTurn
<1>2. [turn |-> exec[w].turn, outcome |-> "open"] \in
        [turn: 1..Turns, outcome: {"open", "succeeded", "failed"}]
  BY <1>1
<1>3. calls \in Ledger
  BY DEF FInv, TypesOK, Ledger
<1>4. calls' = Append(calls, [turn |-> exec[w].turn, outcome |-> "open"]) \/ calls' = calls
  BY DEF StartCall
<1> DEFINE S == [turn: 1..Turns, outcome: {"open", "succeeded", "failed"}]
           x == [turn |-> exec[w].turn, outcome |-> "open"]
<1>5. calls \in Seq(S) /\ x \in S /\ (calls' = Append(calls, x) \/ calls' = calls)
  BY <1>2, <1>3, <1>4 DEF Ledger
<1> HIDE DEF S, x
<1>6. calls' \in Seq(S)
  BY <1>5
<1> QED
  BY <1>6 DEF S, Ledger

LEMMA LedgerStep ==
  ASSUME FInv, [Next]_vars
  PROVE  calls' \in Ledger
<1>0. calls \in Ledger
  BY DEF FInv, TypesOK, Ledger
<1>1. ASSUME NEW w \in Workers, Raise(w) PROVE calls' \in Ledger
  BY <1>0, <1>1, ClosedLedger DEF Raise
<1>2. ASSUME NEW w \in Workers, FinalizeAndClear(w, "cancelled") \/ FinalizeAndClear(w, "error")
                               \/ FinalizeAndClear(w, "complete")
      PROVE  calls' \in Ledger
  BY <1>0, <1>2 DEF FinalizeAndClear
<1>3. ASSUME NEW w \in Workers, NEW point, NEW p, NEW a, NEW b,
             ReadStep(w, point, p, a, b) \/ MarkUncertain(w, point, p, a) \/ Send(w, point, p, a)
      PROVE  calls' \in Ledger
  BY <1>0, <1>1, <1>3 DEF ReadStep, MarkUncertain, Send, Fenced, LoseLease, Quiet
<1>4. ASSUME NEW w \in Workers, Load(w) \/ MarkRunning(w) \/ Clear(w) \/ CancelCheck(w)
      PROVE  calls' \in Ledger
  BY <1>0, <1>1, <1>4 DEF Load, MarkRunning, Clear, CancelCheck, AskCancel, Fenced, LoseLease, Quiet
<1>5. ASSUME NEW w \in Workers, FinalizeCancelled(w) \/ PrepareRun(w) \/ ContextTooLarge(w)
                               \/ Publish(w) \/ Fold(w)
      PROVE  calls' \in Ledger
  BY <1>0, <1>1, <1>2, <1>5 DEF FinalizeCancelled, PrepareRun, ContextTooLarge, Publish, Fold,
     Fenced, LoseLease, Quiet
<1>6. ASSUME NEW w \in Workers, GenerationStep(w)
      PROVE  calls' \in Ledger
  <2>1. CASE Refuse(w)
    BY <1>0, <2>1, ClosedLedger DEF Refuse
  <2>2. CASE Answered(w)
    <3>1. \E outcome \in {"succeeded", "failed"} : calls' = CallsClosed(w, outcome)
      BY <2>2 DEF Answered
    <3> QED
      BY <1>0, <3>1, ClosedLedger
  <2>3. CASE Stream(w) \/ Ambiguous(w) \/ Record(w)
    BY <1>0, <1>1, <2>3 DEF Stream, Ambiguous, Record, Fenced, LoseLease, Quiet
  <2> QED
    BY <1>3, <1>5, <1>6, <2>1, <2>2, <2>3, StartedLedger DEF GenerationStep
<1>7. ASSUME NEW w \in Workers, Tool(w)
      PROVE  calls' \in Ledger
  <2>1. CASE Lookup(w) \/ StoreSearch(w) \/ Write(w)
    BY <1>0, <1>1, <2>1 DEF Lookup, StoreSearch, Write, CompleteTool, Fenced, LoseLease
  <2> QED
    BY <1>3, <1>7, <2>1 DEF Tool
<1>8. ASSUME NEW w \in Workers, HandlerStep(w) \/ Defect(w)
      PROVE  calls' \in Ledger
  BY <1>1, <1>3, <1>4, <1>5, <1>6, <1>7, <1>8 DEF HandlerStep, Defect
<1>9. ASSUME NEW w \in Workers, Take(w) \/ EnterHandler(w) \/ Settle(w) \/ Interference(w) \/ Crash(w)
      PROVE  calls' \in Ledger
  BY <1>0, <1>9 DEF Take, EnterHandler, Settle, Interference, Crash, OnlyQueueMoves
<1>10. CASE Client \/ Operator
  BY <1>0, <1>10 DEF Client, CreateRun, CancelSuspended, BeginCancel, CommitCancel,
     LoadForProjection, Project, Operator, Repair, ProveNotDispatched, AttachResult
<1>11. CASE Tick \/ UNCHANGED vars
  BY <1>0, <1>11 DEF Tick, OnlyQueueMoves, vars
<1> QED
  BY <1>8, <1>9, <1>10, <1>11 DEF Next, WorkerStep

\* The handler of one worker moves, and the others rest.
LEMMA HandlerFrame ==
  ASSUME FInv, NEW w \in Workers, NEW m, HandlerEffect(w, m)
  PROVE  /\ exec'[w] = m /\ m \in Executor /\ MemoryOK(m)
         /\ exec' \in [Workers -> Executor]
         /\ \A v \in Workers \ {w} : exec'[v] = exec[v] /\ worker'[v] = worker[v]
         /\ \/ worker' = worker /\ m.at # "none"
            \/ /\ worker'[w].pc \in {"completing", "failing"} /\ m = NotExecuting
               /\ worker'[w].job = worker[w].job /\ worker'[w].token = worker[w].token
         /\ UNCHANGED <<row, claims>>
<1>1. exec' = [exec EXCEPT ![w] = m] /\ MemoryOK(m) /\ m \in Executor
  BY DEF HandlerEffect, Moves, MemoryOK
<1>2. exec \in [Workers -> Executor] /\ worker \in [Workers -> QP!Worker]
  BY DEF FInv, TypesOK, QP!Tidy
<1>3. \/ UNCHANGED worker /\ m.at \in Working \cup {"mark", "clear"}
      \/ UNCHANGED worker /\ m = exec[w] /\ exec[w].at \in Working
      \/ m = NotExecuting /\ \E pc \in {"completing", "failing"} : Queue!Goto(w, pc)
  BY PointFacts DEF HandlerEffect, Loads, Marks, Thinks, Dispatches, Tells, Saves, Ends, Skips,
     Quits, Returns, GoesOn, Working, Points
<1>4. \/ worker' = worker /\ m.at # "none"
      \/ /\ worker'[w].pc \in {"completing", "failing"} /\ m = NotExecuting
         /\ worker'[w].job = worker[w].job /\ worker'[w].token = worker[w].token
  <2>1. "none" \notin Working \cup {"mark", "clear"}
    BY PointFacts
  <2> QED
    BY <1>2, <1>3, <2>1 DEF Queue!Goto, QP!Worker
<1>5. \A v \in Workers \ {w} : exec'[v] = exec[v] /\ worker'[v] = worker[v]
  BY <1>1, <1>2, <1>3 DEF Queue!Goto
<1> QED
  BY <1>1, <1>2, <1>4, <1>5 DEF HandlerEffect, Moves

LEMMA LoadingOK ==
  LET m == [NotExecuting EXCEPT !.at = "load"] IN
  m \in Executor /\ MemoryOK(m) /\ m.at = "load" /\ \A p : ~InFlight(m, p)
<1> DEFINE m == [NotExecuting EXCEPT !.at = "load"]
<1>1. NotExecuting \in Executor /\ NotExecuting.journal \in Journal
  BY NotExecutingOK DEF MemoryOK
<1>2. m \in Executor /\ m.at = "load" /\ m.journal \in Journal
  <2>1. \A e \in Executor : LET n == [e EXCEPT !.at = "load"] IN
          n \in Executor /\ n.at = "load" /\ n.journal = e.journal
    BY DEF Executor, Points
  <2> QED
    BY <1>1, <2>1
<1> HIDE DEF m
<1>3. "load" \notin Working /\ "load" \notin InTurn
  BY PointFacts
<1>4. MemoryOK(m) /\ \A p : ~InFlight(m, p)
  BY <1>2, <1>3 DEF MemoryOK, InFlight
<1> QED
  BY <1>2, <1>4 DEF m

LEMMA MemoryStep ==
  ASSUME FInv, OutsideEffect \/ \E w \in Workers : \E m : HandlerEffect(w, m)
  PROVE  exec' \in [Workers -> Executor] /\ Resting' /\ \A v \in Workers : MemoryOK(exec[v])'
<1>0. exec \in [Workers -> Executor] /\ Resting /\ \A v \in Workers : MemoryOK(exec[v])
  BY DEF FInv, TypesOK
<1>1. CASE OutsideEffect
  <2>1. \A v \in Workers : /\ exec'[v] \in Executor /\ MemoryOK(exec'[v])
                           /\ exec'[v].at = "none" => exec'[v] = NotExecuting
    <3>1. ASSUME NEW v \in Workers
          PROVE  /\ exec'[v] \in Executor /\ MemoryOK(exec'[v])
                 /\ exec'[v].at = "none" => exec'[v] = NotExecuting
      <4>1. CASE exec'[v] = exec[v]
        BY <1>0, <4>1 DEF Resting
      <4>2. CASE exec'[v] = [NotExecuting EXCEPT !.at = "load"]
        BY <4>2, LoadingOK
      <4>3. CASE exec'[v] = NotExecuting
        BY <4>3, NotExecutingOK DEF MemoryOK
      <4> QED
        BY <1>1, <4>1, <4>2, <4>3 DEF OutsideEffect, OutsideWorker
    <3> QED
      BY <3>1
  <2>2. exec' = [v \in Workers |-> exec'[v]]
    BY <1>1 DEF OutsideEffect
  <2> QED
    BY <2>1, <2>2 DEF Resting
<1>2. ASSUME NEW w \in Workers, NEW m, HandlerEffect(w, m)
      PROVE  exec' \in [Workers -> Executor] /\ Resting' /\ \A v \in Workers : MemoryOK(exec[v])'
  <2>1. /\ exec'[w] = m /\ MemoryOK(m) /\ exec' \in [Workers -> Executor]
        /\ \A v \in Workers \ {w} : exec'[v] = exec[v]
        /\ m.at # "none" \/ m = NotExecuting
    BY <1>2, HandlerFrame
  <2>2. \A v \in Workers : MemoryOK(exec'[v])
    BY <1>0, <2>1
  <2>3. \A v \in Workers : exec'[v].at = "none" => exec'[v] = NotExecuting
    BY <1>0, <2>1 DEF Resting
  <2> QED
    BY <2>1, <2>2, <2>3 DEF Resting
<1> QED
  BY <1>1, <1>2

\* The counter of the queue: a loss or a failure more, or a whole new budget.
LEMMA SpentStep ==
  ASSUME FInv, [Next]_vars
  PROVE  spent' \in [{job} -> Nat]
<1>0. spent \in [{job} -> Nat]
  BY DEF FInv, TypesOK
<1> DEFINE Counts(j) == \/ UNCHANGED spent
                        \/ spent' = [spent EXCEPT ![j] = 0]
                        \/ spent' = [spent EXCEPT ![j] = @ + 1]
<1>1. \A j : Counts(j) => spent' \in [{job} -> Nat]
  BY <1>0
<1>2. CASE Client \/ Operator
  <2>1. UNCHANGED spent \/ Queue!RequeueDead(job)
    BY <1>2 DEF Client, CreateRun, CancelSuspended, BeginCancel, CommitCancel, LoadForProjection,
       Project, Operator, Repair, ProveNotDispatched, AttachResult, Queue!Enqueue, queue
  <2>2. Counts(job)
    BY <2>1 DEF Queue!RequeueDead
  <2> QED
    BY <1>1, <2>2
<1>3. ASSUME NEW w \in Workers, FailRow(w)
      PROVE  spent' \in [{job} -> Nat]
  <2>1. Counts(job) \/ Counts(worker[w].job)
    BY <1>3 DEF FailRow, Queue!FailRow
  <2> QED
    BY <1>1, <2>1
<1>4. ASSUME NEW w \in Workers, Take(w)
      PROVE  spent' \in [{job} -> Nat]
  <2>1. CASE Queue!Claim(w, job)
    <3>1. Counts(job)
      BY <1>0, <2>1 DEF Queue!Claim
    <3> QED
      BY <1>1, <3>1
  <2>2. CASE DeadLetterExpired(w)
    <3>1. Counts(job)
      BY <2>2 DEF DeadLetterExpired, Queue!DeadLetterExpired
    <3> QED
      BY <1>1, <3>1
  <2> QED
    BY <1>4, <2>1, <2>2 DEF Take
<1>5. ASSUME NEW w \in Workers, EnterHandler(w) \/ Settle(w) \/ Interference(w) \/ Crash(w)
      PROVE  spent' \in [{job} -> Nat]
  <2>1. UNCHANGED spent \/ FailRow(w)
    BY <1>5 DEF EnterHandler, Queue!Start, Settle, Queue!Complete, Fail, Interference,
       Queue!Heartbeat, SettleOutcomeUnknown, Crash, Queue!Crash
  <2> QED
    BY <1>0, <1>3, <2>1
<1>6. ASSUME NEW w \in Workers, HandlerStep(w) \/ Defect(w)
      PROVE  spent' \in [{job} -> Nat]
  <2>1. PICK m : HandlerEffect(w, m)
    BY <1>6, HandlerStepEffect
  <2> QED
    BY <1>0, <2>1 DEF HandlerEffect, Moves
<1>7. CASE Tick \/ UNCHANGED vars
  BY <1>0, <1>7 DEF Tick, Queue!Tick, vars, queue
<1> QED
  BY <1>2, <1>4, <1>5, <1>6, <1>7 DEF Next, WorkerStep

\* Requests of clients that are under way.
ClientsFate ==
  /\ canceller' \in BOOLEAN /\ reader' \in {"idle", "loaded", "defect"}
  /\ canceller' => canceller \/ Active
  /\ \/ reader' = reader
     \/ reader' = "loaded" /\ Active
     \/ /\ reader = "loaded" /\ reader' # "loaded"
        /\ reader' = "defect" => row[job].status \notin LiveRow

LEMMA ClientsStep ==
  ASSUME FInv, [Next]_vars
  PROVE  ClientsFate
<1>0. canceller \in BOOLEAN /\ reader \in {"idle", "loaded", "defect"}
  BY DEF FInv, TypesOK
<1>1. ASSUME NEW w \in Workers, HandlerStep(w) \/ Defect(w)
      PROVE  ClientsFate
  <2>1. PICK m : HandlerEffect(w, m)
    BY <1>1, HandlerStepEffect
  <2> QED
    BY <1>0, <2>1 DEF HandlerEffect, Moves, clients, ClientsFate
<1>2. ASSUME NEW w \in Workers, Take(w) \/ EnterHandler(w) \/ Settle(w) \/ Interference(w) \/ Crash(w)
      PROVE  ClientsFate
  BY <1>0, <1>2 DEF Take, EnterHandler, Settle, Interference, Crash, OnlyQueueMoves, clients, ClientsFate
<1>3. CASE Client \/ Operator
  <2>1. /\ canceller' \in {canceller, TRUE, FALSE}
        /\ reader' \in {reader, "idle", "loaded", "defect"}
    BY <1>3 DEF Client, CreateRun, CancelSuspended, BeginCancel, CommitCancel,
       LoadForProjection, Project, Operator, Repair, ProveNotDispatched, AttachResult, clients
  <2>2. /\ canceller' => canceller \/ Active
        /\ \/ reader' = reader
           \/ reader' = "loaded" /\ Active
           \/ /\ reader = "loaded" /\ reader' # "loaded"
              /\ reader' = "defect" => row[job].status \notin LiveRow
    BY <1>3 DEF Client, CreateRun, CancelSuspended, BeginCancel, CommitCancel,
       LoadForProjection, Project, Operator, Repair, ProveNotDispatched, AttachResult, clients,
       LiveRow
  <2> QED
    BY <1>0, <2>1, <2>2 DEF ClientsFate
<1>4. CASE Tick \/ UNCHANGED vars
  BY <1>0, <1>4 DEF Tick, OnlyQueueMoves, vars, clients, ClientsFate
<1> QED
  BY <1>1, <1>2, <1>3, <1>4 DEF Next, WorkerStep

LEMMA TypesStep ==
  ASSUME FInv, OutsideEffect \/ \E w \in Workers : \E m : HandlerEffect(w, m), calls' \in Ledger,
         spent' \in [{job} -> Nat], ClientsFate
  PROVE  TypesOK'
<1> DEFINE Run == [status: {"absent"} \cup ActiveRun \cup TerminalRun, cancel: BOOLEAN,
                   tail: {"none", "event", "done"}, dones: Nat]
<1>0. /\ run \in Run /\ journal \in Journal /\ sent \in [Sendable -> Nat]
      /\ proofs \in [Sendable -> Nat] /\ written \in [ToolSteps -> Nat]
  BY DEF FInv, TypesOK
<1>1. /\ \A r \in Run : Appended(r) \in Run /\ [r EXCEPT !.status = "queued"] \in Run
      /\ \A r \in Run : [r EXCEPT !.status = "running"] \in Run
      /\ \A r \in Run : [r EXCEPT !.cancel = TRUE] \in Run
      /\ \A r \in Run, st \in TerminalRun :
           [r EXCEPT !.status = st, !.tail = "done", !.dones = @ + 1] \in Run
  <2>1. \A r \in Run : Appended(r) \in Run
    BY DEF Appended
  <2>2. \A r \in Run : [r EXCEPT !.status = "queued"] \in Run /\ [r EXCEPT !.status = "running"] \in Run
    BY DEF ActiveRun
  <2>3. \A r \in Run : [r EXCEPT !.cancel = TRUE] \in Run
    OBVIOUS
  <2>4. ASSUME NEW r \in Run, NEW st \in TerminalRun
        PROVE  [r EXCEPT !.status = st, !.tail = "done", !.dones = @ + 1] \in Run
    <3>1. r.dones + 1 \in Nat /\ "done" \in {"none", "event", "done"}
      OBVIOUS
    <3>2. \A n \in Nat : [r EXCEPT !.status = st, !.tail = "done", !.dones = n] \in Run
      OBVIOUS
    <3> QED
      BY <3>1, <3>2
  <2> QED
    BY <2>1, <2>2, <2>3, <2>4
<1>2. /\ \A f \in [Sendable -> Nat], p \in Sendable : [f EXCEPT ![p] = @ + 1] \in [Sendable -> Nat]
      /\ \A f \in [ToolSteps -> Nat], p \in ToolSteps : [f EXCEPT ![p] = @ + 1] \in [ToolSteps -> Nat]
  OBVIOUS
<1>3. exec' \in [Workers -> Executor] /\ calls' \in Ledger
  BY MemoryStep
<1> HIDE DEF Run
<1>4. CASE OutsideEffect
  <2>1. run' \in Run
    BY <1>0, <1>1, <1>4 DEF OutsideEffect, Rests, Begins, Asks, Reconciles
  <2>2. journal' \in Journal /\ proofs' \in [Sendable -> Nat]
    <3>1. CASE Reconciles
      <4>1. PICK p \in Sendable, s \in StepState :
              /\ journal' = [journal EXCEPT ![p] = s]
              /\ p \in Generations => s.result # "done"
              /\ proofs' = [proofs EXCEPT ![p] = @ + 1] \/ proofs' = proofs
        BY <3>1 DEF Reconciles
      <4>2. p \in Steps
        BY StepNames
      <4>3. journal' \in Journal
        BY <1>0, <4>1, <4>2, JournalFacts
      <4> QED
        BY <1>0, <1>2, <4>1, <4>3
    <3> QED
      BY <1>0, <1>4, <3>1 DEF OutsideEffect, Rests, Begins, Asks
  <2>3. UNCHANGED <<sent, written>>
    BY <1>4 DEF OutsideEffect
  <2> QED
    BY <1>0, <1>3, <2>1, <2>2, <2>3 DEF TypesOK, Run, Ledger, ClientsFate
<1>5. ASSUME NEW w \in Workers, NEW m, HandlerEffect(w, m)
      PROVE  TypesOK'
  <2>1. UNCHANGED proofs
    BY <1>5 DEF HandlerEffect, Moves
  <2>2. run' \in Run
    BY <1>0, <1>1, <1>5 DEF HandlerEffect, Loads, Marks, Thinks, Dispatches, Tells, Saves, Ends,
       Skips, Quits, Returns, SameRun
  <2>3. journal' \in Journal
    BY <1>0, <1>5, JournalFacts DEF HandlerEffect, Loads, Marks, Thinks, Dispatches, Tells, Saves,
       Ends, Skips, Quits, Returns, SameRun
  <2>4. sent' \in [Sendable -> Nat]
    <3>1. UNCHANGED sent \/ \E p \in Sendable : sent' = [sent EXCEPT ![p] = @ + 1]
      BY <1>5 DEF HandlerEffect, Loads, Marks, Thinks, Dispatches, Tells, Saves, Ends, Skips, Quits,
         Returns, SameRun
    <3> QED
      BY <1>0, <1>2, <3>1
  <2>5. written' \in [ToolSteps -> Nat]
    <3>1. UNCHANGED written \/ \E p \in ToolSteps : written' = [written EXCEPT ![p] = @ + 1]
      BY <1>5 DEF HandlerEffect, Loads, Marks, Thinks, Dispatches, Tells, Saves, Ends, Skips, Quits,
         Returns, SameRun
    <3> QED
      BY <1>0, <1>2, <3>1
  <2>6. proofs' \in [Sendable -> Nat]
    BY <1>0, <2>1
  <2>7. run' \in [status: {"absent"} \cup ActiveRun \cup TerminalRun, cancel: BOOLEAN,
                  tail: {"none", "event", "done"}, dones: Nat]
    BY <2>2 DEF Run
  <2>8. calls' \in Seq([turn: 1..Turns, outcome: {"open", "succeeded", "failed"}])
    BY <1>3 DEF Ledger
  <2> QED
    BY <1>3, <2>3, <2>4, <2>5, <2>6, <2>7, <2>8 DEF TypesOK, ClientsFate
<1> QED
  BY <1>4, <1>5

-----------------------------------------------------------------------------
(* The run and its journal *)

\* A handler that writes holds the claim, and the run is as it knows it.
LEMMA WriterFacts ==
  ASSUME FInv, NEW w \in Workers, Queue!ClaimIsCurrent(w)
  PROVE  /\ QP!Holds(w) /\ row[job].status = "running" /\ run.status # "absent"
         /\ exec[w].at \in Working => run.status = "running" /\ exec[w].journal = journal
         /\ exec[w].at = "clear" => journal = Cleared
<1>1. QP!Holds(w)
  BY Holder
<1>2. row[job].status = "running" /\ InStep(w) /\ PresentOK
  BY <1>1, Holder DEF FInv
<1> QED
  BY <1>1, <1>2 DEF InStep, PresentOK

\* What the steps of a run do to the parts of the record.
LEMMA RunFields ==
  ASSUME TypesOK
  PROVE  /\ Appended(run).status = run.status /\ Appended(run).dones = run.dones
         /\ \A st : LET n == [run EXCEPT !.status = st] IN
              n.status = st /\ n.dones = run.dones /\ Appended(n).status = st /\ Appended(n).dones = run.dones
         /\ LET n == [run EXCEPT !.cancel = TRUE] IN
              n.status = run.status /\ n.dones = run.dones /\ n.tail = run.tail
         /\ \A st : LET n == [run EXCEPT !.status = st, !.tail = "done", !.dones = @ + 1] IN
              n.status = st /\ n.dones = run.dones + 1 /\ n.tail = "done"
BY DEF TypesOK, Appended

\* Two of the nine things a statement does move the status.
LEMMA StatusMoves ==
  ASSUME FInv, NEW w \in Workers, NEW m, HandlerEffect(w, m)
  PROVE  \/ run'.status = run.status
         \/ Marks(w, m) /\ run'.status = "running" /\ UNCHANGED journal
         \/ Ends(w, m) /\ run'.status \in TerminalRun /\ journal' = Cleared
<1>0. TypesOK
  BY DEF FInv
<1>1. CASE Marks(w, m) /\ run' # run
  <2>1. run' = [run EXCEPT !.status = "running"] /\ UNCHANGED journal
    BY <1>1 DEF Marks
  <2> QED
    BY <1>0, <1>1, <2>1, RunFields
<1>2. CASE Ends(w, m)
  <2>1. PICK st \in TerminalRun :
          run' = [run EXCEPT !.status = st, !.tail = "done", !.dones = @ + 1]
    BY <1>2 DEF Ends
  <2>2. run'.status = st /\ journal' = Cleared
    BY <1>0, <1>2, <2>1, RunFields DEF Ends, Returns
  <2> QED
    BY <1>2, <2>2
<1>3. CASE ~(Marks(w, m) /\ run' # run) /\ ~Ends(w, m)
  <2>1. run' = run \/ run' = Appended(run)
    BY <1>3 DEF HandlerEffect, Loads, Thinks, Dispatches, Tells, Saves, Skips, Quits, SameRun
  <2> QED
    BY <1>0, <2>1, RunFields
<1> QED
  BY <1>1, <1>2, <1>3

\* A step that the run ends in, or that finds it ended, leaves no journal.
JournalFate ==
  /\ Ended \/ Ended' => journal' = Cleared
  /\ run.status # "absent" => run'.status # "absent"
  /\ run.status = "absent" => run'.status = "absent" \/ Begins

LEMMA JournalFateStep ==
  ASSUME FInv, OutsideEffect \/ \E w \in Workers : \E m : HandlerEffect(w, m)
  PROVE  JournalFate
<1>0. TypesOK /\ (Ended => journal = Cleared)
  BY DEF FInv
<1>1. /\ "queued" \notin TerminalRun /\ "running" \notin TerminalRun /\ "absent" \notin TerminalRun
  BY DEF TerminalRun
<1>2. CASE OutsideEffect
  <2>1. CASE Rests
    BY <1>0, <2>1 DEF Rests, JournalFate, Ended
  <2>2. CASE Begins
    <3>1. run'.status = "queued" /\ run.status = "absent"
      BY <1>0, <2>2, RunFields DEF Begins
    <3> QED
      BY <1>1, <2>2, <3>1 DEF JournalFate, Ended
  <2>3. CASE Asks
    <3>1. run'.status = run.status /\ UNCHANGED journal
      BY <1>0, <2>3, RunFields DEF Asks
    <3> QED
      BY <1>0, <3>1 DEF JournalFate, Ended
  <2>4. CASE Reconciles
    <3>1. PICK p \in Sendable : journal[p] = Uncertain
      BY <2>4 DEF Reconciles
    <3>2. p \in Steps
      BY StepNames
    <3>3. journal # Cleared
      BY <3>1, <3>2, JournalFacts, StateFacts
    <3>4. UNCHANGED run /\ ~Ended
      BY <1>0, <2>4, <3>3 DEF Reconciles
    <3> QED
      BY <3>4 DEF JournalFate, Ended
  <2> QED
    BY <1>2, <2>1, <2>2, <2>3, <2>4 DEF OutsideEffect
<1>3. ASSUME NEW w \in Workers, NEW m, HandlerEffect(w, m)
      PROVE  JournalFate
  <2>1. run.status # "absent"
    <3>1. worker[w].pc # "idle"
      BY <1>3 DEF HandlerEffect, Moves
    <3> QED
      BY <3>1, HasRun
  <2>2. run'.status # "absent"
    BY <1>1, <1>3, <2>1, StatusMoves
  <2>3. UNCHANGED journal \/ journal' = Cleared \/ Saves(w, m)
    BY <1>3 DEF HandlerEffect, Loads, Marks, Thinks, Dispatches, Tells, Ends, Skips, Quits,
       Returns, SameRun
  <2>4. CASE Saves(w, m)
    <3>1. run.status = "running"
      BY <2>4, WriterFacts DEF Saves
    <3>2. run'.status = "running"
      BY <1>0, <2>4, <3>1, RunFields DEF Saves
    <3> QED
      BY <1>1, <2>1, <3>1, <3>2 DEF JournalFate, Ended
  <2>5. CASE journal' = Cleared
    BY <2>1, <2>2, <2>5 DEF JournalFate
  <2>6. CASE UNCHANGED journal
    <3>1. Ended \/ Ended' => journal' = Cleared
      BY <1>0, <1>1, <1>3, <2>6, StatusMoves DEF Ended
    <3> QED
      BY <2>1, <2>2, <3>1 DEF JournalFate
  <2> QED
    BY <2>3, <2>4, <2>5, <2>6
<1> QED
  BY <1>2, <1>3

LEMMA PresentStep ==
  ASSUME FInv, RowFate, JournalFate, ClientsFate, TypesOK'
  PROVE  PresentOK' /\ (Ended => journal = Cleared)'
<1>1. (run'.status = "absent") <=> (row'[job].status = "absent")
  <2>1. Begins => run'.status # "absent" /\ row'[job].status # "absent" /\ run.status = "absent"
    BY RunFields DEF Begins, FInv
  <2>2. (run.status = "absent") <=> (row[job].status = "absent")
    BY DEF FInv, PresentOK
  <2> QED
    BY <2>1, <2>2 DEF JournalFate, RowFate
<1>2. canceller' \/ reader' = "loaded" => run'.status # "absent"
  <2>1. canceller \/ reader = "loaded" \/ Active => run.status # "absent"
    BY DEF FInv, PresentOK, Active, ActiveRun
  <2> QED
    BY <2>1 DEF ClientsFate, JournalFate
<1> QED
  BY <1>1, <1>2 DEF PresentOK, JournalFate

-----------------------------------------------------------------------------
(* The handlers under the fence *)

\* Who writes the journal holds the claim; who only moves the status is at
\* mark_running.
LEMMA OnlyTheHolderWrites ==
  ASSUME FInv, NEW w \in Workers, NEW m, HandlerEffect(w, m)
  PROVE  QP!Holds(w) \/ (UNCHANGED journal /\ (UNCHANGED run \/ Marks(w, m)))
<1>1. Queue!ClaimIsCurrent(w) => QP!Holds(w)
  BY Holder
<1>2. Marks(w, m) => UNCHANGED journal
  BY DEF Marks
<1>3. QP!Holds(w) \/ Marks(w, m) \/ (UNCHANGED run /\ UNCHANGED journal)
  BY <1>1 DEF HandlerEffect, Loads, Thinks, Dispatches, Tells, Saves, Ends, Skips, Quits,
     Returns, SameRun
<1> QED
  BY <1>2, <1>3

\* From one statement to the next nobody gains the claim.
LEMMA HoldersStay ==
  ASSUME QP!TidyStep, NEW v \in Workers, worker'[v].pc # "claimed" \/ worker[v].pc # "idle",
         QP!Holds(v)'
  PROVE  QP!Holds(v)
BY DEF QP!TidyStep, QP!NoneGains

LEMMA OutsideInStep ==
  ASSUME FInv, QP!TidyStep, OutsideEffect, NEW v \in Workers
  PROVE  InStep(v)'
<1>0. InStep(v) /\ OutsideWorker(v) /\ PresentOK /\ TypesOK
  BY DEF FInv, OutsideEffect
<1>1. CASE /\ exec'[v] = exec[v]
           /\ (worker'[v].pc = "executing") <=> (worker[v].pc = "executing")
  <2>1. (worker'[v].pc = "executing") <=> (exec'[v].at # "none")
    BY <1>0, <1>1 DEF InStep
  <2>2. ASSUME QP!Holds(v)', exec'[v].at # "none"
        PROVE  QP!Holds(v) /\ UNCHANGED journal /\ run'.status = run.status
    <3>1. QP!Holds(v)
      BY <2>1, <2>2, HoldersStay
    <3>2. row[job].status = "running"
      BY <3>1, Holder
    <3>3. ~Begins /\ ~Reconciles
      BY <1>0, <3>2 DEF Begins, Reconciles, PresentOK
    <3>4. Rests \/ Asks
      BY <3>3 DEF OutsideEffect
    <3>5. UNCHANGED journal /\ run'.status = run.status
      BY <1>0, <3>4, RunFields DEF Rests, Asks
    <3> QED
      BY <3>1, <3>5
  <2> QED
    BY <1>0, <1>1, <2>1, <2>2, PointFacts DEF InStep
<1>2. CASE /\ exec'[v] = [NotExecuting EXCEPT !.at = "load"]
           /\ worker'[v].pc = "executing" /\ QP!Holds(v)'
  <2>1. exec'[v].at = "load"
    BY <1>2, LoadingOK
  <2> QED
    BY <1>2, <2>1, PointFacts DEF InStep
<1>3. CASE exec'[v] = NotExecuting /\ worker'[v].pc # "executing"
  <2>1. exec'[v].at = "none"
    BY <1>3, NotExecutingOK
  <2> QED
    BY <1>3, <2>1, PointFacts DEF InStep
<1> QED
  BY <1>0, <1>1, <1>2, <1>3 DEF OutsideWorker

\* The handler that moves.
LEMMA MovingInStep ==
  ASSUME FInv, QP!TidyStep, NEW w \in Workers, NEW m, HandlerEffect(w, m)
  PROVE  InStep(w)'
<1>0. /\ InStep(w) /\ worker[w].pc = "executing" /\ MemoryOK(exec[w]) /\ TypesOK
      /\ exec'[w] = m /\ UNCHANGED row
  BY HandlerFrame DEF FInv, HandlerEffect, Moves
<1>1. CASE Loads(w, m)
  <2>1. /\ worker' = worker /\ UNCHANGED <<run, journal>>
        /\ m.seen = run.status /\ m.journal = journal
        /\ m.at = IF Active THEN "mark" ELSE "clear"
    BY <1>1 DEF Loads, SameRun
  <2>2. m.at = "clear" => journal = Cleared
    <3>1. run.status \in ActiveRun \cup TerminalRun
      BY <1>0, HasRun
    <3> QED
      BY <2>1, <3>1 DEF FInv, Active, Ended
  <2>3. m.at \notin Working /\ m.at # "none"
    BY <2>1, PointFacts
  <2> QED
    BY <1>0, <2>1, <2>2, <2>3 DEF InStep
<1>2. CASE Marks(w, m)
  <2>1. /\ exec[w].at = "mark" /\ worker' = worker /\ UNCHANGED journal
        /\ m.at = "entry" /\ m.journal = exec[w].journal
        /\ exec[w].seen \in {"queued", "running"}
    BY <1>0, <1>2 DEF Marks, MemoryOK, ActiveRun
  <2>2. QP!Holds(w)' => QP!Holds(w)
    BY <1>0, <2>1, HoldersStay
  <2>3. QP!Holds(w) => run.status \in {exec[w].seen, "running"} /\ exec[w].journal = journal
    BY <1>0, <2>1 DEF InStep
  <2>4. QP!Holds(w) => run'.status = "running"
    <3>1. CASE exec[w].seen = "queued"
      <4>1. run' = [run EXCEPT !.status = "running"]
        BY <1>2, <3>1 DEF Marks
      <4> QED
        BY <1>0, <4>1, RunFields
    <3>2. CASE exec[w].seen = "running"
      <4>1. run' = run
        BY <1>2, <3>2 DEF Marks
      <4> QED
        BY <2>3, <3>2, <4>1
    <3> QED
      BY <2>1, <3>1, <3>2
  <2>5. m.at \notin {"none", "mark", "clear"}
    BY <2>1
  <2> QED
    BY <1>0, <2>1, <2>2, <2>3, <2>4, <2>5 DEF InStep
<1>3. CASE Thinks(w, m) \/ Dispatches(w, m) \/ Tells(w, m) \/ Saves(w, m)
  <2>1. /\ exec[w].at \in Working /\ m.at \in Working /\ worker' = worker
        /\ m.at \notin {"none", "load", "mark", "clear"}
    BY <1>3, PointFacts DEF Thinks, Dispatches, Tells, Saves, GoesOn
  <2>2. QP!Holds(w)' => QP!Holds(w)
    BY <1>0, <2>1, HoldersStay
  <2>3. ASSUME QP!Holds(w)
        PROVE  run'.status = "running" /\ m.journal = journal'
    <3>1. run.status = "running" /\ exec[w].journal = journal
      BY <1>0, <2>1, <2>3 DEF InStep
    <3>2. run' = run \/ run' = Appended(run)
      BY <1>3 DEF Thinks, Dispatches, Tells, Saves, SameRun
    <3>3. run'.status = "running"
      BY <1>0, <3>1, <3>2, RunFields
    <3>4. m.journal = journal'
      BY <1>3, <3>1 DEF Thinks, Dispatches, Tells, Saves, SameRun
    <3> QED
      BY <3>3, <3>4
  <2> QED
    BY <1>0, <2>1, <2>2, <2>3 DEF InStep
<1>4. CASE Ends(w, m) \/ Skips(w, m) \/ Quits(w, m)
  <2>1. m.at = "none"
    BY <1>4, NotExecutingOK DEF Ends, Skips, Quits, Returns
  <2>2. worker'[w].pc # "executing"
    BY <2>1, HandlerFrame
  <2> QED
    BY <1>0, <2>1, <2>2, PointFacts DEF InStep
<1> QED
  BY <1>1, <1>2, <1>3, <1>4 DEF HandlerEffect

\* The handlers beside it: the one that holds the claim writes alone, and a
\* mark_running of another finds the status it would write.
LEMMA RestingInStep ==
  ASSUME FInv, QP!TidyStep, NEW w \in Workers, NEW m, HandlerEffect(w, m),
         NEW v \in Workers, v # w
  PROVE  InStep(v)'
<1>0. InStep(v) /\ exec'[v] = exec[v] /\ worker'[v] = worker[v]
  BY HandlerFrame DEF FInv
<1>1. ASSUME QP!Holds(v)'
      PROVE  /\ QP!Holds(v) /\ UNCHANGED journal
             /\ run'.status = run.status \/ run'.status = "running"
  <2>1. worker'[v].pc # "claimed" \/ worker[v].pc # "idle"
    BY <1>0
  <2>2. QP!Holds(v)
    BY <1>1, <2>1, HoldersStay
  <2>3. ~QP!Holds(w)
    BY <2>2, Holder
  <2>4. UNCHANGED journal /\ (UNCHANGED run \/ Marks(w, m))
    BY <2>3, OnlyTheHolderWrites
  <2>5. Marks(w, m) => ~Ends(w, m)
    <3>1. "mark" \notin Working
      BY PointFacts
    <3> QED
      BY <3>1 DEF Marks, Ends
  <2> QED
    BY <2>2, <2>4, <2>5, StatusMoves
<1> QED
  BY <1>0, <1>1 DEF InStep

LEMMA InStepStep ==
  ASSUME FInv, QP!TidyStep, OutsideEffect \/ \E w \in Workers : \E m : HandlerEffect(w, m)
  PROVE  \A v \in Workers : InStep(v)'
BY OutsideInStep, MovingInStep, RestingInStep

\* Whatever happens, who holds the claim holds the latest one.
LEMMA TokensStep ==
  ASSUME FInv, [Next]_vars
  PROVE  \/ \E u \in Workers : Queue!Claim(u, job)
         \/ /\ UNCHANGED claims
            /\ \A v \in Workers :
                 /\ worker[v].pc = "idle" => worker'[v].pc = "idle"
                 /\ worker'[v].pc # "idle" => worker'[v].token = worker[v].token
<1> DEFINE Same == /\ UNCHANGED claims
                   /\ \A v \in Workers :
                        /\ worker[v].pc = "idle" => worker'[v].pc = "idle"
                        /\ worker'[v].pc # "idle" => worker'[v].token = worker[v].token
<1>0. worker \in [Workers -> QP!Worker]
  BY DEF FInv, QP!Tidy
<1>1. ASSUME UNCHANGED <<worker, claims>> PROVE Same
  BY <1>1
<1>2. ASSUME NEW w \in Workers, worker[w].pc # "idle", UNCHANGED claims,
             Queue!Return(w) \/ \E pc \in {"executing", "failing", "completing"} : Queue!Goto(w, pc)
      PROVE  Same
  <2>1. CASE Queue!Return(w)
    <3>1. worker'[w].pc = "idle"
      BY <1>0, <2>1 DEF Queue!Return, Queue!Idle
    <3>2. \A v \in Workers \ {w} : worker'[v] = worker[v]
      BY <1>0, <2>1 DEF Queue!Return
    <3> QED
      BY <1>2, <3>1, <3>2
  <2>2. CASE \E pc \in {"executing", "failing", "completing"} : Queue!Goto(w, pc)
    <3>1. worker'[w].token = worker[w].token
      BY <1>0, <2>2 DEF Queue!Goto, QP!Worker
    <3>2. \A v \in Workers \ {w} : worker'[v] = worker[v]
      BY <1>0, <2>2 DEF Queue!Goto
    <3> QED
      BY <1>2, <3>1, <3>2
  <2> QED
    BY <1>2, <2>1, <2>2
<1>3. CASE Client \/ Operator
  BY <1>1, <1>3 DEF Client, CreateRun, CancelSuspended, BeginCancel, CommitCancel,
     LoadForProjection, Project, Operator, Repair, ProveNotDispatched, AttachResult, queue,
     Queue!Enqueue, Queue!RequeueDead
<1>4. CASE Tick \/ UNCHANGED vars
  BY <1>1, <1>4 DEF Tick, Queue!Tick, vars, queue
<1>5. ASSUME NEW w \in Workers, Take(w)
      PROVE  Queue!Claim(w, job) \/ Same
  BY <1>1, <1>5 DEF Take, DeadLetterExpired, Queue!DeadLetterExpired
<1>6. ASSUME NEW w \in Workers, EnterHandler(w)
      PROVE  Same
  BY <1>2, <1>6 DEF EnterHandler, Queue!Start
<1>7. ASSUME NEW w \in Workers, Settle(w)
      PROVE  Same
  BY <1>2, <1>7 DEF Settle, Fail, Queue!Complete
<1>8. ASSUME NEW w \in Workers, Interference(w)
      PROVE  Same
  BY <1>1, <1>2, <1>8 DEF Interference, SettleOutcomeUnknown, Queue!Heartbeat
<1>9. ASSUME NEW w \in Workers, Crash(w)
      PROVE  Same
  BY <1>2, <1>9 DEF Crash, Queue!Crash
<1>10. ASSUME NEW w \in Workers, HandlerStep(w) \/ Defect(w)
       PROVE  Same
  <2>1. PICK m : HandlerEffect(w, m)
    BY <1>10, HandlerStepEffect
  <2>2. /\ UNCHANGED claims
        /\ \A v \in Workers \ {w} : worker'[v] = worker[v]
        /\ worker[w].pc = "executing" /\ worker'[w].token = worker[w].token
    BY <2>1, HandlerFrame DEF HandlerEffect, Moves
  <2> QED
    BY <2>2
<1> QED
  BY <1>3, <1>4, <1>5, <1>6, <1>7, <1>8, <1>9, <1>10 DEF Next, WorkerStep

LEMMA LatestStep ==
  ASSUME FInv, QP!TidyStep, [Next]_vars
  PROVE  LatestClaim'
<1>0. worker \in [Workers -> QP!Worker] /\ row \in [{job} -> QP!Row] /\ QP!Tidy'
      /\ claims \in [{job} -> Nat]
  BY DEF FInv, QP!Tidy, QP!TidyStep
<1>1. SUFFICES ASSUME NEW v \in Workers, QP!Holds(v)'
               PROVE  worker'[v].token = claims'[job]
  BY DEF LatestClaim
<1>2. worker'[v].pc # "idle" /\ row'[job].claimedBy = v
  BY <1>0, <1>1, HoldsNext
<1>3. ASSUME NEW u \in Workers, Queue!Claim(u, job)
      PROVE  worker'[v].token = claims'[job]
  <2>1. row' = [row EXCEPT ![job] = Queue!Claimed(u, job)]
        /\ claims' = [claims EXCEPT ![job] = @ + 1]
        /\ worker' = [worker EXCEPT ![u] = [pc |-> "claimed", job |-> job,
                        attempt |-> row[job].attempts + 1, token |-> claims[job] + 1]]
    BY <1>3 DEF Queue!Claim
  <2>2. row'[job].claimedBy = u
    BY <1>0, <2>1 DEF Queue!Claimed, QP!Row
  <2>3. worker'[u].token = claims[job] + 1 /\ claims'[job] = claims[job] + 1
    BY <1>0, <2>1
  <2> QED
    BY <1>2, <2>2, <2>3
<1>4. CASE /\ UNCHANGED claims
           /\ worker[v].pc = "idle" => worker'[v].pc = "idle"
           /\ worker'[v].pc # "idle" => worker'[v].token = worker[v].token
  <2>1. QP!Holds(v)
    BY <1>1, <1>2, <1>4, HoldersStay
  <2> QED
    BY <1>2, <1>4, <2>1 DEF FInv, LatestClaim
<1> QED
  BY <1>3, <1>4, TokensStep

-----------------------------------------------------------------------------
(* What is journaled stays *)

LEMMA SavesFacts ==
  ASSUME FInv, NEW w \in Workers, NEW m, HandlerEffect(w, m), Saves(w, m)
  PROVE  /\ ~Ended /\ UNCHANGED sent
         /\ \E p \in Steps, s \in StepState :
              /\ journal' = [journal EXCEPT ![p] = s] /\ Advances(journal[p], s)
              /\ journal'[p] = s /\ \A q \in Steps : q # p => journal'[q] = journal[q]
              /\ \A q : InFlight(m, q) => q = p /\ s = Uncertain
              /\ \/ UNCHANGED written
                 \/ p \in ToolSteps /\ s.phase = "Completed" /\ written' = [written EXCEPT ![p] = @ + 1]
<1>1. /\ exec[w].journal = journal /\ run.status = "running" /\ UNCHANGED sent
  BY WriterFacts DEF Saves
<1>2. ~Ended
  BY <1>1 DEF Ended, TerminalRun
<1>3. PICK p \in Steps, s \in StepState :
        /\ journal' = [journal EXCEPT ![p] = s] /\ Advances(journal[p], s)
        /\ \A q : InFlight(m, q) => q = p /\ s = Uncertain
        /\ \/ UNCHANGED written
           \/ p \in ToolSteps /\ s.phase = "Completed" /\ written' = [written EXCEPT ![p] = @ + 1]
  BY <1>1 DEF Saves
<1>4. journal'[p] = s /\ \A q \in Steps : q # p => journal'[q] = journal[q]
  BY <1>3 DEF FInv, TypesOK, Journal
<1> QED
  BY <1>1, <1>2, <1>3, <1>4

\* A completed step is neither lost nor changed before the outcome.
LEMMA CompletedStays ==
  ASSUME FInv, OutsideEffect \/ \E w \in Workers : \E m : HandlerEffect(w, m),
         NEW p \in Steps, journal[p].phase = "Completed"
  PROVE  journal'[p] = journal[p] \/ Ended'
<1>1. CASE OutsideEffect
  <2>1. CASE Reconciles
    <3>1. PICK q \in Sendable, s \in StepState :
            journal[q] = Uncertain /\ journal' = [journal EXCEPT ![q] = s]
      BY <2>1 DEF Reconciles
    <3>2. q # p
      BY <3>1, StateFacts
    <3> QED
      BY <3>1, <3>2 DEF FInv, TypesOK, Journal
  <2> QED
    BY <1>1, <2>1 DEF OutsideEffect, Rests, Begins, Asks
<1>2. ASSUME NEW w \in Workers, NEW m, HandlerEffect(w, m)
      PROVE  journal'[p] = journal[p] \/ Ended'
  <2>1. CASE Saves(w, m)
    <3>1. PICK q \in Steps, s \in StepState :
            /\ Advances(journal[q], s)
            /\ \A r \in Steps : r # q => journal'[r] = journal[r]
      BY <1>2, <2>1, SavesFacts
    <3>2. q # p
      BY <3>1, StateFacts DEF Advances
    <3> QED
      BY <3>1, <3>2
  <2>2. CASE Ends(w, m)
    <3>1. PICK st \in TerminalRun :
            run' = [run EXCEPT !.status = st, !.tail = "done", !.dones = @ + 1]
      BY <2>2 DEF Ends
    <3>2. run'.status = st
      BY <3>1, RunFields DEF FInv
    <3> QED
      BY <3>2 DEF Ended
  <2>3. CASE Skips(w, m)
    <3>1. journal = Cleared
      BY <2>3, WriterFacts DEF Skips, Returns
    <3> QED
      BY <3>1, StateFacts, JournalFacts
  <2>4. CASE ~Saves(w, m) /\ ~Ends(w, m) /\ ~Skips(w, m)
    BY <1>2, <2>4 DEF HandlerEffect, Loads, Marks, Thinks, Dispatches, Tells, Quits, SameRun
  <2> QED
    BY <2>1, <2>2, <2>3, <2>4
<1> QED
  BY <1>1, <1>2

-----------------------------------------------------------------------------
(* Without a lapse: the outcome is told once *)

LEMMA EndedFacts ==
  ASSUME FInv, Prompt
  PROVE  /\ Ended => run.dones = 1 /\ run.tail = "done"
         /\ ~Ended => run.dones = 0
         /\ Ended => run.status # "absent" /\ run.status # "running" /\ ~Active
         /\ Ended \/ Active \/ run.status = "absent"
<1>1. run.dones \in Nat /\ run.status \in {"absent"} \cup ActiveRun \cup TerminalRun
  BY DEF FInv, TypesOK
<1>2. DoneEndsTheRun
  BY DEF Prompt, RunOK
<1> QED
  BY <1>1, <1>2 DEF DoneEndsTheRun, Ended, ActiveRun, TerminalRun, Active

RunFate ==
  /\ Ended => run'.status = run.status /\ run'.dones = run.dones /\ run'.tail = run.tail
  /\ ~Ended => \/ ~Ended' /\ run'.dones = run.dones
               \/ Ended' /\ run'.dones = run.dones + 1 /\ run'.tail = "done"

LEMMA SameRunFate ==
  ASSUME run'.status = run.status, run'.dones = run.dones, run'.tail = run.tail
  PROVE  RunFate
BY DEF RunFate, Ended

LEMMA RunFateStep ==
  ASSUME FInv, Prompt, OutsideEffect \/ \E w \in Workers : \E m : HandlerEffect(w, m)
  PROVE  RunFate
<1>0. TypesOK
  BY DEF FInv
<1>1. /\ "queued" \notin TerminalRun /\ "running" \notin TerminalRun /\ "absent" \notin TerminalRun
  BY DEF TerminalRun
<1>2. CASE OutsideEffect
  <2>1. CASE Begins
    <3>1. run'.status = "queued" /\ run'.dones = run.dones /\ run.status = "absent"
      BY <1>0, <2>1, RunFields DEF Begins
    <3> QED
      BY <1>1, <3>1 DEF RunFate, Ended
  <2>2. CASE Asks
    BY <1>0, <2>2, RunFields, SameRunFate DEF Asks
  <2>3. CASE Rests \/ Reconciles
    BY <2>3, SameRunFate DEF Rests, Reconciles
  <2> QED
    BY <1>2, <2>1, <2>2, <2>3 DEF OutsideEffect
<1>3. ASSUME NEW w \in Workers, NEW m, HandlerEffect(w, m)
      PROVE  RunFate
  <2>1. CASE Loads(w, m) \/ Thinks(w, m) \/ Dispatches(w, m) \/ Quits(w, m) \/ Skips(w, m)
    BY <2>1, SameRunFate DEF Loads, Thinks, Dispatches, Quits, Skips, SameRun
  <2>2. CASE Marks(w, m)
    <3>1. run.status = exec[w].seen /\ exec[w].seen \in ActiveRun
      BY <2>2 DEF FInv, Prompt, OnTime, MemoryOK, Marks
    <3>2. run' = run \/ run' = [run EXCEPT !.status = "running"]
      BY <2>2 DEF Marks
    <3>3. run'.dones = run.dones /\ ~Ended /\ ~Ended'
      <4>1. run.status \notin TerminalRun
        BY <1>1, <3>1 DEF ActiveRun
      <4>2. run'.dones = run.dones /\ (run'.status = run.status \/ run'.status = "running")
        <5>1. CASE run' = run
          BY <5>1
        <5>2. CASE run' = [run EXCEPT !.status = "running"]
          BY <1>0, <5>2, RunFields
        <5> QED
          BY <3>2, <5>1, <5>2
      <4> QED
        BY <1>1, <4>1, <4>2 DEF Ended
    <3> QED
      BY <3>3 DEF RunFate
  <2>3. CASE Tells(w, m) \/ Saves(w, m)
    <3>1. run.status = "running" /\ (run' = run \/ run' = Appended(run))
      BY <2>3, WriterFacts DEF Tells, Saves
    <3>2. run'.status = "running" /\ run'.dones = run.dones
      BY <1>0, <3>1, RunFields
    <3> QED
      BY <1>1, <3>1, <3>2 DEF RunFate, Ended
  <2>4. CASE Ends(w, m)
    <3>1. run.status = "running"
      BY <2>4, WriterFacts DEF Ends, Returns
    <3>2. PICK st \in TerminalRun :
            run' = [run EXCEPT !.status = st, !.tail = "done", !.dones = @ + 1]
      BY <2>4 DEF Ends
    <3>3. run'.status = st /\ run'.dones = run.dones + 1 /\ run'.tail = "done"
      BY <1>0, <3>2, RunFields
    <3> QED
      BY <1>1, <3>1, <3>3 DEF RunFate, Ended
  <2> QED
    BY <1>3, <2>1, <2>2, <2>3, <2>4 DEF HandlerEffect
<1> QED
  BY <1>2, <1>3

LEMMA RunStep ==
  ASSUME FInv, Prompt, RunFate, JournalFate, RowFate, ClientsFate, TypesOK'
  PROVE  RunOK'
<1>1. Ended => Ended'
  BY DEF RunFate, Ended
<1>2. DoneEndsTheRun'
  BY <1>1, EndedFacts DEF RunFate, JournalFate, DoneEndsTheRun, Ended
<1>3. (run.status = "absent" <=> row[job].status = "absent")
      /\ (canceller \/ reader = "loaded" => run.status # "absent")
  BY DEF FInv, PresentOK
<1>4. ActiveRunHasJob'
  <2>1. SUFFICES ASSUME Active' PROVE row'[job].status \in LiveRow
    BY DEF ActiveRunHasJob, LiveRow
  <2>2. run'.status \notin TerminalRun /\ run'.status # "absent"
    BY <2>1 DEF Active, ActiveRun, TerminalRun
  <2>3. CASE Begins
    BY <2>3 DEF Begins, LiveRow
  <2>4. CASE ~Begins
    <3>1. ~Ended /\ run.status # "absent"
      BY <1>1, <2>2, <2>4 DEF JournalFate, Ended
    <3>2. Active
      BY <3>1, EndedFacts
    <3>3. row[job].status \in LiveRow
      BY <3>2 DEF Prompt, RunOK, ActiveRunHasJob, LiveRow
    <3>4. \A v \in Workers : worker[v].pc # "completing"
      BY <3>1 DEF Prompt, OnTime
    <3> QED
      BY <3>3, <3>4 DEF RowFate
  <2> QED
    BY <2>3, <2>4
<1>5. reader = "defect" => Ended
  BY DEF Prompt, RunOK, ProjectionMissesOnlyTheEnd, Ended
<1>6. reader' = "defect" => Ended'
  <2>1. row[job].status \notin LiveRow => ~Active
    BY DEF Prompt, RunOK, ActiveRunHasJob, LiveRow
  <2>2. row[job].status \notin LiveRow /\ run.status # "absent" => Ended
    BY <2>1, EndedFacts
  <2> QED
    BY <1>1, <1>3, <1>5, <2>2 DEF ClientsFate
<1> QED
  BY <1>2, <1>4, <1>6 DEF RunOK, ProjectionMissesOnlyTheEnd, Ended

\* Nobody is late, whoever moves.
LEMMA OnTimeStep ==
  ASSUME NoStall, FInv, Prompt, QP!TidyStep, RowFate, RunFate,
         OutsideEffect \/ \E w \in Workers : \E m : HandlerEffect(w, m),
         NEW v \in Workers
  PROVE  OnTime(v)'
<1>0. OnTime(v) /\ InStep(v) /\ InStep(v)' /\ TypesOK /\ worker \in [Workers -> QP!Worker]
  BY InStepStep DEF FInv, Prompt, QP!Tidy
<1>1. Ended => Ended' /\ run'.status = run.status
  BY DEF RunFate, Ended
\* It stays where it is, and nobody moves the status under it.
<1>2. ASSUME exec'[v] = exec[v],
             worker'[v].pc = "completing" => worker[v].pc = "completing",
             QP!Holds(v) /\ exec[v].at = "mark" => run'.status = run.status
      PROVE  OnTime(v)'
  <2>1. exec'[v].at \in {"load", "mark"} => QP!Holds(v) /\ worker'[v].pc = "executing"
    BY <1>0, <1>2 DEF OnTime, InStep
  <2>2. exec'[v].at \in {"load", "mark"} => QP!Holds(v)'
    BY <1>2, <2>1 DEF RowFate
  <2> QED
    BY <1>0, <1>1, <1>2, <2>1, <2>2 DEF OnTime
<1>3. CASE OutsideEffect
  <2>1. OutsideWorker(v)
    BY <1>3 DEF OutsideEffect
  <2>2. CASE exec'[v] = exec[v]
    <3>1. QP!Holds(v) => run'.status = run.status
      <4>1. QP!Holds(v) => run.status # "absent"
        BY Holder DEF FInv, PresentOK
      <4> QED
        BY <1>0, <1>3, <4>1, RunFields DEF OutsideEffect, Rests, Begins, Asks, Reconciles
    <3> QED
      BY <1>2, <2>1, <2>2, <3>1 DEF OutsideWorker
  <2>3. CASE /\ exec'[v] = [NotExecuting EXCEPT !.at = "load"]
             /\ worker'[v].pc = "executing" /\ QP!Holds(v)'
    <3>1. exec'[v].at = "load"
      BY <2>3, LoadingOK
    <3> QED
      BY <2>3, <3>1 DEF OnTime
  <2>4. CASE exec'[v] = NotExecuting /\ worker'[v].pc # "executing"
    <3>1. exec'[v].at = "none"
      BY <2>4, NotExecutingOK
    <3> QED
      BY <1>0, <1>1, <2>1, <3>1 DEF OnTime, OutsideWorker
  <2> QED
    BY <2>1, <2>2, <2>3, <2>4 DEF OutsideWorker
<1>4. ASSUME NEW w \in Workers, NEW m, HandlerEffect(w, m)
      PROVE  OnTime(v)'
  <2>0. /\ exec'[w] = m /\ worker[w].pc = "executing"
        /\ v # w => exec'[v] = exec[v] /\ worker'[v] = worker[v]
    BY <1>4, HandlerFrame DEF HandlerEffect, Moves
  <2>1. CASE v # w
    <3>1. QP!Holds(v) => run'.status = run.status
      <4>1. ASSUME QP!Holds(v)
            PROVE  UNCHANGED run
        <5>1. ~QP!Holds(w)
          BY <2>1, <4>1, Holder
        <5>2. ~Marks(w, m)
          BY <5>1 DEF Marks, Prompt, OnTime
        <5> QED
          BY <1>4, <5>1, <5>2, OnlyTheHolderWrites
      <4> QED
        BY <4>1
    <3> QED
      BY <1>2, <2>0, <2>1, <3>1
  <2>2. CASE v = w /\ Loads(v, m)
    <3>1. /\ worker' = worker /\ UNCHANGED run /\ exec[v].at = "load"
          /\ m.seen = run.status /\ m.at = IF Active THEN "mark" ELSE "clear"
      BY <2>2 DEF Loads, SameRun
    <3>2. QP!Holds(v)'
      BY <1>0, <2>0, <2>2, <3>1 DEF OnTime, RowFate
    <3>3. m.at = "clear" => Ended'
      <4>1. run.status # "absent"
        BY <2>0, <2>2, HasRun
      <4> QED
        BY <3>1, <4>1, EndedFacts DEF Ended
    <3> QED
      BY <2>0, <2>2, <3>1, <3>2, <3>3 DEF OnTime
  <2>3. CASE /\ v = w
             /\ Marks(v, m) \/ Thinks(v, m) \/ Dispatches(v, m) \/ Tells(v, m) \/ Saves(v, m)
    <3>1. worker' = worker /\ m.at \notin {"load", "mark", "clear"}
      BY <2>3, PointFacts DEF Marks, Thinks, Dispatches, Tells, Saves, GoesOn
    <3> QED
      BY <2>0, <2>3, <3>1 DEF OnTime
  <2>4. CASE v = w /\ (Ends(v, m) \/ Skips(v, m) \/ Quits(v, m))
    <3>1. m.at = "none"
      BY <2>4, NotExecutingOK DEF Ends, Skips, Quits, Returns
    <3>2. Ends(v, m) => Ended'
      <4>1. ASSUME NEW st \in TerminalRun,
                   run' = [run EXCEPT !.status = st, !.tail = "done", !.dones = @ + 1]
            PROVE  Ended'
        BY <1>0, <4>1, RunFields DEF Ended
      <4> QED
        BY <4>1 DEF Ends
    <3>3. Skips(v, m) => Ended'
      BY <1>0, <1>1 DEF Skips, OnTime
    <3>4. Quits(v, m) => worker'[v].pc # "completing"
      BY <1>0 DEF Quits, Queue!Goto, QP!Worker
    <3> QED
      BY <2>0, <2>4, <3>1, <3>2, <3>3, <3>4 DEF OnTime
  <2> QED
    BY <1>4, <2>1, <2>2, <2>3, <2>4 DEF HandlerEffect
<1> QED
  BY <1>3, <1>4

-----------------------------------------------------------------------------
(* Without a lapse: requests are billed once, writes happen once *)

LEMMA WrittenStep ==
  ASSUME FInv, Prompt, RunFate, OutsideEffect \/ \E w \in Workers : \E m : HandlerEffect(w, m),
         NEW p \in ToolSteps
  PROVE  WrittenOK(p)'
<1>0. WrittenOK(p) /\ p \in Steps /\ written \in [ToolSteps -> Nat]
  BY StepNames DEF FInv, Prompt, TypesOK
<1>1. Ended => Ended'
  BY DEF RunFate, Ended
<1>2. CASE written'[p] = written[p]
  <2>1. journal[p].phase = "Completed" => journal'[p].phase = "Completed" \/ Ended'
    BY <1>0, CompletedStays
  <2> QED
    BY <1>0, <1>1, <1>2, <2>1 DEF WrittenOK
<1>3. CASE written'[p] # written[p]
  <2>1. PICK w \in Workers : \E m : HandlerEffect(w, m) /\ Saves(w, m)
    BY <1>3 DEF OutsideEffect, HandlerEffect, Loads, Marks, Thinks, Dispatches, Tells, Ends, Skips,
       Quits, Returns, SameRun
  <2>2. PICK m : HandlerEffect(w, m) /\ Saves(w, m)
    BY <2>1
  <2>3. PICK q \in Steps, s \in StepState :
          /\ Advances(journal[q], s) /\ journal'[q] = s /\ ~Ended
          /\ \/ UNCHANGED written
             \/ q \in ToolSteps /\ s.phase = "Completed" /\ written' = [written EXCEPT ![q] = @ + 1]
    BY <2>2, SavesFacts
  <2>4. q = p /\ s.phase = "Completed" /\ written' = [written EXCEPT ![p] = @ + 1]
    BY <1>0, <1>3, <2>3
  <2>5. journal[p].phase # "Completed"
    BY <2>3, <2>4, StateFacts DEF Advances
  <2>6. written[p] = 0
    BY <1>0, <2>3, <2>5 DEF WrittenOK
  <2>7. written'[p] = 1
    BY <1>0, <2>4, <2>6
  <2> QED
    BY <2>3, <2>4, <2>7 DEF WrittenOK
<1> QED
  BY <1>2, <1>3

\* A billed step stays so when no request is added to those that left or will.
LEMMA BilledKept ==
  ASSUME FInv, Prompt, RunFate, TypesOK', NEW p \in Sendable, IsFiniteSet(About(p)'),
         sent'[p] + Cardinality(About(p)') <= sent[p] + Cardinality(About(p)),
         \/ proofs'[p] = proofs[p] /\ (journal'[p] \in {Unknown, Prepared} =>
                                         journal[p] \in {Unknown, Prepared} \/ Ended')
         \/ proofs'[p] = proofs[p] + 1
  PROVE  BilledOK(p)'
<1>1. Ended => Ended'
  BY DEF RunFate, Ended
<1>2. BilledOK(p) /\ sent[p] \in Nat /\ sent'[p] \in Nat /\ proofs[p] \in Nat /\ proofs'[p] \in Nat
  BY DEF FInv, Prompt, TypesOK
<1>3. Cardinality(About(p)) \in Nat /\ Cardinality(About(p)') \in Nat
  BY <1>2, FS_CardinalityType DEF BilledOK
<1> QED
  BY <1>1, <1>2, <1>3 DEF BilledOK

LEMMA AboutShrinks ==
  ASSUME FInv, Prompt, NEW p \in Sendable, \A v \in Workers : InFlight(exec'[v], p) => InFlight(exec[v], p)
  PROVE  IsFiniteSet(About(p)') /\ Cardinality(About(p)') <= Cardinality(About(p))
<1>1. About(p)' \subseteq About(p)
  BY DEF About
<1>2. IsFiniteSet(About(p))
  BY DEF Prompt, BilledOK
<1> QED
  BY <1>1, <1>2, FS_Subset

LEMMA BilledStep ==
  ASSUME FInv, Prompt, RunFate, TypesOK', NEW p \in Sendable,
         OutsideEffect \/ \E w \in Workers : \E m : HandlerEffect(w, m)
  PROVE  BilledOK(p)'
<1>0. /\ BilledOK(p) /\ p \in Steps /\ sent \in [Sendable -> Nat] /\ proofs \in [Sendable -> Nat]
      /\ sent[p] \in Nat /\ proofs[p] \in Nat /\ IsFiniteSet(About(p))
  BY StepNames DEF FInv, Prompt, TypesOK, BilledOK
<1>1. Cardinality(About(p)) \in Nat /\ (IsFiniteSet(About(p)') => Cardinality(About(p)') \in Nat)
  BY <1>0, FS_CardinalityType
<1>2. CASE OutsideEffect
  <2>1. \A v \in Workers : InFlight(exec'[v], p) => InFlight(exec[v], p)
    BY <1>2, LoadingOK, NotExecutingOK DEF OutsideEffect, OutsideWorker
  <2>2. /\ IsFiniteSet(About(p)')
        /\ sent'[p] + Cardinality(About(p)') <= sent[p] + Cardinality(About(p))
    BY <1>0, <1>1, <1>2, <2>1, AboutShrinks DEF OutsideEffect
  <2>3. CASE Reconciles
    <3>1. PICK q \in Sendable, s \in StepState :
            /\ journal' = [journal EXCEPT ![q] = s]
            /\ \/ s = Prepared /\ proofs' = [proofs EXCEPT ![q] = @ + 1]
               \/ s.phase = "Completed" /\ UNCHANGED proofs
      BY <2>3 DEF Reconciles
    <3>2. journal'[p] = IF p = q THEN s ELSE journal[p]
      BY <1>0, <3>1 DEF FInv, TypesOK, Journal
    <3>3. \/ proofs'[p] = proofs[p] /\ (journal'[p] \in {Unknown, Prepared} =>
                                          journal[p] \in {Unknown, Prepared})
          \/ proofs'[p] = proofs[p] + 1
      BY <1>0, <3>1, <3>2, StateFacts
    <3> QED
      BY <2>2, <3>3, BilledKept
  <2> QED
    BY <1>2, <2>2, <2>3, BilledKept DEF OutsideEffect, Rests, Begins, Asks
<1>3. ASSUME NEW w \in Workers, NEW m, HandlerEffect(w, m)
      PROVE  BilledOK(p)'
  <2>0. /\ exec'[w] = m /\ \A v \in Workers \ {w} : exec'[v] = exec[v]
        /\ UNCHANGED proofs
    BY <1>3, HandlerFrame DEF HandlerEffect, Moves
  <2>1. CASE Loads(w, m) \/ Marks(w, m) \/ Thinks(w, m) \/ Tells(w, m) \/ Quits(w, m)
    <3>1. InFlight(m, p) => InFlight(exec[w], p)
      BY <2>1, NotExecutingOK DEF Loads, Marks, Thinks, GoesOn, Tells, Quits, InFlight
    <3>2. IsFiniteSet(About(p)') /\ Cardinality(About(p)') <= Cardinality(About(p))
      BY <2>0, <3>1, AboutShrinks
    <3>3. UNCHANGED <<sent, journal>>
      BY <2>1 DEF Loads, Marks, Thinks, Tells, Quits, SameRun
    <3>4. sent'[p] + Cardinality(About(p)') <= sent[p] + Cardinality(About(p))
      BY <1>0, <1>1, <3>2, <3>3
    <3> QED
      BY <2>0, <3>2, <3>3, <3>4, BilledKept
  <2>2. CASE Ends(w, m) \/ Skips(w, m)
    <3>1. ~InFlight(m, p) /\ UNCHANGED sent
      BY <2>2, NotExecutingOK DEF Ends, Skips, Returns
    <3>2. IsFiniteSet(About(p)') /\ Cardinality(About(p)') <= Cardinality(About(p))
      BY <2>0, <3>1, AboutShrinks
    <3>3. Ended'
      <4>1. CASE Ends(w, m)
        <5>1. PICK st \in TerminalRun :
                run' = [run EXCEPT !.status = st, !.tail = "done", !.dones = @ + 1]
          BY <4>1 DEF Ends
        <5> QED
          BY <5>1 DEF Ended, FInv, TypesOK
      <4>2. CASE Skips(w, m)
        <5>1. Ended
          BY <4>2 DEF Skips, Prompt, OnTime
        <5> QED
          BY <5>1 DEF RunFate, Ended
      <4> QED
        BY <2>2, <4>1, <4>2
    <3>4. sent'[p] + Cardinality(About(p)') <= sent[p] + Cardinality(About(p))
      BY <1>0, <1>1, <3>1, <3>2
    <3> QED
      BY <2>0, <3>2, <3>3, <3>4, BilledKept
  <2>3. CASE Dispatches(w, m)
    <3>1. PICK q \in Sendable : /\ \A r : InFlight(exec[w], r) <=> r = q
                                /\ sent' = [sent EXCEPT ![q] = @ + 1]
      BY <2>3 DEF Dispatches
    <3>2. ~InFlight(m, p) /\ UNCHANGED journal
      BY <2>3 DEF Dispatches, GoesOn
    <3>3. IsFiniteSet(About(p)') /\ Cardinality(About(p)') <= Cardinality(About(p))
      BY <2>0, <3>2, AboutShrinks
    <3>4. CASE q # p
      <4>1. sent'[p] = sent[p]
        BY <1>0, <3>1, <3>4
      <4>2. sent'[p] + Cardinality(About(p)') <= sent[p] + Cardinality(About(p))
        BY <1>0, <1>1, <3>3, <4>1
      <4> QED
        BY <2>0, <3>2, <3>3, <4>2, BilledKept
    <3>5. CASE q = p
      <4>1. sent'[p] = sent[p] + 1 /\ w \in About(p)
        BY <1>0, <3>1, <3>5 DEF About
      <4>2. About(p)' = About(p) \ {w}
        BY <2>0, <3>2 DEF About
      <4>3. Cardinality(About(p)') = Cardinality(About(p)) - 1
        BY <1>0, <4>1, <4>2, FS_RemoveElement
      <4>4. sent'[p] + Cardinality(About(p)') <= sent[p] + Cardinality(About(p))
        BY <1>0, <1>1, <4>1, <4>3
      <4> QED
        BY <2>0, <3>2, <3>3, <4>4, BilledKept
    <3> QED
      BY <3>4, <3>5
  <2>4. CASE Saves(w, m)
    <3>1. PICK q \in Steps, s \in StepState :
            /\ Advances(journal[q], s) /\ ~Ended /\ UNCHANGED sent
            /\ journal'[q] = s /\ \A r \in Steps : r # q => journal'[r] = journal[r]
            /\ \A r : InFlight(m, r) => r = q /\ s = Uncertain
      BY <1>3, <2>4, SavesFacts
    <3>2. CASE ~InFlight(m, p)
      <4>1. IsFiniteSet(About(p)') /\ Cardinality(About(p)') <= Cardinality(About(p))
        BY <2>0, <3>2, AboutShrinks
      <4>2. journal'[p] \in {Unknown, Prepared} => journal[p] \in {Unknown, Prepared}
        BY <1>0, <3>1, StateFacts DEF Advances
      <4>3. sent'[p] + Cardinality(About(p)') <= sent[p] + Cardinality(About(p))
        BY <1>0, <1>1, <3>1, <4>1
      <4> QED
        BY <2>0, <4>1, <4>2, <4>3, BilledKept
    <3>3. CASE InFlight(m, p)
      <4>1. p = q /\ s = Uncertain /\ journal[p] = Prepared /\ journal'[p] = Uncertain
        BY <3>1, <3>3, StateFacts DEF Advances
      <4>2. sent[p] + Cardinality(About(p)) <= proofs[p]
        BY <1>0, <3>1, <4>1 DEF BilledOK
      <4>3. ~InFlight(exec[w], p)
        BY <2>4 DEF Saves
      <4>4. About(p)' = About(p) \cup {w} /\ w \notin About(p)
        BY <2>0, <3>3, <4>3 DEF About
      <4>5. IsFiniteSet(About(p)') /\ Cardinality(About(p)') = Cardinality(About(p)) + 1
        BY <1>0, <4>4, FS_AddElement
      <4>6. sent'[p] + Cardinality(About(p)') <= proofs'[p] + 1
        BY <1>0, <1>1, <2>0, <3>1, <4>2, <4>5
      <4> QED
        BY <4>1, <4>5, <4>6, StateFacts DEF BilledOK
    <3> QED
      BY <3>2, <3>3
  <2> QED
    BY <1>3, <2>1, <2>2, <2>3, <2>4 DEF HandlerEffect
<1> QED
  BY <1>2, <1>3

-----------------------------------------------------------------------------
-----------------------------------------------------------------------------
(* The inductive invariants *)

LEMMA InitHolds ==
  ASSUME Init
  PROVE  FInv /\ Prompt
<1>1. QP!Tidy
  <2>1. QP!Init
    BY SameQueue DEF Init
  <2> QED
    BY <2>1, QP!InitTidy, QueueAssumptions
<1>2. /\ row[job].status = "absent" /\ \A w \in Workers : worker[w].pc = "idle"
  BY DEF Init, Queue!Init, Queue!Fresh, Queue!Unclaimed, Queue!Idle
<1>3. \A w \in Workers : ~QP!Holds(w)
  BY <1>1, <1>2, HoldsFacts
<1>4. /\ run = [status |-> "absent", cancel |-> FALSE, tail |-> "none", dones |-> 0]
      /\ journal = Cleared /\ calls = <<>> /\ canceller = FALSE /\ reader = "idle"
      /\ exec = [w \in Workers |-> NotExecuting]
      /\ sent = [p \in Sendable |-> 0] /\ proofs = [p \in Sendable |-> 0]
      /\ written = [p \in ToolSteps |-> 0]
      /\ spent = [j \in {job} |-> 0]
  BY DEF Init, Sendable, Queue!Init
<1>5. TypesOK
  <2>1. run \in [status: {"absent"} \cup ActiveRun \cup TerminalRun, cancel: BOOLEAN,
                 tail: {"none", "event", "done"}, dones: Nat]
    BY <1>4
  <2>2. exec \in [Workers -> Executor] /\ journal \in Journal
    BY <1>4, NotExecutingOK, JournalFacts DEF MemoryOK
  <2>3. calls \in Seq([turn: 1..Turns, outcome: {"open", "succeeded", "failed"}])
    BY <1>4
  <2>4. sent \in [Sendable -> Nat] /\ proofs \in [Sendable -> Nat] /\ written \in [ToolSteps -> Nat]
    BY <1>4
  <2>5. spent \in [{job} -> Nat] /\ canceller \in BOOLEAN /\ reader \in {"idle", "loaded", "defect"}
    BY <1>4
  <2> QED
    BY <2>1, <2>2, <2>3, <2>4, <2>5 DEF TypesOK
<1>6. RunOK /\ PresentOK /\ (Ended => journal = Cleared)
  BY <1>2, <1>4 DEF RunOK, PresentOK, Ended, ActiveRunHasJob, DoneEndsTheRun,
     ProjectionMissesOnlyTheEnd, Active, ActiveRun, TerminalRun
<1>7. \A w \in Workers : /\ exec[w] = NotExecuting /\ MemoryOK(exec[w])
                         /\ InStep(w) /\ OnTime(w)
  <2>1. \A w \in Workers : exec[w] = NotExecuting
    BY <1>4
  <2> QED
    BY <1>2, <1>3, <2>1, NotExecutingOK DEF InStep, OnTime
<1>8. ASSUME NEW p \in Sendable
      PROVE  BilledOK(p)
  <2>1. About(p) = {}
    BY <1>7, NotExecutingOK DEF About
  <2>2. IsFiniteSet(About(p)) /\ Cardinality(About(p)) = 0
    BY <2>1, FS_EmptySet
  <2>3. sent[p] = 0 /\ proofs[p] = 0
    BY <1>4
  <2> QED
    BY <2>2, <2>3 DEF BilledOK
<1>9. \A p \in ToolSteps : WrittenOK(p)
  BY <1>4 DEF WrittenOK
<1> QED
  BY <1>1, <1>3, <1>5, <1>6, <1>7, <1>8, <1>9 DEF FInv, Prompt, LatestClaim, Resting

\* What one step does, in the terms of the lemmas.
LEMMA StepFacts ==
  ASSUME FInv, [Next]_vars
  PROVE  /\ QP!TidyStep /\ RowFate /\ JournalFate /\ ClientsFate
         /\ OutsideEffect \/ \E w \in Workers : \E m : HandlerEffect(w, m)
<1>1. QP!TidyStep
  BY QueueStep
<1>2. OutsideEffect \/ \E w \in Workers : \E m : HandlerEffect(w, m)
  BY <1>1, NextEffect
<1>3. RowFate /\ ClientsFate
  BY <1>1, RowFateStep, ClientsStep
<1>4. JournalFate
  BY <1>2, JournalFateStep
<1> QED
  BY <1>1, <1>2, <1>3, <1>4

\* The fences keep their invariant whatever lapses.
LEMMA FencedStep ==
  ASSUME FInv, [Next]_vars
  PROVE  FInv' /\ TypesOK'
<1>1. /\ QP!TidyStep /\ RowFate /\ JournalFate /\ ClientsFate
      /\ OutsideEffect \/ \E w \in Workers : \E m : HandlerEffect(w, m)
  BY StepFacts
<1>2. TypesOK'
  BY <1>1, LedgerStep, SpentStep, TypesStep
<1>3. Resting' /\ \A v \in Workers : MemoryOK(exec[v])'
  BY <1>1, MemoryStep
<1>4. PresentOK' /\ (Ended => journal = Cleared)'
  BY <1>1, <1>2, PresentStep
<1>5. \A v \in Workers : InStep(v)'
  BY <1>1, InStepStep
<1>6. LatestClaim'
  BY <1>1, LatestStep
<1> QED
  BY <1>1, <1>2, <1>3, <1>4, <1>5, <1>6 DEF FInv, QP!TidyStep

\* Without a lapse before mark_running, the rest holds too.
LEMMA PromptStep ==
  ASSUME NoStall, FInv, Prompt, [Next]_vars
  PROVE  Prompt'
<1>1. /\ QP!TidyStep /\ RowFate /\ JournalFate /\ ClientsFate
      /\ OutsideEffect \/ \E w \in Workers : \E m : HandlerEffect(w, m)
  BY StepFacts
<1>2. RunFate /\ TypesOK'
  BY <1>1, RunFateStep, FencedStep
<1>3. RunOK'
  BY <1>1, <1>2, RunStep
<1>4. \A v \in Workers : OnTime(v)'
  BY <1>1, <1>2, OnTimeStep
<1>5. \A p \in Sendable : BilledOK(p)'
  BY <1>1, <1>2, BilledStep
<1>6. \A p \in ToolSteps : WrittenOK(p)'
  BY <1>1, <1>2, WrittenStep
<1> QED
  BY <1>3, <1>4, <1>5, <1>6 DEF Prompt

-----------------------------------------------------------------------------
(* What holds of every execution, a lapse before mark_running included *)

\* FInv is an invariant of every execution.
THEOREM FencedInvariant == Spec => []FInv
<1>1. Init => FInv
  BY InitHolds
<1>2. FInv /\ [Next]_vars => FInv'
  BY FencedStep
<1> QED
  BY <1>1, <1>2, PTL DEF Spec

\* Every variable keeps its type.
THEOREM TypeCorrect == Spec => []TypeOK
<1>1. FInv => TypeOK
  <2> SUFFICES ASSUME FInv PROVE TypeOK
    OBVIOUS
  <2>1. /\ row \in [{job} -> QP!Row] /\ worker \in [Workers -> QP!Worker]
        /\ claims \in [{job} -> Nat]
    BY DEF FInv, QP!Tidy
  <2>2. QP!Row = Queue!Row /\ QP!Worker = Queue!Worker
    BY DEF QP!Row, Queue!Row, QP!Worker, Queue!Worker, QP!Status, Queue!Status, QP!Waiting,
       Queue!Waiting, QP!Terminal, Queue!Terminal, QP!Phases, Queue!Phases
  <2>3. Queue!TypeOK
    BY <2>1, <2>2 DEF Queue!TypeOK, FInv, TypesOK
  <2> QED
    BY <2>3 DEF TypeOK, FInv, TypesOK, Journal, Sendable
<1> QED
  BY <1>1, FencedInvariant, PTL

\* A completed step stays as it is until the run has its outcome, whichever
\* executor replaces the payload by its own copy (_checkpoint).
THEOREM ReplayInputIsKept == Spec => CompletedIsKept
<1> DEFINE Kept == \A p \in Steps : journal[p].phase = "Completed" =>
                     journal'[p] = journal[p] \/ run'.status \in TerminalRun
<1>1. FInv /\ [Next]_vars => Kept
  <2> SUFFICES ASSUME FInv, [Next]_vars, NEW p \in Steps, journal[p].phase = "Completed"
               PROVE  journal'[p] = journal[p] \/ Ended'
    BY DEF Ended
  <2>1. OutsideEffect \/ \E w \in Workers : \E m : HandlerEffect(w, m)
    BY StepFacts
  <2> QED
    BY <2>1, CompletedStays
<1>2. FInv /\ [Next]_vars => [Kept]_vars
  BY <1>1
<1> QED
  BY <1>2, FencedInvariant, PTL DEF Spec, CompletedIsKept

\* An executor whose claim was taken over writes no journal, and of the run no
\* more than the status "running", at mark_running: every other transaction of
\* its handler is fenced by the claim it lost.
StaleMarksAtMost ==
  [][\A w \in Workers :
       /\ worker[w].job = job /\ worker[w].token # claims[job]
       /\ exec'[w] # exec[w]
       => /\ journal' = journal
          /\ \/ run' = run
             \/ exec[w].at = "mark" /\ run' = [run EXCEPT !.status = "running"]]_vars

LEMMA StaleStep ==
  ASSUME FInv, [Next]_vars, NEW w \in Workers,
         worker[w].job = job, worker[w].token # claims[job], exec'[w] # exec[w]
  PROVE  journal' = journal /\ (run' = run \/ \E m : HandlerEffect(w, m) /\ Marks(w, m))
<1>1. ~QP!Holds(w)
  BY DEF FInv, LatestClaim
<1>2. CASE Client \/ Operator
  BY <1>2 DEF Client, CreateRun, CancelSuspended, BeginCancel, CommitCancel,
     LoadForProjection, Project, Operator, Repair, ProveNotDispatched, AttachResult
<1>3. CASE Tick \/ UNCHANGED vars
  BY <1>3 DEF Tick, OnlyQueueMoves, vars
<1>4. ASSUME NEW v \in Workers, Take(v) \/ EnterHandler(v) \/ Settle(v) \/ Interference(v) \/ Crash(v)
      PROVE  run' = run /\ journal' = journal
  BY <1>4 DEF Take, EnterHandler, Settle, Interference, Crash, OnlyQueueMoves
<1>5. ASSUME NEW v \in Workers, HandlerStep(v) \/ Defect(v)
      PROVE  journal' = journal /\ (run' = run \/ \E m : HandlerEffect(w, m) /\ Marks(w, m))
  <2>1. PICK m : HandlerEffect(v, m)
    BY <1>5, HandlerStepEffect
  <2>2. v = w
    BY <2>1, HandlerFrame
  <2> QED
    BY <1>1, <2>1, <2>2, OnlyTheHolderWrites
<1> QED
  BY <1>2, <1>3, <1>4, <1>5 DEF Next, WorkerStep

\* The missing fence of mark_running is the only hole: StaleStep, of every
\* execution.
THEOREM StaleExecutorsOnlyMark == Spec => StaleMarksAtMost
<1> DEFINE AtMost == \A w \in Workers :
             /\ worker[w].job = job /\ worker[w].token # claims[job]
             /\ exec'[w] # exec[w]
             => /\ journal' = journal
                /\ \/ run' = run
                   \/ exec[w].at = "mark" /\ run' = [run EXCEPT !.status = "running"]
<1>1. FInv /\ [Next]_vars => AtMost
  <2> SUFFICES ASSUME FInv, [Next]_vars, NEW w \in Workers,
                      worker[w].job = job, worker[w].token # claims[job], exec'[w] # exec[w]
               PROVE  /\ journal' = journal
                      /\ \/ run' = run
                         \/ exec[w].at = "mark" /\ run' = [run EXCEPT !.status = "running"]
    OBVIOUS
  <2>1. journal' = journal /\ (run' = run \/ \E m : Marks(w, m))
    BY StaleStep
  <2>2. (\E m : Marks(w, m)) => /\ exec[w].at = "mark"
                                /\ run' = run \/ run' = [run EXCEPT !.status = "running"]
    BY DEF Marks
  <2> QED
    BY <2>1, <2>2
<1>2. FInv /\ [Next]_vars => [AtMost]_vars
  BY <1>1
<1> QED
  BY <1>2, FencedInvariant, PTL DEF Spec, StaleMarksAtMost

-----------------------------------------------------------------------------
(* What holds as long as no lease lapses before mark_running *)

\* FInv and Prompt together are an invariant when mark_running cannot be late.
THEOREM Invariant ==
  ASSUME NoStall
  PROVE  Spec => [](FInv /\ Prompt)
<1>1. Init => FInv /\ Prompt
  BY InitHolds
<1>2. FInv /\ Prompt /\ [Next]_vars => (FInv /\ Prompt)'
  BY FencedStep, PromptStep
<1> QED
  BY <1>1, <1>2, PTL DEF Spec

\* A request to a provider leaves once, and once more for every proof that it
\* did not (ReplayPolicy.BilledOnce): each one that left or will has its own
\* commit of mark_uncertain.
THEOREM RequestsAreBilledOnce ==
  ASSUME NoStall
  PROVE  Spec => []BilledOnce
<1>1. FInv /\ Prompt => BilledOnce
  <2> SUFFICES ASSUME FInv, Prompt, NEW p \in Sendable
               PROVE  sent[p] <= 1 + proofs[p]
    BY DEF BilledOnce, FInv, TypesOK
  <2>1. BilledOK(p) /\ sent[p] \in Nat /\ proofs[p] \in Nat
    BY DEF FInv, Prompt, TypesOK
  <2>2. Cardinality(About(p)) \in Nat
    BY <2>1, FS_CardinalityType DEF BilledOK
  <2> QED
    BY <2>1, <2>2 DEF BilledOK
<1> QED
  BY <1>1, Invariant, PTL

\* A tool's write is committed once: it shares its transaction with Completed.
THEOREM WritesHappenOnce ==
  ASSUME NoStall
  PROVE  Spec => []WrittenOnce
<1>1. FInv /\ Prompt => WrittenOnce
  <2> SUFFICES ASSUME FInv, Prompt, NEW p \in ToolSteps
               PROVE  written[p] <= 1
    BY DEF WrittenOnce, FInv, TypesOK
  <2>1. WrittenOK(p)
    BY DEF Prompt
  <2> QED
    BY <2>1 DEF WrittenOK
<1> QED
  BY <1>1, Invariant, PTL

\* A run without an outcome has a job that goes on with it, or waits for an
\* operator (create_chat_run, finalize_run and clear in one transaction).
THEOREM ActiveRunsHaveJobs ==
  ASSUME NoStall
  PROVE  Spec => []ActiveRunHasJob
<1>1. Prompt => ActiveRunHasJob
  BY DEF Prompt, RunOK
<1> QED
  BY <1>1, Invariant, PTL

\* The stream ends in one done event, told with the status and the cleared
\* journal (finalize_run).
THEOREM OutcomeIsToldOnce ==
  ASSUME NoStall
  PROVE  Spec => []DoneEndsTheRun
<1>1. Prompt => DoneEndsTheRun
  BY DEF Prompt, RunOK
<1> QED
  BY <1>1, Invariant, PTL

\* The projection's assertion fires for no run but one that ended between its
\* two reads (project_chat_run_executions).
THEOREM ProjectionsAreSound ==
  ASSUME NoStall
  PROVE  Spec => []ProjectionMissesOnlyTheEnd
<1>1. Prompt => ProjectionMissesOnlyTheEnd
  BY DEF Prompt, RunOK
<1> QED
  BY <1>1, Invariant, PTL

\* A worker that lost the job to a later claim writes neither chat_runs nor the
\* journal: it is past mark_running.
THEOREM StaleExecutorsAreHarmless ==
  ASSUME NoStall
  PROVE  Spec => StaleExecutorIsHarmless
<1> DEFINE Harmless == \A w \in Workers :
             /\ worker[w].job = job /\ worker[w].token # claims[job]
             /\ exec'[w] # exec[w]
             => run' = run /\ journal' = journal
<1>1. FInv /\ Prompt /\ [Next]_vars => Harmless
  <2> SUFFICES ASSUME FInv, Prompt, [Next]_vars, NEW w \in Workers,
                      worker[w].job = job, worker[w].token # claims[job], exec'[w] # exec[w]
               PROVE  run' = run /\ journal' = journal
    OBVIOUS
  <2>1. exec[w].at # "mark"
    BY DEF FInv, LatestClaim, Prompt, OnTime
  <2>2. ~(\E m : HandlerEffect(w, m) /\ Marks(w, m))
    BY <2>1 DEF Marks
  <2> QED
    BY <2>2, StaleStep
<1>2. FInv /\ Prompt /\ [Next]_vars => [Harmless]_vars
  BY <1>1
<1> QED
  BY <1>2, Invariant, PTL DEF Spec, StaleExecutorIsHarmless

=============================================================================
