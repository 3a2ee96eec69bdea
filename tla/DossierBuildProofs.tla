-------------------------- MODULE DossierBuildProofs --------------------------
(* What holds of DossierBuild for any builds, workers and bounds: a build has  *)
(* one end, a step of it is billed once, a revision is the answer to what its  *)
(* manifest lists, and an active build has a job.                              *)
EXTENDS DossierBuild, FiniteSetTheorems, TLAPS

-----------------------------------------------------------------------------
(* What makes the invariants inductive *)

\* w is at a job, and the row of the job still says so.
Holds(w) == worker[w].pc # "idle" /\ Queue!Owns(w, worker[w].job)

\* The queue: a worker at a job has a row there, and if the row is still its
\* claim then it is the very attempt, so that the weak fence of complete_job is
\* as good as that of the checkpoints.
QueueOK ==
  /\ row \in [Builds -> Queue!Row]
  /\ worker \in [Workers -> Queue!Worker]
  /\ claims \in [Builds -> Nat]
  /\ \A w \in Workers :
       LET b == worker[w].job IN
       /\ (worker[w].pc = "idle") <=> (b = NoBuild)
       /\ b # NoBuild => row[b].status # "absent"
       /\ Holds(w) => row[b].attempts = worker[w].attempt

TypesOK ==
  /\ build \in [Builds -> Build]
  /\ journal \in [Builds -> [Steps -> Step]]
  /\ sent \in [Builds -> [Steps -> Nat]]
  /\ exec \in [Workers -> Executor]
  /\ head \in [exists: BOOLEAN, current: Builds \cup {NoBuild}]
  /\ subject \in [inputs: Versions, visible: BOOLEAN]

\* The phase of a step is ahead of the provider: what was sent is no more than
\* Uncertain, who is about to send it is alone and the first.
PhaseCoversSending ==
  /\ \A b \in Builds, s \in Steps :
       /\ sent[b][s] <= 1
       /\ sent[b][s] = 1 => journal[b][s].phase \in {"Uncertain", "Completed"}
  /\ \A w \in Workers :
       LET b == worker[w].job
           s == exec[w].step
       IN
       At(w, "call") =>
         /\ sent[b][s] = 0
         /\ journal[b][s].phase \in {"Uncertain", "Completed"}
         /\ \A v \in Workers \ {w} :
              At(v, "call") => worker[v].job # b \/ exec[v].step # s

\* The journal says what the holder of the claim is about: its step is not yet
\* sent, and asks for what it collected.
Knows(w) ==
  LET step == journal[worker[w].job][exec[w].step] IN
  Holds(w) /\ worker[w].pc = "executing" =>
    /\ exec[w].at \in {"announce", "dispatch"} => step.phase = "Prepared"
    /\ exec[w].at \in {"announce", "dispatch", "call", "stream", "compile", "publish"} =>
         step.inputs = exec[w].inputs

HolderKnowsJournal == \A w \in Workers : Knows(w)

\* OneEnd, with the events of a build that has not ended; an end is of a build
\* that is there.
EndsAgree ==
  \A b \in Builds :
    \/ build[b].children = {} /\ build[b].last \in {"none", "Started", "Progress"}
    \/ /\ build[b].known
       /\ \/ build[b].children = {"revision"} /\ build[b].last = "Succeeded"
          \/ build[b].children = {"failure"} /\ build[b].last = "Failed"
          \/ build[b].children = {"cancellation"} /\ build[b].last = "Cancelled"

\* A job is completed by its holder only when the build has ended.
CompletedHasEnded ==
  /\ \A b \in Builds : build[b].known => row[b].status # "absent"
  /\ \A w \in Workers :
       worker[w].pc = "completing" /\ Holds(w) => ~Active(worker[w].job)

IInv ==
  /\ QueueOK /\ TypesOK /\ PhaseCoversSending /\ HolderKnowsJournal
  /\ EndsAgree /\ TextAnswersManifest /\ CompletedHasEnded /\ JobsMatchBuilds

-----------------------------------------------------------------------------
(* The queue: only a claim gives a worker a row *)

\* Nobody begins to hold a claim but by taking a job.
NoneGains ==
  \A w \in Workers :
    Holds(w)' => \/ Holds(w) /\ worker'[w].job = worker[w].job
                 \/ worker'[w].pc = "claimed"

\* A step that takes no job: what still runs is the same live claim, and a
\* worker leaves its job or stays at it.
Quiet ==
  /\ row' \in [Builds -> Queue!Row]
  /\ worker' \in [Workers -> Queue!Worker]
  /\ UNCHANGED claims
  /\ \A b \in Builds :
       /\ row[b].status # "absent" => row'[b].status # "absent"
       /\ row'[b].status = "running" =>
            /\ row[b].status = "running" /\ row'[b].claimedBy = row[b].claimedBy
            /\ row'[b].attempts = row[b].attempts
            /\ row'[b].lease > 0 => row[b].lease > 0
  /\ \A w \in Workers :
       \/ worker'[w] = worker[w]
       \/ worker'[w] = Queue!Idle
       \/ /\ worker[w].pc # "idle" /\ worker'[w].pc # "idle"
          /\ worker'[w].job = worker[w].job /\ worker'[w].attempt = worker[w].attempt

LEMMA QuietStep ==
  ASSUME QueueOK, Quiet
  PROVE  QueueOK' /\ NoneGains
<1>1. \A w \in Workers : worker[w].job \in Builds \cup {NoBuild}
  BY DEF QueueOK, Queue!Worker
<1>2. Queue!Idle.pc = "idle" /\ Queue!Idle.job = NoBuild
  BY DEF Queue!Idle
<1>3. ASSUME NEW w \in Workers, Holds(w)'
      PROVE  Holds(w) /\ worker'[w].job = worker[w].job /\ worker'[w].attempt = worker[w].attempt
             /\ row'[worker[w].job].attempts = row[worker[w].job].attempts
  <2>1. worker'[w].pc # "idle"
    BY <1>3 DEF Holds
  <2>2. worker[w].pc # "idle" /\ worker'[w].job = worker[w].job
        /\ worker'[w].attempt = worker[w].attempt
    BY <1>2, <2>1 DEF Quiet
  <2>3. worker[w].job \in Builds
    BY <1>1, <2>2 DEF QueueOK
  <2> QED
    BY <1>3, <2>2, <2>3 DEF Quiet, Holds, Queue!Owns, Queue!LeaseLive
<1>4. NoneGains
  BY <1>3 DEF NoneGains
<1>5. ASSUME NEW w \in Workers
      PROVE  LET b == worker'[w].job IN
             /\ (worker'[w].pc = "idle") <=> (b = NoBuild)
             /\ b # NoBuild => row'[b].status # "absent"
             /\ Holds(w)' => row'[b].attempts = worker'[w].attempt
  <2>1. CASE worker'[w] = Queue!Idle
    BY <1>2, <2>1 DEF Holds
  <2>2. CASE worker'[w] # Queue!Idle
    BY <1>1, <1>3, <2>2 DEF Quiet, QueueOK
  <2> QED
    BY <2>1, <2>2
<1> QED
  BY <1>4, <1>5 DEF QueueOK, Quiet

LEMMA UnclaimedRow ==
  ASSUME NEW st \in {"pending", "failed", "dead", "succeeded", "deleted"}, NEW n \in Nat,
         NEW d \in Nat, NEW e \in BOOLEAN
  PROVE  /\ Queue!Unclaimed(st, n, d, e) \in Queue!Row
         /\ Queue!Unclaimed(st, n, d, e).status = st
BY DEF Queue!Unclaimed, Queue!Row, Queue!Status, Queue!Waiting, Queue!Terminal

\* A row that is written unclaimed and that was not absent, or becomes a job's.
LEMMA OneRowQuiet ==
  ASSUME QueueOK, NEW b \in Builds, NEW r \in Queue!Row, r.status \notin {"running", "absent"},
         row' = [row EXCEPT ![b] = r], UNCHANGED <<worker, claims>>
  PROVE  Quiet
BY DEF QueueOK, Quiet

\* The requests leave every claim alone or end it.
LEMMA RequestQuiet ==
  ASSUME QueueOK, Request
  PROVE  Quiet
<1>1. CASE UNCHANGED <<row, worker, claims>>
  BY <1>1 DEF QueueOK, Quiet
<1>2. ASSUME NEW b \in Builds, Queue!Enqueue(b) PROVE Quiet
  <2>1. PICK d \in 0..0 : row' = [row EXCEPT ![b] = Queue!Unclaimed("pending", 0, d, FALSE)]
    BY <1>2 DEF Queue!Enqueue, Queue!Fresh
  <2>2. d \in Nat
    OBVIOUS
  <2> QED
    BY <1>2, <2>1, <2>2, UnclaimedRow, OneRowQuiet DEF Queue!Enqueue
<1>3. ASSUME NEW b \in Builds, Queue!RequeueDead(b) PROVE Quiet
  <2>1. row[b].errored \in BOOLEAN
    BY DEF QueueOK, Queue!Row
  <2> QED
    BY <1>3, <2>1, UnclaimedRow, OneRowQuiet DEF Queue!RequeueDead
<1>4. ASSUME NEW B, Gone(B), UNCHANGED <<worker, claims>> PROVE Quiet
  <2>1. /\ Queue!Fresh("deleted", 0) \in Queue!Row
        /\ Queue!Fresh("deleted", 0).status = "deleted"
    BY UnclaimedRow DEF Queue!Fresh
  <2> QED
    BY <1>4, <2>1 DEF Gone, QueueOK, Quiet
<1> QED
  BY <1>1, <1>2, <1>3, <1>4
  DEF Request, Generate, Cancel, MakeCurrent, RequesterLeaves, Reconcile, Requeue, Purge,
      Change, queue

\* A worker's memory moves on, or is gone.
LEMMA MemoryQuiet ==
  ASSUME QueueOK, NEW w \in Workers, worker[w].pc # "idle", UNCHANGED <<row, claims>>,
         \/ Queue!Return(w)
         \/ \E pc \in Queue!Phases \ {"idle"} : Queue!Goto(w, pc)
  PROVE  Quiet
<1>1. Queue!Idle \in Queue!Worker
  BY DEF Queue!Idle, Queue!Worker, Queue!Phases
<1> QED
  BY <1>1 DEF QueueOK, Quiet, Queue!Return, Queue!Goto, Queue!Worker

\* The first heartbeat of a live claim only makes its lease longer.
LEMMA StartQuiet ==
  ASSUME QueueOK, NEW w \in Workers, Queue!Start(w)
  PROVE  Quiet
<1> DEFINE b == worker[w].job
<1>1. worker[w].pc # "idle" /\ b \in Builds
  BY DEF QueueOK, Queue!Worker, Queue!Start
<1>2. CASE Queue!Owns(w, b)
  <2>1. row' = [row EXCEPT ![b].lease = 1] /\ Queue!Goto(w, "executing") /\ UNCHANGED claims
    BY <1>2 DEF Queue!Start
  <2>2. row[b].lease > 0
    BY <1>2 DEF Queue!Owns, Queue!LeaseLive
  <2> HIDE DEF b
  <2> QED
    BY <1>1, <2>1, <2>2
    DEF QueueOK, Quiet, Queue!Goto, Queue!Worker, Queue!Phases, Queue!Row
<1>3. CASE ~Queue!Owns(w, b)
  BY <1>1, <1>3, MemoryQuiet DEF Queue!Start
<1> QED
  BY <1>2, <1>3

\* What settles a job ends its claim or leaves the row alone.
LEMMA SettleQuiet ==
  ASSUME QueueOK, NEW w \in Workers,
         Queue!Complete(w) \/ Queue!Reschedule(w) \/ Queue!Fail(w)
  PROVE  Quiet
<1> DEFINE b == worker[w].job
<1>1. worker[w].pc # "idle" /\ b \in Builds /\ Queue!Return(w) /\ UNCHANGED claims
  BY DEF QueueOK, Queue!Worker, Queue!Complete, Queue!Reschedule, Queue!Fail
<1>2. /\ row[b].attempts \in Nat /\ row[b].wait \in Nat /\ row[b].errored \in BOOLEAN
      /\ Queue!Refunded(row[b].attempts) \in Nat
  BY <1>1 DEF QueueOK, Queue!Row, Queue!Refunded
<1>3. \A n \in Nat : Queue!RetryDelay(n) = 0
  BY DEF Queue!RetryDelay
<1>4. \/ UNCHANGED row
      \/ \E st \in {"pending", "failed", "dead", "succeeded"}, n \in Nat, d \in Nat, e \in BOOLEAN :
           row' = [row EXCEPT ![b] = Queue!Unclaimed(st, n, d, e)]
  <2>1. CASE Queue!Complete(w)
    BY <1>2, <2>1 DEF Queue!Complete, Queue!CompleteRow, Queue!Released
  <2>2. CASE Queue!Reschedule(w)
    BY <1>2, <2>2 DEF Queue!Reschedule, Queue!RescheduleRow
  <2>3. CASE Queue!Fail(w)
    BY <1>2, <1>3, <2>3 DEF Queue!Fail, Queue!FailRow
  <2> QED
    BY <2>1, <2>2, <2>3
<1>5. Queue!Idle \in Queue!Worker
  BY DEF Queue!Idle, Queue!Worker, Queue!Phases
<1>6. CASE UNCHANGED row
  BY <1>1, <1>6, MemoryQuiet
<1>7. ASSUME NEW r \in Queue!Row, r.status \notin {"running", "absent"},
             row' = [row EXCEPT ![b] = r]
      PROVE  Quiet
  BY <1>1, <1>5, <1>7 DEF QueueOK, Quiet, Queue!Return
<1> QED
  BY <1>4, <1>6, <1>7, UnclaimedRow

\* Time and the dead-letter sweep.
LEMMA ElapseQuiet ==
  ASSUME QueueOK, Queue!Tick \/ \E w \in Workers, b \in Builds : Queue!DeadLetterExpired(w, b)
  PROVE  Quiet
<1>1. CASE Queue!Tick
  <2>1. \A n \in Nat : Queue!Elapse(n) \in Nat /\ (Queue!Elapse(n) > 0 => n > 0)
    BY DEF Queue!Elapse
  <2>2. ASSUME NEW b \in Builds
        PROVE  /\ row'[b] \in Queue!Row /\ row'[b].status = row[b].status
               /\ row'[b].claimedBy = row[b].claimedBy /\ row'[b].attempts = row[b].attempts
               /\ row'[b].lease > 0 => row[b].lease > 0
    BY <1>1, <2>1 DEF QueueOK, Queue!Tick, Queue!Row
  <2> QED
    BY <1>1, <2>2 DEF QueueOK, Quiet, Queue!Tick
<1>2. ASSUME NEW w \in Workers, NEW b \in Builds, Queue!DeadLetterExpired(w, b) PROVE Quiet
  <2>1. row[b].attempts \in Nat /\ row[b].wait \in Nat
    BY DEF QueueOK, Queue!Row
  <2> QED
    BY <1>2, <2>1, UnclaimedRow, OneRowQuiet DEF Queue!DeadLetterExpired, Queue!Expired
<1> QED
  BY <1>1, <1>2

\* A claim takes the row from whoever had it.
LEMMA ClaimTakes ==
  ASSUME QueueOK, NEW w \in Workers, NEW b \in Builds, Queue!Claim(w, b)
  PROVE  QueueOK' /\ NoneGains
<1> DEFINE m == [pc |-> "claimed", job |-> b, attempt |-> row[b].attempts + 1,
                 token |-> claims[b] + 1]
           r == Queue!Claimed(w, b)
<1>1. worker' = [worker EXCEPT ![w] = m] /\ row' = [row EXCEPT ![b] = r]
  BY DEF Queue!Claim
<1>2. /\ r \in Queue!Row /\ r.status = "running" /\ r.claimedBy = w
      /\ r.attempts = row[b].attempts + 1
  <2>1. row[b] \in Queue!Row
    BY DEF QueueOK
  <2>2. "running" \in Queue!Status /\ row[b].attempts + 1 \in Nat
    BY <2>1 DEF Queue!Status, Queue!Row
  <2>3. r = [row[b] EXCEPT !.status = "running", !.attempts = row[b].attempts + 1,
                           !.lease = 1, !.claimedBy = w]
    BY DEF Queue!Claimed
  <2> HIDE DEF r
  <2> QED
    BY <2>1, <2>2, <2>3 DEF Queue!Row
<1>3. m.pc = "claimed" /\ m.job = b /\ m.attempt = row[b].attempts + 1
  OBVIOUS
<1>4. m \in Queue!Worker /\ claims' \in [Builds -> Nat]
  BY DEF QueueOK, Queue!Row, Queue!Worker, Queue!Phases, Queue!Claim
<1> HIDE DEF m, r
<1>5. ASSUME NEW v \in Workers, v # w
      PROVE  /\ worker'[v] = worker[v]
             /\ Holds(v)' => Holds(v)
             /\ worker[v].job # NoBuild => row'[worker[v].job].status # "absent"
             /\ Holds(v)' => row'[worker[v].job].attempts = row[worker[v].job].attempts
  <2>1. worker'[v] = worker[v]
    BY <1>1, <1>5 DEF QueueOK
  <2>2. CASE worker[v].job = b
    BY <1>1, <1>2, <1>5, <2>1, <2>2 DEF QueueOK, Holds, Queue!Owns
  <2>3. CASE worker[v].job # b
    <3>1. worker[v].job \in Builds => row'[worker[v].job] = row[worker[v].job]
      BY <1>1, <2>3 DEF QueueOK
    <3>2. worker[v].job \in Builds \cup {NoBuild}
      BY DEF QueueOK, Queue!Worker
    <3> QED
      BY <2>1, <3>1, <3>2 DEF QueueOK, Holds, Queue!Owns, Queue!LeaseLive
  <2> QED
    BY <2>2, <2>3, <2>1
<1>6. worker'[w] = m /\ row'[b] = r
  BY <1>1 DEF QueueOK
<1>7. NoneGains
  BY <1>3, <1>5, <1>6 DEF NoneGains
<1>8. row' \in [Builds -> Queue!Row] /\ worker' \in [Workers -> Queue!Worker]
  BY <1>1, <1>2, <1>4 DEF QueueOK
<1>9. ASSUME NEW v \in Workers
      PROVE  LET c == worker'[v].job IN
             /\ (worker'[v].pc = "idle") <=> (c = NoBuild)
             /\ c # NoBuild => row'[c].status # "absent"
             /\ Holds(v)' => row'[c].attempts = worker'[v].attempt
  <2>1. CASE v = w
    BY <1>2, <1>3, <1>6, <2>1, DossierAssumption
  <2>2. CASE v # w
    BY <1>5, <2>2 DEF QueueOK
  <2> QED
    BY <2>1, <2>2
<1> QED
  BY <1>4, <1>7, <1>8, <1>9 DEF QueueOK

\* What an executing worker is about.
LEMMA StepTypes ==
  ASSUME QueueOK, TypesOK, NEW w \in Workers, worker[w].pc = "executing"
  PROVE  /\ worker[w].job \in Builds /\ exec[w].step \in Steps
         /\ exec[w].inputs \in Versions
         /\ journal[worker[w].job][exec[w].step] \in Step
         /\ journal[worker[w].job][exec[w].step].phase \in
              {"absent", "Prepared", "Uncertain", "Completed"}
<1>1. worker[w].job \in Builds
  BY DEF QueueOK, Queue!Worker
<1>2. exec[w].step \in Steps /\ exec[w].inputs \in Versions
  BY DEF TypesOK, Executor
<1>3. journal[worker[w].job][exec[w].step] \in Step
  BY <1>1, <1>2 DEF TypesOK
<1> QED
  BY <1>1, <1>2, <1>3 DEF Step

\* run_build leaves the queue alone, but for what it tells the worker to do.
LEMMA RunBuildQueue ==
  ASSUME QueueOK, TypesOK, NEW w \in Workers, RunBuild(w)
  PROVE  /\ worker[w].pc = "executing"
         /\ \/ UNCHANGED queue
            \/ \E pc \in {"completing", "failing", "rescheduling"} : Out(w, pc)
<1>1. CASE Open(w) \/ Collect(w)
  BY <1>1 DEF Open, Collect, At, Go, Return
<1>2. CASE Decide(w)
  <2>1. OnUncertain(w) => Out(w, "failing")
    BY DEF OnUncertain, Raise
  <2>2. journal[worker[w].job][exec[w].step].phase \in
          {"absent", "Prepared", "Uncertain", "Completed"}
    BY <1>2, StepTypes DEF Decide, At
  <2> QED
    BY <1>2, <2>1, <2>2 DEF Decide, At, Go, Return
<1>3. CASE Announce(w) \/ Dispatch(w) \/ Call(w) \/ Receive(w)
  BY <1>3 DEF Announce, Dispatch, Call, Receive, At, Go, Return
<1>4. CASE Compile(w)
  BY <1>4 DEF Compile, At, Go
<1>5. CASE NoAnswer(w) \/ Publish(w) \/ Fail(w)
  BY <1>5 DEF NoAnswer, Publish, Fail, At, Go, Return, Raise
<1> QED
  BY <1>1, <1>2, <1>3, <1>4, <1>5 DEF RunBuild

\* Every step is quiet or a claim.
LEMMA QuietOrClaim ==
  ASSUME QueueOK, TypesOK, [Next]_vars
  PROVE  Quiet \/ \E w \in Workers, b \in Builds : Queue!Claim(w, b)
<1>1. ASSUME UNCHANGED queue PROVE Quiet
  BY <1>1 DEF queue, QueueOK, Quiet
<1>2. CASE Request
  BY <1>2, RequestQuiet
<1>3. CASE Tick
  BY <1>3, ElapseQuiet DEF Tick
<1>4. ASSUME NEW w \in Workers, WorkerStep(w)
      PROVE  Quiet \/ \E b \in Builds : Queue!Claim(w, b)
  <2>1. ASSUME NEW b \in Builds, Take(w, b) PROVE Quiet \/ Queue!Claim(w, b)
    BY <2>1, ElapseQuiet DEF Take
  <2>2. CASE Enter(w)
    BY <2>2, StartQuiet DEF Enter
  <2>3. CASE Settle(w)
    BY <2>3, SettleQuiet DEF Settle
  <2>4. CASE Crash(w)
    BY <2>4, MemoryQuiet DEF Crash, Queue!Crash
  <2>5. CASE RunBuild(w)
    <3>1. worker[w].pc # "idle"
      BY <2>5, RunBuildQueue
    <3>2. "completing" \in Queue!Phases /\ "failing" \in Queue!Phases
          /\ "rescheduling" \in Queue!Phases
      BY DEF Queue!Phases
    <3>3. ASSUME NEW pc \in {"completing", "failing", "rescheduling"}, Out(w, pc) PROVE Quiet
      BY <3>1, <3>2, <3>3, MemoryQuiet DEF Out
    <3> QED
      BY <1>1, <2>5, <3>3, RunBuildQueue
  <2>6. CASE \E b \in Builds : Take(w, b)
    BY <2>1, <2>6
  <2> QED
    BY <1>4, <2>2, <2>3, <2>4, <2>5, <2>6 DEF WorkerStep
<1> QED
  BY <1>1, <1>2, <1>3, <1>4 DEF Next, vars

LEMMA QueueStep ==
  ASSUME QueueOK, TypesOK, [Next]_vars
  PROVE  QueueOK' /\ NoneGains
BY QuietOrClaim, QuietStep, ClaimTakes

-----------------------------------------------------------------------------
(* Types *)

\* A build's row is of its type whatever ends it.
LEMMA EndTypes ==
  ASSUME TypesOK, NEW b \in Builds, NEW child \in Children,
         NEW event \in {"Succeeded", "Failed", "Cancelled"}
  PROVE  /\ End(b, child, event) \in [Builds -> Build]
         /\ End(b, child, event)[b].children = build[b].children \cup {child}
         /\ End(b, child, event)[b].last = event
         /\ End(b, child, event)[b].known = build[b].known
         /\ End(b, child, event)[b].text = build[b].text
         /\ End(b, child, event)[b].manifest = build[b].manifest
         /\ \A c \in Builds \ {b} : End(b, child, event)[c] = build[c]
BY DEF TypesOK, Build, End

Points == {"none", "open", "collect", "step", "announce", "dispatch", "call", "stream",
           "compile", "publish", "fail"}

\* What w remembers from now on; of nobody else has anything changed.
Remembers(w, at, step, inputs) ==
  /\ exec' \in [Workers -> Executor]
  /\ exec'[w].at = at /\ exec'[w].step = step /\ exec'[w].inputs = inputs
  /\ \A v \in Workers \ {w} : exec'[v] = exec[v]

\* The ways of a handler on.
LEMMA MemoryIsOne ==
  ASSUME TypesOK, NEW w \in Workers, NEW e \in Executor, exec' = [exec EXCEPT ![w] = e]
  PROVE  Remembers(w, e.at, e.step, e.inputs)
BY DEF TypesOK, Remembers

LEMMA GoRemembers ==
  ASSUME TypesOK, NEW w \in Workers, NEW at \in Points, Go(w, at)
  PROVE  Remembers(w, at, exec[w].step, exec[w].inputs)
<1> DEFINE e == [exec[w] EXCEPT !.at = at]
<1>1. e \in Executor /\ e.at = at /\ e.step = exec[w].step /\ e.inputs = exec[w].inputs
  BY DEF TypesOK, Executor, Points
<1> QED
  BY <1>1, MemoryIsOne DEF Go

LEMMA OutRemembers ==
  ASSUME TypesOK, NEW w \in Workers, exec' = [exec EXCEPT ![w] = NotExecuting]
  PROVE  Remembers(w, "none", "synthesis", "old")
<1>1. /\ NotExecuting \in Executor
      /\ NotExecuting.at = "none" /\ NotExecuting.step = "synthesis" /\ NotExecuting.inputs = "old"
  BY DEF NotExecuting, Executor, Steps, Versions
<1> QED
  BY <1>1, MemoryIsOne

LEMMA CollectRemembers ==
  ASSUME TypesOK, NEW w \in Workers, NEW v \in Versions,
         exec' = [exec EXCEPT ![w] = [@ EXCEPT !.at = "step", !.inputs = v]]
  PROVE  Remembers(w, "step", exec[w].step, v)
<1> DEFINE e == [exec[w] EXCEPT !.at = "step", !.inputs = v]
<1>1. e \in Executor /\ e.at = "step" /\ e.step = exec[w].step /\ e.inputs = v
  BY DEF TypesOK, Executor
<1> QED
  BY <1>1, MemoryIsOne

LEMMA RepairRemembers ==
  ASSUME TypesOK, NEW w \in Workers,
         exec' = [exec EXCEPT ![w] = [@ EXCEPT !.at = "step", !.step = "document-repair"]]
  PROVE  Remembers(w, "step", "document-repair", exec[w].inputs)
<1> DEFINE e == [exec[w] EXCEPT !.at = "step", !.step = "document-repair"]
<1>1. e \in Executor /\ e.at = "step" /\ e.step = "document-repair" /\ e.inputs = exec[w].inputs
  BY DEF TypesOK, Executor, Steps
<1> QED
  BY <1>1, MemoryIsOne

LEMMA RequestTypes ==
  ASSUME TypesOK, Request
  PROVE  TypesOK'
<1>0. Unknown \in Build /\ [Unknown EXCEPT !.known = TRUE, !.last = "Started"] \in Build
  BY DEF Unknown, Build, Versions
<1>1. ASSUME NEW b \in Builds, Generate(b) PROVE TypesOK'
  BY <1>0, <1>1 DEF TypesOK, Generate
<1>2. ASSUME NEW b \in Builds, Cancel(b) \/ RequesterLeaves(b) PROVE TypesOK'
  BY <1>2, EndTypes DEF TypesOK, Cancel, RequesterLeaves, Children
<1>3. ASSUME NEW b \in Builds, MakeCurrent(b) \/ Requeue(b) PROVE TypesOK'
  BY <1>3 DEF TypesOK, MakeCurrent, Requeue
<1>4. ASSUME NEW b \in Builds, Reconcile(b) PROVE TypesOK'
  <2>1. "synthesis" \in Steps /\ journal[b]["synthesis"] \in Step
    BY DEF TypesOK, Steps
  <2>2. /\ [journal[b]["synthesis"] EXCEPT !.phase = "Prepared"] \in Step
        /\ \A a \in Answers :
             [journal[b]["synthesis"] EXCEPT !.phase = "Completed", !.answer = a] \in Step
    BY <2>1 DEF Step
  <2>3. \E step \in Step : journal' = [journal EXCEPT ![b]["synthesis"] = step]
    BY <1>4, <2>2 DEF Reconcile
  <2> QED
    <3>1. PICK step \in Step : journal' = [journal EXCEPT ![b]["synthesis"] = step]
      BY <2>3
    <3>2. journal' \in [Builds -> [Steps -> Step]]
      BY <2>1, <3>1 DEF TypesOK
    <3> QED
      BY <1>4, <3>2 DEF TypesOK, Reconcile
<1>5. CASE Purge
  BY <1>0, <1>5 DEF TypesOK, Purge
<1>6. CASE Change
  BY <1>6 DEF TypesOK, Change, Versions
<1> QED
  BY <1>1, <1>2, <1>3, <1>4, <1>5, <1>6 DEF Request

\* What a checkpoint leaves in the journal is a step.
LEMMA CheckpointTypes ==
  ASSUME TypesOK, NEW b \in Builds, NEW s \in Steps, NEW step \in Step, Checkpoint(b, s, step)
  PROVE  /\ journal' \in [Builds -> [Steps -> Step]]
         /\ journal'[b][s] = step
         /\ \A c \in Builds, t \in Steps : c # b \/ t # s => journal'[c][t] = journal[c][t]
BY DEF TypesOK, Checkpoint

LEMMA RunBuildTypes ==
  ASSUME QueueOK, TypesOK, NEW w \in Workers, RunBuild(w)
  PROVE  TypesOK'
<1> DEFINE b == worker[w].job
           s == exec[w].step
<1>0. /\ worker[w].pc = "executing" /\ b \in Builds /\ s \in Steps /\ exec[w].inputs \in Versions
      /\ journal[b][s] \in Step
  BY RunBuildQueue, StepTypes
<1>g. \A pc : Out(w, pc) => exec' \in [Workers -> Executor]
  BY OutRemembers DEF Out, Remembers
<1>h. \A at \in Points : Go(w, at) => exec' \in [Workers -> Executor]
  BY GoRemembers DEF Remembers
<1>1. CASE Open(w)
  BY <1>1, <1>g, <1>h DEF Open, OnlyMemory, TypesOK, Points
<1>2. CASE Collect(w)
  <2>1. subject.inputs \in Versions
    BY DEF TypesOK
  <2>2. exec' \in [Workers -> Executor]
    BY <1>2, <1>g, <1>h, <2>1, CollectRemembers DEF Collect, Remembers, Points
  <2> QED
    BY <1>2, <2>2 DEF Collect, TypesOK
<1>3. CASE Decide(w)
  <2>1. [NoStep EXCEPT !.phase = "Prepared", !.inputs = exec[w].inputs] \in Step
    BY <1>0 DEF NoStep, Step, Versions, Answers
  <2>2. journal' \in [Builds -> [Steps -> Step]]
    BY <1>0, <1>3, <2>1, CheckpointTypes DEF Decide, TypesOK
  <2>3. exec' \in [Workers -> Executor]
    <3>1. journal[b][s].phase \in {"absent", "Prepared", "Uncertain", "Completed"}
      BY <1>0 DEF Step
    <3> QED
      BY <1>3, <1>g, <1>h, <3>1 DEF Decide, OnUncertain, Points
  <2> QED
    BY <1>3, <2>2, <2>3 DEF Decide, TypesOK
<1>4. CASE Announce(w)
  <2>b. build[b] \in Build
    BY <1>0 DEF TypesOK
  <2>0. [build[b] EXCEPT !.last = "Progress"] \in Build
    BY <2>b DEF Build
  <2>1. build' \in [Builds -> Build]
    BY <1>4, <1>0, <2>0 DEF Announce, TypesOK
  <2> QED
    BY <1>4, <1>g, <1>h, <2>1 DEF Announce, TypesOK, Points
<1>5. CASE Dispatch(w)
  <2>1. [journal[b][s] EXCEPT !.phase = "Uncertain"] \in Step
    BY <1>0 DEF Step
  <2>2. journal' \in [Builds -> [Steps -> Step]]
    BY <1>0, <1>5, <2>1, CheckpointTypes DEF Dispatch, TypesOK
  <2> QED
    BY <1>5, <1>g, <1>h, <2>2 DEF Dispatch, TypesOK, Points
<1>6. CASE Call(w)
  <2>0. sent[b] \in [Steps -> Nat] /\ sent[b][s] + 1 \in Nat
    BY <1>0 DEF TypesOK
  <2>1. [sent EXCEPT ![b][s] = @ + 1] \in [Builds -> [Steps -> Nat]]
    <3>1. [sent[b] EXCEPT ![s] = @ + 1] \in [Steps -> Nat]
      BY <1>0, <2>0
    <3> QED
      BY <1>0, <3>1 DEF TypesOK
  <2>2. sent' \in [Builds -> [Steps -> Nat]]
    BY <1>6, <2>1 DEF Call, TypesOK
  <2> QED
    BY <1>6, <1>g, <1>h, <2>2 DEF Call, TypesOK, Points
<1>7. CASE Receive(w)
  <2>1. \A a \in Answers : [journal[b][s] EXCEPT !.phase = "Completed", !.answer = a] \in Step
    BY <1>0 DEF Step
  <2>2. journal' \in [Builds -> [Steps -> Step]]
    BY <1>0, <1>7, <2>1, CheckpointTypes DEF Receive, TypesOK
  <2> QED
    BY <1>7, <1>g, <1>h, <2>2 DEF Receive, TypesOK, Points
<1>8. CASE NoAnswer(w)
  BY <1>8, <1>g, <1>h DEF NoAnswer, OnlyMemory, TypesOK, Points
<1>9. CASE Compile(w)
  <2>1. exec' \in [Workers -> Executor]
    BY <1>9, <1>g, <1>h, RepairRemembers DEF Compile, Remembers, Points
  <2> QED
    BY <1>9, <2>1 DEF Compile, OnlyMemory, TypesOK
<1>10. CASE Publish(w)
  <2>1. build' \in [Builds -> Build]
    <3>1. journal[b][s].inputs \in Versions
      BY <1>0 DEF Step
    <3>2. \A x \in Build, m \in Versions, t \in Versions :
            [x EXCEPT !.manifest = m, !.text = t] \in Build
      BY DEF Build
    <3>3. End(b, "revision", "Succeeded") \in [Builds -> Build]
          /\ End(b, "failure", "Failed") \in [Builds -> Build]
      BY <1>0, EndTypes DEF Children
    <3>4. exec[w].inputs \in Versions /\ b \in Builds
      BY <1>0
    <3>5. \/ UNCHANGED build
          \/ build' = End(b, "failure", "Failed")
          \/ \E f \in [Builds -> Build] :
               build' = [f EXCEPT ![b] =
                          [f[b] EXCEPT !.manifest = exec[w].inputs, !.text = journal[b][s].inputs]]
      BY <1>10, <3>3 DEF Publish
    <3>6. ASSUME NEW f \in [Builds -> Build],
                 build' = [f EXCEPT ![b] =
                   [f[b] EXCEPT !.manifest = exec[w].inputs, !.text = journal[b][s].inputs]]
          PROVE  build' \in [Builds -> Build]
      <4> DEFINE x == [f[b] EXCEPT !.manifest = exec[w].inputs, !.text = journal[b][s].inputs]
      <4>1. f[b] \in Build
        BY <3>4
      <4>2. x \in Build
        BY <3>1, <3>2, <3>4, <4>1
      <4>3. build' = [f EXCEPT ![b] = x]
        BY <3>6
      <4> HIDE DEF x, b
      <4> QED
        BY <4>2, <4>3
    <3> QED
      BY <3>3, <3>5, <3>6 DEF TypesOK
  <2>2. head' \in [exists: BOOLEAN, current: Builds \cup {NoBuild}]
    BY <1>0, <1>10 DEF Publish, TypesOK
  <2> QED
    BY <1>10, <1>g, <2>1, <2>2 DEF Publish, TypesOK
<1>11. CASE Fail(w)
  BY <1>0, <1>11, <1>g, EndTypes DEF Fail, TypesOK, Children
<1> QED
  BY <1>1, <1>2, <1>3, <1>4, <1>5, <1>6, <1>7, <1>8, <1>9, <1>10, <1>11 DEF RunBuild

\* The workers around run_build, and time.
LEMMA TypesStep ==
  ASSUME QueueOK, TypesOK, [Next]_vars
  PROVE  TypesOK'
<1>1. ASSUME NEW w \in Workers, WorkerStep(w) PROVE TypesOK'
  <2>1. CASE Enter(w)
    <3>1. \/ UNCHANGED exec
          \/ Remembers(w, "open", exec[w].step, exec[w].inputs)
      <4> DEFINE e == [exec[w] EXCEPT !.at = "open"]
      <4>1. e \in Executor /\ e.at = "open" /\ e.step = exec[w].step /\ e.inputs = exec[w].inputs
        BY DEF TypesOK, Executor
      <4> QED
        BY <2>1, <4>1, MemoryIsOne DEF Enter
    <3> QED
      BY <2>1, <3>1 DEF Enter, OnlyMemory, TypesOK, Remembers
  <2>3. CASE Crash(w)
    BY <2>3, OutRemembers DEF Crash, TypesOK, Remembers
  <2>2. CASE Settle(w) \/ \E b \in Builds : Take(w, b)
    BY <2>2 DEF Settle, Take, OnlyQueue, TypesOK
  <2> QED
    BY <1>1, <2>1, <2>2, <2>3, RunBuildTypes DEF WorkerStep
<1>2. CASE Tick
  BY <1>2 DEF Tick, TypesOK
<1>3. CASE UNCHANGED vars
  BY <1>3 DEF vars, TypesOK
<1> QED
  BY <1>1, <1>2, <1>3, RequestTypes DEF Next

-----------------------------------------------------------------------------
(* The journal and the provider *)

\* What a step of run_build does to the memory of the workers.
LEMMA RunBuildFrame ==
  ASSUME QueueOK, TypesOK, NEW w \in Workers, RunBuild(w)
  PROVE  /\ UNCHANGED row
         /\ worker'[w].job = worker[w].job
         /\ \A v \in Workers \ {w} : worker'[v] = worker[v] /\ exec'[v] = exec[v]
         /\ \/ UNCHANGED worker
            \/ worker'[w].pc # "executing"
<1>1. CASE UNCHANGED queue
  <2>1. \E e \in Points, s \in Steps, i \in Versions : Remembers(w, e, s, i)
    <3>0. /\ exec[w].step \in Steps /\ exec[w].inputs \in Versions
          /\ "step" \in Points /\ "document-repair" \in Steps /\ subject.inputs \in Versions
      BY DEF TypesOK, Executor, Points, Steps
    <3>1. \A e \in Points : Go(w, e) => Remembers(w, e, exec[w].step, exec[w].inputs)
      BY GoRemembers
    <3>2. \A pc : Out(w, pc) => Remembers(w, "none", "synthesis", "old")
      BY OutRemembers DEF Out
    <3>3. "none" \in Points /\ "synthesis" \in Steps /\ "old" \in Versions
      BY DEF Points, Steps, Versions
    <3>4. CASE \E e \in Points : Go(w, e)
      BY <3>0, <3>1, <3>4
    <3>5. CASE \E pc : Out(w, pc)
      BY <3>2, <3>3, <3>5
    <3>6. CASE exec' = [exec EXCEPT ![w] = [@ EXCEPT !.at = "step", !.inputs = subject.inputs]]
      BY <3>0, <3>6, CollectRemembers
    <3>7. CASE exec' = [exec EXCEPT ![w] = [@ EXCEPT !.at = "step", !.step = "document-repair"]]
      BY <3>0, <3>7, RepairRemembers
    <3>8. journal[worker[w].job][exec[w].step].phase \in
            {"absent", "Prepared", "Uncertain", "Completed"}
      BY RunBuildQueue, StepTypes
    <3>9. CASE Open(w) \/ Collect(w)
      BY <3>9, <3>4, <3>5, <3>6 DEF Open, Collect, Points
    <3>10. CASE Decide(w)
      BY <3>10, <3>4, <3>5, <3>8 DEF Decide, OnUncertain, Points
    <3>11. CASE Announce(w) \/ Dispatch(w) \/ Call(w) \/ Receive(w)
      BY <3>11, <3>4, <3>5 DEF Announce, Dispatch, Call, Receive, Points
    <3>12. CASE Compile(w)
      BY <3>12, <3>4, <3>7 DEF Compile, Points
    <3>13. CASE NoAnswer(w) \/ Publish(w) \/ Fail(w)
      BY <3>13, <3>4, <3>5 DEF NoAnswer, Publish, Fail, Points
    <3> QED
      BY <3>9, <3>10, <3>11, <3>12, <3>13 DEF RunBuild
  <2> QED
    BY <1>1, <2>1 DEF Remembers, queue
<1>2. ASSUME NEW pc \in {"completing", "failing", "rescheduling"}, Out(w, pc)
      PROVE  /\ UNCHANGED row
             /\ worker'[w].job = worker[w].job
             /\ \A v \in Workers \ {w} : worker'[v] = worker[v] /\ exec'[v] = exec[v]
             /\ worker'[w].pc # "executing"
  BY <1>2, OutRemembers DEF Out, Queue!Goto, QueueOK, Queue!Worker, Remembers
<1> QED
  BY <1>1, <1>2, RunBuildQueue

\* A step that neither sends nor writes the journal, and after which nobody is
\* further than at the beginning of a handler who was not before.
Restful ==
  /\ UNCHANGED <<journal, sent>>
  /\ \A w \in Workers :
       worker'[w].pc = "executing" =>
         \/ /\ worker[w].pc = "executing" /\ worker'[w].job = worker[w].job
            /\ exec'[w] = exec[w]
         \/ exec'[w].at \in {"open", "collect", "step", "fail"}

LEMMA RestfulStep ==
  ASSUME QueueOK, NoneGains, PhaseCoversSending, HolderKnowsJournal, Restful
  PROVE  PhaseCoversSending' /\ HolderKnowsJournal'
<1>1. PhaseCoversSending'
  BY DEF PhaseCoversSending, Restful, At
<1>2. ASSUME NEW w \in Workers, Holds(w)', worker'[w].pc = "executing"
      PROVE  Holds(w) \/ exec'[w].at \in {"open", "collect", "step", "fail"}
  BY <1>2 DEF NoneGains, Restful
<1>3. HolderKnowsJournal'
  BY <1>2 DEF HolderKnowsJournal, Knows, Restful
<1> QED
  BY <1>1, <1>3

\* A step that begins nothing.
LEMMA RestfulSteps ==
  ASSUME QueueOK, TypesOK, [Next]_vars,
         ~ \E b \in Builds : Reconcile(b),
         ~ \E w \in Workers : Decide(w) \/ Announce(w) \/ Dispatch(w) \/ Call(w) \/ Receive(w)
                              \/ Compile(w)
  PROVE  Restful
<1>1. CASE Request \/ Tick \/ UNCHANGED vars
  BY <1>1 DEF Request, Generate, Cancel, MakeCurrent, RequesterLeaves, Requeue, Purge, Change, Tick,
              Queue!Enqueue, Queue!RequeueDead, Queue!Tick, vars, queue, Restful
<1>2. ASSUME NEW w \in Workers, WorkerStep(w) PROVE Restful
  <2>1. CASE \E b \in Builds : Take(w, b)
    BY <2>1 DEF Take, OnlyQueue, Queue!Claim, Queue!DeadLetterExpired, QueueOK, Restful
  <2>2. CASE Enter(w)
    <3>1. worker[w].job \in Builds
      BY <2>2 DEF Enter, Queue!Start, QueueOK, Queue!Worker
    <3>2. \A v \in Workers \ {w} : worker'[v] = worker[v] /\ exec'[v] = exec[v]
      BY <2>2 DEF Enter, Queue!Start, Queue!Goto, Queue!Return, QueueOK, TypesOK
    <3>3. CASE Queue!Owns(w, worker[w].job)
      <4>1. exec'[w].at = "open"
        BY <2>2, <3>3 DEF Enter, TypesOK, Executor
      <4> QED
        BY <2>2, <3>2, <4>1 DEF Enter, OnlyMemory, Restful
    <3>4. CASE ~Queue!Owns(w, worker[w].job)
      <4>1. worker'[w].pc = "idle"
        BY <2>2, <3>4 DEF Enter, Queue!Start, Queue!Return, Queue!Idle, QueueOK
      <4> QED
        BY <2>2, <3>2, <4>1 DEF Enter, OnlyMemory, Restful
    <3> QED
      BY <3>3, <3>4
  <2>3. CASE Settle(w) \/ Crash(w)
    <3>1. /\ worker'[w].pc = "idle"
          /\ \A v \in Workers \ {w} : worker'[v] = worker[v] /\ exec'[v] = exec[v]
      BY <2>3 DEF Settle, OnlyQueue, Queue!Complete, Queue!Reschedule, Queue!Fail, Crash,
                  Queue!Crash, Queue!Return, Queue!Idle, QueueOK, TypesOK
    <3> QED
      BY <2>3, <3>1 DEF Settle, OnlyQueue, Crash, Restful
  <2>4. CASE RunBuild(w)
    <3>1. Open(w) \/ Collect(w) \/ NoAnswer(w) \/ Publish(w) \/ Fail(w)
      BY <2>4 DEF RunBuild
    <3>2. UNCHANGED <<journal, sent>>
      BY <3>1 DEF Open, Collect, NoAnswer, Publish, Fail, OnlyMemory
    <3>3. \A e \in Points : Go(w, e) => exec'[w].at = e
      BY GoRemembers DEF Remembers
    <3>4. subject.inputs \in Versions
      BY DEF TypesOK
    <3>5. \/ exec'[w].at \in {"open", "collect", "step", "fail"}
          \/ Out(w, "completing") \/ Out(w, "failing") \/ Out(w, "rescheduling")
      BY <3>1, <3>3, <3>4, CollectRemembers
      DEF Open, Collect, NoAnswer, Publish, Fail, Points, Remembers, Return, Raise
    <3>6. ASSUME NEW pc, Out(w, pc) PROVE worker'[w].pc = pc
      BY <3>6 DEF Out, Queue!Goto, QueueOK, Queue!Worker
    <3>7. exec'[w].at \in {"open", "collect", "step", "fail"} \/ worker'[w].pc # "executing"
      BY <3>5, <3>6
    <3> QED
      BY <2>4, <3>2, <3>7, RunBuildFrame DEF Restful
  <2> QED
    BY <1>2, <2>1, <2>2, <2>3, <2>4 DEF WorkerStep
<1> QED
  BY <1>1, <1>2 DEF Next

\* Only the holder of its claim writes the journal of a job: what the others
\* know stays true.
LEMMA OthersKnow ==
  ASSUME QueueOK, TypesOK, HolderKnowsJournal, NEW w \in Workers, RunBuild(w),
         \A c \in Builds : c # worker[w].job => journal'[c] = journal[c],
         Holds(w) \/ UNCHANGED journal
  PROVE  \A v \in Workers \ {w} : Knows(v)'
<1> SUFFICES ASSUME NEW v \in Workers \ {w}, Holds(v)', worker'[v].pc = "executing"
             PROVE  Knows(v)'
  BY DEF Knows
<1>1. Knows(v) /\ worker'[v] = worker[v] /\ exec'[v] = exec[v] /\ UNCHANGED row
  BY RunBuildFrame DEF HolderKnowsJournal
<1>2. Holds(v) /\ worker[v].pc = "executing"
  BY <1>1 DEF Holds, Queue!Owns, Queue!LeaseLive
<1>3. worker[v].job \in Builds
  BY <1>2, StepTypes
<1>4. journal'[worker[v].job] = journal[worker[v].job]
  BY <1>2, <1>3 DEF Holds, Queue!Owns
<1> QED
  BY <1>1, <1>2, <1>4 DEF Knows

\* The one who may write.
LEMMA CurrentHolds ==
  ASSUME NEW w \in Workers, worker[w].pc = "executing", Queue!ClaimIsCurrent(w)
  PROVE  Holds(w)
BY DEF Holds, Queue!ClaimIsCurrent

\* A worker who goes on, where it goes.
LEMMA GoesOn ==
  ASSUME QueueOK, TypesOK, NEW w \in Workers, RunBuild(w), NEW at \in Points, Go(w, at)
  PROVE  /\ UNCHANGED <<row, worker>>
         /\ exec'[w].at = at /\ exec'[w].step = exec[w].step /\ exec'[w].inputs = exec[w].inputs
         /\ \A v \in Workers \ {w} : exec'[v] = exec[v]
         /\ (Holds(w)' <=> Holds(w))
BY GoRemembers DEF Go, Remembers, queue, Holds, Queue!Owns, Queue!LeaseLive

\* A worker who goes elsewhere and leaves journal and provider alone.
LEMMA LeavesRestful ==
  ASSUME QueueOK, TypesOK, NEW w \in Workers, RunBuild(w), UNCHANGED <<journal, sent>>,
         \/ \E pc \in {"completing", "failing", "rescheduling"} : Out(w, pc)
         \/ Go(w, "fail")
  PROVE  Restful
<1>1. CASE Go(w, "fail")
  BY <1>1, GoesOn DEF Restful, Points
<1>2. ASSUME NEW pc \in {"completing", "failing", "rescheduling"}, Out(w, pc) PROVE Restful
  <2>1. worker'[w].pc = pc
    BY <1>2 DEF Out, Queue!Goto, QueueOK, Queue!Worker
  <2> QED
    BY <2>1, RunBuildFrame DEF Restful
<1> QED
  BY <1>1, <1>2

\* A step of a handler that writes no journal and sends nothing.
LEMMA SilentSends ==
  ASSUME PhaseCoversSending, UNCHANGED <<journal, sent>>,
         \A v \in Workers : At(v, "call")' =>
           At(v, "call") /\ worker'[v].job = worker[v].job /\ exec'[v].step = exec[v].step
  PROVE  PhaseCoversSending'
BY DEF PhaseCoversSending

\* Decide: the first checkpoint, or what an earlier execution left.
LEMMA DecideKeeps ==
  ASSUME QueueOK, TypesOK, NoneGains, PhaseCoversSending, HolderKnowsJournal,
         NEW w \in Workers, RunBuild(w), Decide(w)
  PROVE  PhaseCoversSending' /\ HolderKnowsJournal'
<1> DEFINE b == worker[w].job
           s == exec[w].step
           step == journal[b][s]
<1>0. /\ worker[w].pc = "executing" /\ b \in Builds /\ s \in Steps /\ exec[w].inputs \in Versions
      /\ step \in Step /\ step.phase \in {"absent", "Prepared", "Uncertain", "Completed"}
      /\ UNCHANGED sent /\ exec[w].at = "step"
  BY RunBuildQueue, StepTypes DEF Decide, At
<1>1. CASE UNCHANGED journal /\ (Go(w, "fail") \/ Out(w, Return) \/ OnUncertain(w))
  BY <1>0, <1>1, LeavesRestful, RestfulStep DEF Return, Raise, OnUncertain
<1>2. CASE /\ UNCHANGED journal /\ SameRequest(w, b, s)
           /\ \/ Go(w, "compile") /\ step.phase = "Completed"
              \/ Go(w, "announce") /\ step.phase = "Prepared"
  <2>1. PICK at \in {"compile", "announce"} :
          Go(w, at) /\ (at = "announce" => step.phase = "Prepared")
    BY <1>2
  <2>2. /\ UNCHANGED <<row, worker>> /\ exec'[w].at = at /\ exec'[w].step = s
        /\ exec'[w].inputs = exec[w].inputs /\ \A v \in Workers \ {w} : exec'[v] = exec[v]
    BY <2>1, GoesOn DEF Points
  <2>3. Knows(w)'
    BY <1>2, <2>1, <2>2 DEF Knows, SameRequest
  <2>4. PhaseCoversSending'
    BY <1>0, <1>2, <2>1, <2>2, SilentSends DEF At
  <2> QED
    BY <1>2, <2>3, <2>4, OthersKnow DEF HolderKnowsJournal
<1>3. CASE /\ step.phase = "absent" /\ CanWrite(w) /\ Go(w, "announce")
           /\ Checkpoint(b, s, [NoStep EXCEPT !.phase = "Prepared", !.inputs = exec[w].inputs])
  <2> DEFINE new == [NoStep EXCEPT !.phase = "Prepared", !.inputs = exec[w].inputs]
  <2>1. new \in Step /\ new.phase = "Prepared" /\ new.inputs = exec[w].inputs
    BY <1>0 DEF NoStep, Step, Versions, Answers
  <2> HIDE DEF new
  <2>2. /\ journal' \in [Builds -> [Steps -> Step]]
        /\ journal'[b][s] = new
        /\ \A c \in Builds, t \in Steps : c # b \/ t # s => journal'[c][t] = journal[c][t]
    BY <1>0, <1>3, <2>1, CheckpointTypes DEF new
  <2>3. \A c \in Builds : c # b => journal'[c] = journal[c]
    BY <1>3 DEF Checkpoint, TypesOK
  <2>4. /\ UNCHANGED <<row, worker>> /\ exec'[w].at = "announce" /\ exec'[w].step = s
        /\ exec'[w].inputs = exec[w].inputs /\ \A v \in Workers \ {w} : exec'[v] = exec[v]
    BY <1>3, GoesOn DEF Points
  <2>5. Holds(w)
    BY <1>0, <1>3, CurrentHolds DEF CanWrite
  <2>6. Knows(w)'
    BY <2>1, <2>2, <2>4 DEF Knows
  <2>7. sent[b][s] # 1 /\ \A v \in Workers : At(v, "call") => worker[v].job # b \/ exec[v].step # s
    BY <1>0, <1>3 DEF PhaseCoversSending
  <2>8. PhaseCoversSending'
    <3>1. ASSUME NEW c \in Builds, NEW t \in Steps
          PROVE  /\ sent'[c][t] <= 1
                 /\ sent'[c][t] = 1 => journal'[c][t].phase \in {"Uncertain", "Completed"}
      BY <1>0, <2>2, <2>7 DEF PhaseCoversSending
    <3>2. ASSUME NEW v \in Workers, At(v, "call")'
          PROVE  /\ At(v, "call") /\ worker'[v] = worker[v] /\ exec'[v] = exec[v]
                 /\ worker[v].job \in Builds /\ exec[v].step \in Steps
      BY <2>4, <3>2, StepTypes DEF At
    <3>3. ASSUME NEW v \in Workers, At(v, "call")'
          PROVE  LET c == worker'[v].job
                     t == exec'[v].step
                 IN
                 /\ sent'[c][t] = 0
                 /\ journal'[c][t].phase \in {"Uncertain", "Completed"}
                 /\ \A u \in Workers \ {v} :
                      At(u, "call")' => worker'[u].job # c \/ exec'[u].step # t
      <4>1. journal'[worker[v].job][exec[v].step] = journal[worker[v].job][exec[v].step]
        BY <2>2, <2>7, <3>2, <3>3
      <4> QED
        BY <1>0, <3>2, <3>3, <4>1 DEF PhaseCoversSending
    <3> QED
      BY <3>1, <3>3 DEF PhaseCoversSending
  <2> QED
    BY <2>3, <2>5, <2>6, <2>8, OthersKnow DEF HolderKnowsJournal
<1> QED
  BY <1>0, <1>1, <1>2, <1>3 DEF Decide

\* Announce and Compile: on with what the journal says.
LEMMA SilentStepsKeep ==
  ASSUME QueueOK, TypesOK, NoneGains, PhaseCoversSending, HolderKnowsJournal,
         NEW w \in Workers, RunBuild(w), Announce(w) \/ Compile(w)
  PROVE  PhaseCoversSending' /\ HolderKnowsJournal'
<1>1. UNCHANGED <<journal, sent>>
  BY DEF Announce, Compile, OnlyMemory
<1>2. CASE Go(w, "fail") \/ Out(w, Return)
  BY <1>1, <1>2, LeavesRestful, RestfulStep DEF Return
<1>3. ASSUME NEW at \in {"dispatch", "publish"}, Go(w, at),
             At(w, "announce") \/ (At(w, "compile") /\ at = "publish")
      PROVE  PhaseCoversSending' /\ HolderKnowsJournal'
  <2>1. /\ UNCHANGED <<row, worker>> /\ exec'[w].at = at /\ exec'[w].step = exec[w].step
        /\ exec'[w].inputs = exec[w].inputs /\ \A v \in Workers \ {w} : exec'[v] = exec[v]
        /\ Holds(w)' <=> Holds(w)
    BY <1>3, GoesOn DEF Points
  <2>2. Knows(w)'
    BY <1>1, <1>3, <2>1 DEF HolderKnowsJournal, Knows, At
  <2>3. PhaseCoversSending'
    BY <1>1, <2>1, SilentSends DEF At
  <2> QED
    BY <1>1, <2>2, <2>3, OthersKnow DEF HolderKnowsJournal
<1>4. CASE exec' = [exec EXCEPT ![w] = [@ EXCEPT !.at = "step", !.step = "document-repair"]]
  <2>1. Restful
    BY <1>1, <1>4, RepairRemembers, RunBuildFrame DEF Remembers, Restful
  <2> QED
    BY <2>1, RestfulStep
<1> QED
  BY <1>2, <1>3, <1>4 DEF Announce, Compile

\* Uncertain is recorded before anything is sent: whoever sends is the first
\* and, as the journal said Prepared, the only one.
LEMMA DispatchKeeps ==
  ASSUME QueueOK, TypesOK, NoneGains, PhaseCoversSending, HolderKnowsJournal,
         NEW w \in Workers, RunBuild(w), Dispatch(w)
  PROVE  PhaseCoversSending' /\ HolderKnowsJournal'
<1> DEFINE b == worker[w].job
           s == exec[w].step
           new == [journal[b][s] EXCEPT !.phase = "Uncertain"]
<1>0. /\ worker[w].pc = "executing" /\ b \in Builds /\ s \in Steps
      /\ journal[b][s] \in Step /\ UNCHANGED sent /\ exec[w].at = "dispatch"
  BY RunBuildQueue, StepTypes DEF Dispatch, At
<1>1. CASE Out(w, Return) /\ UNCHANGED journal
  BY <1>0, <1>1, LeavesRestful, RestfulStep DEF Return
<1>2. CASE Queue!ClaimIsCurrent(w) /\ Checkpoint(b, s, new) /\ Go(w, "call")
  <2>1. Holds(w)
    BY <1>0, <1>2, CurrentHolds
  <2>2. journal[b][s].phase = "Prepared" /\ journal[b][s].inputs = exec[w].inputs
    BY <1>0, <2>1 DEF HolderKnowsJournal, Knows
  <2>3. new \in Step /\ new.phase = "Uncertain" /\ new.inputs = journal[b][s].inputs
    BY <1>0 DEF Step
  <2>4. /\ journal' \in [Builds -> [Steps -> Step]]
        /\ journal'[b][s] = new
        /\ \A c \in Builds, t \in Steps : c # b \/ t # s => journal'[c][t] = journal[c][t]
        /\ \A c \in Builds : c # b => journal'[c] = journal[c]
    <3> HIDE DEF new
    <3>1. journal' = [journal EXCEPT ![b][s] = new]
      BY <1>2 DEF Checkpoint
    <3> QED
      BY <1>0, <1>2, <2>3, <3>1, CheckpointTypes DEF TypesOK
  <2>5. /\ UNCHANGED <<row, worker>> /\ exec'[w].at = "call" /\ exec'[w].step = s
        /\ exec'[w].inputs = exec[w].inputs /\ \A v \in Workers \ {w} : exec'[v] = exec[v]
    BY <1>2, GoesOn DEF Points
  <2>6. Knows(w)'
    BY <2>2, <2>3, <2>4, <2>5 DEF Knows
  <2>7. /\ sent[b][s] = 0
        /\ \A v \in Workers : At(v, "call") => worker[v].job # b \/ exec[v].step # s
    <3>1. sent[b][s] \in Nat
      BY <1>0 DEF TypesOK
    <3>2. sent[b][s] <= 1 /\ sent[b][s] # 1
      BY <1>0, <2>2 DEF PhaseCoversSending
    <3>3. \A v \in Workers : At(v, "call") => worker[v].job # b \/ exec[v].step # s
      BY <2>2 DEF PhaseCoversSending
    <3> QED
      BY <3>1, <3>2, <3>3
  <2> HIDE DEF new
  <2>8. ASSUME NEW c \in Builds, NEW t \in Steps
        PROVE  /\ sent'[c][t] <= 1
               /\ sent'[c][t] = 1 => journal'[c][t].phase \in {"Uncertain", "Completed"}
    BY <1>0, <2>4, <2>7 DEF PhaseCoversSending
  <2>9. ASSUME NEW v \in Workers, At(v, "call")'
        PROVE  LET c == worker'[v].job
                   t == exec'[v].step
               IN
               /\ sent'[c][t] = 0
               /\ journal'[c][t].phase \in {"Uncertain", "Completed"}
               /\ \A u \in Workers \ {v} :
                    At(u, "call")' => worker'[u].job # c \/ exec'[u].step # t
    <3>1. CASE v = w
      BY <1>0, <2>3, <2>4, <2>5, <2>7, <3>1 DEF At
    <3>2. CASE v # w
      <4>1. /\ At(v, "call") /\ worker'[v] = worker[v] /\ exec'[v] = exec[v]
            /\ worker[v].job \in Builds /\ exec[v].step \in Steps
        BY <2>5, <2>9, <3>2, StepTypes DEF At
      <4>2. journal'[worker[v].job][exec[v].step] = journal[worker[v].job][exec[v].step]
        BY <2>4, <2>7, <4>1
      <4>3. \A u \in Workers \ {v} :
              At(u, "call")' => worker'[u].job # worker[v].job \/ exec'[u].step # exec[v].step
        BY <2>5, <2>7, <4>1 DEF PhaseCoversSending, At
      <4> QED
        BY <1>0, <4>1, <4>2, <4>3 DEF PhaseCoversSending
    <3> QED
      BY <3>1, <3>2
  <2>10. PhaseCoversSending'
    BY <2>8, <2>9 DEF PhaseCoversSending
  <2> QED
    BY <2>1, <2>4, <2>6, <2>10, OthersKnow DEF HolderKnowsJournal
<1> QED
  BY <1>1, <1>2 DEF Dispatch

\* The provider gets the step.
LEMMA CallKeeps ==
  ASSUME QueueOK, TypesOK, NoneGains, PhaseCoversSending, HolderKnowsJournal,
         NEW w \in Workers, RunBuild(w), Call(w)
  PROVE  PhaseCoversSending' /\ HolderKnowsJournal'
<1> DEFINE b == worker[w].job
           s == exec[w].step
<1>0. /\ At(w, "call") /\ b \in Builds /\ s \in Steps /\ UNCHANGED journal
      /\ worker[w].pc = "executing" /\ exec[w].at = "call"
  BY StepTypes DEF Call, At
<1>1. CASE Go(w, "fail") /\ UNCHANGED sent
  BY <1>0, <1>1, LeavesRestful, RestfulStep
<1>2. CASE Go(w, "stream") /\ sent' = [sent EXCEPT ![b][s] = @ + 1]
  <2>1. /\ UNCHANGED <<row, worker>> /\ exec'[w].at = "stream" /\ exec'[w].step = s
        /\ exec'[w].inputs = exec[w].inputs /\ \A v \in Workers \ {w} : exec'[v] = exec[v]
        /\ Holds(w)' <=> Holds(w)
    BY <1>2, GoesOn DEF Points
  <2>2. Knows(w)'
    BY <1>0, <2>1 DEF HolderKnowsJournal, Knows
  <2>3. /\ sent[b][s] = 0 /\ journal[b][s].phase \in {"Uncertain", "Completed"}
        /\ \A v \in Workers \ {w} : At(v, "call") => worker[v].job # b \/ exec[v].step # s
    BY <1>0 DEF PhaseCoversSending
  <2>4. /\ sent'[b][s] = 1
        /\ \A c \in Builds, t \in Steps : c # b \/ t # s => sent'[c][t] = sent[c][t]
    BY <1>0, <1>2, <2>3 DEF TypesOK
  <2>5. ASSUME NEW c \in Builds, NEW t \in Steps
        PROVE  /\ sent'[c][t] <= 1
               /\ sent'[c][t] = 1 => journal'[c][t].phase \in {"Uncertain", "Completed"}
    BY <1>0, <2>3, <2>4 DEF PhaseCoversSending
  <2>6. ASSUME NEW v \in Workers, At(v, "call")'
        PROVE  LET c == worker'[v].job
                   t == exec'[v].step
               IN
               /\ sent'[c][t] = 0
               /\ journal'[c][t].phase \in {"Uncertain", "Completed"}
               /\ \A u \in Workers \ {v} :
                    At(u, "call")' => worker'[u].job # c \/ exec'[u].step # t
    <3>1. v # w
      BY <2>1, <2>6 DEF At
    <3>2. /\ At(v, "call") /\ worker'[v] = worker[v] /\ exec'[v] = exec[v]
          /\ worker[v].job \in Builds /\ exec[v].step \in Steps
      BY <2>1, <2>6, <3>1, StepTypes DEF At
    <3>3. sent'[worker[v].job][exec[v].step] = sent[worker[v].job][exec[v].step]
      BY <2>3, <2>4, <3>1, <3>2
    <3>4. \A u \in Workers \ {v} :
            At(u, "call")' => worker'[u].job # worker[v].job \/ exec'[u].step # exec[v].step
      BY <2>1, <3>2 DEF PhaseCoversSending, At
    <3> QED
      BY <1>0, <3>2, <3>3, <3>4 DEF PhaseCoversSending
  <2>7. PhaseCoversSending'
    BY <2>5, <2>6 DEF PhaseCoversSending
  <2> QED
    BY <1>0, <2>2, <2>7, OthersKnow DEF HolderKnowsJournal
<1> QED
  BY <1>0, <1>1, <1>2 DEF Call

\* An answer is recorded for what was asked.
LEMMA ReceiveKeeps ==
  ASSUME QueueOK, TypesOK, NoneGains, PhaseCoversSending, HolderKnowsJournal,
         NEW w \in Workers, RunBuild(w), Receive(w)
  PROVE  PhaseCoversSending' /\ HolderKnowsJournal'
<1> DEFINE b == worker[w].job
           s == exec[w].step
<1>0. /\ worker[w].pc = "executing" /\ b \in Builds /\ s \in Steps
      /\ journal[b][s] \in Step /\ UNCHANGED sent /\ exec[w].at = "stream"
  BY RunBuildQueue, StepTypes DEF Receive, At
<1>1. CASE Out(w, Return) /\ UNCHANGED journal
  BY <1>0, <1>1, LeavesRestful, RestfulStep DEF Return
<1>2. ASSUME NEW a \in Answers, Queue!ClaimIsCurrent(w), Go(w, "compile"),
             Checkpoint(b, s, [journal[b][s] EXCEPT !.phase = "Completed", !.answer = a])
      PROVE  PhaseCoversSending' /\ HolderKnowsJournal'
  <2> DEFINE new == [journal[b][s] EXCEPT !.phase = "Completed", !.answer = a]
  <2>1. Holds(w)
    BY <1>0, <1>2, CurrentHolds
  <2>2. journal[b][s].inputs = exec[w].inputs
    BY <1>0, <2>1 DEF HolderKnowsJournal, Knows
  <2>3. new \in Step /\ new.phase = "Completed" /\ new.inputs = journal[b][s].inputs
    BY <1>0 DEF Step
  <2>4. Checkpoint(b, s, new)
    BY <1>2
  <2> HIDE DEF new
  <2>5. /\ journal' \in [Builds -> [Steps -> Step]]
        /\ journal'[b][s] = new
        /\ \A c \in Builds, t \in Steps : c # b \/ t # s => journal'[c][t] = journal[c][t]
        /\ \A c \in Builds : c # b => journal'[c] = journal[c]
    BY <1>0, <2>3, <2>4, CheckpointTypes DEF TypesOK, Checkpoint
  <2>6. /\ UNCHANGED <<row, worker>> /\ exec'[w].at = "compile" /\ exec'[w].step = s
        /\ exec'[w].inputs = exec[w].inputs /\ \A v \in Workers \ {w} : exec'[v] = exec[v]
    BY <1>2, GoesOn DEF Points
  <2>7. Knows(w)'
    BY <2>2, <2>3, <2>5, <2>6 DEF Knows
  <2>8. \A c \in Builds, t \in Steps :
          journal[c][t].phase \in {"Uncertain", "Completed"} =>
            journal'[c][t].phase \in {"Uncertain", "Completed"}
    BY <2>3, <2>5
  <2>9. ASSUME NEW v \in Workers, At(v, "call")'
        PROVE  /\ At(v, "call") /\ worker'[v] = worker[v] /\ exec'[v] = exec[v]
               /\ worker[v].job \in Builds /\ exec[v].step \in Steps
    BY <2>6, <2>9, StepTypes DEF At
  <2>10. PhaseCoversSending'
    BY <1>0, <2>8, <2>9 DEF PhaseCoversSending
  <2> QED
    BY <2>1, <2>5, <2>7, <2>10, OthersKnow DEF HolderKnowsJournal
<1> QED
  BY <1>1, <1>2 DEF Receive

\* An operator who repairs the journal of a dead job: nobody holds its claim.
LEMMA ReconcileKeeps ==
  ASSUME QueueOK, TypesOK, NoneGains, PhaseCoversSending, HolderKnowsJournal,
         NEW b \in Builds, Reconcile(b)
  PROVE  PhaseCoversSending' /\ HolderKnowsJournal'
<1> DEFINE s == "synthesis"
<1>a. s \in Steps
  BY DEF Steps
<1>b. journal[b][s] \in Step /\ sent[b][s] \in Nat
  BY <1>a DEF TypesOK
<1>0. /\ s \in Steps /\ journal[b][s] \in Step /\ journal[b][s].phase = "Uncertain"
      /\ UNCHANGED <<worker, exec, sent>> /\ row[b].status = "dead"
      /\ sent[b][s] \in Nat
  BY <1>a, <1>b DEF Reconcile, Queue!RequeueDead, Queue!Repairable
<1>1. PICK new \in Step :
        /\ journal' = [journal EXCEPT ![b][s] = new]
        /\ \/ new.phase = "Completed"
           \/ /\ new.phase = "Prepared" /\ sent[b][s] = 0
              /\ \A w \in Workers : worker[w].job = b => exec[w].at # "call"
  <2>1. [journal[b][s] EXCEPT !.phase = "Prepared"] \in Step
        /\ [journal[b][s] EXCEPT !.phase = "Prepared"].phase = "Prepared"
    BY <1>0 DEF Step
  <2>2. \A a \in Answers :
          /\ [journal[b][s] EXCEPT !.phase = "Completed", !.answer = a] \in Step
          /\ [journal[b][s] EXCEPT !.phase = "Completed", !.answer = a].phase = "Completed"
    BY <1>0 DEF Step
  <2>3. CASE /\ sent[b][s] = 0
             /\ \A w \in Workers : worker[w].job = b => exec[w].at # "call"
             /\ journal' = [journal EXCEPT ![b][s].phase = "Prepared"]
    <3>1. journal' = [journal EXCEPT ![b][s] = [journal[b][s] EXCEPT !.phase = "Prepared"]]
      BY <2>3
    <3> QED
      BY <2>1, <2>3, <3>1
  <2>4. ASSUME NEW a \in Answers,
               journal' = [journal EXCEPT ![b][s] =
                             [@ EXCEPT !.phase = "Completed", !.answer = a]]
        PROVE  \E new \in Step :
                 journal' = [journal EXCEPT ![b][s] = new] /\ new.phase = "Completed"
    BY <2>2, <2>4
  <2> QED
    BY <2>3, <2>4 DEF Reconcile
<1>2. /\ journal'[b][s] = new
      /\ \A c \in Builds, t \in Steps : c # b \/ t # s => journal'[c][t] = journal[c][t]
      /\ \A c \in Builds : c # b => journal'[c] = journal[c]
  BY <1>0, <1>1 DEF TypesOK
<1>3. ASSUME NEW w \in Workers PROVE Knows(w)'
  <2> SUFFICES ASSUME Holds(w)', worker'[w].pc = "executing" PROVE Knows(w)'
    BY DEF Knows
  <2>1. Holds(w)
    BY <1>0 DEF NoneGains
  <2>2. worker[w].job \in Builds /\ worker[w].job # b
    BY <1>0, <2>1, StepTypes DEF Holds, Queue!Owns
  <2> QED
    BY <1>0, <1>2, <2>1, <2>2 DEF HolderKnowsJournal, Knows
<1>4. ASSUME NEW c \in Builds, NEW t \in Steps
      PROVE  /\ sent'[c][t] <= 1
             /\ sent'[c][t] = 1 => journal'[c][t].phase \in {"Uncertain", "Completed"}
  BY <1>0, <1>1, <1>2 DEF PhaseCoversSending
<1>5. ASSUME NEW w \in Workers, At(w, "call")
      PROVE  journal'[worker[w].job][exec[w].step].phase \in {"Uncertain", "Completed"}
  <2>1. worker[w].job \in Builds /\ exec[w].step \in Steps
    BY <1>5, StepTypes DEF At
  <2> QED
    BY <1>1, <1>2, <1>5, <2>1 DEF PhaseCoversSending, At
<1>6. \A w \in Workers : At(w, "call")' <=> At(w, "call")
  BY <1>0 DEF At
<1>7. PhaseCoversSending'
  BY <1>0, <1>4, <1>5, <1>6 DEF PhaseCoversSending
<1> QED
  BY <1>3, <1>7 DEF HolderKnowsJournal

\* Whatever happens, the journal is ahead of the provider.
LEMMA JournalStep ==
  ASSUME QueueOK, TypesOK, PhaseCoversSending, HolderKnowsJournal, [Next]_vars
  PROVE  PhaseCoversSending' /\ HolderKnowsJournal'
<1>1. NoneGains
  BY QueueStep
<1>2. ASSUME NEW w \in Workers,
             Decide(w) \/ Announce(w) \/ Dispatch(w) \/ Call(w) \/ Receive(w) \/ Compile(w)
      PROVE  PhaseCoversSending' /\ HolderKnowsJournal'
  BY <1>1, <1>2, DecideKeeps, SilentStepsKeep, DispatchKeeps, CallKeeps, ReceiveKeeps
  DEF RunBuild
<1> QED
  BY <1>1, <1>2, ReconcileKeeps, RestfulSteps, RestfulStep

-----------------------------------------------------------------------------
(* How builds end *)

\* What a step does to a build: nothing, a fresh start, an end of one that was
\* active, or news of one that goes on.
Fate(b) ==
  LET old == build[b]
      new == build'[b]
  IN
  \/ new = old
  \/ Generate(b) /\ new.known /\ new.children = {} /\ new.last = "Started"
  \/ Purge /\ ~new.known /\ new.children = {} /\ new.last = "none"
  \/ Active(b) /\ new.known /\ new.children = {} /\ new.last = "Progress"
  \/ /\ Active(b) /\ new.known
     /\ \/ new.children = {"failure"} /\ new.last = "Failed"
        \/ new.children = {"cancellation"} /\ new.last = "Cancelled"
        \/ /\ new.children = {"revision"} /\ new.last = "Succeeded"
           /\ new.text = new.manifest

\* The one child of a build that was active, and its event; no other build is
\* touched.
Writes(b, child, event) ==
  /\ Active(b) /\ build'[b].known /\ build'[b].children = {child} /\ build'[b].last = event
  /\ \A c \in Builds \ {b} : build'[c] = build[c]

\* One child for a build that had none.
LEMMA EndIsFate ==
  ASSUME TypesOK, NEW b \in Builds, Active(b),
         \/ build' = End(b, "failure", "Failed")
         \/ build' = End(b, "cancellation", "Cancelled")
  PROVE  /\ \A c \in Builds : Fate(c)
         /\ build' = End(b, "failure", "Failed") => Writes(b, "failure", "Failed")
         /\ build' = End(b, "cancellation", "Cancelled") => Writes(b, "cancellation", "Cancelled")
<1>1. "failure" \in Children /\ "cancellation" \in Children
  BY DEF Children
<1>2. ASSUME NEW child \in Children, NEW event \in {"Succeeded", "Failed", "Cancelled"},
             build' = End(b, child, event)
      PROVE  /\ build'[b].children = {child} /\ build'[b].last = event /\ build'[b].known
             /\ \A c \in Builds \ {b} : build'[c] = build[c]
  <2>1. build[b].children = {} /\ build[b].known
    BY DEF Active, Ended
  <2> QED
    BY <1>2, <2>1, EndTypes
<1> QED
  BY <1>1, <1>2 DEF Fate, Writes

\* The holder of the claim publishes what it knows to be the answer to what it
\* collected.
LEMMA PublishFate ==
  ASSUME QueueOK, TypesOK, HolderKnowsJournal, NEW w \in Workers, Publish(w)
  PROVE  /\ \A c \in Builds : Fate(c)
         /\ \/ UNCHANGED <<head, build>>
            \/ Writes(worker[w].job, "failure", "Failed") /\ UNCHANGED head
            \/ /\ Writes(worker[w].job, "revision", "Succeeded")
               /\ head' = [head EXCEPT !.current = worker[w].job]
<1> DEFINE b == worker[w].job
           s == exec[w].step
<1>0. /\ worker[w].pc = "executing" /\ b \in Builds /\ s \in Steps /\ exec[w].at = "publish"
      /\ exec[w].inputs \in Versions /\ journal[b][s] \in Step
  BY StepTypes DEF Publish, At
<1>1. CASE UNCHANGED <<head, build>>
  BY <1>1 DEF Fate
<1>2. CASE CanWrite(w) /\ build' = End(b, "failure", "Failed") /\ UNCHANGED head
  BY <1>0, <1>2, EndIsFate DEF CanWrite
<1>3. CASE /\ CanWrite(w)
           /\ build' = [End(b, "revision", "Succeeded") EXCEPT ![b] =
                         [@ EXCEPT !.manifest = exec[w].inputs, !.text = journal[b][s].inputs]]
           /\ head' = [head EXCEPT !.current = b]
  <2>1. journal[b][s].inputs = exec[w].inputs
    BY <1>0, <1>3, CurrentHolds DEF CanWrite, HolderKnowsJournal, Knows
  <2>2. Active(b) /\ build[b].children = {} /\ build[b].known
    BY <1>3 DEF CanWrite, Active, Ended
  <2> DEFINE f == End(b, "revision", "Succeeded")
             x == [f[b] EXCEPT !.manifest = exec[w].inputs, !.text = journal[b][s].inputs]
  <2>3. /\ f \in [Builds -> Build] /\ f[b].children = {"revision"} /\ f[b].last = "Succeeded"
        /\ f[b].known /\ \A c \in Builds \ {b} : f[c] = build[c]
    <3>1. "revision" \in Children
      BY DEF Children
    <3> QED
      BY <1>0, <2>2, <3>1, EndTypes
  <2>4. build' = [f EXCEPT ![b] = x]
    BY <1>3
  <2> HIDE DEF f
  <2>5. f[b] \in Build
    BY <1>0, <2>3
  <2>6. /\ x.children = {"revision"} /\ x.last = "Succeeded" /\ x.known /\ x.text = x.manifest
    BY <2>1, <2>3, <2>5 DEF Build
  <2> HIDE DEF x
  <2>7. build'[b] = x /\ \A c \in Builds \ {b} : build'[c] = build[c]
    BY <1>0, <2>3, <2>4
  <2> QED
    BY <1>3, <2>2, <2>6, <2>7 DEF Fate, Writes
<1> QED
  BY <1>1, <1>2, <1>3 DEF Publish

LEMMA FateStep ==
  ASSUME QueueOK, TypesOK, HolderKnowsJournal, [Next]_vars
  PROVE  \A b \in Builds : Fate(b)
<1>1. CASE UNCHANGED build
  BY <1>1 DEF Fate
<1>2. ASSUME NEW b \in Builds, Generate(b) PROVE \A c \in Builds : Fate(c)
  <2> DEFINE new == [Unknown EXCEPT !.known = TRUE, !.last = "Started"]
  <2>1. new.known /\ new.children = {} /\ new.last = "Started"
    BY DEF Unknown
  <2>2. build' = [build EXCEPT ![b] = new]
    BY <1>2 DEF Generate
  <2> HIDE DEF new
  <2> QED
    BY <1>2, <2>1, <2>2 DEF Fate, TypesOK
<1>3. ASSUME NEW b \in Builds, Cancel(b) \/ RequesterLeaves(b) PROVE \A c \in Builds : Fate(c)
  BY <1>3, EndIsFate DEF Cancel, RequesterLeaves
<1>4. CASE Purge
  BY <1>4 DEF Purge, Unknown, Fate
<1>5. ASSUME NEW w \in Workers, Announce(w) PROVE \A c \in Builds : Fate(c)
  <2> DEFINE b == worker[w].job
  <2>1. CASE CanWrite(w) /\ build' = [build EXCEPT ![b].last = "Progress"]
    <3>1. b \in Builds /\ Active(b)
      BY <1>5, <2>1, StepTypes DEF Announce, At, CanWrite
    <3>2. build[b] \in Build /\ build[b].known /\ build[b].children = {}
      BY <3>1 DEF TypesOK, Active, Ended
    <3>3. /\ build'[b].known /\ build'[b].children = {} /\ build'[b].last = "Progress"
          /\ \A c \in Builds \ {b} : build'[c] = build[c]
      BY <2>1, <3>1, <3>2 DEF TypesOK, Build
    <3> QED
      BY <3>1, <3>3 DEF Fate
  <2> QED
    BY <1>1, <1>5, <2>1 DEF Announce
<1>6. ASSUME NEW w \in Workers, Fail(w) PROVE \A c \in Builds : Fate(c)
  <2>1. worker[w].job \in Builds
    BY <1>6, StepTypes DEF Fail, At
  <2> QED
    BY <1>1, <1>6, <2>1, EndIsFate DEF Fail, CanWrite
<1>7. ASSUME NEW w \in Workers, WorkerStep(w), ~Announce(w), ~Publish(w), ~Fail(w)
      PROVE  UNCHANGED build
  BY <1>7 DEF WorkerStep, Take, Enter, RunBuild, Settle, Crash, Open, Collect, Decide, Dispatch,
              Call, Receive, NoAnswer, Compile, OnlyQueue, OnlyMemory
<1>8. CASE Request
  BY <1>1, <1>2, <1>3, <1>4, <1>8 DEF Request, MakeCurrent, Reconcile, Requeue, Change
<1>9. ASSUME NEW w \in Workers, WorkerStep(w) PROVE \A c \in Builds : Fate(c)
  BY <1>1, <1>5, <1>6, <1>7, <1>9, PublishFate
<1> QED
  BY <1>1, <1>8, <1>9 DEF Next, Tick, vars

LEMMA EndsStep ==
  ASSUME EndsAgree, TextAnswersManifest, \A b \in Builds : Fate(b)
  PROVE  EndsAgree' /\ TextAnswersManifest'
BY DEF EndsAgree, TextAnswersManifest, Fate

-----------------------------------------------------------------------------
(* Builds and their jobs *)

\* The status of a build's row: who ends the work on it.
RowFate(b) ==
  LET old == row[b].status
      new == row'[b].status
  IN
  \/ new = old
  \/ Generate(b) /\ new = "pending"
  \/ old \notin {"absent", "deleted"} /\ new \in {"pending", "running", "failed", "dead"}
  \/ /\ new = "succeeded" /\ UNCHANGED build
     /\ \E w \in Workers : worker[w].pc = "completing" /\ worker[w].job = b /\ Holds(w)
  \/ /\ new = "deleted" /\ old # "absent"
     /\ Purge \/ RequesterLeaves(b)

LEMMA EnqueuedRow ==
  ASSUME QueueOK, NEW b \in Builds, Generate(b)
  PROVE  row'[b].status = "pending" /\ \A c \in Builds \ {b} : row'[c] = row[c]
<1>1. PICK d \in 0..0 : row' = [row EXCEPT ![b] = Queue!Unclaimed("pending", 0, d, FALSE)]
  BY DEF Generate, Queue!Enqueue, Queue!Fresh
<1>2. Queue!Unclaimed("pending", 0, d, FALSE).status = "pending"
  BY DEF Queue!Unclaimed
<1> QED
  BY <1>1, <1>2 DEF QueueOK

LEMMA RequestRows ==
  ASSUME QueueOK, Request
  PROVE  \A b \in Builds : RowFate(b)
<1>1. ASSUME NEW b \in Builds, Generate(b) PROVE \A c \in Builds : RowFate(c)
  BY <1>1, EnqueuedRow DEF RowFate
<1>2. ASSUME NEW b \in Builds, Queue!RequeueDead(b) PROVE \A c \in Builds : RowFate(c)
  <2>1. Queue!Unclaimed("pending", 0, 0, row[b].errored).status = "pending"
    BY DEF Queue!Unclaimed
  <2> QED
    BY <1>2, <2>1 DEF QueueOK, Queue!RequeueDead, Queue!Repairable, RowFate
<1>3. ASSUME NEW B \in SUBSET Builds, Gone(B), \A b \in B : Purge \/ RequesterLeaves(b)
      PROVE  \A c \in Builds : RowFate(c)
  <2>1. Queue!Fresh("deleted", 0).status = "deleted"
    BY DEF Queue!Fresh, Queue!Unclaimed
  <2> QED
    BY <1>3, <2>1 DEF Gone, RowFate
<1>4. CASE Purge
  BY <1>3, <1>4 DEF Purge, Revoked
<1>5. ASSUME NEW b \in Builds, RequesterLeaves(b) PROVE \A c \in Builds : RowFate(c)
  BY <1>3, <1>5 DEF RequesterLeaves
<1>6. ASSUME UNCHANGED row PROVE \A c \in Builds : RowFate(c)
  BY <1>6 DEF RowFate
<1> QED
  BY <1>1, <1>2, <1>4, <1>5, <1>6
  DEF Request, Cancel, MakeCurrent, Reconcile, Requeue, Change, queue

LEMMA WorkerRows ==
  ASSUME QueueOK, TypesOK, NEW w \in Workers, WorkerStep(w)
  PROVE  \A b \in Builds : RowFate(b)
<1>1. ASSUME UNCHANGED row PROVE \A c \in Builds : RowFate(c)
  BY <1>1 DEF RowFate
<1>2. ASSUME NEW b \in Builds, Queue!Claim(w, b) PROVE \A c \in Builds : RowFate(c)
  <2>1. row[b] \in Queue!Row
    BY DEF QueueOK
  <2>2. Queue!Claimed(w, b).status = "running"
    BY <2>1 DEF Queue!Claimed, Queue!Row
  <2>3. row' = [row EXCEPT ![b] = Queue!Claimed(w, b)]
    BY <1>2 DEF Queue!Claim
  <2>4. row[b].status \notin {"absent", "deleted"}
    BY <1>2 DEF Queue!Claim, Queue!Claimable, Queue!Waiting
  <2> QED
    BY <2>2, <2>3, <2>4 DEF QueueOK, RowFate
<1>3. ASSUME NEW b \in Builds, Queue!DeadLetterExpired(w, b) PROVE \A c \in Builds : RowFate(c)
  <2>1. Queue!Expired(b).status = "dead"
    BY DEF Queue!Expired, Queue!Unclaimed
  <2> QED
    BY <1>3, <2>1 DEF Queue!DeadLetterExpired, QueueOK, RowFate
<1>4. CASE Enter(w)
  <2>1. \/ UNCHANGED row
        \/ row' = [row EXCEPT ![worker[w].job].lease = 1]
    BY <1>4 DEF Enter, Queue!Start
  <2>2. \A c \in Builds : row'[c].status = row[c].status
    BY <2>1 DEF QueueOK, Queue!Row
  <2> QED
    BY <2>2 DEF RowFate
<1>5. CASE Settle(w)
  <2> DEFINE b == worker[w].job
  <2>1. CASE Queue!Complete(w)
    <3>1. CASE Queue!Owns(w, b)
      <4>1. row' = [row EXCEPT ![b] = Queue!Released(b, "succeeded", row[b].wait)]
        BY <2>1, <3>1 DEF Queue!Complete, Queue!CompleteRow
      <4>2. Queue!Released(b, "succeeded", row[b].wait).status = "succeeded"
        BY DEF Queue!Released, Queue!Unclaimed
      <4>3. worker[w].pc = "completing" /\ Holds(w) /\ UNCHANGED build
        BY <1>5, <2>1, <3>1 DEF Queue!Complete, Holds, Settle, OnlyQueue
      <4> QED
        BY <4>1, <4>2, <4>3 DEF QueueOK, RowFate
    <3> QED
      BY <1>1, <2>1, <3>1 DEF Queue!Complete, Queue!CompleteRow
  <2>2. ASSUME NEW st \in {"pending", "failed", "dead"}, NEW r, r.status = st,
               row[b].status = "running", row' = [row EXCEPT ![b] = r]
        PROVE  \A c \in Builds : RowFate(c)
    BY <2>2 DEF QueueOK, RowFate
  <2>3. CASE Queue!Reschedule(w)
    <3>1. UNCHANGED row \/ \E d \in 0..0 :
            /\ row[b].status = "running"
            /\ row' = [row EXCEPT ![b] =
                 Queue!Unclaimed("pending", Queue!Refunded(row[b].attempts), d, row[b].errored)]
      BY <2>3 DEF Queue!Reschedule, Queue!RescheduleRow, Queue!ClaimIsCurrent, Queue!Owns
    <3>2. \A n, d, e : Queue!Unclaimed("pending", n, d, e).status = "pending"
      BY DEF Queue!Unclaimed
    <3> QED
      BY <1>1, <2>2, <3>1, <3>2
  <2>4. CASE Queue!Fail(w)
    <3>1. UNCHANGED row \/ \E d : \E st \in {"dead", "failed"} :
            /\ row[b].status = "running"
            /\ row' = [row EXCEPT ![b] = Queue!Unclaimed(st, row[b].attempts, d, TRUE)]
      BY <2>4 DEF Queue!Fail, Queue!FailRow, Queue!Owns
    <3>2. ASSUME ~UNCHANGED row PROVE \A c \in Builds : RowFate(c)
      <4>1. PICK d : \E st \in {"dead", "failed"} :
              /\ row[b].status = "running"
              /\ row' = [row EXCEPT ![b] = Queue!Unclaimed(st, row[b].attempts, d, TRUE)]
        BY <3>1, <3>2
      <4>1b. PICK st \in {"dead", "failed"} :
              /\ row[b].status = "running"
              /\ row' = [row EXCEPT ![b] = Queue!Unclaimed(st, row[b].attempts, d, TRUE)]
        BY <4>1
      <4> DEFINE r == Queue!Unclaimed(st, row[b].attempts, d, TRUE)
      <4>2. r.status = st
        BY DEF Queue!Unclaimed
      <4>3. row' = [row EXCEPT ![b] = r] /\ st \in {"pending", "failed", "dead"}
        BY <4>1b
      <4> HIDE DEF r
      <4> QED
        BY <2>2, <4>1b, <4>2, <4>3
    <3> QED
      BY <1>1, <3>2
  <2> QED
    BY <1>5, <2>1, <2>3, <2>4 DEF Settle
<1>6. CASE Crash(w)
  BY <1>1, <1>6 DEF Crash, Queue!Crash
<1>7. CASE RunBuild(w)
  BY <1>1, <1>7, RunBuildFrame
<1> QED
  BY <1>2, <1>3, <1>4, <1>5, <1>6, <1>7 DEF WorkerStep, Take

LEMMA RowFateStep ==
  ASSUME QueueOK, TypesOK, [Next]_vars
  PROVE  \A b \in Builds : RowFate(b)
<1>1. ASSUME UNCHANGED row PROVE \A c \in Builds : RowFate(c)
  BY <1>1 DEF RowFate
<1>2. CASE Tick
  <2>1. \A b \in Builds : row'[b].status = row[b].status
    BY <1>2 DEF Tick, Queue!Tick, QueueOK, Queue!Row
  <2> QED
    BY <2>1 DEF RowFate
<1> QED
  BY <1>1, <1>2, RequestRows, WorkerRows DEF Next, vars, queue

\* Nothing but run_build makes a worker settle its job as done.
LEMMA OnlyRunBuildCompletes ==
  ASSUME QueueOK, TypesOK, [Next]_vars, NEW w \in Workers,
         worker'[w].pc = "completing", worker[w].pc # "completing"
  PROVE  RunBuild(w)
<1>1. ~UNCHANGED worker
  OBVIOUS
<1>2. CASE Request \/ Tick \/ UNCHANGED vars
  BY <1>1, <1>2 DEF Request, Generate, Cancel, MakeCurrent, RequesterLeaves, Reconcile, Requeue,
     Purge, Change, Tick, Queue!Enqueue, Queue!RequeueDead, Queue!Tick, vars, queue
<1>3. ASSUME NEW v \in Workers, WorkerStep(v) PROVE RunBuild(w)
  <2>1. CASE \E b \in Builds : Take(v, b)
    <3>1. PICK b \in Builds : Take(v, b)
      BY <2>1
    <3>2. worker' = [worker EXCEPT ![v] = [pc |-> "claimed", job |-> b,
                       attempt |-> row[b].attempts + 1, token |-> claims[b] + 1]]
      BY <1>1, <3>1 DEF Take, Queue!Claim, Queue!DeadLetterExpired
    <3> QED
      BY <3>2 DEF QueueOK
  <2>2. CASE Enter(v) \/ Settle(v) \/ Crash(v)
    <3>1. \/ worker' = [worker EXCEPT ![v] = Queue!Idle]
          \/ worker' = [worker EXCEPT ![v].pc = "executing"]
      BY <2>2 DEF Enter, Settle, Crash, Queue!Start, Queue!Complete, Queue!Reschedule, Queue!Fail,
         Queue!Crash, Queue!Return, Queue!Goto
    <3>2. Queue!Idle.pc = "idle"
      BY DEF Queue!Idle
    <3> QED
      BY <3>1, <3>2 DEF QueueOK, Queue!Worker
  <2>3. CASE RunBuild(v)
    BY <2>3, RunBuildFrame
  <2> QED
    BY <1>3, <2>1, <2>2, <2>3 DEF WorkerStep
<1> QED
  BY <1>2, <1>3 DEF Next

\* A worker settles its job as done when the build has ended, or may not.
LEMMA ReturnsEnded ==
  ASSUME QueueOK, TypesOK, NEW w \in Workers, RunBuild(w), Holds(w),
         worker'[w].pc = "completing"
  PROVE  ~Active(worker[w].job)'
<1> DEFINE b == worker[w].job
<1>0. worker[w].pc = "executing" /\ b \in Builds
  BY RunBuildQueue, StepTypes
<1>1. Queue!ClaimIsCurrent(w)
  BY <1>0 DEF Holds, Queue!ClaimIsCurrent, QueueOK
<1>2. Out(w, "completing")
  <2>1. worker'[w].pc # worker[w].pc
    BY <1>0
  <2>2. PICK pc \in {"completing", "failing", "rescheduling"} : Out(w, pc)
    BY <2>1, RunBuildQueue DEF queue
  <2>3. worker'[w].pc = pc
    BY <2>2 DEF Out, Queue!Goto, QueueOK, Queue!Worker
  <2> QED
    BY <2>2, <2>3
<1>3. ~UNCHANGED queue
  BY <1>0 DEF queue
<1>4. \A pc \in {"failing", "rescheduling"} : ~Out(w, pc)
  BY <1>0 DEF Out, Queue!Goto, QueueOK, Queue!Worker
<1>5. UNCHANGED build /\ ~Active(b) => ~Active(b)'
  BY <1>0, RunBuildFrame DEF Active, Ended
<1>6. worker'[w].job = b
  BY RunBuildFrame
<1>7. CASE Open(w) \/ Collect(w)
  BY <1>3, <1>4, <1>5, <1>7 DEF Open, Collect, Go, OnlyMemory
<1>8. CASE Decide(w)
  <2>1. journal[b][exec[w].step].phase \in {"absent", "Prepared", "Uncertain", "Completed"}
    BY <1>0, StepTypes
  <2>2. ~CanWrite(w)
    BY <1>3, <1>4, <1>8, <2>1 DEF Decide, Go, OnUncertain, Raise
  <2> QED
    BY <1>1, <1>5, <1>8, <2>2 DEF Decide, CanWrite
<1>9. CASE Announce(w)
  BY <1>1, <1>3, <1>5, <1>9 DEF Announce, CanWrite, Go
<1>10. CASE Dispatch(w) \/ Receive(w) \/ Call(w)
  BY <1>1, <1>3, <1>5, <1>10 DEF Dispatch, Receive, Call, Go
<1>11. CASE NoAnswer(w)
  BY <1>1, <1>3, <1>4, <1>5, <1>11 DEF NoAnswer, OnlyMemory, Go, Raise, CanWrite
<1>12. CASE Compile(w)
  BY <1>3, <1>12 DEF Compile, Go
<1>13. CASE Publish(w) \/ Fail(w)
  <2>1. CASE ~CanWrite(w)
    BY <1>1, <1>5, <1>13, <2>1 DEF Publish, Fail, CanWrite
  <2>2. ASSUME NEW child \in {"failure", "revision"}, NEW event \in {"Failed", "Succeeded"},
               NEW f, f = End(b, child, event),
               build' = f \/ build' = [f EXCEPT ![b] =
                          [@ EXCEPT !.manifest = exec[w].inputs,
                                    !.text = journal[b][exec[w].step].inputs]]
        PROVE  ~Active(b)'
    <3>0. child \in Children /\ event \in {"Succeeded", "Failed", "Cancelled"}
      BY DEF Children
    <3>a. /\ End(b, child, event) \in [Builds -> Build]
          /\ End(b, child, event)[b].children = build[b].children \cup {child}
      BY <1>0, <3>0, EndTypes
    <3>1. f \in [Builds -> Build] /\ f[b].children # {}
      BY <2>2, <3>a
    <3>2. f[b] \in Build
      BY <1>0, <3>1
    <3>3. build'[b].children # {}
      <4> DEFINE x == [f[b] EXCEPT !.manifest = exec[w].inputs,
                                   !.text = journal[b][exec[w].step].inputs]
      <4>1. x.children = f[b].children
        BY <3>2 DEF Build
      <4>2. build' = f \/ build' = [f EXCEPT ![b] = x]
        BY <2>2
      <4> HIDE DEF x
      <4> QED
        BY <1>0, <3>1, <4>1, <4>2
    <3> QED
      BY <1>6, <3>3 DEF Active, Ended
  <2> QED
    BY <1>13, <2>1, <2>2 DEF Publish, Fail
<1> QED
  BY <1>7, <1>8, <1>9, <1>10, <1>11, <1>12, <1>13 DEF RunBuild

\* Whoever settles a job as done has found its build ended; a build that has
\* ended begins again only with a job nobody had.
LEMMA CompletedStep ==
  ASSUME QueueOK, TypesOK, NoneGains, CompletedHasEnded, [Next]_vars,
         \A b \in Builds : Fate(b) /\ RowFate(b)
  PROVE  CompletedHasEnded'
<1>1. ASSUME NEW b \in Builds, build'[b].known PROVE row'[b].status # "absent"
  <2>1. CASE Generate(b)
    BY <2>1, EnqueuedRow
  <2>2. CASE ~Generate(b)
    <3>1. build[b].known
      BY <1>1, <2>2 DEF Fate, Active
    <3>2. row[b].status # "absent"
      BY <3>1 DEF CompletedHasEnded
    <3> QED
      BY <3>2 DEF RowFate
  <2> QED
    BY <2>1, <2>2
<1>2. ASSUME NEW w \in Workers, worker'[w].pc = "completing", Holds(w)'
      PROVE  ~Active(worker[w].job)'
  <2>1. Holds(w) /\ worker'[w].job = worker[w].job
    BY <1>2 DEF NoneGains
  <2>2. worker[w].job \in Builds /\ row[worker[w].job].status # "absent"
    BY <2>1 DEF Holds, QueueOK, Queue!Worker
  <2>3. CASE worker[w].pc = "completing"
    <3>1. ~Active(worker[w].job)
      BY <2>1, <2>3 DEF CompletedHasEnded
    <3>2. ~Generate(worker[w].job)
      BY <2>2 DEF Generate, Queue!Enqueue
    <3> QED
      BY <2>1, <2>2, <3>1, <3>2 DEF Fate, Active, Ended
  <2>4. CASE worker[w].pc # "completing"
    <3>1. RunBuild(w)
      BY <1>2, <2>4, OnlyRunBuildCompletes
    <3> QED
      BY <1>2, <2>1, <3>1, ReturnsEnded
  <2> QED
    BY <2>3, <2>4
<1>3. \A w \in Workers : worker'[w].pc = "completing" /\ Holds(w)' => worker'[w].job = worker[w].job
  BY DEF NoneGains
<1> QED
  BY <1>1, <1>2, <1>3 DEF CompletedHasEnded

\* No return of a handler leaves an active build without a job.
LEMMA JobsStep ==
  ASSUME QueueOK, TypesOK, CompletedHasEnded, JobsMatchBuilds,
         \A b \in Builds : Fate(b) /\ RowFate(b)
  PROVE  JobsMatchBuilds'
<1> SUFFICES ASSUME NEW b \in Builds
             PROVE  /\ Active(b)' => row'[b].status \in {"pending", "running", "failed", "dead"}
                    /\ ~build'[b].known => row'[b].status \in {"absent", "deleted"}
  BY DEF JobsMatchBuilds
<1>1. ASSUME Active(b)' PROVE row'[b].status \in {"pending", "running", "failed", "dead"}
  <2>1. CASE Generate(b)
    BY <2>1, EnqueuedRow
  <2>2. CASE ~Generate(b)
    <3>1. Active(b)
      BY <1>1, <2>2 DEF Fate, Active, Ended
    <3>2. ~Purge
      BY <1>1 DEF Purge, Unknown, Active
    <3>3. ~RequesterLeaves(b)
      <4>1. ASSUME RequesterLeaves(b) PROVE build'[b].children # {}
        BY <4>1, EndTypes DEF RequesterLeaves, Children
      <4> QED
        BY <1>1, <4>1 DEF Active, Ended
    <3>4. row[b].status \in {"pending", "running", "failed", "dead"}
      BY <3>1 DEF JobsMatchBuilds
    <3>5. ~ \E w \in Workers : worker[w].pc = "completing" /\ worker[w].job = b /\ Holds(w)
      BY <3>1 DEF CompletedHasEnded
    <3> QED
      BY <2>2, <3>2, <3>3, <3>4, <3>5 DEF RowFate
  <2> QED
    BY <2>1, <2>2
<1>2. ASSUME ~build'[b].known PROVE row'[b].status \in {"absent", "deleted"}
  <2>1. CASE build[b].known
    <3>1. Purge
      BY <1>2, <2>1 DEF Fate
    <3>2. Queue!Fresh("deleted", 0).status = "deleted"
      BY DEF Queue!Fresh, Queue!Unclaimed
    <3> QED
      BY <2>1, <3>1, <3>2 DEF Purge, Revoked, Gone
  <2>2. CASE ~build[b].known
    <3>1. row[b].status \in {"absent", "deleted"}
      BY <2>2 DEF JobsMatchBuilds
    <3>2. ~Generate(b)
      <4>1. ASSUME Generate(b) PROVE build'[b].known
        BY <4>1 DEF Generate, Unknown, TypesOK
      <4> QED
        BY <1>2, <4>1
    <3>3. ~ \E w \in Workers : worker[w].job = b /\ Holds(w)
      BY <3>1 DEF Holds, Queue!Owns
    <3> QED
      BY <3>1, <3>2, <3>3 DEF RowFate
  <2> QED
    BY <2>1, <2>2
<1> QED
  BY <1>1, <1>2

-----------------------------------------------------------------------------
(* The invariant *)

LEMMA InitHolds == Init => IInv
<1> SUFFICES ASSUME Init PROVE IInv
  OBVIOUS
<1>1. QueueOK
  <2>1. /\ Queue!Fresh("absent", 0) \in Queue!Row
        /\ Queue!Fresh("absent", 0).status = "absent"
    BY DEF Queue!Fresh, Queue!Unclaimed, Queue!Row, Queue!Status
  <2>2. /\ Queue!Idle \in Queue!Worker /\ Queue!Idle.pc = "idle" /\ Queue!Idle.job = NoBuild
    BY DEF Queue!Idle, Queue!Worker, Queue!Phases
  <2> QED
    BY <2>1, <2>2 DEF Init, Queue!Init, QueueOK, Holds
<1>2. TypesOK
  <2>1. Unknown \in Build /\ NoStep \in Step /\ NotExecuting \in Executor
    BY DEF Unknown, Build, NoStep, Step, NotExecuting, Executor, Steps, Versions, Answers
  <2> QED
    BY <2>1 DEF Init, TypesOK, Versions
<1>3. \A w \in Workers : worker[w].pc = "idle"
  BY DEF Init, Queue!Init, Queue!Idle
<1>4. PhaseCoversSending /\ HolderKnowsJournal
  BY <1>3 DEF Init, PhaseCoversSending, HolderKnowsJournal, Knows, At
<1>5. EndsAgree /\ TextAnswersManifest
  BY DEF Init, Unknown, EndsAgree, TextAnswersManifest
<1>6. CompletedHasEnded
  BY <1>3 DEF Init, Unknown, CompletedHasEnded
<1>7. JobsMatchBuilds
  BY DEF Init, Queue!Init, Queue!Fresh, Queue!Unclaimed, Unknown, JobsMatchBuilds, Active
<1> QED
  BY <1>1, <1>2, <1>4, <1>5, <1>6, <1>7 DEF IInv

LEMMA StepHolds == IInv /\ [Next]_vars => IInv'
<1> SUFFICES ASSUME IInv, [Next]_vars PROVE IInv'
  OBVIOUS
<1> USE DEF IInv
<1>1. QueueOK' /\ NoneGains
  BY QueueStep
<1>2. TypesOK'
  BY TypesStep
<1>3. PhaseCoversSending' /\ HolderKnowsJournal'
  BY JournalStep
<1>4. \A b \in Builds : Fate(b) /\ RowFate(b)
  BY FateStep, RowFateStep
<1>5. EndsAgree' /\ TextAnswersManifest'
  BY <1>4, EndsStep
<1>6. CompletedHasEnded' /\ JobsMatchBuilds'
  BY <1>1, <1>4, CompletedStep, JobsStep
<1> QED
  BY <1>1, <1>2, <1>3, <1>5, <1>6

\* The strengthening holds in every state.
THEOREM Invariant == Spec => []IInv
<1> QED
  BY InitHolds, StepHolds, PTL DEF Spec

\* Whatever requests, lapsed leases and crashes race for (cancel_build, the
\* three terminal writers of run_build, on_user_deleted): at most one terminal
\* child, and the last event says which.
THEOREM BuildEndsOnce == Spec => []OneEnd
<1>1. IInv => OneEnd
  <2> SUFFICES ASSUME EndsAgree, NEW b \in Builds
               PROVE  /\ Cardinality(build[b].children) <= 1
                      /\ "revision" \in build[b].children     <=> build[b].last = "Succeeded"
                      /\ "failure" \in build[b].children      <=> build[b].last = "Failed"
                      /\ "cancellation" \in build[b].children <=> build[b].last = "Cancelled"
    BY DEF OneEnd, IInv
  <2>1. build[b].children = {} \/ \E child \in Children : build[b].children = {child}
    BY DEF EndsAgree, Children
  <2>2. Cardinality(build[b].children) <= 1
    BY <2>1, FS_EmptySet, FS_Singleton
  <2> QED
    BY <2>2 DEF EndsAgree
<1> QED
  BY <1>1, Invariant, PTL

\* A step of a build is sent to the provider at most once, however often its
\* job is lost, retried, repaired or reconciled (_run_synthesis_step,
\* _run_document_repair_step: Uncertain is committed before the call).
THEOREM StepBilledOnce == Spec => []BilledOnce
<1>1. IInv => BilledOnce
  BY DEF IInv, PhaseCoversSending, BilledOnce
<1> QED
  BY <1>1, Invariant, PTL

\* A revision's text is the answer to the inputs its manifest lists, even when
\* another execution sent the request (_success_terminal).
THEOREM RevisionIsOfItsManifest == Spec => []TextAnswersManifest
<1>1. IInv => TextAnswersManifest
  BY DEF IInv
<1> QED
  BY <1>1, Invariant, PTL

\* No return of run_build leaves an active build without a job, and a purged
\* build has none.
THEOREM ActiveBuildHasJob == Spec => []JobsMatchBuilds
<1>1. IInv => JobsMatchBuilds
  BY DEF IInv
<1> QED
  BY <1>1, Invariant, PTL

-----------------------------------------------------------------------------
(* The engine implements HeadContract *)

ContractStep == [Contract!Next]_(Contract!contractVars)

\* Rows are not forgotten, and only Generate makes one of nothing.
LEMMA RowsStay ==
  ASSUME QueueOK, NEW b \in Builds, RowFate(b), ~Generate(b)
  PROVE  row'[b].status = "absent" <=> row[b].status = "absent"
BY DEF RowFate, Holds, Queue!Owns

LEMMA SameFortune ==
  ASSUME NEW b \in Builds, row'[b].status = "absent" <=> row[b].status = "absent",
         build'[b].known = build[b].known, build'[b].children = build[b].children,
         build'[b].last = build[b].last \/ build[b].children = {}
  PROVE  Fortune(b)' = Fortune(b)
BY DEF Fortune, Active, Ended

LEMMA FortuneValues ==
  ASSUME EndsAgree, CompletedHasEnded, NEW b \in Builds
  PROVE  /\ Active(b) <=> Fortune(b) = "active"
         /\ "revision" \in build[b].children => Fortune(b) = "Succeeded"
         /\ row[b].status = "absent" <=> Fortune(b) = "none"
<1>1. CASE Ended(b)
  <2>1. build[b].known /\ ~Active(b) /\ row[b].status # "absent"
    BY <1>1 DEF EndsAgree, CompletedHasEnded, Active, Ended
  <2>2. /\ Fortune(b) = build[b].last /\ build[b].last \in {"Succeeded", "Failed", "Cancelled"}
        /\ "revision" \in build[b].children => build[b].last = "Succeeded"
    BY <1>1, <2>1 DEF EndsAgree, Fortune, Ends, Ended
  <2> QED
    BY <2>1, <2>2
<1>2. CASE ~Ended(b)
  BY <1>2 DEF CompletedHasEnded, Fortune, Active, Ended
<1> QED
  BY <1>1, <1>2

\* The fortune of one build changes.
LEMMA OneFortune ==
  ASSUME NEW b \in Builds, NEW to, Fortune(b)' = to,
         \A c \in Builds \ {b} : Fortune(c)' = Fortune(c)
  PROVE  Fortunes' = [Fortunes EXCEPT ![b] = to]
BY DEF Fortunes

LEMMA NoFortune ==
  ASSUME \A b \in Builds : Fortune(b)' = Fortune(b), head'.current = head.current
  PROVE  ContractStep
BY DEF Fortunes, ContractStep, Contract!contractVars

\* The first event of a new build is the contract's Begin.
LEMMA GenerateBegins ==
  ASSUME IInv, NEW b \in Builds, Generate(b)
  PROVE  Contract!Begin(b)
<1>1. Fortune(b) = "none" /\ \A c \in Builds : Fortune(c) # "active"
  BY FortuneValues DEF IInv, Generate, Queue!Enqueue
<1>2. /\ build'[b].known /\ build'[b].children = {}
      /\ \A c \in Builds \ {b} : build'[c] = build[c]
  <2> DEFINE new == [Unknown EXCEPT !.known = TRUE, !.last = "Started"]
  <2>1. new.known /\ new.children = {} /\ build' = [build EXCEPT ![b] = new]
    BY DEF Generate, Unknown
  <2> HIDE DEF new
  <2> QED
    BY <2>1 DEF IInv, TypesOK
<1>3. Fortune(b)' = "active"
  BY <1>2 DEF Fortune, Active, Ended
<1>4. \A c \in Builds \ {b} : Fortune(c)' = Fortune(c)
  BY <1>2, EnqueuedRow, SameFortune DEF IInv
<1>5. head'.current = head.current
  BY DEF Generate, IInv, TypesOK
<1> QED
  BY <1>1, <1>3, <1>4, <1>5, OneFortune DEF Contract!Begin, Contract!Becomes, Fortunes

\* A terminal child is the end of an active build, and of no other.
LEMMA WritesEnds ==
  ASSUME IInv, NEW b \in Builds, NEW child, NEW event, Writes(b, child, event),
         <<event, {child}>> \in Ends,
         \A c \in Builds : row'[c].status = "absent" <=> row[c].status = "absent"
  PROVE  Contract!Becomes(b, "active", event)
<1>1. Fortune(b) = "active"
  BY FortuneValues DEF Writes, IInv
<1>2. Fortune(b)' = event
  <2>1. /\ Ended(b)' /\ ~Active(b)'
        /\ build'[b].children = {child} /\ build'[b].last = event
    BY DEF Writes, Active, Ended
  <2> QED
    BY <2>1 DEF Fortune
<1>3. \A c \in Builds \ {b} : Fortune(c)' = Fortune(c)
  BY SameFortune DEF Writes
<1> QED
  BY <1>1, <1>2, <1>3, OneFortune DEF Contract!Becomes, Fortunes

\* With the head, every build goes that there was.
LEMMA PurgePurges ==
  ASSUME IInv, Purge
  PROVE  Contract!Purge
<1>1. ASSUME NEW b \in Builds
      PROVE  Fortune(b)' = IF Fortune(b) = "none" THEN "none" ELSE "gone"
  <2>1. ~build'[b].known /\ build'[b].children = {}
    BY DEF Purge, Unknown
  <2>2. row'[b].status = "absent" <=> row[b].status = "absent"
    <3>1. Queue!Fresh("deleted", 0).status = "deleted"
      BY DEF Queue!Fresh, Queue!Unclaimed
    <3> QED
      BY <3>1 DEF Purge, Gone
  <2>3. row[b].status = "absent" <=> Fortune(b) = "none"
    BY FortuneValues DEF IInv
  <2> QED
    BY <2>1, <2>2, <2>3 DEF Fortune, Active, Ended
<1>2. head'.current = NoBuild
  BY DEF Purge
<1> QED
  BY <1>1, <1>2 DEF Contract!Purge, Fortunes

\* A build goes on as it was, but for news of one that has not ended.
Goes(b) ==
  /\ build'[b].known = build[b].known /\ build'[b].children = build[b].children
  /\ build'[b].last = build[b].last \/ build[b].children = {}

\* The steps that touch neither head nor builds, but for news of one that goes on.
LEMMA OtherSteps ==
  ASSUME QueueOK, TypesOK, [Next]_vars, ~Purge,
         \A b \in Builds : ~Generate(b) /\ ~Cancel(b) /\ ~RequesterLeaves(b) /\ ~MakeCurrent(b),
         \A w \in Workers : ~Publish(w) /\ ~Fail(w)
  PROVE  /\ UNCHANGED head
         /\ \A b \in Builds : Goes(b)
<1>0. ASSUME UNCHANGED build PROVE \A b \in Builds : Goes(b)
  BY <1>0 DEF Goes
<1>1. ASSUME NEW w \in Workers, Announce(w) PROVE \A b \in Builds : Goes(b)
  <2> DEFINE c == worker[w].job
  <2>1. CASE CanWrite(w) /\ build' = [build EXCEPT ![c].last = "Progress"]
    <3>1. build[c].children = {} /\ c \in Builds
      BY <1>1, <2>1, StepTypes DEF Announce, At, CanWrite, Active, Ended
    <3>2. \A b \in Builds : build'[b].known = build[b].known
                            /\ build'[b].children = build[b].children
      BY <2>1 DEF TypesOK, Build
    <3>3. \A b \in Builds \ {c} : build'[b].last = build[b].last
      BY <2>1 DEF TypesOK
    <3> HIDE DEF c
    <3> QED
      BY <3>1, <3>2, <3>3 DEF Goes
  <2> QED
    BY <1>0, <1>1, <2>1 DEF Announce
<1>2. CASE Request
  BY <1>0, <1>2 DEF Request, Reconcile, Requeue, Change
<1>3. ASSUME NEW w \in Workers, WorkerStep(w), ~Announce(w)
      PROVE  UNCHANGED <<head, build>>
  BY <1>3 DEF WorkerStep, Take, Enter, RunBuild, Settle, Crash, Open, Collect, Decide,
              Dispatch, Call, Receive, NoAnswer, Compile, OnlyQueue, OnlyMemory
<1>4. \A w \in Workers : Announce(w) => UNCHANGED head
  BY DEF Announce
<1> QED
  BY <1>0, <1>1, <1>2, <1>3, <1>4 DEF Next, Tick, vars

\* Every step of a user, an operator, a worker or time is one of the contract's,
\* or none.
LEMMA HeadStep ==
  ASSUME IInv, [Next]_vars
  PROVE  ContractStep
<1>0. QueueOK /\ TypesOK /\ HolderKnowsJournal /\ \A b \in Builds : RowFate(b)
  BY RowFateStep DEF IInv
<1>1. ASSUME NEW b \in Builds, Generate(b) PROVE ContractStep
  BY <1>1, GenerateBegins DEF ContractStep, Contract!Next
<1>2. CASE Purge
  BY <1>2, PurgePurges DEF ContractStep, Contract!Next
<1>3. CASE \A b \in Builds : ~Generate(b)
  <2>1. \A b \in Builds : row'[b].status = "absent" <=> row[b].status = "absent"
    BY <1>0, <1>3, RowsStay
  <2>2. ASSUME NEW b \in Builds, UNCHANGED head,
               Writes(b, "failure", "Failed") \/ Writes(b, "cancellation", "Cancelled")
        PROVE  ContractStep
    <3>1. Contract!Becomes(b, "active", "Failed") \/ Contract!Becomes(b, "active", "Cancelled")
      BY <2>1, <2>2, WritesEnds DEF Ends
    <3> QED
      BY <2>2, <3>1 DEF ContractStep, Contract!Next, Contract!GiveUp
  <2>3. ASSUME NEW b \in Builds, Cancel(b) \/ RequesterLeaves(b) PROVE ContractStep
    BY <1>0, <2>2, <2>3, EndIsFate DEF Cancel, RequesterLeaves
  <2>4. ASSUME NEW b \in Builds, MakeCurrent(b) PROVE ContractStep
    <3>1. Fortune(b) = "Succeeded" /\ head'.current = b
      BY <1>0, <2>4, FortuneValues DEF MakeCurrent, IInv, TypesOK
    <3>2. Fortunes' = Fortunes
      BY <2>1, <2>4, SameFortune DEF MakeCurrent, Fortunes
    <3> QED
      BY <3>1, <3>2 DEF ContractStep, Contract!Next, Contract!Show, Fortunes
  <2>5. ASSUME UNCHANGED <<head, build>> PROVE ContractStep
    BY <2>1, <2>5, SameFortune, NoFortune
  <2>6. ASSUME NEW w \in Workers, Publish(w) PROVE ContractStep
    <3> DEFINE b == worker[w].job
    <3>1. b \in Builds
      BY <1>0, <2>6, StepTypes DEF Publish, At
    <3>2. CASE Writes(b, "revision", "Succeeded") /\ head' = [head EXCEPT !.current = b]
      <4>1. head'.current = b
        BY <1>0, <3>2 DEF TypesOK
      <4>2. Contract!Becomes(b, "active", "Succeeded")
        BY <2>1, <3>1, <3>2, WritesEnds DEF Ends
      <4> QED
        BY <3>1, <4>1, <4>2 DEF ContractStep, Contract!Next, Contract!Succeed
    <3> QED
      BY <1>0, <2>2, <2>5, <2>6, <3>1, <3>2, PublishFate
  <2>7. ASSUME NEW w \in Workers, Fail(w) PROVE ContractStep
    <3>1. worker[w].job \in Builds
      BY <1>0, <2>7, StepTypes DEF Fail, At
    <3> QED
      BY <1>0, <2>2, <2>5, <2>7, <3>1, EndIsFate DEF Fail, CanWrite
  <2>8. ASSUME ~Purge,
               \A b \in Builds : ~Cancel(b) /\ ~RequesterLeaves(b) /\ ~MakeCurrent(b),
               \A w \in Workers : ~Publish(w) /\ ~Fail(w)
        PROVE  ContractStep
    BY <1>0, <1>3, <2>1, <2>8, OtherSteps, SameFortune, NoFortune DEF Goes
  <2> QED
    BY <1>2, <2>3, <2>4, <2>6, <2>7, <2>8
<1> QED
  BY <1>1, <1>2, <1>3

\* The engine implements the head of HeadContract: one build at a time, an end
\* that stands, and a current revision of a build that succeeded
\* (_ensure_build_locked, the terminal writers, make_current, _delete_heads).
THEOREM DossierKeepsContract == Spec => KeepsContract
<1>1. Init => Contract!Init
  <2>1. Queue!Fresh("absent", 0).status = "absent"
    BY DEF Queue!Fresh, Queue!Unclaimed
  <2>2. ASSUME Init, NEW b \in Builds PROVE Fortune(b) = "none"
    BY <2>1, <2>2 DEF Init, Queue!Init, Unknown, Fortune, Active, Ended
  <2> QED
    BY <2>2 DEF Contract!Init, Fortunes, Init
<1>2. IInv /\ [Next]_vars => [Contract!Next]_(Contract!contractVars)
  BY HeadStep DEF ContractStep
<1> QED
  BY <1>1, <1>2, Invariant, PTL DEF Spec, KeepsContract, Contract!Spec

\* What the contract says of a head at any time: one build is active, and the
\* current one has succeeded.
ContractSound ==
  /\ \A b, c \in Builds : Fortunes[b] = "active" /\ Fortunes[c] = "active" => b = c
  /\ head.current # NoBuild => head.current \in Builds /\ Fortunes[head.current] = "Succeeded"

\* A step of the contract, whoever takes it.
LEMMA ContractSoundStep ==
  ASSUME ContractSound, ContractStep
  PROVE  ContractSound'
<1> DEFINE s == Fortunes
           n == Fortunes'
<1>1. ASSUME NEW b \in Builds, NEW from, NEW to, Contract!Becomes(b, from, to)
      PROVE  s[b] = from /\ n[b] = to /\ \A c \in Builds \ {b} : n[c] = s[c]
  BY <1>1 DEF Contract!Becomes, Fortunes
<1>2. ASSUME NEW b \in Builds, Contract!Begin(b) PROVE ContractSound'
  <2>1. \A c \in Builds : s[c] # "active"
    BY <1>2 DEF Contract!Begin
  <2>2. s[b] = "none" /\ n[b] = "active" /\ \A c \in Builds \ {b} : n[c] = s[c]
    BY <1>1, <1>2 DEF Contract!Begin
  <2> HIDE DEF s, n
  <2>3. /\ \A c, d \in Builds : n[c] = "active" /\ n[d] = "active" => c = d
        /\ \A c \in Builds : s[c] = "Succeeded" => n[c] = "Succeeded"
    BY <2>1, <2>2
  <2> QED
    BY <1>2, <2>3 DEF Contract!Begin, ContractSound, s, n
<1>3. ASSUME NEW b \in Builds, NEW to \in {"Succeeded", "Failed", "Cancelled"},
             Contract!Becomes(b, "active", to),
             \/ head'.current = head.current
             \/ to = "Succeeded" /\ head'.current = b
      PROVE  ContractSound'
  <2>1. s[b] = "active" /\ n[b] = to /\ \A c \in Builds \ {b} : n[c] = s[c]
    BY <1>1, <1>3
  <2> HIDE DEF s, n
  <2>2. /\ \A c \in Builds : n[c] = "active" => s[c] = "active"
        /\ \A c \in Builds : s[c] = "Succeeded" => n[c] = "Succeeded"
    BY <2>1
  <2> QED
    BY <1>3, <2>1, <2>2 DEF ContractSound, s, n
<1>4. ASSUME NEW b \in Builds, Contract!Show(b) PROVE ContractSound'
  BY <1>4 DEF Contract!Show, ContractSound
<1>5. CASE Contract!Purge
  BY <1>5 DEF Contract!Purge, ContractSound
<1>6. CASE UNCHANGED Contract!contractVars
  BY <1>6 DEF Contract!contractVars, ContractSound
<1>7. ASSUME NEW b \in Builds, Contract!Succeed(b) \/ Contract!GiveUp(b) PROVE ContractSound'
  <2>1. CASE Contract!Succeed(b)
    <3>1. Contract!Becomes(b, "active", "Succeeded") /\ head'.current = b
      BY <2>1 DEF Contract!Succeed
    <3> QED
      BY <1>3, <3>1
  <2>2. CASE Contract!GiveUp(b)
    <3>1. head'.current = head.current
      BY <2>2 DEF Contract!GiveUp
    <3>2. CASE Contract!Becomes(b, "active", "Failed")
      BY <1>3, <3>1, <3>2
    <3>3. CASE Contract!Becomes(b, "active", "Cancelled")
      BY <1>3, <3>1, <3>3
    <3> QED
      BY <2>2, <3>2, <3>3 DEF Contract!GiveUp
  <2> QED
    BY <1>7, <2>1, <2>2
<1>8. CASE Contract!Next
  BY <1>2, <1>4, <1>5, <1>7, <1>8 DEF Contract!Next
<1> QED
  BY <1>6, <1>8 DEF ContractStep

\* One build of a head is active at a time, and the revision that readers are
\* shown is there (artifacts.current_revision_id): nobody begins a build beside
\* another one, and no end, purge or repoint leaves the pointer behind.
HeadSound ==
  /\ \A b, c \in Builds : Active(b) /\ Active(c) => b = c
  /\ head.current # NoBuild =>
       head.current \in Builds /\ build[head.current].children = {"revision"}

\* What HeadContract promises of the heads holds of the engine that implements it
\* (create_build and make_current under the head's lock).
THEOREM DossierHeadSound == Spec => []HeadSound
<1>1. Contract!Init => ContractSound
  BY DEF Contract!Init, ContractSound
<1>2. ContractSound /\ [Contract!Next]_(Contract!contractVars) => ContractSound'
  BY ContractSoundStep DEF ContractStep
<1>3. IInv /\ ContractSound => HeadSound
  <2>1. ASSUME IInv, NEW b \in Builds, Fortune(b) = "Succeeded"
        PROVE  build[b].children = {"revision"}
    <3>1. Ended(b)
      BY <2>1 DEF Fortune
    <3> QED
      BY <2>1, <3>1, FortuneValues DEF IInv, EndsAgree, Fortune, Ended, Ends
  <2> QED
    BY <2>1, FortuneValues DEF IInv, ContractSound, HeadSound, Fortunes
<1> QED
  BY <1>1, <1>2, <1>3, DossierKeepsContract, Invariant, PTL DEF KeepsContract, Contract!Spec

-----------------------------------------------------------------------------
(* Types *)

\* The faults and edits the model allows are never exceeded.
LEMMA UsedStep ==
  ASSUME used \in [changes: 0..MaxChanges, faults: 0..MaxFaults], [Next]_vars
  PROVE  used' \in [changes: 0..MaxChanges, faults: 0..MaxFaults]
<1>1. ASSUME \/ used' = used
             \/ Count("changes", MaxChanges)
             \/ Count("faults", MaxFaults)
      PROVE  used' \in [changes: 0..MaxChanges, faults: 0..MaxFaults]
  BY <1>1, DossierAssumption DEF Count
<1>2. CASE Request \/ Tick \/ UNCHANGED vars
  BY <1>1, <1>2 DEF Request, Generate, Cancel, MakeCurrent, RequesterLeaves, Reconcile, Requeue,
     Purge, Change, Tick, vars
<1>3. ASSUME NEW w \in Workers, WorkerStep(w)
      PROVE  used' = used \/ Count("faults", MaxFaults)
  BY <1>3 DEF WorkerStep, Take, OnlyQueue, Enter, OnlyMemory, RunBuild, Open, Collect, Decide,
     Announce, Dispatch, Call, Receive, NoAnswer, Compile, Publish, Fail, Settle, Crash
<1> QED
  BY <1>1, <1>2, <1>3 DEF Next

\* What executions have spent is counted up or reset, whatever the step.
LEMMA SpentStep ==
  ASSUME IInv, spent \in [Builds -> Nat], [Next]_vars
  PROVE  spent' \in [Builds -> Nat]
<1>1. ASSUME NEW j, \/ spent' = [spent EXCEPT ![j] = 0]
                   \/ spent' = [spent EXCEPT ![j] = @ + 1]
      PROVE  spent' \in [Builds -> Nat]
  BY <1>1
<1>2. CASE UNCHANGED spent
  BY <1>2
<1>3. ASSUME NEW j \in Builds, Queue!RequeueDead(j)
      PROVE  spent' \in [Builds -> Nat]
  BY <1>1, <1>3 DEF Queue!RequeueDead
<1>4. ASSUME NEW w \in Workers, NEW j \in Builds, Queue!Claim(w, j) \/ Queue!DeadLetterExpired(w, j)
      PROVE  spent' \in [Builds -> Nat]
  <2>1. \/ UNCHANGED spent
        \/ spent' = [spent EXCEPT ![j] = @ + 1]
    BY <1>4 DEF Queue!Claim, Queue!DeadLetterExpired
  <2> QED
    BY <1>1, <1>2, <2>1
<1>5. ASSUME NEW w \in Workers, Queue!Fail(w)
      PROVE  spent' \in [Builds -> Nat]
  <2>1. \/ UNCHANGED spent
        \/ spent' = [spent EXCEPT ![worker[w].job] = @ + 1]
    BY <1>5 DEF Queue!Fail, Queue!FailRow
  <2> QED
    BY <1>1, <1>2, <2>1
<1>6. CASE Request \/ Tick \/ UNCHANGED vars
  BY <1>2, <1>3, <1>6 DEF Request, Generate, Cancel, MakeCurrent, RequesterLeaves, Reconcile,
     Requeue, Purge, Change, Queue!Enqueue, Tick, Queue!Tick, queue, vars
<1>7. ASSUME NEW w \in Workers, WorkerStep(w)
      PROVE  \/ UNCHANGED spent
             \/ \E j \in Builds : Queue!Claim(w, j) \/ Queue!DeadLetterExpired(w, j)
             \/ Queue!Fail(w)
  <2>1. CASE RunBuild(w)
    BY <2>1, RunBuildQueue DEF Out, queue, IInv
  <2>2. CASE ~RunBuild(w)
    BY <1>7, <2>2 DEF WorkerStep, Take, Enter, Queue!Start, Settle, Queue!Complete,
       Queue!Reschedule, Crash, Queue!Crash
  <2> QED
    BY <2>1, <2>2
<1> QED
  BY <1>2, <1>4, <1>5, <1>6, <1>7 DEF Next

\* Every variable keeps its type.
THEOREM TypeCorrect == Spec => []TypeOK
<1> DEFINE Rest == /\ spent \in [Builds -> Nat]
                   /\ used \in [changes: 0..MaxChanges, faults: 0..MaxFaults]
<1>1. Init => Rest
  BY DossierAssumption DEF Init, Queue!Init
<1>2. IInv /\ Rest /\ [Next]_vars => Rest'
  BY SpentStep, UsedStep
<1>3. IInv /\ Rest => TypeOK
  BY DEF IInv, QueueOK, TypesOK, TypeOK, Queue!TypeOK
<1> QED
  BY <1>1, <1>2, <1>3, Invariant, PTL DEF Spec

=============================================================================
