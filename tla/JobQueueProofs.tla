--------------------------- MODULE JobQueueProofs ---------------------------
(* The invariants of JobQueue, and that the queue implements its contract, for *)
(* any jobs, workers, lanes and policy.                                        *)
EXTENDS JobQueueContract, SequenceTheorems, TLAPS

-----------------------------------------------------------------------------
(* What makes the invariants inductive *)

\* What holds of a row r that has spent n executions: claimed_by is set exactly
\* while it runs, and the ledger and the error columns are as AttemptLedger and
\* DeadSaysWhy say.
GoodRow(r, n) ==
  /\ r.status = "absent" => n = 0
  /\ (r.status = "running") <=> (r.claimedBy \in Workers)
  /\ r.status \in Waiting => r.attempts = n /\ n < MaxAttempts
  /\ r.status = "running" => r.attempts = n + 1 /\ n < MaxAttempts
  /\ r.status = "dead" => r.attempts = MaxAttempts /\ n = MaxAttempts
  /\ r.status \in {"failed", "dead"} => r.errored
  /\ r.status \in {"running", "failed", "dead"} => r.attempts >= 1

RowsOK ==
  /\ row \in [Jobs -> Row]
  /\ spent \in [Jobs -> Nat]
  /\ \A j \in Jobs : GoodRow(row[j], spent[j])

\* A worker holds a job exactly while it is not idle.
WorkersOK ==
  /\ worker \in [Workers -> Worker]
  /\ claims \in [Jobs -> Nat]
  /\ \A w \in Workers : (worker[w].pc = "idle") <=> (worker[w].job = NoJob)

\* As OwnerHoldsLatestClaim, whatever became of the lease: a worker still at
\* the job that names it as the claimant holds that very claim.
ClaimantHoldsLatestClaim ==
  \A w \in Workers, j \in Jobs :
    worker[w].job = j /\ row[j].status = "running" /\ row[j].claimedBy = w
      => worker[w].token = claims[j]

IInv == RowsOK /\ WorkersOK /\ ClaimantHoldsLatestClaim

-----------------------------------------------------------------------------

\* _retry_delay_for_attempt yields one of the configured delays, or none.
LEMMA RetryDelayType == \A n \in Nat : RetryDelay(n) \in Nat
<1> SUFFICES ASSUME NEW n \in Nat PROVE RetryDelay(n) \in Nat
  OBVIOUS
<1>1. CASE RetryDelays = <<>>
  BY <1>1 DEF RetryDelay
<1>2. CASE RetryDelays # <<>>
  <2>1. Len(RetryDelays) \in Nat \ {0}
    BY <1>2, PolicyAssumption, EmptySeq, LenProperties
  <2>2. \A k \in 1..Len(RetryDelays) : RetryDelays[k] \in Nat
    BY PolicyAssumption, ElementOfSeq
  <2> DEFINE i == IF n < 1 THEN 1 ELSE n
             k == IF i > Len(RetryDelays) THEN Len(RetryDelays) ELSE i
  <2>3. k \in 1..Len(RetryDelays)
    BY <2>1
  <2>4. RetryDelay(n) = RetryDelays[k]
    BY <1>2 DEF RetryDelay
  <2> QED
    BY <2>2, <2>3, <2>4
<1> QED
  BY <1>1, <1>2

\* What an unclaimed row is.
LEMMA UnclaimedFields ==
  ASSUME NEW st \in Status, NEW n \in Nat, NEW d \in Nat, NEW e \in BOOLEAN
  PROVE  /\ Unclaimed(st, n, d, e) \in Row
         /\ Unclaimed(st, n, d, e).status = st
         /\ Unclaimed(st, n, d, e).claimedBy = NoWorker
         /\ Unclaimed(st, n, d, e).attempts = n
         /\ Unclaimed(st, n, d, e).errored = e
BY DEF Unclaimed, Row

-----------------------------------------------------------------------------
(* One step, row by row *)

\* A step that writes one good row keeps all rows good.
LEMMA OneRow ==
  ASSUME RowsOK, NEW j \in Jobs, NEW r \in Row, NEW n \in Nat, GoodRow(r, n),
         row' = [row EXCEPT ![j] = r], spent' = [spent EXCEPT ![j] = n]
  PROVE  RowsOK'
BY DEF RowsOK

\* ... also when it leaves the ledger alone.
LEMMA OneRowSameSpent ==
  ASSUME RowsOK, NEW j \in Jobs, NEW r \in Row, GoodRow(r, spent[j]),
         row' = [row EXCEPT ![j] = r], UNCHANGED spent
  PROVE  RowsOK'
BY DEF RowsOK

\* Only the deadline columns of a row moved.
LEMMA OnlyTimesMoved ==
  ASSUME NEW r \in Row, NEW q \in Row, NEW n \in Nat, GoodRow(r, n),
         q.status = r.status, q.attempts = r.attempts,
         q.claimedBy = r.claimedBy, q.errored = r.errored
  PROVE  GoodRow(q, n)
BY DEF GoodRow

\* A move of available_at keeps a row good.
LEMMA WaitMoved ==
  ASSUME NEW r \in Row, NEW d \in Nat, NEW n \in Nat, GoodRow(r, n)
  PROVE  [r EXCEPT !.wait = d] \in Row /\ GoodRow([r EXCEPT !.wait = d], n)
<1>1. LET q == [r EXCEPT !.wait = d] IN
      /\ q \in Row /\ q.status = r.status /\ q.attempts = r.attempts
      /\ q.claimedBy = r.claimedBy /\ q.errored = r.errored
  BY DEF Row
<1> QED
  BY <1>1, OnlyTimesMoved

\* ... or of the lease.
LEMMA LeaseMoved ==
  ASSUME NEW r \in Row, NEW d \in Nat, NEW n \in Nat, GoodRow(r, n)
  PROVE  [r EXCEPT !.lease = d] \in Row /\ GoodRow([r EXCEPT !.lease = d], n)
<1>1. LET q == [r EXCEPT !.lease = d] IN
      /\ q \in Row /\ q.status = r.status /\ q.attempts = r.attempts
      /\ q.claimedBy = r.claimedBy /\ q.errored = r.errored
  BY DEF Row
<1> QED
  BY <1>1, OnlyTimesMoved

\* A step that unclaims one row and leaves its ledger alone, or makes it whole.
LEMMA UnclaimedRow ==
  ASSUME RowsOK, NEW j \in Jobs, NEW st \in Status \ {"running"},
         NEW n \in Nat, NEW d \in Nat, NEW e \in BOOLEAN, NEW m \in Nat,
         st = "absent" => m = 0,
         st \in Waiting => n = m /\ m < MaxAttempts,
         st = "dead" => n = MaxAttempts /\ m = MaxAttempts,
         st \in {"failed", "dead"} => e /\ n >= 1,
         row' = [row EXCEPT ![j] = Unclaimed(st, n, d, e)],
         spent' = [spent EXCEPT ![j] = m]
  PROVE  RowsOK'
<1> DEFINE r == Unclaimed(st, n, d, e)
<1>1. /\ r \in Row /\ r.status = st /\ r.claimedBy = NoWorker
      /\ r.attempts = n /\ r.errored = e
  BY UnclaimedFields
<1>2. row' = [row EXCEPT ![j] = r]
  OBVIOUS
<1> HIDE DEF r
<1>3. GoodRow(r, m)
  BY <1>1, WorkersAssumption DEF GoodRow, Waiting
<1> QED
  BY <1>1, <1>2, <1>3, OneRow

\* A caller's transaction keeps every row good.
LEMMA CallerRows ==
  ASSUME IInv, NEW j \in Jobs, Caller(j)
  PROVE  RowsOK'
<1>0. /\ RowsOK /\ row[j] \in Row /\ spent[j] \in Nat /\ GoodRow(row[j], spent[j])
      /\ row[j].attempts \in Nat /\ row[j].wait \in Nat /\ row[j].errored \in BOOLEAN
      /\ 0..MaxDelay \subseteq Nat /\ 0 \in Nat /\ FALSE \in BOOLEAN
      /\ spent = [spent EXCEPT ![j] = spent[j]]
      /\ {"pending", "succeeded", "deleted"} \subseteq Status \ {"running"}
      /\ 0 < MaxAttempts
  BY PolicyAssumption DEF IInv, RowsOK, Row, Status, Waiting, Terminal
<1>1. CASE Enqueue(j)
  <2>1. PICK d \in 0..MaxDelay : row' = [row EXCEPT ![j] = Unclaimed("pending", 0, d, FALSE)]
    BY <1>1 DEF Enqueue, Fresh
  <2>2. spent[j] = 0 /\ spent' = [spent EXCEPT ![j] = 0]
    BY <1>0, <1>1 DEF Enqueue, GoodRow
  <2> QED
    BY <1>0, <2>1, <2>2, UnclaimedRow DEF Waiting
<1>2. CASE Promote(j)
  <2>1. row' = [row EXCEPT ![j] = [row[j] EXCEPT !.wait = 0]]
    BY <1>2 DEF Promote
  <2> QED
    BY <1>0, <1>2, <2>1, WaitMoved, OneRowSameSpent DEF Promote
<1>3. CASE UpdateUnclaimed(j)
  <2>1. PICK d \in 0..MaxDelay : row' = [row EXCEPT ![j] = [row[j] EXCEPT !.wait = d]]
    BY <1>3 DEF UpdateUnclaimed
  <2>2. d \in Nat
    BY <1>0
  <2> QED
    BY <1>0, <1>3, <2>1, <2>2, WaitMoved, OneRowSameSpent DEF UpdateUnclaimed
<1>4. CASE ResetForNewIntent(j)
  BY <1>0, <1>4, UnclaimedRow DEF ResetForNewIntent, Fresh, Waiting
<1>5. CASE Supersede(j)
  <2>1. /\ row' = [row EXCEPT ![j] =
             Unclaimed("succeeded", row[j].attempts, row[j].wait, row[j].errored)]
        /\ spent' = [spent EXCEPT ![j] = spent[j]]
    BY <1>0, <1>5 DEF Supersede, Released
  <2> QED
    BY <1>0, <2>1, UnclaimedRow DEF Waiting
<1>6. CASE Revoke(j) \/ Prune(j)
  <2>1. /\ row' = [row EXCEPT ![j] = Unclaimed("deleted", 0, 0, FALSE)]
        /\ spent' = [spent EXCEPT ![j] = spent[j]]
    BY <1>0, <1>6 DEF Revoke, Prune, Fresh
  <2> QED
    BY <1>0, <2>1, UnclaimedRow DEF Waiting
<1>7. CASE RequeueDead(j)
  BY <1>0, <1>7, UnclaimedRow DEF RequeueDead, Waiting
<1> QED
  BY <1>1, <1>2, <1>3, <1>4, <1>5, <1>6, <1>7 DEF Caller

\* A worker with a job holds a real one, in a good row.
LEMMA BusyWorker ==
  ASSUME IInv, NEW w \in Workers, worker[w].pc # "idle"
  PROVE  LET j == worker[w].job IN
         /\ j \in Jobs /\ row[j] \in Row /\ spent[j] \in Nat
         /\ GoodRow(row[j], spent[j])
         /\ row[j].attempts \in Nat /\ row[j].wait \in Nat /\ row[j].errored \in BOOLEAN
BY DEF IInv, RowsOK, WorkersOK, Worker, Row

\* fail_job keeps every row good: what fails is running, so its ledger has
\* room for one more execution, and it dies with the last one.
LEMMA FailRowRows ==
  ASSUME IInv, NEW w \in Workers, worker[w].pc # "idle", NEW delay \in Nat,
         FailRow(w, delay)
  PROVE  RowsOK'
<1> DEFINE j == worker[w].job
           dead == row[j].attempts >= MaxAttempts
           st == IF dead THEN "dead" ELSE "failed"
           d == IF dead THEN 0 ELSE delay
<1>0. /\ RowsOK /\ j \in Jobs /\ row[j] \in Row /\ spent[j] \in Nat
      /\ row[j].attempts \in Nat /\ GoodRow(row[j], spent[j])
  BY BusyWorker DEF IInv
<1>1. CASE Owns(w, j)
  <2>1. /\ row' = [row EXCEPT ![j] = Unclaimed(st, row[j].attempts, d, TRUE)]
        /\ spent' = [spent EXCEPT ![j] = spent[j] + 1]
    BY <1>0, <1>1 DEF FailRow, RowsOK
  <2>2. st \in Status \ {"running"} /\ d \in Nat /\ spent[j] + 1 \in Nat
    BY <1>0 DEF Status, Waiting, Terminal
  <2>3. row[j].attempts = spent[j] + 1 /\ spent[j] < MaxAttempts
    BY <1>0, <1>1 DEF Owns, GoodRow
  <2>4. /\ st # "absent"
        /\ st \in Waiting => row[j].attempts < MaxAttempts
        /\ st = "dead" => row[j].attempts = MaxAttempts
        /\ row[j].attempts >= 1
    BY <1>0, <2>3, PolicyAssumption DEF Waiting
  <2> HIDE DEF st, d, j
  <2> QED
    BY <1>0, <2>1, <2>2, <2>3, <2>4, UnclaimedRow
<1>2. CASE ~Owns(w, j)
  BY <1>0, <1>2 DEF FailRow, RowsOK
<1> QED
  BY <1>1, <1>2

\* complete_job keeps every row good.
LEMMA CompleteRowRows ==
  ASSUME IInv, NEW w \in Workers, worker[w].pc # "idle",
         CompleteRow(w), UNCHANGED spent
  PROVE  RowsOK'
<1>a. PICK j \in Jobs : j = worker[w].job
  BY BusyWorker
<1>0. /\ RowsOK /\ spent[j] \in Nat /\ row[j].attempts \in Nat
      /\ row[j].wait \in Nat /\ row[j].errored \in BOOLEAN
      /\ "succeeded" \in Status \ {"running"}
  BY <1>a, BusyWorker DEF IInv, Status, Terminal
<1>1. CASE Owns(w, j)
  <2>1. /\ row' = [row EXCEPT ![j] =
             Unclaimed("succeeded", row[j].attempts, row[j].wait, row[j].errored)]
        /\ spent' = [spent EXCEPT ![j] = spent[j]]
    BY <1>a, <1>0, <1>1 DEF CompleteRow, Released, RowsOK
  <2>2. /\ "succeeded" \in Status \ {"running"}
        /\ "succeeded" # "absent" /\ "succeeded" \notin Waiting /\ "succeeded" # "dead"
        /\ "succeeded" \notin {"failed", "dead"}
    BY <1>0 DEF Waiting
  <2> DEFINE st == "succeeded"
             n == row[j].attempts
             d == row[j].wait
             e == row[j].errored
  <2>3. /\ row' = [row EXCEPT ![j] = Unclaimed(st, n, d, e)]
        /\ spent' = [spent EXCEPT ![j] = spent[j]]
        /\ st \in Status \ {"running"} /\ n \in Nat /\ d \in Nat /\ e \in BOOLEAN
        /\ st # "absent" /\ st \notin Waiting /\ st # "dead" /\ st \notin {"failed", "dead"}
    BY <1>0, <2>1, <2>2
  <2> HIDE DEF st, n, d, e
  <2> QED
    BY <1>0, <2>3, UnclaimedRow
<1>2. CASE ~Owns(w, j)
  BY <1>a, <1>0, <1>2 DEF CompleteRow, RowsOK
<1> QED
  BY <1>1, <1>2

\* reschedule_running_job keeps every row good: the refund undoes the claim.
LEMMA RescheduleRowRows ==
  ASSUME IInv, NEW w \in Workers, worker[w].pc # "idle",
         RescheduleRow(w), UNCHANGED spent
  PROVE  RowsOK'
<1>a. PICK j \in Jobs : j = worker[w].job
  BY BusyWorker
<1> DEFINE n == Refunded(row[j].attempts)
<1>0. /\ RowsOK /\ spent[j] \in Nat /\ row[j].errored \in BOOLEAN
      /\ GoodRow(row[j], spent[j]) /\ "pending" \in Status \ {"running"}
  BY <1>a, BusyWorker DEF IInv, Status, Waiting
<1>1. CASE ClaimIsCurrent(w)
  <2>1. PICK d \in 0..MaxDelay :
          row' = [row EXCEPT ![j] = Unclaimed("pending", n, d, row[j].errored)]
    BY <1>a, <1>1 DEF RescheduleRow
  <2>2. row[j].attempts = spent[j] + 1 /\ spent[j] < MaxAttempts
    BY <1>a, <1>0, <1>1 DEF ClaimIsCurrent, Owns, GoodRow
  <2>3. n = spent[j]
    BY <1>0, <2>2 DEF Refunded
  <2>4. spent' = [spent EXCEPT ![j] = spent[j]]
    BY <1>0 DEF RowsOK
  <2>5. d \in Nat
    BY PolicyAssumption
  <2> DEFINE st == "pending"
             e == row[j].errored
  <2>6. st \in Status \ {"running"} /\ st # "absent" /\ st \notin {"failed", "dead"}
    BY <1>0
  <2>7. row' = [row EXCEPT ![j] = Unclaimed(st, n, d, e)] /\ e \in BOOLEAN
    BY <1>0, <2>1
  <2> HIDE DEF n, st, e
  <2> QED
    BY <1>0, <2>2, <2>3, <2>4, <2>5, <2>6, <2>7, UnclaimedRow
<1>2. CASE ~ClaimIsCurrent(w)
  BY <1>a, <1>0, <1>2 DEF RescheduleRow, RowsOK
<1> QED
  BY <1>1, <1>2

\* A claim keeps every row good: a waiting row has budget left by the ledger,
\* a lapsed one by the claim's own guard.
LEMMA ClaimRows ==
  ASSUME IInv, NEW w \in Workers, NEW j \in Jobs, Claim(w, j)
  PROVE  RowsOK'
<1> DEFINE n == IF row[j].status = "running" THEN spent[j] + 1 ELSE spent[j]
           r == Claimed(w, j)
<1>0. /\ RowsOK /\ row[j] \in Row /\ row[j].attempts \in Nat /\ spent[j] \in Nat
      /\ GoodRow(row[j], spent[j])
  BY DEF IInv, RowsOK, Row
<1>1. /\ r \in Row /\ r.status = "running" /\ r.claimedBy = w
      /\ r.attempts = row[j].attempts + 1
  <2>1. r = [row[j] EXCEPT !.status = "running", !.attempts = row[j].attempts + 1,
                           !.lease = LeaseTicks, !.claimedBy = w]
    BY DEF Claimed
  <2>2. row[j].attempts + 1 \in Nat /\ "running" \in Status
    BY <1>0 DEF Status
  <2> QED
    BY <1>0, <2>1, <2>2, PolicyAssumption DEF Row
<1>2. row' = [row EXCEPT ![j] = r] /\ spent' = [spent EXCEPT ![j] = n]
  BY <1>0 DEF Claim, RowsOK
<1>3. n \in Nat /\ n < MaxAttempts /\ row[j].attempts = n
  BY <1>0, PolicyAssumption DEF Claim, Claimable, GoodRow
<1> HIDE DEF r, n
<1>4. GoodRow(r, n)
  BY <1>1, <1>3 DEF GoodRow, Waiting
<1> QED
  BY <1>0, <1>1, <1>2, <1>3, <1>4, OneRow

\* dead_letter_expired_job keeps every row good.
LEMMA DeadLetterRows ==
  ASSUME IInv, NEW w \in Workers, NEW j \in Jobs, DeadLetterExpired(w, j)
  PROVE  RowsOK'
<1>0. /\ RowsOK /\ row[j] \in Row /\ row[j].attempts \in Nat /\ spent[j] \in Nat
      /\ row[j].wait \in Nat /\ GoodRow(row[j], spent[j])
      /\ "dead" \in Status \ {"running"} /\ TRUE \in BOOLEAN
  BY DEF IInv, RowsOK, Row, Status, Terminal
<1>1. /\ row' = [row EXCEPT ![j] = Unclaimed("dead", row[j].attempts, row[j].wait, TRUE)]
      /\ spent' = [spent EXCEPT ![j] = spent[j] + 1]
  BY <1>0 DEF DeadLetterExpired, Expired, RowsOK
<1>2. row[j].attempts = MaxAttempts /\ spent[j] + 1 = MaxAttempts /\ spent[j] + 1 \in Nat
  BY <1>0, PolicyAssumption DEF DeadLetterExpired, GoodRow
<1>3. row[j].attempts >= 1
  BY <1>2, PolicyAssumption
<1> QED
  BY <1>0, <1>1, <1>2, <1>3, UnclaimedRow DEF Waiting

\* A renewed lease keeps every row good.
LEMMA RenewedRows ==
  ASSUME IInv, NEW j \in Jobs, row' = [row EXCEPT ![j].lease = LeaseTicks],
         UNCHANGED spent
  PROVE  RowsOK'
<1>0. /\ RowsOK /\ row[j] \in Row /\ spent[j] \in Nat /\ GoodRow(row[j], spent[j])
      /\ LeaseTicks \in Nat
  BY PolicyAssumption DEF IInv, RowsOK
<1>1. row' = [row EXCEPT ![j] = [row[j] EXCEPT !.lease = LeaseTicks]]
  OBVIOUS
<1> QED
  BY <1>0, <1>1, LeaseMoved, OneRowSameSpent

\* Time keeps every row good.
LEMMA TickRows ==
  ASSUME IInv, Tick
  PROVE  RowsOK'
<1>1. RowsOK /\ UNCHANGED spent
  BY DEF IInv, Tick
<1>2. ASSUME NEW j \in Jobs PROVE row'[j] \in Row /\ GoodRow(row'[j], spent[j])
  <2>1. /\ row[j] \in Row /\ spent[j] \in Nat /\ GoodRow(row[j], spent[j])
        /\ Elapse(row[j].lease) \in Nat /\ Elapse(row[j].wait) \in Nat
    BY <1>1 DEF RowsOK, Row, Elapse
  <2> DEFINE l == Elapse(row[j].lease)
             d == Elapse(row[j].wait)
             q == [row[j] EXCEPT !.lease = l]
  <2>2. row'[j] = [q EXCEPT !.wait = d]
    BY DEF Tick
  <2>3. l \in Nat /\ d \in Nat
    BY <2>1
  <2> HIDE DEF l, d
  <2>4. q \in Row /\ GoodRow(q, spent[j])
    BY <2>1, <2>3, LeaseMoved
  <2> HIDE DEF q
  <2>5. spent[j] \in Nat
    BY <2>1
  <2> QED
    BY <2>2, <2>3, <2>4, <2>5, WaitMoved
<1>3. row' \in [Jobs -> Row]
  <2>1. row' = [j \in Jobs |-> row'[j]]
    BY DEF Tick
  <2> QED
    BY <1>2, <2>1
<1> QED
  BY <1>1, <1>2, <1>3 DEF RowsOK

\* Every step keeps every row good.
LEMMA RowsStep ==
  ASSUME IInv, [Next]_vars
  PROVE  RowsOK'
<1>1. CASE UNCHANGED vars
  BY <1>1 DEF IInv, RowsOK, vars
<1>2. CASE \E j \in Jobs : Caller(j)
  BY <1>2, CallerRows
<1>3. CASE Tick
  BY <1>3, TickRows
<1>4. ASSUME NEW w \in Workers, WorkerStep(w) PROVE RowsOK'
  <2>1. CASE \E j \in Jobs : DeadLetterExpired(w, j) \/ Claim(w, j)
    BY <2>1, DeadLetterRows, ClaimRows
  <2>2. CASE Start(w) \/ Heartbeat(w)
    <3>1. worker[w].job \in Jobs
      BY <2>2, BusyWorker DEF Start, Heartbeat
    <3> QED
      BY <2>2, <3>1, RenewedRows DEF Start, Heartbeat, IInv, RowsOK
  <2>3. CASE HandlerEnds(w) \/ Crash(w)
    BY <2>3 DEF HandlerEnds, Crash, IInv, RowsOK
  <2>4. CASE Settle(w)
    <3>1. /\ worker[w].pc # "idle"
          /\ RetryDelay(row[worker[w].job].attempts) \in Nat
      <4>1. worker[w].pc # "idle"
        BY <2>4 DEF Settle, Complete, Reschedule, SettleOutcomeUnknown, Fail, FailUnknownKind
      <4> QED
        BY <4>1, BusyWorker, RetryDelayType
    <3>2. CASE FailRow(w, 0) \/ FailRow(w, RetryDelay(row[worker[w].job].attempts))
      BY <3>1, <3>2, FailRowRows
    <3>3. CASE (CompleteRow(w) \/ RescheduleRow(w)) /\ UNCHANGED spent
      BY <3>1, <3>3, CompleteRowRows, RescheduleRowRows
    <3>4. CASE UNCHANGED <<row, spent>>
      BY <3>4 DEF IInv, RowsOK
    <3> QED
      BY <2>4, <3>2, <3>3, <3>4
      DEF Settle, Complete, Reschedule, SettleOutcomeUnknown, Fail, FailUnknownKind
  <2> QED
    BY <1>4, <2>1, <2>2, <2>3, <2>4 DEF WorkerStep
<1> QED
  BY <1>1, <1>2, <1>3, <1>4 DEF Next

-----------------------------------------------------------------------------
(* One step, worker by worker *)

\* No worker takes a job on: each stays at its job or leaves it.
NoneTakesOn ==
  /\ claims' = claims
  /\ \A w \in Workers :
       \/ worker'[w].job = NoJob
       \/ worker'[w].job = worker[w].job /\ worker'[w].token = worker[w].token

\* No row is taken: what runs afterwards ran before, for the same claimant.
NoneTaken ==
  \A j \in Jobs : row'[j].status = "running" =>
    row[j].status = "running" /\ row'[j].claimedBy = row[j].claimedBy

\* A worker going on to its next phase keeps its job.
LEMMA GotoWorkers ==
  ASSUME WorkersOK, NEW w \in Workers, worker[w].pc # "idle",
         NEW pc \in Phases \ {"idle"}, Goto(w, pc), UNCHANGED claims
  PROVE  WorkersOK' /\ NoneTakesOn
BY DEF WorkersOK, NoneTakesOn, Goto, Worker

\* A worker leaving its job holds none.
LEMMA ReturnWorkers ==
  ASSUME WorkersOK, NEW w \in Workers, Return(w), UNCHANGED claims
  PROVE  WorkersOK' /\ NoneTakesOn
<1>1. Idle \in Worker /\ Idle.pc = "idle" /\ Idle.job = NoJob
  BY DEF Idle, Worker, Phases
<1> HIDE DEF Idle
<1> QED
  BY <1>1 DEF WorkersOK, NoneTakesOn, Return

\* A row that becomes unclaimed is not taken.
LEMMA UnclaimedNoneTaken ==
  ASSUME RowsOK, NEW j \in Jobs, NEW st, st # "running", NEW n, NEW d, NEW e,
         row' = [row EXCEPT ![j] = Unclaimed(st, n, d, e)]
  PROVE  NoneTaken
<1>1. Unclaimed(st, n, d, e).status = st
  BY DEF Unclaimed
<1> QED
  BY <1>1 DEF RowsOK, NoneTaken

\* The settling of a row takes none.
LEMMA SettleNoneTaken ==
  ASSUME IInv, NEW w \in Workers, worker[w].pc # "idle",
         \/ \E d : FailRow(w, d)
         \/ CompleteRow(w)
         \/ RescheduleRow(w)
         \/ UNCHANGED row
  PROVE  NoneTaken
<1>a. PICK j \in Jobs : j = worker[w].job
  BY BusyWorker
<1>0. RowsOK
  BY DEF IInv
<1>1. CASE UNCHANGED row
  BY <1>1 DEF NoneTaken
<1>2. ASSUME NEW d, FailRow(w, d), Owns(w, j) PROVE NoneTaken
  <2> DEFINE dead == row[j].attempts >= MaxAttempts
             st == IF dead THEN "dead" ELSE "failed"
             wait == IF dead THEN 0 ELSE d
  <2>1. row' = [row EXCEPT ![j] = Unclaimed(st, row[j].attempts, wait, TRUE)]
    BY <1>a, <1>2 DEF FailRow
  <2>2. st # "running"
    OBVIOUS
  <2> HIDE DEF st, wait
  <2> QED
    BY <1>0, <2>1, <2>2, UnclaimedNoneTaken
<1>3. CASE CompleteRow(w) /\ Owns(w, j)
  BY <1>a, <1>0, <1>3, UnclaimedNoneTaken DEF CompleteRow, Released
<1>4. CASE RescheduleRow(w) /\ ClaimIsCurrent(w)
  BY <1>a, <1>0, <1>4, UnclaimedNoneTaken DEF RescheduleRow
<1> QED
  BY <1>a, <1>1, <1>2, <1>3, <1>4 DEF FailRow, CompleteRow, RescheduleRow

\* The renewal of a lease takes none,
LEMMA LeaseNoneTaken ==
  ASSUME RowsOK, NEW j \in Jobs, NEW d, row' = [row EXCEPT ![j].lease = d]
  PROVE  NoneTaken
<1>1. row' = [row EXCEPT ![j] = [row[j] EXCEPT !.lease = d]] /\ row[j] \in Row
  BY DEF RowsOK
<1>2. /\ [row[j] EXCEPT !.lease = d].status = row[j].status
      /\ [row[j] EXCEPT !.lease = d].claimedBy = row[j].claimedBy
  BY <1>1 DEF Row
<1> QED
  BY <1>1, <1>2 DEF RowsOK, NoneTaken

\* ... or the passing of time.
LEMMA TickNoneTaken ==
  ASSUME RowsOK, Tick
  PROVE  NoneTaken
<1>1. ASSUME NEW j \in Jobs
      PROVE  row'[j].status = row[j].status /\ row'[j].claimedBy = row[j].claimedBy
  <2> DEFINE l == Elapse(row[j].lease)
             d == Elapse(row[j].wait)
  <2>1. row[j] \in Row
    BY DEF RowsOK
  <2>2. row'[j] = [row[j] EXCEPT !.lease = l, !.wait = d]
    BY DEF Tick
  <2> HIDE DEF l, d
  <2> QED
    BY <2>1, <2>2 DEF Row
<1> QED
  BY <1>1 DEF NoneTaken

\* Every step but a claim takes no row.
LEMMA OnlyClaimsTake ==
  ASSUME IInv, [Next]_vars, ~ \E w \in Workers, j \in Jobs : Claim(w, j)
  PROVE  NoneTaken
<1>0. RowsOK
  BY DEF IInv
<1>1. CASE UNCHANGED vars
  BY <1>1 DEF NoneTaken, vars
<1>2. ASSUME NEW j \in Jobs, Caller(j) PROVE NoneTaken
  <2>1. CASE Promote(j) \/ UpdateUnclaimed(j)
    BY <1>0, <2>1 DEF Promote, UpdateUnclaimed, RowsOK, Row, NoneTaken
  <2>2. CASE Enqueue(j)
    BY <1>0, <2>2, UnclaimedNoneTaken DEF Enqueue, Fresh
  <2>3. CASE ResetForNewIntent(j)
    BY <1>0, <2>3, UnclaimedNoneTaken DEF ResetForNewIntent, Fresh
  <2>6. CASE RequeueDead(j)
    BY <1>0, <2>6, UnclaimedNoneTaken DEF RequeueDead
  <2>4. CASE Supersede(j)
    BY <1>0, <2>4, UnclaimedNoneTaken DEF Supersede, Released
  <2>5. CASE Revoke(j) \/ Prune(j)
    BY <1>0, <2>5, UnclaimedNoneTaken DEF Revoke, Prune, Fresh
  <2> QED
    BY <1>2, <2>1, <2>2, <2>3, <2>4, <2>5, <2>6 DEF Caller
<1>3. ASSUME NEW w \in Workers, WorkerStep(w) PROVE NoneTaken
  <2>1. CASE \E j \in Jobs : DeadLetterExpired(w, j)
    <3>1. PICK j \in Jobs :
            row' = [row EXCEPT ![j] = Unclaimed("dead", row[j].attempts, row[j].wait, TRUE)]
      BY <2>1 DEF DeadLetterExpired, Expired
    <3> QED
      BY <1>0, <3>1, UnclaimedNoneTaken
  <2>2. CASE Heartbeat(w) \/ Start(w)
    <3>1. PICK j \in Jobs : j = worker[w].job
      BY <2>2, BusyWorker DEF Heartbeat, Start
    <3>2. CASE row' = [row EXCEPT ![j].lease = LeaseTicks]
      BY <1>0, <3>2, LeaseNoneTaken
    <3> QED
      BY <2>2, <3>1, <3>2 DEF Heartbeat, Start, NoneTaken
  <2>3. CASE HandlerEnds(w) \/ Crash(w)
    BY <2>3 DEF HandlerEnds, Crash, NoneTaken
  <2>4. CASE Settle(w)
    BY <2>4, SettleNoneTaken
    DEF Settle, Complete, Reschedule, SettleOutcomeUnknown, Fail, FailUnknownKind
  <2> QED
    BY <1>3, <2>1, <2>2, <2>3, <2>4 DEF WorkerStep
<1>4. CASE Tick
  BY <1>0, <1>4, TickNoneTaken
<1> QED
  BY <1>1, <1>2, <1>3, <1>4 DEF Next

\* ... and no worker takes a job on.
LEMMA OnlyClaimsTakeOn ==
  ASSUME WorkersOK, [Next]_vars, ~ \E w \in Workers, j \in Jobs : Claim(w, j)
  PROVE  WorkersOK' /\ NoneTakesOn
<1>1. CASE UNCHANGED <<worker, claims>>
  BY <1>1 DEF WorkersOK, NoneTakesOn
<1>2. ASSUME NEW w \in Workers, Return(w), UNCHANGED claims
      PROVE  WorkersOK' /\ NoneTakesOn
  BY <1>2, ReturnWorkers
<1>3. ASSUME NEW w \in Workers, NEW pc \in Phases \ {"idle"}, worker[w].pc # "idle",
             Goto(w, pc), UNCHANGED claims
      PROVE  WorkersOK' /\ NoneTakesOn
  BY <1>3, GotoWorkers
<1>4. {"executing", "completing", "failing", "rescheduling"} \subseteq Phases \ {"idle"}
  BY DEF Phases
<1>5. ASSUME NEW j \in Jobs, Caller(j) PROVE UNCHANGED <<worker, claims>>
  BY <1>5 DEF Caller, Enqueue, Promote, UpdateUnclaimed, ResetForNewIntent, Supersede,
              Revoke, RequeueDead, Prune
<1>6. ASSUME NEW w \in Workers, WorkerStep(w) PROVE WorkersOK' /\ NoneTakesOn
  <2>1. CASE Start(w) \/ HandlerEnds(w)
    BY <2>1, <1>2, <1>3, <1>4 DEF Start, HandlerEnds
  <2>2. CASE Crash(w)
    BY <2>2, <1>2 DEF Crash
  <2>3. CASE Heartbeat(w) \/ \E j \in Jobs : DeadLetterExpired(w, j)
    BY <2>3, <1>1 DEF Heartbeat, DeadLetterExpired
  <2>4. CASE SettleOutcomeUnknown(w)
    BY <2>4, <1>3, <1>4 DEF SettleOutcomeUnknown
  <2>5. CASE Complete(w) \/ Reschedule(w) \/ Fail(w) \/ FailUnknownKind(w)
    BY <2>5, <1>2 DEF Complete, Reschedule, Fail, FailUnknownKind
  <2> QED
    BY <1>6, <2>1, <2>2, <2>3, <2>4, <2>5 DEF WorkerStep, Settle
<1> QED
  BY <1>1, <1>5, <1>6 DEF Next, vars, Tick

\* A claim gives the one worker it is for the latest claim of the job.
LEMMA ClaimTakes ==
  ASSUME IInv, NEW w \in Workers, NEW j \in Jobs, Claim(w, j)
  PROVE  WorkersOK' /\ ClaimantHoldsLatestClaim'
<1> DEFINE m == [pc |-> "claimed", job |-> j, attempt |-> row[j].attempts + 1,
                 token |-> claims[j] + 1]
           r == Claimed(w, j)
<1>0. /\ row \in [Jobs -> Row] /\ row[j].attempts \in Nat
      /\ worker \in [Workers -> Worker]
      /\ claims \in [Jobs -> Nat] /\ claims[j] + 1 \in Nat
  BY DEF IInv, RowsOK, WorkersOK, Row
<1>1. m \in Worker /\ m.pc # "idle" /\ m.job = j /\ m.token = claims[j] + 1
  BY <1>0 DEF Worker, Phases
<1>2. r.claimedBy = w
  BY <1>0 DEF Claimed, Row
<1>3. /\ worker' = [worker EXCEPT ![w] = m]
      /\ row' = [row EXCEPT ![j] = r]
      /\ claims' = [claims EXCEPT ![j] = claims[j] + 1]
  BY DEF Claim
<1> HIDE DEF m, r
<1>4. WorkersOK'
  BY <1>0, <1>1, <1>3, WorkersAssumption DEF IInv, WorkersOK
<1>5. ASSUME NEW v \in Workers, NEW i \in Jobs,
             worker'[v].job = i, row'[i].status = "running", row'[i].claimedBy = v
      PROVE  worker'[v].token = claims'[i]
  <2>1. CASE v = w
    BY <1>0, <1>1, <1>3, <1>5, <2>1
  <2>2. CASE v # w /\ i = j
    BY <1>0, <1>2, <1>3, <1>5, <2>2
  <2>3. CASE v # w /\ i # j
    BY <1>0, <1>3, <1>5, <2>3 DEF IInv, ClaimantHoldsLatestClaim
  <2> QED
    BY <2>1, <2>2, <2>3
<1> QED
  BY <1>4, <1>5 DEF ClaimantHoldsLatestClaim

-----------------------------------------------------------------------------
(* The theorems *)

\* The initial table is empty and every worker idle.
THEOREM InitHolds == Init => IInv
<1> SUFFICES ASSUME Init PROVE IInv
  OBVIOUS
<1>1. /\ Fresh("absent", 0) \in Row /\ Fresh("absent", 0).status = "absent"
      /\ Fresh("absent", 0).claimedBy = NoWorker
  BY DEF Fresh, Unclaimed, Row, Status
<1>2. GoodRow(Fresh("absent", 0), 0)
  BY <1>1, WorkersAssumption DEF GoodRow, Waiting
<1>3. Idle \in Worker /\ Idle.pc = "idle" /\ Idle.job = NoJob
  BY DEF Idle, Worker, Phases
<1>4. RowsOK
  BY <1>1, <1>2 DEF Init, RowsOK
<1>5. WorkersOK
  BY <1>3 DEF Init, WorkersOK
<1>6. ClaimantHoldsLatestClaim
  BY <1>3, WorkersAssumption DEF Init, ClaimantHoldsLatestClaim
<1> QED
  BY <1>4, <1>5, <1>6 DEF IInv

\* The strengthened invariant is inductive: rows, workers and claims together.
THEOREM StepHolds == IInv /\ [Next]_vars => IInv'
<1> SUFFICES ASSUME IInv, [Next]_vars PROVE IInv'
  OBVIOUS
<1>1. RowsOK'
  BY RowsStep
<1>2. WorkersOK' /\ ClaimantHoldsLatestClaim'
  <2>1. CASE \E w \in Workers, j \in Jobs : Claim(w, j)
    BY <2>1, ClaimTakes
  <2>2. CASE ~ \E w \in Workers, j \in Jobs : Claim(w, j)
    <3>1. WorkersOK' /\ NoneTakesOn /\ NoneTaken
      BY <2>2, OnlyClaimsTake, OnlyClaimsTakeOn DEF IInv
    <3>2. ClaimantHoldsLatestClaim'
      BY <3>1, WorkersAssumption
      DEF IInv, ClaimantHoldsLatestClaim, NoneTakesOn, NoneTaken
    <3> QED
      BY <3>1, <3>2
  <2> QED
    BY <2>1, <2>2
<1> QED
  BY <1>1, <1>2 DEF IInv

\* The invariant of the queue, for any number of jobs and workers.
THEOREM Invariant == Spec => []IInv
BY InitHolds, StepHolds, PTL DEF Spec

\* Every column and every field of a worker stays of its type.
THEOREM TypeCorrect == Spec => []TypeOK
<1>1. IInv => TypeOK
  BY DEF IInv, RowsOK, WorkersOK, TypeOK
<1> QED
  BY <1>1, Invariant, PTL

\* attempts counts what it should, whatever the interleaving of claims,
\* reschedules, failures, dead letters and repairs.
THEOREM LedgerExact == Spec => []AttemptLedger
<1>1. IInv => AttemptLedger
  BY DEF IInv, RowsOK, GoodRow, AttemptLedger
<1> QED
  BY <1>1, Invariant, PTL

\* The worker-id fence of complete_job, fail_job and heartbeat_job admits only
\* the holder of the latest claim.
THEOREM FenceSound == Spec => []OwnerHoldsLatestClaim
<1>1. IInv => OwnerHoldsLatestClaim
  BY DEF IInv, ClaimantHoldsLatestClaim, OwnerHoldsLatestClaim, Owns
<1> QED
  BY <1>1, Invariant, PTL

\* A dead row says why it died, and was executed.
THEOREM DeadRowsExplained == Spec => []DeadSaysWhy
<1>1. IInv => DeadSaysWhy
  BY DEF IInv, RowsOK, GoodRow, DeadSaysWhy
<1> QED
  BY <1>1, Invariant, PTL

-----------------------------------------------------------------------------
(* What a step may never do *)

\* What a busy worker's transaction writes is the row of its own job, and only
\* while it owns it.
LEMMA OnlyOwnersWrite ==
  ASSUME IInv, NEW w \in Workers, worker[w].pc # "idle", WorkerStep(w)
  PROVE  \/ UNCHANGED row
         \/ /\ Owns(w, worker[w].job)
            /\ \E r : row' = [row EXCEPT ![worker[w].job] = r]
<1>1. CASE Start(w) \/ Heartbeat(w)
  <2>1. CASE row' = [row EXCEPT ![worker[w].job].lease = LeaseTicks]
    <3>1. row' = [row EXCEPT ![worker[w].job] =
                    [row[worker[w].job] EXCEPT !.lease = LeaseTicks]]
      BY <2>1
    <3>2. \E r : row' = [row EXCEPT ![worker[w].job] = r]
      BY <3>1
    <3> QED
      BY <1>1, <2>1, <3>2 DEF Start, Heartbeat
  <2> QED
    BY <1>1, <2>1 DEF Start, Heartbeat
<1>2. CASE HandlerEnds(w) \/ Crash(w)
  BY <1>2 DEF HandlerEnds, Crash
<1>3. CASE Settle(w)
  <2>1. ASSUME NEW d, FailRow(w, d)
        PROVE  \/ UNCHANGED row
               \/ /\ Owns(w, worker[w].job)
                  /\ \E r : row' = [row EXCEPT ![worker[w].job] = r]
    BY <2>1 DEF FailRow
  <2>2. CASE CompleteRow(w) \/ RescheduleRow(w)
    BY <2>2 DEF CompleteRow, RescheduleRow, ClaimIsCurrent
  <2> QED
    BY <1>3, <2>1, <2>2
    DEF Settle, Complete, Reschedule, SettleOutcomeUnknown, Fail, FailUnknownKind
<1>4. CASE \E j \in Jobs : DeadLetterExpired(w, j) \/ Claim(w, j)
  BY <1>4 DEF DeadLetterExpired, Claim
<1> QED
  BY <1>1, <1>2, <1>3, <1>4 DEF WorkerStep

\* An idle worker writes no terminal row.
LEMMA IdleWorkerStep ==
  ASSUME IInv, NEW w \in Workers, worker[w].pc = "idle", WorkerStep(w)
  PROVE  \E i \in Jobs : Claim(w, i) \/ DeadLetterExpired(w, i)
BY DEF WorkerStep, Start, Heartbeat, HandlerEnds, Crash, Settle, Complete, Reschedule,
       SettleOutcomeUnknown, Fail, FailUnknownKind

\* A succeeded row is never run, failed, killed or repaired.
THEOREM SuccessFinal == Spec => SuccessIsFinal
<1>1. ASSUME IInv, [Next]_vars, NEW j \in Jobs, row[j].status = "succeeded"
      PROVE  row'[j].status \in {"succeeded", "deleted"}
  <2>0. RowsOK
    BY <1>1 DEF IInv
  <2>1. CASE UNCHANGED vars
    BY <1>1, <2>1 DEF vars
  <2>2. ASSUME NEW i \in Jobs, Caller(i) PROVE row'[j].status \in {"succeeded", "deleted"}
    <3>1. CASE i # j
      <4>1. \E r : row' = [row EXCEPT ![i] = r]
        BY <2>2 DEF Caller, Enqueue, Promote, UpdateUnclaimed, ResetForNewIntent,
                    Supersede, Revoke, RequeueDead, Prune
      <4> QED
        BY <1>1, <2>0, <3>1, <4>1 DEF RowsOK
    <3>2. CASE i = j
      <4>1. Revoke(j) \/ Prune(j)
        BY <1>1, <2>2, <3>2 DEF Caller, Enqueue, Promote, UpdateUnclaimed, ResetForNewIntent,
                                Supersede, RequeueDead, Repairable, Waiting
      <4>2. row' = [row EXCEPT ![j] = Fresh("deleted", 0)]
        BY <4>1 DEF Revoke, Prune
      <4>3. Fresh("deleted", 0).status = "deleted"
        BY DEF Fresh, Unclaimed
      <4> QED
        BY <2>0, <4>2, <4>3 DEF RowsOK
    <3> QED
      BY <3>1, <3>2
  <2>3. ASSUME NEW w \in Workers, WorkerStep(w) PROVE row'[j] = row[j]
    <3>1. CASE worker[w].pc = "idle"
      <4>1. PICK i \in Jobs : Claim(w, i) \/ DeadLetterExpired(w, i)
        BY <1>1, <2>3, <3>1, IdleWorkerStep
      <4>2. i # j
        BY <1>1, <4>1 DEF Claim, Claimable, DeadLetterExpired, Waiting
      <4>3. \E r : row' = [row EXCEPT ![i] = r]
        BY <4>1 DEF Claim, DeadLetterExpired
      <4> QED
        BY <2>0, <4>2, <4>3 DEF RowsOK
    <3>2. CASE worker[w].pc # "idle"
      <4>1. ~ Owns(w, j)
        BY <1>1 DEF Owns
      <4> QED
        BY <1>1, <2>0, <2>3, <3>2, <4>1, OnlyOwnersWrite DEF RowsOK
    <3> QED
      BY <3>1, <3>2
  <2>4. CASE Tick
    <3> DEFINE l == Elapse(row[j].lease)
               d == Elapse(row[j].wait)
    <3>1. row[j] \in Row /\ row'[j] = [row[j] EXCEPT !.lease = l, !.wait = d]
      BY <2>0, <2>4 DEF Tick, RowsOK
    <3> HIDE DEF l, d
    <3> QED
      BY <1>1, <3>1 DEF Row
  <2> QED
    BY <1>1, <2>1, <2>2, <2>3, <2>4 DEF Next
<1> QED
  <2>1. IInv /\ [Next]_vars =>
          [\A j \in Jobs : row[j].status = "succeeded" =>
             row'[j].status \in {"succeeded", "deleted"}]_vars
    BY <1>1
  <2> QED
    BY <2>1, Invariant, PTL DEF Spec, SuccessIsFinal

\* A worker that lost its claim, whoever has the job now, changes nothing of it.
THEOREM StaleWorkerHarmless == Spec => StaleWorkerSettlesNothing
<1>1. ASSUME IInv, [Next]_vars, NEW w \in Workers, worker[w].job \in Jobs,
             worker[w].token # claims[worker[w].job], worker'[w] # worker[w]
      PROVE  row'[worker[w].job] = row[worker[w].job]
  <2>1. worker[w].pc # "idle"
    BY <1>1, WorkersAssumption DEF IInv, WorkersOK
  <2>2. ~ Owns(w, worker[w].job)
    BY <1>1 DEF IInv, ClaimantHoldsLatestClaim, Owns
  <2>3. CASE WorkerStep(w)
    BY <1>1, <2>1, <2>2, <2>3, OnlyOwnersWrite
  <2>4. ASSUME NEW v \in Workers, v # w, WorkerStep(v) PROVE FALSE
    <3>1. UNCHANGED worker \/ \E m : worker' = [worker EXCEPT ![v] = m]
      <4>1. ASSUME NEW pc, Goto(v, pc) PROVE \E m : worker' = [worker EXCEPT ![v] = m]
        <5>1. worker' = [worker EXCEPT ![v] = [worker[v] EXCEPT !.pc = pc]]
          BY <4>1 DEF Goto
        <5> QED
          BY <5>1
      <4>2. Return(v) => \E m : worker' = [worker EXCEPT ![v] = m]
        BY DEF Return
      <4> QED
        BY <2>4, <4>1, <4>2
        DEF WorkerStep, DeadLetterExpired, Claim, Start, Heartbeat, HandlerEnds, Crash,
            Settle, Complete, Reschedule, SettleOutcomeUnknown, Fail, FailUnknownKind
    <3> QED
      BY <1>1, <2>4, <3>1 DEF IInv, WorkersOK
  <2>5. ASSUME NEW i \in Jobs, Caller(i) PROVE FALSE
    BY <1>1, <2>5
    DEF Caller, Enqueue, Promote, UpdateUnclaimed, ResetForNewIntent, Supersede, Revoke,
        RequeueDead, Prune
  <2>6. CASE Tick \/ UNCHANGED vars
    BY <1>1, <2>6 DEF Tick, vars
  <2> QED
    BY <1>1, <2>3, <2>4, <2>5, <2>6 DEF Next
<1> QED
  <2>1. IInv /\ [Next]_vars =>
          [\A w \in Workers :
             LET j == worker[w].job IN
             /\ j \in Jobs /\ worker[w].token # claims[j]
             /\ worker'[w] # worker[w]
             => row'[j] = row[j]]_vars
    BY <1>1
  <2> QED
    BY <2>1, Invariant, PTL DEF Spec, StaleWorkerSettlesNothing

-----------------------------------------------------------------------------
(* The contract *)

ContractStep == Contract!Next \/ UNCHANGED <<SeenState, spent>>

\* A step that writes one row changes what is seen of that job only.
LEMMA OneRowSeen ==
  ASSUME RowsOK, NEW j \in Jobs, NEW r, row' = [row EXCEPT ![j] = r]
  PROVE  /\ SeenState' = [SeenState EXCEPT ![j] = Seen(r.status)]
         /\ SeenState[j] = Seen(row[j].status)
BY DEF RowsOK, SeenState

\* ... the status given to an unclaimed row.
LEMMA UnclaimedSeen ==
  ASSUME RowsOK, NEW j \in Jobs, NEW st, NEW n, NEW d, NEW e,
         row' = [row EXCEPT ![j] = Unclaimed(st, n, d, e)]
  PROVE  /\ SeenState' = [SeenState EXCEPT ![j] = Seen(st)]
         /\ SeenState[j] = Seen(row[j].status)
<1>1. Unclaimed(st, n, d, e).status = st
  BY DEF Unclaimed
<1> QED
  BY <1>1 DEF RowsOK, SeenState

\* What is seen of each status.
LEMMA SeenValues ==
  /\ Seen("pending") = "open" /\ Seen("failed") = "open" /\ Seen("running") = "open"
  /\ Seen("succeeded") = "done" /\ Seen("dead") = "dead" /\ Seen("deleted") = "gone"
  /\ Seen("absent") = "absent"
BY DEF Seen, Waiting

\* A step that moves no row between what is seen, and loses none, is invisible.
LEMMA Invisible ==
  ASSUME RowsOK, NEW j \in Jobs, NEW r, row' = [row EXCEPT ![j] = r],
         Seen(r.status) = Seen(row[j].status), UNCHANGED spent
  PROVE  ContractStep
<1>1. SeenState' = [SeenState EXCEPT ![j] = SeenState[j]]
  BY OneRowSeen
<1> QED
  BY <1>1 DEF ContractStep, SeenState

\* A lost execution: dead with the last one, open until then.
LEMMA LostExecution ==
  ASSUME RowsOK, NEW j \in Jobs, NEW r, row' = [row EXCEPT ![j] = r],
         row[j].status = "running",
         Seen(r.status) = IF spent[j] + 1 = MaxAttempts THEN "dead" ELSE "open",
         spent' = [spent EXCEPT ![j] = spent[j] + 1]
  PROVE  ContractStep
<1>0. /\ SeenState' = [SeenState EXCEPT ![j] = Seen(r.status)]
      /\ SeenState[j] = Seen(row[j].status)
  BY OneRowSeen, Zenon
<1>1. /\ SeenState' = [SeenState EXCEPT ![j] =
             IF spent[j] + 1 = MaxAttempts THEN "dead" ELSE "open"]
      /\ SeenState[j] = "open"
  BY <1>0, SeenValues
<1>2. Contract!Lose(j)
  BY <1>1 DEF Contract!Lose, Contract!Becomes
<1> QED
  BY <1>2 DEF ContractStep, Contract!Next

\* The status of an unclaimed row is what it is given.
LEMMA UnclaimedStatus ==
  ASSUME NEW st, NEW n, NEW d, NEW e
  PROVE  Unclaimed(st, n, d, e).status = st
BY DEF Unclaimed

\* A caller's transaction is a step of the contract.
LEMMA CallerSteps ==
  ASSUME IInv, NEW j \in Jobs, Caller(j)
  PROVE  ContractStep
<1>0. RowsOK /\ row[j] \in Row
  BY DEF IInv, RowsOK
<1>1. CASE Enqueue(j)
  <2>1. PICK d : row' = [row EXCEPT ![j] = Unclaimed("pending", 0, d, FALSE)]
    BY <1>1 DEF Enqueue, Fresh
  <2>2. SeenState' = [SeenState EXCEPT ![j] = Seen("pending")] /\ SeenState[j] = Seen("absent")
    BY <1>0, <1>1, <2>1, UnclaimedSeen DEF Enqueue
  <2>3. Contract!Submit(j)
    BY <1>1, <2>2, SeenValues DEF Enqueue, Contract!Submit, Contract!Becomes
  <2> QED
    BY <2>3 DEF ContractStep, Contract!Next
<1>2. CASE Promote(j) \/ UpdateUnclaimed(j)
  <2>1. PICK d : row' = [row EXCEPT ![j] = [row[j] EXCEPT !.wait = d]]
    BY <1>2 DEF Promote, UpdateUnclaimed
  <2>2. [row[j] EXCEPT !.wait = d].status = row[j].status
    BY <1>0 DEF Row
  <2> QED
    BY <1>0, <1>2, <2>1, <2>2, Invisible DEF Promote, UpdateUnclaimed
<1>3. CASE ResetForNewIntent(j) \/ RequeueDead(j)
  <2>1. PICK e : row' = [row EXCEPT ![j] = Unclaimed("pending", 0, 0, e)]
    BY <1>3 DEF ResetForNewIntent, RequeueDead, Fresh
  <2>2. /\ SeenState' = [SeenState EXCEPT ![j] = Seen("pending")]
        /\ SeenState[j] = Seen(row[j].status)
    BY <1>0, <2>1, UnclaimedSeen
  <2>3. SeenState[j] \in {"open", "dead"}
    BY <1>3, <2>2, SeenValues DEF ResetForNewIntent, RequeueDead, Repairable, Waiting
  <2>4. Contract!Renew(j)
    BY <1>3, <2>2, <2>3, SeenValues
    DEF ResetForNewIntent, RequeueDead, Contract!Renew, Contract!Becomes
  <2> QED
    BY <2>4 DEF ContractStep, Contract!Next
<1>4. CASE Supersede(j)
  <2>1. /\ SeenState' = [SeenState EXCEPT ![j] = Seen("succeeded")]
        /\ SeenState[j] = Seen(row[j].status)
    BY <1>0, <1>4, UnclaimedSeen DEF Supersede, Released
  <2>2. Contract!Succeed(j)
    BY <1>4, <2>1, SeenValues DEF Waiting, Supersede, Contract!Succeed, Contract!Becomes
  <2> QED
    BY <2>2 DEF ContractStep, Contract!Next
<1>5. CASE Revoke(j) \/ Prune(j)
  <2>0. row' = [row EXCEPT ![j] = Unclaimed("deleted", 0, 0, FALSE)]
    BY <1>5 DEF Revoke, Prune, Fresh
  <2>1. SeenState' = [SeenState EXCEPT ![j] = Seen("deleted")]
    BY <1>0, <2>0, UnclaimedSeen
  <2>2. SeenState[j] \in {"open", "done", "dead"}
    BY <1>0, <1>5, SeenValues DEF Revoke, Prune, SeenState, Row, Status, Waiting, Terminal
  <2>3. Contract!Remove(j)
    BY <1>5, <2>1, <2>2, SeenValues DEF Revoke, Prune, Contract!Remove, Contract!Becomes
  <2> QED
    BY <2>3 DEF ContractStep, Contract!Next
<1> QED
  BY <1>1, <1>2, <1>3, <1>4, <1>5 DEF Caller

\* So is a step of an idle worker: a reclaim and a dead letter lose the
\* execution before them, a first claim is invisible.
LEMMA IdleWorkerSteps ==
  ASSUME IInv, NEW w \in Workers, NEW j \in Jobs,
         Claim(w, j) \/ DeadLetterExpired(w, j)
  PROVE  ContractStep
<1>0. /\ RowsOK /\ row[j] \in Row /\ row[j].attempts \in Nat /\ spent[j] \in Nat
      /\ GoodRow(row[j], spent[j]) /\ MaxAttempts \in Nat
  BY PolicyAssumption DEF IInv, RowsOK, Row
<1>1. CASE Claim(w, j)
  <2> DEFINE r == Claimed(w, j)
  <2>1. r.status = "running" /\ row' = [row EXCEPT ![j] = r]
    BY <1>0, <1>1 DEF Claim, Claimed, Row
  <2> HIDE DEF r
  <2>2. CASE row[j].status = "running"
    <3>1. spent' = [spent EXCEPT ![j] = spent[j] + 1]
      BY <1>1, <2>2 DEF Claim
    <3>2. spent[j] + 1 # MaxAttempts
      BY <1>0, <1>1, <2>2 DEF Claim, Claimable, Waiting, GoodRow
    <3> QED
      BY <1>0, <2>1, <2>2, <3>1, <3>2, LostExecution, SeenValues
  <2>3. CASE row[j].status # "running"
    <3>1. Seen(r.status) = Seen(row[j].status)
      BY <1>1, <2>1, <2>3, SeenValues DEF Claim, Claimable, Waiting
    <3>2. spent' = spent
      BY <1>0, <1>1, <2>3 DEF Claim, RowsOK
    <3> QED
      BY <1>0, <2>1, <3>1, <3>2, Invisible
  <2> QED
    BY <2>2, <2>3
<1>2. CASE DeadLetterExpired(w, j)
  <2>1. /\ row[j].status = "running" /\ row' = [row EXCEPT ![j] = Expired(j)]
        /\ spent' = [spent EXCEPT ![j] = spent[j] + 1]
    BY <1>2 DEF DeadLetterExpired
  <2>2. Seen(Expired(j).status) = "dead"
    BY SeenValues DEF Expired, Unclaimed
  <2>3. spent[j] + 1 = MaxAttempts
    BY <1>0, <1>2 DEF DeadLetterExpired, GoodRow
  <2> QED
    BY <1>0, <2>1, <2>2, <2>3, LostExecution
<1> QED
  BY <1>1, <1>2

\* So is what a busy worker does to its row.
LEMMA SettleSteps ==
  ASSUME IInv, NEW w \in Workers, worker[w].pc # "idle",
         \/ \E d : FailRow(w, d)
         \/ (CompleteRow(w) \/ RescheduleRow(w)) /\ UNCHANGED spent
  PROVE  ContractStep
<1>a. PICK j \in Jobs : j = worker[w].job
  BY BusyWorker
<1>0. /\ RowsOK /\ row[j].attempts \in Nat /\ spent[j] \in Nat
      /\ GoodRow(row[j], spent[j]) /\ MaxAttempts \in Nat
  BY <1>a, BusyWorker, PolicyAssumption DEF IInv
<1>1. CASE ~ Owns(w, j)
  BY <1>a, <1>1 DEF FailRow, CompleteRow, RescheduleRow, ClaimIsCurrent, ContractStep, SeenState
<1>2. ASSUME Owns(w, j), NEW d, FailRow(w, d) PROVE ContractStep
  <2>1. row[j].status = "running" /\ spent' = [spent EXCEPT ![j] = spent[j] + 1]
    BY <1>a, <1>2 DEF FailRow, Owns
  <2>2. PICK wait :
          row' = [row EXCEPT ![j] =
            Unclaimed(IF row[j].attempts >= MaxAttempts THEN "dead" ELSE "failed",
                      row[j].attempts, wait, TRUE)]
    BY <1>a, <1>2 DEF FailRow
  <2>3. row[j].attempts >= MaxAttempts <=> spent[j] + 1 = MaxAttempts
    BY <1>0, <2>1 DEF GoodRow
  <2> DEFINE st == IF row[j].attempts >= MaxAttempts THEN "dead" ELSE "failed"
  <2>4. Seen(st) = IF spent[j] + 1 = MaxAttempts THEN "dead" ELSE "open"
    BY <2>3, SeenValues
  <2> HIDE DEF st
  <2>5. Unclaimed(st, row[j].attempts, wait, TRUE).status = st
    BY UnclaimedStatus
  <2>6. row' = [row EXCEPT ![j] = Unclaimed(st, row[j].attempts, wait, TRUE)]
    BY <2>2 DEF st
  <2> QED
    BY <1>0, <2>1, <2>4, <2>5, <2>6, LostExecution
<1>3. CASE Owns(w, j) /\ CompleteRow(w) /\ UNCHANGED spent
  <2>1. row' = [row EXCEPT ![j] = Released(j, "succeeded", row[j].wait)]
    BY <1>a, <1>3 DEF CompleteRow
  <2>2. /\ SeenState' = [SeenState EXCEPT ![j] = Seen("succeeded")]
        /\ SeenState[j] = Seen("running")
    BY <1>0, <1>3, <2>1, UnclaimedSeen DEF Released, Owns
  <2>3. Contract!Succeed(j)
    BY <1>3, <2>2, SeenValues DEF Contract!Succeed, Contract!Becomes
  <2> QED
    BY <2>3 DEF ContractStep, Contract!Next
<1>4. CASE Owns(w, j) /\ RescheduleRow(w) /\ UNCHANGED spent
  <2>1. CASE ~ ClaimIsCurrent(w)
    BY <1>4, <2>1 DEF RescheduleRow, ContractStep, SeenState
  <2>2. CASE ClaimIsCurrent(w)
    <3>1. PICK d : row' = [row EXCEPT ![j] =
              Unclaimed("pending", Refunded(row[j].attempts), d, row[j].errored)]
      BY <1>a, <1>4, <2>2 DEF RescheduleRow
    <3> DEFINE r == Unclaimed("pending", Refunded(row[j].attempts), d, row[j].errored)
    <3>2. Seen(r.status) = Seen(row[j].status)
      BY <1>4, UnclaimedStatus, SeenValues DEF Owns
    <3> HIDE DEF r
    <3>3. row' = [row EXCEPT ![j] = r]
      BY <3>1 DEF r
    <3> QED
      BY <1>0, <1>4, <3>2, <3>3, Invisible
  <2> QED
    BY <2>1, <2>2
<1> QED
  BY <1>1, <1>2, <1>3, <1>4

\* Every step of the queue is a step of the contract, or none.
LEMMA QueueSteps ==
  ASSUME IInv, [Next]_vars
  PROVE  ContractStep
<1>0. RowsOK
  BY DEF IInv
<1>1. CASE UNCHANGED <<row, spent>>
  BY <1>1 DEF ContractStep, SeenState
<1>2. CASE Tick
  <2>1. ASSUME NEW j \in Jobs PROVE row'[j].status = row[j].status
    <3> DEFINE l == Elapse(row[j].lease)
               d == Elapse(row[j].wait)
    <3>1. row[j] \in Row /\ row'[j] = [row[j] EXCEPT !.lease = l, !.wait = d]
      BY <1>0, <1>2 DEF Tick, RowsOK
    <3> HIDE DEF l, d
    <3> QED
      BY <3>1 DEF Row
  <2>2. SeenState' = SeenState
    BY <2>1 DEF SeenState
  <2> QED
    BY <1>2, <2>2 DEF Tick, ContractStep
<1>3. ASSUME NEW w \in Workers, WorkerStep(w) PROVE ContractStep
  <2>1. CASE worker[w].pc = "idle"
    BY <1>3, <2>1, IdleWorkerStep, IdleWorkerSteps
  <2>2. CASE worker[w].pc # "idle" /\ (Start(w) \/ Heartbeat(w))
    <3>1. PICK j \in Jobs : j = worker[w].job
      BY <2>2, BusyWorker
    <3>2. CASE row' = [row EXCEPT ![j].lease = LeaseTicks]
      <4>1. /\ row' = [row EXCEPT ![j] = [row[j] EXCEPT !.lease = LeaseTicks]]
            /\ row[j] \in Row
        BY <1>0, <3>2 DEF RowsOK
      <4>2. [row[j] EXCEPT !.lease = LeaseTicks].status = row[j].status
        BY <4>1 DEF Row
      <4> QED
        BY <1>0, <2>2, <4>1, <4>2, Invisible DEF Start, Heartbeat
    <3> QED
      BY <1>1, <2>2, <3>1, <3>2 DEF Start, Heartbeat
  <2>3. CASE HandlerEnds(w) \/ Crash(w)
    BY <1>1, <2>3 DEF HandlerEnds, Crash
  <2>4. CASE worker[w].pc # "idle" /\ Settle(w)
    BY <1>1, <2>4, SettleSteps
    DEF Settle, Complete, Reschedule, SettleOutcomeUnknown, Fail, FailUnknownKind
  <2>5. CASE worker[w].pc # "idle" /\
             \E j \in Jobs : DeadLetterExpired(w, j) \/ Claim(w, j)
    BY <2>5 DEF DeadLetterExpired, Claim
  <2> QED
    BY <1>3, <2>1, <2>2, <2>3, <2>4, <2>5 DEF WorkerStep
<1> QED
  BY <1>1, <1>2, <1>3, CallerSteps DEF Next, vars

\* The queue implements its contract.
THEOREM QueueKeepsContract == Spec => KeepsContract
<1>1. Init => Contract!Init
  <2> SUFFICES ASSUME Init PROVE Contract!Init
    OBVIOUS
  <2>1. \A j \in Jobs : Seen(row[j].status) = "absent"
    BY SeenValues DEF Init, Fresh, Unclaimed
  <2> QED
    BY <2>1 DEF Init, Contract!Init, SeenState
<1>2. IInv /\ [Next]_vars => [Contract!Next]_(Contract!contractVars)
  BY QueueSteps DEF ContractStep, Contract!contractVars
<1> QED
  BY <1>1, <1>2, Invariant, PTL DEF Spec, KeepsContract, Contract!Spec

-----------------------------------------------------------------------------
(* For the modules that run handlers over this queue *)

\* w is at a job, and the row of the job still says so.
Holds(w) == worker[w].pc # "idle" /\ Owns(w, worker[w].job)

\* A worker at a job has a row there, and if the row is still its claim then it
\* is the very attempt: for it the weak fence of complete_job and fail_job is as
\* good as that of the checkpoints.  A row that may be claimed has budget left.
Tidy ==
  /\ row \in [Jobs -> Row]
  /\ worker \in [Workers -> Worker]
  /\ claims \in [Jobs -> Nat]
  /\ \A w \in Workers :
       LET j == worker[w].job IN
       /\ (worker[w].pc = "idle") <=> (j = NoJob)
       /\ j # NoJob => row[j].status # "absent"
       /\ Holds(w) => row[j].attempts = worker[w].attempt
  /\ \A j \in Jobs :
       /\ row[j].status \in Waiting => row[j].attempts < MaxAttempts
       /\ row[j].status = "running" => row[j].attempts <= MaxAttempts

\* Nobody begins to hold a claim but by taking a job, and no row that was there
\* is as if it had never been.
NoneGains ==
  \A w \in Workers :
    Holds(w)' => \/ Holds(w) /\ worker'[w].job = worker[w].job
                 \/ worker[w].pc = "idle" /\ worker'[w].pc = "claimed"

NoneForgotten == \A j \in Jobs : row[j].status # "absent" => row'[j].status # "absent"

TidyStep == Tidy' /\ NoneGains /\ NoneForgotten

\* A row after a step that claims nothing: if it runs, it is the same claim and
\* its lease has not come back to life.
QuietRow(old, new) ==
  /\ new \in Row
  /\ old.status # "absent" => new.status # "absent"
  /\ new.status \in Waiting => new.attempts < MaxAttempts
  /\ new.status = "running" =>
       /\ old.status = "running" /\ new.claimedBy = old.claimedBy
       /\ new.attempts = old.attempts
       /\ new.lease > 0 => old.lease > 0

\* A worker that leaves its job, or stays at it.
QuietWorker(old, new) ==
  \/ new = old
  \/ new = Idle
  \/ /\ old.pc # "idle" /\ new.pc # "idle"
     /\ new.job = old.job /\ new.attempt = old.attempt

\* A step that takes no job.
Quiet ==
  /\ row' \in [Jobs -> Row] /\ worker' \in [Workers -> Worker] /\ UNCHANGED claims
  /\ \A j \in Jobs : QuietRow(row[j], row'[j])
  /\ \A w \in Workers : QuietWorker(worker[w], worker'[w])

LEMMA QuietTidy ==
  ASSUME Tidy, Quiet
  PROVE  TidyStep
<1>1. \A w \in Workers : worker[w].job \in Jobs \cup {NoJob}
  BY DEF Tidy, Worker
<1>2. Idle.pc = "idle" /\ Idle.job = NoJob
  BY DEF Idle
<1>3. ASSUME NEW w \in Workers, Holds(w)'
      PROVE  Holds(w) /\ worker'[w].job = worker[w].job /\ worker'[w].attempt = worker[w].attempt
             /\ row'[worker[w].job].attempts = row[worker[w].job].attempts
  <2>1. worker'[w].pc # "idle"
    BY <1>3 DEF Holds
  <2>2. worker[w].pc # "idle" /\ worker'[w].job = worker[w].job
        /\ worker'[w].attempt = worker[w].attempt
    BY <1>2, <2>1 DEF Quiet, QuietWorker
  <2>3. worker[w].job \in Jobs
    BY <1>1, <2>2 DEF Tidy
  <2> QED
    BY <1>3, <2>2, <2>3 DEF Quiet, QuietRow, Holds, Owns, LeaseLive
<1>4. NoneGains
  BY <1>3 DEF NoneGains
<1>5. ASSUME NEW w \in Workers
      PROVE  LET j == worker'[w].job IN
             /\ (worker'[w].pc = "idle") <=> (j = NoJob)
             /\ j # NoJob => row'[j].status # "absent"
             /\ Holds(w)' => row'[j].attempts = worker'[w].attempt
  <2>1. CASE worker'[w] = Idle
    BY <1>2, <2>1 DEF Holds
  <2>2. CASE worker'[w] # Idle
    BY <1>1, <1>3, <2>2 DEF Quiet, QuietRow, QuietWorker, Tidy
  <2> QED
    BY <2>1, <2>2
<1>6. ASSUME NEW j \in Jobs
      PROVE  /\ row'[j].status \in Waiting => row'[j].attempts < MaxAttempts
             /\ row'[j].status = "running" => row'[j].attempts <= MaxAttempts
             /\ row[j].status # "absent" => row'[j].status # "absent"
  BY DEF Quiet, QuietRow, Tidy
<1> QED
  BY <1>4, <1>5, <1>6 DEF Tidy, TidyStep, NoneForgotten, Quiet

\* A row of the queue is as quiet as before when nothing is done to it.
LEMMA SameRowQuiet ==
  ASSUME Tidy, NEW j \in Jobs
  PROVE  QuietRow(row[j], row[j])
BY DEF Tidy, QuietRow

\* One row is written, perhaps, and no worker moves.
LEMMA OneRowQuiet ==
  ASSUME Tidy, NEW j \in Jobs, NEW r \in Row, QuietRow(row[j], r),
         row' = [row EXCEPT ![j] = r], UNCHANGED <<worker, claims>>
  PROVE  TidyStep
<1>1. Quiet
  BY SameRowQuiet DEF Tidy, Quiet, QuietWorker
<1> QED
  BY <1>1, QuietTidy

\* What a caller leaves is unclaimed and in the table, or moved only in time.
LEMMA UnclaimedQuiet ==
  ASSUME NEW old, NEW st \in Status \ {"running", "absent"}, NEW n \in Nat, NEW d \in Nat,
         NEW e \in BOOLEAN, st \in Waiting => n < MaxAttempts
  PROVE  /\ Unclaimed(st, n, d, e) \in Row
         /\ QuietRow(old, Unclaimed(st, n, d, e))
<1> DEFINE r == Unclaimed(st, n, d, e)
<1>1. r \in Row /\ r.status = st /\ r.attempts = n
  BY UnclaimedFields
<1>2. QuietRow(old, r)
  <2> HIDE DEF r
  <2> QED
    BY <1>1 DEF QuietRow
<1> QED
  BY <1>1, <1>2

LEMMA WaitQuiet ==
  ASSUME Tidy, NEW j \in Jobs, NEW d \in Nat
  PROVE  /\ [row[j] EXCEPT !.wait = d] \in Row
         /\ QuietRow(row[j], [row[j] EXCEPT !.wait = d])
<1> DEFINE r == [row[j] EXCEPT !.wait = d]
<1>1. /\ r \in Row /\ r.status = row[j].status /\ r.attempts = row[j].attempts
      /\ r.claimedBy = row[j].claimedBy /\ r.lease = row[j].lease
  BY DEF Tidy, Row
<1>2. QuietRow(row[j], r)
  <2> HIDE DEF r
  <2> QED
    BY <1>1 DEF Tidy, QuietRow
<1> QED
  BY <1>1, <1>2

LEMMA LiveLeaseQuiet ==
  ASSUME Tidy, NEW j \in Jobs, NEW n \in Nat, row[j].lease > 0
  PROVE  /\ [row[j] EXCEPT !.lease = n] \in Row
         /\ QuietRow(row[j], [row[j] EXCEPT !.lease = n])
<1> DEFINE r == [row[j] EXCEPT !.lease = n]
<1>1. /\ r \in Row /\ r.status = row[j].status /\ r.attempts = row[j].attempts
      /\ r.claimedBy = row[j].claimedBy
  BY DEF Tidy, Row
<1>2. QuietRow(row[j], r)
  <2> HIDE DEF r
  <2> QED
    BY <1>1 DEF Tidy, QuietRow
<1> QED
  BY <1>1, <1>2

\* The callers' transactions.
LEMMA CallerTidy ==
  ASSUME Tidy, NEW j \in Jobs, Caller(j), PolicyAssumption
  PROVE  TidyStep
<1>0. /\ row[j].attempts \in Nat /\ row[j].wait \in Nat /\ row[j].errored \in BOOLEAN
      /\ 0..MaxDelay \subseteq Nat /\ 0 \in Nat /\ FALSE \in BOOLEAN /\ 0 < MaxAttempts
      /\ {"pending", "succeeded", "deleted"} \subseteq Status \ {"running", "absent"}
      /\ "succeeded" \notin Waiting /\ "deleted" \notin Waiting
  BY PolicyAssumption DEF Tidy, Row, Status, Waiting, Terminal
<1>1. CASE Enqueue(j) \/ ResetForNewIntent(j) \/ RequeueDead(j)
  <2>1. \E d \in Nat, e \in BOOLEAN : row' = [row EXCEPT ![j] = Unclaimed("pending", 0, d, e)]
    BY <1>0, <1>1 DEF Enqueue, ResetForNewIntent, RequeueDead, Fresh
  <2>2. UNCHANGED <<worker, claims>>
    BY <1>1 DEF Enqueue, ResetForNewIntent, RequeueDead
  <2>3. \A d \in Nat, e \in BOOLEAN :
          /\ Unclaimed("pending", 0, d, e) \in Row
          /\ QuietRow(row[j], Unclaimed("pending", 0, d, e))
    BY <1>0, UnclaimedQuiet
  <2> QED
    BY <2>1, <2>2, <2>3, OneRowQuiet
<1>2. CASE Promote(j) \/ UpdateUnclaimed(j)
  <2>1. PICK d \in Nat : row' = [row EXCEPT ![j] = [row[j] EXCEPT !.wait = d]]
    BY <1>0, <1>2 DEF Promote, UpdateUnclaimed
  <2>2. UNCHANGED <<worker, claims>>
    BY <1>2 DEF Promote, UpdateUnclaimed
  <2> QED
    BY <2>1, <2>2, WaitQuiet, OneRowQuiet
<1>3. CASE Supersede(j)
  <2> DEFINE r == Unclaimed("succeeded", row[j].attempts, row[j].wait, row[j].errored)
  <2>1. r \in Row /\ QuietRow(row[j], r)
    BY <1>0, UnclaimedQuiet
  <2>2. row' = [row EXCEPT ![j] = r] /\ UNCHANGED <<worker, claims>>
    BY <1>3 DEF Supersede, Released
  <2> HIDE DEF r
  <2> QED
    BY <2>1, <2>2, OneRowQuiet
<1>4. CASE Revoke(j) \/ Prune(j)
  <2> DEFINE r == Unclaimed("deleted", 0, 0, FALSE)
  <2>1. r \in Row /\ QuietRow(row[j], r)
    BY <1>0, UnclaimedQuiet
  <2>2. row' = [row EXCEPT ![j] = r] /\ UNCHANGED <<worker, claims>>
    BY <1>4 DEF Revoke, Prune, Fresh
  <2> HIDE DEF r
  <2> QED
    BY <2>1, <2>2, OneRowQuiet
<1> QED
  BY <1>1, <1>2, <1>3, <1>4 DEF Caller

\* One row is written and its worker leaves, or goes on.
LEMMA OneWorkerQuiet ==
  ASSUME Tidy, NEW w \in Workers, worker[w].pc # "idle", UNCHANGED claims,
         \/ UNCHANGED row
         \/ \E r \in Row : /\ row' = [row EXCEPT ![worker[w].job] = r]
                           /\ QuietRow(row[worker[w].job], r),
         \/ UNCHANGED worker
         \/ Return(w)
         \/ \E pc \in Phases \ {"idle"} : Goto(w, pc)
  PROVE  TidyStep
<1>0. worker[w].job \in Jobs /\ Idle \in Worker
  BY DEF Tidy, Worker, Idle, Phases
<1>1. worker' \in [Workers -> Worker] /\ \A v \in Workers : QuietWorker(worker[v], worker'[v])
  <2>1. CASE UNCHANGED worker
    BY <2>1 DEF Tidy, QuietWorker
  <2>2. CASE Return(w)
    BY <1>0, <2>2 DEF Tidy, Return, QuietWorker
  <2>3. ASSUME NEW pc \in Phases \ {"idle"}, Goto(w, pc)
        PROVE  worker' \in [Workers -> Worker]
               /\ \A v \in Workers : QuietWorker(worker[v], worker'[v])
    BY <2>3 DEF Tidy, Goto, Worker, QuietWorker
  <2> QED
    BY <2>1, <2>2, <2>3
<1>2. row' \in [Jobs -> Row] /\ \A j \in Jobs : QuietRow(row[j], row'[j])
  BY <1>0, SameRowQuiet DEF Tidy
<1> QED
  BY <1>1, <1>2, QuietTidy DEF Quiet

\* A worker's memory moves on, or is gone.
LEMMA MemoryTidy ==
  ASSUME Tidy, NEW w \in Workers, worker[w].pc # "idle", UNCHANGED <<row, claims>>,
         Return(w) \/ \E pc \in Phases \ {"idle"} : Goto(w, pc)
  PROVE  TidyStep
BY OneWorkerQuiet

\* A live claim renewed, as the worker goes on or stays.
LEMMA RenewTidy ==
  ASSUME Tidy, NEW w \in Workers, worker[w].pc # "idle", UNCHANGED claims,
         NEW n \in Nat, row[worker[w].job].lease > 0,
         row' = [row EXCEPT ![worker[w].job].lease = n],
         \/ UNCHANGED worker
         \/ Return(w)
         \/ \E pc \in Phases \ {"idle"} : Goto(w, pc)
  PROVE  TidyStep
<1> DEFINE j == worker[w].job
           r == [row[j] EXCEPT !.lease = n]
<1>1. j \in Jobs
  BY DEF Tidy, Worker
<1>2. r \in Row /\ QuietRow(row[j], r)
  BY <1>1, LiveLeaseQuiet
<1>3. row' = [row EXCEPT ![j] = r]
  OBVIOUS
<1> HIDE DEF r
<1> QED
  BY <1>2, <1>3, OneWorkerQuiet

\* The first heartbeat, or a later one.
LEMMA StartTidy ==
  ASSUME Tidy, NEW w \in Workers, Start(w) \/ Heartbeat(w), PolicyAssumption
  PROVE  TidyStep
<1>1. worker[w].pc # "idle" /\ UNCHANGED claims /\ LeaseTicks \in Nat
      /\ "executing" \in Phases \ {"idle"}
  BY PolicyAssumption DEF Start, Heartbeat, Phases
<1>2. CASE Owns(w, worker[w].job)
  <2>1. row[worker[w].job].lease > 0
    BY <1>2 DEF Owns, LeaseLive
  <2>2. row' = [row EXCEPT ![worker[w].job].lease = LeaseTicks]
    BY <1>2 DEF Start, Heartbeat
  <2>3. UNCHANGED worker \/ \E pc \in Phases \ {"idle"} : Goto(w, pc)
    BY <1>1, <1>2 DEF Start, Heartbeat
  <2> QED
    BY <1>1, <2>1, <2>2, <2>3, RenewTidy
<1>3. CASE ~Owns(w, worker[w].job)
  BY <1>1, <1>3, MemoryTidy DEF Start, Heartbeat
<1> QED
  BY <1>2, <1>3

\* A refund, and a failure that is not the last one, leave room for an attempt.
LEMMA RoomLeft ==
  ASSUME NEW n \in Nat, PolicyAssumption
  PROVE  /\ Refunded(n) \in Nat
         /\ n <= MaxAttempts => Refunded(n) < MaxAttempts
         /\ ~(n >= MaxAttempts) => n < MaxAttempts
<1>1. MaxAttempts \in Nat /\ MaxAttempts > 0
  BY PolicyAssumption
<1> QED
  BY <1>1 DEF Refunded

\* What settles a job ends its claim or leaves the row alone.
LEMMA SettleTidy ==
  ASSUME Tidy, NEW w \in Workers, PolicyAssumption, \A n \in Nat : RetryDelay(n) \in Nat,
         Complete(w) \/ Reschedule(w) \/ Fail(w)
  PROVE  TidyStep
<1> DEFINE j == worker[w].job
<1>1. worker[w].pc # "idle" /\ j \in Jobs /\ Return(w) /\ UNCHANGED claims
  BY DEF Tidy, Worker, Complete, Reschedule, Fail
<1>a. row[j] \in Row /\ MaxAttempts \in Nat \ {0} /\ 0..MaxDelay \subseteq Nat
  BY <1>1, PolicyAssumption DEF Tidy
<1>b. row[j].attempts \in Nat /\ row[j].wait \in Nat /\ row[j].errored \in BOOLEAN
  BY <1>a DEF Row
<1>c. /\ {"pending", "succeeded", "dead", "failed"} \subseteq Status \ {"running", "absent"}
      /\ "succeeded" \notin Waiting /\ "dead" \notin Waiting
  BY DEF Status, Waiting, Terminal
<1>2. /\ row[j].attempts \in Nat /\ row[j].wait \in Nat /\ row[j].errored \in BOOLEAN
      /\ Refunded(row[j].attempts) \in Nat /\ 0..MaxDelay \subseteq Nat
      /\ "succeeded" \notin Waiting /\ "dead" \notin Waiting
  BY <1>a, <1>b, <1>c, RoomLeft
<1>3. ASSUME NEW st \in {"pending", "succeeded", "dead", "failed"}, NEW n \in Nat, NEW d \in Nat,
             NEW e \in BOOLEAN, st \in Waiting => n < MaxAttempts,
             row' = [row EXCEPT ![j] = Unclaimed(st, n, d, e)]
      PROVE  TidyStep
  <2> DEFINE r == Unclaimed(st, n, d, e)
  <2>1. r \in Row /\ QuietRow(row[j], r)
    BY <1>c, <1>3, UnclaimedQuiet
  <2>2. row' = [row EXCEPT ![j] = r]
    BY <1>3
  <2> HIDE DEF r
  <2> QED
    BY <1>1, <2>1, <2>2, OneWorkerQuiet
<1>4. CASE UNCHANGED row
  BY <1>1, <1>4, OneWorkerQuiet
<1>5. CASE Complete(w)
  <2>1. CASE Owns(w, j)
    BY <1>2, <1>3, <1>5, <2>1 DEF Complete, CompleteRow, Released
  <2> QED
    BY <1>4, <1>5, <2>1 DEF Complete, CompleteRow
<1>6. CASE Reschedule(w)
  <2>1. CASE ClaimIsCurrent(w)
    <3>1. PICK d \in 0..MaxDelay : row' = [row EXCEPT ![j] =
            Unclaimed("pending", Refunded(row[j].attempts), d, row[j].errored)]
      BY <1>6, <2>1 DEF Reschedule, RescheduleRow
    <3>2. row[j].attempts <= MaxAttempts
      BY <1>1, <2>1 DEF Tidy, ClaimIsCurrent, Owns
    <3>3. Refunded(row[j].attempts) < MaxAttempts
      BY <1>b, <3>2, RoomLeft
    <3> QED
      BY <1>2, <1>3, <3>1, <3>3
  <2> QED
    BY <1>4, <1>6, <2>1 DEF Reschedule, RescheduleRow
<1>7. CASE Fail(w)
  <2> DEFINE delay == RetryDelay(row[j].attempts)
  <2>0. delay \in Nat
    BY <1>2
  <2> HIDE DEF delay
  <2>f. FailRow(w, delay)
    BY <1>7 DEF Fail, delay
  <2>1. CASE Owns(w, j) /\ row[j].attempts >= MaxAttempts
    <3>1. row' = [row EXCEPT ![j] = Unclaimed("dead", row[j].attempts, 0, TRUE)]
      BY <2>1, <2>f DEF FailRow
    <3> QED
      BY <1>2, <1>3, <3>1
  <2>2. CASE Owns(w, j) /\ ~(row[j].attempts >= MaxAttempts)
    <3>1. row' = [row EXCEPT ![j] = Unclaimed("failed", row[j].attempts, delay, TRUE)]
      BY <2>2, <2>f DEF FailRow
    <3>2. row[j].attempts < MaxAttempts
      BY <1>b, <2>2, RoomLeft
    <3> QED
      BY <1>2, <1>3, <2>0, <3>1, <3>2
  <2>3. CASE ~Owns(w, j)
    BY <1>4, <2>f, <2>3 DEF FailRow
  <2> QED
    BY <2>1, <2>2, <2>3
<1> QED
  BY <1>5, <1>6, <1>7

\* The dead-letter sweep and time.
LEMMA ElapseTidy ==
  ASSUME Tidy, Tick \/ \E w \in Workers, j \in Jobs : DeadLetterExpired(w, j)
  PROVE  TidyStep
<1>1. CASE Tick
  <2>1. \A n \in Nat : Elapse(n) \in Nat /\ (Elapse(n) > 0 => n > 0)
    BY DEF Elapse
  <2>2. ASSUME NEW j \in Jobs
        PROVE  /\ row'[j] \in Row /\ row'[j].status = row[j].status
               /\ row'[j].claimedBy = row[j].claimedBy /\ row'[j].attempts = row[j].attempts
               /\ row'[j].lease > 0 => row[j].lease > 0
    BY <1>1, <2>1 DEF Tidy, Tick, Row
  <2>3. \A j \in Jobs : QuietRow(row[j], row'[j])
    BY <2>2 DEF Tidy, QuietRow
  <2>4. row' \in [Jobs -> Row]
    BY <1>1, <2>2 DEF Tick
  <2>5. Quiet
    BY <1>1, <2>3, <2>4 DEF Tidy, Quiet, QuietWorker, Tick
  <2> QED
    BY <2>5, QuietTidy
<1>2. ASSUME NEW w \in Workers, NEW j \in Jobs, DeadLetterExpired(w, j) PROVE TidyStep
  <2> DEFINE r == Unclaimed("dead", row[j].attempts, row[j].wait, TRUE)
  <2>1. /\ row[j].attempts \in Nat /\ row[j].wait \in Nat /\ TRUE \in BOOLEAN
        /\ "dead" \in Status \ {"running", "absent"} /\ "dead" \notin Waiting
    BY DEF Tidy, Row, Status, Terminal, Waiting
  <2>2. r \in Row /\ QuietRow(row[j], r)
    BY <2>1, UnclaimedQuiet
  <2>3. row' = [row EXCEPT ![j] = r] /\ UNCHANGED <<worker, claims>>
    BY <1>2 DEF DeadLetterExpired, Expired
  <2> HIDE DEF r
  <2> QED
    BY <2>2, <2>3, OneRowQuiet
<1> QED
  BY <1>1, <1>2

\* A claim takes the row from whoever had it.
LEMMA ClaimTidy ==
  ASSUME Tidy, NEW w \in Workers, NEW j \in Jobs, Claim(w, j), PolicyAssumption,
         WorkersAssumption
  PROVE  TidyStep
<1> DEFINE m == [pc |-> "claimed", job |-> j, attempt |-> row[j].attempts + 1,
                 token |-> claims[j] + 1]
           r == Claimed(w, j)
<1>0. row[j] \in Row /\ row[j].attempts \in Nat /\ MaxAttempts \in Nat /\ LeaseTicks \in Nat
  BY PolicyAssumption DEF Tidy, Row
<1>1. worker' = [worker EXCEPT ![w] = m] /\ row' = [row EXCEPT ![j] = r]
  BY DEF Claim
<1>2. /\ r \in Row /\ r.status = "running" /\ r.claimedBy = w
      /\ r.attempts = row[j].attempts + 1
  <2>1. "running" \in Status /\ row[j].attempts + 1 \in Nat
    BY <1>0 DEF Status
  <2>2. r = [row[j] EXCEPT !.status = "running", !.attempts = row[j].attempts + 1,
                           !.lease = LeaseTicks, !.claimedBy = w]
    BY DEF Claimed
  <2> HIDE DEF r
  <2> QED
    BY <1>0, <2>1, <2>2 DEF Row
<1>3. /\ m.pc = "claimed" /\ m.job = j /\ m.attempt = row[j].attempts + 1
      /\ worker[w].pc = "idle"
  BY DEF Claim
<1>4. m \in Worker /\ claims' \in [Jobs -> Nat]
  BY <1>0 DEF Tidy, Worker, Phases, Claim
<1>5. r.attempts <= MaxAttempts /\ "running" \notin Waiting /\ row[j].status # "absent"
  BY <1>0, <1>2 DEF Claim, Claimable, Tidy, Waiting
<1> HIDE DEF m, r
<1>6. ASSUME NEW v \in Workers, v # w
      PROVE  /\ worker'[v] = worker[v]
             /\ Holds(v)' => Holds(v)
             /\ worker[v].job # NoJob => row'[worker[v].job].status # "absent"
             /\ Holds(v)' => row'[worker[v].job].attempts = row[worker[v].job].attempts
  <2>1. worker'[v] = worker[v]
    BY <1>1, <1>6 DEF Tidy
  <2>2. CASE worker[v].job = j
    BY <1>1, <1>2, <1>6, <2>1, <2>2 DEF Tidy, Holds, Owns
  <2>3. CASE worker[v].job # j
    <3>1. worker[v].job \in Jobs => row'[worker[v].job] = row[worker[v].job]
      BY <1>1, <2>3 DEF Tidy
    <3>2. worker[v].job \in Jobs \cup {NoJob}
      BY DEF Tidy, Worker
    <3> QED
      BY <2>1, <3>1, <3>2 DEF Tidy, Holds, Owns, LeaseLive
  <2> QED
    BY <2>1, <2>2, <2>3
<1>7. worker'[w] = m /\ row'[j] = r
  BY <1>1 DEF Tidy
<1>8. NoneGains
  BY <1>3, <1>6, <1>7 DEF NoneGains
<1>9. row' \in [Jobs -> Row] /\ worker' \in [Workers -> Worker]
  BY <1>1, <1>2, <1>4 DEF Tidy
<1>10. ASSUME NEW v \in Workers
       PROVE  LET c == worker'[v].job IN
              /\ (worker'[v].pc = "idle") <=> (c = NoJob)
              /\ c # NoJob => row'[c].status # "absent"
              /\ Holds(v)' => row'[c].attempts = worker'[v].attempt
  <2>1. CASE v = w
    BY <1>2, <1>3, <1>7, <2>1, WorkersAssumption
  <2>2. CASE v # w
    BY <1>6, <2>2 DEF Tidy
  <2> QED
    BY <2>1, <2>2
<1>11. ASSUME NEW i \in Jobs
       PROVE  /\ row'[i].status \in Waiting => row'[i].attempts < MaxAttempts
              /\ row'[i].status = "running" => row'[i].attempts <= MaxAttempts
              /\ row[i].status # "absent" => row'[i].status # "absent"
  <2>1. CASE i = j
    BY <1>2, <1>5, <1>7, <2>1
  <2>2. CASE i # j
    BY <1>1, <2>2 DEF Tidy
  <2> QED
    BY <2>1, <2>2
<1> QED
  BY <1>4, <1>8, <1>9, <1>10, <1>11 DEF Tidy, TidyStep, NoneForgotten

\* The empty queue.
LEMMA InitTidy ==
  ASSUME Init, PolicyAssumption
  PROVE  Tidy
<1>1. /\ Fresh("absent", 0) \in Row /\ Fresh("absent", 0).status = "absent"
      /\ Idle \in Worker /\ Idle.pc = "idle" /\ Idle.job = NoJob
  BY DEF Fresh, Unclaimed, Row, Status, Idle, Worker, Phases
<1> QED
  BY <1>1 DEF Init, Tidy, Holds, Waiting

=============================================================================
