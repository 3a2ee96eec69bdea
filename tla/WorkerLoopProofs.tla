-------------------------- MODULE WorkerLoopProofs --------------------------
(* What holds of WorkerLoop for any jobs, workers, lanes, policy, intervals and *)
(* number of faults: a slot of a periodic kind is enqueued once, and a worker   *)
(* that waits has missed no notification.                                       *)
EXTENDS WorkerLoop, FiniteSetTheorems, TLAPS

QP == INSTANCE JobQueueProofs WITH UnknownKind <- {}, NeverPruneDead <- {}

-----------------------------------------------------------------------------
(* Types *)

\* A worker at a job has one.
Busy(w) == At(w, "job") => worker[w].job \in Jobs

Typed == TypeOK /\ \A w \in Workers : Busy(w)

Only(j) == \A k \in Jobs : k # j => row'[k] = row[k]

\* A step that writes one row, if any, with a row.
Writes(j) == row' \in [Jobs -> Queue!Row] /\ Only(j)

LEMMA QueuePolicy == \A n \in Nat : Queue!RetryDelay(n) \in Nat
<1>1. QP!PolicyAssumption /\ QP!WorkersAssumption /\ QP!LaneAssumption
  BY LoopAssumption DEF QP!PolicyAssumption, QP!WorkersAssumption, QP!LaneAssumption
<1>2. \A n \in Nat : QP!RetryDelay(n) \in Nat
  BY <1>1, QP!RetryDelayType
<1> QED
  BY <1>2 DEF QP!RetryDelay, Queue!RetryDelay

LEMMA OneRowWritten ==
  ASSUME row \in [Jobs -> Queue!Row], NEW j \in Jobs, NEW r \in Queue!Row,
         row' = [row EXCEPT ![j] = r]
  PROVE  Writes(j) /\ row'[j] = r
BY DEF Writes, Only

LEMMA UnclaimedIsRow ==
  ASSUME NEW status \in Queue!Status, NEW n \in Nat, NEW d \in Nat, NEW e \in BOOLEAN
  PROVE  /\ Queue!Unclaimed(status, n, d, e) \in Queue!Row
         /\ Queue!Unclaimed(status, n, d, e).status = status
BY DEF Queue!Unclaimed, Queue!Row

\* A step that writes that row, with one of these statuses.
Written(j, statuses) == Writes(j) /\ row'[j].status \in statuses

LEMMA UnclaimedWritten ==
  ASSUME row \in [Jobs -> Queue!Row], NEW j \in Jobs, NEW status \in Queue!Status,
         NEW n \in Nat, NEW d \in Nat, NEW e \in BOOLEAN,
         row' = [row EXCEPT ![j] = Queue!Unclaimed(status, n, d, e)]
  PROVE  Written(j, {status})
<1> DEFINE r == Queue!Unclaimed(status, n, d, e)
<1>1. r \in Queue!Row /\ r.status = status
  BY UnclaimedIsRow
<1> HIDE DEF r
<1>2. row' = [row EXCEPT ![j] = r]
  BY DEF r
<1> QED
  BY <1>1, <1>2, OneRowWritten DEF Written

\* The statements of callers.
LEMMA CallerWrites ==
  ASSUME Queue!TypeOK, NEW j \in Jobs
  PROVE  /\ Queue!Enqueue(j) => Written(j, {"pending"})
         /\ Queue!Promote(j) \/ Queue!UpdateUnclaimed(j) => Written(j, {"pending", "failed"})
         /\ Queue!Prune(j) => Written(j, {"deleted"})
         /\ row' = [row EXCEPT ![j] = Queue!Fresh("pending", 0)] => Written(j, {"pending"})
<1>0. /\ row \in [Jobs -> Queue!Row] /\ row[j] \in Queue!Row
      /\ {"pending", "deleted"} \subseteq Queue!Status /\ 0 \in Nat /\ FALSE \in BOOLEAN
  BY DEF Queue!TypeOK, Queue!Status, Queue!Waiting
<1>1. \A d \in Nat : row' = [row EXCEPT ![j] = Queue!Fresh("pending", d)] => Written(j, {"pending"})
  BY <1>0, UnclaimedWritten DEF Queue!Fresh
<1>d. 0..MaxDelay \subseteq Nat
  BY LoopAssumption
<1>2. Queue!Enqueue(j) => Written(j, {"pending"})
  BY <1>1, <1>d DEF Queue!Enqueue
<1>3. Queue!Prune(j) => Written(j, {"deleted"})
  BY <1>0, UnclaimedWritten DEF Queue!Prune, Queue!Fresh
<1>4. ASSUME Queue!Promote(j) \/ Queue!UpdateUnclaimed(j)
      PROVE  Written(j, {"pending", "failed"})
  <2>1. PICK d \in Nat : row' = [row EXCEPT ![j].wait = d]
    BY <1>4, <1>d DEF Queue!Promote, Queue!UpdateUnclaimed
  <2> DEFINE r == [row[j] EXCEPT !.wait = d]
  <2>2. r \in Queue!Row /\ r.status = row[j].status
    BY <1>0 DEF Queue!Row
  <2>3. row' = [row EXCEPT ![j] = r]
    BY <2>1
  <2> HIDE DEF r
  <2>4. row[j].status \in {"pending", "failed"}
    BY <1>4 DEF Queue!Promote, Queue!UpdateUnclaimed, Queue!Waiting
  <2> QED
    BY <1>0, <2>2, <2>3, <2>4, OneRowWritten DEF Written
<1> QED
  BY <1>1, <1>2, <1>3, <1>4, <1>0

\* The statements of a worker that looks for a job.
LEMMA TakerWrites ==
  ASSUME Queue!TypeOK, NEW w \in Workers, NEW j \in Jobs
  PROVE  /\ Queue!DeadLetterExpired(w, j) => Written(j, {"dead"}) /\ Queue!TypeOK'
         /\ Queue!Claim(w, j) =>
              /\ Written(j, {"running"}) /\ Queue!TypeOK' /\ worker'[w].job = j
              /\ \A v \in Workers : v # w => worker'[v] = worker[v]
<1>0. /\ row \in [Jobs -> Queue!Row] /\ row[j] \in Queue!Row
      /\ row[j].attempts \in Nat /\ row[j].wait \in Nat
      /\ {"dead", "running"} \subseteq Queue!Status /\ TRUE \in BOOLEAN
      /\ worker \in [Workers -> Queue!Worker]
      /\ claims \in [Jobs -> Nat] /\ spent \in [Jobs -> Nat]
  BY DEF Queue!TypeOK, Queue!Status, Queue!Terminal, Queue!Row
<1>1. ASSUME Queue!DeadLetterExpired(w, j)
      PROVE  Written(j, {"dead"}) /\ Queue!TypeOK'
  <2>1. Written(j, {"dead"})
    BY <1>0, <1>1, UnclaimedWritten DEF Queue!DeadLetterExpired, Queue!Expired
  <2>2. UNCHANGED <<worker, claims>> /\ spent' \in [Jobs -> Nat]
    BY <1>0, <1>1 DEF Queue!DeadLetterExpired
  <2> QED
    BY <1>0, <2>1, <2>2 DEF Written, Writes, Queue!TypeOK
<1>2. ASSUME Queue!Claim(w, j)
      PROVE  /\ Written(j, {"running"}) /\ Queue!TypeOK' /\ worker'[w].job = j
             /\ \A v \in Workers : v # w => worker'[v] = worker[v]
  <2> DEFINE r == Queue!Claimed(w, j)
  <2>1. r \in Queue!Row /\ r.status = "running"
    <3>1. LeaseTicks \in Nat /\ row[j].attempts + 1 \in Nat
      BY <1>0, LoopAssumption
    <3> QED
      BY <1>0, <3>1 DEF Queue!Claimed, Queue!Row
  <2>2. row' = [row EXCEPT ![j] = r]
    BY <1>2 DEF Queue!Claim
  <2> HIDE DEF r
  <2>3. Written(j, {"running"})
    BY <1>0, <2>1, <2>2, OneRowWritten DEF Written
  <2>4. claims' \in [Jobs -> Nat] /\ spent' \in [Jobs -> Nat]
    BY <1>0, <1>2 DEF Queue!Claim
  <2> DEFINE m == [pc |-> "claimed", job |-> j, attempt |-> row[j].attempts + 1,
                   token |-> claims[j] + 1]
  <2>5. m \in Queue!Worker /\ m.job = j
    BY <1>0 DEF Queue!Worker, Queue!Phases
  <2>6. worker' = [worker EXCEPT ![w] = m]
    BY <1>2 DEF Queue!Claim
  <2> HIDE DEF m
  <2> QED
    BY <1>0, <2>3, <2>4, <2>5, <2>6 DEF Written, Writes, Queue!TypeOK
<1> QED
  BY <1>1, <1>2

\* A row that is there, for all that a worker knows.
Lasting == {"pending", "failed", "running", "succeeded", "dead"}

\* The statements that settle a job write its row, or none.
LEMMA SettleWrites ==
  ASSUME Queue!TypeOK, NEW w \in Workers, worker[w].job \in Jobs
  PROVE  /\ Queue!CompleteRow(w) \/ Queue!RescheduleRow(w) =>
              UNCHANGED row \/ Written(worker[w].job, Lasting)
         /\ Queue!FailRow(w, Queue!RetryDelay(row[worker[w].job].attempts)) =>
              /\ UNCHANGED row \/ Written(worker[w].job, Lasting)
              /\ spent' \in [Jobs -> Nat]
<1>1. PICK j \in Jobs : j = worker[w].job
  OBVIOUS
<1>0. /\ row \in [Jobs -> Queue!Row] /\ row[j] \in Queue!Row
      /\ row[j].attempts \in Nat /\ row[j].wait \in Nat /\ row[j].errored \in BOOLEAN
      /\ {"succeeded", "pending", "failed", "dead"} \subseteq Queue!Status
      /\ 0 \in Nat /\ TRUE \in BOOLEAN
      /\ spent \in [Jobs -> Nat]
  BY DEF Queue!TypeOK, Queue!Status, Queue!Terminal, Queue!Waiting, Queue!Row
<1>2. \A status \in {"succeeded", "pending", "failed", "dead"}, n \in Nat, d \in Nat, e \in BOOLEAN :
        row' = [row EXCEPT ![j] = Queue!Unclaimed(status, n, d, e)] => Written(j, Lasting)
  <2> SUFFICES ASSUME NEW status \in {"succeeded", "pending", "failed", "dead"}, NEW n \in Nat,
                      NEW d \in Nat, NEW e \in BOOLEAN,
                      row' = [row EXCEPT ![j] = Queue!Unclaimed(status, n, d, e)]
               PROVE  Written(j, Lasting)
    OBVIOUS
  <2>1. Written(j, {status})
    BY <1>0, UnclaimedWritten
  <2> QED
    BY <2>1 DEF Written, Lasting
<1>3. ASSUME Queue!CompleteRow(w)
      PROVE  UNCHANGED row \/ Written(j, Lasting)
  BY <1>0, <1>1, <1>2, <1>3 DEF Queue!CompleteRow, Queue!Released
<1>4. ASSUME Queue!RescheduleRow(w)
      PROVE  UNCHANGED row \/ Written(j, Lasting)
  <2>1. CASE Queue!ClaimIsCurrent(w)
    <3>1. Queue!Refunded(row[j].attempts) \in Nat
      BY <1>0 DEF Queue!Refunded
    <3>2. PICK d \in Nat : row' = [row EXCEPT ![j] =
             Queue!Unclaimed("pending", Queue!Refunded(row[j].attempts), d, row[j].errored)]
      BY <1>1, <1>4, <2>1, LoopAssumption DEF Queue!RescheduleRow
    <3> QED
      BY <1>0, <1>2, <3>1, <3>2
  <2> QED
    BY <1>4, <2>1 DEF Queue!RescheduleRow
<1>5. ASSUME Queue!FailRow(w, Queue!RetryDelay(row[j].attempts))
      PROVE  (UNCHANGED row \/ Written(j, Lasting)) /\ spent' \in [Jobs -> Nat]
  <2>1. CASE Queue!Owns(w, j)
    <3> DEFINE d == Queue!RetryDelay(row[j].attempts)
               st == IF row[j].attempts >= MaxAttempts THEN "dead" ELSE "failed"
               t == IF row[j].attempts >= MaxAttempts THEN 0 ELSE d
    <3>1. d \in Nat
      BY <1>0, QueuePolicy
    <3>2. row' = [row EXCEPT ![j] = Queue!Unclaimed(st, row[j].attempts, t, TRUE)]
      BY <1>1, <1>5, <2>1 DEF Queue!FailRow
    <3>3. spent' = [spent EXCEPT ![j] = @ + 1]
      BY <1>1, <1>5, <2>1 DEF Queue!FailRow
    <3> HIDE DEF d
    <3>4. st \in {"succeeded", "pending", "failed", "dead"} /\ t \in Nat
      BY <3>1
    <3> HIDE DEF st, t
    <3>5. Written(j, Lasting)
      BY <1>0, <1>2, <3>2, <3>4
    <3>6. spent' \in [Jobs -> Nat]
      BY <1>0, <3>3
    <3> QED
      BY <3>5, <3>6
  <2>2. CASE ~Queue!Owns(w, j)
    BY <1>0, <1>1, <1>5, <2>2 DEF Queue!FailRow
  <2> QED
    BY <2>1, <2>2
<1> QED
  BY <1>1, <1>3, <1>4, <1>5

LEMMA ReturnTypes ==
  ASSUME Queue!TypeOK, NEW w \in Workers, Queue!Return(w)
  PROVE  /\ worker' \in [Workers -> Queue!Worker]
         /\ \A v \in Workers : v # w => worker'[v] = worker[v]
<1>1. Queue!Idle \in Queue!Worker
  BY DEF Queue!Idle, Queue!Worker, Queue!Phases
<1> QED
  BY <1>1 DEF Queue!TypeOK, Queue!Return

LEMMA TickWrites ==
  ASSUME Queue!TypeOK, Queue!Tick
  PROVE  /\ Queue!TypeOK'
         /\ \A j \in Jobs : /\ row'[j].status = row[j].status
                            /\ row'[j].lease = Queue!Elapse(row[j].lease)
                            /\ row'[j].wait = Queue!Elapse(row[j].wait)
<1>1. ASSUME NEW j \in Jobs
      PROVE  /\ row'[j] \in Queue!Row /\ row'[j].status = row[j].status
             /\ row'[j].lease = Queue!Elapse(row[j].lease)
             /\ row'[j].wait = Queue!Elapse(row[j].wait)
  <2> DEFINE l == Queue!Elapse(row[j].lease)
             d == Queue!Elapse(row[j].wait)
  <2>1. row[j] \in Queue!Row /\ row'[j] = [row[j] EXCEPT !.lease = l, !.wait = d]
    BY DEF Queue!TypeOK, Queue!Tick
  <2>2. l \in Nat /\ d \in Nat
    BY <2>1 DEF Queue!Elapse, Queue!Row
  <2> HIDE DEF l, d
  <2>3. /\ row'[j] \in Queue!Row /\ row'[j].status = row[j].status
        /\ row'[j].lease = l /\ row'[j].wait = d
    BY <2>1, <2>2 DEF Queue!Row
  <2> QED
    BY <2>3 DEF l, d
<1>2. row' = [j \in Jobs |-> row'[j]] /\ UNCHANGED <<worker, claims, spent>>
  BY DEF Queue!Tick
<1>3. row' \in [Jobs -> Queue!Row]
  BY <1>1, <1>2
<1> QED
  BY <1>1, <1>2, <1>3 DEF Queue!TypeOK

-----------------------------------------------------------------------------
(* What a step does to the loops, and what the loops hear of it *)

\* No pass of the scheduler begins.
NoNewPass ==
  \A v \in Workers : loop'[v].at = "pass" =>
    loop[v].at = "pass" /\ loop'[v].slot = loop[v].slot /\ loop'[v].known = loop[v].known

\* Nobody begins to wait, or goes on waiting without what it has heard.
NoNewWait ==
  \A v \in Workers : loop'[v].at = "wait" /\ ~loop'[v].note =>
    loop[v].at = "wait" /\ ~loop[v].note /\ loop'[v].left = loop[v].left

\* No row goes away.
RowsLast ==
  \A j \in Jobs : row'[j].status \in {"absent", "deleted"} => row[j].status \in {"absent", "deleted"}

\* Who still waits has not been told of a change, or the change was quiet.
RowsHeard ==
  \A v \in Workers : loop'[v].at = "wait" /\ ~loop'[v].note =>
    \A j \in Allowed[v] : \/ j \in quiet'
                          \/ j \notin quiet /\ row'[j] = row[j]
                          \/ row'[j].status = "deleted"

Plain == Typed' /\ NoNewPass /\ NoNewWait /\ RowsLast /\ RowsHeard

\* f is loop, but for what w holds.
Own(w, f) == f \in [Workers -> Loop] /\ \A v \in Workers : v # w => f[v] = loop[v]

\* A set of numbers that is not empty has a least one.
LEMMA Least ==
  ASSUME NEW T, T \subseteq Nat, T # {}
  PROVE  \E m \in T : \A k \in T : m <= k
<1> DEFINE R == StrictSubsetOrdering(Nat)
           S == {1..n : n \in T}
<1>1. IsWellFoundedOn(R, FiniteSubsetsOf(Nat))
  BY FS_StrictSubsetOrderingWellFounded
<1>2. S \subseteq FiniteSubsetsOf(Nat) /\ S # {}
  <2>1. ASSUME NEW n \in T PROVE 1..n \in FiniteSubsetsOf(Nat)
    <3>1. n \in Int /\ 1 \in Int /\ 1..n \subseteq Nat
      OBVIOUS
    <3>2. IsFiniteSet(1..n)
      BY <3>1, FS_Interval
    <3> QED
      BY <3>1, <3>2 DEF FiniteSubsetsOf
  <2> QED
    BY <2>1
<1>3. PICK s \in S : \A r \in S : <<r, s>> \notin R
  <2> HIDE DEF R, S
  <2> QED
    BY <1>1, <1>2, WFMin
<1>4. PICK m \in T : s = 1..m
  OBVIOUS
<1>5. ASSUME NEW k \in T, k < m PROVE FALSE
  <2>1. /\ 1..k \subseteq 1..m /\ m \in 1..m /\ m \notin 1..k
        /\ 1..k \in SUBSET Nat /\ 1..m \in SUBSET Nat
    BY <1>5
  <2>2. <<1..k, 1..m>> \in R
    BY <2>1 DEF StrictSubsetOrdering
  <2> QED
    BY <1>3, <1>4, <2>2
<1> QED
  BY <1>5

LEMMA MinIs ==
  ASSUME NEW S, S \subseteq Nat, S # {}
  PROVE  Min(S) \in S /\ \A x \in S : Min(S) <= x
<1>1. \E n \in S : \A x \in S : n <= x
  BY Least
<1> QED
  BY <1>1 DEF Min

LEMMA OwnLoop ==
  ASSUME Typed, NEW w \in Workers, NEW l \in Loop
  PROVE  Own(w, [loop EXCEPT ![w] = l]) /\ [loop EXCEPT ![w] = l][w] = l
BY DEF Typed, TypeOK, Own

LEMMA LoopFields ==
  ASSUME Typed, NEW w \in Workers
  PROVE  /\ loop[w] \in Loop /\ loop[w].left \in 0..MaxIdle /\ loop[w].idle \in 1..MaxIdle
         /\ loop[w].next \in 0..(1 + Interval) /\ loop[w].slot \in 0..MaxSlot
         /\ MaxIdle \in Nat /\ MaxSlot \in Nat /\ Interval \in Nat /\ MaxFaults \in Nat
         /\ 1 \in 1..MaxIdle /\ 1 \in 0..MaxIdle /\ 0 \in 0..MaxIdle /\ 0 \in 0..MaxSlot
         /\ Interval \in 0..(1 + Interval) /\ 1 + Interval \in 0..(1 + Interval)
         /\ {"top", "pass", "run", "job", "listen", "look", "wait", "sleep"} = Points
BY LoopAssumption DEF Typed, TypeOK, Loop, Points

\* What the loops become.
LEMMA LoopMoves ==
  ASSUME Typed, NEW w \in Workers
  PROVE  /\ \A point \in Points : Own(w, Go(w, point)) /\ Go(w, point)[w].at = point
         /\ Own(w, PassDone(w)) /\ PassDone(w)[w].at = "run"
         /\ Own(w, PassLost(w)) /\ PassLost(w)[w].at = "sleep"
         /\ Own(w, Settled(w)) /\ Settled(w)[w].at = "top"
         /\ Own(w, Woken(w)) /\ Woken(w)[w].at = "top"
         /\ Own(w, [BacksOff(w) EXCEPT ![w].idle = 1])
         /\ [BacksOff(w) EXCEPT ![w].idle = 1][w].at = "sleep"
         /\ Own(w, [loop EXCEPT ![w] = Started]) /\ [loop EXCEPT ![w] = Started][w].at = "top"
<1>0. loop \in [Workers -> Loop]
  BY DEF Typed, TypeOK
<1>1. ASSUME NEW point \in Points
      PROVE  Own(w, Go(w, point)) /\ Go(w, point)[w].at = point
  <2> DEFINE l == [loop[w] EXCEPT !.at = point]
  <2>1. l \in Loop /\ l.at = point
    BY LoopFields DEF Loop
  <2>2. Go(w, point) = [loop EXCEPT ![w] = l]
    BY DEF Go
  <2> HIDE DEF l
  <2> QED
    BY <2>1, <2>2, OwnLoop
<1>2. Own(w, PassDone(w)) /\ PassDone(w)[w].at = "run"
  <2> DEFINE l == [[[[loop[w] EXCEPT !.at = "run"] EXCEPT !.slot = 0] EXCEPT !.known = FALSE]
                   EXCEPT !.next = Interval]
  <2>1. l \in Loop /\ l.at = "run"
    BY LoopFields DEF Loop
  <2>2. PassDone(w) = [loop EXCEPT ![w] = l]
    BY <1>0 DEF PassDone, PassOver, Go
  <2> HIDE DEF l
  <2> QED
    BY <2>1, <2>2, OwnLoop
<1>3. Own(w, PassLost(w)) /\ PassLost(w)[w].at = "sleep"
  <2> DEFINE l == [[[[[loop[w] EXCEPT !.at = "sleep"] EXCEPT !.left = 1] EXCEPT !.slot = 0]
                    EXCEPT !.known = FALSE] EXCEPT !.next = 1 + Interval]
  <2>1. l \in Loop /\ l.at = "sleep"
    BY LoopFields DEF Loop
  <2>2. PassLost(w) = [loop EXCEPT ![w] = l]
    BY <1>0 DEF PassLost, PassOver, BacksOff
  <2> HIDE DEF l
  <2> QED
    BY <2>1, <2>2, OwnLoop
<1>4. Own(w, Settled(w)) /\ Settled(w)[w].at = "top"
  <2> DEFINE l == [[loop[w] EXCEPT !.at = "top"] EXCEPT !.idle = 1]
  <2>1. l \in Loop /\ l.at = "top"
    BY LoopFields DEF Loop
  <2>2. Settled(w) = [loop EXCEPT ![w] = l]
    BY <1>0 DEF Settled
  <2> HIDE DEF l
  <2> QED
    BY <2>1, <2>2, OwnLoop
<1>5. Own(w, Woken(w)) /\ Woken(w)[w].at = "top"
  <2> DEFINE n == Doubled(loop[w].idle)
             l == [[[[loop[w] EXCEPT !.at = "top"] EXCEPT !.left = 0] EXCEPT !.note = FALSE]
                   EXCEPT !.idle = n]
  <2>0. n \in 1..MaxIdle
    <3> DEFINE S == {2 * loop[w].idle, MaxIdle}
    <3>1. S \subseteq Nat /\ S # {} /\ \A x \in S : x >= 1
      BY LoopFields
    <3>2. Min(S) \in S /\ \A x \in S : Min(S) <= x
      <4> HIDE DEF S
      <4> QED
        BY <3>1, MinIs
    <3>3. n = Min(S)
      BY DEF Doubled
    <3> QED
      BY <3>1, <3>2, <3>3, LoopFields
  <2> HIDE DEF n
  <2>1. l \in Loop /\ l.at = "top"
    BY <2>0, LoopFields DEF Loop
  <2>2. Woken(w) = [loop EXCEPT ![w] = l]
    BY <1>0 DEF Woken, n
  <2> HIDE DEF l
  <2> QED
    BY <2>1, <2>2, OwnLoop
<1>6. /\ Own(w, [BacksOff(w) EXCEPT ![w].idle = 1])
      /\ [BacksOff(w) EXCEPT ![w].idle = 1][w].at = "sleep"
  <2> DEFINE l == [[[loop[w] EXCEPT !.at = "sleep"] EXCEPT !.left = 1] EXCEPT !.idle = 1]
  <2>1. l \in Loop /\ l.at = "sleep"
    BY LoopFields DEF Loop
  <2>2. [BacksOff(w) EXCEPT ![w].idle = 1] = [loop EXCEPT ![w] = l]
    BY <1>0 DEF BacksOff
  <2> HIDE DEF l
  <2> QED
    BY <2>1, <2>2, OwnLoop
<1>7. Own(w, [loop EXCEPT ![w] = Started]) /\ [loop EXCEPT ![w] = Started][w].at = "top"
  <2>1. Started \in Loop /\ Started.at = "top"
    BY LoopFields DEF Started, Loop
  <2> QED
    BY <2>1, OwnLoop
<1> QED
  BY <1>1, <1>2, <1>3, <1>4, <1>5, <1>6, <1>7

\* A notification goes to those who listen.
LEMMA NotifyEffect ==
  ASSUME Typed, NEW f, f \in [Workers -> Loop], NEW j \in Jobs, Notify(f, j)
  PROVE  /\ loop' \in [Workers -> Loop] /\ quiet' \subseteq Jobs
         /\ \A v \in Workers :
              /\ loop'[v].at = f[v].at /\ loop'[v].slot = f[v].slot
              /\ loop'[v].known = f[v].known /\ loop'[v].left = f[v].left
              /\ ~loop'[v].note => ~f[v].note /\ ~(f[v].at = "wait" /\ j \in Allowed[v])
<1>1. ASSUME NEW v \in Workers
      PROVE  /\ loop'[v] \in Loop /\ loop'[v].at = f[v].at /\ loop'[v].slot = f[v].slot
             /\ loop'[v].known = f[v].known /\ loop'[v].left = f[v].left
             /\ ~loop'[v].note => ~f[v].note /\ ~(f[v].at = "wait" /\ j \in Allowed[v])
  <2>1. f[v] \in Loop
    OBVIOUS
  <2>2. loop'[v] = IF Listens(f[v]) /\ j \in Allowed[v] THEN [f[v] EXCEPT !.note = TRUE] ELSE f[v]
    BY DEF Notify
  <2>3. CASE Listens(f[v]) /\ j \in Allowed[v]
    BY <2>1, <2>2, <2>3 DEF Loop
  <2>4. CASE ~(Listens(f[v]) /\ j \in Allowed[v])
    BY <2>1, <2>2, <2>4 DEF Listens
  <2> QED
    BY <2>3, <2>4
<1>2. loop' \in [Workers -> Loop]
  <2>1. loop' = [v \in Workers |-> loop'[v]]
    BY DEF Notify
  <2> QED
    BY <1>1, <2>1
<1>3. quiet' \subseteq Jobs
  BY DEF Notify, Typed, TypeOK
<1> QED
  BY <1>1, <1>2, <1>3

LEMMA QuietEffect ==
  ASSUME Typed, NEW j \in Jobs, Quietly(j)
  PROVE  quiet' \subseteq Jobs /\ quiet \subseteq quiet' /\ (row'[j] = row[j] \/ j \in quiet')
BY DEF Typed, TypeOK, Quietly

\* A step of one loop that says nothing.
LEMMA LoopStepsPlain ==
  ASSUME Typed, UNCHANGED <<queue, slot, key, made, quiet>>, faults' \in 0..MaxFaults,
         NEW w \in Workers, Own(w, loop'), loop'[w].at \notin {"job", "pass", "wait"}
  PROVE  Plain
<1>1. Queue!TypeOK'
  BY DEF queue, Typed, TypeOK, Queue!TypeOK
<1>2. TypeOK'
  BY <1>1 DEF Typed, TypeOK, Own
<1>3. \A v \in Workers : Busy(v)'
  BY DEF Typed, Busy, At, Own, queue
<1>4. NoNewPass /\ NoNewWait
  BY DEF NoNewPass, NoNewWait, Own
<1>5. RowsLast /\ RowsHeard
  BY DEF RowsLast, RowsHeard, queue
<1> QED
  BY <1>2, <1>3, <1>4, <1>5 DEF Plain, Typed

\* What else a step must leave typed.
Rest ==
  /\ Queue!TypeOK'
  /\ slot' \in 1..(1 + MaxSlot)
  /\ key' \in [Periodic -> 0..MaxSlot]
  /\ made' \in [1..MaxSlot -> Nat]
  /\ faults' \in 0..MaxFaults
  /\ \A v \in Workers : Busy(v)'

\* A step that writes a row and NOTIFYs.
LEMMA NotifyPlain ==
  ASSUME Typed, NEW f, f \in [Workers -> Loop], NEW j \in Jobs, Notify(f, j),
         Written(j, Lasting), Rest,
         \A v \in Workers : f[v] = loop[v] \/ f[v].at \notin {"pass", "wait"}
  PROVE  Plain
<1>1. /\ loop' \in [Workers -> Loop] /\ quiet' \subseteq Jobs
      /\ \A v \in Workers :
              /\ loop'[v].at = f[v].at /\ loop'[v].slot = f[v].slot
              /\ loop'[v].known = f[v].known /\ loop'[v].left = f[v].left
              /\ ~loop'[v].note => ~f[v].note /\ ~(f[v].at = "wait" /\ j \in Allowed[v])
  BY NotifyEffect
<1>2. Typed'
  BY <1>1 DEF Typed, TypeOK, Rest
<1>3. NoNewPass /\ NoNewWait
  BY <1>1 DEF NoNewPass, NoNewWait
<1>4. RowsLast
  BY DEF RowsLast, Written, Writes, Only, Lasting
<1>5. RowsHeard
  <2> SUFFICES ASSUME NEW v \in Workers, loop'[v].at = "wait", ~loop'[v].note,
                      NEW k \in Allowed[v], k \notin quiet'
               PROVE  k \notin quiet /\ row'[k] = row[k]
    BY DEF RowsHeard
  <2>1. k # j
    BY <1>1
  <2>2. k \in Jobs
    BY LoopAssumption
  <2>3. row'[k] = row[k]
    BY <2>1, <2>2 DEF Written, Writes, Only
  <2>4. quiet' = quiet \ {j}
    BY DEF Notify
  <2> QED
    BY <2>1, <2>3, <2>4
<1> QED
  BY <1>2, <1>3, <1>4, <1>5 DEF Plain

\* A step that writes a row, if any, and does not.
LEMMA QuietPlain ==
  ASSUME Typed, NEW j \in Jobs, Quietly(j), UNCHANGED row \/ Written(j, Lasting), Rest,
         loop' \in [Workers -> Loop],
         \A v \in Workers : loop'[v] = loop[v] \/ loop'[v].at \notin {"pass", "wait"}
  PROVE  Plain
<1>1. quiet' \subseteq Jobs /\ quiet \subseteq quiet' /\ (row'[j] = row[j] \/ j \in quiet')
  BY QuietEffect
<1>2. Typed'
  BY <1>1 DEF Typed, TypeOK, Rest
<1>3. NoNewPass /\ NoNewWait
  BY DEF NoNewPass, NoNewWait
<1>4. RowsLast
  BY DEF RowsLast, Written, Writes, Only, Lasting
<1>5. RowsHeard
  <2> SUFFICES ASSUME NEW v \in Workers, NEW k \in Allowed[v], k \notin quiet'
               PROVE  k \notin quiet /\ row'[k] = row[k]
    BY DEF RowsHeard
  <2>1. k \in Jobs
    BY LoopAssumption
  <2> QED
    BY <1>1, <2>1 DEF Written, Writes, Only
<1> QED
  BY <1>2, <1>3, <1>4, <1>5 DEF Plain

-----------------------------------------------------------------------------
(* The steps, one after the other *)

LEMMA FaultType == ASSUME Typed PROVE Fault \/ UNCHANGED faults => faults' \in 0..MaxFaults
BY LoopAssumption DEF Typed, TypeOK, Fault

\* The rest of a step that leaves the workers and the slots alone.
LEMMA RestKept ==
  ASSUME Typed, Queue!TypeOK', UNCHANGED <<slot, key, made, faults>>,
         \A v \in Workers : loop'[v].at = "job" => worker'[v].job \in Jobs
  PROVE  Rest
BY DEF Typed, TypeOK, Rest, Busy, At

LEMMA RowsTyped ==
  ASSUME Typed, NEW j \in Jobs, Writes(j), UNCHANGED <<worker, claims, spent>>
  PROVE  Queue!TypeOK'
BY DEF Typed, TypeOK, Writes, Queue!TypeOK

\* What every step but a few is: Plain, and the slots are what they were.
Slots == UNCHANGED <<slot, key, made>>

LEMMA AskPlain ==
  ASSUME Typed, NEW j \in Jobs, Ask(j)
  PROVE  Plain /\ Slots
<1>1. Written(j, Lasting) /\ UNCHANGED <<worker, claims, spent>>
  <2>1. CASE Queue!Enqueue(j)
    BY <2>1, CallerWrites DEF Typed, TypeOK, Written, Lasting, Queue!Enqueue
  <2>2. CASE Queue!Promote(j)
    BY <2>2, CallerWrites DEF Typed, TypeOK, Written, Lasting, Queue!Promote
  <2> QED
    BY <2>1, <2>2 DEF Ask
<1>2. Queue!TypeOK'
  BY <1>1, RowsTyped DEF Written
<1>3. Notify(loop, j) /\ UNCHANGED <<slot, key, made, faults>> /\ loop \in [Workers -> Loop]
  BY DEF Ask, OnlyRows, Typed, TypeOK
<1>4. \A v \in Workers : loop'[v].at = "job" => worker'[v].job \in Jobs
  <2>1. \A v \in Workers : loop'[v].at = loop[v].at
    BY <1>3, NotifyEffect
  <2> QED
    BY <1>1, <2>1 DEF Typed, Busy, At
<1>5. Rest
  BY <1>2, <1>3, <1>4, RestKept
<1> QED
  BY <1>1, <1>3, <1>5, NotifyPlain DEF Slots

LEMMA PostponePlain ==
  ASSUME Typed, NEW j \in Jobs, Postpone(j)
  PROVE  Plain /\ Slots
<1>1. Written(j, Lasting) /\ UNCHANGED <<worker, claims, spent>>
  BY CallerWrites DEF Postpone, Typed, TypeOK, Written, Lasting, Queue!UpdateUnclaimed
<1>2. Queue!TypeOK'
  BY <1>1, RowsTyped DEF Written
<1>3. /\ Quietly(j) /\ UNCHANGED <<slot, key, made, faults>> /\ UNCHANGED loop
      /\ loop' \in [Workers -> Loop]
  BY DEF Postpone, OnlyRows, Typed, TypeOK
<1>4. Rest
  BY <1>1, <1>2, <1>3, RestKept DEF Typed, Busy, At
<1> QED
  BY <1>1, <1>3, <1>4, QuietPlain DEF Slots

LEMMA PruneEffect ==
  ASSUME Typed, NEW j \in Jobs, Prune(j)
  PROVE  /\ Typed' /\ NoNewPass /\ NoNewWait /\ RowsHeard
         /\ Only(j) /\ key' = [key EXCEPT ![j] = 0] /\ j \in Periodic
         /\ row'[j].status = "deleted" /\ ~Retained(j) /\ UNCHANGED <<loop, slot, made>>
<1>1. Written(j, {"deleted"}) /\ UNCHANGED <<worker, claims, spent>>
  BY CallerWrites DEF Prune, Typed, TypeOK, Queue!Prune
<1>2. Queue!TypeOK'
  BY <1>1, RowsTyped DEF Written
<1>3. /\ key' = [key EXCEPT ![j] = 0] /\ j \in Periodic /\ ~Retained(j)
      /\ UNCHANGED <<loop, slot, made, quiet, faults>>
  BY DEF Prune
<1>4. Typed'
  <2>1. key' \in [Periodic -> 0..MaxSlot]
    BY <1>3, LoopAssumption DEF Typed, TypeOK
  <2> QED
    BY <1>1, <1>2, <1>3, <2>1 DEF Typed, TypeOK, Busy, At
<1>5. RowsHeard
  <2> SUFFICES ASSUME NEW v \in Workers, NEW k \in Allowed[v], k \notin quiet',
                      row'[k].status # "deleted"
               PROVE  k \notin quiet /\ row'[k] = row[k]
    BY DEF RowsHeard
  <2>1. k \in Jobs
    BY LoopAssumption
  <2> QED
    BY <1>1, <1>3, <2>1 DEF Written, Writes, Only
<1>6. NoNewPass /\ NoNewWait
  BY <1>3 DEF NoNewPass, NoNewWait
<1> QED
  BY <1>1, <1>3, <1>4, <1>5, <1>6 DEF Written, Writes

LEMMA InsertPlain ==
  ASSUME Typed, NEW w \in Workers, NEW j \in Periodic, Insert(w, j), loop[w].slot \in 1..MaxSlot
  PROVE  Plain /\ loop'[w].at = "run"
<1>0. j \in Jobs
  BY LoopAssumption
<1>1. Written(j, Lasting)
  BY <1>0, CallerWrites DEF Insert, Typed, TypeOK, Written, Lasting
<1>2. Queue!TypeOK'
  BY <1>0, <1>1, RowsTyped DEF Written, Insert
<1>3. Own(w, PassDone(w)) /\ PassDone(w)[w].at = "run"
  BY LoopMoves
<1>4. PICK f : f = PassDone(w)
  OBVIOUS
<1>5. f \in [Workers -> Loop] /\ f[w].at = "run" /\ \A v \in Workers : v # w => f[v] = loop[v]
  BY <1>3, <1>4 DEF Own
<1>6. Notify(f, j) /\ UNCHANGED <<worker, slot, faults>>
  BY <1>4 DEF Insert
<1>7. \A v \in Workers : loop'[v].at = f[v].at
  BY <1>0, <1>5, <1>6, NotifyEffect
<1>8. \A v \in Workers : Busy(v)'
  BY <1>5, <1>6, <1>7 DEF Typed, Busy, At
<1>9. key' \in [Periodic -> 0..MaxSlot] /\ made' \in [1..MaxSlot -> Nat]
  <2> DEFINE s == loop[w].slot
  <2>1. s \in 0..MaxSlot /\ s \in 1..MaxSlot
    BY LoopAssumption
  <2>2. key' = [key EXCEPT ![j] = s] /\ made' = [made EXCEPT ![s] = @ + 1]
    BY DEF Insert
  <2> HIDE DEF s
  <2> QED
    BY <2>1, <2>2 DEF Typed, TypeOK
<1>10. Rest
  BY <1>2, <1>6, <1>8, <1>9 DEF Rest, Typed, TypeOK
<1>11. \A v \in Workers : f[v] = loop[v] \/ f[v].at \notin {"pass", "wait"}
  BY <1>5
<1> QED
  BY <1>0, <1>1, <1>5, <1>6, <1>7, <1>10, <1>11, NotifyPlain

\* A step of w alone that writes a row, if any, and does not NOTIFY.
LEMMA OwnQuietPlain ==
  ASSUME Typed, NEW w \in Workers, NEW j \in Jobs, Quietly(j),
         UNCHANGED row \/ Written(j, Lasting), Queue!TypeOK',
         UNCHANGED <<slot, key, made, faults>>,
         Own(w, loop'), loop'[w].at \notin {"pass", "wait"},
         \A v \in Workers : v # w => worker'[v] = worker[v],
         loop'[w].at = "job" => worker'[w].job \in Jobs
  PROVE  Plain /\ Slots
<1>1. \A v \in Workers : loop'[v].at = "job" => worker'[v].job \in Jobs
  BY DEF Own, Typed, Busy, At
<1>2. Rest
  BY <1>1, RestKept
<1>3. /\ loop' \in [Workers -> Loop]
      /\ \A v \in Workers : loop'[v] = loop[v] \/ loop'[v].at \notin {"pass", "wait"}
  BY DEF Own
<1> QED
  BY <1>2, <1>3, QuietPlain DEF Slots

LEMMA BuryPlain ==
  ASSUME Typed, NEW w \in Workers, NEW j \in Jobs, Bury(w, j)
  PROVE  Plain /\ Slots
<1>1. Written(j, Lasting) /\ Queue!TypeOK' /\ UNCHANGED worker
  BY TakerWrites DEF Bury, Typed, TypeOK, Written, Lasting, Queue!DeadLetterExpired
<1>2. Own(w, loop') /\ loop'[w].at = "top"
  BY LoopMoves DEF Bury
<1>3. Quietly(j) /\ UNCHANGED <<slot, key, made, faults>>
  BY DEF Bury, OnlyRows
<1> QED
  BY <1>1, <1>2, <1>3, OwnQuietPlain

LEMMA TakePlain ==
  ASSUME Typed, NEW w \in Workers, NEW j \in Jobs, Take(w, j)
  PROVE  Plain /\ Slots
<1>1. /\ Written(j, Lasting) /\ Queue!TypeOK' /\ worker'[w].job = j
      /\ \A v \in Workers : v # w => worker'[v] = worker[v]
  BY TakerWrites DEF Take, Typed, TypeOK, Written, Lasting
<1>2. Own(w, loop') /\ loop'[w].at = "job"
  BY LoopMoves DEF Take, Points
<1>3. Quietly(j) /\ UNCHANGED <<slot, key, made, faults>>
  BY DEF Take, OnlyRows
<1> QED
  BY <1>1, <1>2, <1>3, OwnQuietPlain

LEMMA SucceedPlain ==
  ASSUME Typed, NEW w \in Workers, Succeed(w)
  PROVE  Plain /\ Slots
<1>1. PICK j \in Jobs : j = worker[w].job
  BY DEF Succeed, Typed, Busy
<1>2. UNCHANGED row \/ Written(j, Lasting)
  BY <1>1, SettleWrites DEF Succeed, Typed, TypeOK
<1>3. /\ worker' \in [Workers -> Queue!Worker]
      /\ \A v \in Workers : v # w => worker'[v] = worker[v]
  BY ReturnTypes DEF Succeed, Typed, TypeOK
<1>4. Queue!TypeOK'
  BY <1>2, <1>3 DEF Succeed, Written, Writes, Typed, TypeOK, Queue!TypeOK
<1>5. Own(w, loop') /\ loop'[w].at = "top"
  BY LoopMoves DEF Succeed
<1>6. Quietly(j) /\ UNCHANGED <<slot, key, made, faults>>
  BY <1>1 DEF Succeed, OnlyRows
<1> QED
  BY <1>2, <1>3, <1>4, <1>5, <1>6, OwnQuietPlain

LEMMA FailPlain ==
  ASSUME Typed, NEW w \in Workers, Fail(w)
  PROVE  Plain /\ Slots
<1>1. PICK j \in Jobs : j = worker[w].job
  BY DEF Fail, Typed, Busy
<1>2. (UNCHANGED row \/ Written(j, Lasting)) /\ spent' \in [Jobs -> Nat]
  BY <1>1, SettleWrites DEF Fail, Typed, TypeOK
<1>3. /\ worker' \in [Workers -> Queue!Worker]
      /\ \A v \in Workers : v # w => worker'[v] = worker[v]
  BY ReturnTypes DEF Fail, Typed, TypeOK
<1>4. Queue!TypeOK'
  BY <1>2, <1>3 DEF Fail, Written, Writes, Typed, TypeOK, Queue!TypeOK
<1>5. PICK f : f = Settled(w)
  OBVIOUS
<1>6. Own(w, f) /\ f[w].at = "top"
  BY <1>5, LoopMoves
<1>7. UNCHANGED <<slot, key, made, faults>>
  BY DEF Fail, OnlyRows
<1>8. CASE row'[j].status = "failed" /\ row'[j] # row[j]
  <2>1. Notify(f, j) /\ Written(j, Lasting)
    BY <1>1, <1>2, <1>5, <1>8 DEF Fail
  <2>2. f \in [Workers -> Loop] /\ \A v \in Workers : f[v] = loop[v] \/ f[v].at \notin {"pass", "wait"}
    BY <1>6 DEF Own
  <2>3. \A v \in Workers : loop'[v].at = f[v].at
    BY <2>1, <2>2, NotifyEffect
  <2>4. \A v \in Workers : loop'[v].at = "job" => worker'[v].job \in Jobs
    BY <1>3, <1>6, <2>3 DEF Own, Typed, Busy, At
  <2>5. Rest
    BY <1>4, <1>7, <2>4, RestKept
  <2> QED
    BY <1>7, <2>1, <2>2, <2>5, NotifyPlain DEF Slots
<1>9. CASE ~(row'[j].status = "failed" /\ row'[j] # row[j])
  <2>1. loop' = f /\ Quietly(j)
    BY <1>1, <1>5, <1>9 DEF Fail
  <2>2. Own(w, loop') /\ loop'[w].at = "top"
    BY <1>6, <2>1 DEF Own
  <2> QED
    BY <1>2, <1>3, <1>4, <1>7, <2>1, <2>2, OwnQuietPlain
<1> QED
  BY <1>8, <1>9

LEMMA CrashPlain ==
  ASSUME Typed, NEW w \in Workers, Crash(w)
  PROVE  Plain /\ Slots
<1>1. /\ UNCHANGED <<row, claims, spent>> /\ worker' \in [Workers -> Queue!Worker]
      /\ \A v \in Workers : v # w => worker'[v] = worker[v]
  <2>1. CASE At(w, "job")
    BY <2>1, ReturnTypes DEF Crash, Queue!Crash, Typed, TypeOK
  <2>2. CASE ~At(w, "job")
    BY <2>2 DEF Crash, queue, Typed, TypeOK, Queue!TypeOK
  <2> QED
    BY <2>1, <2>2
<1>2. Queue!TypeOK'
  BY <1>1 DEF Typed, TypeOK, Queue!TypeOK
<1>3. Own(w, loop') /\ loop'[w].at = "top"
  BY LoopMoves DEF Crash
<1>4. UNCHANGED <<slot, key, made, quiet>> /\ faults' \in 0..MaxFaults
  BY FaultType DEF Crash
<1>5. TypeOK'
  BY <1>2, <1>3, <1>4 DEF Typed, TypeOK, Own
<1>6. \A v \in Workers : Busy(v)'
  BY <1>1, <1>3 DEF Typed, Busy, At, Own
<1>7. NoNewPass /\ NoNewWait
  BY <1>3 DEF NoNewPass, NoNewWait, Own
<1>8. RowsLast /\ RowsHeard
  BY <1>1, <1>4 DEF RowsLast, RowsHeard
<1> QED
  BY <1>4, <1>5, <1>6, <1>7, <1>8 DEF Plain, Typed, Slots

\* The steps of a loop between its statements.
LEMMA QuietStepsPlain ==
  ASSUME Typed, NEW w \in Workers,
         \/ Slotted(w) \/ PassFails(w) \/ RunFails(w)
         \/ Idle(w) \/ Listen(w) \/ Wake(w) \/ WaitFails(w) \/ Slept(w)
  PROVE  Plain /\ Slots
<1>0. Slots /\ UNCHANGED <<queue, slot, key, made, quiet>> /\ faults' \in 0..MaxFaults
  BY FaultType DEF Slotted, PassFails, RunFails, Idle, Listen, Wake, WaitFails, Slept, Slots
<1>m. ASSUME NEW f, loop' = f, Own(w, f), f[w].at \notin {"job", "pass", "wait"}
      PROVE  Plain /\ Slots
  BY <1>0, <1>m, LoopStepsPlain DEF Own
<1>1. CASE Slotted(w) \/ PassFails(w) \/ RunFails(w)
  <2>1. loop' = PassDone(w) \/ loop' = PassLost(w) \/ loop' = [BacksOff(w) EXCEPT ![w].idle = 1]
    BY <1>1 DEF Slotted, PassFails, RunFails
  <2> QED
    BY <1>m, <2>1, LoopMoves
<1>2. CASE Listen(w) \/ Wake(w) \/ Slept(w)
  <2>1. loop' = Go(w, "look") \/ loop' = Woken(w) \/ loop' = Go(w, "top")
    BY <1>2 DEF Listen, Wake, Slept
  <2> QED
    BY <1>m, <2>1, LoopMoves DEF Points
<1>3. CASE Idle(w)
  <2> DEFINE t == Min({loop[w].idle, loop[w].next})
  <2>1. t \in 0..MaxIdle
    <3> DEFINE S == {loop[w].idle, loop[w].next}
    <3>1. S \subseteq Nat /\ S # {} /\ loop[w].idle \in S /\ loop[w].idle <= MaxIdle
      BY LoopFields
    <3>2. Min(S) \in S /\ \A x \in S : Min(S) <= x
      <4> HIDE DEF S
      <4> QED
        BY <3>1, MinIs
    <3>3. Min(S) \in Nat /\ Min(S) <= MaxIdle
      <4>1. PICK i \in Nat : i = loop[w].idle /\ i <= MaxIdle /\ MaxIdle \in Nat
        BY LoopFields
      <4> HIDE DEF S
      <4>2. Min(S) \in Nat /\ Min(S) <= i
        BY <3>1, <3>2, <4>1
      <4> QED
        BY <4>1, <4>2
    <3> QED
      BY <3>3, LoopFields
  <2>2. loop' = IF t = 0 THEN Woken(w) ELSE [loop EXCEPT ![w].at = "listen", ![w].left = t]
    BY <1>3 DEF Idle
  <2> HIDE DEF t
  <2>3. CASE t = 0
    BY <1>0, <2>2, <2>3, LoopMoves, LoopStepsPlain
  <2>4. CASE t # 0
    <3> DEFINE l == [[loop[w] EXCEPT !.at = "listen"] EXCEPT !.left = t]
    <3>1. l \in Loop /\ l.at = "listen"
      BY <2>1, LoopFields DEF Loop
    <3>2. loop' = [loop EXCEPT ![w] = l]
      BY <2>2, <2>4 DEF Typed, TypeOK
    <3> HIDE DEF l
    <3> QED
      BY <1>0, <3>1, <3>2, OwnLoop, LoopStepsPlain
  <2> QED
    BY <2>3, <2>4
<1>4. CASE WaitFails(w)
  <2>1. PICK t \in 1..loop[w].idle :
          loop' = [loop EXCEPT ![w] = [Woken(w)[w] EXCEPT !.at = "sleep", !.left = t]]
    BY <1>4 DEF WaitFails
  <2>2. PICK m \in Loop : m = Woken(w)[w]
    <3>1. Own(w, Woken(w))
      BY LoopMoves
    <3> QED
      BY <3>1 DEF Own
  <2>3. t \in 0..MaxIdle
    BY LoopFields
  <2> DEFINE l == [m EXCEPT !.at = "sleep", !.left = t]
  <2>4. l \in Loop /\ l.at = "sleep"
    BY <2>3, LoopFields DEF Loop
  <2>5. loop' = [loop EXCEPT ![w] = l]
    BY <2>1, <2>2
  <2> HIDE DEF l
  <2> QED
    BY <1>0, <2>4, <2>5, OwnLoop, LoopStepsPlain
<1> QED
  BY <1>1, <1>2, <1>3, <1>4

\* Top begins a pass of the current slot, or none.
LEMMA TopEffect ==
  ASSUME Typed, NEW w \in Workers, Top(w)
  PROVE  /\ Slots /\ UNCHANGED <<queue, quiet>>
         /\ \/ Plain
            \/ /\ Typed' /\ NoNewWait /\ RowsHeard
               /\ slot \in 1..MaxSlot /\ Own(w, loop')
               /\ loop'[w].at = "pass" /\ loop'[w].slot = slot
               /\ loop'[w].known = Keyed(slot)
<1>0. Slots /\ UNCHANGED <<queue, slot, key, made, quiet, faults>> /\ faults' \in 0..MaxFaults
  BY FaultType DEF Top, Slots
<1>1. CASE loop[w].next > 0
  BY <1>0, <1>1, LoopMoves, LoopStepsPlain DEF Top, Points
<1>2. CASE ~(loop[w].next > 0) /\ (Periodic \cap Allowed[w] = {} \/ slot > MaxSlot)
  <2> DEFINE l == [[loop[w] EXCEPT !.at = "run"] EXCEPT !.next = Interval]
  <2>1. l \in Loop /\ l.at = "run"
    BY LoopFields DEF Loop
  <2>2. loop' = [loop EXCEPT ![w] = l]
    BY <1>2 DEF Top, Typed, TypeOK
  <2> HIDE DEF l
  <2> QED
    BY <1>0, <2>1, <2>2, OwnLoop, LoopStepsPlain
<1>3. CASE ~(loop[w].next > 0) /\ ~(Periodic \cap Allowed[w] = {} \/ slot > MaxSlot)
  <2>0. slot \in 1..MaxSlot /\ slot \in 0..MaxSlot
    BY <1>3, LoopAssumption DEF Typed, TypeOK
  <2>1. PICK b \in BOOLEAN : b = Keyed(slot)
    BY Zenon DEF Keyed
  <2> DEFINE l == [[[loop[w] EXCEPT !.at = "pass"] EXCEPT !.slot = slot] EXCEPT !.known = b]
  <2>2. l \in Loop /\ l.at = "pass" /\ l.slot = slot /\ l.known = b
    BY <2>0, LoopFields DEF Loop
  <2>3. loop' = [loop EXCEPT ![w].at = "pass", ![w].slot = slot, ![w].known = Keyed(slot)]
    BY <1>3 DEF Top
  <2>4. loop' = [loop EXCEPT ![w].at = "pass", ![w].slot = slot, ![w].known = b]
    BY <2>1, <2>3, Zenon
  <2>5. loop' = [loop EXCEPT ![w] = l]
    BY <2>4 DEF Typed, TypeOK
  <2> HIDE DEF l
  <2>6. Own(w, loop') /\ loop'[w] = l
    BY <2>2, <2>5, OwnLoop
  <2>7. Queue!TypeOK'
    BY <1>0 DEF queue, Typed, TypeOK, Queue!TypeOK
  <2>8. TypeOK'
    BY <1>0, <2>6, <2>7 DEF Typed, TypeOK, Own
  <2>9. \A v \in Workers : Busy(v)'
    BY <1>0, <2>2, <2>6 DEF Typed, Busy, At, Own, queue
  <2>10. NoNewWait /\ RowsHeard
    BY <1>0, <2>2, <2>6 DEF NoNewWait, RowsHeard, Own, queue
  <2>11. loop'[w].known = Keyed(slot)
    BY <2>1, <2>2, <2>6, Zenon
  <2> QED
    BY <1>0, <2>0, <2>2, <2>6, <2>8, <2>9, <2>10, <2>11 DEF Typed
<1> QED
  BY <1>1, <1>2, <1>3

\* Row j becomes serviceable by time in n ticks at the earliest.
Patient(j, n) ==
  /\ row[j].status \in Queue!Waiting => row[j].wait >= n
  /\ row[j].status = "running" => row[j].lease >= n

LEMMA RowFields ==
  ASSUME Typed, NEW j \in Jobs
  PROVE  row[j] \in Queue!Row /\ row[j].wait \in Nat /\ row[j].lease \in Nat /\ row[j].attempts \in Nat
BY DEF Typed, TypeOK, Queue!TypeOK, Queue!Row

\* Look finds a job, or begins to wait for no longer than any row needs.
LEMMA LookEffect ==
  ASSUME Typed, NEW w \in Workers, Look(w)
  PROVE  /\ Slots /\ UNCHANGED <<queue, quiet>>
         /\ \/ Plain
            \/ /\ Typed' /\ NoNewPass /\ RowsLast /\ Own(w, loop') /\ loop'[w].at = "wait"
               /\ \E n \in 0..MaxIdle :
                    loop'[w].left = n /\ \A j \in Allowed[w] : Patient(j, n)
<1>0. Slots /\ UNCHANGED <<queue, slot, key, made, quiet, faults>> /\ faults' \in 0..MaxFaults
  BY FaultType DEF Look, Slots
<1>1. CASE HasDueJob(w)
  BY <1>0, <1>1, LoopMoves, LoopStepsPlain DEF Look
<1>2. CASE ~HasDueJob(w)
  <2> DEFINE K == Known(w)
             T == K \cup {loop[w].left}
             n == Min(T)
  <2>1. Allowed[w] \subseteq Jobs
    BY LoopAssumption
  <2>2. K \subseteq Nat
    BY <2>1, RowFields DEF Known
  <2>3. T \subseteq Nat /\ T # {} /\ loop[w].left \in T /\ loop[w].left \in 0..MaxIdle
    BY <2>2, LoopFields
  <2>4. n \in T /\ \A x \in T : n <= x
    <3> HIDE DEF T
    <3> QED
      BY <2>3, MinIs
  <2>5. n \in 0..MaxIdle
    <3> HIDE DEF T, n
    <3>1. n \in Nat /\ n <= loop[w].left
      BY <2>3, <2>4
    <3> QED
      BY <2>3, <3>1, LoopFields
  <2>6. ASSUME NEW j \in Allowed[w]
        PROVE  Patient(j, n)
    <3>1. ~Serviceable(j) /\ j \in Jobs
      BY <1>2, <2>1 DEF HasDueJob
    <3>2. row[j].status \in Queue!Waiting => row[j].wait \in K
      BY <3>1, RowFields DEF Known, Serviceable, Queue!Claimable, Queue!Due
    <3>3. row[j].status = "running" => row[j].lease \in K
      <4>1. row[j].status = "running" => row[j].lease # 0
        BY <3>1, RowFields, LoopAssumption DEF Serviceable, Exhausted, Queue!Claimable, Queue!LeaseLive
      <4> QED
        BY <4>1 DEF Known
    <3>4. \A x \in K : n <= x
      <4> HIDE DEF K, n
      <4> QED
        BY <2>4
    <3>5. row[j].wait \in Nat /\ row[j].lease \in Nat
      BY <3>1, RowFields
    <3> HIDE DEF K, n
    <3> QED
      BY <2>5, <3>2, <3>3, <3>4, <3>5 DEF Patient
  <2>7. loop' = [loop EXCEPT ![w].at = "wait", ![w].left = n]
    BY <1>2 DEF Look, Timeout
  <2> HIDE DEF K, T, n
  <2> DEFINE l == [[loop[w] EXCEPT !.at = "wait"] EXCEPT !.left = n]
  <2>8. l \in Loop /\ l.at = "wait" /\ l.left = n
    BY <2>5, LoopFields DEF Loop
  <2>9. loop' = [loop EXCEPT ![w] = l]
    BY <2>7 DEF Typed, TypeOK
  <2> HIDE DEF l
  <2>10. Own(w, loop') /\ loop'[w] = l
    BY <2>8, <2>9, OwnLoop
  <2>11. Queue!TypeOK'
    BY <1>0 DEF queue, Typed, TypeOK, Queue!TypeOK
  <2>12. TypeOK'
    BY <1>0, <2>10, <2>11 DEF Typed, TypeOK, Own
  <2>13. \A v \in Workers : Busy(v)'
    BY <1>0, <2>8, <2>10 DEF Typed, Busy, At, Own, queue
  <2>14. NoNewPass /\ RowsLast
    BY <1>0, <2>8, <2>10 DEF NoNewPass, RowsLast, Own, queue
  <2> QED
    BY <1>0, <2>5, <2>6, <2>8, <2>10, <2>12, <2>13, <2>14 DEF Typed
<1> QED
  BY <1>1, <1>2

\* Time runs for the waiting and for the rows.
Passes ==
  /\ \A v \in Workers :
       /\ loop'[v].at = loop[v].at /\ loop'[v].slot = loop[v].slot
       /\ loop'[v].known = loop[v].known /\ loop'[v].note = loop[v].note
       /\ loop'[v].left = Queue!Elapse(loop[v].left)
  /\ \A j \in Jobs :
       /\ row'[j].status = row[j].status
       /\ row'[j].lease = Queue!Elapse(row[j].lease)
       /\ row'[j].wait = Queue!Elapse(row[j].wait)

LEMMA TickEffect ==
  ASSUME Typed, Tick
  PROVE  Typed' /\ Passes /\ Slots /\ UNCHANGED quiet
<1>1. /\ Queue!TypeOK' /\ UNCHANGED worker
      /\ \A j \in Jobs : /\ row'[j].status = row[j].status
                         /\ row'[j].lease = Queue!Elapse(row[j].lease)
                         /\ row'[j].wait = Queue!Elapse(row[j].wait)
  <2>1. CASE \E j \in Jobs : row[j].lease > 0 \/ row[j].wait > 0
    <3>1. Queue!Tick
      BY <2>1 DEF Tick
    <3>2. UNCHANGED worker
      BY <3>1 DEF Queue!Tick
    <3> QED
      BY <3>1, <3>2, TickWrites DEF Typed, TypeOK
  <2>2. CASE ~\E j \in Jobs : row[j].lease > 0 \/ row[j].wait > 0
    <3>1. UNCHANGED queue
      BY <2>2 DEF Tick
    <3>2. Queue!TypeOK'
      BY <3>1 DEF queue, Typed, TypeOK, Queue!TypeOK
    <3>3. \A j \in Jobs : row[j].lease = 0 /\ row[j].wait = 0
      BY <2>2, RowFields
    <3> QED
      BY <3>1, <3>2, <3>3 DEF queue, Queue!Elapse
  <2> QED
    BY <2>1, <2>2
<1>2. ASSUME NEW v \in Workers
      PROVE  /\ loop'[v] \in Loop
             /\ loop'[v].at = loop[v].at /\ loop'[v].slot = loop[v].slot
             /\ loop'[v].known = loop[v].known /\ loop'[v].note = loop[v].note
             /\ loop'[v].left = Queue!Elapse(loop[v].left)
  <2> DEFINE n == Queue!Elapse(loop[v].left)
             m == Queue!Elapse(loop[v].next)
  <2>1. n \in 0..MaxIdle /\ m \in 0..(1 + Interval)
    BY LoopFields DEF Queue!Elapse
  <2>2. loop'[v] = [loop[v] EXCEPT !.left = n, !.next = m]
    BY DEF Tick
  <2>3. loop[v] \in Loop
    BY LoopFields
  <2> HIDE DEF n, m
  <2>4. /\ loop'[v] \in Loop
        /\ loop'[v].at = loop[v].at /\ loop'[v].slot = loop[v].slot
        /\ loop'[v].left = n
    BY <2>1, <2>2, <2>3 DEF Loop
  <2>5. loop'[v].known = loop[v].known /\ loop'[v].note = loop[v].note
    BY <2>1, <2>2, <2>3 DEF Loop
  <2> QED
    BY <2>4, <2>5 DEF n
<1>3. loop' \in [Workers -> Loop]
  <2>1. loop' = [v \in Workers |-> loop'[v]]
    BY DEF Tick
  <2> QED
    BY <1>2, <2>1
<1>4. Slots /\ UNCHANGED quiet /\ faults' \in 0..MaxFaults
  BY FaultType DEF Tick, Slots
<1>5. TypeOK'
  BY <1>1, <1>3, <1>4 DEF Typed, TypeOK, Slots
<1>6. \A v \in Workers : Busy(v)'
  BY <1>1, <1>2 DEF Typed, Busy, At
<1> QED
  BY <1>1, <1>2, <1>4, <1>5, <1>6 DEF Typed, Passes

-----------------------------------------------------------------------------
(* The invariants *)

LEMMA InitTyped == Init => Typed
<1> SUFFICES ASSUME Init PROVE Typed
  OBVIOUS
<1>1. Queue!TypeOK
  <2>1. Queue!Fresh("absent", 0) \in Queue!Row
    <3>1. "absent" \in Queue!Status /\ 0 \in Nat /\ FALSE \in BOOLEAN
      BY DEF Queue!Status
    <3> QED
      BY <3>1, UnclaimedIsRow DEF Queue!Fresh
  <2>2. Queue!Idle \in Queue!Worker
    BY DEF Queue!Idle, Queue!Worker, Queue!Phases
  <2> QED
    BY <2>1, <2>2 DEF Init, Queue!Init, Queue!TypeOK
<1>2. Started \in Loop /\ Started.at = "top"
  BY LoopAssumption DEF Started, Loop, Points
<1>3. /\ 1 \in 1..(1 + MaxSlot) /\ 0 \in 0..MaxSlot /\ 0 \in 0..MaxFaults /\ 0 \in Nat
  BY LoopAssumption
<1>4. TypeOK
  BY <1>1, <1>2, <1>3 DEF Init, TypeOK
<1> QED
  BY <1>2, <1>4 DEF Typed, Busy, At, Init

\* A row that is not there has no slot.
GoneHasNoKey == \A j \in Periodic : row[j].status \in {"absent", "deleted"} => key[j] = 0

\* Nothing was inserted for a slot to come, nor for this one while no row is of it.
SlotOnce ==
  \A s \in 1..MaxSlot :
    made[s] <= 1 /\ (s > slot \/ (s = slot /\ ~Keyed(s)) => made[s] = 0)

\* A pass is of a slot that has begun, and a pass that has seen no row of its
\* slot, where there is none now, is the first to insert one.
PassFirst ==
  /\ \A w \in Workers : At(w, "pass") => loop[w].slot \in 1..MaxSlot /\ loop[w].slot <= slot
  /\ \A w \in Workers, s \in 1..MaxSlot :
       At(w, "pass") /\ loop[w].slot = s /\ ~loop[w].known /\ ~Keyed(s) => made[s] = 0

SlotsOK == GoneHasNoKey /\ SlotOnce /\ PassFirst

\* A worker that waits, and has heard nothing, wakes before any row of its lane
\* becomes serviceable, but for those that changed quietly.
WaitsOK ==
  \A w \in Workers, n \in 0..MaxIdle :
    At(w, "wait") /\ ~loop[w].note /\ loop[w].left = n =>
      \A j \in Allowed[w] : j \in quiet \/ Patient(j, n)

LEMMA PlainKeepsWaits ==
  ASSUME Typed, WaitsOK, NoNewWait, RowsHeard
  PROVE  WaitsOK'
<1> SUFFICES ASSUME NEW w \in Workers, NEW n \in 0..MaxIdle, At(w, "wait")',
                    ~loop'[w].note, loop'[w].left = n, NEW j \in Allowed[w], j \notin quiet'
             PROVE  Patient(j, n)'
  BY DEF WaitsOK
<1>1. At(w, "wait") /\ ~loop[w].note /\ loop[w].left = n
  BY DEF NoNewWait, At
<1>2. CASE row'[j].status = "deleted"
  BY <1>2 DEF Patient, Queue!Waiting
<1>3. CASE j \notin quiet /\ row'[j] = row[j]
  BY <1>1, <1>3 DEF WaitsOK, Patient
<1> QED
  BY <1>2, <1>3 DEF RowsHeard, At

LEMMA PlainKeepsSlots ==
  ASSUME Typed, SlotsOK, NoNewPass, RowsLast, Slots
  PROVE  SlotsOK'
<1>0. Periodic \subseteq Jobs
  BY LoopAssumption
<1>1. GoneHasNoKey'
  BY <1>0 DEF SlotsOK, GoneHasNoKey, RowsLast, Slots
<1>2. \A s \in 1..MaxSlot : Keyed(s)' <=> Keyed(s)
  BY DEF Keyed, Slots
<1>3. SlotOnce'
  BY <1>2 DEF SlotsOK, SlotOnce, Slots
<1>4. PassFirst'
  BY <1>2 DEF SlotsOK, PassFirst, Slots, NoNewPass, At
<1> QED
  BY <1>1, <1>3, <1>4 DEF SlotsOK

LEMMA TickKeeps ==
  ASSUME Typed, Tick
  PROVE  (SlotsOK => SlotsOK') /\ (WaitsOK => WaitsOK')
<1>1. Passes /\ Slots /\ UNCHANGED quiet
  BY TickEffect
<1>2. NoNewPass /\ RowsLast
  BY <1>1 DEF NoNewPass, RowsLast, Passes
<1>3. ASSUME WaitsOK PROVE WaitsOK'
  <2> SUFFICES ASSUME NEW w \in Workers, NEW n \in 0..MaxIdle, At(w, "wait")',
                      ~loop'[w].note, loop'[w].left = n, NEW j \in Allowed[w], j \notin quiet'
               PROVE  Patient(j, n)'
    BY DEF WaitsOK
  <2>1. PICK m \in 0..MaxIdle : loop[w].left = m
    BY LoopFields
  <2>2. At(w, "wait") /\ ~loop[w].note /\ n = Queue!Elapse(m)
    BY <1>1, <2>1 DEF Passes, At
  <2>3. Patient(j, m)
    BY <1>1, <1>3, <2>1, <2>2 DEF WaitsOK
  <2>4. j \in Jobs
    BY LoopAssumption
  <2>5. /\ row'[j].status = row[j].status
        /\ row'[j].lease = Queue!Elapse(row[j].lease) /\ row'[j].wait = Queue!Elapse(row[j].wait)
        /\ row[j].lease \in Nat /\ row[j].wait \in Nat
    BY <1>1, <2>4, RowFields DEF Passes
  <2>6. \A x \in Nat : x >= m => Queue!Elapse(x) >= n
    BY <2>2 DEF Queue!Elapse
  <2> QED
    BY <2>3, <2>5, <2>6 DEF Patient
<1> QED
  BY <1>1, <1>2, <1>3, PlainKeepsSlots

LEMMA InsertKeepsSlots ==
  ASSUME Typed, SlotsOK, NEW w \in Workers, NEW j \in Periodic, Insert(w, j)
  PROVE  SlotsOK'
<1>1. PICK s \in 1..MaxSlot : s = loop[w].slot /\ s <= slot
  BY DEF Insert, SlotsOK, PassFirst
<1>2. Plain /\ loop'[w].at = "run"
  BY <1>1, InsertPlain
<1>3. /\ At(w, "pass") /\ ~loop[w].known /\ ~Keyed(s) /\ key[j] = 0
      /\ key' = [key EXCEPT ![j] = s] /\ made' = [made EXCEPT ![s] = @ + 1]
      /\ UNCHANGED slot
      /\ row' = [row EXCEPT ![j] = Queue!Fresh("pending", 0)]
  BY <1>1 DEF Insert, SlotsOK, GoneHasNoKey
<1>4. made[s] = 0
  BY <1>1, <1>3 DEF SlotsOK, PassFirst
<1>5. made'[s] = 1 /\ \A t \in 1..MaxSlot : t # s => made'[t] = made[t]
  BY <1>3, <1>4 DEF Typed, TypeOK
<1>6. /\ \A t \in 1..MaxSlot : Keyed(t) => Keyed(t)'
      /\ Keyed(s)'
  <2>1. /\ key'[j] = s /\ \A k \in Periodic : k # j => key'[k] = key[k]
    BY <1>1, <1>3 DEF Typed, TypeOK
  <2> QED
    BY <1>3, <2>1 DEF Keyed
<1>7. GoneHasNoKey'
  <2> SUFFICES ASSUME NEW k \in Periodic, row'[k].status \in {"absent", "deleted"}
               PROVE  key'[k] = 0
    BY DEF GoneHasNoKey
  <2>1. k \in Jobs /\ j \in Jobs
    BY LoopAssumption
  <2>2. row'[j].status = "pending"
    BY <1>3, <2>1 DEF Typed, TypeOK, Queue!TypeOK, Queue!Fresh, Queue!Unclaimed
  <2>3. k # j
    BY <2>2
  <2>4. row'[k] = row[k] /\ key'[k] = key[k]
    BY <1>3, <2>1, <2>3 DEF Typed, TypeOK, Queue!TypeOK
  <2> QED
    BY <2>4 DEF SlotsOK, GoneHasNoKey
<1>8. SlotOnce'
  <2> SUFFICES ASSUME NEW t \in 1..MaxSlot
               PROVE  /\ made'[t] <= 1
                      /\ t > slot' \/ (t = slot' /\ ~Keyed(t)') => made'[t] = 0
    BY DEF SlotOnce
  <2>1. CASE t = s
    BY <1>1, <1>3, <1>5, <1>6, <2>1 DEF Typed, TypeOK
  <2>2. CASE t # s
    BY <1>3, <1>5, <1>6, <2>2 DEF SlotsOK, SlotOnce
  <2> QED
    BY <2>1, <2>2
<1>9. PassFirst'
  <2>1. ASSUME NEW v \in Workers, At(v, "pass")'
        PROVE  loop'[v].slot \in 1..MaxSlot /\ loop'[v].slot <= slot'
    BY <1>2, <1>3, <2>1 DEF Plain, NoNewPass, At, SlotsOK, PassFirst
  <2>2. ASSUME NEW v \in Workers, NEW t \in 1..MaxSlot, At(v, "pass")', loop'[v].slot = t,
               ~loop'[v].known, ~Keyed(t)'
        PROVE  made'[t] = 0
    <3>1. t # s /\ ~Keyed(t)
      BY <1>6, <2>2
    <3>2. At(v, "pass") /\ loop[v].slot = t /\ ~loop[v].known
      BY <1>2, <2>2 DEF Plain, NoNewPass, At
    <3> QED
      BY <1>5, <3>1, <3>2 DEF SlotsOK, PassFirst
  <2> QED
    BY <2>1, <2>2 DEF PassFirst
<1> QED
  BY <1>7, <1>8, <1>9 DEF SlotsOK

\* Pruning a row takes the key of a slot that no pass can be of any more.
LEMMA PruneKeepsSlots ==
  ASSUME Typed, SlotsOK, NEW j \in Jobs, Prune(j)
  PROVE  SlotsOK'
<1>1. /\ Only(j) /\ key' = [key EXCEPT ![j] = 0] /\ j \in Periodic
      /\ ~Retained(j) /\ UNCHANGED <<loop, slot, made>>
  BY PruneEffect
<1>2. key'[j] = 0 /\ \A k \in Periodic : k # j => key'[k] = key[k]
  BY <1>1 DEF Typed, TypeOK
<1>3. \A t \in 1..MaxSlot : t # key[j] => (Keyed(t)' <=> Keyed(t))
  BY <1>1, <1>2 DEF Keyed
<1>4. key[j] # slot /\ \A v \in Workers : At(v, "pass") => loop[v].slot # key[j]
  BY <1>1 DEF Retained
<1>5. GoneHasNoKey'
  <2>1. Periodic \subseteq Jobs
    BY LoopAssumption
  <2> QED
    BY <1>1, <1>2, <2>1 DEF SlotsOK, GoneHasNoKey, Only
<1>6. SlotOnce'
  BY <1>1, <1>3, <1>4 DEF SlotsOK, SlotOnce
<1>7. PassFirst'
  <2>1. ASSUME NEW v \in Workers, At(v, "pass")'
        PROVE  loop'[v].slot \in 1..MaxSlot /\ loop'[v].slot <= slot'
    BY <1>1, <2>1 DEF At, SlotsOK, PassFirst
  <2>2. ASSUME NEW v \in Workers, NEW t \in 1..MaxSlot, At(v, "pass")', loop'[v].slot = t,
               ~loop'[v].known, ~Keyed(t)'
        PROVE  made'[t] = 0
    <3>1. At(v, "pass") /\ loop[v].slot = t /\ ~loop[v].known
      BY <1>1, <2>2 DEF At
    <3>2. ~Keyed(t)
      BY <1>3, <1>4, <2>2, <3>1
    <3> QED
      BY <1>1, <3>1, <3>2 DEF SlotsOK, PassFirst
  <2> QED
    BY <2>1, <2>2 DEF PassFirst
<1> QED
  BY <1>5, <1>6, <1>7 DEF SlotsOK

\* A pass that begins is of the current slot.
LEMMA TopKeepsSlots ==
  ASSUME Typed, SlotsOK, NEW w \in Workers, Top(w)
  PROVE  SlotsOK'
<1>1. Slots /\ UNCHANGED queue
  BY TopEffect
<1>2. CASE Plain
  BY <1>1, <1>2, PlainKeepsSlots DEF Plain
<1>3. CASE /\ slot \in 1..MaxSlot /\ Own(w, loop')
           /\ loop'[w].at = "pass" /\ loop'[w].slot = slot
           /\ loop'[w].known = Keyed(slot)
  <2>1. PICK s \in 1..MaxSlot : s = slot
    BY <1>3
  <2>2. \A t \in 1..MaxSlot : Keyed(t)' <=> Keyed(t)
    BY <1>1 DEF Keyed, Slots
  <2>3. GoneHasNoKey' /\ SlotOnce'
    BY <1>1, <2>2 DEF SlotsOK, GoneHasNoKey, SlotOnce, Slots, queue
  <2>4. ASSUME NEW v \in Workers, At(v, "pass")'
        PROVE  loop'[v].slot \in 1..MaxSlot /\ loop'[v].slot <= slot'
    <3>1. CASE v = w
      BY <1>1, <1>3, <2>1, <3>1 DEF Slots
    <3>2. CASE v # w
      BY <1>1, <1>3, <2>4, <3>2 DEF Slots, Own, At, SlotsOK, PassFirst
    <3> QED
      BY <3>1, <3>2
  <2>5. ASSUME NEW v \in Workers, NEW t \in 1..MaxSlot, At(v, "pass")', loop'[v].slot = t,
               ~loop'[v].known, ~Keyed(t)'
        PROVE  made'[t] = 0
    <3>1. ~Keyed(t) /\ made' = made
      BY <1>1, <2>2, <2>5 DEF Slots
    <3>2. CASE v = w
      <4>1. t = slot
        BY <1>3, <2>5, <3>2
      <4> QED
        BY <3>1, <4>1 DEF SlotsOK, SlotOnce
    <3>3. CASE v # w
      BY <1>3, <2>5, <3>1, <3>3 DEF Own, At, SlotsOK, PassFirst
    <3> QED
      BY <3>2, <3>3
  <2> QED
    BY <2>3, <2>4, <2>5 DEF SlotsOK, PassFirst
<1> QED
  BY <1>2, <1>3, TopEffect

LEMMA TopKeepsWaits ==
  ASSUME Typed, WaitsOK, NEW w \in Workers, Top(w)
  PROVE  WaitsOK'
BY TopEffect, PlainKeepsWaits DEF Plain

LEMMA LookKeeps ==
  ASSUME Typed, NEW w \in Workers, Look(w)
  PROVE  (SlotsOK => SlotsOK') /\ (WaitsOK => WaitsOK')
<1>1. Slots /\ UNCHANGED <<queue, quiet>>
  BY LookEffect
<1>2. CASE Plain
  BY <1>1, <1>2, PlainKeepsSlots, PlainKeepsWaits DEF Plain
<1>3. CASE /\ NoNewPass /\ RowsLast /\ Own(w, loop')
           /\ \E n \in 0..MaxIdle :
                loop'[w].left = n /\ \A j \in Allowed[w] : Patient(j, n)
  <2>1. SlotsOK => SlotsOK'
    BY <1>1, <1>3, PlainKeepsSlots
  <2>2. ASSUME WaitsOK,
               NEW v \in Workers, NEW n \in 0..MaxIdle, At(v, "wait")',
               ~loop'[v].note, loop'[v].left = n, NEW j \in Allowed[v]
        PROVE  j \in quiet' \/ Patient(j, n)'
    <3>1. Patient(j, n) => Patient(j, n)'
      BY <1>1 DEF queue, Patient
    <3>2. CASE v = w
      BY <1>3, <2>2, <3>1, <3>2
    <3>3. CASE v # w
      <4>1. loop'[v] = loop[v]
        BY <1>3, <3>3 DEF Own
      <4> QED
        BY <1>1, <2>2, <3>1, <4>1 DEF WaitsOK, At
    <3> QED
      BY <3>2, <3>3
  <2>3. WaitsOK => WaitsOK'
    BY <2>2 DEF WaitsOK
  <2> QED
    BY <2>1, <2>3
<1> QED
  BY <1>2, <1>3, LookEffect

LEMMA NextSlotKeeps ==
  ASSUME Typed, NextSlot
  PROVE  Typed' /\ (SlotsOK => SlotsOK') /\ (WaitsOK => WaitsOK')
<1>1. /\ UNCHANGED <<queue, loop, key, made, quiet, faults>>
      /\ slot' = slot + 1 /\ slot' \in 1..(1 + MaxSlot) /\ slot \in Nat
  BY LoopAssumption DEF NextSlot, Typed, TypeOK
<1>2. Queue!TypeOK'
  BY <1>1 DEF queue, Typed, TypeOK, Queue!TypeOK
<1>3. Typed'
  BY <1>1, <1>2 DEF queue, Typed, TypeOK, Busy, At
<1>4. \A s \in 1..MaxSlot : Keyed(s)' <=> Keyed(s)
  BY <1>1 DEF Keyed
<1>5. ASSUME SlotsOK PROVE SlotsOK'
  <2>1. GoneHasNoKey'
    BY <1>1, <1>5 DEF queue, SlotsOK, GoneHasNoKey
  <2>2. SlotOnce'
    BY <1>1, <1>5 DEF SlotsOK, SlotOnce
  <2>3. PassFirst'
    BY <1>1, <1>4, <1>5 DEF SlotsOK, PassFirst, At
  <2> QED
    BY <2>1, <2>2, <2>3 DEF SlotsOK
<1>6. WaitsOK => WaitsOK'
  BY <1>1 DEF queue, WaitsOK, At, Patient
<1> QED
  BY <1>3, <1>5, <1>6

\* One step of anyone.
LEMMA StepKeeps ==
  ASSUME Typed, SlotsOK, WaitsOK, [Next]_vars
  PROVE  Typed' /\ SlotsOK' /\ WaitsOK'
<1>0. ASSUME Plain, Slots PROVE Typed' /\ SlotsOK' /\ WaitsOK'
  BY <1>0, PlainKeepsSlots, PlainKeepsWaits DEF Plain
<1>1. ASSUME NEW j \in Jobs, Caller(j) PROVE Typed' /\ SlotsOK' /\ WaitsOK'
  <2>1. CASE Ask(j) \/ Postpone(j)
    BY <1>0, <2>1, AskPlain, PostponePlain
  <2>2. CASE Prune(j)
    BY <2>2, PruneEffect, PruneKeepsSlots, PlainKeepsWaits
  <2> QED
    BY <1>1, <2>1, <2>2 DEF Caller
<1>2. ASSUME NEW w \in Workers, LoopStep(w) \/ Breaks(w) PROVE Typed' /\ SlotsOK' /\ WaitsOK'
  <2>1. CASE Top(w)
    BY <2>1, TopEffect, TopKeepsSlots, TopKeepsWaits DEF Plain
  <2>2. CASE Look(w)
    BY <2>2, LookEffect, LookKeeps DEF Plain
  <2>3. ASSUME NEW j \in Periodic, Insert(w, j) PROVE Typed' /\ SlotsOK' /\ WaitsOK'
    <3>1. loop[w].slot \in 1..MaxSlot
      BY <2>3 DEF Insert, SlotsOK, PassFirst
    <3> QED
      BY <2>3, <3>1, InsertPlain, InsertKeepsSlots, PlainKeepsWaits DEF Plain
  <2>4. ASSUME NEW j \in Jobs, Bury(w, j) \/ Take(w, j) PROVE Typed' /\ SlotsOK' /\ WaitsOK'
    BY <1>0, <2>4, BuryPlain, TakePlain
  <2>5. CASE Slotted(w) \/ Idle(w) \/ Listen(w) \/ Wake(w) \/ Slept(w)
    BY <1>0, <2>5, QuietStepsPlain
  <2>6. CASE PassFails(w) \/ RunFails(w) \/ WaitFails(w)
    BY <1>0, <2>6, QuietStepsPlain
  <2>7. CASE Succeed(w) \/ Fail(w) \/ Crash(w)
    BY <1>0, <2>7, SucceedPlain, FailPlain, CrashPlain
  <2> QED
    BY <1>2, <2>1, <2>2, <2>3, <2>4, <2>5, <2>6, <2>7 DEF LoopStep, Breaks
<1>3. CASE Tick
  BY <1>3, TickEffect, TickKeeps
<1>4. CASE NextSlot
  BY <1>4, NextSlotKeeps
<1>5. CASE UNCHANGED vars
  <2>1. Queue!TypeOK'
    BY <1>5 DEF vars, queue, Typed, TypeOK, Queue!TypeOK
  <2>2. Typed'
    BY <1>5, <2>1 DEF vars, queue, Typed, TypeOK, Busy, At
  <2>3. NoNewPass /\ RowsLast /\ Slots /\ NoNewWait /\ RowsHeard
    BY <1>5 DEF vars, queue, NoNewPass, RowsLast, Slots, NoNewWait, RowsHeard
  <2> QED
    BY <2>2, <2>3, PlainKeepsSlots, PlainKeepsWaits
<1> QED
  BY <1>1, <1>2, <1>3, <1>4, <1>5 DEF Next

\* The inductive invariant: the types, what the slots' keys say of the rows that
\* were inserted, and how long a waiting worker may sleep.
THEOREM LoopInvariant == Spec => [](Typed /\ SlotsOK /\ WaitsOK)
<1>1. Init => Typed /\ SlotsOK /\ WaitsOK
  <2> SUFFICES ASSUME Init PROVE Typed /\ SlotsOK /\ WaitsOK
    OBVIOUS
  <2>1. SlotsOK
    BY DEF Init, SlotsOK, GoneHasNoKey, SlotOnce, PassFirst, At, Started
  <2>2. WaitsOK
    BY DEF Init, WaitsOK, At, Started
  <2> QED
    BY <2>1, <2>2, InitTyped
<1>2. Typed /\ SlotsOK /\ WaitsOK /\ [Next]_vars => (Typed /\ SlotsOK /\ WaitsOK)'
  BY StepKeeps
<1> QED
  BY <1>1, <1>2, PTL DEF Spec

\* Every variable of run_forever and of the queue has its type.
THEOREM TypesKept == Spec => []TypeOK
<1>1. Typed => TypeOK
  BY DEF Typed
<1> QED
  BY <1>1, LoopInvariant, PTL

\* However many schedulers see a slot, fail in it or are retried, and whatever
\* rows are pruned, run_scheduler_once inserts the slot's job once.
THEOREM SlotsInsertedOnce == Spec => []OneJobPerSlot
<1>1. SlotsOK => OneJobPerSlot
  BY DEF SlotsOK, SlotOnce, OneJobPerSlot
<1> QED
  BY <1>1, LoopInvariant, PTL

\* _wait_for_job_notification, which listens before it looks, sleeps through no
\* row that a NOTIFY or time has made serviceable.
THEOREM NoWakeupIsLost == Spec => []NoLostWakeup
<1>1. ASSUME Typed, WaitsOK PROVE NoLostWakeup
  <2> SUFFICES ASSUME NEW w \in Workers, At(w, "wait"), ~loop[w].note, loop[w].left > 0,
                      NEW j \in Allowed[w], Serviceable(j), j \notin quiet
               PROVE  FALSE
    BY DEF NoLostWakeup
  <2>1. PICK n \in 0..MaxIdle : loop[w].left = n
    BY <1>1, LoopFields
  <2>2. Patient(j, n) /\ n > 0
    BY <1>1, <2>1 DEF WaitsOK
  <2>3. row[j].wait \in Nat /\ row[j].lease \in Nat
    BY <1>1, RowFields, LoopAssumption
  <2> QED
    BY <2>2, <2>3 DEF Patient, Serviceable, Exhausted, Queue!Claimable, Queue!Due, Queue!LeaseLive
<1> QED
  BY <1>1, LoopInvariant, PTL

=============================================================================
