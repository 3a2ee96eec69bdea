----------------------------- MODULE WorkerLoop -----------------------------
(***************************************************************************)
(* The loop of a worker process, JobWorker.run_forever (jobs/worker.py):   *)
(* the periodic scheduler, run_once, and the wait for a notification with  *)
(* polling as the fallback, over the rows of JobQueue.                     *)
(*                                                                         *)
(* JobQueue assumes that an eligible row is taken in the end; here that is *)
(* shown of the code.  A row may become serviceable in three ways: by a    *)
(* statement that NOTIFYs, by one that does not, and by time.              *)
(*                                                                         *)
(* One periodic kind: the slots of its interval are numbered.  The jobs in *)
(* Periodic are its rows, which schedulers insert and pruning takes away;  *)
(* the others come from callers.  Left to JobQueue: the repair, which      *)
(* NOTIFYs as an enqueue does, statements that only take rows away, the    *)
(* steps of a handler, and heartbeats: a lease lapses under a live worker  *)
(* as a fault.                                                             *)
(***************************************************************************)
EXTENDS Integers, Sequences, FiniteSets, FiniteSetsExt

CONSTANTS
  Jobs, Workers, NoWorker, NoJob,
  Allowed,       \* Allowed[w]: the jobs whose kind is in the lane of w
  Periodic,      \* the jobs of the kind with a periodic_interval_seconds
  MaxAttempts, RetryDelays, LeaseTicks, MaxDelay, MaxClaims,
  Interval,      \* scheduler_interval_seconds, in ticks
  MaxIdle,       \* idle_backoff_max_seconds; poll_interval_seconds is one tick
  MaxSlot,       \* bound: passes after this slot insert nothing
  MaxFaults      \* bound: crashes, database failures, hooks that raise, lapses

ASSUME LoopAssumption ==
  /\ NoWorker \notin Workers /\ NoJob \notin Jobs
  /\ Allowed \in [Workers -> SUBSET Jobs]
  /\ Periodic \subseteq Jobs
  /\ {MaxAttempts, LeaseTicks, Interval, MaxIdle, MaxSlot} \subseteq Nat \ {0}
  /\ RetryDelays \in Seq(Nat)
  /\ {MaxDelay, MaxClaims, MaxFaults} \subseteq Nat

VARIABLES
  row, worker, claims, spent, \* the queue's
  loop,   \* loop[w]: what run_forever of w holds between two statements
  slot,   \* the slot that now() is in
  key,    \* key[j]: the slot in the dedupe key of a periodic row, or 0
  made,   \* history: how many rows were ever inserted for a slot
  quiet,  \* history: the rows whose last change came without NOTIFY
  faults  \* history: faults so far

queue == <<row, worker, claims, spent>>
vars  == <<queue, loop, slot, key, made, quiet, faults>>

Queue == INSTANCE JobQueue WITH UnknownKind <- {}, NeverPruneDead <- {}

-----------------------------------------------------------------------------
(* Data *)

Points == {"top", "pass", "run", "job", "listen", "look", "wait", "sleep"}

Loop == [at: Points,
         left: 0..MaxIdle,  \* of the wait or sleep it is in
         idle: 1..MaxIdle,  \* idle_wait_seconds
         next: 0..(1 + Interval), \* until next_scheduler_at
         note: BOOLEAN,     \* a notification of the lane has arrived
         slot: 0..MaxSlot,  \* now_value of the scheduler's transaction,
         known: BOOLEAN]    \* and whether its snapshot has a row of that slot

Started == [at |-> "top", left |-> 0, idle |-> 1, next |-> 0, note |-> FALSE,
            slot |-> 0, known |-> FALSE]

TypeOK ==
  /\ Queue!TypeOK
  /\ loop \in [Workers -> Loop]
  /\ slot \in 1..(1 + MaxSlot)
  /\ key \in [Periodic -> 0..MaxSlot]
  /\ made \in [1..MaxSlot -> Nat]
  /\ quiet \subseteq Jobs
  /\ faults \in 0..MaxFaults

Init ==
  /\ Queue!Init
  /\ loop = [w \in Workers |-> Started]
  /\ slot = 1
  /\ key = [j \in Periodic |-> 0]
  /\ made = [s \in 1..MaxSlot |-> 0]
  /\ quiet = {}
  /\ faults = 0

Fault == faults < MaxFaults /\ faults' = faults + 1

At(w, point) == loop[w].at = point
Go(w, point) == [loop EXCEPT ![w].at = point]

\* Between LISTEN and UNLISTEN.
Listens(l) == l.at \in {"look", "wait"}

\* The commit of a statement with pg_notify: whoever of the lane listens hears.
Notify(loops, j) ==
  /\ loop' = [w \in Workers |-> IF Listens(loops[w]) /\ j \in Allowed[w]
                                 THEN [loops[w] EXCEPT !.note = TRUE] ELSE loops[w]]
  /\ quiet' = quiet \ {j}

\* The commit of one without.
Quietly(j) == quiet' = IF row'[j] = row[j] THEN quiet ELSE quiet \cup {j}

Exhausted(j) ==
  row[j].status = "running" /\ ~Queue!LeaseLive(j) /\ row[j].attempts >= MaxAttempts

\* What run_once would handle, and has_due_job reports.
Serviceable(j) == Queue!Claimable(j) \/ Exhausted(j)

\* A row whose dedupe key is of the slot.
Keyed(s) == \E j \in Periodic : key[j] = s

-----------------------------------------------------------------------------
(* Callers and operators *)

OnlyRows == UNCHANGED <<slot, key, made, faults>>

Ask(j) ==
  /\ j \notin Periodic
  /\ Queue!Enqueue(j) \/ Queue!Promote(j)
  /\ Notify(loop, j) /\ OnlyRows

\* update_unclaimed_job does not NOTIFY.
Postpone(j) ==
  /\ j \notin Periodic
  /\ Queue!UpdateUnclaimed(j)
  /\ Quietly(j)
  /\ UNCHANGED loop /\ OnlyRows

\* Mutant of Retained: rows go as soon as they are terminal.
RetainedNever(j) == FALSE

\* Finished rows stay for a day at least (background_job_prune_.._after_days).
\* Deployed intervals are no longer, which no setting enforces, and a pass
\* lasts seconds.
Retained(j) ==
  key[j] = slot \/ \E w \in Workers : At(w, "pass") /\ loop[w].slot = key[j]

Prune(j) ==
  /\ j \in Periodic /\ ~Retained(j)
  /\ Queue!Prune(j)
  /\ key' = [key EXCEPT ![j] = 0]
  /\ UNCHANGED <<loop, slot, made, quiet, faults>>

-----------------------------------------------------------------------------
(* run_forever *)

\* stop.wait after an SQLAlchemyError.
BacksOff(w) == [loop EXCEPT ![w].at = "sleep", ![w].left = 1]

\* The top of the loop: a pass of the scheduler that is due begins its
\* SERIALIZABLE transaction.
Top(w) ==
  /\ At(w, "top")
  /\ loop' =
       IF loop[w].next > 0 THEN Go(w, "run")
       ELSE IF Periodic \cap Allowed[w] = {} \/ slot > MaxSlot
       THEN [loop EXCEPT ![w].at = "run", ![w].next = Interval]
       ELSE [loop EXCEPT ![w].at = "pass", ![w].slot = slot, ![w].known = Keyed(slot)]
  /\ UNCHANGED <<queue, slot, key, made, quiet, faults>>

PassOver(w, l) == [l EXCEPT ![w].slot = 0, ![w].known = FALSE]

\* next_scheduler_at is set whether the pass came through or not, from its
\* start or from the end of the backoff.
PassDone(w) == [PassOver(w, Go(w, "run")) EXCEPT ![w].next = Interval]
PassLost(w) == [PassOver(w, BacksOff(w)) EXCEPT ![w].next = 1 + Interval]

\* enqueue_unique_job of the slot, and the commit.
Insert(w, j) ==
  /\ At(w, "pass")
  /\ ~loop[w].known /\ ~Keyed(loop[w].slot)
  /\ row[j].status \in {"absent", "deleted"}
  /\ row' = [row EXCEPT ![j] = Queue!Fresh("pending", 0)]
  /\ key' = [key EXCEPT ![j] = loop[w].slot]
  /\ made' = [made EXCEPT ![loop[w].slot] = @ + 1]
  /\ Notify(PassDone(w), j)
  /\ UNCHANGED <<worker, claims, spent, slot, faults>>

\* Somebody else inserted the slot, before this snapshot or since.  In the
\* second case the transaction fails to serialize or violates the unique index:
\* it is retried and finds the row, or it raises.  (Bound: or no row is left.)
Slotted(w) ==
  /\ At(w, "pass")
  /\ Keyed(loop[w].slot) \/ loop[w].known \/ \A j \in Periodic : row[j].status \notin {"absent", "deleted"}
  /\ \/ loop' = PassDone(w)
     \/ ~loop[w].known /\ Keyed(loop[w].slot) /\ loop' = PassLost(w)
  /\ UNCHANGED <<queue, slot, key, made, quiet, faults>>

PassFails(w) ==
  /\ At(w, "pass") /\ Fault
  /\ loop' = PassLost(w)
  /\ UNCHANGED <<queue, slot, key, made, quiet>>

\* run_once has handled a row.
Settled(w) == [loop EXCEPT ![w].at = "top", ![w].idle = 1]

\* run_once first looks for a row to dead-letter, with its hook.
Bury(w, j) ==
  /\ At(w, "run")
  /\ Queue!DeadLetterExpired(w, j)
  /\ loop' = Settled(w)
  /\ Quietly(j) /\ OnlyRows

\* Then it claims.  Nobody is notified of the lease.
Take(w, j) ==
  /\ At(w, "run")
  /\ \A i \in Allowed[w] : ~Exhausted(i)
  /\ Queue!Claim(w, j)
  /\ loop' = Go(w, "job")
  /\ Quietly(j) /\ OnlyRows

\* The database fails, or a hook raises and takes its transaction with it.
RunFails(w) ==
  /\ At(w, "run") /\ Fault
  /\ loop' = [BacksOff(w) EXCEPT ![w].idle = 1]
  /\ UNCHANGED <<queue, slot, key, made, quiet>>

Doubled(n) == Min({2 * n, MaxIdle})

Woken(w) ==
  [loop EXCEPT ![w].at = "top", ![w].left = 0, ![w].note = FALSE, ![w].idle = Doubled(@)]

Idle(w) ==
  /\ At(w, "run")
  /\ \A j \in Allowed[w] : ~Serviceable(j)
  /\ LET timeout == Min({loop[w].idle, loop[w].next})
     IN  loop' = IF timeout = 0 THEN Woken(w)
                 ELSE [loop EXCEPT ![w].at = "listen", ![w].left = timeout]
  /\ UNCHANGED <<queue, slot, key, made, quiet, faults>>

-----------------------------------------------------------------------------
(* _wait_for_job_notification *)

Listen(w) ==
  /\ At(w, "listen")
  /\ loop' = Go(w, "look")
  /\ UNCHANGED <<queue, slot, key, made, quiet, faults>>

\* Ticks to the next row of the lane that will be due or lapse.
Known(w) ==
  ({row[j].wait : j \in {i \in Allowed[w] : row[i].status \in Queue!Waiting}} \cup
   {row[j].lease : j \in {i \in Allowed[w] : row[i].status = "running"}}) \ {0}

Timeout(w) == Min(Known(w) \cup {loop[w].left})

\* Mutant of HasDueJob: the look is the one of run_once, before LISTEN.
LookedBefore(w) == FALSE

HasDueJob(w) == \E j \in Allowed[w] : Serviceable(j)

Look(w) ==
  /\ At(w, "look")
  /\ IF HasDueJob(w) THEN loop' = Woken(w)
     ELSE loop' = [loop EXCEPT ![w].at = "wait", ![w].left = Timeout(w)]
  /\ UNCHANGED <<queue, slot, key, made, quiet, faults>>

\* Mutant of Heard: no polling fallback.
HeardOnly(l) == l.note

Heard(l) == l.note \/ l.left = 0

Wake(w) ==
  /\ At(w, "wait")
  /\ Heard(loop[w])
  /\ loop' = Woken(w)
  /\ UNCHANGED <<queue, slot, key, made, quiet, faults>>

\* LISTEN fails or its connection breaks: a plain sleep, deaf.
WaitFails(w) ==
  /\ At(w, "listen") \/ Listens(loop[w])
  /\ Fault
  /\ \E t \in 1..loop[w].idle : loop' = [loop EXCEPT ![w] = [Woken(w)[w] EXCEPT !.at = "sleep", !.left = t]]
  /\ UNCHANGED <<queue, slot, key, made, quiet>>

Slept(w) ==
  /\ At(w, "sleep") /\ loop[w].left = 0
  /\ loop' = Go(w, "top")
  /\ UNCHANGED <<queue, slot, key, made, quiet, faults>>

-----------------------------------------------------------------------------
(* The job *)

\* Bound: reschedules stop after MaxClaims claims.
Again == MapThenSumSet(LAMBDA j : claims[j], Jobs) < MaxClaims

\* The handler's steps are JobQueue's, only the one that settles is left here.
\* complete_job and reschedule_running_job do not NOTIFY.
Succeed(w) ==
  /\ At(w, "job")
  /\ \/ Queue!CompleteRow(w)
     \/ Again /\ Queue!RescheduleRow(w)
  /\ Queue!Return(w)
  /\ loop' = Settled(w)
  /\ Quietly(worker[w].job)
  /\ UNCHANGED <<claims, spent>> /\ OnlyRows

\* fail_job NOTIFYs of a retry.
Fail(w) ==
  LET j == worker[w].job IN
  /\ At(w, "job")
  /\ Queue!FailRow(w, Queue!RetryDelay(row[j].attempts))
  /\ Queue!Return(w)
  /\ IF row'[j].status = "failed" /\ row'[j] # row[j]
     THEN Notify(Settled(w), j)
     ELSE loop' = Settled(w) /\ Quietly(j)
  /\ UNCHANGED claims /\ OnlyRows

\* The process dies; its container starts another.  So does an error that
\* run_forever does not catch: a hook's own, or exhausted retries of a pass.
Crash(w) ==
  /\ Fault
  /\ IF At(w, "job") THEN Queue!Crash(w) ELSE UNCHANGED queue
  /\ loop' = [loop EXCEPT ![w] = Started]
  /\ UNCHANGED <<slot, key, made, quiet>>

-----------------------------------------------------------------------------
(* Time *)

\* Leases of dead workers lapse; those of live ones as a fault.
Tick ==
  /\ IF \E j \in Jobs : row[j].lease > 0 \/ row[j].wait > 0 THEN Queue!Tick ELSE UNCHANGED queue
  /\ loop' = [w \in Workers |->
       [loop[w] EXCEPT !.left = Queue!Elapse(@), !.next = Queue!Elapse(@)]]
  /\ IF \E w \in Workers : Queue!ClaimIsCurrent(w) /\ row[worker[w].job].lease = 1
     THEN Fault ELSE UNCHANGED faults
  /\ UNCHANGED <<slot, key, made, quiet>>

NextSlot ==
  /\ slot <= MaxSlot
  /\ slot' = slot + 1
  /\ UNCHANGED <<queue, loop, key, made, quiet, faults>>

Caller(j) == Ask(j) \/ Postpone(j) \/ Prune(j)

LoopStep(w) ==
  \/ Top(w) \/ (\E j \in Periodic : Insert(w, j)) \/ Slotted(w)
  \/ (\E j \in Jobs : Bury(w, j) \/ Take(w, j)) \/ Idle(w)
  \/ Listen(w) \/ Look(w) \/ Wake(w) \/ Slept(w)
  \/ Succeed(w) \/ Fail(w)

Breaks(w) == PassFails(w) \/ RunFails(w) \/ WaitFails(w) \/ Crash(w)

Next ==
  \/ \E j \in Jobs : Caller(j)
  \/ \E w \in Workers : LoopStep(w) \/ Breaks(w)
  \/ Tick \/ NextSlot

Spec == Init /\ [][Next]_vars

\* Time passes, and a process that runs goes on: handlers end, transactions
\* commit.  Nothing is assumed of the claim: that is what is shown.
Fairness == WF_vars(Tick) /\ \A w \in Workers : WF_vars(LoopStep(w))

FairSpec == Spec /\ Fairness

-----------------------------------------------------------------------------
(* Properties *)

\* Schedulers insert a slot's job once, whoever of them sees the slot first,
\* whatever fails, and although a finished job's row, which holds the dedupe
\* key, is pruned (run_scheduler_once, "deterministic per-slot dedupe").
OneJobPerSlot == \A s \in 1..MaxSlot : made[s] <= 1

\* LISTEN before the look: a worker that waits and has heard nothing leaves a
\* serviceable row waiting only if it became so by a statement, committed since
\* the look, that does not NOTIFY.
NoLostWakeup ==
  \A w \in Workers :
    At(w, "wait") /\ ~loop[w].note /\ loop[w].left > 0 =>
      \A j \in Allowed[w] : Serviceable(j) => j \in quiet

\* A serviceable row does not stay so: notified, polled or timed, some worker of
\* its lane comes for it, though schedulers conflict, waits fail, hooks raise
\* and processes die.
EveryRowServed == \A j \in Jobs : Serviceable(j) ~> ~Serviceable(j)

=============================================================================
