--------------------------- MODULE StorageCleanup ---------------------------
(***************************************************************************)
(* One object of the object store, the media it belongs to, and the        *)
(* background jobs that may delete it: write reservations                  *)
(* (tasks/storage_object_cleanup.py), media teardowns                      *)
(* (tasks/media_teardown.py, services/media_deletion.py) and the orphan    *)
(* sweep (tasks/storage_orphan_sweep.py).  The jobs are rows of JobQueue.  *)
(*                                                                         *)
(* The object store is not transactional: a write is started, lands later  *)
(* even if its process is gone by then, and a delete is a step of its own. *)
(* Every other action is one transaction, most of them under the lock of   *)
(* the media row.                                                          *)
(***************************************************************************)
EXTENDS Integers, Sequences, FiniteSets

CONSTANTS
  Workers, NoWorker, NoJob,
  Cleanups,    \* storage_object_cleanup jobs for the one path
  Teardowns,   \* media_teardown jobs, which are also the intents' ids
  Writers,     \* executions that write the path, one after the other
  MaxAttempts, \* max_attempts of both kinds
  Window,      \* storage_object_cleanup_write_window_seconds, in ticks
  PutTicks,    \* r2_read_timeout_seconds, in ticks
  Grace,       \* media_teardown_cleanup_grace_seconds, in ticks
  Windows,     \* the races that this instance opens
  MaxFaults,   \* bound: crashes, failures and lapsed leases of live workers
  MaxClaims    \* bound: a cleanup is claimed, a teardown repaired so often at most

\* config.py asks for PutTicks < Window; PutTicks <= Grace is its defaults.
ASSUME StorageAssumption ==
  /\ NoWorker \notin Workers /\ NoJob \notin Cleanups \cup Teardowns
  /\ Cleanups \cap Teardowns = {}
  /\ {MaxAttempts, Window, PutTicks} \subseteq Nat \ {0}
  /\ PutTicks < Window /\ PutTicks <= Grace
  /\ {Grace, MaxFaults, MaxClaims} \subseteq Nat
  /\ Windows \subseteq {"late", "stall", "repair", "sweep"}

VARIABLES
  row, worker, claims, spent, \* the queue's
  media,    \* the media row and what refers to it
  object,   \* whether the object exists
  cleanup,  \* cleanup[j]: payload["checkpoint"] of a cleanup job
  teardown, \* teardown[j]: payload["checkpoint"] of a teardown job
  writer,   \* writer[i]: where an execution stands
  sweeping, \* the sweep between its check and its delete
  faults,   \* history: how many faults there were
  exec      \* exec[w]: what the handler in w holds in memory

queue   == <<row, worker, claims, spent>>
payload == <<cleanup, teardown>>
rest    == <<sweeping, faults>>
vars == <<queue, media, object, payload, writer, rest, exec>>

Jobs == Cleanups \cup Teardowns

Larger(m, n) == IF m > n THEN m ELSE n

\* Both kinds set never_prune_dead; their retry delays are immaterial here.
Queue == INSTANCE JobQueue WITH
  Allowed <- [w \in Workers |-> Jobs], UnknownKind <- {}, NeverPruneDead <- Jobs,
  RetryDelays <- <<>>, LeaseTicks <- 1, MaxDelay <- Larger(Window, Grace)

-----------------------------------------------------------------------------
(* Data *)

NoIntent == NoJob

\* owned: path_has_live_db_owner; referenced: _total_reference_count > 0.
Media == [live: BOOLEAN, intent: Teardowns \cup {NoIntent}, owned: BOOLEAN, referenced: BOOLEAN]

Deleted == [live |-> FALSE, intent |-> NoIntent, owned |-> FALSE, referenced |-> FALSE]

CleanupCheckpoint == {"Armed", "Retained", "DeleteRequired", "Deleted"}

\* listed: the path is among storagePaths; notBefore: ticks to cleanupNotBefore.
Teardown == [kind: {"Unprepared", "PathsPrepared", "DeletionCommitted", "Voided", "NoOp", "Stale"},
             listed: BOOLEAN, notBefore: Nat]

Unprepared == [kind |-> "Unprepared", listed |-> FALSE, notBefore |-> 0]

\* A lost writer is gone, its write is still on its way.
InWrite == {"reserved", "putting", "put", "owning", "rejected"}
Writer == [pc: {"idle", "lost", "done", "discarded"} \cup InWrite, left: 0..PutTicks]

Executor == [at: {"none", "read", "resolve", "delete", "record", "prepare", "commit", "storage"},
             wait: Nat]
NotExecuting == [at |-> "none", wait |-> 0]

TypeOK ==
  /\ Queue!TypeOK
  /\ media \in Media
  /\ object \in BOOLEAN /\ sweeping \in BOOLEAN
  /\ cleanup \in [Cleanups -> CleanupCheckpoint]
  /\ teardown \in [Teardowns -> Teardown]
  /\ writer \in [Writers -> Writer]
  /\ exec \in [Workers -> Executor]
  /\ faults \in 0..MaxFaults

Init ==
  /\ Queue!Init
  /\ media = [live |-> TRUE, intent |-> NoIntent, owned |-> FALSE, referenced |-> TRUE]
  /\ object = FALSE
  /\ cleanup = [j \in Cleanups |-> "Armed"]
  /\ teardown = [j \in Teardowns |-> Unprepared]
  /\ writer = [i \in Writers |-> [pc |-> "idle", left |-> 0]]
  /\ sweeping = FALSE
  /\ faults = 0
  /\ exec = [w \in Workers |-> NotExecuting]

Fault == faults < MaxFaults /\ faults' = faults + 1

Nonterminal(j) == row[j].status \in {"pending", "running", "failed"}

\* find_nonterminal_jobs_for_payload
Reservations == {j \in Cleanups : Nonterminal(j)}

Unclaimed(j) == row[j].status = "pending" /\ row[j].claimedBy = NoWorker

-----------------------------------------------------------------------------
(* An in-process writer of the path *)

Move(i, pc) == writer' = [writer EXCEPT ![i].pc = pc]

\* The execution before it, if any, has lost its own job's claim: its write may
\* still land, its publication is refused.
Displaced(i) ==
  [x \in Writers |->
     IF x = i THEN [pc |-> "reserved", left |-> 0]
     ELSE IF writer[x].pc = "putting" THEN [writer[x] EXCEPT !.pc = "lost"]
     ELSE IF writer[x].pc \in InWrite THEN [pc |-> "done", left |-> 0]
     ELSE writer[x]]

\* Mutant of Rearm: a reservation that is there is not looked for.
RearmAnother(j) == Queue!Enqueue(j) /\ row'[j].wait = Window

\* enqueue_job(available_at = writeMayLandUntil), or update_unclaimed_job of the
\* reservation that is there.
Rearm(j) ==
  /\ \/ Reservations = {} /\ Queue!Enqueue(j)
     \/ j \in Reservations /\ Queue!UpdateUnclaimed(j)
  /\ row'[j].wait = Window

\* reserve_storage_object_write.  When it raises, nothing is written.
Reserve(i) ==
  /\ writer[i].pc = "idle"
  /\ media.live /\ media.intent = NoIntent
  /\ "sweep" \in Windows \/ ~sweeping
  /\ \E j \in Cleanups : Rearm(j) /\ cleanup' = [cleanup EXCEPT ![j] = "Armed"]
  /\ writer' = Displaced(i)
  /\ UNCHANGED <<media, object, teardown, rest, exec>>

OnlyWriterMoves == UNCHANGED <<queue, payload, rest, exec>>

StartPut(i) ==
  /\ writer[i].pc = "reserved"
  /\ writer' = [writer EXCEPT ![i] = [pc |-> "putting", left |-> PutTicks]]
  /\ UNCHANGED <<media, object>> /\ OnlyWriterMoves

\* put_object, copy_object: the write lands before the client's time-out.
Land(i) ==
  /\ writer[i].pc \in {"putting", "lost"} /\ writer[i].left > 0
  /\ object' = TRUE
  /\ writer' = [writer EXCEPT ![i] =
       [pc |-> IF writer[i].pc = "putting" THEN "put" ELSE "done", left |-> 0]]
  /\ UNCHANGED media /\ OnlyWriterMoves

\* The publication commits the owner of the path: it needs the media row, and
\* does not look for an intent.
Own(i) ==
  /\ writer[i].pc = "put"
  /\ media.live
  /\ media' = [media EXCEPT !.owned = TRUE]
  /\ Move(i, "owning")
  /\ UNCHANGED object /\ OnlyWriterMoves

\* What finalize_storage_object_write asks for before it marks a reservation.
Retainable(j) ==
  /\ media.live /\ media.intent = NoIntent /\ media.owned
  /\ Unclaimed(j)

\* finalize_storage_object_write, its transaction.
Finalize(i) ==
  /\ writer[i].pc = "owning"
  /\ \/ \E j \in Reservations :
          /\ Retainable(j)
          /\ Queue!UpdateUnclaimed(j) /\ row'[j].wait = 0
          /\ cleanup' = [cleanup EXCEPT ![j] = "Retained"]
          /\ Move(i, "done")
     \/ /\ \A j \in Reservations : ~Retainable(j)
        /\ Move(i, "rejected")
        /\ UNCHANGED <<queue, cleanup>>
  /\ UNCHANGED <<media, object, teardown, rest, exec>>

\* ... and the best-effort delete behind it; or a writer that gives up deletes
\* what it wrote (upload.py), unless the path is published by then.
Discard(i) ==
  /\ writer[i].pc = "rejected" \/ (writer[i].pc = "put" /\ ~media.owned)
  /\ object' \in {FALSE, object}
  /\ Move(i, IF writer[i].pc = "rejected" THEN "discarded" ELSE "done")
  /\ UNCHANGED media /\ OnlyWriterMoves

\* The process dies, or a time-out ends the call but not the write.
LoseWriter(i) ==
  /\ writer[i].pc \in InWrite
  /\ Move(i, IF writer[i].pc = "putting" THEN "lost" ELSE "done")
  /\ UNCHANGED <<media, object>> /\ OnlyWriterMoves

WriterStep(i) ==
  Reserve(i) \/ StartPut(i) \/ Land(i) \/ Own(i) \/ Finalize(i) \/ Discard(i) \/ LoseWriter(i)

-----------------------------------------------------------------------------
(* References and the teardown claim *)

OnlyMediaMoves == UNCHANGED <<queue, object, payload, writer, rest, exec>>

\* ensure_entry and its like: refused with E_MEDIA_DELETING under an intent.
AddReference ==
  /\ media.live /\ media.intent = NoIntent /\ ~media.referenced
  /\ media' = [media EXCEPT !.referenced = TRUE]
  /\ OnlyMediaMoves

\* delete_duplicate_document_media: the loser's grants move to this media, which
\* is not asked for an intent.
RepointGrants ==
  /\ media.live /\ media.intent # NoIntent /\ ~media.referenced
  /\ media' = [media EXCEPT !.referenced = TRUE]
  /\ OnlyMediaMoves

\* remove_media_for_viewer: the last reference goes and claim_media_teardown
\* installs the intent and its job, in one transaction.
ClaimTeardown(t) ==
  /\ media.live /\ media.intent = NoIntent
  /\ Queue!Enqueue(t) /\ row'[t].wait = 0
  /\ media' = [media EXCEPT !.intent = t, !.referenced = FALSE]
  /\ UNCHANGED <<object, payload, writer, rest, exec>>

-----------------------------------------------------------------------------
(* How a handler goes on and ends *)

At(w, point) == worker[w].pc = "executing" /\ exec[w].at = point
Go(w, point) == exec' = [exec EXCEPT ![w].at = point]
Leave(w)     == exec' = [exec EXCEPT ![w] = NotExecuting]

End(w, pc) == Queue!Goto(w, pc) /\ Leave(w) /\ UNCHANGED <<row, claims, spent>>

\* RescheduleRequested(available_at = now + wait)
AskAgain(w, wait) ==
  /\ Queue!Goto(w, "rescheduling")
  /\ exec' = [exec EXCEPT ![w] = [at |-> "none", wait |-> wait]]
  /\ UNCHANGED <<row, claims, spent>>

\* The RuntimeError of a handler whose checkpoint finds the lease lost.
LoseLease(w) ==
  /\ ~Queue!ClaimIsCurrent(w)
  /\ End(w, "failing")
  /\ UNCHANGED <<media, object, payload, writer, rest>>

\* A transaction that update_running_job_payload lets commit, or not.
Fenced(w, tx) == (Queue!ClaimIsCurrent(w) /\ tx) \/ LoseLease(w)

\* Mutant of TerminalCheckpoints: what is decided counts as done.
DecidedCheckpoints == {"Retained", "Deleted", "DeleteRequired"}

TerminalCheckpoints == {"Retained", "Deleted"}

\* get_job: the checkpoint decides what this invocation does.
Read(w) ==
  LET j == worker[w].job IN
  /\ At(w, "read")
  /\ IF j \in Cleanups
     THEN CASE cleanup[j] \in TerminalCheckpoints -> End(w, "completing")
            [] cleanup[j] = "DeleteRequired" -> Go(w, "delete") /\ UNCHANGED queue
            [] OTHER -> Go(w, "resolve") /\ UNCHANGED queue
     ELSE CASE teardown[j].kind = "Unprepared" -> Go(w, "prepare") /\ UNCHANGED queue
            [] teardown[j].kind = "PathsPrepared" -> Go(w, "commit") /\ UNCHANGED queue
            [] teardown[j].kind = "DeletionCommitted" -> Go(w, "storage") /\ UNCHANGED queue
            [] OTHER -> End(w, "completing")
  /\ UNCHANGED <<media, object, payload, writer, rest>>

-----------------------------------------------------------------------------
(* The handler storage_object_cleanup *)

\* Mutant of Held: an owner is not looked for.
HeldIfNoIntent(j) == media.intent = NoIntent /\ Reservations \subseteq {j}

Owned == media.owned /\ media.intent = NoIntent
Held(j) == media.intent = NoIntent /\ ~media.owned /\ Reservations \subseteq {j}

\* _resolve_armed, under the lock of the media row.
Resolve(w) ==
  LET j == worker[w].job IN
  /\ At(w, "resolve")
  /\ CASE Held(j) -> Fenced(w, /\ cleanup' = [cleanup EXCEPT ![j] = "DeleteRequired"]
                               /\ Go(w, "delete")
                               /\ UNCHANGED <<queue, media, object, teardown, writer, rest>>)
       [] ~Held(j) /\ Owned -> Fenced(w, /\ cleanup' = [cleanup EXCEPT ![j] = "Retained"]
                                         /\ End(w, "completing")
                                         /\ UNCHANGED <<media, object, teardown, writer, rest>>)
       [] OTHER -> AskAgain(w, Window) /\ UNCHANGED <<media, object, payload, writer, rest>>

\* _perform_delete: the object, outside any transaction and without a fence, ...
\* Unless the instance opens that window, a worker that stalled past its lease
\* fails here.
DeleteObject(w) ==
  /\ At(w, "delete")
  /\ \/ /\ "stall" \in Windows \/ Queue!ClaimIsCurrent(w)
        /\ object' = FALSE
        /\ Go(w, "record")
        /\ UNCHANGED <<queue, media, payload, writer, rest>>
     \/ "stall" \notin Windows /\ LoseLease(w)

\* ... then the checkpoint.
RecordDeleted(w) ==
  /\ At(w, "record")
  /\ Fenced(w, /\ cleanup' = [cleanup EXCEPT ![worker[w].job] = "Deleted"]
               /\ End(w, "completing")
               /\ UNCHANGED <<media, object, teardown, writer, rest>>)

-----------------------------------------------------------------------------
(* The handler media_teardown *)

\* Mutant of WriteMayLandFor: the writers' windows are not looked at.
WriteMayLandForNobody == 0

\* The latest writeMayLandUntil of the reservations, as ticks from now.  A
\* reservation marked Retained keeps its writeMayLandUntil, but is due at once.
WriteMayLandFor ==
  CHOOSE n \in 0..Window :
    /\ \A j \in Reservations : row[j].wait <= n
    /\ n = 0 \/ \E j \in Reservations : row[j].wait = n

\* storagePaths and cleanupNotBefore.
Plan == [kind |-> "PathsPrepared",
         listed |-> media.owned \/ Reservations # {},
         notBefore |-> Larger(Grace, WriteMayLandFor)]

\* NoOp and Stale of _prepare, and of _commit_or_void.
NotMine(t) == [Unprepared EXCEPT !.kind = IF media.intent = NoIntent THEN "NoOp" ELSE "Stale"]

\* A media that is absent is a defect.
Absent(w) == ~media.live /\ End(w, "failing") /\ UNCHANGED <<media, object, payload, writer, rest>>

Checkpoint(w, t, state) ==
  /\ teardown' = [teardown EXCEPT ![t] = state]
  /\ IF state.kind = "PathsPrepared" THEN AskAgain(w, 0)
     ELSE IF state.kind = "DeletionCommitted" THEN AskAgain(w, state.notBefore)
     ELSE End(w, "completing")
  /\ UNCHANGED <<object, cleanup, writer, rest>>

\* _prepare, under the lock of the media row.
PreparePaths(w) ==
  LET t == worker[w].job IN
  /\ At(w, "prepare")
  /\ \/ Absent(w)
     \/ /\ media.live
        /\ Fenced(w, /\ Checkpoint(w, t, IF media.intent = t THEN Plan ELSE NotMine(t))
                     /\ UNCHANGED media)

\* _commit_or_void: serializable, every row of the media in one transaction.
CommitOrVoid(w) ==
  LET t == worker[w].job IN
  /\ At(w, "commit")
  /\ \/ Absent(w)
     \/ /\ media.live
        /\ IF media.intent # t
           THEN Fenced(w, Checkpoint(w, t, NotMine(t)) /\ UNCHANGED media)
           ELSE IF media.referenced
           THEN Fenced(w, /\ Checkpoint(w, t, [Unprepared EXCEPT !.kind = "Voided"])
                          /\ media' = [media EXCEPT !.intent = NoIntent])
           ELSE Fenced(w, /\ Checkpoint(w, t, [teardown[t] EXCEPT !.kind = "DeletionCommitted"])
                          /\ media' = Deleted)

\* _cleanup_storage: no fence, the paths of the payload.
DeletePaths(w) ==
  LET t == worker[w].job IN
  /\ At(w, "storage")
  /\ IF teardown[t].notBefore > 0
     THEN AskAgain(w, teardown[t].notBefore) /\ UNCHANGED object
     ELSE End(w, "completing") /\ object' = (object /\ ~teardown[t].listed)
  /\ UNCHANGED <<media, payload, writer, rest>>

-----------------------------------------------------------------------------
(* The worker around the handlers *)

\* Mutant of Voids: the dead-letter hook of a teardown does nothing.
VoidsNothing(j) == FALSE

\* dead_letter_media_teardown, in the transaction that makes the row dead.
Voids(j) == j \in Teardowns /\ media.intent = j

DeadLettered(j) ==
  media' = IF row'[j].status = "dead" /\ Voids(j)
           THEN [media EXCEPT !.intent = NoIntent] ELSE media

OnlyQueueMoves == UNCHANGED <<media, object, payload, writer, rest, exec>>

Take(w, j) ==
  \/ /\ j \in Cleanups => claims[j] < MaxClaims
     /\ Queue!Claim(w, j) /\ OnlyQueueMoves
  \/ /\ Queue!DeadLetterExpired(w, j) /\ DeadLettered(j)
     /\ UNCHANGED <<object, payload, writer, rest, exec>>

EnterHandler(w) ==
  /\ Queue!Start(w)
  /\ IF Queue!Owns(w, worker[w].job) THEN Go(w, "read") ELSE UNCHANGED exec
  /\ UNCHANGED <<media, object, payload, writer, rest>>

HandlerStep(w) ==
  \/ Read(w)
  \/ Resolve(w) \/ DeleteObject(w) \/ RecordDeleted(w)
  \/ PreparePaths(w) \/ CommitOrVoid(w) \/ DeletePaths(w)

Reschedule(w) ==
  LET j == worker[w].job IN
  /\ Queue!Reschedule(w)
  /\ Queue!ClaimIsCurrent(w) => row'[j].wait = exec[w].wait
  /\ Leave(w)
  /\ UNCHANGED <<media, object, payload, writer, rest>>

Settle(w) ==
  \/ Queue!Complete(w) /\ OnlyQueueMoves
  \/ Reschedule(w)
  \/ /\ Queue!Fail(w) /\ DeadLettered(worker[w].job)
     /\ UNCHANGED <<object, payload, writer, rest, exec>>

\* The object store fails, or anything else raises.
Defect(w) ==
  /\ worker[w].pc = "executing" /\ Fault
  /\ End(w, "failing")
  /\ UNCHANGED <<media, object, payload, writer, sweeping>>

Crash(w) ==
  /\ worker[w].pc # "idle" /\ Fault
  /\ Queue!Crash(w)
  /\ Leave(w)
  /\ UNCHANGED <<media, object, payload, writer, sweeping>>

\* requeue_dead_job, by an operator who looks first, unless the instance opens
\* that window: the path of a dead cleanup has no writer and no owner.
Repair(j) ==
  /\ "repair" \in Windows \/ j \in Teardowns
       \/ (Reservations = {} /\ ~media.owned /\ \A i \in Writers : writer[i].pc \notin InWrite)
  /\ Queue!RequeueDead(j)
  /\ OnlyQueueMoves

-----------------------------------------------------------------------------
(* The orphan sweep, and time *)

\* storage_orphan_sweep finds an object that is a day old: no write is under way.
SweepFinds ==
  /\ ~sweeping /\ object /\ ~media.owned /\ Reservations = {}
  /\ \A i \in Writers : writer[i].pc \notin InWrite \cup {"lost"}
  /\ sweeping' = TRUE
  /\ UNCHANGED <<faults, queue, media, object, payload, writer, exec>>

SweepDeletes ==
  /\ sweeping
  /\ sweeping' = FALSE /\ object' = FALSE
  /\ UNCHANGED <<faults, queue, media, payload, writer, exec>>

\* Unless the instance opens that window, no writer is slower than its
\* reservation: it starts its write with the client's time-out left, and has
\* finished before the reservation falls due.
Timely ==
  "late" \in Windows
  \/ \A i \in Writers, j \in Reservations :
       writer[i].pc \in InWrite =>
         row[j].wait \notin 1..(IF writer[i].pc = "reserved" THEN PutTicks ELSE 1)

Tick ==
  /\ Timely
  /\ IF \E w \in Workers : Queue!ClaimIsCurrent(w) THEN Fault ELSE UNCHANGED faults
  /\ \A i \in Writers : writer[i].pc = "putting" => writer[i].left > 1
  /\ \/ Queue!Tick
     \/ /\ \/ \E t \in Teardowns : teardown[t].notBefore > 0
           \/ \E i \in Writers : writer[i].left > 0
        /\ \A j \in Jobs : row[j].lease = 0 /\ row[j].wait = 0
        /\ UNCHANGED queue
  /\ teardown' = [t \in Teardowns |-> [teardown[t] EXCEPT !.notBefore = Queue!Elapse(@)]]
  /\ writer' = [i \in Writers |-> [writer[i] EXCEPT !.left = Queue!Elapse(@)]]
  /\ UNCHANGED <<media, object, cleanup, sweeping, exec>>

-----------------------------------------------------------------------------

WorkerStep(w) ==
  \/ \E j \in Jobs : Take(w, j)
  \/ EnterHandler(w) \/ HandlerStep(w) \/ Settle(w) \/ Defect(w) \/ Crash(w)

Next ==
  \/ \E i \in Writers : WriterStep(i)
  \/ AddReference \/ RepointGrants \/ \E t \in Teardowns : ClaimTeardown(t)
  \/ \E w \in Workers : WorkerStep(w)
  \/ \E j \in Jobs : Repair(j)
  \/ SweepFinds \/ SweepDeletes
  \/ Tick

Spec == Init /\ [][Next]_vars

-----------------------------------------------------------------------------
(* Properties *)

\* The object of a media that is not being deleted is there from the commit of
\* its owner on, and when a teardown is voided it is there again.
OwnedObjectExists == media.owned /\ media.intent = NoIntent => object

\* No job takes it away: whatever reservations lapse, teardowns are voided and
\* dead rows are repaired, no cleanup, teardown or sweep that decided before the
\* commit of the owner deletes after it.  Only a writer's own rejection may.
JobsKeepOwnedObject ==
  OwnedObjectExists \/ \E i \in Writers : writer[i].pc = "discarded"

\* An object nobody owns has a job that will still delete it, or a dead one an
\* operator can find: no order of writes, retries and teardowns leaves an
\* object to the sweep alone.
NoUnwatchedOrphan ==
  object /\ ~media.owned =>
    \/ \E j \in Cleanups : row[j].status # "absent" /\ row[j].status # "succeeded"
    \/ \E t \in Teardowns : /\ teardown[t].kind = "DeletionCommitted" /\ teardown[t].listed
                            /\ row[t].status # "succeeded"

\* DeleteRequired is an exclusive hold on the path: while it stands no other
\* reservation is open, and no writer that reserved is at work.
HoldIsExclusive ==
  \A j \in Cleanups : Nonterminal(j) /\ cleanup[j] = "DeleteRequired" =>
    Reservations = {j} /\ \A i \in Writers : writer[i].pc \notin InWrite

\* A media marked as deleting has a job that will delete it or void the mark:
\* the intent, the job and the dead-letter hook never come apart, so that no
\* media stays hidden and undeletable.
IntentHasJob == media.intent # NoIntent => Nonterminal(media.intent)

\* Once a media is gone and its teardown has finished, no write that was under
\* way brings its object back (cleanupNotBefore).
NothingComesBack ==
  \A t \in Teardowns :
    teardown[t].kind = "DeletionCommitted" /\ row[t].status = "succeeded" =>
      \A i \in Writers : writer[i].left = 0

=============================================================================
