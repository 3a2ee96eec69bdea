------------------------------ MODULE ChatRun ------------------------------
(***************************************************************************)
(* One durable chat run and the job that executes it: the chat_runs row,   *)
(* its event stream, its call ledger, and the step journal kept in the     *)
(* payload of its background_jobs row (services/chat_runs.py,              *)
(* chat_run_steps.py, durable_step_journal.py, tasks/chat_run.py).  The    *)
(* queue is the module JobQueue with this one job.                         *)
(*                                                                         *)
(* A run is a loop of turns: one generation, which answers, fails, or asks *)
(* for a tool; then the tool; then the next turn.  Every action is one     *)
(* transaction of the executor, or one effect outside the database.        *)
(* Between two of them the worker may crash, stall until its lease lapses, *)
(* and go on.                                                              *)
(***************************************************************************)
EXTENDS Integers, Sequences, FiniteSets

CONSTANTS
  Workers, NoWorker, NoJob,
  job,          \* the chat_run job
  MaxAttempts,  \* its max_attempts
  Turns,        \* MAX_TOOL_ITERATIONS
  Tools,        \* the tool families a generation may ask for
  Windows,      \* the races between two transactions that this instance opens
  MaxClaims     \* bound: after so many claims no fault and no repair happens

ASSUME ChatAssumption ==
  /\ NoWorker \notin Workers
  /\ NoJob # job
  /\ MaxAttempts \in Nat \ {0}
  /\ Turns \in Nat \ {0}
  /\ Tools \subseteq {"lookup", "search", "write"}
  /\ Windows \subseteq {"stall", "cancel", "projection"}
  /\ MaxClaims \in Nat

VARIABLES
  row, worker, claims, spent,  \* the queue's
  run,      \* the chat_runs row and the end of its event stream
  journal,  \* payload["coordination"] of the job's row
  exec,     \* exec[w]: what the handler in w holds in memory
  calls,    \* the rows of llm_calls for this run, as far as they are looked up
  canceller, \* a cancel request between its reads and its commit
  reader,   \* a projection between its read of the run and of the job
  sent,     \* history: how often the request of a step left for its provider
  proofs,   \* history: how often an operator proved that it did not
  written   \* history: how often a step's write was committed

queue   == <<row, worker, claims, spent>>
clients == <<canceller, reader>>
history == <<sent, proofs, written>>
vars == <<queue, run, journal, exec, calls, clients, history>>

\* chat_run sets never_prune_dead; waits and retry delays are immaterial here.
Queue == INSTANCE JobQueue WITH
  Jobs <- {job}, Allowed <- [w \in Workers |-> {job}], UnknownKind <- {},
  NeverPruneDead <- {job}, RetryDelays <- <<>>, LeaseTicks <- 1, MaxDelay <- 0

-----------------------------------------------------------------------------
(* Data *)

ActiveRun   == {"queued", "running"}
TerminalRun == {"complete", "error", "cancelled"}

Prepare       == <<"prepare", 0>>
Generation(t) == <<"generation", t>>
ToolStep(t)   == <<"tool", t>>
Publication   == <<"publication", 0>>
Generations   == {Generation(t) : t \in 1..Turns}
ToolSteps     == {ToolStep(t) : t \in 1..Turns}
Steps         == {Prepare, Publication} \cup Generations \cup ToolSteps

\* What a generation may end in: an AssistantTurn without or with a tool call,
\* an ExpectedFailure, a CancelledGeneration.
AssistantTurn == {"answer"} \cup Tools
Results       == AssistantTurn \cup {"failed", "cancelled"}

\* StepReplayState: only a completed step has a result.
Unknown   == [phase |-> "unknown", result |-> "none"]
Prepared  == [phase |-> "Prepared", result |-> "none"]
Uncertain == [phase |-> "Uncertain", result |-> "none"]
Completed(result) == [phase |-> "Completed", result |-> result]
StepState == {Unknown, Prepared, Uncertain} \cup
             {Completed(r) : r \in Results \cup {"done"}}

\* The payload {"run_id": ...}, without any journal.
Cleared == [p \in Steps |-> Unknown]

Points == {"none", "load", "clear", "mark", "entry", "prepare", "turn",
           "generate", "call", "reserve", "send", "stream", "record", "fold",
           "tool", "use", "effect", "store", "used", "closing", "publish",
           "publishing", "cancel"}

\* at: the next statement; seen: run.status in the session's identity map.
Executor == [at: Points, turn: 0..Turns, seen: ActiveRun \cup TerminalRun \cup {"none"},
             journal: [Steps -> StepState], call: 0..Turns,
             result: Results \cup {"none"}]

NotExecuting == [at |-> "none", turn |-> 0, seen |-> "none", journal |-> Cleared,
                 call |-> 0, result |-> "none"]

TypeOK ==
  /\ Queue!TypeOK
  /\ run \in [status: {"absent"} \cup ActiveRun \cup TerminalRun, cancel: BOOLEAN,
              tail: {"none", "event", "done"}, dones: Nat]
  /\ journal \in [Steps -> StepState]
  /\ exec \in [Workers -> Executor]
  /\ calls \in Seq([turn: 1..Turns, outcome: {"open", "succeeded", "failed"}])
  /\ canceller \in BOOLEAN
  /\ reader \in {"idle", "loaded", "defect"}
  /\ {sent, proofs} \subseteq [Generations \cup ToolSteps -> Nat]
  /\ written \in [ToolSteps -> Nat]

Init ==
  /\ Queue!Init
  /\ run = [status |-> "absent", cancel |-> FALSE, tail |-> "none", dones |-> 0]
  /\ journal = Cleared
  /\ exec = [w \in Workers |-> NotExecuting]
  /\ calls = <<>>
  /\ canceller = FALSE
  /\ reader = "idle"
  /\ sent = [p \in Generations \cup ToolSteps |-> 0]
  /\ proofs = [p \in Generations \cup ToolSteps |-> 0]
  /\ written = [p \in ToolSteps |-> 0]

Active == run.status \in ActiveRun
FaultsLeft == claims[job] < MaxClaims

-----------------------------------------------------------------------------
(* The ways a step of the executor ends *)

At(w, point) == worker[w].pc = "executing" /\ exec[w].at = point
Go(w, point) == exec' = [exec EXCEPT ![w].at = point]
Leave(w)     == exec' = [exec EXCEPT ![w] = NotExecuting]

\* execute_generation_stream's finally clause closes the ledger row of a call
\* that did not reach its end.
CallsClosed(w, outcome) ==
  IF exec[w].call \in DOMAIN calls /\ calls[exec[w].call].outcome = "open"
  THEN [calls EXCEPT ![exec[w].call].outcome = outcome]
  ELSE calls

\* A defect escapes to the queue: UncertainChatStep, LostChatJobLease, ...
Raise(w) ==
  /\ Queue!Goto(w, "failing")
  /\ Leave(w)
  /\ calls' = CallsClosed(w, "failed")
  /\ UNCHANGED <<row, claims, spent, run, journal, clients, history>>

\* Mutant of Fenced: nobody asks for the lease.
Unfenced(w, tx) == tx

\* update_running_job_payload and lock_running_job_claim: the transaction
\* commits only under the live claim of this very attempt.
Fenced(w, tx) == Queue!ClaimIsCurrent(w) /\ tx

LoseLease(w) == ~Queue!ClaimIsCurrent(w) /\ Raise(w)

\* Mutant of Checkpoint: the step is written into an empty coordination map.
CheckpointAlone(w, p, state, point) ==
  LET copy == [Cleared EXCEPT ![p] = state] IN
  /\ journal' = copy
  /\ exec' = [exec EXCEPT ![w] = [@ EXCEPT !.journal = copy, !.at = point]]

\* _checkpoint: the whole payload is replaced by the executor's copy of it.
Checkpoint(w, p, state, point) ==
  LET copy == [exec[w].journal EXCEPT ![p] = state] IN
  /\ journal' = copy
  /\ exec' = [exec EXCEPT ![w] = [@ EXCEPT !.journal = copy, !.at = point]]

\* append_run_event and append_and_commit.
Appended(r) == [r EXCEPT !.tail = "event"]

\* Mutant of Finalized: an error is told to the client, not to the run.
FinalizedOnlyInEvents(r, seen, status) ==
  [r EXCEPT !.status = IF status = "error" THEN @ ELSE status,
            !.tail = "done", !.dones = @ + 1]

\* finalize_run: a no-op on a run the session believes terminal.
Finalized(r, seen, status) ==
  IF seen \in TerminalRun THEN r
  ELSE [r EXCEPT !.status = status, !.tail = "done", !.dones = @ + 1]

\* finalize_run(commit=False) and clear(), one transaction, and the handler
\* returns.
FinalizeAndClear(w, status) ==
  /\ run' = Finalized(run, exec[w].seen, status)
  /\ journal' = Cleared
  /\ Queue!Goto(w, "completing")
  /\ Leave(w)
  /\ UNCHANGED <<row, claims, spent, calls, clients, history>>

-----------------------------------------------------------------------------
(* The API *)

\* create_chat_run: the run, its meta event and its job, in one transaction.
CreateRun ==
  /\ run.status = "absent"
  /\ run' = Appended([run EXCEPT !.status = "queued"])
  /\ Queue!Enqueue(job)
  /\ UNCHANGED <<journal, exec, calls, clients, history>>

\* cancel_chat_run of a suspended run: the flag and the repair of the locked
\* dead job, in one transaction.
CancelSuspended ==
  /\ Active
  /\ run' = [run EXCEPT !.cancel = TRUE]
  /\ Queue!RequeueDead(job)
  /\ UNCHANGED <<journal, exec, calls, clients, history>>

\* cancel_chat_run when it finds no dead job.  The flag becomes visible only
\* with its commit: autoflush is off.
BeginCancel ==
  /\ Active /\ ~run.cancel
  /\ row[job].status # "dead"
  /\ IF "cancel" \in Windows
     THEN canceller' = TRUE /\ UNCHANGED run
     ELSE run' = [run EXCEPT !.cancel = TRUE] /\ UNCHANGED canceller
  /\ UNCHANGED <<queue, journal, exec, calls, reader, history>>

CommitCancel ==
  /\ canceller
  /\ canceller' = FALSE
  /\ run' = [run EXCEPT !.cancel = TRUE]
  /\ UNCHANGED <<queue, journal, exec, calls, reader, history>>

\* chat_run_execution_phase reads the run, ...
LoadForProjection ==
  /\ "projection" \in Windows
  /\ reader = "idle" /\ Active
  /\ reader' = "loaded"
  /\ UNCHANGED <<queue, run, journal, exec, calls, canceller, history>>

\* ... then its job, in a statement of its own.
Project ==
  /\ reader = "loaded"
  /\ reader' = IF row[job].status \in {"pending", "running", "failed", "dead"}
               THEN "idle" ELSE "defect"
  /\ UNCHANGED <<queue, run, journal, exec, calls, canceller, history>>

-----------------------------------------------------------------------------
(* The operator *)

\* requeue_dead_job, after the cause of a defect is fixed.
Repair ==
  /\ Queue!RequeueDead(job)
  /\ UNCHANGED <<run, journal, exec, calls, clients, history>>

\* reconcile_uncertain_chat_step(ProveNotDispatched).  Nothing checks the
\* operator's evidence.
ProveNotDispatched(p) ==
  /\ journal[p] = Uncertain
  /\ Queue!RequeueDead(job)
  /\ journal' = [journal EXCEPT ![p] = Prepared]
  /\ proofs' = [proofs EXCEPT ![p] = @ + 1]
  /\ UNCHANGED <<run, exec, calls, clients, sent, written>>

\* _validate_reconciled_domain_facts: call_seq = turn + 1, counted from zero.
\* For a tool step it asks for the tool_result event, which is committed with
\* Completed and never before: an uncertain tool step never passes.
Validated(t, result) ==
  /\ Active
  /\ t \in DOMAIN calls
  /\ calls[t].outcome # "open"
  /\ result \in AssistantTurn => calls[t].outcome = "succeeded"

\* reconcile_uncertain_chat_step(AttachReconciledResult)
AttachResult(t, result) ==
  /\ journal[Generation(t)] = Uncertain
  /\ Validated(t, result)
  /\ Queue!RequeueDead(job)
  /\ journal' = [journal EXCEPT ![Generation(t)] = Completed(result)]
  /\ UNCHANGED <<run, exec, calls, clients, history>>

-----------------------------------------------------------------------------
(* The worker around the handler: JobQueue's steps, and chat's dead-letter   *)
(* hook in the transaction that makes its row dead                           *)

\* Mutant of Recalled: a requested cancellation is left suspended.
NeverRecalled == FALSE

\* record_dead_lettered_chat_run: a run whose cancellation is requested gets
\* its job back, to fold it.
Recalled == Active /\ run.cancel

Requeued == Queue!Unclaimed("pending", 0, 0, TRUE)

\* fail_job, then the hook.
FailRow(w) ==
  IF Queue!Owns(w, job) /\ row[job].attempts >= MaxAttempts /\ Recalled
  THEN /\ row' = [row EXCEPT ![job] = Requeued]
       /\ spent' = [spent EXCEPT ![job] = 0]
  ELSE Queue!FailRow(w, 0)

Fail(w) ==
  /\ worker[w].pc = "failing"
  /\ FailRow(w)
  /\ Queue!Return(w)
  /\ UNCHANGED claims

SettleOutcomeUnknown(w) ==
  /\ FaultsLeft
  /\ \/ worker[w].pc = "completing" /\ UNCHANGED spent
        /\ (Queue!CompleteRow(w) \/ UNCHANGED row)
     \/ worker[w].pc = "failing" /\ FailRow(w)
  /\ Queue!Goto(w, "failing")
  /\ UNCHANGED claims

DeadLetterExpired(w) ==
  IF Recalled
  THEN /\ worker[w].pc = "idle"
       /\ row[job].status = "running" /\ ~Queue!LeaseLive(job)
       /\ row[job].attempts >= MaxAttempts
       /\ row' = [row EXCEPT ![job] = Requeued]
       /\ spent' = [spent EXCEPT ![job] = 0]
       /\ UNCHANGED <<worker, claims>>
  ELSE Queue!DeadLetterExpired(w, job)

OnlyQueueMoves == UNCHANGED <<run, journal, exec, calls, clients, history>>

Take(w) == (Queue!Claim(w, job) \/ DeadLetterExpired(w)) /\ OnlyQueueMoves

Settle(w) == (Queue!Complete(w) \/ Fail(w)) /\ OnlyQueueMoves

Interference(w) == (Queue!Heartbeat(w) \/ SettleOutcomeUnknown(w)) /\ OnlyQueueMoves

EnterHandler(w) ==
  /\ Queue!Start(w)
  /\ IF Queue!Owns(w, job) THEN Go(w, "load") ELSE UNCHANGED exec
  /\ UNCHANGED <<run, journal, calls, clients, history>>

\* The process dies.  Nothing is rolled forward, no ledger row is closed.
Crash(w) ==
  /\ FaultsLeft
  /\ Queue!Crash(w)
  /\ Leave(w)
  /\ UNCHANGED <<run, journal, calls, clients, history>>

-----------------------------------------------------------------------------
(* The executor: _execute_chat_run *)

Quiet == UNCHANGED <<queue, run, calls, clients, history>>

\* Mutant of Load: a run that has its outcome is executed again.
LoadAnyway(w) ==
  /\ At(w, "load")
  /\ exec' = [exec EXCEPT ![w] = [@ EXCEPT !.at = "mark", !.seen = run.status,
                                          !.journal = journal]]
  /\ UNCHANGED journal /\ Quiet

\* get_job and db.get(ChatRun): the only reads of the journal and of the
\* status that the handler ever makes; the session never refreshes the run.
Load(w) ==
  /\ At(w, "load")
  /\ exec' = [exec EXCEPT ![w] = [@ EXCEPT !.at = IF Active THEN "mark" ELSE "clear",
                                          !.seen = run.status, !.journal = journal]]
  /\ UNCHANGED journal /\ Quiet

\* A terminal run: its journal is cleared, the execution is skipped.
Clear(w) ==
  /\ At(w, "clear")
  /\ \/ Fenced(w, /\ journal' = Cleared
                  /\ Queue!Goto(w, "completing")
                  /\ Leave(w)
                  /\ UNCHANGED <<row, claims, spent, run, calls, clients, history>>)
     \/ LoseLease(w)

\* mark_running: no lease is asked for, and the status it compares with is the
\* one Load saw.
MarkRunning(w) ==
  /\ At(w, "mark")
  /\ run' = IF exec[w].seen = "queued" THEN [run EXCEPT !.status = "running"] ELSE run
  /\ exec' = [exec EXCEPT ![w] = [@ EXCEPT !.at = "entry", !.seen = "running"]]
  /\ UNCHANGED <<queue, journal, calls, clients, history>>

\* is_cancel_requested, at each of the places that ask it: before the run is
\* prepared, before a turn, after a tool, before publication.
AskCancel(w, point, goOn, turn) ==
  /\ At(w, point)
  /\ exec' = [exec EXCEPT ![w] = [@ EXCEPT !.at = IF run.cancel THEN "cancel" ELSE goOn,
                                          !.turn = IF run.cancel THEN exec[w].turn ELSE turn,
                                          !.result = "none", !.call = 0]]
  /\ UNCHANGED journal /\ Quiet

\* The last turn ends in publication, whatever it asked for.
CancelCheck(w) ==
  \/ AskCancel(w, "entry", "prepare", 0)
  \/ AskCancel(w, "turn", "generate", exec[w].turn)
  \/ IF exec[w].turn < Turns
     THEN AskCancel(w, "used", "turn", exec[w].turn + 1)
     ELSE AskCancel(w, "used", "closing", exec[w].turn)
  \/ AskCancel(w, "closing", "publish", exec[w].turn)

FinalizeCancelled(w) ==
  /\ At(w, "cancel")
  /\ \/ Fenced(w, FinalizeAndClear(w, "cancelled"))
     \/ LoseLease(w)

\* _prepare_chat_run: replayed, or done and journaled in one transaction.
PrepareRun(w) ==
  /\ At(w, "prepare")
  /\ IF exec[w].journal[Prepare].phase = "Completed"
     THEN /\ exec' = [exec EXCEPT ![w] = [@ EXCEPT !.at = "turn", !.turn = 1]]
          /\ UNCHANGED journal /\ Quiet
     ELSE \/ Fenced(w, /\ journal' = [exec[w].journal EXCEPT ![Prepare] = Completed("done")]
                       /\ exec' = [exec EXCEPT ![w] = [@ EXCEPT !.at = "turn", !.turn = 1,
                                                               !.journal = journal']]
                       /\ Quiet)
          \/ LoseLease(w)

\* ContextBudgetError
ContextTooLarge(w) ==
  /\ At(w, "prepare")
  /\ exec[w].journal[Prepare] = Unknown
  /\ \/ Fenced(w, FinalizeAndClear(w, "error"))
     \/ LoseLease(w)

\* ChatStepRuntime.read of a BilledOnce step whose outcome nobody knows.
Interrupted(state) == state = Uncertain

\* read and, the first time, prepare: step p goes on at the point ready, or is
\* replayed at the point replay.
ReadStep(w, point, p, ready, replay) ==
  LET state == exec[w].journal[p] IN
  /\ At(w, point)
  /\ \/ Interrupted(state) /\ Raise(w)
     \/ /\ ~Interrupted(state) /\ state # Unknown
        /\ exec' = [exec EXCEPT ![w] = [@ EXCEPT
             !.at = IF state.phase = "Completed" THEN replay ELSE ready,
             !.result = IF p = Generation(exec[w].turn) THEN state.result ELSE exec[w].result]]
        /\ UNCHANGED journal /\ Quiet
     \/ /\ state = Unknown
        /\ \/ Fenced(w, Checkpoint(w, p, Prepared, ready) /\ Quiet)
           \/ LoseLease(w)

GenerationOf(w) == Generation(exec[w].turn)
ToolOf(w) == ToolStep(exec[w].turn)

\* start_call: the next call_seq of this run, in a transaction of its own.
\* Only the first Turns rows are ever looked up.
StartCall(w) ==
  /\ At(w, "call")
  /\ IF Len(calls) < Turns
     THEN /\ calls' = Append(calls, [turn |-> exec[w].turn, outcome |-> "open"])
          /\ exec' = [exec EXCEPT ![w] = [@ EXCEPT !.at = "reserve", !.call = Len(calls) + 1]]
     ELSE /\ exec' = [exec EXCEPT ![w] = [@ EXCEPT !.at = "reserve", !.call = 0]]
          /\ UNCHANGED calls
  /\ UNCHANGED <<queue, run, journal, clients, history>>

\* A rejected plan, or no token budget: an expected failure, nothing is sent.
Refuse(w) ==
  /\ At(w, "reserve")
  /\ exec' = [exec EXCEPT ![w] = [@ EXCEPT !.at = "record", !.result = "failed"]]
  /\ calls' = CallsClosed(w, "failed")
  /\ UNCHANGED <<queue, run, journal, clients, history>>

\* before_dispatch: mark_uncertain, committed before the request leaves.
MarkUncertain(w, point, p, next) ==
  /\ At(w, point)
  /\ exec[w].journal[p] = Prepared
  /\ \/ Fenced(w, Checkpoint(w, p, Uncertain, next) /\ Quiet)
     \/ LoseLease(w)

\* The request leaves for the provider.  No transaction, no lease.
Send(w, point, p, next) ==
  /\ At(w, point)
  /\ sent' = [sent EXCEPT ![p] = @ + 1]
  /\ Go(w, next)
  /\ UNCHANGED <<queue, run, journal, calls, clients, proofs, written>>

\* A streamed event: lock_running_job_claim, append, commit.
Stream(w) ==
  /\ At(w, "stream")
  /\ \/ Fenced(w, /\ run' = Appended(run)
                  /\ UNCHANGED <<queue, journal, exec, calls, clients, history>>)
     \/ LoseLease(w)

\* The provider's terminal event, and the ledger row with it.  The stream is
\* cancelled only when the watcher has seen the flag.
Answered(w) ==
  /\ At(w, "stream")
  /\ \E result \in Results :
       /\ result = "cancelled" => run.cancel
       /\ exec' = [exec EXCEPT ![w] = [@ EXCEPT !.at = "record", !.result = result]]
       /\ calls' = CallsClosed(w, IF result \in AssistantTurn THEN "succeeded" ELSE "failed")
  /\ UNCHANGED <<queue, run, journal, clients, history>>

\* A failure after which the call may have been billed: UncertainChatStep.
Ambiguous(w) == At(w, "stream") /\ Raise(w)

\* steps.complete
Record(w) ==
  /\ At(w, "record")
  /\ \/ Fenced(w, Checkpoint(w, GenerationOf(w), Completed(exec[w].result), "fold") /\ Quiet)
     \/ LoseLease(w)

\* _fold_generation_terminal, and the turn of an assistant.
Fold(w) ==
  /\ At(w, "fold")
  /\ LET result == exec[w].result IN
     \/ /\ result \in AssistantTurn
        /\ Go(w, IF result = "answer" THEN "closing" ELSE "tool")
        /\ UNCHANGED journal /\ Quiet
     \/ /\ result \notin AssistantTurn
        /\ \/ Fenced(w, FinalizeAndClear(w, IF result = "failed" THEN "error" ELSE "cancelled"))
           \/ LoseLease(w)

GenerationStep(w) ==
  \/ ReadStep(w, "generate", GenerationOf(w), "call", "fold")
  \/ StartCall(w) \/ Refuse(w)
  \/ MarkUncertain(w, "reserve", GenerationOf(w), "send")
  \/ Send(w, "send", GenerationOf(w), "stream")
  \/ Stream(w) \/ Answered(w) \/ Ambiguous(w) \/ Record(w) \/ Fold(w)

\* _complete_tool_step with the tool's rows and its tool_result event, under
\* lock_active_attempt: one transaction.
CompleteTool(w) ==
  /\ Checkpoint(w, ToolOf(w), Completed("done"), "used")
  /\ run' = Appended(run)
  /\ UNCHANGED <<queue, calls, clients, sent, proofs>>

\* app_search, read_resource, inspect_resource: database only.
Lookup(w) ==
  /\ At(w, "use") /\ exec[w].result = "lookup"
  /\ \/ Fenced(w, CompleteTool(w) /\ UNCHANGED written)
     \/ LoseLease(w)

\* web_search and the write tools commit mark_uncertain first.
StoreSearch(w) ==
  /\ At(w, "store")
  /\ \/ Fenced(w, CompleteTool(w) /\ UNCHANGED written)
     \/ LoseLease(w)

\* execute_write_tool stays in the transaction that completes the step.
Write(w) ==
  /\ At(w, "effect") /\ exec[w].result = "write"
  /\ \/ Fenced(w, CompleteTool(w) /\ written' = [written EXCEPT ![ToolOf(w)] = @ + 1])
     \/ LoseLease(w)

Tool(w) ==
  \/ ReadStep(w, "tool", ToolOf(w), "use", "used")
  \/ Lookup(w)
  \/ exec[w].result # "lookup" /\ MarkUncertain(w, "use", ToolOf(w), "effect")
  \/ exec[w].result = "search" /\ Send(w, "effect", ToolOf(w), "store")
  \/ StoreSearch(w)
  \/ Write(w)

\* _publish_chat_run: prepared, then citations, terminal facts, done event,
\* completed step and cleared journal in one transaction, so that no later
\* attempt ever reads a completed publication.
Publish(w) ==
  /\ At(w, "publishing")
  /\ \/ Fenced(w, FinalizeAndClear(w, "complete"))
     \/ LoseLease(w)

\* A defect anywhere in the handler: it rolls back and escapes.
Defect(w) == FaultsLeft /\ worker[w].pc = "executing" /\ Raise(w)

HandlerStep(w) ==
  \/ Load(w) \/ Clear(w) \/ MarkRunning(w) \/ CancelCheck(w) \/ FinalizeCancelled(w)
  \/ PrepareRun(w) \/ ContextTooLarge(w)
  \/ GenerationStep(w)
  \/ Tool(w)
  \/ ReadStep(w, "publish", Publication, "publishing", "publishing")
  \/ Publish(w)

WorkerStep(w) ==
  Take(w) \/ EnterHandler(w) \/ HandlerStep(w) \/ Settle(w)
  \/ Interference(w) \/ Crash(w) \/ Defect(w)

-----------------------------------------------------------------------------
(* Time *)

\* A lease lapses under a live worker only while faults are left, and, unless
\* the instance opens that window, never before MarkRunning.
Tick ==
  /\ Queue!Tick
  /\ \A w \in Workers : Queue!ClaimIsCurrent(w) =>
       FaultsLeft /\ ("stall" \in Windows \/ exec[w].at \notin {"load", "mark"})
  /\ OnlyQueueMoves

Client == CreateRun \/ CancelSuspended \/ BeginCancel \/ CommitCancel
          \/ LoadForProjection \/ Project

Operator ==
  \/ Repair
  \/ \E p \in Generations \cup ToolSteps : ProveNotDispatched(p)
  \/ \E t \in 1..Turns : \E result \in Results : AttachResult(t, result)

Next == Client \/ Operator \/ (\E w \in Workers : WorkerStep(w)) \/ Tick

Spec == Init /\ [][Next]_vars

\* JobQueue's fairness: time passes, a worker goes on from one statement to
\* the next, providers answer, and an eligible row is taken in the end.
Fairness ==
  /\ WF_vars(Tick)
  /\ \A w \in Workers : WF_vars(EnterHandler(w) \/ HandlerStep(w) \/ Settle(w))
  /\ SF_vars(\E w \in Workers : Take(w))

FairSpec == Spec /\ Fairness

-----------------------------------------------------------------------------
(* Properties *)

\* A billed request leaves once, and once more for every proof an operator
\* gives that it did not, whatever crashes and lapsed leases put between the
\* commit of mark_uncertain and the request itself, a stalled worker that
\* sends long after it lost the job included
\* (ReplayPolicy.BilledOnce, before_dispatch=mark_dispatch_uncertain).
BilledOnce == \A p \in DOMAIN sent : sent[p] <= 1 + proofs[p]

\* An assistant's write is committed at most once, even when an operator's
\* proof was mistaken: the effect shares its transaction with Completed, so an
\* uncertain write was not written.
WrittenOnce == \A p \in DOMAIN written : written[p] <= 1

\* "Completed preparation, generation, and tool results are replay input, never
\* cache hints" (docs/modules/chat.md): no checkpoint of a stale executor, which
\* replaces the whole payload by its own copy, and no reconciliation loses or
\* changes a completed result before the run has its outcome.
CompletedIsKept ==
  [][\A p \in Steps :
       journal[p].phase = "Completed" =>
         journal'[p] = journal[p] \/ run'.status \in TerminalRun]_vars

\* project_chat_run_executions asserts it of every run it is shown, and fails
\* the request or the stream otherwise: a run without an outcome has a job that
\* is queued, running, retrying or suspended.
ActiveRunHasJob ==
  Active => row[job].status \in {"pending", "running", "failed", "dead"}

\* The outcome is told once, as the last event, together with the run's terminal
\* status and the cleared journal: clients that replay the stream after any
\* crash see one done and nothing behind it.
DoneEndsTheRun ==
  /\ run.dones <= 1
  /\ run.dones = 1 <=> run.status \in TerminalRun
  /\ run.dones = 1 => run.tail = "done" /\ journal = Cleared

\* An executor whose claim was taken over changes neither the run nor the
\* journal any more.
StaleExecutorIsHarmless ==
  [][\A w \in Workers :
       /\ worker[w].job = job /\ worker[w].token # claims[job]
       /\ exec'[w] # exec[w]
       => run' = run /\ journal' = journal]_vars

\* "Operator proof/reconciliation or user cancellation requeues that job"
\* (docs/modules/chat.md): a run whose cancellation is requested never waits
\* for an operator.
CancelledIsNotSuspended == Active /\ run.cancel => row[job].status # "dead"

\* A run without an outcome always projects a phase: the projection's assertion
\* fires for no reader but one whose two reads straddle the end of the run.
ProjectionMissesOnlyTheEnd == reader = "defect" => run.status \in TerminalRun

\* Every run gets its outcome, or is visibly suspended.
RunSettles == Active ~> (run.status \in TerminalRun \/ row[job].status = "dead")

\* A requested cancellation is folded without any operator.
CancelSettles == (Active /\ run.cancel) ~> run.status \in TerminalRun

=============================================================================
