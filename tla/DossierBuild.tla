---------------------------- MODULE DossierBuild ----------------------------
(***************************************************************************)
(* The dossier engine (services/artifacts/engine.py): one Artifact head,   *)
(* its builds, the three tables of terminal children, the build's event    *)
(* stream, the step journal in the payload of the build's job, and the     *)
(* workers that run run_build over JobQueue.                               *)
(*                                                                         *)
(* Every action is one transaction of the code; those that end a build     *)
(* hold the lock of its head.  A handler keeps in memory what it collected *)
(* from the subject; the subject changes under it.  The journal is read at *)
(* the step that uses it: only the holder of the claim writes it, and all  *)
(* a worker does after it lost the claim is refused.                       *)
(***************************************************************************)
EXTENDS Integers, Sequences, FiniteSets

CONSTANTS
  Builds,      \* artifact_builds of one head; each is its job, too
  Workers, NoWorker,
  NoBuild,     \* no current revision; a worker between two jobs
  MaxAttempts, \* max_attempts of dossier_build
  MaxChanges,  \* bound: how often the subject changes, or its visibility
  MaxFaults,   \* bound: crashes, lapsed leases of live workers, and
               \* collections that wait for a dependency
  MaxClaims    \* bound: a dead job of so many claims is not requeued

ASSUME DossierAssumption ==
  /\ NoWorker \notin Workers /\ NoBuild \notin Builds
  /\ MaxAttempts \in Nat \ {0}
  /\ {MaxChanges, MaxFaults, MaxClaims} \subseteq Nat

VARIABLES
  row, worker, claims, spent, \* the queue's
  head,    \* the row of artifacts
  build,   \* build[b]: its row, its children and its events
  journal, \* journal[b][s]: payload["coordination"] of the job
  sent,    \* history: how often the provider was sent step s of b
  subject, \* the inputs a binding collects, and whether they may be read
  used,    \* history: changes and faults so far
  exec     \* exec[w]: what run_build in w holds in memory

queue == <<row, worker, claims, spent>>
vars  == <<queue, head, build, journal, sent, subject, used, exec>>

Queue == INSTANCE JobQueue WITH
  Jobs <- Builds, NoJob <- NoBuild, Allowed <- [w \in Workers |-> Builds],
  UnknownKind <- {}, NeverPruneDead <- Builds, RetryDelays <- <<>>,
  LeaseTicks <- 1, MaxDelay <- 0

-----------------------------------------------------------------------------
(* Data *)

Steps    == {"synthesis", "document-repair"}
Versions == {"old", "new"} \* of the inputs; a change may be undone
Children == {"revision", "failure", "cancellation"}

\* What a provider's answer is worth: it compiles, its citations do not, or it
\* is no valid document.
Answers == {"good", "uncitable", "invalid"}

Step == [phase: {"absent", "Prepared", "Uncertain", "Completed"},
         inputs: Versions, answer: Answers]
NoStep == [phase |-> "absent", inputs |-> "old", answer |-> "good"]

\* manifest: input_manifest of the revision; text: the inputs of the request
\* its text answers.
Build == [known: BOOLEAN, children: SUBSET Children, manifest: Versions, text: Versions,
          last: {"none", "Started", "Progress", "Succeeded", "Failed", "Cancelled"}]
Unknown == [known |-> FALSE, children |-> {}, manifest |-> "old", text |-> "old", last |-> "none"]

Executor == [at: {"none", "open", "collect", "step", "announce", "dispatch", "call", "stream",
                  "compile", "publish", "fail"},
             step: Steps, inputs: Versions]
NotExecuting == [at |-> "none", step |-> "synthesis", inputs |-> "old"]

TypeOK ==
  /\ Queue!TypeOK
  /\ head \in [exists: BOOLEAN, current: Builds \cup {NoBuild}]
  /\ build \in [Builds -> Build]
  /\ journal \in [Builds -> [Steps -> Step]]
  /\ sent \in [Builds -> [Steps -> Nat]]
  /\ subject \in [inputs: Versions, visible: BOOLEAN]
  /\ used \in [changes: 0..MaxChanges, faults: 0..MaxFaults]
  /\ exec \in [Workers -> Executor]

Init ==
  /\ Queue!Init
  /\ head = [exists |-> FALSE, current |-> NoBuild]
  /\ build = [b \in Builds |-> Unknown]
  /\ journal = [b \in Builds |-> [s \in Steps |-> NoStep]]
  /\ sent = [b \in Builds |-> [s \in Steps |-> 0]]
  /\ subject = [inputs |-> "old", visible |-> TRUE]
  /\ used = [changes |-> 0, faults |-> 0]
  /\ exec = [w \in Workers |-> NotExecuting]

\* _existing_terminal_child, _has_active_build
Ended(b)  == build[b].children # {}
Active(b) == build[b].known /\ ~Ended(b)

Count(what, bound) == used[what] < bound /\ used' = [used EXCEPT ![what] = @ + 1]

\* One terminal child and the last event, under the lock of the head.
End(b, child, event) ==
  [build EXCEPT ![b].children = @ \cup {child}, ![b].last = event]

-----------------------------------------------------------------------------
(* Requests *)

\* bootstrap_resource_dossier, regenerate_artifact: _ensure_build_locked.  The
\* replay of an idempotency key changes nothing.
Generate(b) ==
  /\ subject.visible
  /\ \A c \in Builds : ~Active(c)
  /\ Queue!Enqueue(b)
  /\ head' = [head EXCEPT !.exists = TRUE]
  /\ build' = [build EXCEPT ![b] = [Unknown EXCEPT !.known = TRUE, !.last = "Started"]]
  /\ UNCHANGED <<journal, sent, subject, used, exec>>

\* cancel_build.  The job stays, its next execution finds the child.
Cancel(b) ==
  /\ subject.visible /\ Active(b)
  /\ build' = End(b, "cancellation", "Cancelled")
  /\ UNCHANGED <<queue, head, journal, sent, subject, used, exec>>

\* make_current
MakeCurrent(b) ==
  /\ subject.visible /\ "revision" \in build[b].children
  /\ head' = [head EXCEPT !.current = b]
  /\ UNCHANGED <<queue, build, journal, sent, subject, used, exec>>

\* revoke_jobs_by_dedupe_keys, of several builds.
Gone(B) ==
  row' = [b \in Builds |->
            IF b \in B /\ row[b].status # "absent" THEN Queue!Fresh("deleted", 0) ELSE row[b]]

Revoked(B) == B

\* on_subject_deleted, on_subject_audience_removed: _delete_heads.  A subject
\* that comes back gets a new head.
Purge ==
  LET B == {b \in Builds : build[b].known} IN
  /\ head.exists /\ Count("changes", MaxChanges)
  /\ head' = [exists |-> FALSE, current |-> NoBuild]
  /\ build' = [b \in Builds |-> Unknown]
  /\ Gone(Revoked(B))
  /\ UNCHANGED <<worker, claims, spent, journal, sent, subject, exec>>

\* on_user_deleted, of the requester of a build of a shared head.
RequesterLeaves(b) ==
  /\ Active(b) /\ Count("changes", MaxChanges)
  /\ build' = End(b, "cancellation", "Cancelled")
  /\ Gone({b})
  /\ UNCHANGED <<worker, claims, spent, head, journal, sent, subject, exec>>

\* The subject is edited, or is hidden from the requester or shown again.
Change ==
  /\ Count("changes", MaxChanges)
  /\ \/ subject' = [subject EXCEPT !.inputs = IF @ = "old" THEN "new" ELSE "old"]
     \/ subject' = [subject EXCEPT !.visible = ~@]
  /\ UNCHANGED <<queue, head, build, journal, sent, exec>>

\* reconcile_uncertain_build, by an operator who knows what the provider got,
\* and that no stalled worker is still about to send: only the synthesis step
\* can be reconciled.
Reconcile(b) ==
  /\ Active(b) /\ journal[b]["synthesis"].phase = "Uncertain"
  /\ \/ /\ sent[b]["synthesis"] = 0
        /\ \A w \in Workers : worker[w].job = b => exec[w].at # "call"
        /\ journal' = [journal EXCEPT ![b]["synthesis"].phase = "Prepared"]
     \/ /\ sent[b]["synthesis"] > 0
        /\ \E a \in Answers :
             journal' = [journal EXCEPT ![b]["synthesis"] =
                           [@ EXCEPT !.phase = "Completed", !.answer = a]]
  /\ Queue!RequeueDead(b)
  /\ UNCHANGED <<head, build, sent, subject, used, exec>>

\* requeue_dead_job, with no look at the journal.
Requeue(b) ==
  /\ Queue!RequeueDead(b)
  /\ UNCHANGED <<head, build, journal, sent, subject, used, exec>>

Request ==
  \/ \E b \in Builds : \/ Generate(b) \/ Cancel(b) \/ MakeCurrent(b)
                       \/ RequesterLeaves(b) \/ Reconcile(b) \/ Requeue(b)
  \/ Purge \/ Change

-----------------------------------------------------------------------------
(* run_build: how it goes on and how it ends *)

At(w, point) == worker[w].pc = "executing" /\ exec[w].at = point
Go(w, point) == exec' = [exec EXCEPT ![w].at = point] /\ UNCHANGED queue

\* The handler returns, raises, or asks to be run later.
Out(w, pc) ==
  /\ Queue!Goto(w, pc)
  /\ exec' = [exec EXCEPT ![w] = NotExecuting]
  /\ UNCHANGED <<row, claims, spent>>

Return == "completing"
Raise  == "failing"

OnlyMemory == UNCHANGED <<head, build, journal, sent, subject, used>>

\* Mutant of CanWrite: a build that has ended is not noticed.
CanWriteIfClaimed(w) == build[worker[w].job].known /\ Queue!ClaimIsCurrent(w)

\* The head is there, the build has not ended, the claim is current.
CanWrite(w) == Active(worker[w].job) /\ Queue!ClaimIsCurrent(w)

\* _terminal_inputs_are_current
InputsAreCurrent(w) == subject.visible /\ subject.inputs = exec[w].inputs

\* run_build up to the collection.  In each of its transactions it may find
\* that the build may no longer be worked on.
Open(w) ==
  /\ At(w, "open")
  /\ IF ~Active(worker[w].job) THEN Out(w, Return)
     ELSE IF ~subject.visible THEN Go(w, "fail") ELSE Go(w, "collect")
  /\ OnlyMemory

\* binding.collect, empty_failure: nothing to say, too much, a dependency that
\* is not ready.
Collect(w) ==
  /\ At(w, "collect")
  /\ \/ /\ exec' = [exec EXCEPT ![w] = [@ EXCEPT !.at = "step", !.inputs = subject.inputs]]
        /\ UNCHANGED <<queue, used>>
     \/ Go(w, "fail") /\ UNCHANGED used
     \/ Out(w, "rescheduling") /\ Count("faults", MaxFaults)
  /\ UNCHANGED <<head, build, journal, sent, subject>>

\* Mutant of SameRequest: the fingerprint of a prepared step is not compared.
AnyRequest(w, b, s) == TRUE

SameRequest(w, b, s) == journal[b][s].inputs = exec[w].inputs

\* Mutant of OnUncertain: the step is sent again.
SendAgain(w) == Go(w, "announce")

\* Mutant of OnUncertainReplay: the handler returns instead.
LeaveUncertain(w) == Out(w, Return)

OnUncertain(w) == Out(w, Raise)

Checkpoint(b, s, step) == journal' = [journal EXCEPT ![b][s] = step]

\* _run_synthesis_step, _run_document_repair_step: what the journal says.
Decide(w) ==
  LET b == worker[w].job
      s == exec[w].step
      step == journal[b][s]
  IN
  /\ At(w, "step")
  /\ \/ /\ step.phase = "absent" /\ CanWrite(w)
        /\ s = "synthesis" => InputsAreCurrent(w)
        /\ Checkpoint(b, s, [NoStep EXCEPT !.phase = "Prepared", !.inputs = exec[w].inputs])
        /\ Go(w, "announce")
     \/ /\ step.phase = "absent" /\ ~CanWrite(w)
        /\ Out(w, Return) /\ UNCHANGED journal
     \/ /\ s = "synthesis" /\ ~InputsAreCurrent(w)
        /\ Go(w, "fail") /\ UNCHANGED journal
     \/ /\ step.phase # "absent" /\ ~SameRequest(w, b, s)
        /\ Go(w, "fail") /\ UNCHANGED journal
     \/ /\ step.phase # "absent" /\ SameRequest(w, b, s)
        /\ CASE step.phase = "Completed" -> Go(w, "compile")
             [] step.phase = "Uncertain" -> OnUncertain(w)
             [] step.phase = "Prepared" -> Go(w, "announce")
        /\ UNCHANGED journal
  /\ UNCHANGED <<head, build, sent, subject, used>>

\* _append_guarded_stream_event
Announce(w) ==
  LET b == worker[w].job IN
  /\ At(w, "announce")
  /\ IF ~CanWrite(w) THEN Out(w, Return) /\ UNCHANGED build
     ELSE IF ~subject.visible THEN Go(w, "fail") /\ UNCHANGED build
     ELSE Go(w, "dispatch") /\ build' = [build EXCEPT ![b].last = "Progress"]
  /\ UNCHANGED <<head, journal, sent, subject, used>>

\* Uncertain is committed; the synthesis step looks for an end of the build
\* first, without the lock of the head.
Dispatch(w) ==
  LET b == worker[w].job
      s == exec[w].step
  IN
  /\ At(w, "dispatch")
  /\ \/ /\ Queue!ClaimIsCurrent(w)
        /\ Checkpoint(b, s, [journal[b][s] EXCEPT !.phase = "Uncertain"])
        /\ Go(w, "call")
     \/ /\ ~Queue!ClaimIsCurrent(w) \/ (s = "synthesis" /\ ~Active(b))
        /\ Out(w, Return) /\ UNCHANGED journal
  /\ UNCHANGED <<head, build, sent, subject, used>>

\* execute_generation: refused (entitlement, budget), or sent.
Call(w) ==
  LET b == worker[w].job
      s == exec[w].step
  IN
  /\ At(w, "call")
  /\ \/ Go(w, "fail") /\ UNCHANGED sent
     \/ Go(w, "stream") /\ sent' = [sent EXCEPT ![b][s] = @ + 1]
  /\ UNCHANGED <<head, build, journal, subject, used>>

\* _checkpoint_synthesis_result: an answer is recorded before it is used.
Receive(w) ==
  LET b == worker[w].job
      s == exec[w].step
  IN
  /\ At(w, "stream")
  /\ IF Queue!ClaimIsCurrent(w)
     THEN /\ \E a \in Answers :
               Checkpoint(b, s, [journal[b][s] EXCEPT !.phase = "Completed", !.answer = a])
          /\ Go(w, "compile")
     ELSE Out(w, Return) /\ UNCHANGED journal
  /\ UNCHANGED <<head, build, sent, subject, used>>

\* The provider refuses, or the call fails with no modelled outcome; or
\* _watch_stream_guard stops the stream of the synthesis step.
NoAnswer(w) ==
  /\ At(w, "stream")
  /\ \/ Go(w, "fail")
     \/ Out(w, Raise)
     \/ exec[w].step = "synthesis" /\ ~CanWrite(w) /\ Out(w, Return)
  /\ OnlyMemory

\* binding.materialize, compile_learning_document: one repair of a document.
Compile(w) ==
  LET s == exec[w].step
      answer == journal[worker[w].job][s].answer
  IN
  /\ At(w, "compile")
  /\ CASE answer = "good" -> Go(w, "publish")
       [] answer = "invalid" /\ s = "synthesis" ->
            /\ exec' = [exec EXCEPT ![w] = [@ EXCEPT !.at = "step", !.step = "document-repair"]]
            /\ UNCHANGED queue
       [] OTHER -> Go(w, "fail")
  /\ OnlyMemory

\* _success_terminal
Publish(w) ==
  LET b == worker[w].job IN
  /\ At(w, "publish")
  /\ IF ~CanWrite(w) THEN UNCHANGED <<head, build>>
     ELSE IF ~InputsAreCurrent(w)
     THEN build' = End(b, "failure", "Failed") /\ UNCHANGED head
     ELSE /\ build' = [End(b, "revision", "Succeeded") EXCEPT ![b] =
                         [@ EXCEPT !.manifest = exec[w].inputs,
                                   !.text = journal[b][exec[w].step].inputs]]
          /\ head' = [head EXCEPT !.current = b]
  /\ Out(w, Return)
  /\ UNCHANGED <<journal, sent, subject, used>>

\* _terminal_failure
Fail(w) ==
  /\ At(w, "fail")
  /\ build' = IF CanWrite(w) THEN End(worker[w].job, "failure", "Failed") ELSE build
  /\ Out(w, Return)
  /\ UNCHANGED <<head, journal, sent, subject, used>>

-----------------------------------------------------------------------------
(* The worker around it *)

OnlyQueue == UNCHANGED <<head, build, journal, sent, subject, used, exec>>

Take(w, b) == (Queue!Claim(w, b) \/ Queue!DeadLetterExpired(w, b)) /\ OnlyQueue

Enter(w) ==
  /\ Queue!Start(w)
  /\ exec' = IF Queue!Owns(w, worker[w].job) THEN [exec EXCEPT ![w].at = "open"] ELSE exec
  /\ OnlyMemory

RunBuild(w) ==
  \/ Open(w) \/ Collect(w) \/ Decide(w) \/ Announce(w) \/ Dispatch(w) \/ Call(w)
  \/ Receive(w) \/ NoAnswer(w) \/ Compile(w) \/ Publish(w) \/ Fail(w)

Settle(w) == (Queue!Complete(w) \/ Queue!Reschedule(w) \/ Queue!Fail(w)) /\ OnlyQueue

Crash(w) ==
  /\ Count("faults", MaxFaults)
  /\ Queue!Crash(w)
  /\ exec' = [exec EXCEPT ![w] = NotExecuting]
  /\ UNCHANGED <<head, build, journal, sent, subject>>

\* Leases lapse for dead workers; for live ones as a fault.
Tick ==
  /\ Queue!Tick
  /\ IF \E w \in Workers : Queue!ClaimIsCurrent(w)
     THEN Count("faults", MaxFaults) ELSE UNCHANGED used
  /\ UNCHANGED <<head, build, journal, sent, subject, exec>>

WorkerStep(w) ==
  \/ \E b \in Builds : Take(w, b)
  \/ Enter(w) \/ RunBuild(w) \/ Settle(w) \/ Crash(w)

Next == Request \/ (\E w \in Workers : WorkerStep(w)) \/ Tick

Spec == Init /\ [][Next]_vars

\* JobQueue's fairness: leases lapse, handlers go on, due jobs are taken.
\* Nothing is assumed of requests, of operators or of crashes.
Fairness ==
  /\ WF_vars(Tick)
  /\ \A w \in Workers : WF_vars(Enter(w) \/ RunBuild(w) \/ Settle(w))
  /\ \A b \in Builds : SF_vars(\E w \in Workers : Take(w, b))

FairSpec == Spec /\ Fairness

-----------------------------------------------------------------------------
(* Properties *)

\* Whatever success, failure, cancellation and user deletion race for, one
\* child in one of three tables ends a build, and the event stream ends with
\* the event of that child (RULES 3 to 6): _existing_terminal_child never finds
\* conflicting children.
OneEnd ==
  \A b \in Builds :
    /\ Cardinality(build[b].children) <= 1
    /\ "revision" \in build[b].children     <=> build[b].last = "Succeeded"
    /\ "failure" \in build[b].children      <=> build[b].last = "Failed"
    /\ "cancellation" \in build[b].children <=> build[b].last = "Cancelled"

\* No step of a build is sent to the provider twice, through crashes, lapsed
\* leases, retries, repairs and reconciliations.
BilledOnce == \A b \in Builds, s \in Steps : sent[b][s] <= 1

\* A revision says what it was made from: its manifest, collected by the last
\* execution, is of the inputs that an earlier execution, may be, sent out.
TextAnswersManifest ==
  \A b \in Builds : "revision" \in build[b].children => build[b].text = build[b].manifest

\* An active build has a job that will work on it, or a dead one an operator
\* finds, and a build that was purged has none: no return of run_build leaves a
\* build that blocks its head for ever, no worker runs for one that is gone.
JobsMatchBuilds ==
  \A b \in Builds :
    /\ Active(b) => row[b].status \in {"pending", "running", "failed", "dead"}
    /\ ~build[b].known => row[b].status \in {"absent", "deleted"}

\* Every build ends, is purged, or is suspended for an operator to see.
BuildSettles == \A b \in Builds : Active(b) ~> ~Active(b) \/ row[b].status = "dead"

\* What a reader can tell of a build: its row, its terminal children and the
\* last of its events; of one that has neither, whether it ever had a job.
Ends == {<<"Succeeded", {"revision"}>>, <<"Failed", {"failure"}>>, <<"Cancelled", {"cancellation"}>>}

Fortune(b) ==
  CASE Active(b) -> "active"
    [] Ended(b) -> IF <<build[b].last, build[b].children>> \in Ends THEN build[b].last
                   ELSE "conflicting"
    [] OTHER -> IF row[b].status = "absent" THEN "none" ELSE "gone"

Fortunes == [b \in Builds |-> Fortune(b)]

Contract == INSTANCE HeadContract WITH state <- Fortunes, shown <- head.current

\* The engine is a head of HeadContract: whatever executions that lost their
\* claim, cancellations, purges and make_current race for, no second build
\* begins beside an active one, no end is undone, written twice or told by
\* another event (RULES 3 to 6), and the head points at a revision of a build
\* that succeeded or at none.
KeepsContract == Contract!Spec

=============================================================================
