----------------------------- MODULE JobContract -----------------------------
(***************************************************************************)
(* What the job queue promises a caller of enqueue_job, whatever workers   *)
(* do: a job is open until it is done or dead, it is dead exactly when     *)
(* MaxAttempts executions of it were lost since its budget was last made   *)
(* whole, done is for ever, and only a repair reopens a dead job.          *)
(* docs/modules/jobs.md states this contract; JobQueueContract shows that  *)
(* the queue implements it.                                                *)
(***************************************************************************)
EXTENDS Naturals

CONSTANTS Jobs, MaxAttempts

VARIABLES
  state,  \* state[j] of each job
  losses  \* losses[j]: executions that failed or were lost

contractVars == <<state, losses>>

Init ==
  /\ state = [j \in Jobs |-> "absent"]
  /\ losses = [j \in Jobs |-> 0]

Becomes(j, from, to) == state[j] = from /\ state' = [state EXCEPT ![j] = to]

Submit(j)  == Becomes(j, "absent", "open") /\ UNCHANGED losses
Succeed(j) == Becomes(j, "open", "done") /\ UNCHANGED losses

Lose(j) ==
  /\ losses' = [losses EXCEPT ![j] = @ + 1]
  /\ Becomes(j, "open", IF losses[j] + 1 = MaxAttempts THEN "dead" ELSE "open")

\* A new intent, or a repair, makes the budget whole.
Renew(j) ==
  /\ Becomes(j, "open", "open") \/ Becomes(j, "dead", "open")
  /\ losses' = [losses EXCEPT ![j] = 0]

Remove(j) ==
  /\ \E s \in {"open", "done", "dead"} : Becomes(j, s, "gone")
  /\ UNCHANGED losses

Next ==
  \E j \in Jobs : Submit(j) \/ Succeed(j) \/ Lose(j) \/ Renew(j) \/ Remove(j)

Spec == Init /\ [][Next]_contractVars

=============================================================================
