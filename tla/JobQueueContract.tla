-------------------------- MODULE JobQueueContract --------------------------
(* The queue of JobQueue implements the contract of JobContract. *)
EXTENDS JobQueue

\* What a caller of the queue can tell of a row.
Seen(status) ==
  CASE status \in Waiting \cup {"running"} -> "open"
    [] status = "succeeded" -> "done"
    [] status = "deleted" -> "gone"
    [] OTHER -> status

SeenState == [j \in Jobs |-> Seen(row[j].status)]

Contract == INSTANCE JobContract WITH state <- SeenState, losses <- spent

\* Every step of a worker, of a caller and of time is a step of the contract or
\* none: leases, reclaims, lost commits and reschedules are invisible, but for
\* the executions they cost.
KeepsContract == Contract!Spec

=============================================================================
