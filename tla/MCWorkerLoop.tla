---------------------------- MODULE MCWorkerLoop ----------------------------
(* A small instance of WorkerLoop for TLC. *)
EXTENDS WorkerLoop, TLC

CONSTANTS w1, w2, j1, p1, none, noJob

\* Both lanes schedule; only that of w1 serves callers.
TwoLanes == (w1 :> Jobs) @@ (w2 :> Periodic)

RetryLater == <<1>>

=============================================================================
