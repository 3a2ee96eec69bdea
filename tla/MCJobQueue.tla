----------------------------- MODULE MCJobQueue -----------------------------
(* Small instances of JobQueue for TLC. *)
EXTENDS JobQueueContract, TLC

CONSTANTS w1, w2, j1, j2

\* w1 serves the lane of j1, w2 both lanes.
TwoLanes == (w1 :> {j1}) @@ (w2 :> {j1, j2})

OneTick == <<1>>
RetryAtOnce == <<0>>

=============================================================================
