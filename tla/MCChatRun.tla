----------------------------- MODULE MCChatRun -----------------------------
(* Instances of ChatRun for TLC: up to two interchangeable workers. *)
EXTENDS ChatRun, TLC

CONSTANTS w1, w2, j1, none, noJob

WorkerSymmetry == Permutations(Workers)

=============================================================================
