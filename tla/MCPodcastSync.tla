---------------------------- MODULE MCPodcastSync ----------------------------
(* Small instances of PodcastSync for TLC. *)
EXTENDS PodcastSync, TLC

CONSTANTS e1, e2, r1, r2, w1, w2, none, noJob

\* One subscription is refreshed once more; the other has its first sync only.
Generations == [e \in Epochs |-> IF e = e1 THEN 2 ELSE 1]

\* Two first syncs that one run joins.
FirstOnly == [e \in Epochs |-> 1]

Symmetry == Permutations(Workers) \cup Permutations(Runs)

=============================================================================
