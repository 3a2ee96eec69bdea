--------------------------- MODULE MCStorageCleanup ---------------------------
(* Small instances of StorageCleanup for TLC. *)
EXTENDS StorageCleanup, TLC

CONSTANTS w1, w2, c1, c2, t1, t2, i1, i2, none, noJob

WorkerSymmetry == Permutations(Workers)
Symmetry == Permutations(Workers) \cup Permutations(Cleanups) \cup Permutations(Writers)

=============================================================================
