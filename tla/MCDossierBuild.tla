--------------------------- MODULE MCDossierBuild ---------------------------
(* Small instances of DossierBuild for TLC. *)
EXTENDS DossierBuild, TLC

CONSTANTS w1, w2, b1, b2, none, noBuild

WorkerSymmetry == Permutations(Workers)
Symmetry == Permutations(Workers) \cup Permutations(Builds)

=============================================================================
