--------------------------- MODULE MCSourceIngest ---------------------------
(* Small instances of SourceIngest for TLC. *)
EXTENDS SourceIngest

CONSTANTS c1, c2, w1, w2, none

=============================================================================
