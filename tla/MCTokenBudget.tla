---------------------------- MODULE MCTokenBudget ----------------------------
(* Small instances of TokenBudget for TLC. *)
EXTENDS TokenBudget, TLC

TwoEach == [c \in Calls |-> 2]

CallSymmetry == Permutations(Calls)

=============================================================================
