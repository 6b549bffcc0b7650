----------------------------- MODULE MCTurnSnapshot -----------------------------
(* A small instance of TurnSnapshot: agents are alike, so they are symmetric. *)
EXTENDS TurnSnapshot, TLC

CONSTANTS r1, r2

TwoRuntimes == {r1, r2}
Symmetry == Permutations(TwoRuntimes)
=============================================================================
