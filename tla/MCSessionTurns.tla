--------------------------- MODULE MCSessionTurns ---------------------------
(* Instances of SessionTurns for TLC. *)
EXTENDS SessionLane, TLC

Symmetry == Permutations(DurableTurns) \cup Permutations(GoalTurns)
=============================================================================
