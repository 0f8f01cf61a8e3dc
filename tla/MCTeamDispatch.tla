--------------------------- MODULE MCTeamDispatch ---------------------------
(* The team dispatches with small sets of interchangeable ids.             *)
EXTENDS TeamOrder, TLC

Symmetry == Permutations(Dispatches) \cup Permutations(Members)
=============================================================================
