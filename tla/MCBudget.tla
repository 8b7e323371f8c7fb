------------------------------ MODULE MCBudget ------------------------------
(***************************************************************************)
(* Instances of Budget for TLC: caps of a few units and calls of 1 or 2,   *)
(* so that the third or fourth command meets the cumulative cap.           *)
(***************************************************************************)
EXTENDS Budget, TLC

CONSTANTS p1, p2

MCOne == {p1}
MCTwo == {p1, p2}
MCEstimates == {1, 2, 3}
MCSymmetry == Permutations(MCTwo)
=============================================================================
