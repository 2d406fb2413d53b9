---------------------------- MODULE MCEvaluation ----------------------------
(* The evaluation service on a small instance: two arms, two trials of the  *)
(* first and one of the second.                                             *)
EXTENDS Evaluation, TLC

CONSTANTS p1, p2, base, feature

Processes == {p1, p2}
TwoArms == <<base, base, feature>>
Symmetry == Permutations(Processes)
=============================================================================
