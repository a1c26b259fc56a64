-------------------------- MODULE MCEvaluationRun ---------------------------
(* Instances of EvaluationRun for TLC. *)
EXTENDS EvaluationRun, TLC

Symmetry == Permutations(Tasks) \cup Permutations(Rows)
=============================================================================
