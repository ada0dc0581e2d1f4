--------------------------- MODULE MCStepExecution ---------------------------
(* Instances of StepExecution for TLC. *)
EXTENDS StepExecution, TLC

Symmetry == Permutations(Steps)
=============================================================================
