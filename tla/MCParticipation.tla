---------------------------- MODULE MCParticipation -----------------------------
(* Instances of Participation for TLC. *)
EXTENDS Participation, TLC

Symmetry == Permutations(Processes) \cup Permutations(Entities)
=============================================================================
