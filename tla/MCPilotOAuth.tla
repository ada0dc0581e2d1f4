---------------------------- MODULE MCPilotOAuth -----------------------------
(* Instances of PilotOAuth for TLC. *)
EXTENDS PilotOAuth, TLC

Symmetry == Permutations(Processes) \cup Permutations(Verifiers)
=============================================================================
