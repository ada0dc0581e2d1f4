------------------------ MODULE MCInterpretationStore ------------------------
(* Instances of InterpretationStore for TLC. *)
EXTENDS InterpretationStore, TLC

Symmetry == Permutations(Clients) \cup Permutations(Intents)
=============================================================================
