---------------------------- MODULE MCIntentStore ----------------------------
(* Instances of IntentStore for TLC. *)
EXTENDS IntentStore, TLC

Symmetry == Permutations(Clients) \cup Permutations(Texts)
=============================================================================
