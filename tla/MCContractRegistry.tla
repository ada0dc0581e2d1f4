-------------------------- MODULE MCContractRegistry --------------------------
(* Instances of ContractRegistry for TLC. *)
EXTENDS ContractRegistry, TLC

Symmetry == Permutations(Clients) \cup Permutations(Keys) \cup Permutations(Actors)
=============================================================================
