---------------------------- MODULE MCRepositoryParity --------------------------
(* RepositoryParity for TLC. *)
EXTENDS RepositoryParity
================================================================================
