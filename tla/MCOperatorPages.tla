---------------------------- MODULE MCOperatorPages -----------------------------
(* The pages with TLC. *)
EXTENDS OperatorPages

=============================================================================
