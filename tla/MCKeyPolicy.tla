---------------------------- MODULE MCKeyPolicy ----------------------------
(* An instance of KeyPolicy for TLC. *)
EXTENDS KeyPolicy

=============================================================================
