------------------------------- MODULE MCIdle -------------------------------
(* An instance of Idle for TLC. *)
EXTENDS Idle

=============================================================================
