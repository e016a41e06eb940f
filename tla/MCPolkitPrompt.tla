--------------------------- MODULE MCPolkitPrompt ---------------------------
(* An instance of PolkitPrompt for TLC. *)
EXTENDS PolkitPrompt

OneLetter == {"a"}

=============================================================================
