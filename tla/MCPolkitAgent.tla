--------------------------- MODULE MCPolkitAgent ---------------------------
(* Instances of PolkitAgent for TLC. *)
EXTENDS PolkitAgent

OneLetter == {"a"}
Users == {"root", "me"}

(* Nobody, somebody else, and the agent's own user behind somebody else. *)
AllOffers == {<<>>, <<"root">>, <<"root", "me">>}

(* The agent's own user has a password of one letter, root none. *)
Passwords == [i \in Users |-> IF i = "me" THEN <<"a">> ELSE <<>>]

=============================================================================
