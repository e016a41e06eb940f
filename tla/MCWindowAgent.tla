--------------------------- MODULE MCWindowAgent ---------------------------
(* Small instances of WindowAgent. *)
EXTENDS WindowAgent, TLC

Bare(v) == [verb |-> v, id |-> 0]

(* The task table under commands of one client that does not subscribe. *)
TableCommands == {Bare("list"), Bare("minimize-active"), Bare("close-active"),
                  [verb |-> "close", id |-> 1], [verb |-> "restore", id |-> 2]}

(* Several clients: one line for each way to answer. *)
ClientCommands == {Bare(v) : v \in {"hello", "subscribe", "unknown", "blank", "overlong",
                                    "focus-shell", "active-is-shell", "minimize-active",
                                    "minimize"}}
                    \cup {[verb |-> v, id |-> 1] : v \in {"restore", "close"}}

(* Liveness: a subscriber and a client that asks once. *)
LiveCommands == {Bare("subscribe"), Bare("minimize-active")}

ConnSymmetry == Permutations(Conns)
=============================================================================
