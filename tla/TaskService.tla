---------------------------- MODULE TaskService ----------------------------
(***************************************************************************)
(* What zero-window-agent is to its clients, without its poll loop, its    *)
(* client vector and its output buffers: a table of tasks, served to       *)
(* connections.  A command line is answered in one step, against the table *)
(* as it is at that moment; a change of the table is followed by a         *)
(* snapshot for each subscriber; what is queued for a connection reaches   *)
(* its peer in order, and only its end can be lost.  WindowAgent           *)
(* implements this module.                                                 *)
(***************************************************************************)
EXTENDS Naturals, Sequences

CONSTANTS
    Conns,      \* connections, each used once
    Commands,   \* command lines a peer may send
    Line,       \* lines of the table
    HasSeat     \* whether a toplevel can be activated

VARIABLES
    up,             \* whether the service runs
    table,          \* the lines of the open tasks
    due,            \* whether the table may have changed since it was last published
    link,           \* each connection: "idle", "open", "gone" (by the peer), "dropped"
    waiting,        \* connections made and not yet accepted
    served,         \* connections accepted and not yet given up
    subscribers,    \* those of them that subscribed
    inbox,          \* command lines not yet handled
    queue,          \* messages on their way to the peer
    view,           \* the last snapshot a peer has received
    requests        \* requests the compositor has not yet taken

callVars    == <<inbox, queue, view, requests>>
memberVars  == <<link, waiting, served, subscribers>>
serviceVars == <<up, table, due, memberVars, callVars>>

----------------------------------------------------------------------------
Snapshot(reply) == [kind |-> "snapshot", lines |-> table, reply |-> reply]
Reply(kind)     == [kind |-> kind, lines |-> {}, reply |-> TRUE]

IsShell(l) == l.app_id = "shell" \/ l.title = "shell"

TaskVerb(verb)   == verb \in {"activate", "minimize", "restore", "close"}
ActiveVerb(verb) == verb \in {"minimize-active", "close-active"}

(* The lines a command may act on. *)
Addressed(cmd) ==
    {l \in table : \/ TaskVerb(cmd.verb) /\ cmd.id # 0 /\ l.id = cmd.id
                   \/ ActiveVerb(cmd.verb) /\ l.activated /\ ~IsShell(l)
                   \/ cmd.verb = "focus-shell" /\ IsShell(l)}

(* What it asks of the compositor for such a line. *)
Kinds(verb) ==
    CASE verb \in {"activate", "focus-shell"}     -> <<"activate">>
      [] verb \in {"minimize", "minimize-active"} -> <<"set_minimized">>
      [] verb = "restore" -> IF HasSeat THEN <<"unset_minimized", "activate">>
                                        ELSE <<"unset_minimized">>
      [] OTHER -> <<"close">>

Refused(cmd) == Addressed(cmd) = {} \/ (~HasSeat /\ cmd.verb \in {"activate", "focus-shell"})

(* A message for connection c; what is sent to a peer that has gone is lost. *)
Queue(c, m) == queue' = IF link[c] = "open" THEN [queue EXCEPT ![c] = Append(@, m)] ELSE queue

----------------------------------------------------------------------------
(* The table *)

Change ==
    /\ up
    /\ table' \in SUBSET Line
    /\ due' = TRUE
    /\ UNCHANGED <<up, memberVars, callVars>>

Publish ==
    /\ up
    /\ due
    /\ due' = FALSE
    /\ queue' = [c \in Conns |-> IF c \in subscribers /\ link[c] = "open"
                                 THEN Append(queue[c], Snapshot(FALSE)) ELSE queue[c]]
    /\ UNCHANGED <<up, table, memberVars, inbox, view, requests>>

----------------------------------------------------------------------------
(* A command line: what it answers, and what it asks of the compositor *)

Take(c) ==
    /\ up
    /\ c \in served
    /\ inbox[c] # <<>>
    /\ inbox' = [inbox EXCEPT ![c] = Tail(@)]
    /\ UNCHANGED <<up, table, due, link, waiting, served, view>>

Perform(c, l) ==
    /\ requests' = requests \o [n \in DOMAIN Kinds(Head(inbox[c]).verb) |->
                                  [kind |-> Kinds(Head(inbox[c]).verb)[n],
                                   handle |-> l.handle, verb |-> Head(inbox[c]).verb]]
    /\ Queue(c, Reply("ok"))

Act(c) ==
    /\ Take(c)
    /\ LET cmd == Head(inbox[c]) IN
       /\ TaskVerb(cmd.verb) \/ ActiveVerb(cmd.verb) \/ cmd.verb = "focus-shell"
       /\ \/ Refused(cmd) /\ Queue(c, Reply("error")) /\ UNCHANGED requests
          \/ ~Refused(cmd) /\ \E l \in Addressed(cmd) : Perform(c, l)
    /\ UNCHANGED subscribers

(* One of the active tasks, if there is one, decides. *)
ActiveIsShell(c) ==
    /\ Take(c)
    /\ Head(inbox[c]).verb = "active-is-shell"
    /\ LET active == {l \in table : l.activated} IN
       \/ (\E l \in active : IsShell(l)) /\ Queue(c, Reply("ok"))
       \/ (active # {} => \E l \in active : ~IsShell(l)) /\ Queue(c, Reply("error"))
    /\ UNCHANGED <<subscribers, requests>>

Show(c) ==
    /\ Take(c)
    /\ Head(inbox[c]).verb \in {"list", "subscribe"}
    /\ Queue(c, Snapshot(TRUE))
    /\ subscribers' = IF Head(inbox[c]).verb = "subscribe" THEN subscribers \cup {c}
                                                           ELSE subscribers
    /\ UNCHANGED requests

Greet(c) ==
    /\ Take(c)
    /\ \/ Head(inbox[c]).verb = "hello" /\ Queue(c, Reply("hello"))
       \/ Head(inbox[c]).verb = "unknown" /\ Queue(c, Reply("error"))
       \/ Head(inbox[c]).verb = "blank" /\ UNCHANGED queue
    /\ UNCHANGED <<subscribers, requests>>

Handle(c) == Act(c) \/ ActiveIsShell(c) \/ Show(c) \/ Greet(c)

----------------------------------------------------------------------------
(* Connections *)

Connect(c) ==
    /\ up
    /\ link[c] = "idle"
    /\ link' = [link EXCEPT ![c] = "open"]
    /\ waiting' = waiting \cup {c}
    /\ UNCHANGED <<up, table, due, served, subscribers, callVars>>

Accept(c) ==
    /\ up
    /\ c \in waiting
    /\ waiting' = waiting \ {c}
    /\ served' = served \cup {c}
    /\ UNCHANGED <<up, table, due, link, subscribers, callVars>>

Send(c, cmd) ==
    /\ link[c] = "open"
    /\ inbox' = [inbox EXCEPT ![c] = Append(@, cmd)]
    /\ UNCHANGED <<up, table, due, memberVars, queue, view, requests>>

Deliver(c) ==
    /\ link[c] \in {"open", "dropped"}
    /\ queue[c] # <<>>
    /\ queue' = [queue EXCEPT ![c] = Tail(@)]
    /\ view' = IF Head(queue[c]).kind = "snapshot" THEN [view EXCEPT ![c] = Head(queue[c]).lines]
                                                   ELSE view
    /\ UNCHANGED <<up, table, due, memberVars, inbox, requests>>

HangUp(c) ==
    /\ link[c] = "open"
    /\ link' = [link EXCEPT ![c] = "gone"]
    /\ queue' = [queue EXCEPT ![c] = <<>>]
    /\ UNCHANGED <<up, table, due, waiting, served, subscribers, inbox, view, requests>>

(* What is left of a queue when the end that was not yet written is lost. *)
Begins(p, q) == Len(p) <= Len(q) /\ p = SubSeq(q, 1, Len(p))

(* The service gives up on a client, perhaps over an overlong line. *)
GiveUp(c) ==
    /\ up
    /\ c \in served
    /\ served' = served \ {c}
    /\ subscribers' = subscribers \ {c}
    /\ link' = [link EXCEPT ![c] = IF @ = "open" THEN "dropped" ELSE @]
    /\ Begins(queue'[c], queue[c])
    /\ queue' = [queue EXCEPT ![c] = queue'[c]]
    /\ \/ UNCHANGED inbox
       \/ /\ inbox[c] # <<>>
          /\ Head(inbox[c]).verb = "overlong"
          /\ inbox' = [inbox EXCEPT ![c] = Tail(@)]
    /\ UNCHANGED <<up, table, due, waiting, view, requests>>

(* The service ends, for whatever reason. *)
Stop ==
    /\ up
    /\ up' = FALSE
    /\ link' = [c \in Conns |-> IF link[c] = "open" THEN "dropped" ELSE link[c]]
    /\ \A c \in Conns : Begins(queue'[c], queue[c])
    /\ queue' = [c \in Conns |-> queue'[c]]
    /\ UNCHANGED <<table, due, waiting, served, subscribers, inbox, view, requests>>

(* The compositor takes the next request. *)
Perceive ==
    /\ requests # <<>>
    /\ requests' = Tail(requests)
    /\ UNCHANGED <<up, table, due, memberVars, inbox, queue, view>>

----------------------------------------------------------------------------
ServiceInit ==
    /\ up = TRUE
    /\ table = {}
    /\ due = FALSE
    /\ link = [c \in Conns |-> "idle"]
    /\ waiting = {}
    /\ served = {}
    /\ subscribers = {}
    /\ inbox = [c \in Conns |-> <<>>]
    /\ queue = [c \in Conns |-> <<>>]
    /\ view = [c \in Conns |-> {}]
    /\ requests = <<>>

ServiceStep ==
    \/ Change \/ Publish \/ Stop \/ Perceive
    \/ \E c \in Conns : \/ Handle(c) \/ Connect(c) \/ Accept(c) \/ Deliver(c)
                        \/ HangUp(c) \/ GiveUp(c)
                        \/ \E cmd \in Commands : Send(c, cmd)

ServiceSpec == ServiceInit /\ [][ServiceStep]_serviceVars

=============================================================================
