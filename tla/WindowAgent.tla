---------------------------- MODULE WindowAgent ----------------------------
(***************************************************************************)
(* zero-window-agent (src/window-agent/zero-window-agent.cpp): one thread  *)
(* that keeps a table of the compositor's toplevels and serves it to the   *)
(* clients of a local socket.                                              *)
(*                                                                         *)
(* The module has three parts: the agent's poll loop (run() and all that   *)
(* it calls), and around it the two parties it talks to, which are not in  *)
(* the repository: the compositor (labwc) and the peers of the socket      *)
(* (the Shell and zero-shell-control).                                     *)
(*                                                                         *)
(* The agent's thread meets the rest of the world only in its system       *)
(* calls, so a step of the model is the code from one system call to the   *)
(* next: a dispatched event, an accepted connection, a command line read,  *)
(* a message written.  The local variables of run() that live across those *)
(* calls (fds and i) are part of the state.                                *)
(***************************************************************************)
EXTENDS Integers, Sequences, FiniteSets

CONSTANTS
    Conns,          \* connections the peers may make, each used once
    Commands,       \* command lines a peer may send
    SplitReads,     \* whether a read of the display may end inside a batch of events
    AcceptFails,    \* whether accept4 may fail with connections waiting (EINTR, EMFILE)
    HasSeat,        \* whether the compositor announced a wl_seat
    SockCap,        \* messages the kernel buffers from the agent to a peer
    MaxWindows,     \* bound: toplevels the compositor ever creates
    MaxOps,         \* bound: open, close and focus operations of the user
    MaxCommands,    \* bound: command lines sent on one connection
    Faults          \* interruptions this instance includes, of FaultKinds

FaultKinds == {"signal", "finished", "compositor-exit", "poll-error", "hang-up"}

(* The verbs of handle_command; "blank" is an empty line, "overlong" a line *)
(* of more than kMaxLine bytes, "unknown" every other verb.                 *)
TaskVerbs   == {"activate", "minimize", "restore", "close"}
ActiveVerbs == {"minimize-active", "close-active"}
Verbs == TaskVerbs \cup ActiveVerbs
           \cup {"hello", "list", "subscribe", "focus-shell", "active-is-shell",
                 "unknown", "blank", "overlong"}

(* A command line: its verb and its task id.  Id 0 is a line without one.   *)
Command == [verb : Verbs, id : Nat]

ASSUME CommandsAssumption == Commands \subseteq Command
ASSUME SeatAssumption     == HasSeat \in BOOLEAN
ASSUME SplitAssumption    == SplitReads \in BOOLEAN
ASSUME AcceptAssumption   == AcceptFails \in BOOLEAN
ASSUME BoundsAssumption   == /\ SockCap \in Nat \ {0}
                             /\ MaxWindows \in Nat
                             /\ MaxOps \in Nat
                             /\ MaxCommands \in Nat
ASSUME FaultsAssumption   == Faults \subseteq FaultKinds

VARIABLES
    \* The agent
    pc,         \* where the thread is in run()
    running,    \* g_running
    tasks,      \* tasks_, a vector of Task
    next_id,    \* next_id_
    changed,    \* changed_
    clients,    \* clients_, a vector of Client
    fds,        \* revents of the last poll, by index and not by descriptor
    i,          \* index of the client loop of run()
    sock,       \* whether the socket path exists
    \* The compositor
    top,        \* its toplevels; a toplevel's handle is its position here
    wire,       \* events sent to the agent and not yet dispatched
    requests,   \* requests flushed by the agent and not yet handled
    ops,        \* operations of the user so far
    comp,       \* "up", "finished" (manager stopped) or "down"
    \* The peers
    peer,       \* the peer's end of each connection
    backlog,    \* connections not yet accepted
    toAgent,    \* command lines in the socket
    toPeer,     \* messages in the socket
    view,       \* lines of the last snapshot the peer received
    asked,      \* commands with an answer that the peer has sent
    answered    \* answers the peer has received

agentVars == <<pc, running, tasks, next_id, changed, clients, fds, i, sock>>
compVars  == <<top, wire, requests, ops, comp>>
peerVars  == <<peer, backlog, toAgent, toPeer, view, asked, answered>>
vars      == <<agentVars, compVars, peerVars>>

----------------------------------------------------------------------------
(* Data.  An app_id or a title is told apart only by is_shell_task: not yet *)
(* received, the Shell's, or another one.  Of the four state flags the code *)
(* reads two; maximized and fullscreen are only copied out.                 *)
Names == {"", "shell", "other"}

Task == [id : Nat, handle : Nat, app_id : Names, title : Names,
         activated : BOOLEAN, minimized : BOOLEAN, closed : BOOLEAN]

(* A "task" line of a snapshot.  The handle is not on the wire: it records  *)
(* which toplevel the line was written for.                                 *)
Line == [id : Nat, handle : Nat, app_id : Names, title : Names,
         activated : BOOLEAN, minimized : BOOLEAN]

(* A server message.  A snapshot is the set of its lines.  "reply" tells an *)
(* answer to a command from a broadcast; the peers cannot see it.           *)
Message == [kind : {"hello", "ok", "error", "snapshot"}, lines : SUBSET Line,
            reply : BOOLEAN]

Client == [conn : Conns, subscribed : BOOLEAN, output : Seq(Message)]

Event == [kind : {"toplevel", "title", "app_id", "state", "done", "closed", "finished"},
          handle : Nat, name : Names, activated : BOOLEAN, minimized : BOOLEAN]

Window == [shell : BOOLEAN, activated : BOOLEAN, minimized : BOOLEAN, open : BOOLEAN]

RequestKinds == {"activate", "set_minimized", "unset_minimized", "close"}
Request == [kind : RequestKinds, handle : Nat, verb : Verbs]

Revents == SUBSET {"in", "out", "hup"}
FdsType == [display : BOOLEAN, listen : BOOLEAN, rev : Seq(Revents)]
NoFds   == [display |-> FALSE, listen |-> FALSE, rev |-> <<>>]

TypeOK ==
    /\ pc \in {"top", "poll", "dispatch", "accept", "clients", "read",
               "flush", "exited", "failed"}
    /\ running \in BOOLEAN
    /\ tasks \in Seq(Task)
    /\ next_id \in Nat \ {0}
    /\ changed \in BOOLEAN
    /\ clients \in Seq(Client)
    /\ fds \in FdsType
    /\ i \in Nat \ {0}
    /\ pc \in {"read", "flush"} => i <= Len(clients)
    /\ sock \in BOOLEAN
    /\ top \in Seq(Window)
    /\ wire \in Seq(Event)
    /\ requests \in Seq(Request)
    /\ ops \in Nat
    /\ comp \in {"up", "finished", "down"}
    /\ peer \in [Conns -> {"idle", "open", "gone", "dropped"}]
    /\ backlog \in Seq(Conns)
    /\ toAgent \in [Conns -> Seq(Command)]
    /\ toPeer \in [Conns -> Seq(Message)]
    /\ view \in [Conns -> SUBSET Line]
    /\ asked \in [Conns -> Nat]
    /\ answered \in [Conns -> Nat]

----------------------------------------------------------------------------
(* The task table *)

NewTask(id, h) ==
    [id |-> id, handle |-> h, app_id |-> "", title |-> "",
     activated |-> FALSE, minimized |-> FALSE, closed |-> FALSE]

is_shell_task(t) == t.app_id = "shell" \/ t.title = "shell"

(* The vector without its k-th element: erase(begin() + k - 1). *)
Erase(s, k) == [j \in 1 .. (Len(s) - 1) |-> IF j < k THEN s[j] ELSE s[j + 1]]

(* The position a scan from the front of a vector stops at. *)
IsFirst(k, S) == k \in S /\ \A j \in S : k <= j

(* Mutant: finds a task whose "closed" was already dispatched. *)
find_task_even_closed(id) == {k \in DOMAIN tasks : tasks[k].id = id}

find_task(id) == {k \in DOMAIN tasks : ~tasks[k].closed /\ tasks[k].id = id}

(* Mutant: include_shell is ignored. *)
active_task_any(include_shell) ==
    {k \in DOMAIN tasks : ~tasks[k].closed /\ tasks[k].activated}

active_task(include_shell) ==
    {k \in DOMAIN tasks : /\ ~tasks[k].closed
                          /\ tasks[k].activated
                          /\ include_shell \/ ~is_shell_task(tasks[k])}

shell_task == {k \in DOMAIN tasks : ~tasks[k].closed /\ is_shell_task(tasks[k])}

LineOf(t) == [id |-> t.id, handle |-> t.handle, app_id |-> t.app_id, title |-> t.title,
              activated |-> t.activated, minimized |-> t.minimized]

(* The lines send_snapshot writes between snapshot-begin and snapshot-end. *)
SnapshotLines ==
    {LineOf(tasks[k]) : k \in {j \in DOMAIN tasks : ~tasks[j].closed}}

SnapshotMessage(reply) == [kind |-> "snapshot", lines |-> SnapshotLines, reply |-> reply]

Answer(kind) == [kind |-> kind, lines |-> {}, reply |-> TRUE]

send(k, m) == clients' = [clients EXCEPT ![k].output = Append(@, m)]

----------------------------------------------------------------------------
(* run(): the top of the loop *)

(* The end of the process closes every descriptor it holds. *)
HangUpOnAll == peer' = [c \in Conns |-> IF peer[c] = "open" THEN "dropped" ELSE peer[c]]

Exit ==
    /\ pc' = "exited"
    /\ sock' = FALSE
    /\ HangUpOnAll
    /\ UNCHANGED <<running, tasks, next_id, changed, clients, fds, i, compVars,
                   backlog, toAgent, toPeer, view, asked, answered>>

LoopExit == pc = "top" /\ ~running /\ Exit

ClosedTasks == {k \in DOMAIN tasks : tasks[k].closed}

(* One turn of prune_closed's loop that erases: the handle is destroyed. *)
prune_closed ==
    /\ pc = "top"
    /\ running
    /\ \E k \in ClosedTasks :
          /\ IsFirst(k, ClosedTasks)
          /\ tasks' = Erase(tasks, k)
    /\ changed' = TRUE
    /\ UNCHANGED <<pc, running, next_id, clients, fds, i, sock, compVars, peerVars>>

broadcast_snapshot ==
    clients' = [k \in DOMAIN clients |->
                  IF clients[k].subscribed
                  THEN [clients[k] EXCEPT !.output = Append(@, SnapshotMessage(FALSE))]
                  ELSE clients[k]]

(* Mutant: a subscriber that has output waiting is left out of a broadcast. *)
PreparePoll_skip_slow ==
    /\ pc = "top"
    /\ running
    /\ ClosedTasks = {}
    /\ clients' = [k \in DOMAIN clients |->
                     IF changed /\ clients[k].subscribed /\ clients[k].output = <<>>
                     THEN [clients[k] EXCEPT !.output = <<SnapshotMessage(FALSE)>>]
                     ELSE clients[k]]
    /\ changed' = FALSE
    /\ pc' = "poll"
    /\ UNCHANGED <<running, tasks, next_id, fds, i, sock, compVars, peerVars>>

(* Nothing is left to prune: broadcast, and build the vector for poll. *)
PreparePoll ==
    /\ pc = "top"
    /\ running
    /\ ClosedTasks = {}
    /\ IF changed THEN broadcast_snapshot ELSE UNCHANGED clients
    /\ changed' = FALSE
    /\ pc' = "poll"
    /\ UNCHANGED <<running, tasks, next_id, fds, i, sock, compVars, peerVars>>

----------------------------------------------------------------------------
(* run(): poll *)

(* Mutant: POLLOUT is never asked for. *)
Polled_in_only(cl) ==
    {e \in {"in", "hup"} :
        \/ e = "in"  /\ (toAgent[cl.conn] # <<>> \/ peer[cl.conn] = "gone")
        \/ e = "hup" /\ peer[cl.conn] = "gone"}

(* What poll reports for a client: POLLOUT is asked for only when there is *)
(* output, POLLHUP comes with POLLIN when the peer has closed its end.     *)
Polled(cl) ==
    {e \in {"in", "out", "hup"} :
        \/ e = "in"  /\ (toAgent[cl.conn] # <<>> \/ peer[cl.conn] = "gone")
        \/ e = "out" /\ cl.output # <<>>
                     /\ (Len(toPeer[cl.conn]) < SockCap \/ peer[cl.conn] = "gone")
        \/ e = "hup" /\ peer[cl.conn] = "gone"}

PollResult == [display |-> wire # <<>> \/ comp = "down",
               listen  |-> backlog # <<>>,
               rev     |-> [k \in DOMAIN clients |-> Polled(clients[k])]]

AnyReady(f) == f.display \/ f.listen \/ \E k \in DOMAIN f.rev : f.rev[k] # {}

PollReady ==
    /\ pc = "poll"
    /\ AnyReady(PollResult)
    /\ fds' = PollResult
    /\ i' = 1
    /\ pc' = IF fds'.display THEN "dispatch" ELSE IF fds'.listen THEN "accept" ELSE "clients"
    /\ UNCHANGED <<running, tasks, next_id, changed, clients, sock, compVars, peerVars>>

(* Mutant: poll(..., -1) never returns 0. *)
PollTimeout_never == pc = "poll" /\ ~AnyReady(PollResult) /\ FALSE /\ UNCHANGED vars

(* poll returns 0 after 1000 ms. *)
PollTimeout ==
    /\ pc = "poll"
    /\ ~AnyReady(PollResult)
    /\ pc' = "top"
    /\ UNCHANGED <<running, tasks, next_id, changed, clients, fds, i, sock, compVars, peerVars>>

(* SIGTERM or SIGINT.  At any point of the loop the handler only clears    *)
(* g_running; if the thread is already inside poll, poll fails with EINTR. *)
Signal ==
    /\ "signal" \in Faults
    /\ pc \notin {"exited", "failed"}
    /\ running
    /\ running' = FALSE
    /\ pc' = pc \/ (pc = "poll" /\ pc' = "top")
    /\ UNCHANGED <<tasks, next_id, changed, clients, fds, i, sock, compVars, peerVars>>

(* poll fails with another error: run() returns without unlinking the socket. *)
PollFails ==
    /\ "poll-error" \in Faults
    /\ pc = "poll"
    /\ pc' = "failed"
    /\ HangUpOnAll
    /\ UNCHANGED <<running, tasks, next_id, changed, clients, fds, i, sock, compVars,
                   backlog, toAgent, toPeer, view, asked, answered>>

----------------------------------------------------------------------------
(* run(): wl_display_dispatch.  It reads what the socket holds and calls   *)
(* the listener of each event.  With SplitReads the socket may hold any    *)
(* nonempty prefix of what the compositor has sent, else all of it.        *)

AfterDispatch == IF fds.listen THEN "accept" ELSE "clients"

Dispatch(kind) ==
    /\ pc = "dispatch"
    /\ wire # <<>>
    /\ Head(wire).kind = kind
    /\ wire' = Tail(wire)
    /\ fds' = [fds EXCEPT !.display = FALSE]
    /\ changed' = TRUE
    /\ UNCHANGED <<pc, clients, i, sock, top, requests, ops, comp, peerVars>>

(* The listener's data pointer is the Task that was made for the handle. *)
TaskUpdate(New(_)) ==
    tasks' = [k \in DOMAIN tasks |->
                IF tasks[k].handle = Head(wire).handle THEN New(tasks[k]) ELSE tasks[k]]

(* Mutant: the id is the position in the vector, so ids come back. *)
manager_toplevel_reuse ==
    /\ Dispatch("toplevel")
    /\ tasks' = Append(tasks, NewTask(Len(tasks) + 1, Head(wire).handle))
    /\ next_id' = next_id + 1
    /\ UNCHANGED running

manager_toplevel ==
    /\ Dispatch("toplevel")
    /\ tasks' = Append(tasks, NewTask(next_id, Head(wire).handle))
    /\ next_id' = next_id + 1
    /\ UNCHANGED running

manager_finished ==
    /\ Dispatch("finished")
    /\ running' = FALSE
    /\ UNCHANGED <<tasks, next_id>>

handle_title ==
    /\ Dispatch("title")
    /\ TaskUpdate(LAMBDA t : [t EXCEPT !.title = Head(wire).name])
    /\ UNCHANGED <<running, next_id>>

handle_app_id ==
    /\ Dispatch("app_id")
    /\ TaskUpdate(LAMBDA t : [t EXCEPT !.app_id = Head(wire).name])
    /\ UNCHANGED <<running, next_id>>

(* Mutant: the flags listed in the event are set, the others not cleared. *)
handle_state_sticky ==
    /\ Dispatch("state")
    /\ TaskUpdate(LAMBDA t : [t EXCEPT !.activated = @ \/ Head(wire).activated,
                                       !.minimized = @ \/ Head(wire).minimized])
    /\ UNCHANGED <<running, next_id>>

(* The flags are cleared first, then those listed in the event are set. *)
handle_state ==
    /\ Dispatch("state")
    /\ TaskUpdate(LAMBDA t : [t EXCEPT !.activated = Head(wire).activated,
                                       !.minimized = Head(wire).minimized])
    /\ UNCHANGED <<running, next_id>>

handle_done ==
    /\ Dispatch("done")
    /\ TaskUpdate(LAMBDA t : [t EXCEPT !.closed = FALSE])
    /\ UNCHANGED <<running, next_id>>

handle_closed ==
    /\ Dispatch("closed")
    /\ TaskUpdate(LAMBDA t : [t EXCEPT !.closed = TRUE])
    /\ UNCHANGED <<running, next_id>>

DispatchDone ==
    /\ pc = "dispatch"
    /\ ~fds.display
    /\ SplitReads \/ wire = <<>>
    /\ pc' = AfterDispatch
    /\ UNCHANGED <<running, tasks, next_id, changed, clients, fds, i, sock, compVars, peerVars>>

(* The compositor is gone: wl_display_dispatch returns -1 and run() breaks. *)
DispatchFails ==
    /\ pc = "dispatch"
    /\ wire = <<>>
    /\ comp = "down"
    /\ Exit

----------------------------------------------------------------------------
(* run(): accept_client *)

accept_client ==
    /\ pc = "accept"
    /\ backlog # <<>>
    /\ clients' = Append(clients, [conn |-> Head(backlog), subscribed |-> FALSE,
                                   output |-> <<>>])
    /\ backlog' = Tail(backlog)
    /\ UNCHANGED <<pc, running, tasks, next_id, changed, fds, i, sock, compVars,
                   peer, toAgent, toPeer, view, asked, answered>>

AcceptDone ==
    /\ pc = "accept"
    /\ backlog = <<>> \/ AcceptFails
    /\ pc' = "clients"
    /\ UNCHANGED <<running, tasks, next_id, changed, clients, fds, i, sock, compVars, peerVars>>

----------------------------------------------------------------------------
(* run(): the client loop.  Entry i of clients_ is judged by entry i of    *)
(* the poll result, whichever client that entry was made for.              *)

ReventsOf(k) == IF k <= Len(fds.rev) THEN fds.rev[k] ELSE {}

close_client(k) ==
    /\ clients' = Erase(clients, k)
    /\ peer' = [peer EXCEPT ![clients[k].conn] = IF @ = "open" THEN "dropped" ELSE @]

Drop ==
    /\ close_client(i)
    /\ pc' = "clients"
    /\ UNCHANGED <<running, tasks, next_id, changed, fds, i, sock, compVars,
                   backlog, toAgent, toPeer, view, asked, answered>>

(* The vector fds dies with this turn of the loop. *)
ClientsDone ==
    /\ pc = "clients"
    /\ i > Len(clients)
    /\ pc' = "top"
    /\ fds' = NoFds
    /\ i' = 1
    /\ UNCHANGED <<running, tasks, next_id, changed, clients, sock, compVars, peerVars>>

ServeHangup ==
    /\ pc = "clients"
    /\ i <= Len(clients)
    /\ "hup" \in ReventsOf(i)
    /\ Drop

(* The next thing run() does with client i, given what is left of its revents. *)
ServeNext(rest) ==
    /\ pc' = IF "in" \in rest THEN "read" ELSE IF "out" \in rest THEN "flush" ELSE "clients"
    /\ i' = IF pc' = "clients" THEN i + 1 ELSE i
    /\ UNCHANGED <<running, tasks, next_id, changed, clients, fds, sock, compVars, peerVars>>

(* Mutant: the loop is bounded by the poll vector, not by the clients left. *)
ServeClient_stale_bound ==
    /\ pc = "clients"
    /\ i <= Len(clients) \/ i <= Len(fds.rev)
    /\ "hup" \notin ReventsOf(i)
    /\ ServeNext(ReventsOf(i))

ServeClient ==
    /\ pc = "clients"
    /\ i <= Len(clients)
    /\ "hup" \notin ReventsOf(i)
    /\ ServeNext(ReventsOf(i))

(* read_client: read fails with EAGAIN, or finds the end of the stream. *)
ReadAgain ==
    /\ pc = "read"
    /\ toAgent[clients[i].conn] = <<>>
    /\ peer[clients[i].conn] = "open"
    /\ ServeNext(ReventsOf(i) \ {"in"})

ReadEof ==
    /\ pc = "read"
    /\ toAgent[clients[i].conn] = <<>>
    /\ peer[clients[i].conn] # "open"
    /\ Drop

(* Mutant: what was written is not erased from the output buffer. *)
FlushWrite_keep ==
    /\ pc = "flush"
    /\ clients[i].output # <<>>
    /\ LET c == clients[i].conn IN
          /\ peer[c] = "open"
          /\ Len(toPeer[c]) < SockCap
          /\ toPeer' = [toPeer EXCEPT ![c] = Append(@, Head(clients[i].output))]
    /\ UNCHANGED <<pc, running, tasks, next_id, changed, clients, fds, i, sock, compVars,
                   peer, backlog, toAgent, view, asked, answered>>

(* flush_client: one write, or its end. *)
FlushWrite ==
    /\ pc = "flush"
    /\ clients[i].output # <<>>
    /\ LET c == clients[i].conn IN
          /\ peer[c] = "open"
          /\ Len(toPeer[c]) < SockCap
          /\ toPeer' = [toPeer EXCEPT ![c] = Append(@, Head(clients[i].output))]
    /\ clients' = [clients EXCEPT ![i].output = Tail(@)]
    /\ UNCHANGED <<pc, running, tasks, next_id, changed, fds, i, sock, compVars,
                   peer, backlog, toAgent, view, asked, answered>>

FlushDone ==
    /\ pc = "flush"
    /\ \/ clients[i].output = <<>>
       \/ peer[clients[i].conn] = "open" /\ Len(toPeer[clients[i].conn]) >= SockCap
    /\ ServeNext({})

FlushBroken ==
    /\ pc = "flush"
    /\ clients[i].output # <<>>
    /\ peer[clients[i].conn] # "open"
    /\ Drop

----------------------------------------------------------------------------
(* read_client: the next line is complete, handle_command runs on it *)

Take(S) ==
    /\ pc = "read"
    /\ toAgent[clients[i].conn] # <<>>
    /\ Head(toAgent[clients[i].conn]).verb \in S
    /\ toAgent' = [toAgent EXCEPT ![clients[i].conn] = Tail(@)]

TheCommand == Head(toAgent[clients[i].conn])

AgentUnchanged == UNCHANGED <<pc, running, tasks, next_id, changed, fds, i, sock>>

WorldUnchanged == UNCHANGED <<top, wire, ops, comp, peer, backlog, toPeer, view, asked, answered>>

(* A handler that only answers. *)
ReplyOnly(m) == send(i, m) /\ AgentUnchanged /\ WorldUnchanged /\ UNCHANGED requests

(* A handler that sends requests for task k, flushes the display and says ok. *)
Perform(kinds, k) ==
    /\ requests' = requests \o
          [n \in DOMAIN kinds |-> [kind |-> kinds[n], handle |-> tasks[k].handle,
                                   verb |-> TheCommand.verb]]
    /\ send(i, Answer("ok"))
    /\ AgentUnchanged
    /\ WorldUnchanged

Hello == Take({"hello"}) /\ ReplyOnly(Answer("hello"))

List == Take({"list"}) /\ ReplyOnly(SnapshotMessage(TRUE))

(* Mutant: a new subscriber waits for the next change. *)
Subscribe_quiet ==
    /\ Take({"subscribe"})
    /\ clients' = [clients EXCEPT ![i].subscribed = TRUE]
    /\ AgentUnchanged
    /\ WorldUnchanged
    /\ UNCHANGED requests

Subscribe ==
    /\ Take({"subscribe"})
    /\ clients' = [clients EXCEPT ![i] =
                     [clients[i] EXCEPT !.subscribed = TRUE,
                                        !.output = Append(@, SnapshotMessage(TRUE))]]
    /\ AgentUnchanged
    /\ WorldUnchanged
    /\ UNCHANGED requests

(* The requests of a task command.  Without a seat, activate sends nothing. *)
RequestsOf(verb) ==
    CASE verb = "activate" -> <<"activate">>
      [] verb = "minimize" -> <<"set_minimized">>
      [] verb = "restore"  -> IF HasSeat THEN <<"unset_minimized", "activate">>
                                         ELSE <<"unset_minimized">>
      [] OTHER             -> <<"close">>

(* bad-request for a missing id, not-found, or unsupported. *)
TaskCommandRefused ==
    /\ Take(TaskVerbs)
    /\ \/ TheCommand.id = 0
       \/ find_task(TheCommand.id) = {}
       \/ TheCommand.verb = "activate" /\ ~HasSeat
    /\ ReplyOnly(Answer("error"))

TaskCommand ==
    /\ Take(TaskVerbs)
    /\ TheCommand.id # 0
    /\ TheCommand.verb = "activate" => HasSeat
    /\ \E k \in find_task(TheCommand.id) :
          /\ IsFirst(k, find_task(TheCommand.id))
          /\ Perform(RequestsOf(TheCommand.verb), k)

FocusShell ==
    /\ Take({"focus-shell"})
    /\ \/ /\ shell_task = {} \/ ~HasSeat
          /\ ReplyOnly(Answer("error"))
       \/ /\ HasSeat
          /\ \E k \in shell_task : /\ IsFirst(k, shell_task)
                                   /\ Perform(<<"activate">>, k)

ActiveIsShell ==
    /\ Take({"active-is-shell"})
    /\ LET yes == \E k \in active_task(TRUE) : /\ IsFirst(k, active_task(TRUE))
                                               /\ is_shell_task(tasks[k])
       IN ReplyOnly(Answer(IF yes THEN "ok" ELSE "error"))

ActiveCommand ==
    /\ Take(ActiveVerbs)
    /\ \/ active_task(FALSE) = {} /\ ReplyOnly(Answer("error"))
       \/ \E k \in active_task(FALSE) :
             /\ IsFirst(k, active_task(FALSE))
             /\ Perform(IF TheCommand.verb = "minimize-active"
                        THEN <<"set_minimized">> ELSE <<"close">>, k)

UnknownCommand == Take({"unknown"}) /\ ReplyOnly(Answer("error"))

BlankLine ==
    /\ Take({"blank"})
    /\ AgentUnchanged
    /\ WorldUnchanged
    /\ UNCHANGED <<clients, requests>>

(* input.size() > kMaxLine: read_client gives up on the client. *)
OverlongLine ==
    /\ Take({"overlong"})
    /\ close_client(i)
    /\ pc' = "clients"
    /\ UNCHANGED <<running, tasks, next_id, changed, fds, i, sock, compVars,
                   backlog, toPeer, view, asked, answered>>

handle_command ==
    \/ Hello \/ List \/ Subscribe
    \/ TaskCommandRefused \/ TaskCommand
    \/ FocusShell \/ ActiveIsShell \/ ActiveCommand
    \/ UnknownCommand \/ BlankLine \/ OverlongLine

AgentStep ==
    \/ LoopExit \/ prune_closed \/ PreparePoll
    \/ PollReady \/ PollTimeout
    \/ manager_toplevel \/ manager_finished \/ handle_title \/ handle_app_id
    \/ handle_state \/ handle_done \/ handle_closed \/ DispatchDone \/ DispatchFails
    \/ accept_client \/ AcceptDone
    \/ ClientsDone \/ ServeHangup \/ ServeClient
    \/ ReadAgain \/ ReadEof \/ handle_command
    \/ FlushWrite \/ FlushDone \/ FlushBroken

----------------------------------------------------------------------------
(* The compositor (external).  One toplevel has the focus.  It reports a   *)
(* change of a toplevel's flags with a "state" event, the losing toplevel  *)
(* before the gaining one, and "done" when the batch is complete.          *)

Ev(kind, h) == [kind |-> kind, handle |-> h, name |-> "",
                activated |-> FALSE, minimized |-> FALSE]

NameEv(kind, h, shell) == [Ev(kind, h) EXCEPT !.name = IF shell THEN "shell" ELSE "other"]

StateEv(t, h) == [Ev("state", h) EXCEPT !.activated = t[h].activated,
                                        !.minimized = t[h].minimized]

OneOf(S) == IF S = {} THEN <<>> ELSE <<CHOOSE h \in S : TRUE>>

(* Handles whose flags differ between two tables; at most one of each kind. *)
Altered(t, u) ==
    LET D == {h \in DOMAIN u : u[h].open /\ (h \notin DOMAIN t \/ t[h] # u[h])}
    IN OneOf({h \in D : ~u[h].activated}) \o OneOf({h \in D : u[h].activated})

Report(t, u) ==
    LET who == Altered(t, u)
    IN [n \in DOMAIN who |-> StateEv(u, who[n])] \o [n \in DOMAIN who |-> Ev("done", who[n])]

(* The table becomes u; the agent is sent the events "first" and the changes. *)
Become(u, first) ==
    /\ top' = u
    /\ wire' = (wire \o first) \o Report(top, u)

Focus(t, f) == [h \in DOMAIN t |-> [t[h] EXCEPT !.activated = (h = f)]]

Focusable(t) == {h \in DOMAIN t : t[h].open /\ ~t[h].minimized}

(* Once h is gone or minimized (table t), where the focus goes: nowhere new *)
(* if h did not have it, else to some toplevel that can take it.            *)
Defocused(t, h) ==
    IF ~t[h].activated THEN {t}
    ELSE IF Focusable(t) = {} THEN {Focus(t, 0)}
    ELSE {Focus(t, f) : f \in Focusable(t)}

UserOp == /\ comp = "up"
          /\ ops < MaxOps
          /\ ops' = ops + 1
          /\ UNCHANGED <<agentVars, requests, comp, peerVars>>

(* A new toplevel takes the focus.  There is one Shell at a time. *)
OpenWindow(shell) ==
    /\ UserOp
    /\ Len(top) < MaxWindows
    /\ shell => ~ \E h \in DOMAIN top : top[h].shell /\ top[h].open
    /\ LET h == Len(top) + 1 IN
       Become(Append(Focus(top, 0), [shell |-> shell, activated |-> TRUE,
                                     minimized |-> FALSE, open |-> TRUE]),
              <<Ev("toplevel", h), NameEv("title", h, shell), NameEv("app_id", h, shell)>>)

CloseToplevel(h) ==
    \E u \in Defocused([top EXCEPT ![h].open = FALSE], h) : Become(u, <<Ev("closed", h)>>)

CloseWindow(h) == UserOp /\ top[h].open /\ CloseToplevel(h)

FocusWindow(h) ==
    /\ UserOp
    /\ h \in Focusable(top)
    /\ ~top[h].activated
    /\ Become(Focus(top, h), <<>>)

(* The next request of the agent; one for a toplevel that is gone is void, *)
(* and an application may decline to close.                                *)
HandleRequest ==
    /\ comp = "up"
    /\ requests # <<>>
    /\ requests' = Tail(requests)
    /\ LET r == Head(requests)
           h == r.handle
       IN IF ~top[h].open THEN UNCHANGED <<top, wire>>
          ELSE \/ /\ r.kind = "activate"
                  /\ Become(Focus([top EXCEPT ![h].minimized = FALSE], h), <<>>)
               \/ /\ r.kind = "unset_minimized"
                  /\ Become([top EXCEPT ![h].minimized = FALSE], <<>>)
               \/ /\ r.kind = "set_minimized"
                  /\ \E u \in Defocused([top EXCEPT ![h].minimized = TRUE], h) : Become(u, <<>>)
               \/ /\ r.kind = "close"
                  /\ CloseToplevel(h) \/ UNCHANGED <<top, wire>>
    /\ UNCHANGED <<agentVars, ops, comp, peerVars>>

ManagerStops ==
    /\ "finished" \in Faults
    /\ comp = "up"
    /\ comp' = "finished"
    /\ wire' = Append(wire, Ev("finished", 0))
    /\ UNCHANGED <<agentVars, top, requests, ops, peerVars>>

CompositorExits ==
    /\ "compositor-exit" \in Faults
    /\ comp = "up"
    /\ comp' = "down"
    /\ UNCHANGED <<agentVars, top, wire, requests, ops, peerVars>>

CompositorStep ==
    \/ \E shell \in BOOLEAN : OpenWindow(shell)
    \/ \E h \in DOMAIN top : CloseWindow(h) \/ FocusWindow(h)
    \/ HandleRequest \/ ManagerStops \/ CompositorExits

----------------------------------------------------------------------------
(* The peers (external): connect, send lines, read messages, hang up. *)

Connect(c) ==
    /\ sock
    /\ pc \notin {"exited", "failed"}
    /\ peer[c] = "idle"
    /\ peer' = [peer EXCEPT ![c] = "open"]
    /\ backlog' = Append(backlog, c)
    /\ UNCHANGED <<agentVars, compVars, toAgent, toPeer, view, asked, answered>>

(* Lines that handle_command answers. *)
HasAnswer(cmd) == cmd.verb \notin {"blank", "overlong"}

SendCommand(c, cmd) ==
    /\ peer[c] = "open"
    /\ asked[c] + Len(toAgent[c]) < MaxCommands
    /\ toAgent' = [toAgent EXCEPT ![c] = Append(@, cmd)]
    /\ asked' = IF HasAnswer(cmd) THEN [asked EXCEPT ![c] = @ + 1] ELSE asked
    /\ UNCHANGED <<agentVars, compVars, peer, backlog, toPeer, view, answered>>

Receive(c) ==
    /\ peer[c] \in {"open", "dropped"}
    /\ toPeer[c] # <<>>
    /\ toPeer' = [toPeer EXCEPT ![c] = Tail(@)]
    /\ LET m == Head(toPeer[c]) IN
          /\ view' = IF m.kind = "snapshot" THEN [view EXCEPT ![c] = m.lines] ELSE view
          /\ answered' = IF m.reply THEN [answered EXCEPT ![c] = @ + 1] ELSE answered
    /\ UNCHANGED <<agentVars, compVars, peer, backlog, toAgent, asked>>

HangUp(c) ==
    /\ "hang-up" \in Faults
    /\ peer[c] = "open"
    /\ peer' = [peer EXCEPT ![c] = "gone"]
    /\ toPeer' = [toPeer EXCEPT ![c] = <<>>]
    /\ UNCHANGED <<agentVars, compVars, backlog, toAgent, view, asked, answered>>

PeerStep ==
    \E c \in Conns :
        \/ Connect(c) \/ Receive(c) \/ HangUp(c)
        \/ \E cmd \in Commands : SendCommand(c, cmd)

----------------------------------------------------------------------------
(* The agent is started by cardputer-zero-shell-session before the Shell,  *)
(* in a compositor that has no toplevel yet.                               *)

Init ==
    /\ pc = "top"
    /\ running = TRUE
    /\ tasks = <<>>
    /\ next_id = 1
    /\ changed = FALSE
    /\ clients = <<>>
    /\ fds = NoFds
    /\ i = 1
    /\ sock = TRUE
    /\ top = <<>>
    /\ wire = <<>>
    /\ requests = <<>>
    /\ ops = 0
    /\ comp = "up"
    /\ peer = [c \in Conns |-> "idle"]
    /\ backlog = <<>>
    /\ toAgent = [c \in Conns |-> <<>>]
    /\ toPeer = [c \in Conns |-> <<>>]
    /\ view = [c \in Conns |-> {}]
    /\ asked = [c \in Conns |-> 0]
    /\ answered = [c \in Conns |-> 0]

Next == AgentStep \/ Signal \/ PollFails \/ CompositorStep \/ PeerStep

Spec == Init /\ [][Next]_vars

(* The agent's thread keeps running, the compositor serves its requests    *)
(* and the peers read: nothing else has to happen.                         *)
Fairness ==
    /\ WF_vars(AgentStep)
    /\ WF_vars(HandleRequest)
    /\ \A c \in Conns : WF_vars(Receive(c))

FairSpec == Spec /\ Fairness

----------------------------------------------------------------------------
(* Properties *)

(* Every (id, toplevel) pair in use: in the table, in a snapshot waiting in *)
(* an output buffer or in a socket, and in what a peer last received.       *)
LinePairs(lines) == {<<l.id, l.handle>> : l \in lines}
QueuePairs(q)    == UNION {LinePairs(q[n].lines) : n \in DOMAIN q}

TaskPairs   == {<<tasks[k].id, tasks[k].handle>> : k \in DOMAIN tasks}
OutputPairs == UNION {QueuePairs(clients[k].output) : k \in DOMAIN clients}
SocketPairs == UNION {QueuePairs(toPeer[c]) : c \in Conns}
ViewPairs   == UNION {LinePairs(view[c]) : c \in Conns}

NamedPairs == TaskPairs \cup OutputPairs \cup SocketPairs \cup ViewPairs

(* A task id names one toplevel for the life of the agent: an id a client   *)
(* read in any snapshot, however old, never comes to mean another window    *)
(* (manager_toplevel's next_id_++ against prune_closed's erase).            *)
IdsNameOneToplevel ==
    \A p, q \in NamedPairs : p[1] = q[1] => p[2] = q[2]

(* minimize-active and close-active never reach the Shell, although the     *)
(* table is updated one event at a time and commands run in between.        *)
ActiveCommandsSpareShell ==
    \A n \in DOMAIN requests :
        requests[n].verb \in ActiveVerbs => ~top[requests[n].handle].shell

(* What a client should see: the compositor's open toplevels. *)
TrueLines ==
    {[handle |-> h, name |-> IF top[h].shell THEN "shell" ELSE "other",
      activated |-> top[h].activated, minimized |-> top[h].minimized] :
        h \in {g \in DOMAIN top : top[g].open}}

Seen(lines) ==
    {[handle |-> l.handle, name |-> l.app_id,
      activated |-> l.activated, minimized |-> l.minimized] : l \in lines}

(* With no event under way the table is the compositor's: every toplevel    *)
(* that opened and stayed has a task, under its own name and with its own   *)
(* flags, and a closed one has none, although a listener changes only its   *)
(* own part of a task and handle_done takes a "closed" back.                *)
QuietTableIsTrue == wire = <<>> => Seen(SnapshotLines) = TrueLines

(* Between the dispatch of "closed" and the prune at the top of the next    *)
(* turn, commands still run: none acts on the dead toplevel and no snapshot *)
(* written from then on lists it.                                           *)
LiveHandles == {tasks[k].handle : k \in {j \in DOMAIN tasks : ~tasks[j].closed}}

ClosedTasksAreUnreachable ==
    [][/\ \A n \in DOMAIN requests' \ DOMAIN requests : requests'[n].handle \in LiveHandles
       /\ \A k \in DOMAIN clients' \cap DOMAIN clients :
            clients'[k].conn = clients[k].conn =>
              \A n \in DOMAIN clients'[k].output \ DOMAIN clients[k].output :
                 \A l \in clients'[k].output[n].lines : l.handle \in LiveHandles
      ]_<<requests, clients>>

(* On a connection that is still up, every command line is unread in the    *)
(* socket or has exactly one answer, in the output buffer, in the socket or *)
(* received: no branch of handle_command is silent or answers twice, and no *)
(* write loses or repeats a message.                                        *)
Answers(q) == Cardinality({n \in DOMAIN q : q[n].reply})

OutputOf(c) ==
    IF \E k \in DOMAIN clients : clients[k].conn = c
    THEN clients[CHOOSE k \in DOMAIN clients : clients[k].conn = c].output
    ELSE <<>>

OneAnswerPerCommand ==
    \A c \in Conns : peer[c] = "open" =>
        asked[c] = answered[c] + Answers(toPeer[c]) + Answers(OutputOf(c))
                     + Cardinality({n \in DOMAIN toAgent[c] : HasAnswer(toAgent[c][n])})

(* The snapshot a peer will hold once it has read all that is queued for it *)
(* is S: the last one in the socket and the output buffer, or, if there is  *)
(* none, the one it holds already.                                          *)
Queued(k) == toPeer[clients[k].conn] \o clients[k].output

LatestIs(q, v, S) ==
    \/ /\ \A n \in DOMAIN q : q[n].kind # "snapshot"
       /\ v = S
    \/ \E n \in DOMAIN q : /\ q[n].kind = "snapshot"
                           /\ q[n].lines = S
                           /\ \A m \in DOMAIN q : m > n => q[m].kind # "snapshot"

(* Whenever no broadcast is due (changed_ is clear, as it is each time the  *)
(* thread sleeps in poll), the last snapshot under way to each connected    *)
(* subscriber is the table as it is now: no event, prune, partial write or  *)
(* late subscription leaves a subscriber behind.                            *)
SubscribersCurrent ==
    ~changed =>
      \A k \in DOMAIN clients :
        clients[k].subscribed /\ peer[clients[k].conn] = "open"
          => LatestIs(Queued(k), view[clients[k].conn], SnapshotLines)

(* To its clients the agent is a TaskService: each line is answered once,   *)
(* in one step, against the table without its closed tasks, and acts on a   *)
(* task of that table only; every subscriber is queued a snapshot after     *)
(* each change; a queue reaches its peer whole and in order up to where the *)
(* connection ends. The vector that erase moves, the indices kept across    *)
(* it, the partial writes and the batches of events must not show.          *)
Up          == pc \notin {"exited", "failed"}
Waiting     == {backlog[n] : n \in DOMAIN backlog}
Served      == {clients[k].conn : k \in DOMAIN clients}
Subscribers == {clients[k].conn : k \in {j \in DOMAIN clients : clients[j].subscribed}}
QueueOf(c)  == IF peer[c] = "open" THEN toPeer[c] \o OutputOf(c) ELSE toPeer[c]
Queues      == [c \in Conns |-> QueueOf(c)]

Service ==
    INSTANCE TaskService WITH
        up <- Up, table <- SnapshotLines, due <- changed, link <- peer,
        waiting <- Waiting, served <- Served, subscribers <- Subscribers,
        inbox <- toAgent, queue <- Queues

KeepsService == Service!ServiceSpec

ViewOf(c) == Seen(view[c])

Subscribed(c) == \E k \in DOMAIN clients : clients[k].conn = c /\ clients[k].subscribed

(* A subscriber that stays connected and reads ends up with the table of    *)
(* the compositor, whatever the interleaving of events, broadcasts, full    *)
(* sockets and other clients (docs/window-agent.md: subscribe "streams      *)
(* later snapshots when the compositor state changes").                     *)
SubscribersConverge ==
    \A c \in Conns :
        <>[](Subscribed(c) /\ peer[c] = "open" /\ comp = "up" => ViewOf(c) = TrueLines)

(* A peer that waits for its answer gets it or sees the connection closed:  *)
(* no reply stays in an output buffer that poll does not watch.             *)
EveryCommandSettles ==
    \A c \in Conns :
        (peer[c] = "open" /\ answered[c] < asked[c])
            ~> (answered[c] = asked[c] \/ peer[c] # "open")

(* A signal, even one between the test of g_running and poll, ends the      *)
(* process and removes its socket path.                                     *)
ShutdownCompletes == ~running ~> ((pc = "exited" /\ ~sock) \/ pc = "failed")

(* What subscribe promises (docs/window-agent.md, "streams later snapshots  *)
(* when the compositor state changes"): the agent gives up on a subscriber  *)
(* only if that subscriber hung up, or sent an overlong line.               *)
OwnFault(c) ==
    \/ peer[c] = "gone"
    \/ toAgent[c] # <<>> /\ Head(toAgent[c]).verb = "overlong"

SubscriptionLasts ==
    [][\A c \in Conns :
         Subscribed(c) /\ peer[c] = "open" /\ peer'[c] = "dropped" /\ pc' = "clients"
           => OwnFault(c)]_peer

=============================================================================
