------------------------- MODULE WindowAgentProofs -------------------------
(***************************************************************************)
(* Proofs about WindowAgent, for every number of connections, windows and  *)
(* commands: the type invariant, and that a task id names one toplevel.    *)
(***************************************************************************)
EXTENDS WindowAgent, SequenceTheorems, TLAPS

----------------------------------------------------------------------------
(* Sequences *)

(* A function on 1 .. n is a sequence of length n. *)
LEMMA FunIsSeq ==
    ASSUME NEW S, NEW n \in Nat, NEW f \in [1 .. n -> S]
    PROVE  f \in Seq(S) /\ Len(f) = n
  OBVIOUS

(* The domain of a sequence. *)
LEMMA SeqDomain ==
    ASSUME NEW S, NEW s \in Seq(S)
    PROVE  DOMAIN s = 1 .. Len(s) /\ Len(s) \in Nat /\ \A k \in DOMAIN s : s[k] \in S
  OBVIOUS

(* Erasing an element of a vector keeps the others, in order. *)
LEMMA EraseSeq ==
    ASSUME NEW S, NEW s \in Seq(S), NEW k \in DOMAIN s
    PROVE  /\ Erase(s, k) \in Seq(S)
           /\ Len(Erase(s, k)) = Len(s) - 1
           /\ \A j \in 1 .. (Len(s) - 1) :
                Erase(s, k)[j] = IF j < k THEN s[j] ELSE s[j + 1]
  <1>1. Len(s) - 1 \in Nat
    OBVIOUS
  <1>2. Erase(s, k) \in [1 .. (Len(s) - 1) -> S]
    BY DEF Erase
  <1> QED
    BY <1>1, <1>2, FunIsSeq DEF Erase

(* A function on the positions of a sequence is a sequence of its length. *)
LEMMA MapSeq ==
    ASSUME NEW S, NEW T, NEW s \in Seq(S), NEW f,
           DOMAIN f = DOMAIN s, f = [k \in DOMAIN f |-> f[k]],
           \A k \in DOMAIN s : f[k] \in T
    PROVE  f \in Seq(T) /\ Len(f) = Len(s)
  <1>1. f \in [1 .. Len(s) -> T]
    BY SeqDomain
  <1> QED
    BY <1>1, FunIsSeq, SeqDomain

(* Queueing a message leaves a client well typed. *)
LEMMA ClientAppend ==
    ASSUME NEW cl \in Client, NEW m \in Message
    PROVE  [cl EXCEPT !.output = Append(@, m)] \in Client
  <1>1. cl.output \in Seq(Message)
    BY DEF Client
  <1>2. Append(cl.output, m) \in Seq(Message)
    BY <1>1
  <1>3. [cl EXCEPT !.output = Append(@, m)] = [cl EXCEPT !.output = Append(cl.output, m)]
    BY DEF Client
  <1> QED
    BY <1>2, <1>3 DEF Client

(* Replacing one element of a sequence. *)
LEMMA ReplaceSeq ==
    ASSUME NEW S, NEW s \in Seq(S), NEW k \in DOMAIN s, NEW x \in S
    PROVE  /\ [s EXCEPT ![k] = x] \in Seq(S)
           /\ Len([s EXCEPT ![k] = x]) = Len(s)
  OBVIOUS

----------------------------------------------------------------------------
(* The type invariant *)

(* The initial state is well typed. *)
LEMMA TypeInit == Init => TypeOK
  <1> SUFFICES ASSUME Init PROVE TypeOK
    OBVIOUS
  <1>1. NoFds \in FdsType
    BY DEF NoFds, FdsType
  <1>2. \A S : <<>> \in Seq(S)
    OBVIOUS
  <1>3. toAgent \in [Conns -> Seq(Command)] /\ toPeer \in [Conns -> Seq(Message)]
    BY <1>2 DEF Init
  <1>4. view \in [Conns -> SUBSET Line]
    BY DEF Init
  <1>5. running \in BOOLEAN /\ changed \in BOOLEAN /\ sock \in BOOLEAN
    BY DEF Init
  <1>6. peer \in [Conns -> {"idle", "open", "gone", "dropped"}]
    BY DEF Init
  <1>7. asked \in [Conns -> Nat] /\ answered \in [Conns -> Nat]
    BY DEF Init
  <1> QED
    BY <1>1, <1>2, <1>3, <1>4, <1>5, <1>6, <1>7 DEF Init, TypeOK

(* Exit of the process. *)
LEMMA TypeExit == ASSUME TypeOK, Exit PROVE TypeOK'
  <1>1. peer' \in [Conns -> {"idle", "open", "gone", "dropped"}]
    BY DEF TypeOK, Exit, HangUpOnAll
  <1> QED
    BY <1>1 DEF TypeOK, Exit, compVars

(* A snapshot of a well typed table is a message. *)
LEMMA SnapshotType ==
    ASSUME TypeOK
    PROVE  /\ SnapshotLines \in SUBSET Line
           /\ \A r \in BOOLEAN : SnapshotMessage(r) \in Message
           /\ \A s \in {"hello", "ok", "error"} : Answer(s) \in Message
  <1>1. ASSUME NEW k \in DOMAIN tasks PROVE LineOf(tasks[k]) \in Line
    <2>1. tasks[k] \in Task
      BY DEF TypeOK
    <2> QED
      BY <2>1 DEF Task, Line, LineOf
  <1>2. SnapshotLines \in SUBSET Line
    BY <1>1 DEF SnapshotLines
  <1>3. ASSUME NEW r \in BOOLEAN PROVE SnapshotMessage(r) \in Message
    BY <1>2 DEF SnapshotMessage, Message
  <1>4. ASSUME NEW s \in {"hello", "ok", "error"} PROVE Answer(s) \in Message
    BY DEF Answer, Message
  <1> QED
    BY <1>2, <1>3, <1>4

(* The top of the loop: prune and broadcast. *)
LEMMA TypeTop == ASSUME TypeOK, prune_closed \/ PreparePoll PROVE TypeOK'
  <1>1. CASE prune_closed
    <2>1. PICK k \in ClosedTasks : tasks' = Erase(tasks, k)
      BY <1>1 DEF prune_closed
    <2>2. k \in DOMAIN tasks
      BY DEF ClosedTasks
    <2>3. tasks' \in Seq(Task)
      BY <2>1, <2>2, EraseSeq DEF TypeOK
    <2> QED
      BY <1>1, <2>3 DEF TypeOK, prune_closed, compVars, peerVars
  <1>2. CASE PreparePoll
    <2>1. clients' \in Seq(Client)
      <3>1. CASE ~changed
        BY <1>2, <3>1 DEF TypeOK, PreparePoll
      <3>2. CASE changed
        <4>1. ASSUME NEW k \in DOMAIN clients PROVE clients'[k] \in Client
          <5>1. clients[k] \in Client
            BY DEF TypeOK
          <5>2. SnapshotMessage(FALSE) \in Message
            BY SnapshotType
          <5>3. [clients[k] EXCEPT !.output = Append(@, SnapshotMessage(FALSE))] \in Client
            BY <5>1, <5>2, ClientAppend
          <5> QED
            BY <1>2, <3>2, <5>1, <5>3 DEF PreparePoll, broadcast_snapshot
        <4>2. DOMAIN clients' = DOMAIN clients /\ clients' = [k \in DOMAIN clients' |-> clients'[k]]
          BY <1>2, <3>2 DEF PreparePoll, broadcast_snapshot
        <4> QED
          BY <4>1, <4>2, MapSeq DEF TypeOK
      <3> QED
        BY <3>1, <3>2 DEF TypeOK
    <2> QED
      BY <1>2, <2>1 DEF TypeOK, PreparePoll, compVars, peerVars
  <1> QED
    BY <1>1, <1>2

(* poll, and what interrupts it. *)
LEMMA TypePoll == ASSUME TypeOK, PollReady \/ PollTimeout \/ Signal \/ PollFails PROVE TypeOK'
  <1>1. CASE PollReady
    <2>1. PollResult.rev \in Seq(Revents)
      <3>1. \A k \in DOMAIN clients : PollResult.rev[k] \in Revents
        BY DEF PollResult, Polled, Revents
      <3>2. DOMAIN PollResult.rev = DOMAIN clients
             /\ PollResult.rev = [k \in DOMAIN PollResult.rev |-> PollResult.rev[k]]
        BY DEF PollResult
      <3> QED
        BY <3>1, <3>2, MapSeq DEF TypeOK
    <2>2. PollResult \in FdsType
      BY <2>1 DEF PollResult, FdsType
    <2> QED
      BY <1>1, <2>2 DEF TypeOK, PollReady, compVars, peerVars
  <1>2. CASE PollTimeout
    BY <1>2 DEF TypeOK, PollTimeout, compVars, peerVars
  <1>3. CASE Signal
    BY <1>3 DEF TypeOK, Signal, compVars, peerVars
  <1>4. CASE PollFails
    <2>1. peer' \in [Conns -> {"idle", "open", "gone", "dropped"}]
      BY <1>4 DEF TypeOK, PollFails, HangUpOnAll
    <2> QED
      BY <1>4, <2>1 DEF TypeOK, PollFails, compVars
  <1> QED
    BY <1>1, <1>2, <1>3, <1>4

(* What every listener does: the event is taken off the wire. *)
LEMMA TypeDispatch ==
    ASSUME TypeOK, NEW kind, Dispatch(kind)
    PROVE  /\ Head(wire) \in Event
           /\ wire' \in Seq(Event)
           /\ fds' \in FdsType
           /\ changed' \in BOOLEAN
           /\ UNCHANGED <<pc, clients, i, sock, top, requests, ops, comp, peer, backlog,
                          toAgent, toPeer, view, asked, answered>>
  <1>1. Head(wire) \in Event
    BY DEF TypeOK, Dispatch
  <1>2. wire' \in Seq(Event)
    BY DEF TypeOK, Dispatch
  <1>3. fds' \in FdsType
    BY DEF TypeOK, Dispatch, FdsType
  <1> QED
    BY <1>1, <1>2, <1>3 DEF Dispatch, peerVars

(* The listeners that update one task keep its id and its handle. *)
LEMMA UpdateHandlers ==
    ASSUME TypeOK,
           handle_title \/ handle_app_id \/ handle_state \/ handle_done \/ handle_closed
    PROVE  /\ tasks' \in Seq(Task)
           /\ DOMAIN tasks' = DOMAIN tasks
           /\ \A k \in DOMAIN tasks : /\ tasks'[k].id = tasks[k].id
                                      /\ tasks'[k].handle = tasks[k].handle
           /\ UNCHANGED <<running, next_id>>
           /\ \E kind : Dispatch(kind)
  <1>1. Head(wire) \in Event
    BY TypeDispatch DEF handle_title, handle_app_id, handle_state, handle_done, handle_closed
  <1>2. DOMAIN tasks' = DOMAIN tasks /\ tasks' = [k \in DOMAIN tasks' |-> tasks'[k]]
    BY DEF handle_title, handle_app_id, handle_state, handle_done, handle_closed, TaskUpdate
  <1>3. ASSUME NEW k \in DOMAIN tasks
        PROVE  /\ tasks'[k] \in Task
               /\ tasks'[k].id = tasks[k].id
               /\ tasks'[k].handle = tasks[k].handle
    <2>1. tasks[k] \in Task
      BY DEF TypeOK
    <2>2. /\ Head(wire).name \in Names
          /\ Head(wire).activated \in BOOLEAN
          /\ Head(wire).minimized \in BOOLEAN
      BY <1>1 DEF Event
    <2>3. CASE handle_title
      <3>1. \/ tasks'[k] = tasks[k]
            \/ tasks'[k] = [tasks[k] EXCEPT !.title = Head(wire).name]
        BY <2>3 DEF handle_title, TaskUpdate
      <3> QED
        BY <2>1, <2>2, <3>1 DEF Task
    <2>4. CASE handle_app_id
      <3>1. \/ tasks'[k] = tasks[k]
            \/ tasks'[k] = [tasks[k] EXCEPT !.app_id = Head(wire).name]
        BY <2>4 DEF handle_app_id, TaskUpdate
      <3> QED
        BY <2>1, <2>2, <3>1 DEF Task
    <2>5. CASE handle_state
      <3>1. \/ tasks'[k] = tasks[k]
            \/ tasks'[k] = [tasks[k] EXCEPT !.activated = Head(wire).activated,
                                 !.minimized = Head(wire).minimized]
        BY <2>5 DEF handle_state, TaskUpdate
      <3> QED
        BY <2>1, <2>2, <3>1 DEF Task
    <2>6. CASE handle_done
      <3>1. \/ tasks'[k] = tasks[k]
            \/ tasks'[k] = [tasks[k] EXCEPT !.closed = FALSE]
        BY <2>6 DEF handle_done, TaskUpdate
      <3> QED
        BY <2>1, <2>2, <3>1 DEF Task
    <2>7. CASE handle_closed
      <3>1. \/ tasks'[k] = tasks[k]
            \/ tasks'[k] = [tasks[k] EXCEPT !.closed = TRUE]
        BY <2>7 DEF handle_closed, TaskUpdate
      <3> QED
        BY <2>1, <2>2, <3>1 DEF Task
    <2> QED
      BY <2>3, <2>4, <2>5, <2>6, <2>7
  <1>4. tasks' \in Seq(Task)
    BY <1>2, <1>3, MapSeq DEF TypeOK
  <1>5. UNCHANGED <<running, next_id>>
    BY DEF handle_title, handle_app_id, handle_state, handle_done, handle_closed
  <1>6. \/ Dispatch("title") \/ Dispatch("app_id") \/ Dispatch("state")
        \/ Dispatch("done") \/ Dispatch("closed")
    BY DEF handle_title, handle_app_id, handle_state, handle_done, handle_closed
  <1>7. \E kind : Dispatch(kind)
    BY <1>6
  <1> QED
    BY <1>2, <1>3, <1>4, <1>5, <1>7

(* wl_display_dispatch. *)
LEMMA TypeDisplay ==
    ASSUME TypeOK,
           \/ manager_toplevel \/ manager_finished \/ handle_title \/ handle_app_id
           \/ handle_state \/ handle_done \/ handle_closed \/ DispatchDone
    PROVE  TypeOK'
  <1>1. CASE manager_toplevel
    <2>1. Dispatch("toplevel")
      BY <1>1 DEF manager_toplevel
    <2>2. NewTask(next_id, Head(wire).handle) \in Task
      BY <2>1, TypeDispatch DEF TypeOK, NewTask, Task, Names, Event
    <2>3. tasks' \in Seq(Task) /\ next_id' \in Nat \ {0} /\ UNCHANGED running
      BY <1>1, <2>2 DEF TypeOK, manager_toplevel
    <2> QED
      BY <2>1, <2>3, TypeDispatch DEF TypeOK
  <1>2. CASE manager_finished
    <2>1. Dispatch("finished") /\ running' \in BOOLEAN /\ UNCHANGED <<tasks, next_id>>
      BY <1>2 DEF manager_finished
    <2> QED
      BY <2>1, TypeDispatch DEF TypeOK
  <1>3. CASE handle_title \/ handle_app_id \/ handle_state \/ handle_done \/ handle_closed
    <2>1. PICK kind : Dispatch(kind)
      BY <1>3, UpdateHandlers
    <2>2. tasks' \in Seq(Task) /\ UNCHANGED <<running, next_id>>
      BY <1>3, UpdateHandlers
    <2> QED
      BY <2>1, <2>2, TypeDispatch DEF TypeOK
  <1>4. CASE DispatchDone
    BY <1>4 DEF TypeOK, DispatchDone, AfterDispatch, compVars, peerVars
  <1> QED
    BY <1>1, <1>2, <1>3, <1>4

(* accept_client. *)
LEMMA TypeAccept == ASSUME TypeOK, accept_client \/ AcceptDone PROVE TypeOK'
  <1>1. CASE accept_client
    <2>1. Head(backlog) \in Conns /\ Tail(backlog) \in Seq(Conns)
      BY <1>1 DEF TypeOK, accept_client
    <2>2. [conn |-> Head(backlog), subscribed |-> FALSE, output |-> <<>>] \in Client
      BY <2>1 DEF Client
    <2>3. clients' \in Seq(Client)
      BY <1>1, <2>2 DEF TypeOK, accept_client
    <2> QED
      BY <1>1, <2>1, <2>3 DEF TypeOK, accept_client, compVars
  <1>2. CASE AcceptDone
    BY <1>2 DEF TypeOK, AcceptDone, compVars, peerVars
  <1> QED
    BY <1>1, <1>2

(* close_client on a client of the vector. *)
LEMMA TypeClose ==
    ASSUME TypeOK, NEW k \in DOMAIN clients, close_client(k)
    PROVE  /\ clients' \in Seq(Client)
           /\ peer' \in [Conns -> {"idle", "open", "gone", "dropped"}]
  <1>0. clients[k] \in Client
    BY DEF TypeOK
  <1>1. clients[k].conn \in Conns
    BY <1>0 DEF Client
  <1>2. clients' \in Seq(Client)
    BY EraseSeq DEF TypeOK, close_client
  <1>3. peer' \in [Conns -> {"idle", "open", "gone", "dropped"}]
    BY <1>1 DEF TypeOK, close_client
  <1> QED
    BY <1>2, <1>3

(* Moving on in the client loop. *)
LEMMA TypeServeNext ==
    ASSUME TypeOK, i <= Len(clients), NEW rest, ServeNext(rest)
    PROVE  TypeOK'
  BY DEF TypeOK, ServeNext, compVars, peerVars

(* The client loop, except for the commands. *)
LEMMA TypeClients ==
    ASSUME TypeOK,
           \/ ClientsDone \/ ServeHangup \/ ServeClient \/ ReadAgain \/ ReadEof
           \/ FlushWrite \/ FlushDone \/ FlushBroken
    PROVE  TypeOK'
  <1>1. CASE ClientsDone
    <2>1. NoFds \in FdsType
      BY DEF NoFds, FdsType
    <2> QED
      BY <1>1, <2>1 DEF TypeOK, ClientsDone, compVars, peerVars
  <1>2. CASE ServeHangup \/ ReadEof \/ FlushBroken
    <2>1. i \in DOMAIN clients /\ Drop
      BY <1>2 DEF TypeOK, ServeHangup, ReadEof, FlushBroken
    <2>2. clients' \in Seq(Client) /\ peer' \in [Conns -> {"idle", "open", "gone", "dropped"}]
      BY <2>1, TypeClose DEF Drop
    <2> QED
      BY <2>1, <2>2 DEF TypeOK, Drop, compVars
  <1>3. CASE ServeClient \/ ReadAgain \/ FlushDone
    BY <1>3, TypeServeNext DEF TypeOK, ServeClient, ReadAgain, FlushDone
  <1>4. CASE FlushWrite
    <2>1. i \in DOMAIN clients /\ clients[i] \in Client /\ clients[i].output # <<>>
      BY <1>4 DEF TypeOK, FlushWrite
    <2>2. /\ clients[i].conn \in Conns
          /\ Head(clients[i].output) \in Message
          /\ Tail(clients[i].output) \in Seq(Message)
      BY <2>1 DEF Client
    <2>3. toPeer' \in [Conns -> Seq(Message)]
      <3> DEFINE c == clients[i].conn
                 m == Head(clients[i].output)
      <3>1. toPeer \in [Conns -> Seq(Message)] /\ toPeer' = [toPeer EXCEPT ![c] = Append(@, m)]
        BY <1>4 DEF TypeOK, FlushWrite
      <3>2. toPeer[c] \in Seq(Message)
        BY <2>2, <3>1
      <3>3. Append(toPeer[c], m) \in Seq(Message)
        BY <2>2, <3>2
      <3> QED
        BY <2>2, <3>1, <3>3
    <2>4. [clients[i] EXCEPT !.output = Tail(clients[i].output)] \in Client
      BY <2>1, <2>2 DEF Client
    <2>5. clients' = [clients EXCEPT ![i] = [clients[i] EXCEPT !.output = Tail(clients[i].output)]]
      BY <1>4, <2>1 DEF FlushWrite
    <2>6. clients' \in Seq(Client) /\ Len(clients') = Len(clients)
      BY <2>1, <2>4, <2>5, ReplaceSeq DEF TypeOK
    <2> QED
      BY <1>4, <2>3, <2>6 DEF TypeOK, FlushWrite, compVars
  <1> QED
    BY <1>1, <1>2, <1>3, <1>4

(* Reading a command off the socket of client i. *)
LEMMA TypeTake ==
    ASSUME TypeOK, NEW S, Take(S)
    PROVE  /\ i \in DOMAIN clients
           /\ clients[i] \in Client
           /\ clients[i].conn \in Conns
           /\ TheCommand \in Command
           /\ TheCommand.verb \in S
           /\ toAgent' \in [Conns -> Seq(Command)]
  <1>1. i \in DOMAIN clients
    BY DEF TypeOK, Take
  <1>2. clients[i] \in Client
    BY <1>1 DEF TypeOK
  <1>3. clients[i].conn \in Conns
    BY <1>2 DEF Client
  <1>4. toAgent[clients[i].conn] \in Seq(Command) /\ toAgent[clients[i].conn] # <<>>
    BY <1>3 DEF TypeOK, Take
  <1>5. TheCommand \in Command /\ TheCommand.verb \in S
    BY <1>4 DEF TheCommand, Take
  <1>6. toAgent' \in [Conns -> Seq(Command)]
    BY <1>3, <1>4 DEF TypeOK, Take
  <1> QED
    BY <1>1, <1>2, <1>3, <1>5, <1>6

(* Queueing a message for a client. *)
LEMMA TypeSend ==
    ASSUME TypeOK, NEW k \in DOMAIN clients, NEW m \in Message, send(k, m)
    PROVE  /\ clients' \in Seq(Client)
           /\ Len(clients') = Len(clients)
           /\ clients' = [clients EXCEPT ![k] = [clients[k] EXCEPT !.output = Append(@, m)]]
  <1>1. clients[k] \in Client
    BY DEF TypeOK
  <1>2. [clients[k] EXCEPT !.output = Append(@, m)] \in Client
    BY <1>1, ClientAppend
  <1>3. clients' = [clients EXCEPT ![k] = [clients[k] EXCEPT !.output = Append(@, m)]]
    BY DEF send
  <1> QED
    BY <1>2, <1>3, ReplaceSeq DEF TypeOK

(* A handler that only answers. *)
LEMMA TypeReplyOnly ==
    ASSUME TypeOK, NEW S, Take(S), NEW m \in Message, ReplyOnly(m)
    PROVE  TypeOK'
  <1>1. toAgent' \in [Conns -> Seq(Command)] /\ i \in DOMAIN clients
    BY TypeTake
  <1>2. clients' \in Seq(Client) /\ Len(clients') = Len(clients)
    BY <1>1, TypeSend DEF ReplyOnly
  <1> QED
    BY <1>1, <1>2 DEF TypeOK, ReplyOnly, AgentUnchanged, WorldUnchanged

(* A handler that sends requests for a task. *)
LEMMA TypePerform ==
    ASSUME TypeOK, NEW S, Take(S), NEW k \in DOMAIN tasks,
           NEW kinds \in Seq(RequestKinds), Perform(kinds, k)
    PROVE  TypeOK'
  <1>1. toAgent' \in [Conns -> Seq(Command)] /\ i \in DOMAIN clients /\ TheCommand \in Command
    BY TypeTake
  <1>2. Answer("ok") \in Message
    BY SnapshotType
  <1>3. clients' \in Seq(Client) /\ Len(clients') = Len(clients)
    BY <1>1, <1>2, TypeSend DEF Perform
  <1> DEFINE new == [n \in DOMAIN kinds |-> [kind |-> kinds[n], handle |-> tasks[k].handle,
                                             verb |-> TheCommand.verb]]
  <1>4. tasks[k] \in Task
    BY DEF TypeOK
  <1>5. tasks[k].handle \in Nat /\ TheCommand.verb \in Verbs
    BY <1>1, <1>4 DEF Task, Command
  <1>6. \A n \in DOMAIN kinds : new[n] \in Request
    BY <1>5 DEF Request
  <1>7. new \in Seq(Request)
    BY <1>6, MapSeq
  <1>8. requests' \in Seq(Request)
    <2>1. requests' = requests \o new
      BY DEF Perform
    <2> HIDE DEF new
    <2> QED
      BY <1>7, <2>1 DEF TypeOK
  <1> QED
    BY <1>1, <1>3, <1>8 DEF TypeOK, Perform, AgentUnchanged, WorldUnchanged

(* The requests of a task command. *)
LEMMA TypeRequestsOf == ASSUME NEW verb PROVE RequestsOf(verb) \in Seq(RequestKinds)
  <1>1. RequestsOf(verb) \in
          {<<"activate">>, <<"set_minimized">>, <<"unset_minimized", "activate">>,
           <<"unset_minimized">>, <<"close">>}
    BY DEF RequestsOf
  <1>2. /\ <<"activate">> \in Seq(RequestKinds)
        /\ <<"set_minimized">> \in Seq(RequestKinds)
        /\ <<"unset_minimized", "activate">> \in Seq(RequestKinds)
        /\ <<"unset_minimized">> \in Seq(RequestKinds)
        /\ <<"close">> \in Seq(RequestKinds)
    BY DEF RequestKinds
  <1> QED
    BY <1>1, <1>2

(* handle_command. *)
LEMMA TypeCommand == ASSUME TypeOK, handle_command PROVE TypeOK'
  <1> USE SnapshotType
  <1>1. CASE Hello
    BY <1>1, TypeReplyOnly DEF Hello
  <1>2. CASE List
    BY <1>2, TypeReplyOnly DEF List
  <1>3. CASE Subscribe
    <2>1. Take({"subscribe"})
      BY <1>3 DEF Subscribe
    <2>2. /\ toAgent' \in [Conns -> Seq(Command)]
          /\ i \in DOMAIN clients
          /\ clients[i] \in Client
      BY <2>1, TypeTake
    <2> DEFINE new == [clients[i] EXCEPT !.subscribed = TRUE,
                                         !.output = Append(@, SnapshotMessage(TRUE))]
    <2>3. [clients[i] EXCEPT !.output = Append(@, SnapshotMessage(TRUE))] \in Client
      BY <2>2, ClientAppend
    <2>4. new \in Client
      <3> DEFINE queued == [clients[i] EXCEPT !.output = Append(@, SnapshotMessage(TRUE))]
      <3>1. new = [queued EXCEPT !.subscribed = TRUE]
        BY <2>2 DEF Client
      <3>2. queued \in Client
        BY <2>3
      <3> HIDE DEF queued, new
      <3> QED
        BY <3>1, <3>2 DEF Client
    <2>5. clients' = [clients EXCEPT ![i] = new]
      BY <1>3 DEF Subscribe
    <2>6. clients' \in Seq(Client) /\ Len(clients') = Len(clients)
      BY <2>2, <2>4, <2>5, ReplaceSeq DEF TypeOK
    <2> QED
      BY <1>3, <2>2, <2>6 DEF TypeOK, Subscribe, AgentUnchanged, WorldUnchanged
  <1>4. CASE TaskCommandRefused
    BY <1>4, TypeReplyOnly DEF TaskCommandRefused
  <1>5. CASE TaskCommand
    <2>1. PICK k \in find_task(TheCommand.id) : Perform(RequestsOf(TheCommand.verb), k)
      BY <1>5 DEF TaskCommand
    <2>2. k \in DOMAIN tasks
      BY DEF find_task
    <2>3. RequestsOf(TheCommand.verb) \in Seq(RequestKinds)
      BY TypeRequestsOf
    <2> QED
      BY <1>5, <2>1, <2>2, <2>3, TypePerform DEF TaskCommand
  <1>6. CASE FocusShell
    <2>1. CASE ReplyOnly(Answer("error"))
      BY <1>6, <2>1, TypeReplyOnly DEF FocusShell
    <2>2. ASSUME NEW k \in shell_task, Perform(<<"activate">>, k) PROVE TypeOK'
      <3>1. k \in DOMAIN tasks /\ <<"activate">> \in Seq(RequestKinds)
        BY DEF shell_task, RequestKinds
      <3> QED
        BY <1>6, <2>2, <3>1, TypePerform DEF FocusShell
    <2> QED
      BY <1>6, <2>1, <2>2 DEF FocusShell
  <1>7. CASE ActiveIsShell
    <2>1. PICK s \in {"ok", "error"} : ReplyOnly(Answer(s))
      BY <1>7 DEF ActiveIsShell
    <2> QED
      BY <1>7, <2>1, TypeReplyOnly DEF ActiveIsShell
  <1>8. CASE ActiveCommand
    <2>1. CASE ReplyOnly(Answer("error"))
      BY <1>8, <2>1, TypeReplyOnly DEF ActiveCommand
    <2>2. ASSUME NEW k \in active_task(FALSE), NEW s \in {"set_minimized", "close"},
                 Perform(<<s>>, k)
          PROVE  TypeOK'
      <3>1. k \in DOMAIN tasks /\ <<s>> \in Seq(RequestKinds)
        BY DEF active_task, RequestKinds
      <3> QED
        BY <1>8, <2>2, <3>1, TypePerform DEF ActiveCommand
    <2> QED
      BY <1>8, <2>1, <2>2 DEF ActiveCommand
  <1>9. CASE UnknownCommand
    BY <1>9, TypeReplyOnly DEF UnknownCommand
  <1>10. CASE BlankLine
    <2>1. toAgent' \in [Conns -> Seq(Command)]
      BY <1>10, TypeTake DEF BlankLine
    <2> QED
      BY <1>10, <2>1 DEF TypeOK, BlankLine, AgentUnchanged, WorldUnchanged
  <1>11. CASE OverlongLine
    <2>1. toAgent' \in [Conns -> Seq(Command)] /\ i \in DOMAIN clients
      BY <1>11, TypeTake DEF OverlongLine
    <2>2. clients' \in Seq(Client) /\ peer' \in [Conns -> {"idle", "open", "gone", "dropped"}]
      BY <1>11, <2>1, TypeClose DEF OverlongLine
    <2> QED
      BY <1>11, <2>1, <2>2 DEF TypeOK, OverlongLine, compVars
  <1> QED
    BY <1>1, <1>2, <1>3, <1>4, <1>5, <1>6, <1>7, <1>8, <1>9, <1>10, <1>11 DEF handle_command

----------------------------------------------------------------------------
(* The compositor and the peers keep the types too *)

(* A report is made of "state" and "done" events of its toplevels. *)
LEMMA ReportEvents ==
    ASSUME NEW t, NEW u \in Seq(Window)
    PROVE  /\ Report(t, u) \in Seq(Event)
           /\ \A n \in DOMAIN Report(t, u) : /\ Report(t, u)[n].kind \in {"state", "done"}
                                            /\ Report(t, u)[n].handle \in DOMAIN u
  <1> DEFINE who == Altered(t, u)
             states == [n \in DOMAIN who |-> StateEv(u, who[n])]
             dones == [n \in DOMAIN who |-> Ev("done", who[n])]
             Told(e) == e.kind \in {"state", "done"} /\ e.handle \in DOMAIN u
  <1>1. who \in Seq(DOMAIN u)
    <2>1. \A S \in SUBSET DOMAIN u : OneOf(S) \in Seq(DOMAIN u)
      <3> SUFFICES ASSUME NEW S \in SUBSET DOMAIN u PROVE OneOf(S) \in Seq(DOMAIN u)
        OBVIOUS
      <3>1. CASE S = {}
        BY <3>1 DEF OneOf
      <3>2. CASE S # {}
        <4> DEFINE x == CHOOSE h \in S : TRUE
        <4>1. \E h \in S : TRUE
          BY <3>2
        <4>2. x \in DOMAIN u
          BY <4>1
        <4>3. OneOf(S) = <<x>>
          BY <3>2 DEF OneOf
        <4> HIDE DEF x
        <4> QED
          BY <4>2, <4>3
      <3> QED
        BY <3>1, <3>2
    <2> DEFINE D == {h \in DOMAIN u : u[h].open /\ (h \notin DOMAIN t \/ t[h] # u[h])}
    <2>2. /\ OneOf({h \in D : ~u[h].activated}) \in Seq(DOMAIN u)
          /\ OneOf({h \in D : u[h].activated}) \in Seq(DOMAIN u)
      BY <2>1
    <2> QED
      BY <2>2 DEF Altered
  <1>2. ASSUME NEW n \in DOMAIN who
        PROVE  /\ StateEv(u, who[n]) \in Event /\ Told(StateEv(u, who[n]))
               /\ Ev("done", who[n]) \in Event /\ Told(Ev("done", who[n]))
    <2>1. who[n] \in DOMAIN u /\ who[n] \in Nat /\ u[who[n]] \in Window
      BY <1>1
    <2>2. /\ Ev("done", who[n]) \in Event /\ Told(Ev("done", who[n]))
          /\ Ev("state", who[n]) \in Event /\ Told(Ev("state", who[n]))
      BY <2>1 DEF Ev, Event, Names
    <2> QED
      BY <2>1, <2>2 DEF StateEv, Event, Window
  <1>3. states \in Seq(Event) /\ dones \in Seq(Event)
    <2> HIDE DEF who
    <2> QED
      BY <1>1, <1>2, MapSeq
  <1>4. /\ \A n \in DOMAIN states : Told(states[n])
        /\ \A n \in DOMAIN dones : Told(dones[n])
    BY <1>2
  <1>5. Report(t, u) = states \o dones
    BY DEF Report
  <1>6. \A n \in DOMAIN (states \o dones) :
          \/ n \in DOMAIN states /\ (states \o dones)[n] = states[n]
          \/ n - Len(states) \in DOMAIN dones /\ (states \o dones)[n] = dones[n - Len(states)]
    <2> HIDE DEF states, dones
    <2> QED
      BY <1>3
  <1> HIDE DEF states, dones
  <1>7. \A n \in DOMAIN (states \o dones) : Told((states \o dones)[n])
    BY <1>4, <1>6
  <1> QED
    BY <1>3, <1>5, <1>7

(* Any change of the compositor's table is reported in well typed events. *)
LEMMA TypeBecome ==
    ASSUME TypeOK, NEW u \in Seq(Window), NEW first \in Seq(Event), Become(u, first)
    PROVE  top' \in Seq(Window) /\ wire' \in Seq(Event)
  <1>1. Report(top, u) \in Seq(Event) /\ wire \in Seq(Event)
    BY ReportEvents DEF TypeOK
  <1> QED
    BY <1>1 DEF Become

(* Moving the focus. *)
LEMMA TypeFocus ==
    ASSUME NEW t \in Seq(Window), NEW f
    PROVE  Focus(t, f) \in Seq(Window) /\ Len(Focus(t, f)) = Len(t)
  <1>1. ASSUME NEW h \in DOMAIN t PROVE Focus(t, f)[h] \in Window
    <2>1. t[h] \in Window
      OBVIOUS
    <2>2. (h = f) \in BOOLEAN
      OBVIOUS
    <2> QED
      BY <2>1, <2>2 DEF Focus, Window
  <1>2. DOMAIN Focus(t, f) = DOMAIN t /\ Focus(t, f) = [h \in DOMAIN Focus(t, f) |-> Focus(t, f)[h]]
    BY DEF Focus
  <1> QED
    BY <1>1, <1>2, MapSeq

(* Taking the focus away from a toplevel. *)
LEMMA TypeDefocused ==
    ASSUME NEW t \in Seq(Window), NEW h, NEW u \in Defocused(t, h)
    PROVE  u \in Seq(Window)
  BY TypeFocus DEF Defocused

(* Changing one flag of a toplevel. *)
LEMMA TypeFlag ==
    ASSUME NEW t \in Seq(Window), NEW h, NEW b \in BOOLEAN
    PROVE  [t EXCEPT ![h].open = b] \in Seq(Window) /\ [t EXCEPT ![h].minimized = b] \in Seq(Window)
  <1>1. CASE h \notin DOMAIN t
    <2> DEFINE v == [t EXCEPT ![h].open = b]
               w == [t EXCEPT ![h].minimized = b]
    <2>1. DOMAIN v = DOMAIN t /\ v = [k \in DOMAIN v |-> v[k]] /\ \A k \in DOMAIN t : v[k] = t[k]
      BY <1>1
    <2>2. DOMAIN w = DOMAIN t /\ w = [k \in DOMAIN w |-> w[k]] /\ \A k \in DOMAIN t : w[k] = t[k]
      BY <1>1
    <2>3. \A k \in DOMAIN t : t[k] \in Window
      OBVIOUS
    <2> HIDE DEF v, w
    <2>4. v \in Seq(Window) /\ w \in Seq(Window)
      BY <2>1, <2>2, <2>3, MapSeq
    <2> QED
      BY <2>4 DEF v, w
  <1>2. CASE h \in DOMAIN t
    <2>1. t[h] \in Window
      BY <1>2
    <2>2. [t[h] EXCEPT !.open = b] \in Window /\ [t[h] EXCEPT !.minimized = b] \in Window
      BY <2>1 DEF Window
    <2>3. /\ [t EXCEPT ![h].open = b] = [t EXCEPT ![h] = [t[h] EXCEPT !.open = b]]
          /\ [t EXCEPT ![h].minimized = b] = [t EXCEPT ![h] = [t[h] EXCEPT !.minimized = b]]
      BY <1>2
    <2> QED
      BY <1>2, <2>2, <2>3, ReplaceSeq
  <1> QED
    BY <1>1, <1>2

(* A toplevel goes away. *)
LEMMA TypeCloseToplevel ==
    ASSUME TypeOK, NEW h \in Nat, CloseToplevel(h)
    PROVE  top' \in Seq(Window) /\ wire' \in Seq(Event)
  <1>1. [top EXCEPT ![h].open = FALSE] \in Seq(Window)
    BY TypeFlag DEF TypeOK
  <1>2. PICK u \in Defocused([top EXCEPT ![h].open = FALSE], h) : Become(u, <<Ev("closed", h)>>)
    BY DEF CloseToplevel
  <1>3. u \in Seq(Window)
    BY <1>1, TypeDefocused
  <1>4. Ev("closed", h) \in Event
    BY DEF Ev, Event, Names
  <1>5. <<Ev("closed", h)>> \in Seq(Event)
    BY <1>4
  <1> QED
    BY <1>2, <1>3, <1>5, TypeBecome

(* The compositor's steps. *)
LEMMA TypeCompositor == ASSUME TypeOK, CompositorStep PROVE TypeOK'
  <1>1. ASSUME UserOp, top' \in Seq(Window), wire' \in Seq(Event) PROVE TypeOK'
    BY <1>1 DEF TypeOK, UserOp, agentVars, peerVars
  <1>2. ASSUME NEW shell \in BOOLEAN, OpenWindow(shell) PROVE TypeOK'
    <2> DEFINE h == Len(top) + 1
               new == [shell |-> shell, activated |-> TRUE, minimized |-> FALSE, open |-> TRUE]
    <2>1. h \in Nat
      BY DEF TypeOK
    <2>2. Focus(top, 0) \in Seq(Window)
      BY TypeFocus DEF TypeOK
    <2>3. new \in Window
      BY DEF Window
    <2>4. Append(Focus(top, 0), new) \in Seq(Window)
      BY <2>2, <2>3
    <2> HIDE DEF h
    <2>5. /\ Ev("toplevel", h) \in Event
          /\ Ev("title", h) \in Event
          /\ Ev("app_id", h) \in Event
      BY <2>1 DEF Ev, Event, Names
    <2>6. NameEv("title", h, shell) \in Event /\ NameEv("app_id", h, shell) \in Event
      BY <2>5 DEF NameEv, Event, Names
    <2>7. <<Ev("toplevel", h), NameEv("title", h, shell), NameEv("app_id", h, shell)>> \in Seq(Event)
      BY <2>5, <2>6
    <2>8. Become(Append(Focus(top, 0), new),
                 <<Ev("toplevel", h), NameEv("title", h, shell), NameEv("app_id", h, shell)>>)
      BY <1>2 DEF OpenWindow, h
    <2>9. UserOp
      BY <1>2 DEF OpenWindow
    <2> QED
      BY <1>1, <2>4, <2>7, <2>8, <2>9, TypeBecome
  <1>3. ASSUME NEW h \in DOMAIN top, CloseWindow(h) PROVE TypeOK'
    <2>1. h \in Nat
      BY DEF TypeOK
    <2> QED
      BY <1>1, <1>3, <2>1, TypeCloseToplevel DEF CloseWindow
  <1>4. ASSUME NEW h \in DOMAIN top, FocusWindow(h) PROVE TypeOK'
    <2>1. Focus(top, h) \in Seq(Window) /\ <<>> \in Seq(Event)
      BY TypeFocus DEF TypeOK
    <2> QED
      BY <1>1, <1>4, <2>1, TypeBecome DEF FocusWindow
  <1>5. CASE HandleRequest
    <2> DEFINE h == Head(requests).handle
               kind == Head(requests).kind
    <2>1. Head(requests) \in Request /\ requests' \in Seq(Request)
      BY <1>5 DEF TypeOK, HandleRequest
    <2>2. h \in Nat
      BY <2>1 DEF Request
    <2>3. <<>> \in Seq(Event)
      OBVIOUS
    <2>4. \/ UNCHANGED <<top, wire>>
          \/ Become(Focus([top EXCEPT ![h].minimized = FALSE], h), <<>>)
          \/ Become([top EXCEPT ![h].minimized = FALSE], <<>>)
          \/ \E u \in Defocused([top EXCEPT ![h].minimized = TRUE], h) : Become(u, <<>>)
          \/ CloseToplevel(h)
      BY <1>5 DEF HandleRequest
    <2>5. /\ [top EXCEPT ![h].minimized = FALSE] \in Seq(Window)
          /\ [top EXCEPT ![h].minimized = TRUE] \in Seq(Window)
      BY TypeFlag DEF TypeOK
    <2> HIDE DEF h
    <2>6. top' \in Seq(Window) /\ wire' \in Seq(Event)
      <3>1. CASE UNCHANGED <<top, wire>>
        BY <3>1 DEF TypeOK
      <3>2. CASE Become(Focus([top EXCEPT ![h].minimized = FALSE], h), <<>>)
        BY <2>3, <2>5, <3>2, TypeFocus, TypeBecome
      <3>3. CASE Become([top EXCEPT ![h].minimized = FALSE], <<>>)
        BY <2>3, <2>5, <3>3, TypeBecome
      <3>4. CASE \E u \in Defocused([top EXCEPT ![h].minimized = TRUE], h) : Become(u, <<>>)
        BY <2>3, <2>5, <3>4, TypeDefocused, TypeBecome
      <3>5. CASE CloseToplevel(h)
        BY <2>2, <3>5, TypeCloseToplevel
      <3> QED
        BY <2>4, <3>1, <3>2, <3>3, <3>4, <3>5
    <2> QED
      BY <1>5, <2>1, <2>6 DEF TypeOK, HandleRequest, agentVars, peerVars
  <1>6. CASE ManagerStops
    <2>1. Ev("finished", 0) \in Event
      BY DEF Ev, Event, Names
    <2>2. wire' \in Seq(Event)
      BY <1>6, <2>1 DEF TypeOK, ManagerStops
    <2> QED
      BY <1>6, <2>2 DEF TypeOK, ManagerStops, agentVars, peerVars
  <1>7. CASE CompositorExits
    BY <1>7 DEF TypeOK, CompositorExits, agentVars, peerVars
  <1> QED
    BY <1>2, <1>3, <1>4, <1>5, <1>6, <1>7 DEF CompositorStep

(* The peers' steps. *)
LEMMA TypePeer == ASSUME TypeOK, PeerStep PROVE TypeOK'
  <1>1. PICK c \in Conns : \/ Connect(c) \/ Receive(c) \/ HangUp(c)
                           \/ \E cmd \in Commands : SendCommand(c, cmd)
    BY DEF PeerStep
  <1>2. CASE Connect(c)
    <2>1. peer' \in [Conns -> {"idle", "open", "gone", "dropped"}] /\ backlog' \in Seq(Conns)
      BY <1>2 DEF TypeOK, Connect
    <2> QED
      BY <1>2, <2>1 DEF TypeOK, Connect, agentVars, compVars
  <1>3. CASE Receive(c)
    <2>1. toPeer[c] \in Seq(Message) /\ toPeer[c] # <<>>
      BY <1>3 DEF TypeOK, Receive
    <2>2. Head(toPeer[c]) \in Message /\ Tail(toPeer[c]) \in Seq(Message)
      BY <2>1
    <2>3. Head(toPeer[c]).lines \in SUBSET Line
      BY <2>2 DEF Message
    <2>4. toPeer' \in [Conns -> Seq(Message)]
      BY <1>3, <2>2 DEF TypeOK, Receive
    <2>5. view' \in [Conns -> SUBSET Line]
      BY <1>3, <2>3 DEF TypeOK, Receive
    <2>6. answered' \in [Conns -> Nat]
      BY <1>3 DEF TypeOK, Receive
    <2> QED
      BY <1>3, <2>4, <2>5, <2>6 DEF TypeOK, Receive, agentVars, compVars
  <1>4. CASE HangUp(c)
    <2>1. peer' \in [Conns -> {"idle", "open", "gone", "dropped"}]
      BY <1>4 DEF TypeOK, HangUp
    <2>2. toPeer' \in [Conns -> Seq(Message)]
      BY <1>4 DEF TypeOK, HangUp
    <2> QED
      BY <1>4, <2>1, <2>2 DEF TypeOK, HangUp, agentVars, compVars
  <1>5. ASSUME NEW cmd \in Commands, SendCommand(c, cmd) PROVE TypeOK'
    <2>1. cmd \in Command
      BY CommandsAssumption
    <2>2. toAgent' \in [Conns -> Seq(Command)]
      BY <1>5, <2>1 DEF TypeOK, SendCommand
    <2>3. asked' \in [Conns -> Nat]
      BY <1>5 DEF TypeOK, SendCommand
    <2> QED
      BY <1>5, <2>2, <2>3 DEF TypeOK, SendCommand, agentVars, compVars
  <1> QED
    BY <1>1, <1>2, <1>3, <1>4, <1>5

(* Every step keeps the types. *)
LEMMA TypeStep == TypeOK /\ [Next]_vars => TypeOK'
  <1> SUFFICES ASSUME TypeOK, [Next]_vars PROVE TypeOK'
    OBVIOUS
  <1>1. CASE AgentStep
    <2>1. CASE LoopExit \/ DispatchFails
      BY <2>1, TypeExit DEF LoopExit, DispatchFails
    <2>2. CASE prune_closed \/ PreparePoll
      BY <2>2, TypeTop
    <2>3. CASE PollReady \/ PollTimeout
      BY <2>3, TypePoll
    <2>4. CASE \/ manager_toplevel \/ manager_finished \/ handle_title \/ handle_app_id
               \/ handle_state \/ handle_done \/ handle_closed \/ DispatchDone
      BY <2>4, TypeDisplay
    <2>5. CASE accept_client \/ AcceptDone
      BY <2>5, TypeAccept
    <2>6. CASE \/ ClientsDone \/ ServeHangup \/ ServeClient \/ ReadAgain \/ ReadEof
               \/ FlushWrite \/ FlushDone \/ FlushBroken
      BY <2>6, TypeClients
    <2>7. CASE handle_command
      BY <2>7, TypeCommand
    <2> QED
      BY <1>1, <2>1, <2>2, <2>3, <2>4, <2>5, <2>6, <2>7 DEF AgentStep
  <1>2. CASE Signal \/ PollFails
    BY <1>2, TypePoll
  <1>3. CASE CompositorStep
    BY <1>3, TypeCompositor
  <1>4. CASE PeerStep
    BY <1>4, TypePeer
  <1>5. CASE UNCHANGED vars
    BY <1>5 DEF TypeOK, vars, agentVars, compVars, peerVars
  <1> QED
    BY <1>1, <1>2, <1>3, <1>4, <1>5 DEF Next

(* The type invariant of the agent, the compositor and the peers; with it, *)
(* the client loop of run() never indexes clients_ past its end while it   *)
(* reads or flushes a client.                                              *)
THEOREM TypeCorrect == Spec => []TypeOK
  <1> QED
    BY TypeInit, TypeStep, PTL DEF Spec

----------------------------------------------------------------------------
(* A task id names one toplevel.  The property is not inductive alone: a   *)
(* new task must get an id that no snapshot under way mentions, so every   *)
(* id in use is below next_id_.                                            *)

IdInv == /\ \A p \in NamedPairs : p[1] < next_id
         /\ IdsNameOneToplevel

(* Pairs of a queue with one more message. *)
LEMMA AppendPairs ==
    ASSUME NEW q \in Seq(Message), NEW m \in Message
    PROVE  QueuePairs(Append(q, m)) \subseteq QueuePairs(q) \cup LinePairs(m.lines)
  <1> SUFFICES ASSUME NEW n \in DOMAIN Append(q, m),
                      NEW x \in LinePairs(Append(q, m)[n].lines)
               PROVE  x \in QueuePairs(q) \cup LinePairs(m.lines)
    BY DEF QueuePairs
  <1>1. CASE n = Len(q) + 1
    BY <1>1
  <1>2. CASE n \in DOMAIN q
    <2>1. Append(q, m)[n] = q[n]
      BY <1>2
    <2> QED
      BY <1>2, <2>1 DEF QueuePairs
  <1> QED
    BY <1>1, <1>2

(* Pairs of a queue without its first message, and of that message. *)
LEMMA TailPairs ==
    ASSUME NEW q \in Seq(Message), q # <<>>
    PROVE  /\ QueuePairs(Tail(q)) \subseteq QueuePairs(q)
           /\ LinePairs(Head(q).lines) \subseteq QueuePairs(q)
  <1>1. QueuePairs(Tail(q)) \subseteq QueuePairs(q)
    <2> SUFFICES ASSUME NEW n \in DOMAIN Tail(q), NEW x \in LinePairs(Tail(q)[n].lines)
                 PROVE  x \in QueuePairs(q)
      BY DEF QueuePairs
    <2>1. n + 1 \in DOMAIN q /\ Tail(q)[n] = q[n + 1]
      OBVIOUS
    <2> QED
      BY <2>1 DEF QueuePairs
  <1>2. LinePairs(Head(q).lines) \subseteq QueuePairs(q)
    <2>1. 1 \in DOMAIN q /\ Head(q) = q[1]
      OBVIOUS
    <2> QED
      BY <2>1 DEF QueuePairs
  <1> QED
    BY <1>1, <1>2

(* A snapshot mentions tasks of the table only, another answer none. *)
LEMMA SnapshotPairs ==
    /\ \A r : LinePairs(SnapshotMessage(r).lines) \subseteq TaskPairs
    /\ \A s : LinePairs(Answer(s).lines) = {}
  <1>1. LinePairs(SnapshotLines) \subseteq TaskPairs
    BY DEF LinePairs, SnapshotLines, TaskPairs, LineOf
  <1>2. \A r : SnapshotMessage(r).lines = SnapshotLines
    BY DEF SnapshotMessage
  <1>3. \A s : LinePairs(Answer(s).lines) = {}
    BY DEF LinePairs, Answer
  <1> QED
    BY <1>1, <1>2, <1>3

(* Giving one client another output buffer. *)
LEMMA OutputChange ==
    ASSUME TypeOK, NEW k \in DOMAIN clients, NEW cl, clients' = [clients EXCEPT ![k] = cl],
           NEW P, QueuePairs(cl.output) \subseteq OutputPairs \cup P
    PROVE  OutputPairs' \subseteq OutputPairs \cup P
  <1> SUFFICES ASSUME NEW j \in DOMAIN clients', NEW x \in QueuePairs(clients'[j].output)
               PROVE  x \in OutputPairs \cup P
    BY DEF OutputPairs
  <1>1. j \in DOMAIN clients /\ (j = k => clients'[j] = cl) /\ (j # k => clients'[j] = clients[j])
    OBVIOUS
  <1>2. CASE j = k
    BY <1>1, <1>2
  <1>3. CASE j # k
    BY <1>1, <1>3 DEF OutputPairs
  <1> QED
    BY <1>2, <1>3

(* A message for a client adds its own pairs at most. *)
LEMMA QueuedPairs ==
    ASSUME NEW k \in DOMAIN clients, clients[k] \in Client, NEW m \in Message
    PROVE  QueuePairs(Append(clients[k].output, m)) \subseteq OutputPairs \cup LinePairs(m.lines)
  <1>1. clients[k].output \in Seq(Message)
    BY DEF Client
  <1>2. QueuePairs(clients[k].output) \subseteq OutputPairs
    BY DEF OutputPairs
  <1> QED
    BY <1>1, <1>2, AppendPairs

(* Erasing a client forgets its output. *)
LEMMA ErasePairs ==
    ASSUME TypeOK, NEW k \in DOMAIN clients, clients' = Erase(clients, k)
    PROVE  OutputPairs' \subseteq OutputPairs
  <1> SUFFICES ASSUME NEW j \in DOMAIN clients', NEW x \in QueuePairs(clients'[j].output)
               PROVE  x \in OutputPairs
    BY DEF OutputPairs
  <1>1. /\ Len(clients') = Len(clients) - 1
        /\ clients' \in Seq(Client)
        /\ \A n \in 1 .. (Len(clients) - 1) :
             clients'[n] = IF n < k THEN clients[n] ELSE clients[n + 1]
    BY EraseSeq DEF TypeOK
  <1>2. PICK n \in DOMAIN clients : clients'[j] = clients[n]
    <2>1. j \in 1 .. (Len(clients) - 1)
      BY <1>1
    <2>2. j \in DOMAIN clients /\ j + 1 \in DOMAIN clients
      BY <2>1 DEF TypeOK
    <2> QED
      BY <1>1, <2>1, <2>2
  <1> QED
    BY <1>2 DEF OutputPairs

(* What the pairs depend on. *)
pairVars == <<tasks, next_id, clients, toPeer, view>>

(* A step that changes none of it. *)
LEMMA SamePairs ==
    ASSUME UNCHANGED pairVars
    PROVE  NamedPairs' \subseteq NamedPairs /\ next_id' = next_id
  BY DEF pairVars, NamedPairs, TaskPairs, OutputPairs, SocketPairs, ViewPairs

(* A step on the clients that adds nothing but pairs of the table. *)
LEMMA ClientPairs ==
    ASSUME UNCHANGED <<tasks, next_id, toPeer, view>>, OutputPairs' \subseteq OutputPairs \cup TaskPairs
    PROVE  NamedPairs' \subseteq NamedPairs /\ next_id' = next_id
  BY DEF NamedPairs, TaskPairs, SocketPairs, ViewPairs

(* A handler of read_client. *)
LEMMA SendPairs ==
    ASSUME TypeOK, NEW S, Take(S), NEW m \in Message, send(i, m),
           LinePairs(m.lines) \subseteq TaskPairs
    PROVE  OutputPairs' \subseteq OutputPairs \cup TaskPairs
  <1>1. i \in DOMAIN clients /\ clients[i] \in Client
    BY TypeTake
  <1> DEFINE cl == [clients[i] EXCEPT !.output = Append(@, m)]
  <1>2. clients' = [clients EXCEPT ![i] = cl]
    BY <1>1, TypeSend
  <1>3. cl.output = Append(clients[i].output, m)
    BY <1>1 DEF Client
  <1>4. QueuePairs(cl.output) \subseteq OutputPairs \cup TaskPairs
    BY <1>1, <1>3, QueuedPairs
  <1> QED
    BY <1>1, <1>2, <1>4, OutputChange

(* handle_command. *)
LEMMA CommandPairs ==
    ASSUME TypeOK, handle_command
    PROVE  NamedPairs' \subseteq NamedPairs /\ next_id' = next_id
  <1> USE SnapshotType, SnapshotPairs
  <1>1. UNCHANGED <<tasks, next_id, toPeer, view>>
    BY DEF handle_command, Hello, List, Subscribe, TaskCommandRefused, TaskCommand, FocusShell,
           ActiveIsShell, ActiveCommand, UnknownCommand, BlankLine, OverlongLine,
           ReplyOnly, Perform, AgentUnchanged, WorldUnchanged
  <1>2. CASE Hello \/ List \/ TaskCommandRefused \/ TaskCommand \/ FocusShell
             \/ ActiveIsShell \/ ActiveCommand \/ UnknownCommand
    <2>1. PICK S : Take(S)
      BY <1>2 DEF Hello, List, TaskCommandRefused, TaskCommand, FocusShell,
                  ActiveIsShell, ActiveCommand, UnknownCommand
    <2>2. \/ send(i, SnapshotMessage(TRUE))
          \/ \E s \in {"hello", "ok", "error"} : send(i, Answer(s))
      BY <1>2 DEF Hello, List, TaskCommandRefused, TaskCommand, FocusShell,
                  ActiveIsShell, ActiveCommand, UnknownCommand, ReplyOnly, Perform
    <2>3. \A s \in {"hello", "ok", "error"} : LinePairs(Answer(s).lines) \subseteq TaskPairs
      OBVIOUS
    <2>4. OutputPairs' \subseteq OutputPairs \cup TaskPairs
      BY <2>1, <2>2, <2>3, SendPairs
    <2> QED
      BY <1>1, <2>4, ClientPairs
  <1>3. CASE Subscribe
    <2>1. Take({"subscribe"})
      BY <1>3 DEF Subscribe
    <2>2. i \in DOMAIN clients /\ clients[i] \in Client
      BY <2>1, TypeTake
    <2> DEFINE cl == [clients[i] EXCEPT !.subscribed = TRUE,
                                        !.output = Append(@, SnapshotMessage(TRUE))]
    <2>3. clients' = [clients EXCEPT ![i] = cl]
      BY <1>3 DEF Subscribe
    <2>4. cl.output = Append(clients[i].output, SnapshotMessage(TRUE))
      BY <2>2 DEF Client
    <2>5. QueuePairs(cl.output) \subseteq OutputPairs \cup TaskPairs
      BY <2>2, <2>4, QueuedPairs
    <2>6. OutputPairs' \subseteq OutputPairs \cup TaskPairs
      BY <2>2, <2>3, <2>5, OutputChange
    <2> QED
      BY <1>1, <2>6, ClientPairs
  <1>4. CASE BlankLine
    BY <1>1, <1>4, SamePairs DEF BlankLine, pairVars
  <1>5. CASE OverlongLine
    <2>1. i \in DOMAIN clients
      BY <1>5, TypeTake DEF OverlongLine
    <2>2. OutputPairs' \subseteq OutputPairs
      BY <1>5, <2>1, ErasePairs DEF OverlongLine, close_client
    <2> QED
      BY <1>1, <2>2, ClientPairs
  <1> QED
    BY <1>2, <1>3, <1>4, <1>5 DEF handle_command

(* The other steps of the client loop. *)
LEMMA LoopPairs ==
    ASSUME TypeOK,
           \/ ClientsDone \/ ServeHangup \/ ServeClient \/ ReadAgain \/ ReadEof
           \/ FlushWrite \/ FlushDone \/ FlushBroken
    PROVE  NamedPairs' \subseteq NamedPairs /\ next_id' = next_id
  <1>1. CASE ClientsDone \/ ServeClient \/ ReadAgain \/ FlushDone
    BY <1>1, SamePairs
       DEF ClientsDone, ServeClient, ReadAgain, FlushDone, ServeNext, pairVars, peerVars
  <1>2. CASE ServeHangup \/ ReadEof \/ FlushBroken
    <2>1. i \in DOMAIN clients /\ Drop
      BY <1>2 DEF TypeOK, ServeHangup, ReadEof, FlushBroken
    <2>2. OutputPairs' \subseteq OutputPairs
      BY <2>1, ErasePairs DEF Drop, close_client
    <2> QED
      BY <2>1, <2>2, ClientPairs DEF Drop
  <1>3. CASE FlushWrite
    <2>1. i \in DOMAIN clients /\ clients[i] \in Client /\ clients[i].output # <<>>
      BY <1>3 DEF TypeOK, FlushWrite
    <2> DEFINE c == clients[i].conn
               m == Head(clients[i].output)
               cl == [clients[i] EXCEPT !.output = Tail(clients[i].output)]
    <2>2. c \in Conns /\ clients[i].output \in Seq(Message) /\ m \in Message
      BY <2>1 DEF Client
    <2>3. clients' = [clients EXCEPT ![i] = cl] /\ cl.output = Tail(clients[i].output)
      BY <1>3, <2>1 DEF FlushWrite, Client
    <2>4. QueuePairs(clients[i].output) \subseteq OutputPairs
      BY <2>1 DEF OutputPairs
    <2>5. QueuePairs(cl.output) \subseteq OutputPairs /\ LinePairs(m.lines) \subseteq OutputPairs
      BY <2>1, <2>2, <2>3, <2>4, TailPairs
    <2>6. OutputPairs' \subseteq OutputPairs
      <3>1. QueuePairs(cl.output) \subseteq OutputPairs \cup {}
        BY <2>5
      <3>2. OutputPairs' \subseteq OutputPairs \cup {}
        BY <2>1, <2>3, <3>1, OutputChange
      <3> QED
        BY <3>2
    <2>7. SocketPairs' \subseteq SocketPairs \cup OutputPairs
      <3> SUFFICES ASSUME NEW d \in Conns, NEW x \in QueuePairs(toPeer'[d])
                   PROVE  x \in SocketPairs \cup OutputPairs
        BY DEF SocketPairs
      <3>1. toPeer[d] \in Seq(Message) /\ QueuePairs(toPeer[d]) \subseteq SocketPairs
        BY DEF SocketPairs, TypeOK
      <3>2. CASE d = c
        <4>1. toPeer'[d] = Append(toPeer[d], m)
          BY <1>3, <2>2, <3>2 DEF FlushWrite, TypeOK
        <4>2. QueuePairs(toPeer'[d]) \subseteq QueuePairs(toPeer[d]) \cup LinePairs(m.lines)
          BY <2>2, <3>1, <4>1, AppendPairs
        <4> QED
          BY <2>5, <3>1, <4>2
      <3>3. CASE d # c
        BY <1>3, <3>1, <3>3 DEF FlushWrite, TypeOK
      <3> QED
        BY <3>2, <3>3
    <2>8. UNCHANGED <<tasks, next_id, view>>
      BY <1>3 DEF FlushWrite
    <2> QED
      BY <2>6, <2>7, <2>8 DEF NamedPairs, TaskPairs, ViewPairs
  <1> QED
    BY <1>1, <1>2, <1>3

(* A peer reads a message, or hangs up. *)
LEMMA PeerPairs ==
    ASSUME TypeOK, PeerStep
    PROVE  NamedPairs' \subseteq NamedPairs /\ next_id' = next_id
  <1>1. PICK c \in Conns : \/ Connect(c) \/ Receive(c) \/ HangUp(c)
                           \/ \E cmd \in Commands : SendCommand(c, cmd)
    BY DEF PeerStep
  <1>2. CASE Connect(c) \/ \E cmd \in Commands : SendCommand(c, cmd)
    BY <1>2, SamePairs DEF Connect, SendCommand, pairVars, agentVars
  <1>3. CASE Receive(c)
    <2>1. toPeer[c] \in Seq(Message) /\ toPeer[c] # <<>>
      BY <1>3 DEF TypeOK, Receive
    <2>2. QueuePairs(toPeer[c]) \subseteq SocketPairs
      BY DEF SocketPairs
    <2>3. /\ QueuePairs(Tail(toPeer[c])) \subseteq SocketPairs
          /\ LinePairs(Head(toPeer[c]).lines) \subseteq SocketPairs
      BY <2>1, <2>2, TailPairs
    <2>4. SocketPairs' \subseteq SocketPairs
      <3> SUFFICES ASSUME NEW d \in Conns, NEW x \in QueuePairs(toPeer'[d])
                   PROVE  x \in SocketPairs
        BY DEF SocketPairs
      <3>1. toPeer'[d] = IF d = c THEN Tail(toPeer[c]) ELSE toPeer[d]
        BY <1>3 DEF Receive, TypeOK
      <3> QED
        BY <2>3, <3>1 DEF SocketPairs
    <2>5. ViewPairs' \subseteq ViewPairs \cup SocketPairs
      <3> SUFFICES ASSUME NEW d \in Conns, NEW x \in LinePairs(view'[d])
                   PROVE  x \in ViewPairs \cup SocketPairs
        BY DEF ViewPairs
      <3>1. view'[d] = view[d] \/ view'[d] = Head(toPeer[c]).lines
        BY <1>3 DEF Receive, TypeOK
      <3> QED
        BY <2>3, <3>1 DEF ViewPairs
    <2>6. UNCHANGED <<tasks, next_id, clients>>
      BY <1>3 DEF Receive, agentVars
    <2> QED
      BY <2>4, <2>5, <2>6 DEF NamedPairs, TaskPairs, OutputPairs
  <1>4. CASE HangUp(c)
    <2>1. SocketPairs' \subseteq SocketPairs
      <3> SUFFICES ASSUME NEW d \in Conns, NEW x \in QueuePairs(toPeer'[d])
                   PROVE  x \in SocketPairs
        BY DEF SocketPairs
      <3>1. toPeer'[d] = <<>> \/ toPeer'[d] = toPeer[d]
        BY <1>4 DEF HangUp, TypeOK
      <3>2. QueuePairs(<<>>) = {}
        BY DEF QueuePairs
      <3> QED
        BY <3>1, <3>2 DEF SocketPairs
    <2>2. UNCHANGED <<tasks, next_id, clients, view>>
      BY <1>4 DEF HangUp, agentVars
    <2> QED
      BY <2>1, <2>2 DEF NamedPairs, TaskPairs, OutputPairs, ViewPairs
  <1> QED
    BY <1>1, <1>2, <1>3, <1>4

(* The top of the loop. *)
LEMMA TopPairs ==
    ASSUME TypeOK, prune_closed \/ PreparePoll
    PROVE  NamedPairs' \subseteq NamedPairs /\ next_id' = next_id
  <1>1. CASE prune_closed
    <2>1. PICK k \in DOMAIN tasks : tasks' = Erase(tasks, k)
      BY <1>1 DEF prune_closed, ClosedTasks
    <2>2. /\ Len(tasks') = Len(tasks) - 1
          /\ tasks' \in Seq(Task)
          /\ \A n \in 1 .. (Len(tasks) - 1) :
               tasks'[n] = IF n < k THEN tasks[n] ELSE tasks[n + 1]
      BY <2>1, EraseSeq DEF TypeOK
    <2>3. TaskPairs' \subseteq TaskPairs
      <3> SUFFICES ASSUME NEW j \in DOMAIN tasks'
                   PROVE  <<tasks'[j].id, tasks'[j].handle>> \in TaskPairs
        BY DEF TaskPairs
      <3>1. j \in 1 .. (Len(tasks) - 1)
        BY <2>2
      <3>2. j \in DOMAIN tasks /\ j + 1 \in DOMAIN tasks
        BY <3>1 DEF TypeOK
      <3>3. PICK n \in DOMAIN tasks : tasks'[j] = tasks[n]
        BY <2>2, <3>1, <3>2
      <3> QED
        BY <3>3 DEF TaskPairs
    <2>4. UNCHANGED <<next_id, clients, toPeer, view>>
      BY <1>1 DEF prune_closed, peerVars
    <2> QED
      BY <2>3, <2>4 DEF NamedPairs, OutputPairs, SocketPairs, ViewPairs
  <1>2. CASE PreparePoll
    <2>1. UNCHANGED <<tasks, next_id, toPeer, view>>
      BY <1>2 DEF PreparePoll, peerVars
    <2>2. OutputPairs' \subseteq OutputPairs \cup TaskPairs
      <3>1. CASE ~changed
        BY <1>2, <3>1 DEF PreparePoll, OutputPairs
      <3>2. CASE changed
        <4> SUFFICES ASSUME NEW k \in DOMAIN clients', NEW x \in QueuePairs(clients'[k].output)
                     PROVE  x \in OutputPairs \cup TaskPairs
          BY DEF OutputPairs
        <4>1. k \in DOMAIN clients
          BY <1>2, <3>2 DEF PreparePoll, broadcast_snapshot
        <4>2. clients[k] \in Client
          BY <4>1 DEF TypeOK
        <4>3. SnapshotMessage(FALSE) \in Message
          BY SnapshotType
        <4>4. \/ clients'[k] = clients[k]
              \/ clients'[k] = [clients[k] EXCEPT !.output = Append(@, SnapshotMessage(FALSE))]
          BY <1>2, <3>2, <4>1 DEF PreparePoll, broadcast_snapshot
        <4>5. \/ clients'[k].output = clients[k].output
              \/ clients'[k].output = Append(clients[k].output, SnapshotMessage(FALSE))
          BY <4>2, <4>4 DEF Client
        <4>6. QueuePairs(Append(clients[k].output, SnapshotMessage(FALSE)))
                \subseteq OutputPairs \cup TaskPairs
          BY <4>1, <4>2, <4>3, QueuedPairs, SnapshotPairs
        <4> QED
          BY <4>1, <4>5, <4>6 DEF OutputPairs
      <3> QED
        BY <3>1, <3>2 DEF TypeOK
    <2> QED
      BY <2>1, <2>2, ClientPairs
  <1> QED
    BY <1>1, <1>2

(* The only step that makes a new pair gives it the id next_id_. *)
LEMMA ToplevelPairs ==
    ASSUME TypeOK, manager_toplevel
    PROVE  /\ NamedPairs' \subseteq NamedPairs \cup {<<next_id, Head(wire).handle>>}
           /\ next_id' = next_id + 1
  <1> DEFINE new == NewTask(next_id, Head(wire).handle)
  <1>1. tasks' = Append(tasks, new) /\ next_id' = next_id + 1
    BY DEF manager_toplevel
  <1>2. new.id = next_id /\ new.handle = Head(wire).handle
    BY DEF NewTask
  <1>3. TaskPairs' \subseteq TaskPairs \cup {<<next_id, Head(wire).handle>>}
    <2> HIDE DEF new
    <2> SUFFICES ASSUME NEW k \in DOMAIN tasks'
                 PROVE  <<tasks'[k].id, tasks'[k].handle>>
                           \in TaskPairs \cup {<<next_id, Head(wire).handle>>}
      BY DEF TaskPairs
    <2>1. tasks' = Append(tasks, new) /\ tasks \in Seq(Task)
      BY <1>1 DEF TypeOK
    <2>2. \/ k \in DOMAIN tasks /\ tasks'[k] = tasks[k]
          \/ tasks'[k] = new
      BY <2>1
    <2> QED
      BY <1>2, <2>2 DEF TaskPairs
  <1>4. UNCHANGED <<clients, toPeer, view>>
    BY DEF manager_toplevel, Dispatch, peerVars
  <1> QED
    BY <1>1, <1>3, <1>4 DEF NamedPairs, OutputPairs, SocketPairs, ViewPairs

(* The other listeners, and the end of the dispatch. *)
LEMMA DisplayPairs ==
    ASSUME TypeOK,
           \/ manager_finished \/ handle_title \/ handle_app_id
           \/ handle_state \/ handle_done \/ handle_closed \/ DispatchDone
    PROVE  NamedPairs' \subseteq NamedPairs /\ next_id' = next_id
  <1>1. CASE manager_finished
    BY <1>1, SamePairs DEF manager_finished, Dispatch, pairVars, peerVars
  <1>2. CASE DispatchDone
    BY <1>2, SamePairs DEF DispatchDone, pairVars, peerVars
  <1>3. CASE handle_title \/ handle_app_id \/ handle_state \/ handle_done \/ handle_closed
    <2>1. /\ DOMAIN tasks' = DOMAIN tasks
          /\ \A k \in DOMAIN tasks : /\ tasks'[k].id = tasks[k].id
                                     /\ tasks'[k].handle = tasks[k].handle
          /\ UNCHANGED next_id
      BY <1>3, UpdateHandlers
    <2>2. TaskPairs' = TaskPairs
      BY <2>1 DEF TaskPairs
    <2>3. UNCHANGED <<clients, toPeer, view>>
      <3>1. PICK kind : Dispatch(kind)
        BY <1>3, UpdateHandlers
      <3> QED
        BY <3>1 DEF Dispatch, peerVars
    <2> QED
      BY <2>1, <2>2, <2>3 DEF NamedPairs, OutputPairs, SocketPairs, ViewPairs
  <1> QED
    BY <1>1, <1>2, <1>3

(* accept_client: a new client has no output. *)
LEMMA AcceptPairs ==
    ASSUME TypeOK, accept_client \/ AcceptDone
    PROVE  NamedPairs' \subseteq NamedPairs /\ next_id' = next_id
  <1>1. CASE AcceptDone
    BY <1>1, SamePairs DEF AcceptDone, pairVars, peerVars
  <1>2. CASE accept_client
    <2> DEFINE new == [conn |-> Head(backlog), subscribed |-> FALSE, output |-> <<>>]
    <2>1. clients' = Append(clients, new) /\ new.output = <<>> /\ clients \in Seq(Client)
      BY <1>2 DEF accept_client, TypeOK
    <2>2. QueuePairs(<<>>) = {}
      BY DEF QueuePairs
    <2>3. OutputPairs' \subseteq OutputPairs
      <3> HIDE DEF new
      <3> SUFFICES ASSUME NEW k \in DOMAIN clients', NEW x \in QueuePairs(clients'[k].output)
                   PROVE  x \in OutputPairs
        BY DEF OutputPairs
      <3>1. \/ k \in DOMAIN clients /\ clients'[k] = clients[k]
            \/ clients'[k] = new
        BY <2>1
      <3> QED
        BY <2>1, <2>2, <3>1 DEF OutputPairs
    <2>4. UNCHANGED <<tasks, next_id, toPeer, view>>
      BY <1>2 DEF accept_client
    <2> QED
      BY <2>3, <2>4, ClientPairs
  <1> QED
    BY <1>1, <1>2

(* Every step: the pairs in use shrink, or gain one with the id next_id_. *)
LEMMA PairsStep ==
    ASSUME TypeOK, [Next]_vars
    PROVE  \/ NamedPairs' \subseteq NamedPairs /\ next_id' = next_id
           \/ \E h : /\ NamedPairs' \subseteq NamedPairs \cup {<<next_id, h>>}
                     /\ next_id' = next_id + 1
  <1>1. CASE AgentStep
    <2>1. CASE LoopExit \/ DispatchFails
      BY <2>1, SamePairs DEF LoopExit, DispatchFails, Exit, pairVars
    <2>2. CASE prune_closed \/ PreparePoll
      BY <2>2, TopPairs
    <2>3. CASE PollReady \/ PollTimeout
      BY <2>3, SamePairs DEF PollReady, PollTimeout, pairVars, peerVars
    <2>4. CASE manager_toplevel
      BY <2>4, ToplevelPairs
    <2>5. CASE \/ manager_finished \/ handle_title \/ handle_app_id
               \/ handle_state \/ handle_done \/ handle_closed \/ DispatchDone
      BY <2>5, DisplayPairs
    <2>6. CASE accept_client \/ AcceptDone
      BY <2>6, AcceptPairs
    <2>7. CASE \/ ClientsDone \/ ServeHangup \/ ServeClient \/ ReadAgain \/ ReadEof
               \/ FlushWrite \/ FlushDone \/ FlushBroken
      BY <2>7, LoopPairs
    <2>8. CASE handle_command
      BY <2>8, CommandPairs
    <2> QED
      BY <1>1, <2>1, <2>2, <2>3, <2>4, <2>5, <2>6, <2>7, <2>8 DEF AgentStep
  <1>2. CASE Signal \/ PollFails
    BY <1>2, SamePairs DEF Signal, PollFails, pairVars, peerVars
  <1>3. CASE CompositorStep
    BY <1>3, SamePairs DEF CompositorStep, OpenWindow, CloseWindow, FocusWindow, UserOp,
         HandleRequest, ManagerStops, CompositorExits, pairVars, agentVars, peerVars
  <1>4. CASE PeerStep
    BY <1>4, PeerPairs
  <1>5. CASE UNCHANGED vars
    BY <1>5, SamePairs DEF vars, agentVars, peerVars, pairVars
  <1> QED
    BY <1>1, <1>2, <1>3, <1>4, <1>5 DEF Next

(* Initially no id is in use. *)
LEMMA IdInit == Init => IdInv
  <1> SUFFICES ASSUME Init PROVE IdInv
    OBVIOUS
  <1>1. TaskPairs = {} /\ OutputPairs = {}
    BY DEF Init, TaskPairs, OutputPairs
  <1>2. SocketPairs = {} /\ ViewPairs = {}
    BY DEF Init, SocketPairs, ViewPairs, QueuePairs, LinePairs
  <1> QED
    BY <1>1, <1>2 DEF IdInv, IdsNameOneToplevel, NamedPairs

(* Every step keeps the ids apart. *)
LEMMA IdStep == TypeOK /\ IdInv /\ [Next]_vars => IdInv'
  <1> SUFFICES ASSUME TypeOK, IdInv, [Next]_vars PROVE IdInv'
    OBVIOUS
  <1>1. CASE NamedPairs' \subseteq NamedPairs /\ next_id' = next_id
    BY <1>1 DEF IdInv, IdsNameOneToplevel
  <1>2. ASSUME NEW h, NamedPairs' \subseteq NamedPairs \cup {<<next_id, h>>},
               next_id' = next_id + 1
        PROVE  IdInv'
    <2>1. \A p \in NamedPairs : p[1] # next_id
      BY DEF IdInv, TypeOK
    <2>2. \A p \in NamedPairs : p[1] < next_id + 1
      <3>1. \A p \in NamedPairs : p[1] \in Nat
        <4>1. \A l \in Line : l.id \in Nat
          BY DEF Line
        <4>2. \A m \in Message : m.lines \subseteq Line
          BY DEF Message
        <4>3. \A q \in Seq(Message) : \A x \in QueuePairs(q) : x[1] \in Nat
          BY <4>1, <4>2 DEF QueuePairs, LinePairs
        <4>4. \A k \in DOMAIN clients : clients[k].output \in Seq(Message)
          <5>1. \A k \in DOMAIN clients : clients[k] \in Client
            BY DEF TypeOK
          <5> QED
            BY <5>1 DEF Client
        <4>5. \A x \in OutputPairs : x[1] \in Nat
          BY <4>3, <4>4 DEF OutputPairs
        <4>6. \A x \in SocketPairs : x[1] \in Nat
          BY <4>3 DEF SocketPairs, TypeOK
        <4>7. \A x \in ViewPairs : x[1] \in Nat
          BY <4>1 DEF ViewPairs, LinePairs, TypeOK
        <4>8. \A x \in TaskPairs : x[1] \in Nat
          <5>1. \A k \in DOMAIN tasks : tasks[k] \in Task
            BY DEF TypeOK
          <5>2. \A k \in DOMAIN tasks : tasks[k].id \in Nat
            BY <5>1 DEF Task
          <5> QED
            BY <5>2 DEF TaskPairs
        <4> QED
          BY <4>5, <4>6, <4>7, <4>8 DEF NamedPairs
      <3> QED
        BY <3>1 DEF IdInv, TypeOK
    <2>3. next_id < next_id + 1
      BY DEF TypeOK
    <2>4. \A p \in NamedPairs' : p[1] < next_id'
      BY <1>2, <2>2, <2>3
    <2>5. \A p, q \in NamedPairs' : p[1] = q[1] => p[2] = q[2]
      BY <1>2, <2>1 DEF IdInv, IdsNameOneToplevel
    <2> QED
      BY <2>4, <2>5 DEF IdInv, IdsNameOneToplevel
  <1> QED
    BY <1>1, <1>2, PairsStep

(* For every number of clients, toplevels and commands: an id that a client *)
(* has read in any snapshot never comes to name another toplevel.           *)
THEOREM IdsNameOneToplevelAlways == Spec => []IdsNameOneToplevel
  <1>1. IdInv => IdsNameOneToplevel
    BY DEF IdInv
  <1> QED
    BY TypeInit, TypeStep, IdInit, IdStep, <1>1, PTL DEF Spec
=============================================================================
