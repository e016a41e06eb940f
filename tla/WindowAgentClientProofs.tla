---------------------- MODULE WindowAgentClientProofs ----------------------
(***************************************************************************)
(* What the clients of the window agent are sent, for every number of      *)
(* clients, commands and toplevels: one answer for each command, snapshots *)
(* that do not fall behind the table, and nothing about a closed toplevel. *)
(* To its clients the agent is a TaskService.                              *)
(*                                                                         *)
(* All of it rests on ConnInv: a connection is one entry of backlog or of  *)
(* clients_, although erase moves the entries while the loop runs.         *)
(***************************************************************************)
EXTENDS WindowAgentTaskProofs, FiniteSetTheorems, WellFoundedInduction

----------------------------------------------------------------------------
(* Counting the elements of a queue that are in P *)

Those(q, P) == {n \in DOMAIN q : q[n] \in P}

LEMMA ThoseFinite ==
    ASSUME NEW S, NEW q \in Seq(S), NEW P
    PROVE  IsFiniteSet(Those(q, P)) /\ Cardinality(Those(q, P)) \in Nat
  <1>1. Len(q) \in Nat /\ Those(q, P) \in SUBSET (1 .. Len(q))
    BY DEF Those
  <1>2. IsFiniteSet(1 .. Len(q))
    BY <1>1, FS_Interval
  <1>3. IsFiniteSet(Those(q, P))
    BY <1>1, <1>2, FS_Subset
  <1> QED
    BY <1>3, FS_CardinalityType

LEMMA CountAppend ==
    ASSUME NEW S, NEW q \in Seq(S), NEW x \in S, NEW P
    PROVE  Cardinality(Those(Append(q, x), P))
             = Cardinality(Those(q, P)) + IF x \in P THEN 1 ELSE 0
  <1>1. PICK L \in Nat : L = Len(q) /\ DOMAIN q = 1 .. L
    OBVIOUS
  <1>2. PICK a : a = Append(q, x)
    OBVIOUS
  <1>3. DOMAIN a = DOMAIN q \cup {L + 1} /\ a[L + 1] = x /\ \A n \in DOMAIN q : a[n] = q[n]
    BY <1>1, <1>2
  <1>4. L + 1 \notin DOMAIN q
    BY <1>1
  <1>5. x \in P => Those(a, P) = Those(q, P) \cup {L + 1}
    BY <1>3, <1>4 DEF Those
  <1>6. x \notin P => Those(a, P) = Those(q, P)
    BY <1>3, <1>4 DEF Those
  <1>7. Cardinality(Those(q, P) \cup {L + 1}) = Cardinality(Those(q, P)) + 1
    <2>1. L + 1 \notin Those(q, P)
      BY <1>4 DEF Those
    <2> QED
      BY <2>1, ThoseFinite, FS_AddElement
  <1>8. Cardinality(Those(q, P)) \in Nat
    BY ThoseFinite
  <1>9. CASE x \in P
    BY <1>2, <1>5, <1>7, <1>9
  <1>10. CASE x \notin P
    <2>1. Cardinality(Those(a, P)) = Cardinality(Those(q, P)) + 0
      BY <1>6, <1>8, <1>10
    <2> QED
      BY <1>2, <1>10, <2>1
  <1> QED
    BY <1>9, <1>10

LEMMA CountTail ==
    ASSUME NEW S, NEW q \in Seq(S), q # <<>>, NEW P
    PROVE  Cardinality(Those(q, P))
             = Cardinality(Those(Tail(q), P)) + IF Head(q) \in P THEN 1 ELSE 0
  <1>1. PICK t : t = Tail(q)
    OBVIOUS
  <1>2. /\ \A n \in DOMAIN t : n \in Nat /\ n + 1 \in DOMAIN q /\ n + 1 # 1 /\ t[n] = q[n + 1]
        /\ \A n \in DOMAIN q : n \in Nat /\ (n # 1 => n - 1 \in DOMAIN t)
        /\ 1 \in DOMAIN q /\ Head(q) = q[1]
    BY <1>1
  <1>3. t \in Seq(S)
    BY <1>1
  <1>4. PICK A, B : A = Those(t, P) /\ B = Those(q, P) \ {1}
    OBVIOUS
  <1>5. Cardinality(B) = Cardinality(A)
    <2>1. PICK f : f = [n \in A |-> n + 1]
      OBVIOUS
    <2>2. A \subseteq Nat /\ \A n \in A : n + 1 \in B
      BY <1>2, <1>4 DEF Those
    <2>3. \A n \in B : n \in Nat /\ n - 1 \in A /\ (n - 1) + 1 = n
      <3>1. \A n \in B : n \in DOMAIN q /\ q[n] \in P /\ n # 1 /\ n \in Nat
        BY <1>2, <1>4 DEF Those
      <3>2. \A n \in Nat : (n - 1) + 1 = n
        OBVIOUS
      <3>3. \A n \in B : n - 1 \in DOMAIN t /\ t[n - 1] = q[n]
        BY <1>2, <3>1, <3>2
      <3> QED
        BY <1>4, <3>1, <3>2, <3>3 DEF Those
    <2>4. f \in Injection(A, B)
      BY <2>1, <2>2 DEF Injection, IsInjective
    <2>5. f \in Surjection(A, B)
      BY <2>1, <2>2, <2>3 DEF Surjection
    <2>6. ExistsBijection(A, B)
      BY <2>4, <2>5 DEF ExistsBijection, Bijection
    <2> QED
      BY <1>3, <1>4, <2>6, ThoseFinite, FS_Bijection
  <1>6. IsFiniteSet(Those(q, P)) /\ Cardinality(Those(q, P)) \in Nat
    BY ThoseFinite
  <1>7. 1 \in Those(q, P) <=> Head(q) \in P
    BY <1>2 DEF Those
  <1>8. Cardinality(B) = IF 1 \in Those(q, P) THEN Cardinality(Those(q, P)) - 1
                                              ELSE Cardinality(Those(q, P))
    BY <1>4, <1>6, FS_RemoveElement
  <1>9. Cardinality(A) \in Nat
    BY <1>3, <1>4, ThoseFinite
  <1> QED
    BY <1>1, <1>4, <1>5, <1>6, <1>7, <1>8, <1>9
----------------------------------------------------------------------------
(* What a step can do to the clients and their sockets *)

clientVars == <<clients, backlog, peer, toAgent, toPeer, view, asked, answered>>

(* Nothing; the table may change, and then a broadcast is due. *)
Stays == UNCHANGED clientVars /\ (changed' \/ UNCHANGED <<tasks, changed>>)

(* The process ends. *)
HangsUp == /\ HangUpOnAll
           /\ UNCHANGED <<tasks, changed, clients, backlog, toAgent, toPeer, view, asked, answered>>

(* Client k is given up. *)
Closes(k) ==
    /\ k \in DOMAIN clients
    /\ close_client(k)
    /\ \A c \in Conns \ {clients[k].conn} : toAgent'[c] = toAgent[c]
    /\ UNCHANGED <<tasks, changed, backlog, toPeer, view, asked, answered>>

(* A line of client k is taken off its socket. *)
Reads(k) ==
    LET c == clients[k].conn IN
    /\ k \in DOMAIN clients
    /\ toAgent[c] # <<>>
    /\ toAgent'[c] = Tail(toAgent[c])
    /\ \A d \in Conns \ {c} : toAgent'[d] = toAgent[d]
    /\ UNCHANGED <<tasks, changed, backlog, peer, toPeer, view, asked, answered>>

(* Only client k changes, and not its connection. *)
Changes(k) ==
    /\ DOMAIN clients' = DOMAIN clients
    /\ clients'[k].conn = clients[k].conn
    /\ \A j \in DOMAIN clients \ {k} : clients'[j] = clients[j]

(* The line is answered with m; a snapshot shows the table as it is, and a *)
(* new subscriber gets one.                                                *)
Replies(k, m) ==
    /\ Reads(k)
    /\ HasAnswer(Head(toAgent[clients[k].conn]))
    /\ m.reply
    /\ m.lines = IF m.kind = "snapshot" THEN SnapshotLines ELSE {}
    /\ m.kind # "snapshot" => clients'[k].subscribed = clients[k].subscribed
    /\ Changes(k)
    /\ clients'[k].output = Append(clients[k].output, m)

(* The line is blank. *)
Skips(k) ==
    /\ Reads(k)
    /\ ~HasAnswer(Head(toAgent[clients[k].conn]))
    /\ UNCHANGED clients

(* The first message of client k's output is written to its socket. *)
Writes(k) ==
    LET c == clients[k].conn IN
    /\ k \in DOMAIN clients
    /\ clients[k].output # <<>>
    /\ Changes(k)
    /\ clients'[k].output = Tail(clients[k].output)
    /\ clients'[k].subscribed = clients[k].subscribed
    /\ toPeer'[c] = Append(toPeer[c], Head(clients[k].output))
    /\ \A d \in Conns \ {c} : toPeer'[d] = toPeer[d]
    /\ UNCHANGED <<tasks, changed, backlog, peer, toAgent, view, asked, answered>>

LEMMA ClientTypes ==
    ASSUME TypeOK
    PROVE  /\ clients \in Seq(Client)
           /\ \A k \in DOMAIN clients : /\ clients[k] \in Client
                                        /\ clients[k].conn \in Conns
                                        /\ clients[k].output \in Seq(Message)
  <1>1. clients \in Seq(Client)
    BY DEF TypeOK
  <1>2. \A k \in DOMAIN clients : clients[k] \in Client
    BY <1>1
  <1>3. \A cl \in Client : cl.conn \in Conns /\ cl.output \in Seq(Message)
    BY DEF Client
  <1> QED
    BY <1>1, <1>2, <1>3

LEMMA TakeReads ==
    ASSUME TypeOK, NEW S, Take(S),
           UNCHANGED <<tasks, changed, backlog, peer, toPeer, view, asked, answered>>
    PROVE  Reads(i) /\ Head(toAgent[clients[i].conn]).verb \in S
  <1>1. i \in DOMAIN clients /\ clients[i].conn \in Conns
    BY TypeTake
  <1>2. toAgent \in [Conns -> Seq(Command)]
    BY DEF TypeOK
  <1> QED
    BY <1>1, <1>2 DEF Take, Reads

LEMMA SendChanges ==
    ASSUME TypeOK, NEW k \in DOMAIN clients, NEW m \in Message, send(k, m)
    PROVE  /\ Changes(k)
           /\ clients'[k].output = Append(clients[k].output, m)
           /\ clients'[k].subscribed = clients[k].subscribed
  <1>1. clients[k] \in Client
    BY ClientTypes
  <1>2. PICK cl : cl = [clients[k] EXCEPT !.output = Append(@, m)]
    OBVIOUS
  <1>3. /\ cl.conn = clients[k].conn /\ cl.subscribed = clients[k].subscribed
        /\ cl.output = Append(clients[k].output, m)
    BY <1>1, <1>2 DEF Client
  <1>4. clients' = [clients EXCEPT ![k] = cl]
    BY <1>2, TypeSend
  <1> QED
    BY <1>3, <1>4 DEF Changes

(* Every handler answers a line once, except for the two it must not. *)
LEMMA CommandKinds ==
    ASSUME TypeOK, handle_command
    PROVE  \/ \E m \in Message : Replies(i, m)
           \/ Skips(i)
           \/ Closes(i)
  <1>1. CASE Hello \/ List \/ TaskCommandRefused \/ TaskCommand \/ FocusShell
             \/ ActiveIsShell \/ ActiveCommand \/ UnknownCommand
    <2>1. PICK S : Take(S) /\ "blank" \notin S /\ "overlong" \notin S
      BY <1>1 DEF Hello, List, TaskCommandRefused, TaskCommand, FocusShell,
                  ActiveIsShell, ActiveCommand, UnknownCommand, TaskVerbs, ActiveVerbs
    <2>2. \/ send(i, SnapshotMessage(TRUE))
          \/ \E s \in {"hello", "ok", "error"} : send(i, Answer(s))
      BY <1>1 DEF Hello, List, TaskCommandRefused, TaskCommand, FocusShell,
                  ActiveIsShell, ActiveCommand, UnknownCommand, ReplyOnly, Perform
    <2>3. PICK m \in Message :
             /\ send(i, m) /\ m.reply
             /\ m.lines = IF m.kind = "snapshot" THEN SnapshotLines ELSE {}
      <3>1. /\ SnapshotMessage(TRUE) \in Message /\ SnapshotMessage(TRUE).reply
            /\ SnapshotMessage(TRUE).lines = SnapshotLines /\ SnapshotMessage(TRUE).kind = "snapshot"
        BY SnapshotType DEF SnapshotMessage
      <3>2. \A s \in {"hello", "ok", "error"} :
              /\ Answer(s) \in Message /\ Answer(s).reply
              /\ Answer(s).kind # "snapshot" /\ Answer(s).lines = {}
        BY SnapshotType DEF Answer
      <3> QED
        BY <2>2, <3>1, <3>2
    <2>4. UNCHANGED <<tasks, changed, backlog, peer, toPeer, view, asked, answered>>
      BY <1>1 DEF Hello, List, TaskCommandRefused, TaskCommand, FocusShell,
                  ActiveIsShell, ActiveCommand, UnknownCommand, ReplyOnly, Perform,
                  AgentUnchanged, WorldUnchanged
    <2>5. Reads(i) /\ HasAnswer(Head(toAgent[clients[i].conn]))
      BY <2>1, <2>4, TakeReads DEF HasAnswer
    <2>6. i \in DOMAIN clients
      BY <2>5 DEF Reads
    <2> QED
      BY <2>3, <2>5, <2>6, SendChanges DEF Replies
  <1>2. CASE Subscribe
    <2>1. /\ Take({"subscribe"})
          /\ UNCHANGED <<tasks, changed, backlog, peer, toPeer, view, asked, answered>>
      BY <1>2 DEF Subscribe, AgentUnchanged, WorldUnchanged
    <2>2. Reads(i) /\ HasAnswer(Head(toAgent[clients[i].conn])) /\ i \in DOMAIN clients
      BY <2>1, TakeReads DEF HasAnswer, Reads
    <2>3. PICK cl : cl = [clients[i] EXCEPT !.subscribed = TRUE,
                                            !.output = Append(@, SnapshotMessage(TRUE))]
      OBVIOUS
    <2>4. cl.conn = clients[i].conn /\ cl.output = Append(clients[i].output, SnapshotMessage(TRUE))
      BY <2>2, <2>3, ClientTypes DEF Client
    <2>5. clients' = [clients EXCEPT ![i] = cl]
      BY <1>2, <2>3 DEF Subscribe
    <2>6. Changes(i) /\ clients'[i].output = Append(clients[i].output, SnapshotMessage(TRUE))
      BY <2>2, <2>4, <2>5 DEF Changes
    <2>7. /\ SnapshotMessage(TRUE) \in Message /\ SnapshotMessage(TRUE).reply
          /\ SnapshotMessage(TRUE).lines = SnapshotLines
          /\ SnapshotMessage(TRUE).kind = "snapshot"
      BY SnapshotType DEF SnapshotMessage
    <2>8. Replies(i, SnapshotMessage(TRUE))
      BY <2>2, <2>6, <2>7 DEF Replies
    <2> QED
      BY <2>7, <2>8
  <1>3. CASE BlankLine
    <2>1. /\ Take({"blank"})
          /\ UNCHANGED <<tasks, changed, backlog, peer, toPeer, view, asked, answered, clients>>
      BY <1>3 DEF BlankLine, AgentUnchanged, WorldUnchanged
    <2>2. Reads(i) /\ ~HasAnswer(Head(toAgent[clients[i].conn]))
      BY <2>1, TakeReads DEF HasAnswer
    <2> QED
      BY <2>1, <2>2 DEF Skips
  <1>4. CASE OverlongLine
    <2>1. /\ Take({"overlong"}) /\ close_client(i)
          /\ UNCHANGED <<tasks, changed, backlog, toPeer, view, asked, answered>>
      BY <1>4 DEF OverlongLine
    <2>2. i \in DOMAIN clients /\ clients[i].conn \in Conns
      BY <2>1, TypeTake
    <2>3. \A c \in Conns \ {clients[i].conn} : toAgent'[c] = toAgent[c]
      BY <2>1, <2>2 DEF Take, TypeOK
    <2> QED
      BY <2>1, <2>2, <2>3 DEF Closes
  <1> QED
    BY <1>1, <1>2, <1>3, <1>4 DEF handle_command

LEMMA WriteKinds == ASSUME TypeOK, FlushWrite PROVE Writes(i)
  <1>1. i \in DOMAIN clients /\ clients[i].conn \in Conns /\ clients[i] \in Client
    <2>1. i \in DOMAIN clients
      BY DEF TypeOK, FlushWrite
    <2> QED
      BY <2>1, ClientTypes
  <1>2. PICK cl : cl = [clients[i] EXCEPT !.output = Tail(@)]
    OBVIOUS
  <1>3. /\ cl.conn = clients[i].conn /\ cl.subscribed = clients[i].subscribed
        /\ cl.output = Tail(clients[i].output)
    BY <1>1, <1>2 DEF Client
  <1>4. clients' = [clients EXCEPT ![i] = cl]
    BY <1>1, <1>2 DEF FlushWrite
  <1>5. /\ Changes(i) /\ clients'[i].output = Tail(clients[i].output)
        /\ clients'[i].subscribed = clients[i].subscribed
    BY <1>1, <1>3, <1>4 DEF Changes
  <1>6. /\ toPeer'[clients[i].conn] = Append(toPeer[clients[i].conn], Head(clients[i].output))
        /\ \A d \in Conns \ {clients[i].conn} : toPeer'[d] = toPeer[d]
    BY <1>1 DEF FlushWrite, TypeOK
  <1>7. /\ clients[i].output # <<>>
        /\ UNCHANGED <<tasks, changed, backlog, peer, toAgent, view, asked, answered>>
    BY DEF FlushWrite
  <1> QED
    BY <1>1, <1>5, <1>6, <1>7 DEF Writes

LEMMA StepKinds ==
    ASSUME TypeOK, [Next]_vars
    PROVE  \/ Stays \/ HangsUp
           \/ PreparePoll /\ UNCHANGED peerVars
           \/ accept_client
           \/ \E k \in DOMAIN clients : \/ Closes(k) \/ Skips(k) \/ Writes(k)
                                        \/ \E m \in Message : Replies(k, m)
           \/ PeerStep
  <1>1. CASE AgentStep
    <2>1. CASE LoopExit \/ DispatchFails
      BY <2>1 DEF LoopExit, DispatchFails, Exit, HangsUp
    <2>2. CASE prune_closed
      BY <2>2 DEF prune_closed, peerVars, Stays, clientVars
    <2>3. CASE PreparePoll
      BY <2>3 DEF PreparePoll, peerVars
    <2>4. CASE PollReady \/ PollTimeout \/ DispatchDone \/ AcceptDone \/ ClientsDone
      BY <2>4 DEF PollReady, PollTimeout, DispatchDone, AcceptDone, ClientsDone, peerVars,
                  Stays, clientVars
    <2>5. CASE \/ manager_toplevel \/ manager_finished \/ handle_title \/ handle_app_id
               \/ handle_state \/ handle_done \/ handle_closed
      BY <2>5 DEF manager_toplevel, manager_finished, handle_title, handle_app_id, handle_state,
                  handle_done, handle_closed, Dispatch, peerVars, Stays, clientVars
    <2>6. CASE accept_client
      BY <2>6
    <2>7. CASE ServeHangup \/ ReadEof \/ FlushBroken
      <3>1. i \in DOMAIN clients /\ Drop
        BY <2>7 DEF TypeOK, ServeHangup, ReadEof, FlushBroken
      <3> QED
        BY <3>1 DEF Drop, Closes
    <2>8. CASE ServeClient \/ ReadAgain \/ FlushDone
      BY <2>8 DEF ServeClient, ReadAgain, FlushDone, ServeNext, peerVars, Stays, clientVars
    <2>9. CASE handle_command
      <3>1. \/ \E m \in Message : Replies(i, m)
            \/ Skips(i)
            \/ Closes(i)
        BY <2>9, CommandKinds
      <3> QED
        BY <3>1 DEF Replies, Skips, Closes, Reads
    <2>10. CASE FlushWrite
      BY <2>10, WriteKinds DEF Writes
    <2> QED
      BY <1>1, <2>1, <2>2, <2>3, <2>4, <2>5, <2>6, <2>7, <2>8, <2>9, <2>10 DEF AgentStep
  <1>2. CASE Signal \/ PollFails
    BY <1>2 DEF Signal, PollFails, peerVars, Stays, HangsUp, clientVars
  <1>3. CASE CompositorStep
    BY <1>3 DEF CompositorStep, OpenWindow, CloseWindow, FocusWindow, UserOp, HandleRequest,
                ManagerStops, CompositorExits, agentVars, peerVars, Stays, clientVars
  <1>4. CASE PeerStep
    BY <1>4
  <1>5. CASE UNCHANGED vars
    BY <1>5 DEF vars, agentVars, peerVars, Stays, clientVars
  <1> QED
    BY <1>1, <1>2, <1>3, <1>4, <1>5 DEF Next
----------------------------------------------------------------------------
(* A connection is one client or one entry of the backlog *)

ConnInv ==
    /\ \A k, l \in DOMAIN clients : clients[k].conn = clients[l].conn => k = l
    /\ \A n, m \in DOMAIN backlog : backlog[n] = backlog[m] => n = m
    /\ \A k \in DOMAIN clients, n \in DOMAIN backlog : clients[k].conn # backlog[n]
    /\ \A k \in DOMAIN clients : peer[clients[k].conn] # "idle"
    /\ \A n \in DOMAIN backlog : peer[backlog[n]] # "idle"

(* Where entry j of the vector was before entry k was erased. *)
Moved(j, k) == IF j < k THEN j ELSE j + 1

LEMMA ErasedClients ==
    ASSUME TypeOK, NEW k \in DOMAIN clients, clients' = Erase(clients, k)
    PROVE  /\ \A j \in DOMAIN clients' : /\ Moved(j, k) \in DOMAIN clients \ {k}
                                         /\ clients'[j] = clients[Moved(j, k)]
           /\ \A j, l \in DOMAIN clients' : Moved(j, k) = Moved(l, k) => j = l
           /\ \A n \in DOMAIN clients \ {k} : \E j \in DOMAIN clients' : Moved(j, k) = n
  <1>1. PICK L \in Nat : L = Len(clients) /\ DOMAIN clients = 1 .. L
    BY ClientTypes
  <1>2. /\ DOMAIN clients' = 1 .. (L - 1)
        /\ \A j \in 1 .. (L - 1) : clients'[j] = IF j < k THEN clients[j] ELSE clients[j + 1]
    <2>1. /\ clients' \in Seq(Client) /\ Len(clients') = Len(clients) - 1
          /\ \A j \in 1 .. (Len(clients) - 1) :
               clients'[j] = IF j < k THEN clients[j] ELSE clients[j + 1]
      BY ClientTypes, EraseSeq
    <2>2. DOMAIN clients' = 1 .. Len(clients')
      BY <2>1
    <2> QED
      BY <1>1, <2>1, <2>2
  <1>3. k \in 1 .. L
    BY <1>1
  <1>4. \A j \in 1 .. (L - 1) : Moved(j, k) \in (1 .. L) \ {k}
    BY <1>3 DEF Moved
  <1>5. \A j, l \in 1 .. (L - 1) : Moved(j, k) = Moved(l, k) => j = l
    BY <1>3 DEF Moved
  <1>6. ASSUME NEW n \in (1 .. L) \ {k} PROVE \E j \in 1 .. (L - 1) : Moved(j, k) = n
    <2>1. CASE n < k
      <3>1. n \in 1 .. (L - 1) /\ Moved(n, k) = n
        BY <1>3, <2>1 DEF Moved
      <3> QED
        BY <3>1
    <2>2. CASE ~(n < k)
      <3>1. n - 1 \in 1 .. (L - 1) /\ Moved(n - 1, k) = n
        BY <1>3, <2>2 DEF Moved
      <3> QED
        BY <3>1
    <2> QED
      BY <2>1, <2>2
  <1>7. \A j \in 1 .. (L - 1) : clients'[j] = clients[Moved(j, k)]
    BY <1>2 DEF Moved
  <1> QED
    BY <1>1, <1>2, <1>4, <1>5, <1>6, <1>7

LEMMA BacklogTail ==
    ASSUME TypeOK, backlog # <<>>, backlog' = Tail(backlog)
    PROVE  /\ \A n \in DOMAIN backlog' : /\ n + 1 \in DOMAIN backlog /\ n + 1 # 1 /\ n \in Nat
                                         /\ backlog'[n] = backlog[n + 1]
           /\ 1 \in DOMAIN backlog /\ Head(backlog) = backlog[1] /\ Head(backlog) \in Conns
  <1>1. backlog \in Seq(Conns)
    BY DEF TypeOK
  <1> QED
    BY <1>1

(* The new client is the last one. *)
LEMMA AcceptedClient ==
    ASSUME TypeOK, accept_client
    PROVE  \E L \in Nat : /\ DOMAIN clients' = DOMAIN clients \cup {L} /\ L \notin DOMAIN clients
                          /\ clients'[L].conn = Head(backlog)
                          /\ ~clients'[L].subscribed /\ clients'[L].output = <<>>
                          /\ \A j \in DOMAIN clients : clients'[j] = clients[j]
  <1>1. PICK new : new = [conn |-> Head(backlog), subscribed |-> FALSE, output |-> <<>>]
    OBVIOUS
  <1>2. clients' = Append(clients, new)
    BY <1>1 DEF accept_client
  <1>3. clients \in Seq(Client)
    BY ClientTypes
  <1>4. PICK L \in Nat : L = Len(clients) + 1
    BY <1>3
  <1>5. /\ DOMAIN clients' = DOMAIN clients \cup {L} /\ L \notin DOMAIN clients
        /\ clients'[L] = new /\ \A j \in DOMAIN clients : clients'[j] = clients[j]
    BY <1>2, <1>3, <1>4
  <1> QED
    BY <1>1, <1>5

LEMMA ConnStep == ASSUME TypeOK, ConnInv, [Next]_vars PROVE ConnInv'
  <1>1. CASE Stays
    BY <1>1 DEF Stays, clientVars, ConnInv
  <1>2. CASE HangsUp
    <2>1. \A c \in Conns : peer[c] # "idle" => peer'[c] # "idle"
      BY <1>2 DEF HangsUp, HangUpOnAll
    <2>2. \A n \in DOMAIN backlog : backlog[n] \in Conns
      BY DEF TypeOK
    <2> QED
      BY <1>2, <2>1, <2>2, ClientTypes DEF HangsUp, ConnInv
  <1>3. CASE PreparePoll /\ UNCHANGED peerVars
    <2>1. /\ DOMAIN clients' = DOMAIN clients
          /\ \A k \in DOMAIN clients : clients'[k].conn = clients[k].conn
      <3>1. ASSUME NEW k \in DOMAIN clients, changed PROVE clients'[k].conn = clients[k].conn
        <4>1. \/ clients'[k] = clients[k]
              \/ clients'[k] = [clients[k] EXCEPT !.output = Append(@, SnapshotMessage(FALSE))]
          BY <1>3, <3>1 DEF PreparePoll, broadcast_snapshot
        <4> QED
          BY <4>1, ClientTypes DEF Client
      <3> QED
        BY <1>3, <3>1 DEF PreparePoll, broadcast_snapshot
    <2> QED
      BY <1>3, <2>1 DEF peerVars, ConnInv
  <1>4. CASE accept_client
    <2>1. backlog # <<>> /\ backlog' = Tail(backlog) /\ UNCHANGED peer
      BY <1>4 DEF accept_client
    <2>2. PICK L \in Nat : /\ DOMAIN clients' = DOMAIN clients \cup {L} /\ L \notin DOMAIN clients
                           /\ clients'[L].conn = Head(backlog)
                           /\ \A j \in DOMAIN clients : clients'[j] = clients[j]
      BY <1>4, AcceptedClient
    <2>3. /\ \A n \in DOMAIN backlog' : /\ n + 1 \in DOMAIN backlog /\ n + 1 # 1 /\ n \in Nat
                                        /\ backlog'[n] = backlog[n + 1]
          /\ 1 \in DOMAIN backlog /\ Head(backlog) = backlog[1]
      BY <2>1, BacklogTail
    <2>4. \A k, l \in DOMAIN clients' : clients'[k].conn = clients'[l].conn => k = l
      BY <2>2, <2>3 DEF ConnInv
    <2>5. \A n, m \in DOMAIN backlog' : backlog'[n] = backlog'[m] => n = m
      <3>1. \A n, m \in Nat : n + 1 = m + 1 => n = m
        OBVIOUS
      <3> QED
        BY <2>3, <3>1 DEF ConnInv
    <2>6. \A k \in DOMAIN clients', n \in DOMAIN backlog' : clients'[k].conn # backlog'[n]
      BY <2>2, <2>3 DEF ConnInv
    <2>7. \A k \in DOMAIN clients' : peer[clients'[k].conn] # "idle"
      BY <2>2, <2>3 DEF ConnInv
    <2>8. \A n \in DOMAIN backlog' : peer[backlog'[n]] # "idle"
      BY <2>3 DEF ConnInv
    <2> QED
      BY <2>1, <2>4, <2>5, <2>6, <2>7, <2>8 DEF ConnInv
  <1>5. ASSUME NEW k \in DOMAIN clients, Closes(k) PROVE ConnInv'
    <2>1. clients' = Erase(clients, k) /\ UNCHANGED backlog
      BY <1>5 DEF Closes, close_client
    <2>2. /\ \A j \in DOMAIN clients' : /\ Moved(j, k) \in DOMAIN clients \ {k}
                                        /\ clients'[j] = clients[Moved(j, k)]
          /\ \A j, l \in DOMAIN clients' : Moved(j, k) = Moved(l, k) => j = l
      BY <2>1, ErasedClients
    <2>3. \A c \in Conns : peer[c] # "idle" => peer'[c] # "idle"
      BY <1>5 DEF Closes, close_client, TypeOK
    <2>4. \A n \in DOMAIN backlog : backlog[n] \in Conns
      BY DEF TypeOK
    <2>5. \A j, l \in DOMAIN clients' : clients'[j].conn = clients'[l].conn => j = l
      BY <2>2 DEF ConnInv
    <2>6. \A j \in DOMAIN clients', n \in DOMAIN backlog' : clients'[j].conn # backlog'[n]
      BY <2>1, <2>2 DEF ConnInv
    <2>7. \A j \in DOMAIN clients' : peer'[clients'[j].conn] # "idle"
      BY <2>2, <2>3, ClientTypes DEF ConnInv
    <2>8. \A n \in DOMAIN backlog' : peer'[backlog'[n]] # "idle"
      BY <2>1, <2>3, <2>4 DEF ConnInv
    <2>9. \A n, m \in DOMAIN backlog' : backlog'[n] = backlog'[m] => n = m
      BY <2>1 DEF ConnInv
    <2> QED
      BY <2>5, <2>6, <2>7, <2>8, <2>9 DEF ConnInv
  <1>6. ASSUME NEW k \in DOMAIN clients,
               Skips(k) \/ Writes(k) \/ (\E m \in Message : Replies(k, m))
        PROVE  ConnInv'
    <2>1. UNCHANGED <<backlog, peer>>
      BY <1>6 DEF Skips, Writes, Replies, Reads
    <2>2. /\ DOMAIN clients' = DOMAIN clients
          /\ \A j \in DOMAIN clients : clients'[j].conn = clients[j].conn
      BY <1>6 DEF Skips, Writes, Replies, Changes
    <2> QED
      BY <2>1, <2>2 DEF ConnInv
  <1>7. CASE PeerStep
    <2>1. PICK c \in Conns : \/ Connect(c) \/ Receive(c) \/ HangUp(c)
                             \/ \E cmd \in Commands : SendCommand(c, cmd)
      BY <1>7 DEF PeerStep
    <2>2. CASE Connect(c)
      <3>1. UNCHANGED clients /\ peer[c] = "idle" /\ backlog' = Append(backlog, c)
        BY <2>2 DEF Connect, agentVars
      <3>2. \A d \in Conns : peer'[d] # "idle" <=> peer[d] # "idle" \/ d = c
        BY <2>2 DEF Connect, TypeOK
      <3>3. backlog \in Seq(Conns)
        BY DEF TypeOK
      <3>4. PICK L \in Nat : /\ DOMAIN backlog' = DOMAIN backlog \cup {L}
                             /\ L \notin DOMAIN backlog /\ backlog'[L] = c
                             /\ \A n \in DOMAIN backlog : backlog'[n] = backlog[n]
        <4>1. PICK L \in Nat : L = Len(backlog) + 1
          BY <3>3
        <4> QED
          BY <3>1, <3>3, <4>1
      <3>5. \A n \in DOMAIN backlog : backlog[n] \in Conns
        BY <3>3
      <3>6. \A n, m \in DOMAIN backlog' : backlog'[n] = backlog'[m] => n = m
        BY <3>1, <3>4 DEF ConnInv
      <3>7. \A k \in DOMAIN clients', n \in DOMAIN backlog' : clients'[k].conn # backlog'[n]
        BY <3>1, <3>4 DEF ConnInv
      <3>8. \A k \in DOMAIN clients' : peer'[clients'[k].conn] # "idle"
        BY <3>1, <3>2, ClientTypes DEF ConnInv
      <3>9. \A n \in DOMAIN backlog' : peer'[backlog'[n]] # "idle"
        BY <3>2, <3>4, <3>5 DEF ConnInv
      <3>10. \A k, l \in DOMAIN clients' : clients'[k].conn = clients'[l].conn => k = l
        BY <3>1 DEF ConnInv
      <3> QED
        BY <3>6, <3>7, <3>8, <3>9, <3>10 DEF ConnInv
    <2>3. CASE Receive(c) \/ \E cmd \in Commands : SendCommand(c, cmd)
      BY <2>3 DEF Receive, SendCommand, agentVars, ConnInv
    <2>4. CASE HangUp(c)
      <3>1. UNCHANGED <<clients, backlog>>
        BY <2>4 DEF HangUp, agentVars
      <3>2. \A d \in Conns : peer[d] # "idle" => peer'[d] # "idle"
        BY <2>4 DEF HangUp, TypeOK
      <3>3. \A n \in DOMAIN backlog : backlog[n] \in Conns
        BY DEF TypeOK
      <3> QED
        BY <3>1, <3>2, <3>3, ClientTypes DEF ConnInv
    <2> QED
      BY <2>1, <2>2, <2>3, <2>4
  <1> QED
    BY <1>1, <1>2, <1>3, <1>4, <1>5, <1>6, <1>7, StepKinds
----------------------------------------------------------------------------
(* The last snapshot under way is the table *)

(* A queue that goes through a socket: written at its end, read at its front. *)
LEMMA QueueMoves ==
    ASSUME NEW p \in Seq(Message), NEW q \in Seq(Message), NEW m \in Message
    PROVE  /\ p \o q \in Seq(Message)
           /\ p \o Append(q, m) = Append(p \o q, m)
           /\ p # <<>> => /\ Tail(p) \o q = Tail(p \o q) /\ p \o q # <<>>
                          /\ Head(p \o q) = Head(p)
           /\ q # <<>> => Append(p, Head(q)) \o Tail(q) = p \o q
  <1>1. p \o q \in Seq(Message) /\ p \o Append(q, m) = Append(p \o q, m)
    OBVIOUS
  <1>2. p # <<>> => p \o q # <<>> /\ Head(p \o q) = Head(p)
    OBVIOUS
  <1>3. p # <<>> => Tail(p) \o q = Tail(p \o q)
    OBVIOUS
  <1>4. q # <<>> => Append(p, Head(q)) \o Tail(q) = p \o q
    OBVIOUS
  <1> QED
    BY <1>1, <1>2, <1>3, <1>4

LEMMA LatestAppend ==
    ASSUME NEW q \in Seq(Message), NEW v, NEW S, NEW m \in Message,
           IF m.kind = "snapshot" THEN m.lines = S ELSE LatestIs(q, v, S)
    PROVE  LatestIs(Append(q, m), v, S)
  <1>1. PICK L \in Nat : L = Len(q) /\ DOMAIN q = 1 .. L
    OBVIOUS
  <1>2. PICK a : a = Append(q, m)
    OBVIOUS
  <1>3. DOMAIN a = DOMAIN q \cup {L + 1} /\ a[L + 1] = m /\ \A n \in DOMAIN q : a[n] = q[n]
    BY <1>1, <1>2
  <1>4. CASE m.kind = "snapshot"
    <2>1. \A n \in DOMAIN a : ~(n > L + 1)
      BY <1>1, <1>3
    <2> QED
      BY <1>2, <1>3, <1>4, <2>1 DEF LatestIs
  <1>5. CASE m.kind # "snapshot" /\ \A n \in DOMAIN q : q[n].kind # "snapshot"
    BY <1>2, <1>3, <1>5 DEF LatestIs
  <1>6. ASSUME m.kind # "snapshot",
               NEW n \in DOMAIN q, q[n].kind = "snapshot", q[n].lines = S,
               \A j \in DOMAIN q : j > n => q[j].kind # "snapshot"
        PROVE  LatestIs(Append(q, m), v, S)
    BY <1>2, <1>3, <1>6 DEF LatestIs
  <1> QED
    BY <1>4, <1>5, <1>6 DEF LatestIs

LEMMA LatestTail ==
    ASSUME NEW q \in Seq(Message), q # <<>>, NEW v, NEW S, LatestIs(q, v, S)
    PROVE  LatestIs(Tail(q), IF Head(q).kind = "snapshot" THEN Head(q).lines ELSE v, S)
  <1>1. PICK t : t = Tail(q)
    OBVIOUS
  <1>2. /\ \A n \in DOMAIN t : n \in Nat /\ n >= 1 /\ n + 1 \in DOMAIN q /\ t[n] = q[n + 1]
        /\ \A n \in DOMAIN q : n \in Nat /\ n >= 1 /\ (n # 1 => n - 1 \in DOMAIN t)
        /\ 1 \in DOMAIN q /\ Head(q) = q[1]
    BY <1>1
  <1>3. CASE \A n \in DOMAIN q : q[n].kind # "snapshot"
    <2>1. v = S
      BY <1>2, <1>3 DEF LatestIs
    <2> QED
      BY <1>1, <1>2, <1>3, <2>1 DEF LatestIs
  <1>4. ASSUME NEW n \in DOMAIN q, q[n].kind = "snapshot", q[n].lines = S,
               \A j \in DOMAIN q : j > n => q[j].kind # "snapshot"
        PROVE  LatestIs(Tail(q), IF Head(q).kind = "snapshot" THEN Head(q).lines ELSE v, S)
    <2>1. CASE n = 1
      <3>1. \A j \in DOMAIN t : j + 1 > 1
        BY <1>2
      <3>2. \A j \in DOMAIN t : t[j].kind # "snapshot"
        BY <1>2, <1>4, <2>1, <3>1
      <3> QED
        BY <1>1, <1>2, <1>4, <2>1, <3>2 DEF LatestIs
    <2>2. CASE n # 1
      <3>1. n \in Nat /\ n - 1 \in DOMAIN t /\ (n - 1) + 1 = n
        BY <1>2, <2>2
      <3>2. t[n - 1] = q[n]
        BY <1>2, <3>1
      <3>3. ASSUME NEW j \in DOMAIN t, j > n - 1 PROVE t[j].kind # "snapshot"
        <4>1. j \in Nat /\ j + 1 \in DOMAIN q /\ t[j] = q[j + 1]
          BY <1>2
        <4>2. j + 1 > n
          BY <3>1, <3>3, <4>1
        <4> QED
          BY <1>4, <4>1, <4>2
      <3> QED
        BY <1>1, <1>4, <3>1, <3>2, <3>3 DEF LatestIs
    <2> QED
      BY <2>1, <2>2
  <1> QED
    BY <1>3, <1>4 DEF LatestIs

(* What SubscribersCurrent says of one client. *)
Current(k) == clients[k].subscribed /\ peer[clients[k].conn] = "open"
                => LatestIs(Queued(k), view[clients[k].conn], SnapshotLines)

LEMMA QueuedType ==
    ASSUME TypeOK, NEW k \in DOMAIN clients
    PROVE  /\ toPeer[clients[k].conn] \in Seq(Message)
           /\ Queued(k) \in Seq(Message)
  BY ClientTypes DEF TypeOK, Queued

LEMMA QueuedAppend ==
    ASSUME TypeOK, NEW k \in DOMAIN clients, NEW m \in Message, UNCHANGED toPeer,
           clients'[k].conn = clients[k].conn,
           clients'[k].output = Append(clients[k].output, m)
    PROVE  Queued(k)' = Append(Queued(k), m)
  <1>1. PICK p, q : p = toPeer[clients[k].conn] /\ q = clients[k].output
    OBVIOUS
  <1>2. p \in Seq(Message) /\ q \in Seq(Message)
    BY <1>1, QueuedType, ClientTypes
  <1>3. p \o Append(q, m) = Append(p \o q, m)
    BY <1>2, QueueMoves
  <1> QED
    BY <1>1, <1>3 DEF Queued

(* A client that nothing happened to, wherever it is in the vector now. *)
LEMMA CurrentKept ==
    ASSUME NEW k, NEW j, Current(k), UNCHANGED tasks,
           clients'[j] = clients[k],
           peer'[clients[k].conn] = "open" => peer[clients[k].conn] = "open",
           toPeer'[clients[k].conn] = toPeer[clients[k].conn],
           view'[clients[k].conn] = view[clients[k].conn]
    PROVE  Current(j)'
  <1>1. SnapshotLines' = SnapshotLines
    BY DEF SnapshotLines
  <1>2. Queued(j)' = Queued(k)
    BY DEF Queued
  <1> QED
    BY <1>1, <1>2 DEF Current

LEMMA CurrentStep ==
    ASSUME TypeOK, ConnInv, SubscribersCurrent, [Next]_vars
    PROVE  SubscribersCurrent'
  <1> SUFFICES ASSUME ~changed', NEW j \in DOMAIN clients' PROVE Current(j)'
    BY DEF SubscribersCurrent, Current
  <1>0. ~changed => \A k \in DOMAIN clients : Current(k)
    BY DEF SubscribersCurrent, Current
  <1>1. CASE Stays
    <2>1. UNCHANGED <<clients, peer, toPeer, view, tasks, changed>>
      BY <1>1 DEF Stays, clientVars
    <2> QED
      BY <1>0, <2>1, CurrentKept
  <1>2. CASE HangsUp
    <2>1. UNCHANGED <<clients, toPeer, view, tasks, changed>>
      BY <1>2 DEF HangsUp
    <2>2. \A c \in Conns : peer'[c] # "open"
      BY <1>2 DEF HangsUp, HangUpOnAll
    <2> QED
      BY <2>1, <2>2, ClientTypes DEF Current
  <1>3. CASE PreparePoll /\ UNCHANGED peerVars
    <2>1. UNCHANGED <<tasks, peer, toPeer, view>>
      BY <1>3 DEF PreparePoll, peerVars
    <2>2. CASE ~changed
      <3>1. UNCHANGED clients
        BY <1>3, <2>2 DEF PreparePoll
      <3> QED
        BY <1>0, <2>1, <2>2, <3>1, CurrentKept
    <2>3. CASE changed
      <3>1. clients' = [k \in DOMAIN clients |->
                          IF clients[k].subscribed
                          THEN [clients[k] EXCEPT !.output = Append(@, SnapshotMessage(FALSE))]
                          ELSE clients[k]]
        BY <1>3, <2>3 DEF PreparePoll, broadcast_snapshot
      <3>2. j \in DOMAIN clients
        BY <3>1
      <3>3. CASE ~clients[j].subscribed
        BY <3>1, <3>2, <3>3 DEF Current
      <3>4. CASE clients[j].subscribed
        <4>1. PICK m \in Message : m = SnapshotMessage(FALSE)
          BY SnapshotType
        <4>2. m.kind = "snapshot" /\ m.lines = SnapshotLines
          BY <4>1 DEF SnapshotMessage
        <4>3. /\ clients'[j].conn = clients[j].conn
              /\ clients'[j].output = Append(clients[j].output, m)
          BY <3>1, <3>2, <3>4, <4>1, ClientTypes DEF Client
        <4>4. Queued(j)' = Append(Queued(j), m)
          BY <2>1, <3>2, <4>3, QueuedAppend
        <4>5. SnapshotLines' = SnapshotLines
          BY <2>1 DEF SnapshotLines
        <4>6. LatestIs(Append(Queued(j), m), view[clients[j].conn], SnapshotLines)
          BY <3>2, <4>2, QueuedType, LatestAppend
        <4> QED
          BY <2>1, <4>3, <4>4, <4>5, <4>6 DEF Current
      <3> QED
        BY <3>3, <3>4
    <2> QED
      BY <2>2, <2>3
  <1>4. CASE accept_client
    <2>1. UNCHANGED <<tasks, changed, peer, toPeer, view>>
      BY <1>4 DEF accept_client
    <2>2. PICK L \in Nat : /\ DOMAIN clients' = DOMAIN clients \cup {L}
                           /\ ~clients'[L].subscribed
                           /\ \A k \in DOMAIN clients : clients'[k] = clients[k]
      BY <1>4, AcceptedClient
    <2>3. CASE j = L
      BY <2>2, <2>3 DEF Current
    <2>4. CASE j \in DOMAIN clients
      BY <1>0, <2>1, <2>2, <2>4, CurrentKept
    <2> QED
      BY <2>2, <2>3, <2>4
  <1>5. ASSUME NEW k \in DOMAIN clients, Closes(k) PROVE Current(j)'
    <2>1. clients' = Erase(clients, k) /\ UNCHANGED <<tasks, changed, toPeer, view>>
      BY <1>5 DEF Closes, close_client
    <2>2. Moved(j, k) \in DOMAIN clients \ {k} /\ clients'[j] = clients[Moved(j, k)]
      BY <2>1, ErasedClients
    <2>3. clients[Moved(j, k)].conn # clients[k].conn
      BY <2>2 DEF ConnInv
    <2>4. peer'[clients[Moved(j, k)].conn] = peer[clients[Moved(j, k)].conn]
      BY <1>5, <2>2, <2>3, ClientTypes DEF Closes, close_client, TypeOK
    <2>5. Current(Moved(j, k))
      BY <1>0, <2>1, <2>2
    <2> QED
      BY <2>1, <2>2, <2>4, <2>5, CurrentKept
  <1>6. ASSUME NEW k \in DOMAIN clients, Skips(k) PROVE Current(j)'
    <2>1. UNCHANGED <<clients, peer, toPeer, view, tasks, changed>>
      BY <1>6 DEF Skips, Reads
    <2> QED
      BY <1>0, <2>1, CurrentKept
  <1>7. ASSUME NEW k \in DOMAIN clients, NEW m \in Message, Replies(k, m) PROVE Current(j)'
    <2>1. UNCHANGED <<tasks, changed, peer, toPeer, view>> /\ DOMAIN clients' = DOMAIN clients
      BY <1>7 DEF Replies, Reads, Changes
    <2>2. CASE j # k
      <3>1. clients'[j] = clients[j]
        BY <1>7, <2>1, <2>2 DEF Replies, Changes
      <3> QED
        BY <1>0, <2>1, <3>1, CurrentKept
    <2>3. CASE j = k
      <3>1. /\ clients'[k].conn = clients[k].conn
            /\ clients'[k].output = Append(clients[k].output, m)
            /\ m.kind = "snapshot" => m.lines = SnapshotLines
            /\ m.kind # "snapshot" => clients'[k].subscribed = clients[k].subscribed
        BY <1>7 DEF Replies, Changes
      <3>2. Queued(k)' = Append(Queued(k), m)
        BY <2>1, <3>1, QueuedAppend
      <3>3. SnapshotLines' = SnapshotLines
        BY <2>1 DEF SnapshotLines
      <3>4. CASE m.kind = "snapshot"
        <4>1. LatestIs(Append(Queued(k), m), view[clients[k].conn], SnapshotLines)
          BY <3>1, <3>4, QueuedType, LatestAppend
        <4> QED
          BY <2>1, <2>3, <3>1, <3>2, <3>3, <4>1 DEF Current
      <3>5. CASE m.kind # "snapshot" /\ clients[k].subscribed /\ peer[clients[k].conn] = "open"
        <4>1. LatestIs(Queued(k), view[clients[k].conn], SnapshotLines)
          BY <1>0, <2>1, <3>5 DEF Current
        <4>2. LatestIs(Append(Queued(k), m), view[clients[k].conn], SnapshotLines)
          BY <3>5, <4>1, QueuedType, LatestAppend
        <4> QED
          BY <2>1, <2>3, <3>1, <3>2, <3>3, <4>2 DEF Current
      <3>6. CASE m.kind # "snapshot" /\ ~(clients[k].subscribed /\ peer[clients[k].conn] = "open")
        BY <2>1, <2>3, <3>1, <3>6 DEF Current
      <3> QED
        BY <3>4, <3>5, <3>6
    <2> QED
      BY <2>2, <2>3
  <1>8. ASSUME NEW k \in DOMAIN clients, Writes(k) PROVE Current(j)'
    <2>1. UNCHANGED <<tasks, changed, peer, view>> /\ DOMAIN clients' = DOMAIN clients
      BY <1>8 DEF Writes, Changes
    <2>2. CASE j # k
      <3>1. clients'[j] = clients[j] /\ clients[j].conn # clients[k].conn
        BY <1>8, <2>1, <2>2 DEF Writes, Changes, ConnInv
      <3>2. toPeer'[clients[j].conn] = toPeer[clients[j].conn]
        BY <1>8, <2>1, <3>1, ClientTypes DEF Writes
      <3> QED
        BY <1>0, <2>1, <3>1, <3>2, CurrentKept
    <2>3. CASE j = k
      <3>1. PICK c : c = clients[k].conn
        OBVIOUS
      <3>2. /\ clients'[k].conn = c /\ clients'[k].subscribed = clients[k].subscribed
            /\ clients[k].output # <<>> /\ clients'[k].output = Tail(clients[k].output)
            /\ toPeer'[c] = Append(toPeer[c], Head(clients[k].output))
        BY <1>8, <3>1 DEF Writes, Changes
      <3>3. Queued(k)' = Queued(k)
        <4>1. toPeer[c] \in Seq(Message) /\ clients[k].output \in Seq(Message)
          BY <3>1, QueuedType, ClientTypes
        <4>2. Head(clients[k].output) \in Message
          BY <3>2, <4>1
        <4>3. Append(toPeer[c], Head(clients[k].output)) \o Tail(clients[k].output)
                = toPeer[c] \o clients[k].output
          BY <3>2, <4>1, <4>2, QueueMoves
        <4> QED
          BY <3>1, <3>2, <4>3 DEF Queued
      <3>4. SnapshotLines' = SnapshotLines
        BY <2>1 DEF SnapshotLines
      <3> QED
        BY <1>0, <2>1, <2>3, <3>1, <3>2, <3>3, <3>4 DEF Current
    <2> QED
      BY <2>2, <2>3
  <1>9. CASE PeerStep
    <2>1. UNCHANGED <<tasks, changed, clients>>
      BY <1>9 DEF PeerStep, Connect, Receive, HangUp, SendCommand, agentVars
    <2>2. Current(j) /\ j \in DOMAIN clients /\ clients[j].conn \in Conns
      BY <1>0, <2>1, ClientTypes
    <2>3. PICK c \in Conns : \/ Connect(c) \/ Receive(c) \/ HangUp(c)
                             \/ \E cmd \in Commands : SendCommand(c, cmd)
      BY <1>9 DEF PeerStep
    <2>4. CASE Connect(c)
      <3>1. UNCHANGED <<toPeer, view>> /\ clients[j].conn # c
        BY <2>2, <2>4 DEF Connect, ConnInv
      <3>2. peer'[clients[j].conn] = peer[clients[j].conn]
        BY <2>2, <2>4, <3>1 DEF Connect, TypeOK
      <3> QED
        BY <2>1, <2>2, <3>1, <3>2, CurrentKept
    <2>5. CASE \E cmd \in Commands : SendCommand(c, cmd)
      <3>1. UNCHANGED <<peer, toPeer, view>>
        BY <2>5 DEF SendCommand
      <3> QED
        BY <2>1, <2>2, <3>1, CurrentKept
    <2>6. CASE (HangUp(c) \/ Receive(c)) /\ clients[j].conn # c
      <3>1. /\ peer'[clients[j].conn] = peer[clients[j].conn]
            /\ toPeer'[clients[j].conn] = toPeer[clients[j].conn]
            /\ view'[clients[j].conn] = view[clients[j].conn]
        BY <2>2, <2>6 DEF HangUp, Receive, TypeOK
      <3> QED
        BY <2>1, <2>2, <3>1, CurrentKept
    <2>7. CASE HangUp(c) /\ clients[j].conn = c
      <3>1. peer'[c] = "gone"
        BY <2>7 DEF HangUp, TypeOK
      <3> QED
        BY <2>1, <2>7, <3>1 DEF Current
    <2>8. CASE Receive(c) /\ clients[j].conn = c
      <3>1. toPeer[c] # <<>> /\ UNCHANGED peer
        BY <2>8 DEF Receive
      <3>2. /\ toPeer'[c] = Tail(toPeer[c])
            /\ view'[c] = IF Head(toPeer[c]).kind = "snapshot" THEN Head(toPeer[c]).lines ELSE view[c]
        BY <2>8 DEF Receive, TypeOK
      <3>3. /\ toPeer[c] \in Seq(Message) /\ clients[j].output \in Seq(Message)
            /\ Queued(j) \in Seq(Message)
        BY <2>2, <2>8, QueuedType, ClientTypes
      <3>4. Head(toPeer[c]) \in Message
        BY <3>1, <3>3
      <3>5. /\ Queued(j)' = Tail(Queued(j)) /\ Queued(j) # <<>>
            /\ Head(Queued(j)) = Head(toPeer[c])
        <4>1. /\ Tail(toPeer[c]) \o clients[j].output = Tail(toPeer[c] \o clients[j].output)
              /\ toPeer[c] \o clients[j].output # <<>>
              /\ Head(toPeer[c] \o clients[j].output) = Head(toPeer[c])
          BY <3>1, <3>3, <3>4, QueueMoves
        <4> QED
          BY <2>1, <2>8, <3>2, <4>1 DEF Queued
      <3>6. SnapshotLines' = SnapshotLines
        BY <2>1 DEF SnapshotLines
      <3>7. CASE clients[j].subscribed /\ peer[c] = "open"
        <4>1. LatestIs(Queued(j), view[c], SnapshotLines)
          BY <2>2, <2>8, <3>7 DEF Current
        <4>2. LatestIs(Tail(Queued(j)), view'[c], SnapshotLines)
          BY <3>2, <3>3, <3>5, <4>1, LatestTail
        <4> QED
          BY <2>1, <2>8, <3>5, <3>6, <4>2 DEF Current
      <3>8. CASE ~(clients[j].subscribed /\ peer[c] = "open")
        BY <2>1, <2>8, <3>1, <3>8 DEF Current
      <3> QED
        BY <3>7, <3>8
    <2> QED
      BY <2>3, <2>4, <2>5, <2>6, <2>7, <2>8
  <1> QED
    BY <1>1, <1>2, <1>3, <1>4, <1>5, <1>6, <1>7, <1>8, <1>9, StepKinds

----------------------------------------------------------------------------
(* Every command is answered once *)

Asks(q) == Cardinality({n \in DOMAIN q : HasAnswer(q[n])})

LEMMA AnswersMove ==
    ASSUME NEW q \in Seq(Message)
    PROVE  /\ Answers(q) \in Nat
           /\ \A m \in Message : Answers(Append(q, m)) = Answers(q) + IF m.reply THEN 1 ELSE 0
           /\ q # <<>> => Answers(q) = Answers(Tail(q)) + IF Head(q).reply THEN 1 ELSE 0
  <1>1. PICK P : P = {m \in Message : m.reply}
    OBVIOUS
  <1>2. ASSUME NEW s \in Seq(Message) PROVE Answers(s) = Cardinality(Those(s, P))
    <2>1. \A n \in DOMAIN s : s[n] \in Message
      BY <1>2
    <2>2. {n \in DOMAIN s : s[n].reply} = Those(s, P)
      BY <1>1, <2>1 DEF Those
    <2> QED
      BY <2>2 DEF Answers
  <1>3. Answers(q) \in Nat
    BY <1>2, ThoseFinite
  <1>4. ASSUME NEW m \in Message
        PROVE  Answers(Append(q, m)) = Answers(q) + IF m.reply THEN 1 ELSE 0
    <2>1. Append(q, m) \in Seq(Message)
      OBVIOUS
    <2>2. Cardinality(Those(Append(q, m), P)) = Cardinality(Those(q, P)) + IF m \in P THEN 1 ELSE 0
      BY CountAppend
    <2>3. m \in P <=> m.reply
      BY <1>1
    <2> QED
      BY <1>2, <2>1, <2>2, <2>3
  <1>5. ASSUME q # <<>>
        PROVE  Answers(q) = Answers(Tail(q)) + IF Head(q).reply THEN 1 ELSE 0
    <2>1. Tail(q) \in Seq(Message) /\ Head(q) \in Message
      BY <1>5
    <2>2. Cardinality(Those(q, P)) = Cardinality(Those(Tail(q), P)) + IF Head(q) \in P THEN 1 ELSE 0
      BY <1>5, CountTail
    <2>3. Head(q) \in P <=> Head(q).reply
      BY <1>1, <2>1
    <2> QED
      BY <1>2, <2>1, <2>2, <2>3
  <1> QED
    BY <1>3, <1>4, <1>5

LEMMA AsksMove ==
    ASSUME NEW q \in Seq(Command)
    PROVE  /\ Asks(q) \in Nat
           /\ \A x \in Command : Asks(Append(q, x)) = Asks(q) + IF HasAnswer(x) THEN 1 ELSE 0
           /\ q # <<>> => Asks(q) = Asks(Tail(q)) + IF HasAnswer(Head(q)) THEN 1 ELSE 0
  <1>1. PICK P : P = {x \in Command : HasAnswer(x)}
    OBVIOUS
  <1>2. ASSUME NEW s \in Seq(Command) PROVE Asks(s) = Cardinality(Those(s, P))
    <2>1. \A n \in DOMAIN s : s[n] \in Command
      BY <1>2
    <2>2. {n \in DOMAIN s : HasAnswer(s[n])} = Those(s, P)
      BY <1>1, <2>1 DEF Those
    <2> QED
      BY <2>2 DEF Asks
  <1>3. Asks(q) \in Nat
    BY <1>2, ThoseFinite
  <1>4. ASSUME NEW x \in Command
        PROVE  Asks(Append(q, x)) = Asks(q) + IF HasAnswer(x) THEN 1 ELSE 0
    <2>1. Append(q, x) \in Seq(Command)
      OBVIOUS
    <2>2. Cardinality(Those(Append(q, x), P)) = Cardinality(Those(q, P)) + IF x \in P THEN 1 ELSE 0
      BY CountAppend
    <2>3. x \in P <=> HasAnswer(x)
      BY <1>1
    <2> QED
      BY <1>2, <2>1, <2>2, <2>3
  <1>5. ASSUME q # <<>>
        PROVE  Asks(q) = Asks(Tail(q)) + IF HasAnswer(Head(q)) THEN 1 ELSE 0
    <2>1. Tail(q) \in Seq(Command) /\ Head(q) \in Command
      BY <1>5
    <2>2. Cardinality(Those(q, P)) = Cardinality(Those(Tail(q), P)) + IF Head(q) \in P THEN 1 ELSE 0
      BY <1>5, CountTail
    <2>3. Head(q) \in P <=> HasAnswer(Head(q))
      BY <1>1, <2>1
    <2> QED
      BY <1>2, <2>1, <2>2, <2>3
  <1> QED
    BY <1>3, <1>4, <1>5

LEMMA NoneCounted == Answers(<<>>) = 0 /\ Asks(<<>>) = 0
  <1>1. DOMAIN <<>> = {}
    OBVIOUS
  <1>2. Cardinality({}) = 0
    BY FS_EmptySet
  <1>3. {n \in DOMAIN <<>> : <<>>[n].reply} = {} /\ {n \in DOMAIN <<>> : HasAnswer(<<>>[n])} = {}
    BY <1>1
  <1> QED
    BY <1>2, <1>3 DEF Answers, Asks

(* The output of connection c among the clients v. *)
OutputIn(v, c) ==
    IF \E k \in DOMAIN v : v[k].conn = c
    THEN v[CHOOSE k \in DOMAIN v : v[k].conn = c].output
    ELSE <<>>

OneEach(v) == \A k, l \in DOMAIN v : v[k].conn = v[l].conn => k = l

LEMMA OutputIs ==
    ASSUME NEW v, OneEach(v), NEW k \in DOMAIN v
    PROVE  OutputIn(v, v[k].conn) = v[k].output
  <1>1. PICK l : l = CHOOSE j \in DOMAIN v : v[j].conn = v[k].conn
    OBVIOUS
  <1>2. l \in DOMAIN v /\ v[l].conn = v[k].conn
    BY <1>1
  <1>3. l = k
    BY <1>2 DEF OneEach
  <1> QED
    BY <1>1, <1>3 DEF OutputIn

LEMMA OutputNow ==
    ASSUME ConnInv, ConnInv', NEW c
    PROVE  /\ \A k \in DOMAIN clients : clients[k].conn = c => OutputOf(c) = clients[k].output
           /\ \A k \in DOMAIN clients' : clients'[k].conn = c => OutputOf(c)' = clients'[k].output
           /\ (\A k \in DOMAIN clients : clients[k].conn # c) => OutputOf(c) = <<>>
           /\ (\A k \in DOMAIN clients' : clients'[k].conn # c) => OutputOf(c)' = <<>>
  <1>1. OutputOf(c) = OutputIn(clients, c)
    BY DEF OutputOf, OutputIn
  <1>2. OutputOf(c)' = OutputIn(clients', c)
    BY DEF OutputOf, OutputIn
  <1>3. OneEach(clients) /\ OneEach(clients')
    BY DEF ConnInv, OneEach
  <1>4. /\ (\A k \in DOMAIN clients : clients[k].conn # c) => OutputIn(clients, c) = <<>>
        /\ (\A k \in DOMAIN clients' : clients'[k].conn # c) => OutputIn(clients', c) = <<>>
    BY DEF OutputIn
  <1>5. \A k \in DOMAIN clients : OutputIn(clients, clients[k].conn) = clients[k].output
    BY <1>3, OutputIs
  <1>6. \A k \in DOMAIN clients' : OutputIn(clients', clients'[k].conn) = clients'[k].output
    BY <1>3, OutputIs
  <1> QED
    BY <1>1, <1>2, <1>4, <1>5, <1>6

(* What OneAnswerPerCommand says of one connection. *)
Balanced(c) == peer[c] = "open" =>
    asked[c] = answered[c] + Answers(toPeer[c]) + Answers(OutputOf(c)) + Asks(toAgent[c])

(* A connection that was not made yet is unused. *)
Fresh(c) == peer[c] = "idle" =>
    asked[c] = 0 /\ answered[c] = 0 /\ toPeer[c] = <<>> /\ toAgent[c] = <<>>

AnswerInv == \A c \in Conns : Balanced(c) /\ Fresh(c)

LEMMA SocketTypes ==
    ASSUME TypeOK, NEW c \in Conns
    PROVE  /\ toPeer[c] \in Seq(Message) /\ toAgent[c] \in Seq(Command)
           /\ asked[c] \in Nat /\ answered[c] \in Nat
           /\ Answers(toPeer[c]) \in Nat /\ Asks(toAgent[c]) \in Nat
           /\ OutputOf(c) \in Seq(Message) /\ Answers(OutputOf(c)) \in Nat
  <1>1. /\ toPeer[c] \in Seq(Message) /\ toAgent[c] \in Seq(Command)
        /\ asked[c] \in Nat /\ answered[c] \in Nat
    BY DEF TypeOK
  <1>2. OutputOf(c) \in Seq(Message)
    <2>1. CASE \E k \in DOMAIN clients : clients[k].conn = c
      <3>1. PICK k \in DOMAIN clients : OutputOf(c) = clients[k].output
        BY <2>1 DEF OutputOf
      <3> QED
        BY <3>1, ClientTypes
    <2>2. CASE ~\E k \in DOMAIN clients : clients[k].conn = c
      <3>1. OutputOf(c) = <<>>
        BY <2>2 DEF OutputOf
      <3> QED
        BY <3>1
    <2> QED
      BY <2>1, <2>2
  <1> QED
    BY <1>1, <1>2, AnswersMove, AsksMove

LEMMA BalancedKept ==
    ASSUME NEW c, Balanced(c), Fresh(c), Answers(OutputOf(c)') = Answers(OutputOf(c)),
           peer'[c] = "open" => peer[c] = "open",
           peer'[c] = "idle" => peer[c] = "idle",
           asked'[c] = asked[c], answered'[c] = answered[c],
           toPeer'[c] = toPeer[c], toAgent'[c] = toAgent[c]
    PROVE  Balanced(c)' /\ Fresh(c)'
  <1>1. Answers(OutputOf(c))' = Answers(OutputOf(c))
    OBVIOUS
  <1>2. Answers(toPeer[c])' = Answers(toPeer[c]) /\ Asks(toAgent[c])' = Asks(toAgent[c])
    BY DEF Answers, Asks, HasAnswer
  <1> QED
    BY <1>1, <1>2 DEF Balanced, Fresh

LEMMA Rebalanced ==
    ASSUME NEW c, peer'[c] # "idle",
           peer'[c] = "open" =>
             asked'[c] = answered'[c] + Answers(toPeer'[c]) + Answers(OutputOf(c)')
                           + Asks(toAgent'[c])
    PROVE  Balanced(c)' /\ Fresh(c)'
  <1>1. Answers(OutputOf(c))' = Answers(OutputOf(c)')
    OBVIOUS
  <1>2. Answers(toPeer[c])' = Answers(toPeer'[c]) /\ Asks(toAgent[c])' = Asks(toAgent'[c])
    BY DEF Answers, Asks, HasAnswer
  <1> QED
    BY <1>1, <1>2 DEF Balanced, Fresh

(* Closing one connection leaves the output of the others. *)
LEMMA OutputKept ==
    ASSUME TypeOK, ConnInv, ConnInv', NEW k \in DOMAIN clients, Closes(k),
           NEW c \in Conns, c # clients[k].conn
    PROVE  OutputOf(c)' = OutputOf(c)
  <1>1. clients' = Erase(clients, k)
    BY DEF Closes, close_client
  <1>2. CASE \E n \in DOMAIN clients : clients[n].conn = c
    <2>1. PICK n \in DOMAIN clients \ {k} : clients[n].conn = c
      BY <1>2
    <2>2. PICK j \in DOMAIN clients' : clients'[j] = clients[n]
      BY <1>1, ErasedClients
    <2> QED
      BY <2>1, <2>2, OutputNow
  <1>3. CASE \A n \in DOMAIN clients : clients[n].conn # c
    <2>1. \A j \in DOMAIN clients' : clients'[j].conn # c
      BY <1>1, <1>3, ErasedClients
    <2> QED
      BY <1>3, <2>1, OutputNow
  <1> QED
    BY <1>2, <1>3

LEMMA OthersKept ==
    ASSUME TypeOK, ConnInv, ConnInv', NEW k \in DOMAIN clients, Changes(k),
           NEW c \in Conns, c # clients[k].conn
    PROVE  OutputOf(c)' = OutputOf(c)
  <1>1. /\ DOMAIN clients' = DOMAIN clients /\ clients'[k].conn = clients[k].conn
        /\ \A j \in DOMAIN clients \ {k} : clients'[j] = clients[j]
    BY DEF Changes
  <1>2. CASE \E n \in DOMAIN clients : clients[n].conn = c
    <2>1. PICK n \in DOMAIN clients \ {k} : clients[n].conn = c
      BY <1>2
    <2> QED
      BY <1>1, <2>1, OutputNow
  <1>3. CASE \A n \in DOMAIN clients : clients[n].conn # c
    <2>1. \A j \in DOMAIN clients' : clients'[j].conn # c
      BY <1>1, <1>3
    <2> QED
      BY <1>3, <2>1, OutputNow
  <1> QED
    BY <1>2, <1>3

LEMMA AnswerStep == ASSUME TypeOK, ConnInv, ConnInv', AnswerInv, [Next]_vars PROVE AnswerInv'
  <1> SUFFICES ASSUME NEW c \in Conns PROVE Balanced(c)' /\ Fresh(c)'
    BY DEF AnswerInv
  <1>0. Balanced(c) /\ Fresh(c)
    BY DEF AnswerInv
  <1>1. CASE Stays
    <2>1. OutputOf(c)' = OutputOf(c) /\ UNCHANGED <<peer, toAgent, toPeer, asked, answered>>
      BY <1>1 DEF Stays, clientVars, OutputOf
    <2> QED
      BY <1>0, <2>1, BalancedKept
  <1>2. CASE HangsUp
    <2>1. /\ UNCHANGED <<clients, toAgent, toPeer, asked, answered>>
          /\ peer'[c] # "open" /\ (peer'[c] = "idle" => peer[c] = "idle")
      BY <1>2 DEF HangsUp, HangUpOnAll
    <2> QED
      BY <1>0, <2>1 DEF Balanced, Fresh
  <1>3. CASE PreparePoll /\ UNCHANGED peerVars
    <2>1. UNCHANGED <<peer, toAgent, toPeer, asked, answered>>
      BY <1>3 DEF peerVars
    <2>2. CASE ~changed
      <3>1. OutputOf(c)' = OutputOf(c)
        BY <1>3, <2>2 DEF PreparePoll, OutputOf
      <3> QED
        BY <1>0, <2>1, <3>1, BalancedKept
    <2>3. CASE changed
      <3>1. clients' = [k \in DOMAIN clients |->
                          IF clients[k].subscribed
                          THEN [clients[k] EXCEPT !.output = Append(@, SnapshotMessage(FALSE))]
                          ELSE clients[k]]
        BY <1>3, <2>3 DEF PreparePoll, broadcast_snapshot
      <3>2. PICK m \in Message : m = SnapshotMessage(FALSE) /\ ~m.reply
        BY SnapshotType DEF SnapshotMessage
      <3>3. ASSUME NEW k \in DOMAIN clients
            PROVE  /\ clients'[k].conn = clients[k].conn
                   /\ \/ clients'[k].output = clients[k].output
                      \/ clients'[k].output = Append(clients[k].output, m)
        <4>1. CASE clients[k].subscribed
          BY <3>1, <3>2, <4>1, ClientTypes DEF Client
        <4>2. CASE ~clients[k].subscribed
          BY <3>1, <4>2
        <4> QED
          BY <4>1, <4>2
      <3>4. DOMAIN clients' = DOMAIN clients
        BY <3>1
      <3>5. OutputOf(c)' = OutputOf(c) \/ OutputOf(c)' = Append(OutputOf(c), m)
        BY <3>3, <3>4, OutputNow
      <3>6. Answers(Append(OutputOf(c), m)) = Answers(OutputOf(c)) + 0
        BY <3>2, SocketTypes, AnswersMove
      <3>7. Answers(OutputOf(c)') = Answers(OutputOf(c))
        <4>1. Answers(OutputOf(c)) + 0 = Answers(OutputOf(c))
          BY SocketTypes
        <4>2. CASE OutputOf(c)' = OutputOf(c)
          BY <4>2
        <4>3. CASE OutputOf(c)' = Append(OutputOf(c), m)
          BY <3>6, <4>1, <4>3
        <4> QED
          BY <3>5, <4>2, <4>3
      <3> QED
        BY <1>0, <2>1, <3>7, BalancedKept
    <2> QED
      BY <2>2, <2>3
  <1>4. CASE accept_client
    <2>1. UNCHANGED <<peer, toAgent, toPeer, asked, answered>> /\ backlog # <<>>
      BY <1>4 DEF accept_client
    <2>2. PICK L \in Nat : /\ DOMAIN clients' = DOMAIN clients \cup {L}
                           /\ clients'[L].conn = Head(backlog) /\ clients'[L].output = <<>>
                           /\ \A j \in DOMAIN clients : clients'[j] = clients[j]
      BY <1>4, AcceptedClient
    <2>3. \A k \in DOMAIN clients : clients[k].conn # Head(backlog)
      <3>1. 1 \in DOMAIN backlog /\ Head(backlog) = backlog[1]
        BY <1>4, BacklogTail DEF accept_client
      <3> QED
        BY <3>1 DEF ConnInv
    <2>4. CASE c = Head(backlog)
      <3>1. OutputOf(c) = <<>> /\ OutputOf(c)' = <<>>
        BY <2>2, <2>3, <2>4, OutputNow
      <3> QED
        BY <1>0, <2>1, <3>1, BalancedKept
    <2>5. CASE c # Head(backlog) /\ \E k \in DOMAIN clients : clients[k].conn = c
      <3>1. OutputOf(c)' = OutputOf(c)
        BY <2>2, <2>5, OutputNow
      <3> QED
        BY <1>0, <2>1, <3>1, BalancedKept
    <2>6. CASE c # Head(backlog) /\ \A k \in DOMAIN clients : clients[k].conn # c
      <3>1. OutputOf(c)' = <<>> /\ OutputOf(c) = <<>>
        BY <2>2, <2>6, OutputNow
      <3> QED
        BY <1>0, <2>1, <3>1, BalancedKept
    <2> QED
      BY <2>4, <2>5, <2>6
  <1>5. ASSUME NEW k \in DOMAIN clients, Closes(k) PROVE Balanced(c)' /\ Fresh(c)'
    <2>1. UNCHANGED <<toPeer, asked, answered>>
      BY <1>5 DEF Closes
    <2>2. CASE c # clients[k].conn
      <3>1. peer'[c] = peer[c]
        BY <1>5, <2>2 DEF Closes, close_client, TypeOK
      <3>2. toAgent'[c] = toAgent[c] /\ OutputOf(c)' = OutputOf(c)
        BY <1>5, <2>2, OutputKept DEF Closes
      <3> QED
        BY <1>0, <2>1, <3>1, <3>2, BalancedKept
    <2>3. CASE c = clients[k].conn
      <3>1. peer[c] # "idle"
        BY <2>3 DEF ConnInv
      <3>2. peer'[c] # "open" /\ peer'[c] # "idle"
        BY <1>5, <2>3, <3>1 DEF Closes, close_client, TypeOK
      <3> QED
        BY <3>2 DEF Balanced, Fresh
    <2> QED
      BY <2>2, <2>3
  <1>6. ASSUME NEW k \in DOMAIN clients, Skips(k) PROVE Balanced(c)' /\ Fresh(c)'
    <2>1. UNCHANGED <<peer, clients, toPeer, asked, answered>>
      BY <1>6 DEF Skips, Reads
    <2>2. OutputOf(c)' = OutputOf(c)
      BY <2>1 DEF OutputOf
    <2>3. CASE c # clients[k].conn
      <3>1. toAgent'[c] = toAgent[c]
        BY <1>6, <2>3 DEF Skips, Reads
      <3> QED
        BY <1>0, <2>1, <2>2, <3>1, BalancedKept
    <2>4. CASE c = clients[k].conn
      <3>1. toAgent[c] # <<>> /\ toAgent'[c] = Tail(toAgent[c]) /\ ~HasAnswer(Head(toAgent[c]))
        BY <1>6, <2>4 DEF Skips, Reads
      <3>2. Asks(toAgent[c]) = Asks(Tail(toAgent[c])) + 0
        BY <3>1, SocketTypes, AsksMove
      <3>3. Tail(toAgent[c]) \in Seq(Command)
        BY <3>1, SocketTypes
      <3>4. Asks(toAgent'[c]) = Asks(toAgent[c])
        <4>1. Asks(Tail(toAgent[c])) \in Nat
          BY <3>3, AsksMove
        <4>2. Asks(Tail(toAgent[c])) + 0 = Asks(Tail(toAgent[c]))
          BY <4>1
        <4> QED
          BY <3>1, <3>2, <4>2
      <3>5. peer'[c] # "idle"
        BY <2>1, <2>4 DEF ConnInv
      <3>6. Answers(OutputOf(c)') = Answers(OutputOf(c))
        BY <2>2
      <3>7. CASE peer[c] = "open"
        <4>1. asked[c] = answered[c] + Answers(toPeer[c]) + Answers(OutputOf(c)) + Asks(toAgent[c])
          BY <1>0, <3>7 DEF Balanced
        <4> QED
          BY <2>1, <3>4, <3>5, <3>6, <4>1, Rebalanced
      <3> QED
        BY <2>1, <3>5, <3>7, Rebalanced
    <2> QED
      BY <2>3, <2>4
  <1>7. ASSUME NEW k \in DOMAIN clients, NEW m \in Message, Replies(k, m)
        PROVE  Balanced(c)' /\ Fresh(c)'
    <2>1. UNCHANGED <<peer, toPeer, asked, answered>>
      BY <1>7 DEF Replies, Reads
    <2>2. CASE c # clients[k].conn
      <3>1. toAgent'[c] = toAgent[c] /\ Changes(k)
        BY <1>7, <2>2 DEF Replies, Reads
      <3>2. OutputOf(c)' = OutputOf(c)
        BY <2>2, <3>1, OthersKept
      <3> QED
        BY <1>0, <2>1, <3>1, <3>2, BalancedKept
    <2>3. CASE c = clients[k].conn
      <3>1. toAgent[c] # <<>> /\ toAgent'[c] = Tail(toAgent[c]) /\ HasAnswer(Head(toAgent[c]))
        BY <1>7, <2>3 DEF Replies, Reads
      <3>2. Asks(toAgent[c]) = Asks(Tail(toAgent[c])) + 1
        BY <3>1, SocketTypes, AsksMove
      <3>3. Tail(toAgent[c]) \in Seq(Command)
        BY <3>1, SocketTypes
      <3>4. Asks(toAgent'[c]) \in Nat /\ Asks(toAgent[c]) = Asks(toAgent'[c]) + 1
        BY <3>1, <3>2, <3>3, AsksMove
      <3>5. OutputOf(c) = clients[k].output /\ OutputOf(c)' = Append(clients[k].output, m) /\ m.reply
        BY <1>7, <2>3, OutputNow DEF Replies, Changes
      <3>6. Answers(OutputOf(c)') = Answers(OutputOf(c)) + 1
        BY <3>5, SocketTypes, AnswersMove
      <3>7. peer'[c] # "idle"
        BY <2>1, <2>3 DEF ConnInv
      <3>8. CASE peer[c] = "open"
        <4>1. asked[c] = answered[c] + Answers(toPeer[c]) + Answers(OutputOf(c)) + Asks(toAgent[c])
          BY <1>0, <3>8 DEF Balanced
        <4>2. asked[c] = answered[c] + Answers(toPeer[c]) + (Answers(OutputOf(c)) + 1)
                           + Asks(toAgent'[c])
          <5>1. PICK n, a, p, o, t, x : /\ n = asked[c] /\ a = answered[c] /\ p = Answers(toPeer[c])
                                        /\ o = Answers(OutputOf(c)) /\ t = Asks(toAgent[c])
                                        /\ x = Asks(toAgent'[c])
            OBVIOUS
          <5>2. n \in Nat /\ a \in Nat /\ p \in Nat /\ o \in Nat /\ t \in Nat
            BY <5>1, SocketTypes
          <5>3. n = a + p + o + t /\ t = x + 1 /\ x \in Nat
            BY <3>4, <4>1, <5>1
          <5>4. n = a + p + (o + 1) + x
            BY <5>2, <5>3
          <5> QED
            BY <5>1, <5>4
        <4> QED
          BY <2>1, <3>6, <3>7, <4>2, Rebalanced
      <3> QED
        BY <2>1, <3>7, <3>8, Rebalanced
    <2> QED
      BY <2>2, <2>3
  <1>8. ASSUME NEW k \in DOMAIN clients, Writes(k) PROVE Balanced(c)' /\ Fresh(c)'
    <2>1. UNCHANGED <<peer, toAgent, asked, answered>>
      BY <1>8 DEF Writes
    <2>2. CASE c # clients[k].conn
      <3>1. toPeer'[c] = toPeer[c] /\ Changes(k)
        BY <1>8, <2>2 DEF Writes
      <3>2. OutputOf(c)' = OutputOf(c)
        BY <2>2, <3>1, OthersKept
      <3> QED
        BY <1>0, <2>1, <3>1, <3>2, BalancedKept
    <2>3. CASE c = clients[k].conn
      <3>1. PICK q : q = clients[k].output
        OBVIOUS
      <3>2. q # <<>> /\ toPeer'[c] = Append(toPeer[c], Head(q))
        BY <1>8, <2>3, <3>1 DEF Writes
      <3>3. OutputOf(c) = q /\ OutputOf(c)' = Tail(q)
        BY <1>8, <2>3, <3>1, OutputNow DEF Writes, Changes
      <3>4. q \in Seq(Message)
        BY <3>1, ClientTypes
      <3>5. Head(q) \in Message /\ Tail(q) \in Seq(Message)
        BY <3>2, <3>4
      <3>6. Answers(q) = Answers(Tail(q)) + IF Head(q).reply THEN 1 ELSE 0
        BY <3>2, <3>4, AnswersMove
      <3>7. Answers(toPeer'[c]) = Answers(toPeer[c]) + IF Head(q).reply THEN 1 ELSE 0
        BY <3>2, <3>5, SocketTypes, AnswersMove
      <3>8. Answers(Tail(q)) \in Nat
        BY <3>5, AnswersMove
      <3>9. /\ Answers(OutputOf(c)') \in Nat /\ Answers(toPeer'[c]) \in Nat
            /\ Answers(toPeer'[c]) + Answers(OutputOf(c)')
                  = Answers(toPeer[c]) + Answers(OutputOf(c))
        <4>1. PICK x \in Nat : x = IF Head(q).reply THEN 1 ELSE 0
          OBVIOUS
        <4>2. \A a, b \in Nat : (a + x) + b = a + (b + x) /\ a + x \in Nat
          OBVIOUS
        <4>3. Answers(q) = Answers(Tail(q)) + x /\ Answers(toPeer'[c]) = Answers(toPeer[c]) + x
          BY <3>6, <3>7, <4>1
        <4>4. Answers(toPeer[c]) \in Nat
          BY SocketTypes
        <4> QED
          BY <3>3, <3>8, <4>2, <4>3, <4>4
      <3>10. peer'[c] # "idle"
        BY <2>1, <2>3 DEF ConnInv
      <3>11. CASE peer[c] = "open"
        <4>1. asked[c] = answered[c] + Answers(toPeer[c]) + Answers(OutputOf(c)) + Asks(toAgent[c])
          BY <1>0, <3>11 DEF Balanced
        <4>2. asked[c] = answered[c] + Answers(toPeer'[c]) + Answers(OutputOf(c)') + Asks(toAgent[c])
          <5>1. PICK n, a, p, o, t, x, y :
                  /\ n = asked[c] /\ a = answered[c] /\ p = Answers(toPeer[c])
                  /\ o = Answers(OutputOf(c)) /\ t = Asks(toAgent[c])
                  /\ x = Answers(toPeer'[c]) /\ y = Answers(OutputOf(c)')
            OBVIOUS
          <5>2. n \in Nat /\ a \in Nat /\ p \in Nat /\ o \in Nat /\ t \in Nat
            BY <5>1, SocketTypes
          <5>3. n = a + p + o + t /\ x + y = p + o /\ x \in Nat /\ y \in Nat
            BY <3>9, <4>1, <5>1
          <5>4. n = a + x + y + t
            BY <5>2, <5>3
          <5> QED
            BY <5>1, <5>4
        <4> QED
          BY <2>1, <3>10, <4>2, Rebalanced
      <3> QED
        BY <2>1, <3>10, <3>11, Rebalanced
    <2> QED
      BY <2>2, <2>3
  <1>9. CASE PeerStep
    <2>1. OutputOf(c)' = OutputOf(c)
      BY <1>9 DEF PeerStep, Connect, Receive, HangUp, SendCommand, agentVars, OutputOf
    <2>2. PICK d \in Conns : \/ Connect(d) \/ Receive(d) \/ HangUp(d)
                             \/ \E cmd \in Commands : SendCommand(d, cmd)
      BY <1>9 DEF PeerStep
    <2>3. CASE c # d
      <3>1. /\ peer'[c] = peer[c] /\ toAgent'[c] = toAgent[c] /\ toPeer'[c] = toPeer[c]
            /\ asked'[c] = asked[c] /\ answered'[c] = answered[c]
        BY <2>2, <2>3 DEF Connect, Receive, HangUp, SendCommand, TypeOK
      <3> QED
        BY <1>0, <2>1, <3>1, BalancedKept
    <2>4. CASE c = d /\ Connect(d)
      <3>1. peer[c] = "idle" /\ UNCHANGED <<clients, toAgent, toPeer, asked, answered>>
        BY <2>4 DEF Connect, agentVars
      <3>2. peer'[c] # "idle"
        BY <2>4 DEF Connect, TypeOK
      <3>3. \A k \in DOMAIN clients : clients[k].conn # c
        BY <3>1 DEF ConnInv
      <3>4. OutputOf(c)' = <<>>
        BY <2>1, <3>3, OutputNow
      <3>5. asked'[c] = 0 /\ answered'[c] = 0 /\ toPeer'[c] = <<>> /\ toAgent'[c] = <<>>
        BY <1>0, <3>1 DEF Fresh
      <3> QED
        BY <3>2, <3>4, <3>5, NoneCounted DEF Balanced, Fresh
    <2>5. CASE c = d /\ HangUp(d)
      <3>1. peer'[c] = "gone"
        BY <2>5 DEF HangUp, TypeOK
      <3> QED
        BY <3>1 DEF Balanced, Fresh
    <2>6. CASE c = d /\ Receive(d)
      <3>1. /\ UNCHANGED <<peer, toAgent, asked>> /\ peer[c] # "idle"
            /\ toPeer[c] # <<>> /\ toPeer'[c] = Tail(toPeer[c])
            /\ answered'[c] = answered[c] + IF Head(toPeer[c]).reply THEN 1 ELSE 0
        BY <2>6 DEF Receive, TypeOK
      <3>2. Answers(toPeer[c]) = Answers(Tail(toPeer[c])) + IF Head(toPeer[c]).reply THEN 1 ELSE 0
        BY <3>1, SocketTypes, AnswersMove
      <3>3. Tail(toPeer[c]) \in Seq(Message)
        BY <3>1, SocketTypes
      <3>4. Answers(Tail(toPeer[c])) \in Nat
        BY <3>3, AnswersMove
      <3>5. /\ answered'[c] \in Nat /\ Answers(toPeer'[c]) \in Nat
            /\ answered'[c] + Answers(toPeer'[c]) = answered[c] + Answers(toPeer[c])
        <4>1. PICK x \in Nat : x = IF Head(toPeer[c]).reply THEN 1 ELSE 0
          OBVIOUS
        <4>2. \A a, b \in Nat : (a + x) + b = a + (b + x) /\ a + x \in Nat
          OBVIOUS
        <4>3. Answers(toPeer[c]) = Answers(Tail(toPeer[c])) + x /\ answered'[c] = answered[c] + x
          BY <3>1, <3>2, <4>1
        <4>4. answered[c] \in Nat
          BY SocketTypes
        <4> QED
          BY <3>1, <3>4, <4>2, <4>3, <4>4
      <3>6. CASE peer[c] = "open"
        <4>1. asked[c] = answered[c] + Answers(toPeer[c]) + Answers(OutputOf(c)) + Asks(toAgent[c])
          BY <1>0, <3>6 DEF Balanced
        <4>2. asked[c] = answered'[c] + Answers(toPeer'[c]) + Answers(OutputOf(c)) + Asks(toAgent[c])
          <5>1. PICK n, a, p, o, t, x, y :
                  /\ n = asked[c] /\ a = answered[c] /\ p = Answers(toPeer[c])
                  /\ o = Answers(OutputOf(c)) /\ t = Asks(toAgent[c])
                  /\ x = answered'[c] /\ y = Answers(toPeer'[c])
            OBVIOUS
          <5>2. n \in Nat /\ a \in Nat /\ p \in Nat /\ o \in Nat /\ t \in Nat
            BY <5>1, SocketTypes
          <5>3. n = a + p + o + t /\ x + y = a + p /\ x \in Nat /\ y \in Nat
            BY <3>5, <4>1, <5>1
          <5>4. n = x + y + o + t
            BY <5>2, <5>3
          <5> QED
            BY <5>1, <5>4
        <4> QED
          BY <2>1, <3>1, <4>2, Rebalanced
      <3> QED
        BY <3>1, <3>6, Rebalanced
    <2>7. ASSUME c = d, NEW cmd \in Commands, SendCommand(d, cmd)
          PROVE  Balanced(c)' /\ Fresh(c)'
      <3>1. /\ UNCHANGED <<peer, toPeer, answered>> /\ peer[c] = "open"
            /\ toAgent'[c] = Append(toAgent[c], cmd)
            /\ HasAnswer(cmd) => asked'[c] = asked[c] + 1
            /\ ~HasAnswer(cmd) => asked'[c] = asked[c]
        BY <2>7 DEF SendCommand, TypeOK
      <3>2. cmd \in Command
        BY CommandsAssumption
      <3>3. Asks(toAgent'[c]) = Asks(toAgent[c]) + IF HasAnswer(cmd) THEN 1 ELSE 0
        BY <3>1, <3>2, SocketTypes, AsksMove
      <3>4. asked[c] = answered[c] + Answers(toPeer[c]) + Answers(OutputOf(c)) + Asks(toAgent[c])
        BY <1>0, <3>1 DEF Balanced
      <3>5. CASE HasAnswer(cmd)
        <4>1. asked[c] + 1 = answered[c] + Answers(toPeer[c]) + Answers(OutputOf(c))
                               + (Asks(toAgent[c]) + 1)
          <5>1. PICK n, a, p, o, t : /\ n = asked[c] /\ a = answered[c] /\ p = Answers(toPeer[c])
                                     /\ o = Answers(OutputOf(c)) /\ t = Asks(toAgent[c])
            OBVIOUS
          <5>2. n \in Nat /\ a \in Nat /\ p \in Nat /\ o \in Nat /\ t \in Nat
            BY <5>1, SocketTypes
          <5>3. n = a + p + o + t
            BY <3>4, <5>1
          <5>4. n + 1 = a + p + o + (t + 1)
            BY <5>2, <5>3
          <5> QED
            BY <5>1, <5>4
        <4> QED
          BY <2>1, <3>1, <3>3, <3>5, <4>1, Rebalanced
      <3>6. CASE ~HasAnswer(cmd)
        <4>1. Asks(toAgent[c]) + 0 = Asks(toAgent[c])
          BY SocketTypes
        <4>2. Asks(toAgent'[c]) = Asks(toAgent[c])
          BY <3>3, <3>6, <4>1
        <4> QED
          BY <2>1, <3>1, <3>4, <3>6, <4>2, Rebalanced
      <3> QED
        BY <3>5, <3>6
    <2> QED
      BY <2>2, <2>3, <2>4, <2>5, <2>6, <2>7
  <1> QED
    BY <1>1, <1>2, <1>3, <1>4, <1>5, <1>6, <1>7, <1>8, <1>9, StepKinds

----------------------------------------------------------------------------
(* Nothing about a closed toplevel is sent *)

NewRequestsLive ==
    \A n \in DOMAIN requests' \ DOMAIN requests : requests'[n].handle \in LiveHandles

NewLinesLive ==
    \A k \in DOMAIN clients' \cap DOMAIN clients :
      clients'[k].conn = clients[k].conn =>
        \A n \in DOMAIN clients'[k].output \ DOMAIN clients[k].output :
           \A l \in clients'[k].output[n].lines : l.handle \in LiveHandles

LEMMA PerformLive ==
    ASSUME TypeOK, NEW S, Take(S), NEW k \in DOMAIN tasks, ~tasks[k].closed,
           NEW kinds \in Seq(RequestKinds), Perform(kinds, k)
    PROVE  NewRequestsLive
  <1>1. tasks[k].handle \in LiveHandles
    BY DEF LiveHandles
  <1>2. PICK new : new = [n \in DOMAIN kinds |-> [kind |-> kinds[n], handle |-> tasks[k].handle,
                                                  verb |-> TheCommand.verb]]
    OBVIOUS
  <1>3. \A n \in DOMAIN new : new[n].handle = tasks[k].handle
    BY <1>2
  <1>4. new \in Seq(Request)
    <2>1. tasks[k] \in Task /\ TheCommand \in Command
      BY TypeTake DEF TypeOK
    <2>2. \A n \in DOMAIN kinds : new[n] \in Request
      BY <1>2, <2>1 DEF Request, Task, Command
    <2> QED
      BY <1>2, <2>2, MapSeq
  <1>5. requests' = requests \o new
    BY <1>2 DEF Perform
  <1>6. requests \in Seq(Request)
    BY DEF TypeOK
  <1>7. ASSUME NEW n \in DOMAIN requests' \ DOMAIN requests
        PROVE  \E m \in DOMAIN new : requests'[n] = new[m]
    <2>1. n - Len(requests) \in DOMAIN new /\ requests'[n] = new[n - Len(requests)]
      BY <1>4, <1>5, <1>6
    <2> QED
      BY <2>1
  <1> QED
    BY <1>1, <1>3, <1>7 DEF NewRequestsLive

LEMMA CommandRequests == ASSUME TypeOK, handle_command PROVE NewRequestsLive
  <1>1. CASE UNCHANGED requests
    BY <1>1 DEF NewRequestsLive
  <1>2. CASE \/ Hello \/ List \/ Subscribe \/ TaskCommandRefused \/ ActiveIsShell
             \/ UnknownCommand \/ BlankLine \/ OverlongLine
    BY <1>1, <1>2 DEF Hello, List, Subscribe, TaskCommandRefused, ActiveIsShell, UnknownCommand,
                      BlankLine, OverlongLine, ReplyOnly, compVars
  <1>3. ASSUME NEW m, ReplyOnly(m) PROVE NewRequestsLive
    BY <1>1, <1>3 DEF ReplyOnly
  <1>4. CASE TaskCommand
    <2>1. PICK k \in find_task(TheCommand.id) : Perform(RequestsOf(TheCommand.verb), k)
      BY <1>4 DEF TaskCommand
    <2>2. k \in DOMAIN tasks /\ ~tasks[k].closed /\ Take(TaskVerbs)
      BY <1>4 DEF TaskCommand, find_task
    <2>3. RequestsOf(TheCommand.verb) \in Seq(RequestKinds)
      BY TypeRequestsOf
    <2> QED
      BY <2>1, <2>2, <2>3, PerformLive
  <1>5. CASE FocusShell
    <2>1. Take({"focus-shell"})
      BY <1>5 DEF FocusShell
    <2>2. ReplyOnly(Answer("error")) \/ \E k \in shell_task : Perform(<<"activate">>, k)
      BY <1>5 DEF FocusShell
    <2>3. ASSUME NEW k \in shell_task, Perform(<<"activate">>, k) PROVE NewRequestsLive
      <3>1. k \in DOMAIN tasks /\ ~tasks[k].closed /\ <<"activate">> \in Seq(RequestKinds)
        BY DEF shell_task, RequestKinds
      <3> QED
        BY <2>1, <2>3, <3>1, PerformLive
    <2> QED
      BY <1>3, <2>2, <2>3
  <1>6. CASE ActiveCommand
    <2>1. Take(ActiveVerbs)
      BY <1>6 DEF ActiveCommand
    <2>2. ReplyOnly(Answer("error")) \/ \E k \in active_task(FALSE) :
             Perform(IF TheCommand.verb = "minimize-active"
                     THEN <<"set_minimized">> ELSE <<"close">>, k)
      BY <1>6 DEF ActiveCommand
    <2>3. ASSUME NEW k \in active_task(FALSE), NEW kind \in RequestKinds, Perform(<<kind>>, k)
          PROVE  NewRequestsLive
      <3>1. k \in DOMAIN tasks /\ ~tasks[k].closed /\ <<kind>> \in Seq(RequestKinds)
        BY DEF active_task
      <3> QED
        BY <2>1, <2>3, <3>1, PerformLive
    <2>4. "set_minimized" \in RequestKinds /\ "close" \in RequestKinds
      BY DEF RequestKinds
    <2> QED
      BY <1>3, <2>2, <2>3, <2>4
  <1> QED
    BY <1>2, <1>4, <1>5, <1>6 DEF handle_command

LEMMA RequestsLive == ASSUME TypeOK, [Next]_vars PROVE NewRequestsLive
  <1>1. CASE UNCHANGED requests
    BY <1>1 DEF NewRequestsLive
  <1>2. CASE AgentStep
    <2>1. CASE handle_command
      BY <2>1, CommandRequests
    <2>2. CASE ~handle_command
      <3>1. UNCHANGED requests
        BY <1>2, <2>2 DEF AgentStep, LoopExit, DispatchFails, Exit, prune_closed, PreparePoll,
             PollReady, PollTimeout, manager_toplevel, manager_finished, handle_title,
             handle_app_id, handle_state, handle_done, handle_closed, Dispatch, DispatchDone,
             accept_client, AcceptDone, ClientsDone, ServeHangup, ServeClient, ReadAgain,
             ReadEof, FlushWrite, FlushDone, FlushBroken, ServeNext, Drop, compVars
      <3> QED
        BY <1>1, <3>1
    <2> QED
      BY <2>1, <2>2
  <1>3. CASE HandleRequest
    <2>1. requests \in Seq(Request) /\ requests # <<>> /\ requests' = Tail(requests)
      BY <1>3 DEF HandleRequest, TypeOK
    <2>2. DOMAIN requests' \subseteq DOMAIN requests
      BY <2>1
    <2> QED
      BY <2>2 DEF NewRequestsLive
  <1>4. CASE CompositorStep /\ ~HandleRequest
    <2>1. UNCHANGED requests
      BY <1>4 DEF CompositorStep, OpenWindow, CloseWindow, FocusWindow, UserOp, ManagerStops,
                  CompositorExits
    <2> QED
      BY <1>1, <2>1
  <1>5. CASE Signal \/ PollFails \/ PeerStep \/ UNCHANGED vars
    BY <1>1, <1>5 DEF Signal, PollFails, PeerStep, Connect, Receive, HangUp, SendCommand,
                      compVars, vars
  <1> QED
    BY <1>2, <1>3, <1>4, <1>5 DEF Next

LEMMA LiveLines == \A l \in SnapshotLines : l.handle \in LiveHandles
  BY DEF SnapshotLines, LineOf, LiveHandles

(* The one message a step queues for a client. *)
LEMMA AppendedLines ==
    ASSUME NEW q \in Seq(Message), NEW m \in Message, m.lines \subseteq SnapshotLines,
           NEW n \in DOMAIN Append(q, m) \ DOMAIN q
    PROVE  \A l \in Append(q, m)[n].lines : l.handle \in LiveHandles
  <1>1. Append(q, m)[n] = m
    OBVIOUS
  <1> QED
    BY <1>1, LiveLines

LEMMA LinesLive == ASSUME TypeOK, ConnInv, [Next]_vars PROVE NewLinesLive
  <1>1. CASE Stays \/ HangsUp \/ PeerStep
    BY <1>1 DEF Stays, clientVars, HangsUp, PeerStep, Connect, Receive, HangUp, SendCommand,
                agentVars, NewLinesLive
  <1> SUFFICES ASSUME ~(Stays \/ HangsUp \/ PeerStep),
                      NEW j \in DOMAIN clients' \cap DOMAIN clients,
                      clients'[j].conn = clients[j].conn,
                      NEW n \in DOMAIN clients'[j].output \ DOMAIN clients[j].output
               PROVE  \A l \in clients'[j].output[n].lines : l.handle \in LiveHandles
    BY <1>1 DEF NewLinesLive
  <1>2. clients[j].output \in Seq(Message)
    BY ClientTypes
  <1>3. CASE clients'[j].output = clients[j].output
    BY <1>3
  <1>4. ASSUME NEW m \in Message, m.lines \subseteq SnapshotLines,
               clients'[j].output = Append(clients[j].output, m)
        PROVE  \A l \in clients'[j].output[n].lines : l.handle \in LiveHandles
    BY <1>2, <1>4, AppendedLines
  <1>5. CASE PreparePoll /\ UNCHANGED peerVars
    <2>1. CASE ~changed
      BY <1>3, <1>5, <2>1 DEF PreparePoll
    <2>2. CASE changed
      <3>1. clients'[j] = IF clients[j].subscribed
                          THEN [clients[j] EXCEPT !.output = Append(@, SnapshotMessage(FALSE))]
                          ELSE clients[j]
        BY <1>5, <2>2 DEF PreparePoll, broadcast_snapshot
      <3>2. SnapshotMessage(FALSE) \in Message /\ SnapshotMessage(FALSE).lines = SnapshotLines
        BY SnapshotType DEF SnapshotMessage
      <3>3. CASE clients[j].subscribed
        <4>1. clients'[j].output = Append(clients[j].output, SnapshotMessage(FALSE))
          BY <3>1, <3>3, ClientTypes DEF Client
        <4> QED
          BY <1>4, <3>2, <4>1
      <3> QED
        BY <1>3, <3>1, <3>3
    <2> QED
      BY <2>1, <2>2
  <1>6. CASE accept_client
    <2>1. clients'[j] = clients[j]
      BY <1>6, AcceptedClient
    <2> QED
      BY <1>3, <2>1
  <1>7. ASSUME NEW k \in DOMAIN clients, Closes(k)
        PROVE  \A l \in clients'[j].output[n].lines : l.handle \in LiveHandles
    <2>1. clients' = Erase(clients, k)
      BY <1>7 DEF Closes, close_client
    <2>2. Moved(j, k) \in DOMAIN clients /\ clients'[j] = clients[Moved(j, k)]
      BY <2>1, ErasedClients
    <2>3. Moved(j, k) = j
      BY <2>2 DEF ConnInv
    <2> QED
      BY <1>3, <2>2, <2>3
  <1>8. ASSUME NEW k \in DOMAIN clients, Skips(k)
        PROVE  \A l \in clients'[j].output[n].lines : l.handle \in LiveHandles
    BY <1>3, <1>8 DEF Skips
  <1>9. ASSUME NEW k \in DOMAIN clients, Writes(k)
        PROVE  \A l \in clients'[j].output[n].lines : l.handle \in LiveHandles
    <2>1. CASE j # k
      BY <1>3, <1>9, <2>1 DEF Writes, Changes
    <2>2. CASE j = k
      <3>1. clients[j].output # <<>> /\ clients'[j].output = Tail(clients[j].output)
        BY <1>9, <2>2 DEF Writes
      <3>2. DOMAIN Tail(clients[j].output) \subseteq DOMAIN clients[j].output
        BY <1>2, <3>1
      <3> QED
        BY <3>1, <3>2
    <2> QED
      BY <2>1, <2>2
  <1>10. ASSUME NEW k \in DOMAIN clients, NEW m \in Message, Replies(k, m)
         PROVE  \A l \in clients'[j].output[n].lines : l.handle \in LiveHandles
    <2>1. CASE j # k
      BY <1>3, <1>10, <2>1 DEF Replies, Changes
    <2>2. CASE j = k
      <3>1. m.lines \subseteq SnapshotLines /\ clients'[j].output = Append(clients[j].output, m)
        BY <1>10, <2>2 DEF Replies
      <3> QED
        BY <1>4, <3>1
    <2> QED
      BY <2>1, <2>2
  <1> QED
    BY <1>5, <1>6, <1>7, <1>8, <1>9, <1>10, StepKinds

----------------------------------------------------------------------------

ClientInv == ConnInv /\ SubscribersCurrent /\ AnswerInv

LEMMA ClientInit == Init => ClientInv
  <1> SUFFICES ASSUME Init PROVE ClientInv
    OBVIOUS
  <1>1. DOMAIN clients = {} /\ DOMAIN backlog = {}
    BY DEF Init
  <1>2. \A c \in Conns : Balanced(c) /\ Fresh(c)
    BY DEF Init, Balanced, Fresh
  <1> QED
    BY <1>1, <1>2 DEF ClientInv, ConnInv, SubscribersCurrent, AnswerInv

LEMMA ClientStep == TypeOK /\ ClientInv /\ [Next]_vars => ClientInv'
  BY ConnStep, CurrentStep, AnswerStep DEF ClientInv

(* Whenever no broadcast is due, the last snapshot under way to each        *)
(* connected subscriber is the table (broadcast_snapshot and subscribe      *)
(* against flush_client and the erase of other clients).                    *)
THEOREM SubscribersAlwaysCurrent == Spec => []SubscribersCurrent
  <1>1. ClientInv => SubscribersCurrent
    BY DEF ClientInv
  <1> QED
    BY TypeInit, TypeStep, ClientInit, ClientStep, <1>1, PTL DEF Spec

(* What SubscribersConverge must come to: when no event is under way, no     *)
(* broadcast is due and the snapshots of a subscriber are delivered.        *)
Settled(k) == /\ wire = <<>>
              /\ ~changed
              /\ clients[k].subscribed
              /\ peer[clients[k].conn] = "open"
              /\ \A n \in DOMAIN Queued(k) : Queued(k)[n].kind # "snapshot"

SettledSeeTruth ==
    \A k \in DOMAIN clients : Settled(k) => ViewOf(clients[k].conn) = TrueLines

(* From the compositor's events through the table to the client: a settled  *)
(* subscriber sees the open toplevels and their flags, whatever was lost,   *)
(* closed or erased on the way (handle_done, broadcast_snapshot, subscribe  *)
(* and flush_client together).  Only that it does settle is left to TLC.    *)
THEOREM SettledAlwaysSeeTruth == Spec => []SettledSeeTruth
  <1>1. ClientInv /\ QuietTableIsTrue => SettledSeeTruth
    <2> SUFFICES ASSUME ClientInv, QuietTableIsTrue, NEW k \in DOMAIN clients, Settled(k)
                 PROVE  ViewOf(clients[k].conn) = TrueLines
      BY DEF SettledSeeTruth
    <2>1. LatestIs(Queued(k), view[clients[k].conn], SnapshotLines)
      BY DEF ClientInv, SubscribersCurrent, Settled
    <2>2. view[clients[k].conn] = SnapshotLines
      BY <2>1 DEF Settled, LatestIs
    <2> QED
      BY <2>2 DEF QuietTableIsTrue, Settled, ViewOf
  <1> QED
    BY TypeInit, TypeStep, NameInit, NameStep, TableInit, TableStep, QuietTable,
       ClientInit, ClientStep, <1>1, PTL DEF Spec

(* No branch of handle_command is silent or answers twice, and flush_client *)
(* loses and repeats nothing, for any number of clients and commands.       *)
THEOREM CommandsAnsweredOnce == Spec => []OneAnswerPerCommand
  <1>1. ClientInv => OneAnswerPerCommand
    BY DEF ClientInv, AnswerInv, Balanced, Asks, OneAnswerPerCommand
  <1> QED
    BY TypeInit, TypeStep, ClientInit, ClientStep, <1>1, PTL DEF Spec

(* Between the dispatch of "closed" and the prune at the top of the next    *)
(* turn, no command acts on the dead toplevel and no snapshot lists it.     *)
THEOREM ClosedTasksNeverReached == Spec => ClosedTasksAreUnreachable
  <1>1. TypeOK /\ ClientInv /\ [Next]_vars => NewRequestsLive /\ NewLinesLive
    BY RequestsLive, LinesLive DEF ClientInv
  <1>2. NewRequestsLive /\ NewLinesLive
          => [/\ \A n \in DOMAIN requests' \ DOMAIN requests :
                    requests'[n].handle \in LiveHandles
              /\ \A k \in DOMAIN clients' \cap DOMAIN clients :
                   clients'[k].conn = clients[k].conn =>
                     \A n \in DOMAIN clients'[k].output \ DOMAIN clients[k].output :
                        \A l \in clients'[k].output[n].lines : l.handle \in LiveHandles
             ]_<<requests, clients>>
    BY DEF NewRequestsLive, NewLinesLive
  <1> QED
    BY TypeInit, TypeStep, ClientInit, ClientStep, <1>1, <1>2,
       PTL DEF Spec, ClosedTasksAreUnreachable

----------------------------------------------------------------------------
(* What it takes to drop a client that is not at fault *)

(* A connection that was made has ended, and its client is gone. *)
Departed == \E c \in Conns : peer[c] \in {"gone", "dropped"} /\ c \notin Served \cup Waiting

(* How far SubscriptionLasts fails: as long as every connection that was    *)
(* made still has its client, the agent gives up on none that is not at     *)
(* fault, and it never does unless some peer has hung up.  Only an erase    *)
(* before, in the same loop, lets run() judge a client by the revents of    *)
(* another, and only POLLHUP then matters.                                  *)
CascadesFollowHangUps ==
    [][\A c \in Conns :
         c \in Served /\ peer[c] = "open" /\ peer'[c] = "dropped" /\ pc' = "clients"
           => OwnFault(c) \/ (Departed /\ \E d \in Conns : peer[d] = "gone")]_vars

(* A POLLHUP that run() may still look at was that of a peer which has hung *)
(* up, and until a client has been erased it is the one at the same index.  *)
HupInv ==
    /\ \A k \in DOMAIN fds.rev : "hup" \in fds.rev[k] => \E d \in Conns : peer[d] = "gone"
    /\ \/ Departed
       \/ \A k \in DOMAIN fds.rev : /\ k \in DOMAIN clients
                                    /\ "hup" \in fds.rev[k] => peer[clients[k].conn] = "gone"

LEMMA EndedStays ==
    ASSUME TypeOK, [Next]_vars, NEW c \in Conns, peer[c] \in {"gone", "dropped"}
    PROVE  peer'[c] = peer[c]
  <1>1. CASE Stays \/ HangsUp \/ (PreparePoll /\ UNCHANGED peerVars) \/ accept_client
    BY <1>1 DEF Stays, clientVars, HangsUp, HangUpOnAll, peerVars, accept_client
  <1>2. ASSUME NEW k \in DOMAIN clients,
               Closes(k) \/ Skips(k) \/ Writes(k) \/ (\E m \in Message : Replies(k, m))
        PROVE  peer'[c] = peer[c]
    BY <1>2 DEF Closes, close_client, Skips, Writes, Replies, Reads, TypeOK
  <1>3. CASE PeerStep
    BY <1>3 DEF PeerStep, Connect, Receive, HangUp, SendCommand, TypeOK
  <1> QED
    BY <1>1, <1>2, <1>3, StepKinds

(* Entries of the vector keep their places as long as none is erased. *)
LEMMA ClientsKept ==
    ASSUME TypeOK, ConnInv, [Next]_vars
    PROVE  /\ \A c \in Served' \cup Waiting' : c \in Served \cup Waiting \/ peer[c] = "idle"
           /\ \/ \A k \in DOMAIN clients : /\ k \in DOMAIN clients'
                                           /\ clients'[k].conn = clients[k].conn
              \/ Departed'
  <1>1. CASE UNCHANGED <<clients, backlog>>
    BY <1>1 DEF Served, Waiting
  <1>2. ASSUME DOMAIN clients' = DOMAIN clients, UNCHANGED backlog,
               \A k \in DOMAIN clients : clients'[k].conn = clients[k].conn
        PROVE  Served' = Served /\ Waiting' = Waiting
    BY <1>2 DEF Served, Waiting
  <1>3. CASE PreparePoll /\ UNCHANGED peerVars
    <2>1. /\ DOMAIN clients' = DOMAIN clients
          /\ \A k \in DOMAIN clients : clients'[k].conn = clients[k].conn
      <3>1. ASSUME NEW k \in DOMAIN clients, changed PROVE clients'[k].conn = clients[k].conn
        <4>1. \/ clients'[k] = clients[k]
              \/ clients'[k] = [clients[k] EXCEPT !.output = Append(@, SnapshotMessage(FALSE))]
          BY <1>3, <3>1 DEF PreparePoll, broadcast_snapshot
        <4> QED
          BY <4>1, ClientTypes DEF Client
      <3> QED
        BY <1>3, <3>1 DEF PreparePoll, broadcast_snapshot
    <2> QED
      BY <1>2, <1>3, <2>1 DEF peerVars
  <1>4. CASE accept_client
    <2>1. PICK L \in Nat : /\ DOMAIN clients' = DOMAIN clients \cup {L}
                           /\ L \notin DOMAIN clients
                           /\ clients'[L].conn = Head(backlog)
                           /\ \A j \in DOMAIN clients : clients'[j] = clients[j]
      BY <1>4, AcceptedClient
    <2>2. /\ \A n \in DOMAIN backlog' : n + 1 \in DOMAIN backlog /\ backlog'[n] = backlog[n + 1]
          /\ 1 \in DOMAIN backlog /\ Head(backlog) = backlog[1]
      BY <1>4, BacklogTail DEF accept_client
    <2> QED
      BY <2>1, <2>2 DEF Served, Waiting
  <1>5. ASSUME NEW k \in DOMAIN clients, Closes(k)
        PROVE  /\ \A c \in Served' \cup Waiting' : c \in Served \cup Waiting
               /\ Departed'
    <2>1. clients' = Erase(clients, k) /\ UNCHANGED backlog
      BY <1>5 DEF Closes, close_client
    <2>2. \A j \in DOMAIN clients' : /\ Moved(j, k) \in DOMAIN clients \ {k}
                                     /\ clients'[j] = clients[Moved(j, k)]
      BY <2>1, ErasedClients
    <2>3. clients[k].conn \notin Served' \cup Waiting'
      BY <2>1, <2>2 DEF ConnInv, Served, Waiting
    <2>4. clients[k].conn \in Conns /\ peer[clients[k].conn] \in {"open", "gone", "dropped"}
      BY ClientTypes DEF ConnInv, TypeOK
    <2>5. peer'[clients[k].conn] \in {"gone", "dropped"}
      BY <1>5, <2>4 DEF Closes, close_client, TypeOK
    <2>6. Departed'
      BY <2>3, <2>4, <2>5 DEF Departed
    <2> QED
      BY <2>1, <2>2, <2>6 DEF Served, Waiting
  <1>6. ASSUME NEW k \in DOMAIN clients,
               Skips(k) \/ Writes(k) \/ (\E m \in Message : Replies(k, m))
        PROVE  /\ Served' = Served /\ Waiting' = Waiting
               /\ \A j \in DOMAIN clients : /\ j \in DOMAIN clients'
                                            /\ clients'[j].conn = clients[j].conn
    <2>1. /\ DOMAIN clients' = DOMAIN clients /\ UNCHANGED backlog
          /\ \A j \in DOMAIN clients : clients'[j].conn = clients[j].conn
      BY <1>6 DEF Skips, Writes, Replies, Reads, Changes
    <2> QED
      BY <1>2, <2>1
  <1>7. CASE PeerStep
    <2>1. UNCHANGED clients
      BY <1>7 DEF PeerStep, Connect, Receive, HangUp, SendCommand, agentVars
    <2>2. \/ UNCHANGED backlog
          \/ \E c \in Conns : peer[c] = "idle" /\ backlog' = Append(backlog, c)
      BY <1>7 DEF PeerStep, Connect, Receive, HangUp, SendCommand
    <2>3. ASSUME NEW c \in Conns, backlog' = Append(backlog, c)
          PROVE  \A d \in Waiting' : d \in Waiting \/ d = c
      <3>1. backlog \in Seq(Conns)
        BY DEF TypeOK
      <3>2. \A n \in DOMAIN backlog' : \/ n \in DOMAIN backlog /\ backlog'[n] = backlog[n]
                                       \/ backlog'[n] = c
        BY <2>3, <3>1
      <3> QED
        BY <3>2 DEF Waiting
    <2> QED
      BY <1>1, <2>1, <2>2, <2>3 DEF Served
  <1> QED
    BY <1>1, <1>2, <1>3, <1>4, <1>5, <1>6, <1>7, StepKinds DEF Stays, HangsUp, clientVars

LEMMA DepartedStays == ASSUME TypeOK, ConnInv, Departed, [Next]_vars PROVE Departed'
  BY EndedStays, ClientsKept DEF Departed

LEMMA RevSteps ==
    ASSUME TypeOK, [Next]_vars
    PROVE  \/ fds'.rev = fds.rev
           \/ fds'.rev = <<>>
           \/ PollReady
  <1>1. fds \in FdsType
    BY DEF TypeOK
  <1>2. CASE \/ manager_toplevel \/ manager_finished \/ handle_title \/ handle_app_id
             \/ handle_state \/ handle_done \/ handle_closed
    BY <1>1, <1>2 DEF manager_toplevel, manager_finished, handle_title, handle_app_id,
       handle_state, handle_done, handle_closed, Dispatch, FdsType
  <1>3. CASE ClientsDone
    BY <1>3 DEF ClientsDone, NoFds
  <1>4. CASE handle_command
    BY <1>4 DEF handle_command, Hello, List, Subscribe, TaskCommandRefused, TaskCommand, FocusShell,
       ActiveIsShell, ActiveCommand, UnknownCommand, BlankLine, OverlongLine, ReplyOnly, Perform,
       AgentUnchanged
  <1>5. CASE \/ LoopExit \/ prune_closed \/ PreparePoll \/ PollTimeout \/ DispatchDone
             \/ DispatchFails \/ accept_client \/ AcceptDone \/ ServeHangup \/ ServeClient
             \/ ReadAgain \/ ReadEof \/ FlushWrite \/ FlushDone \/ FlushBroken
    BY <1>5 DEF LoopExit, prune_closed, PreparePoll, PollTimeout, DispatchDone, DispatchFails,
       accept_client, AcceptDone, ServeHangup, ServeClient, ReadAgain, ReadEof, FlushWrite,
       FlushDone, FlushBroken, Exit, Drop, ServeNext
  <1>6. CASE Signal \/ PollFails \/ CompositorStep \/ PeerStep \/ UNCHANGED vars
    BY <1>6 DEF Signal, PollFails, CompositorStep, OpenWindow, CloseWindow, FocusWindow, UserOp,
       HandleRequest, ManagerStops, CompositorExits, PeerStep, Connect, Receive, HangUp,
       SendCommand, agentVars, vars
  <1> QED
    BY <1>2, <1>3, <1>4, <1>5, <1>6 DEF Next, AgentStep

LEMMA HupStep == ASSUME TypeOK, ConnInv, HupInv, [Next]_vars PROVE HupInv'
  <1>1. CASE fds'.rev = fds.rev
    <2>1. \A k \in DOMAIN fds'.rev : "hup" \in fds'.rev[k] => \E d \in Conns : peer'[d] = "gone"
      BY <1>1, EndedStays DEF HupInv
    <2>2. CASE Departed'
      BY <2>1, <2>2 DEF HupInv
    <2>3. CASE ~Departed'
      <3>1. \A k \in DOMAIN fds.rev : /\ k \in DOMAIN clients
                                      /\ "hup" \in fds.rev[k] => peer[clients[k].conn] = "gone"
        BY <2>3, DepartedStays DEF HupInv
      <3>2. \A k \in DOMAIN clients : k \in DOMAIN clients' /\ clients'[k].conn = clients[k].conn
        BY <2>3, ClientsKept
      <3>3. \A k \in DOMAIN clients : clients[k].conn \in Conns
        BY ClientTypes
      <3>4. \A k \in DOMAIN fds'.rev :
               /\ k \in DOMAIN clients'
               /\ "hup" \in fds'.rev[k] => peer'[clients'[k].conn] = "gone"
        BY <1>1, <3>1, <3>2, <3>3, EndedStays
      <3> QED
        BY <2>1, <3>4 DEF HupInv
    <2> QED
      BY <2>2, <2>3
  <1>2. CASE fds'.rev = <<>>
    <2>1. DOMAIN fds'.rev = {}
      BY <1>2
    <2> QED
      BY <2>1 DEF HupInv
  <1>3. CASE PollReady
    <2>1. fds'.rev = [k \in DOMAIN clients |-> Polled(clients[k])]
          /\ UNCHANGED <<clients, peer>>
      BY <1>3 DEF PollReady, PollResult, peerVars
    <2>2. \A k \in DOMAIN clients : "hup" \in Polled(clients[k]) => peer[clients[k].conn] = "gone"
      BY DEF Polled
    <2>3. \A k \in DOMAIN clients : clients[k].conn \in Conns
      BY ClientTypes
    <2> QED
      BY <2>1, <2>2, <2>3 DEF HupInv
  <1> QED
    BY <1>1, <1>2, <1>3, RevSteps

(* The steps that end a connection the peer has not ended. *)
LEMMA DropSteps ==
    ASSUME TypeOK, [Next]_vars, NEW c \in Conns,
           peer[c] = "open", peer'[c] = "dropped", pc' = "clients"
    PROVE  /\ i \in DOMAIN clients /\ c = clients[i].conn
           /\ ServeHangup \/ OverlongLine
  <1>1. ServeHangup \/ ReadEof \/ FlushBroken \/ OverlongLine
    <2>1. CASE AgentStep
      <3>1. ~LoopExit /\ ~DispatchFails
        BY DEF LoopExit, DispatchFails, Exit
      <3>2. CASE \/ prune_closed \/ PreparePoll \/ PollReady \/ PollTimeout \/ DispatchDone
                 \/ AcceptDone \/ ClientsDone \/ ServeClient \/ ReadAgain \/ FlushDone
                 \/ accept_client \/ FlushWrite
        BY <3>2 DEF prune_closed, PreparePoll, PollReady, PollTimeout, DispatchDone, AcceptDone,
           ClientsDone, ServeClient, ReadAgain, FlushDone, ServeNext, peerVars, accept_client,
           FlushWrite
      <3>3. CASE \/ manager_toplevel \/ manager_finished \/ handle_title \/ handle_app_id
                 \/ handle_state \/ handle_done \/ handle_closed
        BY <3>3 DEF manager_toplevel, manager_finished, handle_title, handle_app_id, handle_state,
           handle_done, handle_closed, Dispatch, peerVars
      <3>4. CASE handle_command /\ ~OverlongLine
        BY <3>4 DEF handle_command, Hello, List, Subscribe, TaskCommandRefused, TaskCommand,
           FocusShell, ActiveIsShell, ActiveCommand, UnknownCommand, BlankLine, ReplyOnly, Perform,
           WorldUnchanged
      <3> QED
        BY <2>1, <3>1, <3>2, <3>3, <3>4 DEF AgentStep, handle_command
    <2>2. CASE Signal \/ CompositorStep
      BY <2>2 DEF Signal, CompositorStep, OpenWindow, CloseWindow, FocusWindow, UserOp,
         HandleRequest, ManagerStops, CompositorExits, peerVars
    <2>3. ~PollFails
      BY DEF PollFails
    <2>4. CASE PeerStep
      BY <2>4 DEF PeerStep, Connect, Receive, HangUp, SendCommand, TypeOK
    <2>5. CASE UNCHANGED vars
      BY <2>5 DEF vars, peerVars
    <2> QED
      BY <2>1, <2>2, <2>3, <2>4, <2>5 DEF Next
  <1>2. i \in DOMAIN clients /\ close_client(i)
    BY <1>1 DEF ServeHangup, ReadEof, FlushBroken, OverlongLine, Drop, Take, TypeOK
  <1>3. c = clients[i].conn
    BY <1>2 DEF close_client
  <1> QED
    BY <1>1, <1>2, <1>3 DEF ReadEof, FlushBroken

(* CascadesFollowHangUps holds of every behaviour, for any number of        *)
(* clients; so without hang-ups SubscriptionLasts does.                     *)
THEOREM CascadesAlwaysFollowHangUps == Spec => CascadesFollowHangUps
  <1>1. Init => HupInv
    <2> SUFFICES ASSUME Init PROVE HupInv
      OBVIOUS
    <2>1. DOMAIN fds.rev = {}
      BY DEF Init, NoFds
    <2> QED
      BY <2>1 DEF HupInv
  <1>2. TypeOK /\ ClientInv /\ HupInv /\ [Next]_vars => HupInv'
    BY HupStep DEF ClientInv
  <1>3. TypeOK /\ HupInv /\ [Next]_vars
          => [\A c \in Conns :
                c \in Served /\ peer[c] = "open" /\ peer'[c] = "dropped" /\ pc' = "clients"
                  => OwnFault(c) \/ (Departed /\ \E d \in Conns : peer[d] = "gone")]_vars
    <2> SUFFICES ASSUME TypeOK, HupInv, [Next]_vars, NEW c \in Conns,
                        peer[c] = "open", peer'[c] = "dropped", pc' = "clients"
                 PROVE  OwnFault(c) \/ (Departed /\ \E d \in Conns : peer[d] = "gone")
      OBVIOUS
    <2>1. /\ i \in DOMAIN clients /\ c = clients[i].conn
          /\ ServeHangup \/ OverlongLine
      BY DropSteps
    <2>2. CASE OverlongLine
      BY <2>1, <2>2 DEF OverlongLine, Take, OwnFault
    <2>3. CASE ServeHangup
      <3>1. i \in DOMAIN fds.rev /\ "hup" \in fds.rev[i]
        BY <2>3 DEF ServeHangup, ReventsOf, TypeOK, FdsType
      <3> QED
        BY <2>1, <3>1 DEF HupInv
    <2> QED
      BY <2>1, <2>2, <2>3
  <1> QED
    BY TypeInit, TypeStep, ClientInit, ClientStep, <1>1, <1>2, <1>3,
       PTL DEF Spec, CascadesFollowHangUps

----------------------------------------------------------------------------
(* The agent implements TaskService *)

(* What the service shows of a state; everything else is the agent's own. *)
serviceView == <<Up, SnapshotLines, changed, peer, Waiting, Served, Subscribers,
                 toAgent, Queues, view, requests>>

memberView == <<Waiting, Served, Subscribers>>

LEMMA LinesTyped == TypeOK => SnapshotLines \in SUBSET Line
  BY SnapshotType

LEMMA MembersSame == UNCHANGED <<clients, backlog>> => UNCHANGED memberView
  BY DEF memberView, Waiting, Served, Subscribers

LEMMA QueuesSame == UNCHANGED <<clients, peer, toPeer>> => UNCHANGED Queues
  BY DEF Queues, QueueOf, OutputOf

LEMMA TableSame == UNCHANGED tasks => UNCHANGED SnapshotLines
  BY DEF SnapshotLines

(* A step that only the agent notices. *)
LEMMA Unnoticed ==
    ASSUME UNCHANGED clientVars, Up' = Up, UNCHANGED <<tasks, changed, requests>>
    PROVE  UNCHANGED serviceView
  BY MembersSame, QueuesSame, TableSame DEF serviceView, clientVars, memberView

LEMMA ViewIsService == UNCHANGED serviceView => UNCHANGED Service!serviceVars
  BY DEF serviceView, Service!serviceVars, Service!memberVars, Service!callVars

----------------------------------------------------------------------------
(* The table *)

(* Events and pruning change the table, and a broadcast is due after them. *)
LEMMA ServiceChange ==
    ASSUME TypeOK', Up, Up', changed' = TRUE, UNCHANGED clientVars, UNCHANGED requests
    PROVE  Service!Change
  <1>1. (SnapshotLines \in SUBSET Line)'
    BY LinesTyped, PTL
  <1>2. UNCHANGED memberView /\ UNCHANGED Queues
    BY MembersSame, QueuesSame DEF clientVars
  <1> QED
    BY <1>1, <1>2 DEF clientVars, memberView, Service!Change, Service!memberVars, Service!callVars

LEMMA MemberOf ==
    ASSUME ConnInv, NEW k \in DOMAIN clients
    PROVE  /\ clients[k].conn \in Served
           /\ clients[k].conn \in Subscribers <=> clients[k].subscribed
  BY DEF ConnInv, Served, Subscribers

(* A broadcast gives each subscriber the table once. *)
LEMMA ServicePublish ==
    ASSUME TypeOK, ConnInv, ConnInv', PreparePoll, changed, UNCHANGED peerVars
    PROVE  Service!Publish
  <1>1. /\ Up /\ Up' /\ changed' = FALSE
        /\ UNCHANGED <<tasks, backlog, peer, toAgent, toPeer, view, requests>>
        /\ broadcast_snapshot
    BY DEF PreparePoll, Up, peerVars, compVars
  <1>2. UNCHANGED SnapshotLines
    BY <1>1, TableSame
  <1>3. /\ DOMAIN clients' = DOMAIN clients
        /\ \A k \in DOMAIN clients :
             /\ clients'[k].conn = clients[k].conn
             /\ clients'[k].subscribed = clients[k].subscribed
             /\ clients'[k].output = IF clients[k].subscribed
                                     THEN Append(clients[k].output, SnapshotMessage(FALSE))
                                     ELSE clients[k].output
    BY <1>1, ClientTypes DEF broadcast_snapshot, Client
  <1>4. UNCHANGED memberView
    BY <1>1, <1>3 DEF memberView, Waiting, Served, Subscribers
  <1>5. ASSUME NEW c \in Conns
        PROVE  QueueOf(c)' = IF c \in Subscribers /\ peer[c] = "open"
                             THEN Append(QueueOf(c), SnapshotMessage(FALSE)) ELSE QueueOf(c)
    <2>1. CASE peer[c] # "open"
      BY <1>1, <2>1 DEF QueueOf
    <2>2. CASE peer[c] = "open" /\ \A k \in DOMAIN clients : clients[k].conn # c
      <3>1. c \notin Subscribers
        BY <2>2 DEF Subscribers
      <3>2. OutputOf(c)' = OutputOf(c)
        BY <1>3, <2>2, OutputNow
      <3> QED
        BY <1>1, <2>2, <3>1, <3>2 DEF QueueOf
    <2>3. ASSUME NEW k \in DOMAIN clients, clients[k].conn = c, peer[c] = "open"
          PROVE  QueueOf(c)' = IF c \in Subscribers
                               THEN Append(QueueOf(c), SnapshotMessage(FALSE)) ELSE QueueOf(c)
      <3>1. PICK p, q, m : p = toPeer[c] /\ q = clients[k].output /\ m = SnapshotMessage(FALSE)
        OBVIOUS
      <3>2. p \in Seq(Message) /\ q \in Seq(Message) /\ m \in Message
        BY <3>1, SnapshotType, ClientTypes, QueuedType, <2>3
      <3>3. OutputOf(c) = q /\ OutputOf(c)' = clients'[k].output
        BY <1>3, <2>3, <3>1, OutputNow
      <3>4. QueueOf(c) = p \o q /\ QueueOf(c)' = p \o OutputOf(c)'
        BY <1>1, <2>3, <3>1, <3>3 DEF QueueOf
      <3>5. p \o Append(q, m) = Append(p \o q, m)
        BY <3>2, QueueMoves
      <3>6. c \in Subscribers <=> clients[k].subscribed
        BY <2>3, MemberOf
      <3>7. OutputOf(c)' = IF clients[k].subscribed THEN Append(q, m) ELSE q
        BY <1>3, <3>1, <3>3
      <3> QED
        BY <3>1, <3>4, <3>5, <3>6, <3>7
    <2> QED
      BY <2>1, <2>2, <2>3
  <1>6. Queues' = [c \in Conns |-> IF c \in Subscribers /\ peer[c] = "open"
                                   THEN Append(Queues[c], SnapshotMessage(FALSE)) ELSE Queues[c]]
    <2>1. Queues' = [c \in Conns |-> QueueOf(c)']
      BY DEF Queues
    <2>2. \A c \in Conns : Queues[c] = QueueOf(c)
      BY DEF Queues
    <2> QED
      BY <1>5, <2>1, <2>2
  <1>7. SnapshotMessage(FALSE) = Service!Snapshot(FALSE)
    BY DEF SnapshotMessage, Service!Snapshot
  <1> QED
    BY <1>1, <1>2, <1>4, <1>6, <1>7 DEF memberView, Service!Publish, Service!memberVars

----------------------------------------------------------------------------
(* Command lines *)

(* Queueing a message for the client of connection c. *)
LEMMA ServiceQueue ==
    ASSUME TypeOK, ConnInv, ConnInv', NEW k \in DOMAIN clients, NEW m \in Message, Changes(k),
           clients'[k].output = Append(clients[k].output, m),
           UNCHANGED <<peer, backlog, toPeer>>
    PROVE  /\ Service!Queue(clients[k].conn, m)
           /\ UNCHANGED <<Waiting, Served>>
           /\ clients'[k].subscribed = clients[k].subscribed => Subscribers' = Subscribers
           /\ clients'[k].subscribed => Subscribers' = Subscribers \cup {clients[k].conn}
  <1>1. /\ DOMAIN clients' = DOMAIN clients /\ clients'[k].conn = clients[k].conn
        /\ \A j \in DOMAIN clients \ {k} : clients'[j] = clients[j]
    BY DEF Changes
  <1>2. UNCHANGED <<Waiting, Served>>
    BY <1>1 DEF Waiting, Served
  <1>3. \A j \in DOMAIN clients : clients'[j].conn = clients[j].conn
    BY <1>1
  <1>4. clients'[k].subscribed = clients[k].subscribed => Subscribers' = Subscribers
    BY <1>1, <1>3 DEF Subscribers
  <1>5. clients'[k].subscribed => Subscribers' = Subscribers \cup {clients[k].conn}
    BY <1>1, <1>3 DEF Subscribers
  <1>6. PICK c \in Conns : c = clients[k].conn
    BY ClientTypes
  <1>7. \A d \in Conns \ {c} : QueueOf(d)' = QueueOf(d)
    BY <1>6, OthersKept DEF QueueOf
  <1>8. QueueOf(c)' = IF peer[c] = "open" THEN Append(QueueOf(c), m) ELSE QueueOf(c)
    <2>1. PICK p, q : p = toPeer[c] /\ q = clients[k].output
      OBVIOUS
    <2>2. p \in Seq(Message) /\ q \in Seq(Message)
      BY <1>6, <2>1, ClientTypes, QueuedType
    <2>3. OutputOf(c) = q /\ OutputOf(c)' = Append(q, m)
      BY <1>1, <1>6, <2>1, OutputNow
    <2>4. p \o Append(q, m) = Append(p \o q, m)
      BY <2>2, QueueMoves
    <2> QED
      BY <2>1, <2>3, <2>4 DEF QueueOf
  <1>9. Queues' = [d \in Conns |-> QueueOf(d)'] /\ \A d \in Conns : Queues[d] = QueueOf(d)
    BY DEF Queues
  <1>10. CASE peer[c] = "open"
    <2>1. Queues' = [Queues EXCEPT ![c] = Append(@, m)]
      BY <1>7, <1>8, <1>9, <1>10 DEF Queues
    <2> QED
      BY <1>2, <1>4, <1>5, <1>6, <1>10, <2>1 DEF Service!Queue
  <1>11. CASE peer[c] # "open"
    <2>1. Queues' = Queues
      BY <1>7, <1>8, <1>9, <1>11 DEF Queues
    <2> QED
      BY <1>2, <1>4, <1>5, <1>6, <1>11, <2>1 DEF Service!Queue
  <1> QED
    BY <1>10, <1>11

(* Reading the line. *)
LEMMA ServiceTake ==
    ASSUME TypeOK, NEW S, Take(S), UNCHANGED <<tasks, changed, peer, view, pc>>,
           UNCHANGED <<Waiting, Served>>
    PROVE  Service!Take(clients[i].conn) /\ TheCommand.verb \in S
  <1>1. i \in DOMAIN clients
    BY TypeTake
  <1>2. clients[i].conn \in Served
    BY <1>1 DEF Served
  <1>3. Up /\ Up'
    BY DEF Take, Up
  <1> QED
    BY <1>2, <1>3, TableSame DEF Take, TheCommand, Service!Take

LEMMA LinesOf == \A k \in DOMAIN tasks : ~tasks[k].closed => LineOf(tasks[k]) \in SnapshotLines
  BY DEF SnapshotLines

LEMMA LineFields ==
    \A t : /\ LineOf(t).id = t.id /\ LineOf(t).handle = t.handle
           /\ LineOf(t).activated = t.activated
           /\ Service!IsShell(LineOf(t)) <=> is_shell_task(t)
  BY DEF LineOf, Service!IsShell, is_shell_task

(* The lines that a command may act on are those its lookup may find. *)
LEMMA AddressedTasks ==
    ASSUME NEW cmd, cmd.verb \in TaskVerbs
    PROVE  /\ cmd.id # 0 =>
                \A k \in find_task(cmd.id) : LineOf(tasks[k]) \in Service!Addressed(cmd)
           /\ cmd.id = 0 \/ find_task(cmd.id) = {} => Service!Addressed(cmd) = {}
  <1>1. Service!TaskVerb(cmd.verb) /\ ~Service!ActiveVerb(cmd.verb) /\ cmd.verb # "focus-shell"
    BY DEF TaskVerbs, Service!TaskVerb, Service!ActiveVerb
  <1>2. Service!Addressed(cmd) = {l \in SnapshotLines : cmd.id # 0 /\ l.id = cmd.id}
    BY <1>1 DEF Service!Addressed
  <1>3. \A k \in find_task(cmd.id) : LineOf(tasks[k]) \in SnapshotLines /\ LineOf(tasks[k]).id = cmd.id
    BY LinesOf, LineFields DEF find_task
  <1>4. \A l \in SnapshotLines : l.id = cmd.id => find_task(cmd.id) # {}
    BY LineFields DEF SnapshotLines, find_task
  <1> QED
    BY <1>2, <1>3, <1>4

LEMMA AddressedActive ==
    ASSUME NEW cmd, cmd.verb \in ActiveVerbs
    PROVE  /\ \A k \in active_task(FALSE) : LineOf(tasks[k]) \in Service!Addressed(cmd)
           /\ active_task(FALSE) = {} => Service!Addressed(cmd) = {}
  <1>1. ~Service!TaskVerb(cmd.verb) /\ Service!ActiveVerb(cmd.verb) /\ cmd.verb # "focus-shell"
    BY DEF ActiveVerbs, Service!TaskVerb, Service!ActiveVerb
  <1>2. Service!Addressed(cmd) = {l \in SnapshotLines : l.activated /\ ~Service!IsShell(l)}
    BY <1>1 DEF Service!Addressed
  <1>3. \A k \in active_task(FALSE) :
          LET l == LineOf(tasks[k]) IN l \in SnapshotLines /\ l.activated /\ ~Service!IsShell(l)
    BY LinesOf, LineFields DEF active_task
  <1>4. \A l \in SnapshotLines : l.activated /\ ~Service!IsShell(l) => active_task(FALSE) # {}
    BY LineFields DEF SnapshotLines, active_task
  <1> QED
    BY <1>2, <1>3, <1>4

LEMMA AddressedShell ==
    ASSUME NEW cmd, cmd.verb = "focus-shell"
    PROVE  /\ \A k \in shell_task : LineOf(tasks[k]) \in Service!Addressed(cmd)
           /\ shell_task = {} => Service!Addressed(cmd) = {}
  <1>1. ~Service!TaskVerb(cmd.verb) /\ ~Service!ActiveVerb(cmd.verb)
    BY DEF Service!TaskVerb, Service!ActiveVerb
  <1>2. Service!Addressed(cmd) = {l \in SnapshotLines : Service!IsShell(l)}
    BY <1>1 DEF Service!Addressed
  <1>3. \A k \in shell_task :
          LET l == LineOf(tasks[k]) IN l \in SnapshotLines /\ Service!IsShell(l)
    BY LinesOf, LineFields DEF shell_task
  <1>4. \A l \in SnapshotLines : Service!IsShell(l) => shell_task # {}
    BY LineFields DEF SnapshotLines, shell_task
  <1> QED
    BY <1>2, <1>3, <1>4

(* Sending message m to the client whose line is handled. *)
LEMMA ServiceSend ==
    ASSUME TypeOK, ConnInv, ConnInv', NEW S, Take(S), NEW m \in Message, send(i, m),
           AgentUnchanged, WorldUnchanged
    PROVE  /\ Service!Take(clients[i].conn)
           /\ TheCommand.verb \in S
           /\ Service!Queue(clients[i].conn, m)
           /\ UNCHANGED Subscribers
  <1>1. i \in DOMAIN clients
    BY TypeTake
  <1>2. /\ Changes(i) /\ clients'[i].output = Append(clients[i].output, m)
        /\ clients'[i].subscribed = clients[i].subscribed
    BY <1>1, SendChanges
  <1>3. UNCHANGED <<peer, backlog, toPeer, tasks, changed, view, pc>>
    BY DEF AgentUnchanged, WorldUnchanged
  <1>4. /\ Service!Queue(clients[i].conn, m)
        /\ UNCHANGED <<Waiting, Served>> /\ UNCHANGED Subscribers
    BY <1>1, <1>2, <1>3, ServiceQueue
  <1> QED
    BY <1>3, <1>4, ServiceTake

LEMMA RepliesAre ==
    /\ SnapshotMessage(TRUE) = Service!Snapshot(TRUE)
    /\ \A kind : Answer(kind) = Service!Reply(kind)
  BY DEF SnapshotMessage, Answer, Service!Snapshot, Service!Reply

LEMMA ServiceShow ==
    ASSUME TypeOK, ConnInv, ConnInv', List \/ Subscribe
    PROVE  Service!Show(clients[i].conn)
  <1>1. SnapshotMessage(TRUE) \in Message
    BY SnapshotType
  <1>2. CASE List
    <2>1. /\ Take({"list"}) /\ send(i, SnapshotMessage(TRUE))
          /\ AgentUnchanged /\ WorldUnchanged /\ UNCHANGED requests
      BY <1>2 DEF List, ReplyOnly
    <2>2. PICK m \in Message : m = SnapshotMessage(TRUE)
      BY <1>1
    <2>3. send(i, m)
      BY <2>1, <2>2
    <2>4. /\ Service!Take(clients[i].conn) /\ TheCommand.verb \in {"list"}
          /\ Service!Queue(clients[i].conn, m) /\ UNCHANGED Subscribers
      BY <2>1, <2>3, ServiceSend
    <2> QED
      BY <2>1, <2>2, <2>4, RepliesAre DEF Service!Show, TheCommand
  <1>3. CASE Subscribe
    <2>1. /\ Take({"subscribe"}) /\ UNCHANGED requests
          /\ UNCHANGED <<peer, backlog, toPeer, tasks, changed, view, pc>>
      BY <1>3 DEF Subscribe, AgentUnchanged, WorldUnchanged
    <2>2. i \in DOMAIN clients
      BY <2>1, TypeTake
    <2>3. PICK cl : cl = [clients[i] EXCEPT !.subscribed = TRUE,
                                            !.output = Append(@, SnapshotMessage(TRUE))]
      OBVIOUS
    <2>4. /\ cl.conn = clients[i].conn /\ cl.subscribed
          /\ cl.output = Append(clients[i].output, SnapshotMessage(TRUE))
      BY <2>2, <2>3, ClientTypes DEF Client
    <2>5. clients' = [clients EXCEPT ![i] = cl]
      BY <1>3, <2>3 DEF Subscribe
    <2>6. /\ Changes(i) /\ clients'[i].subscribed
          /\ clients'[i].output = Append(clients[i].output, SnapshotMessage(TRUE))
      BY <2>2, <2>4, <2>5 DEF Changes
    <2>7. /\ Service!Queue(clients[i].conn, SnapshotMessage(TRUE))
          /\ UNCHANGED <<Waiting, Served>>
          /\ Subscribers' = Subscribers \cup {clients[i].conn}
      BY <1>1, <2>1, <2>2, <2>6, ServiceQueue
    <2>8. Service!Take(clients[i].conn) /\ TheCommand.verb = "subscribe"
      BY <2>1, <2>7, ServiceTake
    <2> QED
      BY <2>1, <2>7, <2>8, RepliesAre DEF Service!Show, TheCommand
  <1> QED
    BY <1>2, <1>3

LEMMA ServiceGreet ==
    ASSUME TypeOK, ConnInv, ConnInv', Hello \/ UnknownCommand \/ BlankLine
    PROVE  Service!Greet(clients[i].conn)
  <1>1. Answer("hello") \in Message /\ Answer("error") \in Message
    BY SnapshotType
  <1>2. CASE Hello
    <2>1. /\ Take({"hello"}) /\ send(i, Answer("hello"))
          /\ AgentUnchanged /\ WorldUnchanged /\ UNCHANGED requests
      BY <1>2 DEF Hello, ReplyOnly
    <2>2. /\ Service!Take(clients[i].conn) /\ TheCommand.verb = "hello"
          /\ Service!Queue(clients[i].conn, Answer("hello")) /\ UNCHANGED Subscribers
      BY <1>1, <2>1, ServiceSend
    <2> QED
      BY <2>1, <2>2, RepliesAre DEF Service!Greet, TheCommand
  <1>3. CASE UnknownCommand
    <2>1. /\ Take({"unknown"}) /\ send(i, Answer("error"))
          /\ AgentUnchanged /\ WorldUnchanged /\ UNCHANGED requests
      BY <1>3 DEF UnknownCommand, ReplyOnly
    <2>2. /\ Service!Take(clients[i].conn) /\ TheCommand.verb = "unknown"
          /\ Service!Queue(clients[i].conn, Answer("error")) /\ UNCHANGED Subscribers
      BY <1>1, <2>1, ServiceSend
    <2> QED
      BY <2>1, <2>2, RepliesAre DEF Service!Greet, TheCommand
  <1>4. CASE BlankLine
    <2>1. /\ Take({"blank"}) /\ UNCHANGED <<requests, clients>>
          /\ UNCHANGED <<peer, backlog, toPeer, tasks, changed, view, pc>>
      BY <1>4 DEF BlankLine, AgentUnchanged, WorldUnchanged
    <2>2. UNCHANGED memberView /\ UNCHANGED Queues
      BY <2>1, MembersSame, QueuesSame
    <2>3. Service!Take(clients[i].conn) /\ TheCommand.verb = "blank"
      BY <2>1, <2>2, ServiceTake DEF memberView
    <2> QED
      BY <2>1, <2>2, <2>3 DEF Service!Greet, TheCommand, memberView
  <1> QED
    BY <1>2, <1>3, <1>4

(* A handler that sends requests for task k. *)
LEMMA ServicePerform ==
    ASSUME TypeOK, ConnInv, ConnInv', NEW S, Take(S), NEW k \in DOMAIN tasks, NEW kinds,
           Perform(kinds, k), kinds = Service!Kinds(TheCommand.verb),
           ~Service!Refused(TheCommand), LineOf(tasks[k]) \in Service!Addressed(TheCommand),
           S \subseteq TaskVerbs \cup ActiveVerbs \cup {"focus-shell"}
    PROVE  Service!Act(clients[i].conn)
  <1>1. /\ send(i, Answer("ok")) /\ AgentUnchanged /\ WorldUnchanged
        /\ requests' = requests \o [n \in DOMAIN kinds |->
                          [kind |-> kinds[n], handle |-> tasks[k].handle, verb |-> TheCommand.verb]]
    BY DEF Perform
  <1>2. Answer("ok") \in Message
    BY SnapshotType
  <1>3. /\ Service!Take(clients[i].conn) /\ TheCommand.verb \in S
        /\ Service!Queue(clients[i].conn, Answer("ok")) /\ UNCHANGED Subscribers
    BY <1>1, <1>2, ServiceSend
  <1>4. Service!Perform(clients[i].conn, LineOf(tasks[k]))
    BY <1>1, <1>3, RepliesAre, LineFields DEF Service!Perform, TheCommand
  <1>5. \/ Service!TaskVerb(TheCommand.verb) \/ Service!ActiveVerb(TheCommand.verb)
        \/ TheCommand.verb = "focus-shell"
    BY <1>3 DEF TaskVerbs, ActiveVerbs, Service!TaskVerb, Service!ActiveVerb
  <1> QED
    BY <1>3, <1>4, <1>5 DEF Service!Act, TheCommand

LEMMA ServiceRefuses ==
    ASSUME TypeOK, ConnInv, ConnInv', NEW S, Take(S), ReplyOnly(Answer("error")),
           Service!Refused(TheCommand),
           S \subseteq TaskVerbs \cup ActiveVerbs \cup {"focus-shell"}
    PROVE  Service!Act(clients[i].conn)
  <1>1. send(i, Answer("error")) /\ AgentUnchanged /\ WorldUnchanged /\ UNCHANGED requests
    BY DEF ReplyOnly
  <1>2. Answer("error") \in Message
    BY SnapshotType
  <1>3. /\ Service!Take(clients[i].conn) /\ TheCommand.verb \in S
        /\ Service!Queue(clients[i].conn, Answer("error")) /\ UNCHANGED Subscribers
    BY <1>1, <1>2, ServiceSend
  <1>4. \/ Service!TaskVerb(TheCommand.verb) \/ Service!ActiveVerb(TheCommand.verb)
        \/ TheCommand.verb = "focus-shell"
    BY <1>3 DEF TaskVerbs, ActiveVerbs, Service!TaskVerb, Service!ActiveVerb
  <1> QED
    BY <1>1, <1>3, <1>4, RepliesAre DEF Service!Act, TheCommand

LEMMA ServiceTask ==
    ASSUME TypeOK, ConnInv, ConnInv', TaskCommand \/ TaskCommandRefused
    PROVE  Service!Act(clients[i].conn)
  <1>1. Take(TaskVerbs) /\ TheCommand.verb \in TaskVerbs
    BY DEF TaskCommand, TaskCommandRefused, Take, TheCommand
  <1>2. /\ TheCommand.id # 0 =>
             \A k \in find_task(TheCommand.id) : LineOf(tasks[k]) \in Service!Addressed(TheCommand)
        /\ TheCommand.id = 0 \/ find_task(TheCommand.id) = {}
             => Service!Addressed(TheCommand) = {}
    BY <1>1, AddressedTasks
  <1>3. TheCommand.verb # "focus-shell"
    BY <1>1 DEF TaskVerbs
  <1>4. CASE TaskCommand
    <2>1. PICK k \in find_task(TheCommand.id) : Perform(RequestsOf(TheCommand.verb), k)
      BY <1>4 DEF TaskCommand
    <2>2. LineOf(tasks[k]) \in Service!Addressed(TheCommand) /\ k \in DOMAIN tasks
      BY <1>2, <1>4, <2>1 DEF TaskCommand, find_task
    <2>3. ~Service!Refused(TheCommand)
      BY <1>3, <1>4, <2>2 DEF Service!Refused, TaskCommand
    <2>4. RequestsOf(TheCommand.verb) = Service!Kinds(TheCommand.verb)
      BY <1>1 DEF TaskVerbs, RequestsOf, Service!Kinds
    <2> QED
      BY <1>1, <2>1, <2>2, <2>3, <2>4, ServicePerform
  <1>5. CASE TaskCommandRefused
    <2>1. Service!Refused(TheCommand)
      BY <1>2, <1>5 DEF TaskCommandRefused, Service!Refused
    <2> QED
      BY <1>1, <1>5, <2>1, ServiceRefuses DEF TaskCommandRefused
  <1> QED
    BY <1>4, <1>5

LEMMA ServiceFocus ==
    ASSUME TypeOK, ConnInv, ConnInv', FocusShell
    PROVE  Service!Act(clients[i].conn)
  <1>1. Take({"focus-shell"}) /\ TheCommand.verb = "focus-shell"
    BY DEF FocusShell, Take, TheCommand
  <1>2. /\ \A k \in shell_task : LineOf(tasks[k]) \in Service!Addressed(TheCommand)
        /\ shell_task = {} => Service!Addressed(TheCommand) = {}
    BY <1>1, AddressedShell
  <1>3. CASE (shell_task = {} \/ ~HasSeat) /\ ReplyOnly(Answer("error"))
    <2>1. Service!Refused(TheCommand)
      BY <1>1, <1>2, <1>3 DEF Service!Refused
    <2> QED
      BY <1>1, <1>3, <2>1, ServiceRefuses
  <1>4. CASE HasSeat /\ \E k \in shell_task : Perform(<<"activate">>, k)
    <2>1. PICK k \in shell_task : Perform(<<"activate">>, k)
      BY <1>4
    <2>2. LineOf(tasks[k]) \in Service!Addressed(TheCommand) /\ k \in DOMAIN tasks
      BY <1>2, <2>1 DEF shell_task
    <2>3. ~Service!Refused(TheCommand)
      BY <1>4, <2>2 DEF Service!Refused
    <2>4. <<"activate">> = Service!Kinds(TheCommand.verb)
      BY <1>1 DEF Service!Kinds
    <2> QED
      BY <1>1, <2>1, <2>2, <2>3, <2>4, ServicePerform
  <1> QED
    BY <1>3, <1>4 DEF FocusShell

LEMMA ServiceActive ==
    ASSUME TypeOK, ConnInv, ConnInv', ActiveCommand
    PROVE  Service!Act(clients[i].conn)
  <1>1. Take(ActiveVerbs) /\ TheCommand.verb \in ActiveVerbs
    BY DEF ActiveCommand, Take, TheCommand
  <1>2. /\ \A k \in active_task(FALSE) : LineOf(tasks[k]) \in Service!Addressed(TheCommand)
        /\ active_task(FALSE) = {} => Service!Addressed(TheCommand) = {}
    BY <1>1, AddressedActive
  <1>3. CASE active_task(FALSE) = {} /\ ReplyOnly(Answer("error"))
    <2>1. Service!Refused(TheCommand)
      BY <1>2, <1>3 DEF Service!Refused
    <2> QED
      BY <1>1, <1>3, <2>1, ServiceRefuses
  <1>4. ASSUME NEW k \in active_task(FALSE),
               Perform(IF TheCommand.verb = "minimize-active"
                       THEN <<"set_minimized">> ELSE <<"close">>, k)
        PROVE  Service!Act(clients[i].conn)
    <2>1. PICK kinds : kinds = IF TheCommand.verb = "minimize-active"
                               THEN <<"set_minimized">> ELSE <<"close">>
      OBVIOUS
    <2>2. LineOf(tasks[k]) \in Service!Addressed(TheCommand) /\ k \in DOMAIN tasks
      BY <1>2, <1>4 DEF active_task
    <2>3. ~Service!Refused(TheCommand)
      BY <1>1, <2>2 DEF Service!Refused, ActiveVerbs
    <2>4. kinds = Service!Kinds(TheCommand.verb)
      BY <1>1, <2>1 DEF ActiveVerbs, Service!Kinds
    <2>5. Perform(kinds, k)
      BY <1>4, <2>1
    <2> QED
      BY <1>1, <2>2, <2>3, <2>4, <2>5, ServicePerform
  <1> QED
    BY <1>3, <1>4 DEF ActiveCommand

LEMMA HasFirst == ASSUME NEW S, S \subseteq Nat, S # {} PROVE \E k \in S : IsFirst(k, S)
  <1>1. IsWellFoundedOn(OpToRel(<, Nat), Nat)
    BY NatLessThanWellFounded
  <1>2. PICK k \in S : \A j \in S : ~ (<<j, k>> \in OpToRel(<, Nat))
    BY <1>1, WFMin
  <1>3. \A j \in S : ~(j < k)
    BY <1>2 DEF OpToRel
  <1>4. \A j \in S : k <= j
    BY <1>3
  <1> QED
    BY <1>4 DEF IsFirst

(* The first active task decides, and it is one of the active lines. *)
LEMMA ServiceActiveIsShell ==
    ASSUME TypeOK, ConnInv, ConnInv', ActiveIsShell
    PROVE  Service!ActiveIsShell(clients[i].conn)
  <1> DEFINE first(k) == k \in active_task(TRUE) /\ IsFirst(k, active_task(TRUE))
             yes == \E k \in active_task(TRUE) : /\ IsFirst(k, active_task(TRUE))
                                                 /\ is_shell_task(tasks[k])
             active == {l \in SnapshotLines : l.activated}
  <1>1. PICK m \in Message : /\ m = Answer(IF yes THEN "ok" ELSE "error")
                             /\ yes => m = Service!Reply("ok")
                             /\ ~yes => m = Service!Reply("error")
    <2>1. PICK kind \in {"ok", "error"} : kind = IF yes THEN "ok" ELSE "error"
      OBVIOUS
    <2>2. Answer(kind) \in Message
      BY SnapshotType
    <2> QED
      BY <2>1, <2>2, RepliesAre
  <1>2. /\ Take({"active-is-shell"}) /\ send(i, m)
        /\ AgentUnchanged /\ WorldUnchanged /\ UNCHANGED requests
    BY <1>1 DEF ActiveIsShell, ReplyOnly
  <1>3. /\ Service!Take(clients[i].conn) /\ TheCommand.verb \in {"active-is-shell"}
        /\ Service!Queue(clients[i].conn, m) /\ UNCHANGED Subscribers
    BY <1>2, ServiceSend
  <1>4. \A k \in active_task(TRUE) :
          LineOf(tasks[k]) \in active /\ (Service!IsShell(LineOf(tasks[k])) <=> is_shell_task(tasks[k]))
    BY LinesOf, LineFields DEF active_task
  <1>5. yes => \E l \in active : Service!IsShell(l)
    BY <1>4
  <1>6. active # {} => \E k \in active_task(TRUE) : IsFirst(k, active_task(TRUE))
    <2>1. ASSUME active # {} PROVE active_task(TRUE) # {}
      BY <2>1, LineFields DEF SnapshotLines, active_task
    <2>2. active_task(TRUE) \subseteq Nat
      BY DEF active_task, TypeOK
    <2> QED
      BY <2>1, <2>2, HasFirst
  <1>7. ~yes /\ active # {} => \E l \in active : ~Service!IsShell(l)
    BY <1>4, <1>6
  <1> QED
    BY <1>1, <1>2, <1>3, <1>5, <1>7 DEF Service!ActiveIsShell, TheCommand

LEMMA ServiceHandles ==
    ASSUME TypeOK, ConnInv, ConnInv', handle_command, ~OverlongLine
    PROVE  Service!Handle(clients[i].conn)
  BY ServiceTask, ServiceFocus, ServiceActive, ServiceActiveIsShell, ServiceShow, ServiceGreet
     DEF handle_command, Service!Handle

----------------------------------------------------------------------------
(* Connections *)

LEMMA ServiceAccept ==
    ASSUME TypeOK, ConnInv, ConnInv', accept_client
    PROVE  \E c \in Conns : Service!Accept(c)
  <1>1. /\ \A n \in DOMAIN backlog' : /\ n + 1 \in DOMAIN backlog /\ n + 1 # 1 /\ n \in Nat
                                       /\ backlog'[n] = backlog[n + 1]
        /\ 1 \in DOMAIN backlog /\ Head(backlog) = backlog[1] /\ Head(backlog) \in Conns
    BY BacklogTail DEF accept_client
  <1>2. PICK c \in Conns : c = backlog[1] /\ c = Head(backlog)
    BY <1>1
  <1>3. Waiting' = Waiting \ {c}
    <2>1. backlog \in Seq(Conns) /\ backlog # <<>> /\ backlog' = Tail(backlog)
      BY DEF TypeOK, accept_client
    <2>2. \A n \in DOMAIN backlog : n # 1 => n - 1 \in DOMAIN backlog' /\ (n - 1) + 1 = n
      BY <2>1
    <2>3. \A n \in DOMAIN backlog : n # 1 => backlog[n] \in Waiting'
      BY <1>1, <2>2 DEF Waiting
    <2>4. \A n \in DOMAIN backlog : backlog[n] = c => n = 1
      BY <1>1, <1>2 DEF ConnInv
    <2>5. \A x \in Waiting' : x \in Waiting /\ x # c
      BY <1>1, <2>4 DEF Waiting
    <2>6. \A x \in Waiting \ {c} : x \in Waiting'
      BY <1>2, <2>3 DEF Waiting
    <2> QED
      BY <2>5, <2>6
  <1>4. PICK L \in Nat : /\ DOMAIN clients' = DOMAIN clients \cup {L} /\ L \notin DOMAIN clients
                         /\ clients'[L].conn = c
                         /\ ~clients'[L].subscribed /\ clients'[L].output = <<>>
                         /\ \A j \in DOMAIN clients : clients'[j] = clients[j]
    BY <1>2, AcceptedClient
  <1>5. Served' = Served \cup {c} /\ Subscribers' = Subscribers
    BY <1>4 DEF Served, Subscribers
  <1>6. \A d \in Conns : OutputOf(d)' = OutputOf(d)
    <2>1. \A k \in DOMAIN clients : clients[k].conn # c
      BY <1>1, <1>2 DEF ConnInv
    <2>2. ASSUME NEW d \in Conns, NEW k \in DOMAIN clients, clients[k].conn = d
          PROVE  OutputOf(d)' = OutputOf(d)
      BY <1>4, <2>2, OutputNow
    <2>3. ASSUME NEW d \in Conns, d # c, \A k \in DOMAIN clients : clients[k].conn # d
          PROVE  OutputOf(d)' = OutputOf(d)
      <3>1. \A k \in DOMAIN clients' : clients'[k].conn # d
        BY <1>4, <2>3
      <3> QED
        BY <2>3, <3>1, OutputNow
    <2>4. OutputOf(c)' = OutputOf(c)
      BY <1>4, <2>1, OutputNow
    <2> QED
      BY <2>2, <2>3, <2>4
  <1>7. /\ Up /\ Up' /\ c \in Waiting
        /\ UNCHANGED <<tasks, changed, peer, toAgent, toPeer, view, requests>>
    BY <1>1, <1>2 DEF accept_client, Up, Waiting, compVars
  <1>8. Queues' = Queues
    BY <1>6, <1>7 DEF Queues, QueueOf
  <1>9. UNCHANGED SnapshotLines
    BY <1>7, TableSame
  <1>10. Service!Accept(c)
    BY <1>3, <1>5, <1>7, <1>8, <1>9 DEF Service!Accept, Service!callVars
  <1> QED
    BY <1>10

LEMMA BeginsWith ==
    ASSUME NEW p \in Seq(Message), NEW q \in Seq(Message)
    PROVE  Service!Begins(p, p) /\ Service!Begins(p, p \o q)
  <1>1. Len(p) \in Nat /\ Len(q) \in Nat /\ Len(p \o q) = Len(p) + Len(q)
    OBVIOUS
  <1>2. Len(p) <= Len(p) /\ Len(p) <= Len(p \o q)
    BY <1>1
  <1>3. p = SubSeq(p, 1, Len(p))
    OBVIOUS
  <1>4. p = SubSeq(p \o q, 1, Len(p))
    OBVIOUS
  <1> QED
    BY <1>2, <1>3, <1>4 DEF Service!Begins

(* Whatever was not yet written is lost when the agent closes a connection. *)
LEMMA QueueCut ==
    ASSUME TypeOK, NEW c \in Conns, toPeer'[c] = toPeer[c], peer'[c] # "open"
    PROVE  QueueOf(c)' = toPeer[c] /\ Service!Begins(QueueOf(c)', QueueOf(c))
  <1>1. QueueOf(c)' = toPeer[c]
    BY DEF QueueOf
  <1>2. toPeer[c] \in Seq(Message) /\ OutputOf(c) \in Seq(Message)
    BY SocketTypes
  <1>3. PICK p, q : p = toPeer[c] /\ q = OutputOf(c)
    OBVIOUS
  <1>4. QueueOf(c) = p \/ QueueOf(c) = p \o q
    BY <1>3 DEF QueueOf
  <1> QED
    BY <1>1, <1>2, <1>3, <1>4, BeginsWith

LEMMA ServiceGivesUp ==
    ASSUME TypeOK, ConnInv, ConnInv', NEW k \in DOMAIN clients, Closes(k), Up, Up',
           UNCHANGED requests,
           \/ toAgent' = toAgent
           \/ /\ toAgent[clients[k].conn] # <<>>
              /\ Head(toAgent[clients[k].conn]).verb = "overlong"
              /\ toAgent' = [toAgent EXCEPT ![clients[k].conn] = Tail(@)]
    PROVE  Service!GiveUp(clients[k].conn)
  <1>1. PICK c \in Conns : c = clients[k].conn
    BY ClientTypes
  <1>2. /\ clients' = Erase(clients, k)
        /\ peer' = [peer EXCEPT ![c] = IF @ = "open" THEN "dropped" ELSE @]
        /\ UNCHANGED <<tasks, changed, backlog, toPeer, view>>
    BY <1>1 DEF Closes, close_client
  <1>3. /\ \A j \in DOMAIN clients' : \E n \in DOMAIN clients \ {k} : clients'[j] = clients[n]
        /\ \A n \in DOMAIN clients \ {k} : \E j \in DOMAIN clients' : clients'[j] = clients[n]
    BY <1>2, ErasedClients
  <1>4. \A n \in DOMAIN clients : clients[n].conn = c <=> n = k
    BY <1>1 DEF ConnInv
  <1>5. Served' = Served \ {c}
    BY <1>3, <1>4 DEF Served
  <1>6. Subscribers' = Subscribers \ {c}
    BY <1>3, <1>4 DEF Subscribers
  <1>7. UNCHANGED Waiting /\ UNCHANGED SnapshotLines
    BY <1>2, TableSame DEF Waiting
  <1>8. peer'[c] # "open" /\ \A d \in Conns \ {c} : peer'[d] = peer[d]
    BY <1>2 DEF TypeOK
  <1>9. QueueOf(c)' = Queues'[c] /\ Queues[c] = QueueOf(c) /\ Service!Begins(QueueOf(c)', QueueOf(c))
    BY <1>2, <1>8, QueueCut DEF Queues
  <1>10. \A d \in Conns \ {c} : QueueOf(d)' = QueueOf(d)
    BY <1>1, <1>2, <1>8, OutputKept DEF QueueOf
  <1>11. Queues' = [Queues EXCEPT ![c] = Queues'[c]]
    BY <1>10 DEF Queues
  <1>12. c \in Served
    BY <1>1 DEF Served
  <1> QED
    BY <1>1, <1>2, <1>5, <1>6, <1>7, <1>9, <1>11, <1>12 DEF Service!GiveUp

LEMMA ServiceStops ==
    ASSUME TypeOK, HangsUp, Up, ~Up', UNCHANGED requests
    PROVE  Service!Stop
  <1>1. /\ peer' = [c \in Conns |-> IF peer[c] = "open" THEN "dropped" ELSE peer[c]]
        /\ UNCHANGED <<tasks, changed, clients, backlog, toAgent, toPeer, view>>
    BY DEF HangsUp, HangUpOnAll
  <1>2. UNCHANGED memberView /\ UNCHANGED SnapshotLines
    BY <1>1, TableSame, MembersSame
  <1>3. ASSUME NEW c \in Conns PROVE Service!Begins(Queues'[c], Queues[c])
    <2>1. peer'[c] # "open"
      BY <1>1
    <2> QED
      BY <1>1, <2>1, QueueCut DEF Queues
  <1>4. Queues' = [c \in Conns |-> Queues'[c]]
    BY DEF Queues
  <1>5. (Up' = FALSE) /\ Up
    BY DEF Up
  <1> QED
    BY <1>1, <1>2, <1>3, <1>4, <1>5 DEF Service!Stop, memberView

(* A write moves a message from the output buffer to the socket. *)
LEMMA ServiceWrite ==
    ASSUME TypeOK, ConnInv, ConnInv', FlushWrite
    PROVE  UNCHANGED serviceView
  <1>1. PICK k \in DOMAIN clients : k = i /\ Writes(k)
    BY WriteKinds DEF Writes
  <1>2. PICK c \in Conns : c = clients[k].conn
    BY ClientTypes
  <1>3. /\ Changes(k) /\ clients[k].output # <<>>
        /\ clients'[k].output = Tail(clients[k].output)
        /\ clients'[k].subscribed = clients[k].subscribed
        /\ toPeer'[c] = Append(toPeer[c], Head(clients[k].output))
        /\ \A d \in Conns \ {c} : toPeer'[d] = toPeer[d]
        /\ UNCHANGED <<tasks, changed, backlog, peer, toAgent, view>>
    BY <1>1, <1>2 DEF Writes
  <1>4. peer[c] = "open" /\ Up' = Up /\ UNCHANGED requests
    BY <1>1, <1>2 DEF FlushWrite, Up, compVars
  <1>5. UNCHANGED memberView
    BY <1>3 DEF Changes, memberView, Waiting, Served, Subscribers
  <1>6. QueueOf(c)' = QueueOf(c)
    <2>1. PICK p, q : p = toPeer[c] /\ q = clients[k].output
      OBVIOUS
    <2>2. p \in Seq(Message) /\ q \in Seq(Message) /\ q # <<>>
      BY <1>2, <1>3, <2>1, ClientTypes, SocketTypes
    <2>3. Append(p, Head(q)) \o Tail(q) = p \o q
      <3>1. Head(q) \in Message
        BY <2>2
      <3> QED
        BY <2>2, <3>1, QueueMoves
    <2>4. OutputOf(c) = q /\ OutputOf(c)' = Tail(q)
      BY <1>2, <1>3, <2>1, OutputNow DEF Changes
    <2>5. QueueOf(c) = p \o q /\ QueueOf(c)' = Append(p, Head(q)) \o Tail(q)
      BY <1>3, <1>4, <2>1, <2>4 DEF QueueOf
    <2> QED
      BY <2>3, <2>5
  <1>7. \A d \in Conns \ {c} : QueueOf(d)' = QueueOf(d)
    BY <1>2, <1>3, OthersKept DEF QueueOf
  <1>8. UNCHANGED Queues
    BY <1>6, <1>7 DEF Queues
  <1>9. UNCHANGED SnapshotLines
    BY <1>3, TableSame
  <1> QED
    BY <1>3, <1>4, <1>5, <1>8, <1>9 DEF serviceView, memberView

LEMMA ServicePeers ==
    ASSUME TypeOK, ConnInv, PeerStep
    PROVE  \E c \in Conns : \/ Service!Connect(c) \/ Service!Deliver(c) \/ Service!HangUp(c)
                            \/ \E cmd \in Commands : Service!Send(c, cmd)
  <1>1. UNCHANGED <<tasks, changed, clients, requests, pc>>
    BY DEF PeerStep, Connect, SendCommand, Receive, HangUp, agentVars, compVars
  <1>2. UNCHANGED SnapshotLines /\ Up' = Up
    BY <1>1, TableSame DEF Up
  <1>3. UNCHANGED <<Served, Subscribers>> /\ \A c : OutputOf(c)' = OutputOf(c)
    BY <1>1 DEF Served, Subscribers, OutputOf
  <1>4. ASSUME NEW c \in Conns, Connect(c)
        PROVE  \E d \in Conns : Service!Connect(d)
    <2>1. Up /\ peer[c] = "idle" /\ peer' = [peer EXCEPT ![c] = "open"]
      BY <1>4 DEF Connect, Up
    <2>2. Waiting' = Waiting \cup {c}
      <3>1. backlog \in Seq(Conns) /\ backlog' = Append(backlog, c)
        BY <1>4 DEF Connect, TypeOK
      <3>2. PICK L \in Nat : L = Len(backlog) /\ DOMAIN backlog = 1 .. L
        BY <3>1
      <3>3. DOMAIN backlog' = DOMAIN backlog \cup {L + 1} /\ backlog'[L + 1] = c
            /\ \A n \in DOMAIN backlog : backlog'[n] = backlog[n]
        BY <3>1, <3>2
      <3> QED
        BY <3>2, <3>3 DEF Waiting
    <2>3. QueueOf(c)' = QueueOf(c)
      <3>1. OutputOf(c) = <<>>
        BY <2>1 DEF OutputOf, ConnInv
      <3>2. PICK p \in Seq(Message) : p = toPeer[c]
        BY SocketTypes
      <3>3. p \o <<>> = p
        OBVIOUS
      <3>4. peer'[c] = "open" /\ toPeer' = toPeer
        BY <1>4 DEF Connect, TypeOK
      <3> QED
        BY <1>3, <2>1, <3>1, <3>2, <3>3, <3>4 DEF QueueOf
    <2>4. \A d \in Conns \ {c} : QueueOf(d)' = QueueOf(d)
      BY <1>3, <1>4, <2>1 DEF Connect, QueueOf, TypeOK
    <2>5. Queues' = Queues
      BY <2>3, <2>4 DEF Queues
    <2> QED
      BY <1>1, <1>2, <1>3, <1>4, <2>1, <2>2, <2>5 DEF Connect, Service!Connect, Service!callVars
  <1>5. ASSUME NEW c \in Conns, NEW cmd \in Commands, SendCommand(c, cmd)
        PROVE  Service!Send(c, cmd)
    <2>1. UNCHANGED <<clients, backlog, peer, toPeer>>
      BY <1>1, <1>5 DEF SendCommand
    <2>2. UNCHANGED memberView /\ UNCHANGED Queues
      BY <2>1, MembersSame, QueuesSame
    <2> QED
      BY <1>1, <1>2, <1>5, <2>2 DEF SendCommand, Service!Send, Service!memberVars, memberView
  <1>6. ASSUME NEW c \in Conns, Receive(c)
        PROVE  Service!Deliver(c)
    <2>1. UNCHANGED <<clients, backlog, peer, toAgent>>
      BY <1>1, <1>6 DEF Receive
    <2>2. UNCHANGED memberView
      BY <2>1, MembersSame
    <2>3. PICK p, q : p = toPeer[c] /\ q = OutputOf(c)
      OBVIOUS
    <2>4. p \in Seq(Message) /\ q \in Seq(Message) /\ p # <<>>
      BY <1>6, <2>3, SocketTypes DEF Receive
    <2>5. Tail(p) \o q = Tail(p \o q) /\ p \o q # <<>> /\ Head(p \o q) = Head(p)
      <3>1. Head(p) \in Message
        BY <2>4
      <3> QED
        BY <2>4, <3>1, QueueMoves
    <2>6. toPeer'[c] = Tail(p) /\ \A d \in Conns \ {c} : toPeer'[d] = toPeer[d]
      BY <1>6, <2>3 DEF Receive, TypeOK
    <2>7. QueueOf(c) # <<>> /\ Head(QueueOf(c)) = Head(p) /\ QueueOf(c)' = Tail(QueueOf(c))
      BY <1>3, <2>1, <2>3, <2>4, <2>5, <2>6 DEF QueueOf
    <2>8. \A d \in Conns \ {c} : QueueOf(d)' = QueueOf(d)
      BY <1>3, <2>1, <2>6 DEF QueueOf
    <2>9. /\ Queues[c] = QueueOf(c)
          /\ Queues' = [Queues EXCEPT ![c] = Tail(@)]
      BY <2>7, <2>8 DEF Queues
    <2>10. view' = IF Head(p).kind = "snapshot" THEN [view EXCEPT ![c] = Head(p).lines] ELSE view
      BY <1>6, <2>3 DEF Receive
    <2>11. peer[c] \in {"open", "dropped"}
      BY <1>6 DEF Receive
    <2> QED
      BY <1>1, <1>2, <2>1, <2>2, <2>7, <2>9, <2>10, <2>11
         DEF Service!Deliver, Service!memberVars, memberView
  <1>7. ASSUME NEW c \in Conns, HangUp(c)
        PROVE  Service!HangUp(c)
    <2>1. /\ peer[c] = "open" /\ peer' = [peer EXCEPT ![c] = "gone"]
          /\ toPeer' = [toPeer EXCEPT ![c] = <<>>]
          /\ UNCHANGED <<backlog, toAgent, view>>
      BY <1>7 DEF HangUp
    <2>2. UNCHANGED memberView
      BY <1>1, <2>1, MembersSame
    <2>3. peer'[c] = "gone" /\ toPeer'[c] = <<>>
          /\ \A d \in Conns \ {c} : peer'[d] = peer[d] /\ toPeer'[d] = toPeer[d]
      BY <2>1 DEF TypeOK
    <2>4. QueueOf(c)' = <<>> /\ \A d \in Conns \ {c} : QueueOf(d)' = QueueOf(d)
      BY <1>3, <2>3 DEF QueueOf
    <2>5. Queues' = [Queues EXCEPT ![c] = <<>>]
      BY <2>4 DEF Queues
    <2> QED
      BY <1>1, <1>2, <2>1, <2>2, <2>5 DEF Service!HangUp, memberView
  <1> QED
    BY <1>4, <1>5, <1>6, <1>7 DEF PeerStep

----------------------------------------------------------------------------
LEMMA ServiceStart == Init => Service!ServiceInit
  <1> SUFFICES ASSUME Init PROVE Service!ServiceInit
    OBVIOUS
  <1>1. DOMAIN clients = {} /\ DOMAIN backlog = {} /\ DOMAIN tasks = {}
    BY DEF Init
  <1>2. Waiting = {} /\ Served = {} /\ Subscribers = {} /\ SnapshotLines = {}
    BY <1>1 DEF Waiting, Served, Subscribers, SnapshotLines
  <1>3. Queues = [c \in Conns |-> <<>>]
    BY DEF Init, Queues, QueueOf
  <1>4. Up = TRUE
    BY DEF Init, Up
  <1> QED
    BY <1>2, <1>3, <1>4 DEF Init, Service!ServiceInit

LEMMA ServiceStepKept ==
    TypeOK /\ TypeOK' /\ ConnInv /\ ConnInv' /\ [Next]_vars
      => [Service!ServiceStep]_(Service!serviceVars)
  <1> SUFFICES ASSUME TypeOK, TypeOK', ConnInv, ConnInv', [Next]_vars
               PROVE  Service!ServiceStep \/ UNCHANGED Service!serviceVars
    OBVIOUS
  <1>1. CASE LoopExit \/ DispatchFails \/ PollFails
    <2>1. HangsUp /\ Up /\ ~Up' /\ UNCHANGED requests
      BY <1>1 DEF LoopExit, DispatchFails, PollFails, Exit, HangsUp, Up, compVars
    <2> QED
      BY <2>1, ServiceStops DEF Service!ServiceStep
  <1>2. CASE \/ prune_closed
             \/ manager_toplevel \/ manager_finished \/ handle_title \/ handle_app_id
             \/ handle_state \/ handle_done \/ handle_closed
    <2>1. /\ Up /\ Up' /\ changed' = TRUE
          /\ UNCHANGED clientVars /\ UNCHANGED requests
      BY <1>2 DEF prune_closed, manager_toplevel, manager_finished, handle_title, handle_app_id,
                  handle_state, handle_done, handle_closed, Dispatch, Up, clientVars,
                  compVars, peerVars
    <2> QED
      BY <2>1, ServiceChange DEF Service!ServiceStep
  <1>3. CASE PreparePoll
    <2>1. UNCHANGED peerVars
      BY <1>3 DEF PreparePoll, peerVars
    <2>2. CASE changed
      BY <1>3, <2>1, <2>2, ServicePublish DEF Service!ServiceStep
    <2>3. CASE ~changed
      <3>1. UNCHANGED clientVars /\ Up' = Up /\ UNCHANGED <<tasks, requests>> /\ changed' = FALSE
        BY <1>3, <2>3 DEF PreparePoll, Up, clientVars, compVars, peerVars
      <3>2. changed' = changed
        BY <2>3, <3>1 DEF TypeOK
      <3> QED
        BY <3>1, <3>2, Unnoticed, ViewIsService
    <2> QED
      BY <2>2, <2>3
  <1>4. CASE PollReady \/ PollTimeout \/ DispatchDone \/ AcceptDone \/ ClientsDone
    <2>1. UNCHANGED clientVars /\ Up' = Up /\ UNCHANGED <<tasks, changed, requests>>
      BY <1>4 DEF PollReady, PollTimeout, DispatchDone, AfterDispatch, AcceptDone, ClientsDone,
                  Up, clientVars, compVars, peerVars
    <2> QED
      BY <2>1, Unnoticed, ViewIsService
  <1>5. CASE ServeClient \/ ReadAgain \/ FlushDone
    <2>1. UNCHANGED clientVars /\ Up' = Up /\ UNCHANGED <<tasks, changed, requests>>
      BY <1>5 DEF ServeClient, ReadAgain, FlushDone, ServeNext, Up, clientVars, compVars, peerVars
    <2> QED
      BY <2>1, Unnoticed, ViewIsService
  <1>6. CASE Signal
    <2>1. UNCHANGED clientVars /\ Up' = Up /\ UNCHANGED <<tasks, changed, requests>>
      BY <1>6 DEF Signal, Up, clientVars, compVars, peerVars
    <2> QED
      BY <2>1, Unnoticed, ViewIsService
  <1>7. CASE accept_client
    BY <1>7, ServiceAccept DEF Service!ServiceStep
  <1>8. CASE ServeHangup \/ ReadEof \/ FlushBroken
    <2>1. i \in DOMAIN clients /\ Drop /\ Up
      <3>1. i \in DOMAIN clients
        <4>1. i <= Len(clients) \/ pc \in {"read", "flush"}
          BY <1>8 DEF ServeHangup, ReadEof, FlushBroken
        <4>2. /\ clients \in Seq(Client) /\ i \in Nat \ {0}
              /\ pc \in {"read", "flush"} => i <= Len(clients)
          BY DEF TypeOK
        <4> QED
          BY <4>1, <4>2
      <3>2. Drop /\ pc \in {"clients", "read", "flush"}
        BY <1>8 DEF ServeHangup, ReadEof, FlushBroken
      <3> QED
        BY <3>1, <3>2 DEF Up
    <2>2. Closes(i) /\ Up' /\ UNCHANGED <<requests, toAgent>>
      BY <2>1 DEF Drop, Closes, Up, compVars
    <2>3. Service!GiveUp(clients[i].conn)
      BY <2>1, <2>2, ServiceGivesUp
    <2> QED
      BY <2>1, <2>3, ClientTypes DEF Service!ServiceStep
  <1>9. CASE OverlongLine
    <2>1. i \in DOMAIN clients /\ clients[i].conn \in Conns /\ Take({"overlong"})
      BY <1>9, TypeTake DEF OverlongLine
    <2>2. \A c \in Conns \ {clients[i].conn} : toAgent'[c] = toAgent[c]
      BY <2>1 DEF Take, TypeOK
    <2>3. Closes(i) /\ Up /\ Up' /\ UNCHANGED requests
      BY <1>9, <2>1, <2>2 DEF OverlongLine, Take, Closes, Up, compVars
    <2>4. /\ toAgent[clients[i].conn] # <<>>
          /\ Head(toAgent[clients[i].conn]).verb = "overlong"
          /\ toAgent' = [toAgent EXCEPT ![clients[i].conn] = Tail(@)]
      BY <2>1 DEF Take
    <2>5. Service!GiveUp(clients[i].conn)
      BY <2>1, <2>3, <2>4, ServiceGivesUp
    <2> QED
      BY <2>1, <2>5 DEF Service!ServiceStep
  <1>10. CASE handle_command /\ ~OverlongLine
    <2>1. \E m \in Message : Replies(i, m) \/ Skips(i) \/ Closes(i)
      BY <1>10, CommandKinds, SnapshotType
    <2>2. i \in DOMAIN clients
      BY <2>1 DEF Replies, Skips, Closes, Reads
    <2>3. Service!Handle(clients[i].conn) /\ clients[i].conn \in Conns
      BY <1>10, <2>2, ServiceHandles, ClientTypes
    <2> QED
      BY <2>3 DEF Service!ServiceStep
  <1>11. CASE FlushWrite
    BY <1>11, ServiceWrite, ViewIsService
  <1>12. CASE CompositorStep
    <2>1. /\ UNCHANGED clientVars /\ Up' = Up /\ UNCHANGED <<tasks, changed>>
          /\ requests' = requests \/ (requests # <<>> /\ requests' = Tail(requests))
      BY <1>12 DEF CompositorStep, OpenWindow, CloseWindow, FocusWindow, UserOp, HandleRequest,
                   ManagerStops, CompositorExits, agentVars, peerVars, Up, clientVars
    <2>2. CASE requests' = requests
      BY <2>1, <2>2, Unnoticed, ViewIsService
    <2>3. CASE requests # <<>> /\ requests' = Tail(requests)
      <3>1. UNCHANGED memberView /\ UNCHANGED Queues /\ UNCHANGED SnapshotLines
        BY <2>1, MembersSame, QueuesSame, TableSame DEF clientVars
      <3>2. Service!Perceive
        BY <2>1, <2>3, <3>1 DEF Service!Perceive, Service!memberVars, memberView, clientVars
      <3> QED
        BY <3>2 DEF Service!ServiceStep
    <2> QED
      BY <2>1, <2>2, <2>3
  <1>13. CASE PeerStep
    BY <1>13, ServicePeers DEF Service!ServiceStep
  <1>14. CASE UNCHANGED vars
    <2>1. UNCHANGED clientVars /\ Up' = Up /\ UNCHANGED <<tasks, changed, requests>>
      BY <1>14 DEF vars, agentVars, compVars, peerVars, Up, clientVars
    <2> QED
      BY <2>1, Unnoticed, ViewIsService
  <1> QED
    BY <1>1, <1>2, <1>3, <1>4, <1>5, <1>6, <1>7, <1>8, <1>9, <1>10, <1>11, <1>12, <1>13, <1>14
       DEF Next, AgentStep, handle_command

(* To its clients the agent is a TaskService, for any number of toplevels,  *)
(* connections and commands, wherever the events, the erases from clients_  *)
(* and the partial writes of flush_client fall.                             *)
THEOREM AgentImplementsService == Spec => KeepsService
  <1>1. ClientInv => ConnInv
    BY DEF ClientInv
  <1> QED
    BY TypeInit, TypeStep, ClientInit, ClientStep, ServiceStart, ServiceStepKept, <1>1,
       PTL DEF Spec, KeepsService, Service!ServiceSpec

=============================================================================
