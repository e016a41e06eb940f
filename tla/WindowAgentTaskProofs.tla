----------------------- MODULE WindowAgentTaskProofs -----------------------
(***************************************************************************)
(* The agent's table against the compositor's toplevels, for every number  *)
(* of toplevels, clients and commands and however batches of events are    *)
(* cut: minimize-active and close-active spare the Shell, and once no      *)
(* event is under way the table shows the open toplevels as they are.      *)
(*                                                                         *)
(* Neither property is inductive. The first holds because the compositor   *)
(* names a toplevel before it reports its state, the second because what   *)
(* the table does not show yet is still in the wire, behind whatever could *)
(* undo it; the invariants NameInv and TableInv say so of the order of the *)
(* events between the compositor and the table.                            *)
(***************************************************************************)
EXTENDS WindowAgentProofs

TitleAt(m, h) == wire[m].kind = "title" /\ wire[m].handle = h
StateAt(m, h) == wire[m].kind = "state" /\ wire[m].handle = h

(* The title of h is under way behind position j, and no state of h comes   *)
(* first.                                                                   *)
NamedBehind(j, h) ==
    \E m \in DOMAIN wire : /\ j < m
                           /\ TitleAt(m, h)
                           /\ \A n \in DOMAIN wire : j < n /\ n < m => ~StateAt(n, h)

(* Tasks, events and requests are for toplevels that exist. *)
HandlesExist ==
    /\ \A k \in DOMAIN tasks : tasks[k].handle \in DOMAIN top
    /\ \A n \in DOMAIN wire : wire[n].kind # "finished" => wire[n].handle \in DOMAIN top
    /\ \A n \in DOMAIN requests : requests[n].handle \in DOMAIN top

(* The Shell's toplevel h has its name before it can be active. *)
ShellNamed(h) ==
    /\ \A m \in DOMAIN wire : TitleAt(m, h) => wire[m].name = "shell"
    /\ \A m \in DOMAIN wire :
          wire[m].kind = "toplevel" /\ wire[m].handle = h => NamedBehind(m, h)
    /\ \A k \in DOMAIN tasks : tasks[k].handle = h =>
          \/ tasks[k].title = "shell"
          \/ ~tasks[k].activated /\ NamedBehind(0, h)

NameInv == /\ HandlesExist
           /\ \A h \in DOMAIN top : top[h].shell => ShellNamed(h)
           /\ ActiveCommandsSpareShell

nameVars == <<tasks, top, wire, requests>>

LEMMA NamesSame == ASSUME NameInv, UNCHANGED nameVars PROVE NameInv'
  BY DEF NameInv, HandlesExist, ShellNamed, NamedBehind, TitleAt, StateAt,
         ActiveCommandsSpareShell, nameVars

----------------------------------------------------------------------------
(* The wire is read from its front *)

LEMMA WireTail ==
    ASSUME TypeOK, wire # <<>>, wire' = Tail(wire)
    PROVE  /\ \A n \in DOMAIN wire' : n + 1 \in DOMAIN wire /\ wire'[n] = wire[n + 1]
           /\ \A m \in DOMAIN wire : m # 1 => m - 1 \in DOMAIN wire' /\ wire'[m - 1] = wire[m]
           /\ DOMAIN wire \subseteq Nat /\ DOMAIN wire' \subseteq Nat
           /\ 1 \in DOMAIN wire /\ Head(wire) = wire[1]
           /\ \A m \in DOMAIN wire : m >= 1
  <1>1. wire \in Seq(Event)
    BY DEF TypeOK
  <1> QED
    BY <1>1

(* What is behind position j is behind position j - 1 afterwards. *)
LEMMA NamedTail ==
    ASSUME TypeOK, wire # <<>>, wire' = Tail(wire), NEW h, NEW j \in Nat \ {0}, NamedBehind(j, h)
    PROVE  NamedBehind(j - 1, h)'
  <1>1. PICK m \in DOMAIN wire : /\ j < m
                                /\ TitleAt(m, h)
                                /\ \A n \in DOMAIN wire : j < n /\ n < m => ~StateAt(n, h)
    BY DEF NamedBehind
  <1>2. m \in Nat /\ m # 1 /\ m - 1 \in DOMAIN wire' /\ wire'[m - 1] = wire[m]
    BY <1>1, WireTail
  <1>3. j - 1 < m - 1
    BY <1>1, <1>2
  <1>4. TitleAt(m - 1, h)'
    BY <1>1, <1>2 DEF TitleAt
  <1>5. ASSUME NEW n \in DOMAIN wire', j - 1 < n, n < m - 1 PROVE ~StateAt(n, h)'
    <2>1. n + 1 \in DOMAIN wire /\ wire'[n] = wire[n + 1] /\ n \in Nat
      BY WireTail
    <2>2. j < n + 1 /\ n + 1 < m
      BY <1>2, <1>5, <2>1
    <2> QED
      BY <1>1, <2>1, <2>2 DEF StateAt
  <1> QED
    BY <1>2, <1>3, <1>4, <1>5 DEF NamedBehind

(* If a title is under way and not first, no state is first, and the title  *)
(* is still under way afterwards.                                           *)
LEMMA NamedFront ==
    ASSUME TypeOK, wire # <<>>, wire' = Tail(wire), NEW h, NamedBehind(0, h), ~TitleAt(1, h)
    PROVE  NamedBehind(0, h)' /\ ~StateAt(1, h)
  <1>1. PICK m \in DOMAIN wire : /\ TitleAt(m, h)
                                /\ \A n \in DOMAIN wire : 0 < n /\ n < m => ~StateAt(n, h)
    BY DEF NamedBehind
  <1>2. m \in Nat /\ 1 < m /\ 1 \in DOMAIN wire
    <2>1. m # 1 /\ m >= 1 /\ m \in Nat /\ 1 \in DOMAIN wire
      BY <1>1, WireTail
    <2> QED
      BY <2>1
  <1>3. NamedBehind(1, h)
    <2>1. \A n \in DOMAIN wire : 1 < n /\ n < m => ~StateAt(n, h)
      <3>1. DOMAIN wire \subseteq Nat
        BY WireTail
      <3> QED
        BY <1>1, <3>1
    <2> QED
      BY <1>1, <1>2, <2>1 DEF NamedBehind
  <1>4. NamedBehind(1 - 1, h)'
    BY <1>3, NamedTail
  <1>5. 0 < 1 /\ 1 - 1 = 0
    OBVIOUS
  <1> QED
    BY <1>1, <1>2, <1>4, <1>5

(* A listener has run: what remains to be shown of the Shell's toplevel h.  *)
LEMMA NamesDispatched ==
    ASSUME TypeOK, NEW h, ShellNamed(h), wire # <<>>, wire' = Tail(wire),
           \A k \in DOMAIN tasks' : tasks'[k].handle = h =>
              \/ tasks'[k].title = "shell"
              \/ /\ ~tasks'[k].activated
                 /\ NamedBehind(1, h) \/ (NamedBehind(0, h) /\ ~TitleAt(1, h))
    PROVE  ShellNamed(h)'
  <1>1. ASSUME NEW m \in DOMAIN wire', TitleAt(m, h)' PROVE wire'[m].name = "shell"
    <2>1. m + 1 \in DOMAIN wire /\ wire'[m] = wire[m + 1]
      BY WireTail
    <2> QED
      BY <1>1, <2>1 DEF ShellNamed, TitleAt
  <1>2. ASSUME NEW m \in DOMAIN wire', wire'[m].kind = "toplevel", wire'[m].handle = h
        PROVE  NamedBehind(m, h)'
    <2>1. m \in Nat /\ m + 1 \in DOMAIN wire /\ wire'[m] = wire[m + 1]
      BY WireTail
    <2>2. NamedBehind(m + 1, h)
      BY <1>2, <2>1 DEF ShellNamed
    <2>3. m + 1 \in Nat \ {0} /\ m + 1 - 1 = m
      BY <2>1
    <2>4. NamedBehind(m + 1 - 1, h)'
      BY <2>2, <2>3, NamedTail
    <2> QED
      BY <2>3, <2>4
  <1>3. NamedBehind(1, h) \/ (NamedBehind(0, h) /\ ~TitleAt(1, h)) => NamedBehind(0, h)'
    <2>1. NamedBehind(1, h) => NamedBehind(1 - 1, h)'
      BY NamedTail
    <2>2. 1 - 1 = 0
      OBVIOUS
    <2> QED
      BY <2>1, <2>2, NamedFront
  <1> QED
    BY <1>1, <1>2, <1>3 DEF ShellNamed

(* Every listener. *)
LEMMA DisplayNames ==
    ASSUME TypeOK, NameInv,
           \/ manager_toplevel \/ manager_finished \/ handle_title \/ handle_app_id
           \/ handle_state \/ handle_done \/ handle_closed
    PROVE  NameInv'
  <1>1. /\ wire # <<>> /\ wire' = Tail(wire) /\ UNCHANGED <<top, requests>>
        /\ Head(wire) \in Event
        /\ 1 \in DOMAIN wire /\ Head(wire) = wire[1]
    <2>1. PICK kind : Dispatch(kind)
      BY DEF manager_toplevel, manager_finished, handle_title, handle_app_id,
             handle_state, handle_done, handle_closed
    <2>2. wire # <<>> /\ wire' = Tail(wire) /\ UNCHANGED <<top, requests>>
      BY <2>1 DEF Dispatch
    <2> QED
      BY <2>1, <2>2, TypeDispatch, WireTail
  <1>2. \A n \in DOMAIN wire' : wire'[n].kind # "finished" => wire'[n].handle \in DOMAIN top'
    <2>1. \A n \in DOMAIN wire' : n + 1 \in DOMAIN wire /\ wire'[n] = wire[n + 1]
      BY <1>1, WireTail
    <2> QED
      BY <1>1, <2>1 DEF NameInv, HandlesExist
  <1>3. \A n \in DOMAIN requests' : requests'[n].handle \in DOMAIN top'
    BY <1>1 DEF NameInv, HandlesExist
  <1>4. ActiveCommandsSpareShell'
    BY <1>1 DEF NameInv, ActiveCommandsSpareShell
  <1>5. SUFFICES /\ \A k \in DOMAIN tasks' : tasks'[k].handle \in DOMAIN top
                 /\ \A h \in DOMAIN top : top[h].shell => ShellNamed(h)'
    BY <1>1, <1>2, <1>3, <1>4 DEF NameInv, HandlesExist
  <1>6. \A k \in DOMAIN tasks : tasks[k] \in Task /\ tasks[k].handle \in DOMAIN top
    BY DEF TypeOK, NameInv, HandlesExist
  <1>7. CASE manager_toplevel
    <2> DEFINE new == NewTask(next_id, Head(wire).handle)
    <2>1. tasks' = Append(tasks, new) /\ wire[1].kind = "toplevel" /\ wire[1].handle \in DOMAIN top
      BY <1>1, <1>7 DEF manager_toplevel, Dispatch, NameInv, HandlesExist
    <2>2. new.handle = wire[1].handle /\ ~new.activated
      BY <1>1 DEF NewTask
    <2>3. \A k \in DOMAIN tasks' : \/ k \in DOMAIN tasks /\ tasks'[k] = tasks[k]
                                   \/ tasks'[k] = new
      <3> HIDE DEF new
      <3>1. tasks \in Seq(Task)
        BY DEF TypeOK
      <3> QED
        BY <2>1, <3>1
    <2>4. ASSUME NEW h \in DOMAIN top, top[h].shell PROVE ShellNamed(h)'
      <3> HIDE DEF new
      <3>1. ShellNamed(h) /\ ~TitleAt(1, h)
        BY <2>1, <2>4 DEF NameInv, TitleAt
      <3>2. ASSUME NEW k \in DOMAIN tasks', tasks'[k].handle = h
            PROVE  \/ tasks'[k].title = "shell"
                   \/ /\ ~tasks'[k].activated
                      /\ NamedBehind(1, h) \/ (NamedBehind(0, h) /\ ~TitleAt(1, h))
        <4>1. CASE k \in DOMAIN tasks /\ tasks'[k] = tasks[k]
          BY <3>1, <3>2, <4>1 DEF ShellNamed
        <4>2. CASE tasks'[k] = new
          BY <1>1, <2>1, <2>2, <3>1, <3>2, <4>2 DEF ShellNamed
        <4> QED
          BY <2>3, <4>1, <4>2
      <3> QED
        BY <1>1, <3>1, <3>2, NamesDispatched
    <2>5. \A k \in DOMAIN tasks' : tasks'[k].handle \in DOMAIN top
      <3> HIDE DEF new
      <3> QED
        BY <1>6, <2>1, <2>2, <2>3
    <2> QED
      BY <2>4, <2>5
  <1>8. CASE manager_finished
    <2>1. tasks' = tasks /\ wire[1].kind = "finished"
      BY <1>1, <1>8 DEF manager_finished, Dispatch
    <2>2. ASSUME NEW h \in DOMAIN top, top[h].shell PROVE ShellNamed(h)'
      <3>1. ShellNamed(h) /\ ~TitleAt(1, h)
        BY <2>1, <2>2 DEF NameInv, TitleAt
      <3>2. \A k \in DOMAIN tasks' : tasks'[k].handle = h =>
              \/ tasks'[k].title = "shell"
              \/ /\ ~tasks'[k].activated
                 /\ NamedBehind(1, h) \/ (NamedBehind(0, h) /\ ~TitleAt(1, h))
        BY <2>1, <3>1 DEF ShellNamed
      <3> QED
        BY <1>1, <3>1, <3>2, NamesDispatched
    <2> QED
      BY <1>6, <2>1, <2>2
  <1>9. CASE handle_title \/ handle_app_id \/ handle_state \/ handle_done \/ handle_closed
    <2>1. /\ DOMAIN tasks' = DOMAIN tasks
          /\ \A k \in DOMAIN tasks : tasks'[k].handle = tasks[k].handle
      BY <1>9, UpdateHandlers
    <2>2. ASSUME NEW h \in DOMAIN top, top[h].shell PROVE ShellNamed(h)'
      <3>1. ShellNamed(h)
        BY <2>2 DEF NameInv
      <3>2. ASSUME NEW k \in DOMAIN tasks', tasks'[k].handle = h
            PROVE  \/ tasks'[k].title = "shell"
                   \/ /\ ~tasks'[k].activated
                      /\ NamedBehind(1, h) \/ (NamedBehind(0, h) /\ ~TitleAt(1, h))
        <4>1. /\ k \in DOMAIN tasks /\ tasks[k].handle = h
              /\ tasks[k].title = "shell" \/ (~tasks[k].activated /\ NamedBehind(0, h))
              /\ tasks[k] \in Task
          BY <1>6, <2>1, <3>1, <3>2 DEF ShellNamed
        <4>2. CASE handle_title
          <5>1. wire[1].kind = "title"
            BY <1>1, <4>2 DEF handle_title, Dispatch
          <5>2. CASE wire[1].handle = h
            <6>1. tasks'[k] = [tasks[k] EXCEPT !.title = wire[1].name]
              BY <1>1, <4>1, <4>2, <5>2 DEF handle_title, TaskUpdate
            <6>2. wire[1].name = "shell"
              BY <1>1, <3>1, <5>1, <5>2 DEF ShellNamed, TitleAt
            <6> QED
              BY <4>1, <6>1, <6>2 DEF Task
          <5>3. CASE wire[1].handle # h
            <6>1. tasks'[k] = tasks[k]
              BY <1>1, <4>1, <4>2, <5>3 DEF handle_title, TaskUpdate
            <6> QED
              BY <4>1, <5>3, <6>1 DEF TitleAt
          <5> QED
            BY <5>2, <5>3
        <4>3. CASE handle_state
          <5>1. wire[1].kind = "state"
            BY <1>1, <4>3 DEF handle_state, Dispatch
          <5>2. ~TitleAt(1, h)
            BY <5>1 DEF TitleAt
          <5>3. CASE wire[1].handle = h
            <6>1. ~NamedBehind(0, h)
              BY <1>1, <5>1, <5>2, <5>3, NamedFront DEF StateAt
            <6>2. tasks'[k] = [tasks[k] EXCEPT !.activated = wire[1].activated,
                                               !.minimized = wire[1].minimized]
              BY <1>1, <4>1, <4>3, <5>3 DEF handle_state, TaskUpdate
            <6> QED
              BY <4>1, <6>1, <6>2 DEF Task
          <5>4. CASE wire[1].handle # h
            <6>1. tasks'[k] = tasks[k]
              BY <1>1, <4>1, <4>3, <5>4 DEF handle_state, TaskUpdate
            <6> QED
              BY <4>1, <5>2, <6>1
          <5> QED
            BY <5>3, <5>4
        <4>4. CASE handle_app_id \/ handle_done \/ handle_closed
          <5>1. ~TitleAt(1, h)
            BY <1>1, <4>4 DEF handle_app_id, handle_done, handle_closed, Dispatch, TitleAt
          <5>2. \/ tasks'[k] = tasks[k]
                \/ tasks'[k] = [tasks[k] EXCEPT !.app_id = Head(wire).name]
                \/ tasks'[k] = [tasks[k] EXCEPT !.closed = FALSE]
                \/ tasks'[k] = [tasks[k] EXCEPT !.closed = TRUE]
            BY <4>1, <4>4 DEF handle_app_id, handle_done, handle_closed, TaskUpdate
          <5>3. tasks'[k].title = tasks[k].title /\ tasks'[k].activated = tasks[k].activated
            BY <4>1, <5>2 DEF Task
          <5> QED
            BY <4>1, <5>1, <5>3
        <4> QED
          BY <1>9, <4>2, <4>3, <4>4
      <3> QED
        BY <1>1, <3>1, <3>2, NamesDispatched
    <2> QED
      BY <1>6, <2>1, <2>2
  <1> QED
    BY <1>7, <1>8, <1>9

----------------------------------------------------------------------------
(* The table's other steps, and the commands *)

LEMMA PruneNames == ASSUME TypeOK, NameInv, prune_closed PROVE NameInv'
  <1>1. PICK k \in DOMAIN tasks : tasks' = Erase(tasks, k)
    BY DEF prune_closed, ClosedTasks
  <1>2. \A j \in DOMAIN tasks' : \E n \in DOMAIN tasks : tasks'[j] = tasks[n]
    <2> SUFFICES ASSUME NEW j \in DOMAIN tasks' PROVE \E n \in DOMAIN tasks : tasks'[j] = tasks[n]
      OBVIOUS
    <2>1. /\ Len(tasks') = Len(tasks) - 1
          /\ tasks' \in Seq(Task)
          /\ \A n \in 1 .. (Len(tasks) - 1) :
               tasks'[n] = IF n < k THEN tasks[n] ELSE tasks[n + 1]
      BY <1>1, EraseSeq DEF TypeOK
    <2>2. j \in 1 .. (Len(tasks) - 1)
      BY <2>1
    <2>3. j \in DOMAIN tasks /\ j + 1 \in DOMAIN tasks
      BY <2>2 DEF TypeOK
    <2> QED
      BY <2>1, <2>2, <2>3
  <1>3. UNCHANGED <<top, wire, requests>>
    BY DEF prune_closed, compVars
  <1>4. \A j, h : NamedBehind(j, h) => NamedBehind(j, h)'
    BY <1>3 DEF NamedBehind, TitleAt, StateAt
  <1>5. HandlesExist'
    BY <1>2, <1>3 DEF NameInv, HandlesExist
  <1>6. ASSUME NEW h \in DOMAIN top, top[h].shell PROVE ShellNamed(h)'
    BY <1>2, <1>3, <1>4, <1>6 DEF NameInv, ShellNamed, TitleAt
  <1> QED
    BY <1>3, <1>5, <1>6 DEF NameInv, ActiveCommandsSpareShell

(* Requests for a task of the table, which is not the Shell's if the        *)
(* command is one for the active task.                                      *)
LEMMA PerformNames ==
    ASSUME TypeOK, NameInv, NEW S, Take(S), NEW k \in DOMAIN tasks,
           NEW kinds \in Seq(RequestKinds), Perform(kinds, k),
           TheCommand.verb \in ActiveVerbs => ~top[tasks[k].handle].shell
    PROVE  NameInv'
  <1> DEFINE new == [n \in DOMAIN kinds |-> [kind |-> kinds[n], handle |-> tasks[k].handle,
                                             verb |-> TheCommand.verb]]
  <1>1. requests' = requests \o new /\ UNCHANGED <<tasks, top, wire>>
    BY DEF Perform, AgentUnchanged, WorldUnchanged
  <1>2. \A n \in DOMAIN new : new[n].handle = tasks[k].handle /\ new[n].verb = TheCommand.verb
    OBVIOUS
  <1>3. new \in Seq(Request)
    <2>1. tasks[k] \in Task /\ TheCommand \in Command
      BY TypeTake DEF TypeOK
    <2>2. \A n \in DOMAIN kinds : new[n] \in Request
      BY <2>1 DEF Request, Task, Command
    <2> QED
      BY <2>2, MapSeq
  <1>4. ASSUME NEW n \in DOMAIN requests'
        PROVE  \/ n \in DOMAIN requests /\ requests'[n] = requests[n]
               \/ /\ requests'[n].handle = tasks[k].handle
                  /\ requests'[n].verb = TheCommand.verb
    <2> HIDE DEF new
    <2>1. requests \in Seq(Request) /\ new \in Seq(Request) /\ requests' = requests \o new
      BY <1>1, <1>3 DEF TypeOK
    <2>2. \/ n \in DOMAIN requests /\ requests'[n] = requests[n]
          \/ n - Len(requests) \in DOMAIN new /\ requests'[n] = new[n - Len(requests)]
      BY <2>1
    <2> QED
      BY <1>2, <2>2
  <1>5. \A h : ShellNamed(h) => ShellNamed(h)'
    BY <1>1 DEF ShellNamed, NamedBehind, TitleAt, StateAt
  <1>6. tasks[k].handle \in DOMAIN top
    BY DEF NameInv, HandlesExist
  <1>7. HandlesExist'
    BY <1>1, <1>4, <1>6 DEF NameInv, HandlesExist
  <1>8. ActiveCommandsSpareShell'
    BY <1>1, <1>4 DEF NameInv, ActiveCommandsSpareShell
  <1> QED
    BY <1>1, <1>5, <1>7, <1>8 DEF NameInv

LEMMA CommandNames == ASSUME TypeOK, NameInv, handle_command PROVE NameInv'
  <1>1. CASE \/ Hello \/ List \/ Subscribe \/ TaskCommandRefused \/ ActiveIsShell
             \/ UnknownCommand \/ BlankLine \/ OverlongLine
    <2>1. UNCHANGED nameVars
      BY <1>1 DEF Hello, List, Subscribe, TaskCommandRefused, ActiveIsShell, UnknownCommand,
                  BlankLine, OverlongLine, ReplyOnly, AgentUnchanged, WorldUnchanged,
                  compVars, nameVars
    <2> QED
      BY <2>1, NamesSame
  <1>2. ASSUME NEW m, ReplyOnly(m) PROVE NameInv'
    BY <1>2, NamesSame DEF ReplyOnly, AgentUnchanged, WorldUnchanged, nameVars
  <1>3. CASE TaskCommand
    <2>1. PICK k \in find_task(TheCommand.id) : Perform(RequestsOf(TheCommand.verb), k)
      BY <1>3 DEF TaskCommand
    <2>2. k \in DOMAIN tasks /\ Take(TaskVerbs)
      BY <1>3 DEF TaskCommand, find_task
    <2>3. TheCommand.verb \notin ActiveVerbs
      BY <2>2, TypeTake DEF TaskVerbs, ActiveVerbs
    <2>4. RequestsOf(TheCommand.verb) \in Seq(RequestKinds)
      BY TypeRequestsOf
    <2> QED
      BY <2>1, <2>2, <2>3, <2>4, PerformNames
  <1>4. CASE FocusShell
    <2>1. Take({"focus-shell"})
      BY <1>4 DEF FocusShell
    <2>2. TheCommand.verb \notin ActiveVerbs
      BY <2>1, TypeTake DEF ActiveVerbs
    <2>3. ReplyOnly(Answer("error")) \/ \E k \in shell_task : Perform(<<"activate">>, k)
      BY <1>4 DEF FocusShell
    <2>4. shell_task \subseteq DOMAIN tasks /\ <<"activate">> \in Seq(RequestKinds)
      BY DEF shell_task, RequestKinds
    <2> QED
      BY <1>2, <2>1, <2>2, <2>3, <2>4, PerformNames
  <1>5. CASE ActiveCommand
    <2>1. Take(ActiveVerbs)
      BY <1>5 DEF ActiveCommand
    <2>2. \/ ReplyOnly(Answer("error"))
          \/ \E k \in active_task(FALSE) : \E kind \in RequestKinds : Perform(<<kind>>, k)
      <3>1. \/ ReplyOnly(Answer("error"))
            \/ \E k \in active_task(FALSE) :
                 Perform(IF TheCommand.verb = "minimize-active"
                         THEN <<"set_minimized">> ELSE <<"close">>, k)
        BY <1>5 DEF ActiveCommand
      <3>2. "set_minimized" \in RequestKinds /\ "close" \in RequestKinds
        BY DEF RequestKinds
      <3> QED
        BY <3>1, <3>2
    <2>3. ASSUME NEW k \in active_task(FALSE), NEW kind \in RequestKinds, Perform(<<kind>>, k)
          PROVE  NameInv'
      <3>1. /\ k \in DOMAIN tasks /\ tasks[k].activated
            /\ tasks[k].title # "shell"
        BY DEF active_task, is_shell_task
      <3>2. ~top[tasks[k].handle].shell
        BY <3>1 DEF NameInv, HandlesExist, ShellNamed
      <3>3. <<kind>> \in Seq(RequestKinds)
        OBVIOUS
      <3> QED
        BY <2>1, <2>3, <3>1, <3>2, <3>3, PerformNames
    <2> QED
      BY <1>2, <2>2, <2>3
  <1> QED
    BY <1>1, <1>3, <1>4, <1>5 DEF handle_command

----------------------------------------------------------------------------
(* The compositor *)

(* Events that follow leave a name where it is. *)
LEMMA NamedKept ==
    ASSUME TypeOK, NEW ext \in Seq(Event), wire' = wire \o ext, NEW j, NEW h, NamedBehind(j, h)
    PROVE  NamedBehind(j, h)'
  <1>1. PICK m \in DOMAIN wire : /\ j < m
                                /\ TitleAt(m, h)
                                /\ \A n \in DOMAIN wire : j < n /\ n < m => ~StateAt(n, h)
    BY DEF NamedBehind
  <1>2. wire \in Seq(Event)
    BY DEF TypeOK
  <1>3. m \in DOMAIN wire' /\ wire'[m] = wire[m]
    BY <1>2
  <1>4. \A n \in DOMAIN wire' : n < m => n \in DOMAIN wire /\ wire'[n] = wire[n]
    BY <1>2
  <1> QED
    BY <1>1, <1>3, <1>4 DEF NamedBehind, TitleAt, StateAt

(* The table changes its flags but keeps its toplevels, and the events that *)
(* are sent neither make nor name one.                                      *)
LEMMA NamesReported ==
    ASSUME TypeOK, NameInv, UNCHANGED tasks,
           \A n \in DOMAIN requests' : \E m \in DOMAIN requests : requests'[n] = requests[m],
           NEW ext \in Seq(Event), wire' = wire \o ext,
           \A n \in DOMAIN ext : ext[n].kind \in {"state", "done", "closed", "finished"},
           \A n \in DOMAIN ext : ext[n].kind # "finished" => ext[n].handle \in DOMAIN top,
           DOMAIN top' = DOMAIN top, \A h \in DOMAIN top : top'[h].shell = top[h].shell
    PROVE  NameInv'
  <1>1. \A n \in DOMAIN wire' :
          \/ n \in DOMAIN wire /\ wire'[n] = wire[n]
          \/ \E m \in DOMAIN ext : wire'[n] = ext[m]
    <2> SUFFICES ASSUME NEW n \in DOMAIN wire'
                 PROVE  \/ n \in DOMAIN wire /\ wire'[n] = wire[n]
                        \/ \E m \in DOMAIN ext : wire'[n] = ext[m]
      OBVIOUS
    <2>1. wire \in Seq(Event)
      BY DEF TypeOK
    <2>2. \/ n \in DOMAIN wire /\ wire'[n] = wire[n]
          \/ n - Len(wire) \in DOMAIN ext /\ wire'[n] = ext[n - Len(wire)]
      BY <2>1
    <2> QED
      BY <2>2
  <1>2. HandlesExist'
    <2>1. \A k \in DOMAIN tasks' : tasks'[k].handle \in DOMAIN top'
      BY DEF NameInv, HandlesExist
    <2>2. \A n \in DOMAIN wire' : wire'[n].kind # "finished" => wire'[n].handle \in DOMAIN top'
      BY <1>1 DEF NameInv, HandlesExist
    <2>3. \A n \in DOMAIN requests' : requests'[n].handle \in DOMAIN top'
      BY DEF NameInv, HandlesExist
    <2> QED
      BY <2>1, <2>2, <2>3 DEF HandlesExist
  <1>3. ASSUME NEW h \in DOMAIN top', top'[h].shell PROVE ShellNamed(h)'
    <2>1. ShellNamed(h)
      BY <1>3 DEF NameInv
    <2>2. \A n \in DOMAIN wire' :
            wire'[n].kind \in {"title", "toplevel"} => n \in DOMAIN wire /\ wire'[n] = wire[n]
      BY <1>1
    <2>3. \A j : NamedBehind(j, h) => NamedBehind(j, h)'
      BY NamedKept
    <2>4. \A m \in DOMAIN wire' : TitleAt(m, h)' => wire'[m].name = "shell"
      BY <2>1, <2>2 DEF ShellNamed, TitleAt
    <2>5. \A m \in DOMAIN wire' :
            wire'[m].kind = "toplevel" /\ wire'[m].handle = h => NamedBehind(m, h)'
      BY <2>1, <2>2, <2>3 DEF ShellNamed
    <2>6. \A k \in DOMAIN tasks' : tasks'[k].handle = h =>
            \/ tasks'[k].title = "shell"
            \/ ~tasks'[k].activated /\ NamedBehind(0, h)'
      BY <2>1, <2>3 DEF ShellNamed
    <2> QED
      BY <2>4, <2>5, <2>6 DEF ShellNamed
  <1>4. ActiveCommandsSpareShell'
    BY DEF NameInv, HandlesExist, ActiveCommandsSpareShell
  <1> QED
    BY <1>2, <1>3, <1>4 DEF NameInv

(* u is t with other flags. *)
SameShells(t, u) == DOMAIN u = DOMAIN t /\ \A h \in DOMAIN t : u[h].shell = t[h].shell

LEMMA ShellsKept ==
    ASSUME NEW t \in Seq(Window), NEW h
    PROVE  /\ \A f : SameShells(t, Focus(t, f))
           /\ \A b : SameShells(t, [t EXCEPT ![h].open = b])
           /\ \A b : SameShells(t, [t EXCEPT ![h].minimized = b])
           /\ \A u \in Defocused(t, h) : SameShells(t, u)
  <1>1. \A k \in DOMAIN t : t[k] \in Window
    OBVIOUS
  <1>2. \A f : SameShells(t, Focus(t, f))
    BY <1>1 DEF SameShells, Focus, Window
  <1>3. \A b : SameShells(t, [t EXCEPT ![h].open = b])
    BY <1>1 DEF SameShells, Window
  <1>4. \A b : SameShells(t, [t EXCEPT ![h].minimized = b])
    BY <1>1 DEF SameShells, Window
  <1>5. \A u \in Defocused(t, h) : SameShells(t, u)
    BY <1>2 DEF Defocused, SameShells
  <1> QED
    BY <1>2, <1>3, <1>4, <1>5

(* A change of flags that is reported, with at most a "closed" before.      *)
LEMMA BecomeNames ==
    ASSUME TypeOK, NameInv, UNCHANGED tasks,
           \A n \in DOMAIN requests' : \E m \in DOMAIN requests : requests'[n] = requests[m],
           NEW u \in Seq(Window), SameShells(top, u), NEW first \in Seq(Event), Become(u, first),
           \A n \in DOMAIN first : first[n].kind = "closed" /\ first[n].handle \in DOMAIN top
    PROVE  NameInv'
  <1> DEFINE ext == first \o Report(top, u)
  <1>1. Report(top, u) \in Seq(Event) /\ wire \in Seq(Event)
    BY ReportEvents DEF TypeOK
  <1>2. wire' = wire \o ext
    BY <1>1 DEF Become
  <1>3. ext \in Seq(Event)
    BY <1>1
  <1>4. ASSUME NEW n \in DOMAIN ext
        PROVE  /\ ext[n].kind \in {"state", "done", "closed"}
               /\ ext[n].handle \in DOMAIN top
    <2>1. \/ n \in DOMAIN first /\ ext[n] = first[n]
          \/ /\ n - Len(first) \in DOMAIN Report(top, u)
             /\ ext[n] = Report(top, u)[n - Len(first)]
      BY <1>1
    <2>2. \A m \in DOMAIN Report(top, u) :
            /\ Report(top, u)[m].kind \in {"state", "done"}
            /\ Report(top, u)[m].handle \in DOMAIN top
      BY ReportEvents DEF SameShells
    <2> QED
      BY <2>1, <2>2
  <1>5. DOMAIN top' = DOMAIN top /\ \A h \in DOMAIN top : top'[h].shell = top[h].shell
    BY DEF Become, SameShells
  <1> HIDE DEF ext
  <1> QED
    BY <1>2, <1>3, <1>4, <1>5, NamesReported

LEMMA CloseNames ==
    ASSUME TypeOK, NameInv, UNCHANGED tasks,
           \A n \in DOMAIN requests' : \E m \in DOMAIN requests : requests'[n] = requests[m],
           NEW h \in DOMAIN top, CloseToplevel(h)
    PROVE  NameInv'
  <1> DEFINE t == [top EXCEPT ![h].open = FALSE]
             first == <<Ev("closed", h)>>
  <1>1. top \in Seq(Window) /\ t \in Seq(Window)
    BY TypeFlag DEF TypeOK
  <1>2. PICK u \in Defocused(t, h) : Become(u, first)
    BY DEF CloseToplevel
  <1>3. u \in Seq(Window) /\ SameShells(top, t) /\ SameShells(t, u)
    <2> HIDE DEF t
    <2>1. u \in Seq(Window) /\ SameShells(t, u)
      BY <1>1, TypeDefocused, ShellsKept
    <2> QED
      BY <1>1, <2>1, ShellsKept DEF t
  <1>4. SameShells(top, u)
    BY <1>3 DEF SameShells
  <1>5. h \in Nat
    BY <1>1
  <1>6. Ev("closed", h) \in Event /\ Ev("closed", h).kind = "closed" /\ Ev("closed", h).handle = h
    BY <1>5 DEF Ev, Event, Names
  <1>7. first \in Seq(Event) /\ \A n \in DOMAIN first : first[n] = Ev("closed", h)
    BY <1>6
  <1> HIDE DEF first
  <1> QED
    BY <1>2, <1>3, <1>4, <1>6, <1>7, BecomeNames

LEMMA Appended ==
    ASSUME NEW x \in Seq(Event), NEW y \in Seq(Event)
    PROVE  /\ x \o y \in Seq(Event) /\ DOMAIN (x \o y) = 1 .. (Len(x) + Len(y))
           /\ Len(x) \in Nat /\ Len(y) \in Nat
           /\ \A n \in 1 .. Len(x) : (x \o y)[n] = x[n]
           /\ \A n \in DOMAIN (x \o y) :
                 n > Len(x) => n - Len(x) \in DOMAIN y /\ (x \o y)[n] = y[n - Len(x)]
  OBVIOUS

LEMMA AppendedTwice ==
    ASSUME NEW x \in Seq(Event), NEW y \in Seq(Event), NEW z \in Seq(Event)
    PROVE  (x \o y) \o z = x \o (y \o z) /\ y \o z \in Seq(Event)
  OBVIOUS

LEMMA ThreeBehind ==
    ASSUME NEW w \in Seq(Event), NEW f \in Seq(Event)
    PROVE  Len(f) = 3 =>
           /\ w \o f \in Seq(Event) /\ Len(w \o f) = Len(w) + 3
           /\ \A n \in 1 .. Len(w) : (w \o f)[n] = w[n]
           /\ (w \o f)[Len(w) + 1] = f[1]
           /\ (w \o f)[Len(w) + 2] = f[2]
           /\ (w \o f)[Len(w) + 3] = f[3]
  <1>1. PICK g : g = w \o f
    OBVIOUS
  <1>2. g \in Seq(Event) /\ Len(g) = Len(w) + Len(f) /\ Len(w) \in Nat /\ Len(f) \in Nat
    BY <1>1
  <1>3. \A k \in 1 .. Len(w) + Len(f) : g[k] = IF k <= Len(w) THEN w[k] ELSE f[k - Len(w)]
    BY <1>1
  <1>4. PICK L, M : L = Len(w) /\ M = Len(f)
    OBVIOUS
  <1>5. /\ \A k \in 1 .. L + M : g[k] = IF k <= L THEN w[k] ELSE f[k - L]
        /\ L \in Nat /\ M \in Nat
    BY <1>2, <1>3, <1>4
  <1>6. M = 3 => /\ \A n \in 1 .. L : g[n] = w[n]
                 /\ g[L + 1] = f[1] /\ g[L + 2] = f[2] /\ g[L + 3] = f[3]
    BY <1>5
  <1> QED
    BY <1>1, <1>2, <1>4, <1>6

(* Three events and then a report, at the end of the wire of length L. *)
ThreeTold(L, first, rep) ==
    /\ \E ext \in Seq(Event) : wire' = wire \o ext
    /\ L \in Nat /\ wire' \in Seq(Event)
    /\ L + 1 \in DOMAIN wire' /\ wire'[L + 1] = first[1]
    /\ L + 2 \in DOMAIN wire' /\ wire'[L + 2] = first[2]
    /\ \A n \in DOMAIN wire' : \/ n \in DOMAIN wire /\ wire'[n] = wire[n]
                               \/ n = L + 1 /\ wire'[n] = first[1]
                               \/ n = L + 2 /\ wire'[n] = first[2]
                               \/ n = L + 3 /\ wire'[n] = first[3]
                               \/ \E m \in DOMAIN rep : wire'[n] = rep[m]

LEMMA ThreeAndReport ==
    ASSUME TypeOK, NEW first \in Seq(Event), Len(first) = 3, NEW rep \in Seq(Event),
           wire' = (wire \o first) \o rep, NEW L, L = Len(wire)
    PROVE  ThreeTold(L, first, rep)
  <1>0. wire \in Seq(Event)
    BY DEF TypeOK
  <1>2. L \in Nat /\ DOMAIN wire = 1 .. L /\ L = Len(wire)
    BY <1>0
  <1>3. /\ wire \o first \in Seq(Event) /\ Len(wire \o first) = L + 3
        /\ \A n \in 1 .. L : (wire \o first)[n] = wire[n]
        /\ (wire \o first)[L + 1] = first[1]
        /\ (wire \o first)[L + 2] = first[2]
        /\ (wire \o first)[L + 3] = first[3]
    BY <1>0, <1>2, ThreeBehind
  <1> DEFINE x == wire \o first
  <1> HIDE DEF x
  <1>4. /\ wire' \in Seq(Event) /\ DOMAIN wire' = 1 .. (L + 3 + Len(rep)) /\ Len(rep) \in Nat
        /\ \A n \in 1 .. (L + 3) : wire'[n] = x[n]
        /\ \A n \in DOMAIN wire' :
              n > L + 3 => n - (L + 3) \in DOMAIN rep /\ wire'[n] = rep[n - (L + 3)]
    <2>1. x \in Seq(Event) /\ Len(x) = L + 3 /\ wire' = x \o rep
      BY <1>3 DEF x
    <2>2. Len(x) = L + 3 /\ 1 .. Len(x) = 1 .. (L + 3)
      BY <2>1
    <2>3. /\ x \o rep \in Seq(Event) /\ DOMAIN (x \o rep) = 1 .. (Len(x) + Len(rep))
          /\ Len(rep) \in Nat
          /\ \A n \in 1 .. Len(x) : (x \o rep)[n] = x[n]
          /\ \A n \in DOMAIN (x \o rep) :
                n > Len(x) => n - Len(x) \in DOMAIN rep /\ (x \o rep)[n] = rep[n - Len(x)]
      BY <2>1, Appended
    <2> QED
      BY <2>1, <2>2, <2>3
  <1>5. /\ L + 1 \in 1 .. (L + 3) /\ L + 2 \in 1 .. (L + 3)
        /\ L + 1 \in DOMAIN wire' /\ L + 2 \in DOMAIN wire'
    BY <1>2, <1>4
  <1>6. ASSUME NEW n \in DOMAIN wire'
        PROVE  \/ n \in DOMAIN wire /\ wire'[n] = wire[n]
               \/ n = L + 1 /\ wire'[n] = first[1]
               \/ n = L + 2 /\ wire'[n] = first[2]
               \/ n = L + 3 /\ wire'[n] = first[3]
               \/ \E m \in DOMAIN rep : wire'[n] = rep[m]
    <2>1. CASE n > L + 3
      BY <1>4, <2>1
    <2>2. CASE ~(n > L + 3)
      <3>1. n \in Nat /\ n \in 1 .. (L + 3)
        BY <1>2, <1>4, <2>2
      <3>2. wire'[n] = x[n]
        BY <1>4, <3>1
      <3>3. n \in 1 .. L \/ n = L + 1 \/ n = L + 2 \/ n = L + 3
        BY <1>2, <3>1
      <3> QED
        BY <1>2, <1>3, <3>2, <3>3 DEF x
    <2> QED
      BY <2>1, <2>2
  <1>7. wire' = wire \o (first \o rep) /\ first \o rep \in Seq(Event)
    BY <1>0, AppendedTwice
  <1>8. wire'[L + 1] = first[1] /\ wire'[L + 2] = first[2]
    BY <1>3, <1>4, <1>5 DEF x
  <1> QED
    BY <1>2, <1>4, <1>5, <1>6, <1>7, <1>8 DEF ThreeTold

(* A new toplevel is introduced and named before its state is reported.    *)
LEMMA OpenNames ==
    ASSUME TypeOK, NameInv, NEW shell \in BOOLEAN, OpenWindow(shell)
    PROVE  NameInv'
  <1> DEFINE new == [shell |-> shell, activated |-> TRUE, minimized |-> FALSE, open |-> TRUE]
  <1>1. top \in Seq(Window) /\ wire \in Seq(Event) /\ new \in Window /\ new.shell = shell
    BY DEF TypeOK, Window
  <1>2. PICK g, L : g = Len(top) + 1 /\ L = Len(wire)
    OBVIOUS
  <1>3. PICK u : u = Append(Focus(top, 0), new)
    OBVIOUS
  <1>4. PICK a, b, c : a = Ev("toplevel", g) /\ b = NameEv("title", g, shell)
                       /\ c = NameEv("app_id", g, shell)
    OBVIOUS
  <1>5. Become(u, <<a, b, c>>) /\ UNCHANGED <<tasks, requests>>
    BY <1>2, <1>3, <1>4 DEF OpenWindow, UserOp, agentVars
  <1>6. /\ u \in Seq(Window) /\ DOMAIN u = DOMAIN top \cup {g} /\ g \notin DOMAIN top /\ g \in Nat
        /\ u[g].shell = shell /\ \A h \in DOMAIN top : u[h].shell = top[h].shell
    <2>1. Focus(top, 0) \in Seq(Window) /\ Len(Focus(top, 0)) = Len(top)
      BY <1>1, TypeFocus
    <2>2. \A h \in DOMAIN top : Focus(top, 0)[h].shell = top[h].shell
      BY <1>1, ShellsKept DEF SameShells
    <2> HIDE DEF new
    <2>3. /\ u \in Seq(Window) /\ DOMAIN u = 1 .. g /\ u[g] = new
          /\ \A h \in 1 .. Len(top) : u[h] = Focus(top, 0)[h]
      BY <1>1, <1>2, <1>3, <2>1
    <2>4. DOMAIN top = 1 .. Len(top) /\ Len(top) \in Nat
      BY <1>1
    <2> QED
      BY <1>1, <1>2, <2>2, <2>3, <2>4
  <1> HIDE DEF new
  <1>7. /\ a \in Event /\ a.kind = "toplevel" /\ a.handle = g
        /\ b \in Event /\ b.kind = "title" /\ b.handle = g
        /\ b.name = IF shell THEN "shell" ELSE "other"
        /\ c \in Event /\ c.kind = "app_id" /\ c.handle = g
    BY <1>4, <1>6 DEF Ev, NameEv, Event, Names
  <1>8. PICK rep \in Seq(Event) :
           /\ wire' = (wire \o <<a, b, c>>) \o rep
           /\ \A n \in DOMAIN rep : rep[n].kind \in {"state", "done"} /\ rep[n].handle \in DOMAIN u
    <2>1. /\ Report(top, u) \in Seq(Event)
          /\ \A n \in DOMAIN Report(top, u) :
                /\ Report(top, u)[n].kind \in {"state", "done"}
                /\ Report(top, u)[n].handle \in DOMAIN u
      BY <1>6, ReportEvents
    <2>2. wire' = (wire \o <<a, b, c>>) \o Report(top, u)
      BY <1>5 DEF Become
    <2> QED
      BY <2>1, <2>2
  <1>9. top' = u
    BY <1>5 DEF Become
  <1>10. /\ \E ext \in Seq(Event) : wire' = wire \o ext
         /\ L \in Nat /\ wire' \in Seq(Event)
         /\ L + 1 \in DOMAIN wire' /\ wire'[L + 1] = a
         /\ L + 2 \in DOMAIN wire' /\ wire'[L + 2] = b
         /\ \A n \in DOMAIN wire' : \/ n \in DOMAIN wire /\ wire'[n] = wire[n]
                                    \/ n = L + 1 /\ wire'[n] = a
                                    \/ n = L + 2 /\ wire'[n] = b
                                    \/ n = L + 3 /\ wire'[n] = c
                                    \/ \E m \in DOMAIN rep : wire'[n] = rep[m]
    <2>1. PICK first : first = <<a, b, c>>
      OBVIOUS
    <2>2. /\ first \in Seq(Event) /\ Len(first) = 3
          /\ first[1] = a /\ first[2] = b /\ first[3] = c
      BY <1>7, <2>1
    <2>3. L = Len(wire) /\ wire' = (wire \o first) \o rep
      BY <1>2, <1>8, <2>1
    <2>4. ThreeTold(L, first, rep)
      BY <1>8, <2>2, <2>3, ThreeAndReport
    <2> QED
      BY <2>2, <2>4 DEF ThreeTold
  <1>11. HandlesExist'
    <2>1. \A k \in DOMAIN tasks' : tasks'[k].handle \in DOMAIN top'
      BY <1>5, <1>6, <1>9 DEF NameInv, HandlesExist
    <2>2. \A n \in DOMAIN wire' : wire'[n].kind # "finished" => wire'[n].handle \in DOMAIN top'
      <3>1. \A n \in DOMAIN wire : wire[n].kind # "finished" => wire[n].handle \in DOMAIN u
        BY <1>6 DEF NameInv, HandlesExist
      <3>2. g \in DOMAIN u
        BY <1>6
      <3> QED
        BY <1>7, <1>8, <1>9, <1>10, <3>1, <3>2
    <2>3. \A n \in DOMAIN requests' : requests'[n].handle \in DOMAIN top'
      BY <1>5, <1>6, <1>9 DEF NameInv, HandlesExist
    <2> QED
      BY <2>1, <2>2, <2>3 DEF HandlesExist
  <1>12. ASSUME NEW h \in DOMAIN top, top[h].shell PROVE ShellNamed(h)'
    <2>1. ShellNamed(h) /\ h # g
      BY <1>6, <1>12 DEF NameInv
    <2>2. \A n \in DOMAIN wire' :
            wire'[n].kind \in {"title", "toplevel"} /\ wire'[n].handle = h
              => n \in DOMAIN wire /\ wire'[n] = wire[n]
      BY <1>7, <1>8, <1>10, <2>1
    <2>3. \A j : NamedBehind(j, h) => NamedBehind(j, h)'
      BY <1>10, NamedKept
    <2>4. \A m \in DOMAIN wire' : TitleAt(m, h)' => wire'[m].name = "shell"
      BY <2>1, <2>2 DEF ShellNamed, TitleAt
    <2>5. \A m \in DOMAIN wire' :
            wire'[m].kind = "toplevel" /\ wire'[m].handle = h => NamedBehind(m, h)'
      BY <2>1, <2>2, <2>3 DEF ShellNamed
    <2>6. \A k \in DOMAIN tasks' : tasks'[k].handle = h =>
            \/ tasks'[k].title = "shell"
            \/ ~tasks'[k].activated /\ NamedBehind(0, h)'
      BY <1>5, <2>1, <2>3 DEF ShellNamed
    <2> QED
      BY <2>4, <2>5, <2>6 DEF ShellNamed
  <1>13. ASSUME shell PROVE ShellNamed(g)'
    <2>1. /\ \A n \in DOMAIN wire : wire[n].kind # "finished" => wire[n].handle # g
          /\ \A k \in DOMAIN tasks : tasks[k].handle # g
      BY <1>6 DEF NameInv, HandlesExist
    <2>2. \A n \in DOMAIN wire' : TitleAt(n, g)' => n = L + 2 /\ wire'[n] = b
      BY <1>7, <1>8, <1>10, <2>1 DEF TitleAt
    <2>3. \A n \in DOMAIN wire' : wire'[n].kind = "toplevel" /\ wire'[n].handle = g => n = L + 1
      BY <1>7, <1>8, <1>10, <2>1
    <2>4. NamedBehind(L + 1, g)'
      <3>1. TitleAt(L + 2, g)' /\ L + 1 < L + 2
        BY <1>7, <1>10 DEF TitleAt
      <3>2. \A n \in DOMAIN wire' : ~(L + 1 < n /\ n < L + 2)
        <4>1. \A n \in DOMAIN wire' : n \in Nat
          BY <1>10
        <4> QED
          BY <1>10, <4>1
      <3> QED
        BY <1>10, <3>1, <3>2 DEF NamedBehind
    <2>5. \A m \in DOMAIN wire' : TitleAt(m, g)' => wire'[m].name = "shell"
      BY <1>7, <1>13, <2>2
    <2>6. \A m \in DOMAIN wire' :
            wire'[m].kind = "toplevel" /\ wire'[m].handle = g => NamedBehind(m, g)'
      BY <2>3, <2>4
    <2>7. \A k \in DOMAIN tasks' : tasks'[k].handle # g
      BY <1>5, <2>1
    <2> QED
      BY <2>5, <2>6, <2>7 DEF ShellNamed
  <1>14. ActiveCommandsSpareShell'
    BY <1>5, <1>6, <1>9 DEF NameInv, HandlesExist, ActiveCommandsSpareShell
  <1>15. ASSUME NEW h \in DOMAIN top', top'[h].shell PROVE ShellNamed(h)'
    <2>1. h \in DOMAIN top => top[h].shell
      BY <1>6, <1>9, <1>15
    <2>2. h = g => shell
      BY <1>1, <1>6, <1>9, <1>15
    <2>3. h \in DOMAIN top \/ h = g
      BY <1>6, <1>9, <1>15
    <2> QED
      BY <1>12, <1>13, <2>1, <2>2, <2>3
  <1> QED
    BY <1>11, <1>14, <1>15 DEF NameInv

(* Nothing is told but the report. *)
LEMMA ReportNames ==
    ASSUME TypeOK, NameInv, UNCHANGED tasks,
           \A n \in DOMAIN requests' : \E m \in DOMAIN requests : requests'[n] = requests[m],
           NEW u \in Seq(Window), SameShells(top, u), Become(u, <<>>)
    PROVE  NameInv'
  <1>1. <<>> \in Seq(Event) /\ DOMAIN <<>> = {}
    OBVIOUS
  <1> DEFINE first == <<>>
  <1>2. /\ first \in Seq(Event) /\ Become(u, first)
        /\ \A n \in DOMAIN first : first[n].kind = "closed" /\ first[n].handle \in DOMAIN top
    BY <1>1
  <1> HIDE DEF first
  <1> QED
    BY <1>2, BecomeNames

LEMMA CompositorNames == ASSUME TypeOK, NameInv, CompositorStep PROVE NameInv'
  <1> DEFINE Kept == \A n \in DOMAIN requests' : \E m \in DOMAIN requests : requests'[n] = requests[m]
  <1>0. top \in Seq(Window) /\ <<>> \in Seq(Event)
    BY DEF TypeOK
  <1>1. ASSUME NEW h \in DOMAIN top, CloseWindow(h) PROVE NameInv'
    <2>1. CloseToplevel(h) /\ UNCHANGED <<tasks, requests>>
      BY <1>1 DEF CloseWindow, UserOp, agentVars
    <2> QED
      BY <2>1, CloseNames
  <1>2. ASSUME NEW h \in DOMAIN top, FocusWindow(h) PROVE NameInv'
    <2>1. Become(Focus(top, h), <<>>) /\ UNCHANGED <<tasks, requests>>
      BY <1>2 DEF FocusWindow, UserOp, agentVars
    <2>2. Focus(top, h) \in Seq(Window) /\ SameShells(top, Focus(top, h))
      BY <1>0, TypeFocus, ShellsKept
    <2>3. \A n \in DOMAIN requests' : \E m \in DOMAIN requests : requests'[n] = requests[m]
      BY <2>1
    <2> QED
      BY <2>1, <2>2, <2>3, ReportNames
  <1>3. CASE HandleRequest
    <2> DEFINE h == Head(requests).handle
               low == [top EXCEPT ![h].minimized = TRUE]
               high == [top EXCEPT ![h].minimized = FALSE]
    <2>1. requests # <<>> /\ requests' = Tail(requests) /\ UNCHANGED tasks
      BY <1>3 DEF HandleRequest, agentVars
    <2>2. Kept /\ h \in DOMAIN top
      <3>1. requests \in Seq(Request)
        BY DEF TypeOK
      <3>2. \A n \in DOMAIN requests' : n + 1 \in DOMAIN requests /\ requests'[n] = requests[n + 1]
        BY <2>1, <3>1
      <3>3. 1 \in DOMAIN requests /\ Head(requests) = requests[1]
        BY <2>1, <3>1
      <3> QED
        BY <3>2, <3>3 DEF NameInv, HandlesExist
    <2>3. \/ UNCHANGED <<top, wire>>
          \/ Become(Focus(high, h), <<>>)
          \/ Become(high, <<>>)
          \/ \E u \in Defocused(low, h) : Become(u, <<>>)
          \/ CloseToplevel(h)
      BY <1>3 DEF HandleRequest
    <2> HIDE DEF h
    <2>4. /\ low \in Seq(Window) /\ high \in Seq(Window)
          /\ SameShells(top, low) /\ SameShells(top, high)
      BY <1>0, TypeFlag, ShellsKept
    <2> HIDE DEF low, high
    <2>5. CASE UNCHANGED <<top, wire>>
      <3>1. HandlesExist'
        BY <2>1, <2>2, <2>5 DEF NameInv, HandlesExist
      <3>2. \A g \in DOMAIN top : top[g].shell => ShellNamed(g)'
        BY <2>1, <2>5 DEF NameInv, ShellNamed, NamedBehind, TitleAt, StateAt
      <3>3. ActiveCommandsSpareShell'
        BY <2>2, <2>5 DEF NameInv, ActiveCommandsSpareShell
      <3> QED
        BY <2>5, <3>1, <3>2, <3>3 DEF NameInv
    <2>6. CASE Become(Focus(high, h), <<>>)
      <3>1. Focus(high, h) \in Seq(Window) /\ SameShells(high, Focus(high, h))
        BY <2>4, TypeFocus, ShellsKept
      <3>2. SameShells(top, Focus(high, h))
        BY <2>4, <3>1 DEF SameShells
      <3> QED
        BY <2>1, <2>2, <2>6, <3>1, <3>2, ReportNames
    <2>7. CASE Become(high, <<>>)
      BY <2>1, <2>2, <2>4, <2>7, ReportNames
    <2>8. ASSUME NEW u \in Defocused(low, h), Become(u, <<>>) PROVE NameInv'
      <3>1. u \in Seq(Window) /\ SameShells(low, u)
        BY <2>4, TypeDefocused, ShellsKept
      <3>2. SameShells(top, u)
        BY <2>4, <3>1 DEF SameShells
      <3> QED
        BY <2>1, <2>2, <2>8, <3>1, <3>2, ReportNames
    <2>9. CASE CloseToplevel(h)
      BY <2>1, <2>2, <2>9, CloseNames
    <2> QED
      BY <2>3, <2>5, <2>6, <2>7, <2>8, <2>9
  <1>4. CASE ManagerStops
    <2> DEFINE ext == <<Ev("finished", 0)>>
    <2>1. wire' = wire \o ext /\ UNCHANGED <<tasks, top, requests>>
      BY <1>4 DEF ManagerStops, agentVars, TypeOK
    <2>2. Ev("finished", 0) \in Event /\ Ev("finished", 0).kind = "finished"
      BY DEF Ev, Event, Names
    <2>3. ext \in Seq(Event) /\ \A n \in DOMAIN ext : ext[n].kind = "finished"
      BY <2>2
    <2> HIDE DEF ext
    <2> QED
      BY <2>1, <2>3, NamesReported
  <1>5. CASE CompositorExits
    BY <1>5, NamesSame DEF CompositorExits, agentVars, nameVars
  <1> QED
    BY <1>1, <1>2, <1>3, <1>4, <1>5, OpenNames DEF CompositorStep

----------------------------------------------------------------------------

LEMMA NameInit == Init => NameInv
  BY DEF Init, NameInv, HandlesExist, ActiveCommandsSpareShell

LEMMA NameStep == TypeOK /\ NameInv /\ [Next]_vars => NameInv'
  <1> SUFFICES ASSUME TypeOK, NameInv, [Next]_vars PROVE NameInv'
    OBVIOUS
  <1>1. CASE AgentStep
    <2>1. CASE LoopExit \/ DispatchFails
      BY <2>1, NamesSame DEF LoopExit, DispatchFails, Exit, compVars, nameVars
    <2>2. CASE prune_closed
      BY <2>2, PruneNames
    <2>3. CASE PreparePoll \/ PollReady \/ PollTimeout
      BY <2>3, NamesSame DEF PreparePoll, PollReady, PollTimeout, compVars, nameVars
    <2>4. CASE \/ manager_toplevel \/ manager_finished \/ handle_title \/ handle_app_id
               \/ handle_state \/ handle_done \/ handle_closed
      BY <2>4, DisplayNames
    <2>5. CASE DispatchDone \/ accept_client \/ AcceptDone
      BY <2>5, NamesSame DEF DispatchDone, accept_client, AcceptDone, compVars, nameVars
    <2>6. CASE \/ ClientsDone \/ ServeHangup \/ ServeClient \/ ReadAgain \/ ReadEof
               \/ FlushWrite \/ FlushDone \/ FlushBroken
      BY <2>6, NamesSame DEF ClientsDone, ServeHangup, ServeClient, ReadAgain, ReadEof,
           FlushWrite, FlushDone, FlushBroken, ServeNext, Drop, compVars, nameVars
    <2>7. CASE handle_command
      BY <2>7, CommandNames
    <2> QED
      BY <1>1, <2>1, <2>2, <2>3, <2>4, <2>5, <2>6, <2>7 DEF AgentStep
  <1>2. CASE Signal \/ PollFails
    BY <1>2, NamesSame DEF Signal, PollFails, compVars, nameVars
  <1>3. CASE CompositorStep
    BY <1>3, CompositorNames
  <1>4. CASE PeerStep
    BY <1>4, NamesSame DEF PeerStep, Connect, Receive, HangUp, SendCommand, agentVars, compVars,
         nameVars
  <1>5. CASE UNCHANGED vars
    BY <1>5, NamesSame DEF vars, agentVars, compVars, nameVars
  <1> QED
    BY <1>1, <1>2, <1>3, <1>4, <1>5 DEF Next

(* minimize-active and close-active never reach the Shell, for any number   *)
(* of toplevels and clients, and however the events are cut into batches    *)
(* (active_task against the order in which a toplevel's events are sent).   *)
THEOREM ShellAlwaysSpared == Spec => []ActiveCommandsSpareShell
  <1>1. NameInv => ActiveCommandsSpareShell
    BY DEF NameInv
  <1> QED
    BY TypeInit, TypeStep, NameInit, NameStep, <1>1, PTL DEF Spec

----------------------------------------------------------------------------
(* The table catches up with the compositor.  What is still to be told of a *)
(* toplevel is in the wire, behind what is told already.                    *)

EventAt(kind, n, h) == wire[n].kind = kind /\ wire[n].handle = h
Behind(kind, j, h)  == \E n \in DOMAIN wire : j < n /\ EventAt(kind, n, h)

NameOf(h) == IF top[h].shell THEN "shell" ELSE "other"

(* A task or a state event shows toplevel h as it is. *)
Shows(x, h) == x.activated = top[h].activated /\ x.minimized = top[h].minimized

(* A new toplevel will be told in full. *)
Announced(h) ==
    \A n \in DOMAIN wire : EventAt("toplevel", n, h) =>
       /\ Behind("state", n, h) /\ Behind("app_id", n, h)
       /\ ~top[h].open => Behind("closed", n, h)

NameTold(h) ==
    /\ \A n \in DOMAIN wire : EventAt("app_id", n, h) => wire[n].name = NameOf(h)
    /\ Behind("app_id", 0, h) \/ \A k \in DOMAIN tasks :
          tasks[k].handle = h => tasks[k].app_id = NameOf(h)

(* The last state event under way is right, or the task if there is none. *)
FlagsTold(h) ==
    /\ \A n \in DOMAIN wire :
          EventAt("state", n, h) /\ ~Behind("state", n, h) => Shows(wire[n], h)
    /\ Behind("state", 0, h) \/ \A k \in DOMAIN tasks :
          tasks[k].handle = h => Shows(tasks[k], h)

OpenTold(h) ==
    /\ ~Behind("closed", 0, h)
    /\ \A k \in DOMAIN tasks : tasks[k].handle = h => ~tasks[k].closed
    /\ Behind("toplevel", 0, h) \/ \E k \in DOMAIN tasks : tasks[k].handle = h

(* No "done" will take back the "closed". *)
ClosedTold(h) ==
    \/ \E n \in DOMAIN wire : EventAt("closed", n, h) /\ ~Behind("done", n, h)
    \/ /\ \A k \in DOMAIN tasks : tasks[k].handle = h => tasks[k].closed
       /\ ~Behind("done", 0, h)
       /\ ~Behind("toplevel", 0, h)

Told(h) ==
    /\ Announced(h)
    /\ NameTold(h)
    /\ top[h].open => FlagsTold(h) /\ OpenTold(h)
    /\ ~top[h].open => ClosedTold(h)

(* One toplevel has the focus, so that two events report a change of it. *)
OneActive(t) == \A g, h \in DOMAIN t : t[g].activated /\ t[h].activated => g = h

TableInv == OneActive(top) /\ \A h \in DOMAIN top : Told(h)

tableVars == <<tasks, top, wire>>

LEMMA ToldSame == ASSUME TableInv, UNCHANGED tableVars PROVE TableInv'
  BY DEF TableInv, tableVars, OneActive, Told, Announced, NameTold, FlagsTold, OpenTold, ClosedTold,
         EventAt, Behind, NameOf, Shows

----------------------------------------------------------------------------
(* A listener has run *)

LEMMA TailBehind ==
    ASSUME TypeOK, wire # <<>>, wire' = Tail(wire), NEW kind, NEW h
    PROVE  /\ \A j \in Nat : Behind(kind, j, h)' <=> Behind(kind, j + 1, h)
           /\ \A n \in DOMAIN wire' : /\ n \in Nat /\ n + 1 \in DOMAIN wire /\ wire'[n] = wire[n + 1]
                                      /\ EventAt(kind, n, h)' <=> EventAt(kind, n + 1, h)
           /\ \A n \in DOMAIN wire \ {1} : n - 1 \in DOMAIN wire' /\ (n - 1) + 1 = n
           /\ Behind(kind, 0, h) <=> EventAt(kind, 1, h) \/ Behind(kind, 1, h)
           /\ 1 \in DOMAIN wire
  <1>1. /\ \A n \in DOMAIN wire' : n \in Nat /\ n + 1 \in DOMAIN wire /\ wire'[n] = wire[n + 1]
        /\ \A n \in DOMAIN wire \ {1} : /\ n \in Nat /\ n - 1 \in DOMAIN wire'
                                        /\ wire'[n - 1] = wire[n]
        /\ \A n \in DOMAIN wire : n \in Nat /\ n >= 1
        /\ 1 \in DOMAIN wire
    BY WireTail
  <1>2. \A n \in Nat : (n - 1) + 1 = n
    OBVIOUS
  <1>3. \A n \in DOMAIN wire' : EventAt(kind, n, h)' <=> EventAt(kind, n + 1, h)
    BY <1>1 DEF EventAt
  <1>4. ASSUME NEW j \in Nat PROVE Behind(kind, j, h)' <=> Behind(kind, j + 1, h)
    <2>1. ASSUME NEW n \in DOMAIN wire', j < n, EventAt(kind, n, h)' PROVE Behind(kind, j + 1, h)
      <3>1. n + 1 \in DOMAIN wire /\ j + 1 < n + 1 /\ EventAt(kind, n + 1, h)
        BY <1>1, <1>3, <2>1
      <3> QED
        BY <3>1 DEF Behind
    <2>2. ASSUME NEW n \in DOMAIN wire, j + 1 < n, EventAt(kind, n, h) PROVE Behind(kind, j, h)'
      <3>1. n \in Nat /\ n # 1 /\ n - 1 \in DOMAIN wire' /\ wire'[n - 1] = wire[n] /\ j < n - 1
        BY <1>1, <2>2
      <3>2. EventAt(kind, n - 1, h)'
        BY <2>2, <3>1 DEF EventAt
      <3> QED
        BY <3>1, <3>2 DEF Behind
    <2> QED
      BY <2>1, <2>2 DEF Behind
  <1>5. Behind(kind, 0, h) <=> EventAt(kind, 1, h) \/ Behind(kind, 1, h)
    <2>1. \A n \in DOMAIN wire : 0 < n /\ (n = 1 \/ 1 < n)
      BY <1>1
    <2>2. \A n \in DOMAIN wire : 1 < n => 0 < n
      BY <1>1
    <2> QED
      BY <1>1, <2>1, <2>2 DEF Behind
  <1> QED
    BY <1>1, <1>2, <1>3, <1>4, <1>5

(* What remains to be shown of toplevel h. *)
LEMMA ToldDispatched ==
    ASSUME TypeOK, NEW h, Told(h), wire # <<>>, wire' = Tail(wire), UNCHANGED top,
           Behind("app_id", 1, h) \/ \A k \in DOMAIN tasks' :
              tasks'[k].handle = h => tasks'[k].app_id = NameOf(h),
           top[h].open =>
             /\ Behind("state", 1, h) \/ \A k \in DOMAIN tasks' :
                   tasks'[k].handle = h => Shows(tasks'[k], h)
             /\ \A k \in DOMAIN tasks' : tasks'[k].handle = h => ~tasks'[k].closed
             /\ Behind("toplevel", 1, h) \/ \E k \in DOMAIN tasks' : tasks'[k].handle = h,
           ~top[h].open =>
             \/ \E n \in DOMAIN wire \ {1} : EventAt("closed", n, h) /\ ~Behind("done", n, h)
             \/ /\ \A k \in DOMAIN tasks' : tasks'[k].handle = h => tasks'[k].closed
                /\ ~Behind("done", 1, h)
                /\ ~Behind("toplevel", 1, h)
    PROVE  Told(h)'
  <1>1. /\ \A kind : \A j \in Nat : Behind(kind, j, h)' <=> Behind(kind, j + 1, h)
        /\ \A kind : \A n \in DOMAIN wire' : EventAt(kind, n, h)' <=> EventAt(kind, n + 1, h)
        /\ \A n \in DOMAIN wire' : n \in Nat /\ n + 1 \in DOMAIN wire /\ wire'[n] = wire[n + 1]
        /\ \A n \in DOMAIN wire \ {1} : n - 1 \in DOMAIN wire' /\ (n - 1) + 1 = n
    BY TailBehind
  <1>2. \A kind : Behind(kind, 0, h)' <=> Behind(kind, 1, h)
    <2>1. 0 \in Nat /\ 0 + 1 = 1
      OBVIOUS
    <2> QED
      BY <1>1, <2>1
  <1>3. NameOf(h)' = NameOf(h)
    BY DEF NameOf, Shows
  <1>4. Announced(h)'
    BY <1>1 DEF Told, Announced
  <1>5. NameTold(h)'
    BY <1>1, <1>2, <1>3 DEF Told, NameTold
  <1>6. top[h].open => FlagsTold(h)'
    BY <1>1, <1>2 DEF Told, FlagsTold, Shows
  <1>7. top[h].open => OpenTold(h)'
    BY <1>2, TailBehind DEF Told, OpenTold
  <1>8. ~top[h].open => ClosedTold(h)'
    <2>1. ASSUME NEW n \in DOMAIN wire \ {1}, EventAt("closed", n, h), ~Behind("done", n, h)
          PROVE  ClosedTold(h)'
      <3>1. n - 1 \in DOMAIN wire' /\ n - 1 \in Nat /\ (n - 1) + 1 = n
        BY <1>1
      <3>2. EventAt("closed", n - 1, h)' /\ ~Behind("done", n - 1, h)'
        BY <1>1, <2>1, <3>1
      <3> QED
        BY <3>1, <3>2 DEF ClosedTold
    <2> QED
      BY <1>2, <2>1 DEF ClosedTold
  <1> QED
    BY <1>4, <1>5, <1>6, <1>7, <1>8 DEF Told

Alike(t, u) == /\ t.handle = u.handle /\ t.app_id = u.app_id
               /\ t.activated = u.activated /\ t.minimized = u.minimized /\ t.closed = u.closed

(* An event that says nothing about h. *)
LEMMA ToldElsewhere ==
    ASSUME TypeOK, NEW h, Told(h), wire # <<>>, wire' = Tail(wire), UNCHANGED top,
           \A kind \in {"toplevel", "app_id", "state", "closed", "done"} : ~EventAt(kind, 1, h),
           \A k \in DOMAIN tasks : tasks[k].handle = h =>
              k \in DOMAIN tasks' /\ tasks'[k].handle = h,
           \A k \in DOMAIN tasks' : tasks'[k].handle = h =>
              k \in DOMAIN tasks /\ Alike(tasks'[k], tasks[k])
    PROVE  Told(h)'
  <1>1. \A kind \in {"toplevel", "app_id", "state", "closed", "done"} :
          Behind(kind, 0, h) <=> Behind(kind, 1, h)
    BY TailBehind
  <1>2. Behind("app_id", 1, h) \/ \A k \in DOMAIN tasks' :
          tasks'[k].handle = h => tasks'[k].app_id = NameOf(h)
    BY <1>1 DEF Told, NameTold, Alike
  <1>3. top[h].open =>
          /\ Behind("state", 1, h) \/ \A k \in DOMAIN tasks' :
                tasks'[k].handle = h => Shows(tasks'[k], h)
          /\ \A k \in DOMAIN tasks' : tasks'[k].handle = h => ~tasks'[k].closed
          /\ Behind("toplevel", 1, h) \/ \E k \in DOMAIN tasks' : tasks'[k].handle = h
    BY <1>1 DEF Told, FlagsTold, OpenTold, Shows, Alike
  <1>4. ~top[h].open =>
          \/ \E n \in DOMAIN wire \ {1} : EventAt("closed", n, h) /\ ~Behind("done", n, h)
          \/ /\ \A k \in DOMAIN tasks' : tasks'[k].handle = h => tasks'[k].closed
             /\ ~Behind("done", 1, h)
             /\ ~Behind("toplevel", 1, h)
    BY <1>1 DEF Told, ClosedTold, Alike
  <1> QED
    BY <1>2, <1>3, <1>4, ToldDispatched

(* What each listener does to the tasks of a toplevel. *)
LEMMA Updated ==
    ASSUME TypeOK, NEW e, e = Head(wire),
           handle_title \/ handle_app_id \/ handle_state \/ handle_done \/ handle_closed
    PROVE  /\ DOMAIN tasks' = DOMAIN tasks
           /\ \A k \in DOMAIN tasks : tasks'[k].handle = tasks[k].handle
           /\ \A k \in DOMAIN tasks : tasks[k].handle # e.handle => tasks'[k] = tasks[k]
           /\ \A k \in DOMAIN tasks : tasks[k].handle = e.handle =>
                /\ handle_title => Alike(tasks'[k], tasks[k])
                /\ ~handle_app_id => tasks'[k].app_id = tasks[k].app_id
                /\ handle_app_id => tasks'[k].app_id = e.name
                /\ ~handle_state => /\ tasks'[k].activated = tasks[k].activated
                                    /\ tasks'[k].minimized = tasks[k].minimized
                /\ handle_state => /\ tasks'[k].activated = e.activated
                                   /\ tasks'[k].minimized = e.minimized
                /\ ~handle_done /\ ~handle_closed => tasks'[k].closed = tasks[k].closed
                /\ handle_done => tasks'[k].closed = FALSE
                /\ handle_closed => tasks'[k].closed = TRUE
  <1>1. /\ DOMAIN tasks' = DOMAIN tasks
        /\ \A k \in DOMAIN tasks : tasks'[k].handle = tasks[k].handle
    BY UpdateHandlers
  <1>2. \A k \in DOMAIN tasks : tasks[k].handle # e.handle => tasks'[k] = tasks[k]
    BY DEF handle_title, handle_app_id, handle_state, handle_done, handle_closed, TaskUpdate
  <1>3. /\ handle_title => e.kind = "title"
        /\ handle_app_id => e.kind = "app_id"
        /\ handle_state => e.kind = "state"
        /\ handle_done => e.kind = "done"
        /\ handle_closed => e.kind = "closed"
    BY DEF handle_title, handle_app_id, handle_state, handle_done, handle_closed, Dispatch
  <1>4. ASSUME NEW k \in DOMAIN tasks, tasks[k].handle = e.handle
        PROVE  /\ handle_title => tasks'[k] = [tasks[k] EXCEPT !.title = e.name]
               /\ handle_app_id => tasks'[k] = [tasks[k] EXCEPT !.app_id = e.name]
               /\ handle_state => tasks'[k] = [tasks[k] EXCEPT !.activated = e.activated,
                                                               !.minimized = e.minimized]
               /\ handle_done => tasks'[k] = [tasks[k] EXCEPT !.closed = FALSE]
               /\ handle_closed => tasks'[k] = [tasks[k] EXCEPT !.closed = TRUE]
    BY <1>4 DEF handle_title, handle_app_id, handle_state, handle_done, handle_closed, TaskUpdate
  <1>5. \A k \in DOMAIN tasks : tasks[k] \in Task
    BY DEF TypeOK
  <1>6. ASSUME NEW k \in DOMAIN tasks, tasks[k].handle = e.handle
        PROVE  /\ handle_title => Alike(tasks'[k], tasks[k])
               /\ ~handle_app_id => tasks'[k].app_id = tasks[k].app_id
               /\ handle_app_id => tasks'[k].app_id = e.name
               /\ ~handle_state => /\ tasks'[k].activated = tasks[k].activated
                                   /\ tasks'[k].minimized = tasks[k].minimized
               /\ handle_state => /\ tasks'[k].activated = e.activated
                                  /\ tasks'[k].minimized = e.minimized
               /\ ~handle_done /\ ~handle_closed => tasks'[k].closed = tasks[k].closed
               /\ handle_done => tasks'[k].closed = FALSE
               /\ handle_closed => tasks'[k].closed = TRUE
    <2>1. tasks[k] \in Task
      BY <1>5
    <2>2. CASE handle_title
      <3>1. tasks'[k] = [tasks[k] EXCEPT !.title = e.name]
        BY <1>4, <1>6, <2>2
      <3>2. /\ Alike(tasks'[k], tasks[k]) /\ tasks'[k].app_id = tasks[k].app_id
            /\ tasks'[k].activated = tasks[k].activated
            /\ tasks'[k].minimized = tasks[k].minimized
            /\ tasks'[k].closed = tasks[k].closed
        BY <2>1, <3>1 DEF Task, Alike
      <3> QED
        BY <1>3, <2>2, <3>2
    <2>3. CASE handle_app_id
      <3>1. tasks'[k] = [tasks[k] EXCEPT !.app_id = e.name]
        BY <1>4, <1>6, <2>3
      <3>2. /\ tasks'[k].app_id = e.name
            /\ tasks'[k].activated = tasks[k].activated
            /\ tasks'[k].minimized = tasks[k].minimized
            /\ tasks'[k].closed = tasks[k].closed
        BY <2>1, <3>1 DEF Task
      <3> QED
        BY <1>3, <2>3, <3>2
    <2>4. CASE handle_state
      <3>1. tasks'[k] = [tasks[k] EXCEPT !.activated = e.activated, !.minimized = e.minimized]
        BY <1>4, <1>6, <2>4
      <3>2. /\ tasks'[k].app_id = tasks[k].app_id
            /\ tasks'[k].activated = e.activated
            /\ tasks'[k].minimized = e.minimized
            /\ tasks'[k].closed = tasks[k].closed
        BY <2>1, <3>1 DEF Task
      <3> QED
        BY <1>3, <2>4, <3>2
    <2>5. CASE handle_done
      <3>1. tasks'[k] = [tasks[k] EXCEPT !.closed = FALSE]
        BY <1>4, <1>6, <2>5
      <3>2. /\ tasks'[k].app_id = tasks[k].app_id
            /\ tasks'[k].activated = tasks[k].activated
            /\ tasks'[k].minimized = tasks[k].minimized
            /\ tasks'[k].closed = FALSE
        BY <2>1, <3>1 DEF Task
      <3> QED
        BY <1>3, <2>5, <3>2
    <2>6. CASE handle_closed
      <3>1. tasks'[k] = [tasks[k] EXCEPT !.closed = TRUE]
        BY <1>4, <1>6, <2>6
      <3>2. /\ tasks'[k].app_id = tasks[k].app_id
            /\ tasks'[k].activated = tasks[k].activated
            /\ tasks'[k].minimized = tasks[k].minimized
            /\ tasks'[k].closed = TRUE
        BY <2>1, <3>1 DEF Task
      <3> QED
        BY <1>3, <2>6, <3>2
    <2> QED
      BY <2>2, <2>3, <2>4, <2>5, <2>6
  <1> QED
    BY <1>1, <1>2, <1>6

LEMMA UpdateTold ==
    ASSUME TypeOK, NEW h, Told(h),
           handle_title \/ handle_app_id \/ handle_state \/ handle_done \/ handle_closed
    PROVE  Told(h)'
  <1>1. PICK kind \in {"title", "app_id", "state", "done", "closed"} :
          /\ Dispatch(kind)
          /\ kind = "title" => handle_title
          /\ kind = "app_id" <=> handle_app_id
          /\ kind = "state" <=> handle_state
          /\ kind = "done" <=> handle_done
          /\ kind = "closed" <=> handle_closed
    BY DEF handle_title, handle_app_id, handle_state, handle_done, handle_closed, Dispatch
  <1>2. wire # <<>> /\ wire' = Tail(wire) /\ Head(wire).kind = kind /\ UNCHANGED top
    BY <1>1 DEF Dispatch
  <1>3. PICK e : e = Head(wire) /\ e = wire[1] /\ 1 \in DOMAIN wire
    BY <1>2, WireTail
  <1>4. /\ DOMAIN tasks' = DOMAIN tasks
        /\ \A k \in DOMAIN tasks : tasks'[k].handle = tasks[k].handle
        /\ \A k \in DOMAIN tasks : tasks[k].handle # e.handle => tasks'[k] = tasks[k]
        /\ \A k \in DOMAIN tasks : tasks[k].handle = e.handle =>
             /\ kind = "title" => Alike(tasks'[k], tasks[k])
             /\ tasks'[k].app_id = IF kind = "app_id" THEN e.name ELSE tasks[k].app_id
             /\ kind # "state" => /\ tasks'[k].activated = tasks[k].activated
                                  /\ tasks'[k].minimized = tasks[k].minimized
             /\ kind = "state" => /\ tasks'[k].activated = e.activated
                                  /\ tasks'[k].minimized = e.minimized
             /\ kind # "done" /\ kind # "closed" => tasks'[k].closed = tasks[k].closed
             /\ kind = "done" => tasks'[k].closed = FALSE
             /\ kind = "closed" => tasks'[k].closed = TRUE
    BY <1>1, <1>3, Updated
  <1>5. \A other : other # kind => ~EventAt(other, 1, h)
    BY <1>2, <1>3 DEF EventAt
  <1>6. CASE e.handle # h \/ kind = "title"
    <2>1. \A other \in {"toplevel", "app_id", "state", "closed", "done"} : ~EventAt(other, 1, h)
      BY <1>3, <1>5, <1>6 DEF EventAt
    <2>2. \A k \in DOMAIN tasks : tasks[k].handle = h => Alike(tasks'[k], tasks[k])
      BY <1>4, <1>6 DEF Alike
    <2> QED
      BY <1>2, <1>4, <2>1, <2>2, ToldElsewhere
  <1>7. CASE e.handle = h /\ kind # "title"
    <2>0. EventAt(kind, 1, h)
      BY <1>2, <1>3, <1>7 DEF EventAt
    <2>1. \A other : other # kind => (Behind(other, 0, h) <=> Behind(other, 1, h))
      BY <1>2, <1>5, TailBehind
    <2>2. Behind("app_id", 1, h) \/ \A k \in DOMAIN tasks' :
            tasks'[k].handle = h => tasks'[k].app_id = NameOf(h)
      <3>1. CASE kind = "app_id"
        <4>1. e.name = NameOf(h)
          BY <1>3, <2>0, <3>1 DEF Told, NameTold
        <4> QED
          BY <1>4, <1>7, <3>1, <4>1
      <3>2. CASE kind # "app_id"
        BY <1>4, <1>7, <2>1, <3>2 DEF Told, NameTold
      <3> QED
        BY <3>1, <3>2
    <2>3. top[h].open =>
            Behind("state", 1, h) \/ \A k \in DOMAIN tasks' :
                tasks'[k].handle = h => Shows(tasks'[k], h)
      <3>1. CASE kind = "state" /\ top[h].open /\ ~Behind("state", 1, h)
        <4>1. Shows(e, h)
          BY <1>3, <2>0, <3>1 DEF Told, FlagsTold
        <4> QED
          BY <1>4, <1>7, <3>1, <4>1 DEF Shows
      <3>2. CASE kind # "state"
        BY <1>4, <1>7, <2>1, <3>2 DEF Told, FlagsTold, Shows
      <3> QED
        BY <3>1, <3>2
    <2>4. top[h].open =>
            /\ \A k \in DOMAIN tasks' : tasks'[k].handle = h => ~tasks'[k].closed
            /\ Behind("toplevel", 1, h) \/ \E k \in DOMAIN tasks' : tasks'[k].handle = h
      <3>1. top[h].open => OpenTold(h)
        BY DEF Told
      <3>2. top[h].open => kind # "closed"
        <4>1. kind = "closed" => Behind("closed", 0, h)
          BY <1>2, <2>0, TailBehind
        <4> QED
          BY <3>1, <4>1 DEF OpenTold
      <3>3. Behind("toplevel", 0, h) <=> Behind("toplevel", 1, h)
        BY <2>1
      <3> QED
        BY <1>4, <1>7, <3>1, <3>2, <3>3 DEF OpenTold
    <2>5. ~top[h].open =>
            \/ \E n \in DOMAIN wire \ {1} : EventAt("closed", n, h) /\ ~Behind("done", n, h)
            \/ /\ \A k \in DOMAIN tasks' : tasks'[k].handle = h => tasks'[k].closed
               /\ ~Behind("done", 1, h)
               /\ ~Behind("toplevel", 1, h)
      <3> SUFFICES ASSUME ~top[h].open,
                          \A n \in DOMAIN wire \ {1} : EventAt("closed", n, h) => Behind("done", n, h)
                   PROVE  /\ \A k \in DOMAIN tasks' : tasks'[k].handle = h => tasks'[k].closed
                          /\ ~Behind("done", 1, h)
                          /\ ~Behind("toplevel", 1, h)
        OBVIOUS
      <3>1. ClosedTold(h) /\ Announced(h)
        BY DEF Told
      <3>2. CASE EventAt("closed", 1, h) /\ ~Behind("done", 1, h)
        <4>1. kind = "closed"
          BY <1>5, <3>2
        <4>2. \A k \in DOMAIN tasks' : tasks'[k].handle = h => tasks'[k].closed
          BY <1>4, <1>7, <4>1
        <4>3. ASSUME Behind("toplevel", 1, h) PROVE FALSE
          <5>1. PICK n \in DOMAIN wire : 1 < n /\ EventAt("toplevel", n, h)
            BY <4>3 DEF Behind
          <5>2. PICK m \in DOMAIN wire : n < m /\ EventAt("closed", m, h)
            BY <3>1, <5>1 DEF Announced, Behind
          <5>3. n \in Nat /\ m \in Nat
            BY <1>2, WireTail
          <5>4. m # 1 /\ 1 < m
            BY <5>1, <5>2, <5>3
          <5>5. PICK d \in DOMAIN wire : m < d /\ EventAt("done", d, h)
            BY <5>2, <5>4 DEF Behind
          <5>6. d \in Nat
            BY <1>2, WireTail
          <5>7. 1 < d
            BY <5>3, <5>4, <5>5, <5>6
          <5> QED
            BY <3>2, <5>5, <5>7 DEF Behind
        <4> QED
          BY <3>2, <4>2, <4>3
      <3>3. CASE /\ \A k \in DOMAIN tasks : tasks[k].handle = h => tasks[k].closed
                 /\ ~Behind("done", 0, h)
                 /\ ~Behind("toplevel", 0, h)
        <4>1. kind # "done"
          BY <1>2, <2>0, <3>3, TailBehind
        <4>2. ~Behind("done", 1, h) /\ ~Behind("toplevel", 1, h)
          BY <1>2, <3>3, TailBehind
        <4> QED
          BY <1>4, <1>7, <3>3, <4>1, <4>2
      <3> QED
        BY <3>1, <3>2, <3>3 DEF ClosedTold
    <2> QED
      BY <1>2, <2>2, <2>3, <2>4, <2>5, ToldDispatched
  <1> QED
    BY <1>6, <1>7

LEMMA ToplevelTold ==
    ASSUME TypeOK, NEW h, Told(h), manager_toplevel
    PROVE  Told(h)'
  <1>1. /\ wire # <<>> /\ wire' = Tail(wire) /\ UNCHANGED top
        /\ Head(wire).kind = "toplevel"
    BY DEF manager_toplevel, Dispatch
  <1>2. Head(wire) = wire[1] /\ 1 \in DOMAIN wire
    BY <1>1, WireTail
  <1>3. PICK new : new = NewTask(next_id, Head(wire).handle)
    OBVIOUS
  <1>4. PICK L : /\ L \notin DOMAIN tasks /\ DOMAIN tasks' = DOMAIN tasks \cup {L}
                 /\ tasks'[L] = new /\ \A k \in DOMAIN tasks : tasks'[k] = tasks[k]
    <2>1. tasks \in Seq(Task) /\ tasks' = Append(tasks, new)
      BY <1>3 DEF TypeOK, manager_toplevel
    <2>2. PICK M \in Nat : M = Len(tasks) /\ DOMAIN tasks = 1 .. M
      BY <2>1
    <2>3. /\ M + 1 \notin DOMAIN tasks /\ DOMAIN tasks' = DOMAIN tasks \cup {M + 1}
          /\ tasks'[M + 1] = new /\ \A k \in DOMAIN tasks : tasks'[k] = tasks[k]
      BY <2>1, <2>2
    <2> QED
      BY <2>3
  <1>5. new.handle = wire[1].handle /\ ~new.closed
    BY <1>2, <1>3 DEF NewTask
  <1>6. \A kind : kind # "toplevel" => ~EventAt(kind, 1, h)
    BY <1>1, <1>2 DEF EventAt
  <1>7. CASE wire[1].handle # h
    <2>1. \A kind : ~EventAt(kind, 1, h)
      BY <1>7 DEF EventAt
    <2>2. \A k \in DOMAIN tasks : tasks[k].handle = h =>
            k \in DOMAIN tasks' /\ tasks'[k].handle = h
      BY <1>4
    <2>3. \A k \in DOMAIN tasks' : tasks'[k].handle = h =>
            k \in DOMAIN tasks /\ Alike(tasks'[k], tasks[k])
      BY <1>4, <1>5, <1>7 DEF Alike
    <2> QED
      BY <1>1, <2>1, <2>2, <2>3, ToldElsewhere
  <1>8. CASE wire[1].handle = h
    <2>0. EventAt("toplevel", 1, h) /\ Behind("toplevel", 0, h)
      <3>1. EventAt("toplevel", 1, h)
        BY <1>1, <1>2, <1>8 DEF EventAt
      <3> QED
        BY <1>1, <3>1, TailBehind
    <2>1. Behind("app_id", 1, h) /\ Behind("state", 1, h)
      BY <1>2, <2>0 DEF Told, Announced
    <2>2. top[h].open =>
            /\ \A k \in DOMAIN tasks' : tasks'[k].handle = h => ~tasks'[k].closed
            /\ \E k \in DOMAIN tasks' : tasks'[k].handle = h
      BY <1>4, <1>5, <1>8 DEF Told, OpenTold
    <2>3. ~top[h].open =>
            \E n \in DOMAIN wire \ {1} : EventAt("closed", n, h) /\ ~Behind("done", n, h)
      BY <1>6, <2>0 DEF Told, ClosedTold
    <2> QED
      BY <1>1, <2>1, <2>2, <2>3, ToldDispatched
  <1> QED
    BY <1>7, <1>8

LEMMA DisplayTold ==
    ASSUME TypeOK, NEW h, Told(h),
           \/ manager_toplevel \/ manager_finished \/ handle_title \/ handle_app_id
           \/ handle_state \/ handle_done \/ handle_closed
    PROVE  Told(h)'
  <1>1. CASE manager_finished
    <2>1. /\ wire # <<>> /\ wire' = Tail(wire) /\ UNCHANGED <<top, tasks>>
          /\ Head(wire).kind = "finished"
      BY <1>1 DEF manager_finished, Dispatch
    <2>2. Head(wire) = wire[1]
      BY <2>1, WireTail
    <2>3. \A kind \in {"toplevel", "app_id", "state", "closed", "done"} : ~EventAt(kind, 1, h)
      BY <2>1, <2>2 DEF EventAt
    <2>4. \A k \in DOMAIN tasks : Alike(tasks'[k], tasks[k])
      BY <2>1 DEF Alike
    <2> QED
      BY <2>1, <2>3, <2>4, ToldElsewhere
  <1> QED
    BY <1>1, UpdateTold, ToplevelTold

LEMMA PruneTold ==
    ASSUME TypeOK, TableInv, prune_closed
    PROVE  TableInv'
  <1>1. PICK k \in DOMAIN tasks : tasks[k].closed /\ tasks' = Erase(tasks, k)
    BY DEF prune_closed, ClosedTasks
  <1>2. UNCHANGED <<top, wire>>
    BY DEF prune_closed, compVars
  <1>3. PICK L \in Nat : L = Len(tasks) /\ DOMAIN tasks = 1 .. L
    BY DEF TypeOK
  <1>4. /\ DOMAIN tasks' = 1 .. (L - 1)
        /\ \A j \in 1 .. (L - 1) : tasks'[j] = IF j < k THEN tasks[j] ELSE tasks[j + 1]
    <2>1. /\ Len(tasks') = Len(tasks) - 1
          /\ tasks' \in Seq(Task)
          /\ \A j \in 1 .. (Len(tasks) - 1) :
               tasks'[j] = IF j < k THEN tasks[j] ELSE tasks[j + 1]
      BY <1>1, EraseSeq DEF TypeOK
    <2>2. DOMAIN tasks' = 1 .. Len(tasks')
      BY <2>1
    <2> QED
      BY <1>3, <2>1, <2>2
  <1>5. \A j \in DOMAIN tasks' : \E n \in DOMAIN tasks : tasks'[j] = tasks[n]
    <2>1. k \in 1 .. L /\ \A j \in 1 .. (L - 1) : j \in 1 .. L /\ j + 1 \in 1 .. L
      BY <1>3
    <2> QED
      BY <1>3, <1>4, <2>1
  <1>6. ASSUME NEW n \in DOMAIN tasks, n # k PROVE \E j \in DOMAIN tasks' : tasks'[j] = tasks[n]
    <2>1. CASE n < k
      <3>1. n \in 1 .. (L - 1)
        BY <1>3, <2>1
      <3> QED
        BY <1>4, <2>1, <3>1
    <2>2. CASE ~(n < k)
      <3>1. n - 1 \in 1 .. (L - 1) /\ ~(n - 1 < k) /\ (n - 1) + 1 = n
        BY <1>3, <1>6, <2>2
      <3> QED
        BY <1>4, <3>1
    <2> QED
      BY <2>1, <2>2
  <1>7. ASSUME NEW h \in DOMAIN top PROVE Told(h)'
    <2>1. Told(h)
      BY DEF TableInv
    <2>2. /\ \A kind, j : Behind(kind, j, h)' <=> Behind(kind, j, h)
          /\ \A kind, n : EventAt(kind, n, h)' <=> EventAt(kind, n, h)
          /\ NameOf(h)' = NameOf(h)
      BY <1>2 DEF Behind, EventAt, NameOf
    <2>3. Announced(h)' /\ NameTold(h)'
      BY <1>2, <1>5, <2>1, <2>2 DEF Told, Announced, NameTold
    <2>4. top[h].open => FlagsTold(h)'
      BY <1>2, <1>5, <2>1, <2>2 DEF Told, FlagsTold, Shows
    <2>5. top[h].open => OpenTold(h)'
      BY <1>1, <1>2, <1>5, <1>6, <2>1, <2>2 DEF Told, OpenTold
    <2>6. ~top[h].open => ClosedTold(h)'
      BY <1>2, <1>5, <2>1, <2>2 DEF Told, ClosedTold
    <2> QED
      BY <1>2, <2>3, <2>4, <2>5, <2>6 DEF Told
  <1> QED
    BY <1>2, <1>7 DEF TableInv, OneActive

----------------------------------------------------------------------------
(* The compositor tells what it changes *)

Says(s, kind, h) == \E m \in DOMAIN s : s[m].kind = kind /\ s[m].handle = h

(* Two sequences in a row. *)
LEMMA JoinIndex ==
    ASSUME NEW L \in Nat, NEW M \in Nat, NEW f, NEW x, NEW y,
           \A k \in 1 .. (L + M) : f[k] = IF k <= L THEN x[k] ELSE y[k - L]
    PROVE  /\ \A k \in 1 .. L : k \in 1 .. (L + M) /\ f[k] = x[k]
           /\ \A n \in (1 .. (L + M)) \ (1 .. L) :
                 /\ \A k \in 1 .. L : k < n
                 /\ n - L \in 1 .. M /\ f[n] = y[n - L]
           /\ \A m \in 1 .. M : /\ L + m \in (1 .. (L + M)) \ (1 .. L)
                               /\ f[L + m] = y[m]
                               /\ \A j \in (1 .. L) \cup {0} : j < L + m
  <1>1. \A k \in 1 .. L : k \in 1 .. (L + M) /\ k <= L
    OBVIOUS
  <1>2. \A n \in (1 .. (L + M)) \ (1 .. L) : /\ \A k \in 1 .. L : k < n
                                          /\ n - L \in 1 .. M /\ ~(n <= L)
    OBVIOUS
  <1>3. \A m \in 1 .. M : /\ L + m \in (1 .. (L + M)) \ (1 .. L)
                          /\ ~(L + m <= L) /\ (L + m) - L = m
                          /\ \A j \in (1 .. L) \cup {0} : j < L + m
    OBVIOUS
  <1>4. \A m \in 1 .. M : f[L + m] = y[m]
    <2> SUFFICES ASSUME NEW m \in 1 .. M PROVE f[L + m] = y[m]
      OBVIOUS
    <2>1. f[L + m] = y[(L + m) - L]
      BY <1>3
    <2> QED
      BY <1>3, <2>1
  <1> QED
    BY <1>1, <1>2, <1>3, <1>4

InRow(x, y, z) ==
    \E L, M \in Nat :
       /\ L = Len(x) /\ M = Len(y)
       /\ DOMAIN x = 1 .. L /\ DOMAIN y = 1 .. M /\ DOMAIN z = 1 .. (L + M)
       /\ \A k \in 1 .. L : k \in 1 .. (L + M) /\ z[k] = x[k]
       /\ \A n \in (1 .. (L + M)) \ (1 .. L) :
             /\ \A k \in 1 .. L : k < n
             /\ n - L \in 1 .. M /\ z[n] = y[n - L]
       /\ \A m \in 1 .. M : /\ L + m \in (1 .. (L + M)) \ (1 .. L)
                           /\ z[L + m] = y[m]
                           /\ \A j \in (1 .. L) \cup {0} : j < L + m

LEMMA Joined ==
    ASSUME NEW S, NEW x \in Seq(S), NEW y \in Seq(S)
    PROVE  InRow(x, y, x \o y)
  <1>1. PICK L \in Nat : L = Len(x)
    OBVIOUS
  <1>2. PICK M \in Nat : M = Len(y)
    OBVIOUS
  <1>3. DOMAIN x = 1 .. L /\ DOMAIN y = 1 .. M /\ DOMAIN (x \o y) = 1 .. (L + M)
    BY <1>1, <1>2
  <1>4. \A k \in 1 .. (L + M) : (x \o y)[k] = IF k <= L THEN x[k] ELSE y[k - L]
    BY <1>1, <1>2
  <1>5. PICK z : z = x \o y
    OBVIOUS
  <1>6. /\ DOMAIN x = 1 .. L /\ DOMAIN y = 1 .. M /\ DOMAIN z = 1 .. (L + M)
        /\ \A k \in 1 .. (L + M) : z[k] = IF k <= L THEN x[k] ELSE y[k - L]
    BY <1>3, <1>4, <1>5
  <1>7. /\ \A k \in 1 .. L : k \in 1 .. (L + M) /\ z[k] = x[k]
        /\ \A n \in (1 .. (L + M)) \ (1 .. L) :
              /\ \A k \in 1 .. L : k < n
              /\ n - L \in 1 .. M /\ z[n] = y[n - L]
        /\ \A m \in 1 .. M : /\ L + m \in (1 .. (L + M)) \ (1 .. L)
                            /\ z[L + m] = y[m]
                            /\ \A j \in (1 .. L) \cup {0} : j < L + m
    BY <1>6, JoinIndex
  <1>8. InRow(x, y, z)
    BY <1>1, <1>2, <1>6, <1>7 DEF InRow
  <1> QED
    BY <1>5, <1>8

LEMMA SaysBoth ==
    ASSUME NEW x \in Seq(Event), NEW y \in Seq(Event), NEW kind, NEW h
    PROVE  Says(x \o y, kind, h) <=> Says(x, kind, h) \/ Says(y, kind, h)
  <1>1. PICK z : z = x \o y
    OBVIOUS
  <1>2. PICK L, M \in Nat :
              /\ L = Len(x) /\ M = Len(y)
              /\ DOMAIN x = 1 .. L /\ DOMAIN y = 1 .. M /\ DOMAIN z = 1 .. (L + M)
              /\ \A k \in 1 .. L : k \in 1 .. (L + M) /\ z[k] = x[k]
              /\ \A n \in (1 .. (L + M)) \ (1 .. L) :
                    /\ \A k \in 1 .. L : k < n
                    /\ n - L \in 1 .. M /\ z[n] = y[n - L]
              /\ \A m \in 1 .. M : /\ L + m \in (1 .. (L + M)) \ (1 .. L)
                                  /\ z[L + m] = y[m]
                                  /\ \A j \in (1 .. L) \cup {0} : j < L + m
    <2>1. InRow(x, y, z)
      BY <1>1, Joined
    <2> QED
      BY <2>1 DEF InRow
  <1>4. Says(z, kind, h) <=> Says(x, kind, h) \/ Says(y, kind, h)
    <2>1. ASSUME NEW m \in DOMAIN z, z[m].kind = kind, z[m].handle = h
          PROVE  Says(x, kind, h) \/ Says(y, kind, h)
      BY <1>2, <2>1 DEF Says
    <2>2. ASSUME NEW m \in DOMAIN x, x[m].kind = kind, x[m].handle = h PROVE Says(z, kind, h)
      BY <1>2, <2>2 DEF Says
    <2>3. ASSUME NEW m \in DOMAIN y, y[m].kind = kind, y[m].handle = h PROVE Says(z, kind, h)
      BY <1>2, <2>3 DEF Says
    <2> QED
      BY <2>1, <2>2, <2>3 DEF Says
  <1> QED
    BY <1>1, <1>4

(* What the longer wire says of toplevel h. *)
LEMMA Grown ==
    ASSUME TypeOK, NEW ext \in Seq(Event), wire' = wire \o ext, NEW h
    PROVE  /\ DOMAIN wire \subseteq DOMAIN wire' /\ DOMAIN wire' \subseteq Nat \ {0}
           /\ \A n \in DOMAIN wire : wire'[n] = wire[n]
           /\ \A n \in DOMAIN wire' \ DOMAIN wire :
                 /\ \A k \in DOMAIN wire : k < n
                 /\ \E m \in DOMAIN ext : wire'[n] = ext[m] /\ n = Len(wire) + m
           /\ \A kind : \A j \in Nat : Behind(kind, j, h) => Behind(kind, j, h)'
           /\ \A kind : \A j \in DOMAIN wire \cup {0} : Says(ext, kind, h) => Behind(kind, j, h)'
           /\ \A kind : ~Says(ext, kind, h) =>
                 /\ \A j \in Nat : Behind(kind, j, h)' => Behind(kind, j, h)
                 /\ \A n \in DOMAIN wire' : EventAt(kind, n, h)' => n \in DOMAIN wire /\ EventAt(kind, n, h)
           /\ \A m \in DOMAIN ext : \E n \in DOMAIN wire' \ DOMAIN wire : /\ wire'[n] = ext[m]
                                                                          /\ n = Len(wire) + m
  <1>1. PICK L, M \in Nat :
              /\ L = Len(wire) /\ M = Len(ext)
              /\ DOMAIN wire = 1 .. L /\ DOMAIN ext = 1 .. M /\ DOMAIN wire' = 1 .. (L + M)
              /\ \A k \in 1 .. L : k \in 1 .. (L + M) /\ wire'[k] = wire[k]
              /\ \A n \in (1 .. (L + M)) \ (1 .. L) :
                    /\ \A k \in 1 .. L : k < n
                    /\ n - L \in 1 .. M /\ wire'[n] = ext[n - L]
              /\ \A m \in 1 .. M : /\ L + m \in (1 .. (L + M)) \ (1 .. L)
                                  /\ wire'[L + m] = ext[m]
                                  /\ \A j \in (1 .. L) \cup {0} : j < L + m
    <2>1. wire \in Seq(Event)
      BY DEF TypeOK
    <2>2. InRow(wire, ext, wire')
      BY <2>1, Joined
    <2> QED
      BY <2>2 DEF InRow
  <1>3. 1 .. (L + M) \subseteq Nat \ {0} /\ \A n \in 1 .. (L + M) : n = L + (n - L)
    OBVIOUS
  <1>8. \A kind : \A j \in Nat : Behind(kind, j, h) => Behind(kind, j, h)'
    BY <1>1 DEF Behind, EventAt
  <1>9. ASSUME NEW kind, NEW j \in DOMAIN wire \cup {0}, Says(ext, kind, h)
        PROVE  Behind(kind, j, h)'
    <2>1. PICK m \in DOMAIN ext : ext[m].kind = kind /\ ext[m].handle = h
      BY <1>9 DEF Says
    <2>2. L + m \in DOMAIN wire' /\ wire'[L + m] = ext[m] /\ j < L + m
      BY <1>1
    <2> QED
      BY <2>1, <2>2 DEF Behind, EventAt
  <1>10. ASSUME NEW kind, ~Says(ext, kind, h), NEW n \in DOMAIN wire', EventAt(kind, n, h)'
         PROVE  n \in DOMAIN wire /\ EventAt(kind, n, h)
    <2>1. CASE n \in DOMAIN wire
      BY <1>1, <1>10, <2>1 DEF EventAt
    <2>2. CASE n \notin DOMAIN wire
      BY <1>1, <1>10, <2>2 DEF EventAt, Says
    <2> QED
      BY <2>1, <2>2
  <1>11. ASSUME NEW kind, ~Says(ext, kind, h), NEW j \in Nat, Behind(kind, j, h)'
         PROVE  Behind(kind, j, h)
    BY <1>10, <1>11 DEF Behind
  <1>12. \A m \in DOMAIN ext : \E n \in DOMAIN wire' \ DOMAIN wire : /\ wire'[n] = ext[m]
                                                                    /\ n = Len(wire) + m
    BY <1>1
  <1>13. \A n \in DOMAIN wire' \ DOMAIN wire :
            /\ \A k \in DOMAIN wire : k < n
            /\ \E m \in DOMAIN ext : wire'[n] = ext[m] /\ n = Len(wire) + m
    BY <1>1, <1>3
  <1>14. /\ DOMAIN wire \subseteq DOMAIN wire' /\ DOMAIN wire' \subseteq Nat \ {0}
         /\ \A n \in DOMAIN wire : wire'[n] = wire[n]
    BY <1>1, <1>3
  <1> QED
    BY <1>8, <1>9, <1>10, <1>11, <1>12, <1>13, <1>14

(* A toplevel that was there before. *)
LEMMA ToldOn ==
    ASSUME TypeOK, NEW h, Told(h), NEW ext \in Seq(Event), wire' = wire \o ext, UNCHANGED tasks,
           top'[h].shell = top[h].shell, top'[h].open => top[h].open,
           ~Says(ext, "toplevel", h), ~Says(ext, "app_id", h),
           top'[h].open => /\ ~Says(ext, "closed", h)
                           /\ \/ Says(ext, "state", h)
                              \/ Shows(top'[h], h),
           \A m \in DOMAIN ext : ext[m].kind = "state" /\ ext[m].handle = h =>
              ext[m].activated = top'[h].activated /\ ext[m].minimized = top'[h].minimized,
           ~top'[h].open => /\ ~Says(ext, "done", h)
                            /\ top[h].open => Says(ext, "closed", h)
    PROVE  Told(h)'
  <1>1. /\ DOMAIN wire \subseteq DOMAIN wire' /\ DOMAIN wire' \subseteq Nat \ {0}
        /\ \A n \in DOMAIN wire : wire'[n] = wire[n]
        /\ \A n \in DOMAIN wire' \ DOMAIN wire :
              /\ \A k \in DOMAIN wire : k < n
              /\ \E m \in DOMAIN ext : wire'[n] = ext[m] /\ n = Len(wire) + m
        /\ \A kind : \A j \in Nat : Behind(kind, j, h) => Behind(kind, j, h)'
        /\ \A kind : \A j \in DOMAIN wire \cup {0} : Says(ext, kind, h) => Behind(kind, j, h)'
        /\ \A kind : ~Says(ext, kind, h) =>
              /\ \A j \in Nat : Behind(kind, j, h)' => Behind(kind, j, h)
              /\ \A n \in DOMAIN wire' : EventAt(kind, n, h)' => n \in DOMAIN wire /\ EventAt(kind, n, h)
        /\ \A m \in DOMAIN ext : \E n \in DOMAIN wire' \ DOMAIN wire : /\ wire'[n] = ext[m]
                                                                       /\ n = Len(wire) + m
    BY Grown
  <1>2. 0 \in Nat /\ DOMAIN wire \subseteq Nat
    BY <1>1
  <1>3. NameOf(h)' = NameOf(h)
    BY DEF NameOf
  <1>4. Announced(h)'
    <2>1. ASSUME NEW n \in DOMAIN wire', EventAt("toplevel", n, h)'
          PROVE  /\ Behind("state", n, h)' /\ Behind("app_id", n, h)'
                 /\ ~top'[h].open => Behind("closed", n, h)'
      <3>1. n \in DOMAIN wire /\ EventAt("toplevel", n, h)
        BY <1>1, <2>1
      <3>2. /\ Behind("state", n, h) /\ Behind("app_id", n, h)
            /\ ~top[h].open => Behind("closed", n, h)
        BY <3>1 DEF Told, Announced
      <3> QED
        BY <1>1, <1>2, <3>1, <3>2
    <2> QED
      BY <2>1 DEF Announced
  <1>5. NameTold(h)'
    <2>1. \A n \in DOMAIN wire' : EventAt("app_id", n, h)' => wire'[n].name = NameOf(h)
      BY <1>1 DEF Told, NameTold
    <2> QED
      BY <1>1, <1>2, <1>3, <2>1 DEF Told, NameTold
  <1>6. ASSUME top'[h].open PROVE FlagsTold(h)'
    <2>1. FlagsTold(h)
      BY <1>6 DEF Told
    <2>2. ASSUME NEW n \in DOMAIN wire', EventAt("state", n, h)', ~Behind("state", n, h)'
          PROVE  Shows(wire[n], h)'
      <3>1. CASE n \in DOMAIN wire
        <4>1. EventAt("state", n, h) /\ ~Behind("state", n, h) /\ wire'[n] = wire[n]
          BY <1>1, <1>2, <2>2, <3>1 DEF EventAt
        <4>2. ~Says(ext, "state", h)
          BY <1>1, <2>2, <3>1
        <4> QED
          BY <1>6, <2>1, <3>1, <4>1, <4>2 DEF FlagsTold, Shows
      <3>2. CASE n \notin DOMAIN wire
        BY <1>1, <2>2, <3>2 DEF EventAt, Shows
      <3> QED
        BY <3>1, <3>2
    <2>3. Behind("state", 0, h)' \/ \A k \in DOMAIN tasks : tasks[k].handle = h => Shows(tasks[k], h)'
      <3>1. Says(ext, "state", h) => Behind("state", 0, h)'
        BY <1>1
      <3>2. Behind("state", 0, h) => Behind("state", 0, h)'
        BY <1>1, <1>2
      <3> QED
        BY <1>6, <2>1, <3>1, <3>2 DEF FlagsTold, Shows
    <2> QED
      BY <2>2, <2>3 DEF FlagsTold, Shows
  <1>7. top'[h].open => OpenTold(h)'
    BY <1>1, <1>2 DEF Told, OpenTold
  <1>8. ASSUME ~top'[h].open PROVE ClosedTold(h)'
    <2>1. \A j \in Nat : Behind("done", j, h)' => Behind("done", j, h)
      BY <1>1, <1>8
    <2>2. CASE top[h].open
      <3>1. PICK m \in DOMAIN ext : ext[m].kind = "closed" /\ ext[m].handle = h
        BY <1>8, <2>2 DEF Says
      <3>2. PICK n \in DOMAIN wire' \ DOMAIN wire : wire'[n] = ext[m]
        BY <1>1
      <3>3. EventAt("closed", n, h)'
        BY <3>1, <3>2 DEF EventAt
      <3>4. ASSUME Behind("done", n, h)' PROVE FALSE
        <4>1. PICK d \in DOMAIN wire' : n < d /\ EventAt("done", d, h)'
          BY <3>4 DEF Behind
        <4>2. d \in DOMAIN wire
          BY <1>1, <1>8, <4>1
        <4>3. d < n /\ d \in Nat /\ n \in Nat
          BY <1>1, <1>2, <4>2
        <4> QED
          BY <4>1, <4>3
      <3> QED
        BY <3>3, <3>4 DEF ClosedTold
    <2>3. CASE ~top[h].open
      <3>1. ClosedTold(h)
        BY <2>3 DEF Told
      <3>2. ASSUME NEW n \in DOMAIN wire, EventAt("closed", n, h), ~Behind("done", n, h)
            PROVE  ClosedTold(h)'
        <4>1. n \in DOMAIN wire' /\ EventAt("closed", n, h)' /\ ~Behind("done", n, h)'
          BY <1>1, <1>2, <2>1, <3>2 DEF EventAt
        <4> QED
          BY <4>1 DEF ClosedTold
      <3> QED
        BY <1>1, <1>2, <2>1, <3>1, <3>2 DEF ClosedTold
    <2> QED
      BY <2>2, <2>3
  <1> QED
    BY <1>4, <1>5, <1>6, <1>7, <1>8 DEF Told

----------------------------------------------------------------------------
(* A toplevel that has just opened. *)
LEMMA ToldNew ==
    ASSUME TypeOK, HandlesExist, NEW h, h \notin DOMAIN top, h \in Nat,
           NEW ext \in Seq(Event), wire' = wire \o ext, UNCHANGED tasks,
           top'[h].open,
           \A m \in DOMAIN ext : ext[m].kind = "toplevel" /\ ext[m].handle = h => m = 1,
           \E m \in DOMAIN ext : m = 1 /\ ext[m].kind = "toplevel" /\ ext[m].handle = h,
           \E m \in DOMAIN ext : ext[m].kind = "app_id" /\ ext[m].handle = h,
           \E m \in DOMAIN ext : ext[m].kind = "state" /\ ext[m].handle = h,
           \A m \in DOMAIN ext : ext[m].kind = "app_id" /\ ext[m].handle = h => ext[m].name = NameOf(h)',
           \A m \in DOMAIN ext : ext[m].kind = "state" /\ ext[m].handle = h =>
              ext[m].activated = top'[h].activated /\ ext[m].minimized = top'[h].minimized,
           ~Says(ext, "closed", h)
    PROVE  Told(h)'
  <1>1. /\ DOMAIN wire \subseteq DOMAIN wire' /\ DOMAIN wire' \subseteq Nat \ {0}
        /\ \A n \in DOMAIN wire : wire'[n] = wire[n]
        /\ \A n \in DOMAIN wire' \ DOMAIN wire :
              /\ \A k \in DOMAIN wire : k < n
              /\ \E m \in DOMAIN ext : wire'[n] = ext[m] /\ n = Len(wire) + m
        /\ \A kind : \A j \in Nat : Behind(kind, j, h) => Behind(kind, j, h)'
        /\ \A kind : \A j \in DOMAIN wire \cup {0} : Says(ext, kind, h) => Behind(kind, j, h)'
        /\ \A kind : ~Says(ext, kind, h) =>
              /\ \A j \in Nat : Behind(kind, j, h)' => Behind(kind, j, h)
              /\ \A n \in DOMAIN wire' : EventAt(kind, n, h)' => n \in DOMAIN wire /\ EventAt(kind, n, h)
        /\ \A m \in DOMAIN ext : \E n \in DOMAIN wire' \ DOMAIN wire : /\ wire'[n] = ext[m]
                                                                       /\ n = Len(wire) + m
    BY Grown
  <1>2. ASSUME NEW kind \in {"toplevel", "app_id", "state", "closed"}, NEW n \in DOMAIN wire',
               EventAt(kind, n, h)'
        PROVE  \E m \in DOMAIN ext : /\ wire'[n] = ext[m] /\ n = Len(wire) + m
                                     /\ ext[m].kind = kind /\ ext[m].handle = h
    <2>1. CASE n \in DOMAIN wire
      <3>1. wire[n].kind # "finished" /\ wire[n].handle = h
        BY <1>1, <1>2, <2>1 DEF EventAt
      <3> QED
        BY <2>1, <3>1 DEF HandlesExist
    <2>2. CASE n \notin DOMAIN wire
      <3>1. PICK m \in DOMAIN ext : wire'[n] = ext[m] /\ n = Len(wire) + m
        BY <1>1, <2>2
      <3> QED
        BY <1>2, <3>1 DEF EventAt
    <2> QED
      BY <2>1, <2>2
  <1>3. \A k \in DOMAIN tasks' : tasks'[k].handle # h
    BY DEF HandlesExist
  <1>4. PICK L \in Nat : L = Len(wire)
    <2>1. wire \in Seq(Event)
      BY DEF TypeOK
    <2> QED
      BY <2>1
  <1>5. PICK M \in Nat : M = Len(ext) /\ DOMAIN ext = 1 .. M
    OBVIOUS
  <1>6. ASSUME NEW kind \in {"state", "app_id"} PROVE Behind(kind, L + 1, h)' /\ Behind(kind, 0, h)'
    <2>1. PICK m \in DOMAIN ext : ext[m].kind = kind /\ ext[m].handle = h
      BY <1>6
    <2>2. m # 1
      BY <1>6, <2>1
    <2>3. PICK n \in DOMAIN wire' : wire'[n] = ext[m] /\ n = L + m
      BY <1>1, <1>4
    <2>4. L + 1 < n /\ 0 < n
      <3>1. m \in Nat /\ m > 1
        BY <1>5, <2>2
      <3> QED
        BY <2>3, <3>1
    <2> QED
      BY <2>1, <2>3, <2>4 DEF Behind, EventAt
  <1>7. Announced(h)'
    <2>1. ASSUME NEW n \in DOMAIN wire', EventAt("toplevel", n, h)' PROVE n = L + 1
      BY <1>2, <1>4, <2>1
    <2> QED
      BY <1>6, <2>1 DEF Announced
  <1>8. NameTold(h)'
    BY <1>2, <1>6 DEF NameTold
  <1>9. FlagsTold(h)'
    BY <1>2, <1>6 DEF FlagsTold, Shows
  <1>10. OpenTold(h)'
    <2>1. ~Behind("closed", 0, h)'
      BY <1>2 DEF Behind, Says
    <2>2. Behind("toplevel", 0, h)'
      <3>1. Says(ext, "toplevel", h)
        BY DEF Says
      <3> QED
        BY <1>1, <3>1
    <2> QED
      BY <1>3, <2>1, <2>2 DEF OpenTold
  <1> QED
    BY <1>7, <1>8, <1>9, <1>10 DEF Told

----------------------------------------------------------------------------
(* The report of a change *)

Changed(t, u) == {h \in DOMAIN u : u[h].open /\ (h \notin DOMAIN t \/ t[h] # u[h])}

(* The reports have room for one that is active and one that is not. *)
TwoChange(t, u) == \A g, h \in Changed(t, u) : u[g].activated = u[h].activated => g = h

LEMMA TheOne ==
    ASSUME NEW S, \A g, h \in S : g = h
    PROVE  \E L \in Nat : /\ OneOf(S) \in Seq(S) /\ DOMAIN OneOf(S) = 1 .. L
                          /\ Len(OneOf(S)) = L
                          /\ \A n \in 1 .. L : OneOf(S)[n] \in S
                          /\ \A h \in S : \E n \in 1 .. L : OneOf(S)[n] = h
  <1>1. CASE S = {}
    <2>1. OneOf(S) = <<>>
      BY <1>1 DEF OneOf
    <2>2. 0 \in Nat /\ <<>> \in Seq(S) /\ DOMAIN <<>> = 1 .. 0 /\ Len(<<>>) = 0 /\ 1 .. 0 = {}
      OBVIOUS
    <2> QED
      BY <1>1, <2>1, <2>2
  <1>2. CASE S # {}
    <2>1. PICK x : x = CHOOSE h \in S : TRUE
      OBVIOUS
    <2>2. x \in S
      BY <1>2, <2>1
    <2>3. OneOf(S) = <<x>>
      BY <1>2, <2>1 DEF OneOf
    <2>4. 1 \in Nat /\ DOMAIN <<x>> = 1 .. 1 /\ <<x>>[1] = x /\ 1 .. 1 = {1} /\ Len(<<x>>) = 1
          /\ <<x>> \in Seq(S)
      BY <2>2
    <2>5. \A h \in S : h = x
      BY <2>2
    <2> QED
      BY <2>2, <2>3, <2>4, <2>5
  <1> QED
    BY <1>1, <1>2

LEMMA AllAltered ==
    ASSUME NEW t, NEW u \in Seq(Window), TwoChange(t, u)
    PROVE  /\ Altered(t, u) \in Seq(Changed(t, u))
           /\ \A h \in Changed(t, u) : \E n \in DOMAIN Altered(t, u) : Altered(t, u)[n] = h
  <1>1. PICK D : D = Changed(t, u)
    OBVIOUS
  <1>2. PICK a : a = {h \in D : ~u[h].activated}
    OBVIOUS
  <1>3. PICK b : b = {h \in D : u[h].activated}
    OBVIOUS
  <1>4. PICK p : p = OneOf(a)
    OBVIOUS
  <1>5. PICK q : q = OneOf(b)
    OBVIOUS
  <1>6. PICK r : r = Altered(t, u)
    OBVIOUS
  <1>7. r = p \o q
    BY <1>1, <1>2, <1>3, <1>4, <1>5, <1>6 DEF Altered, Changed
  <1>8. \A h \in D : u[h].activated \in BOOLEAN
    <2>1. \A h \in DOMAIN u : u[h] \in Window
      OBVIOUS
    <2> QED
      BY <1>1, <2>1 DEF Changed, Window
  <1>9. (\A g, h \in a : g = h) /\ (\A g, h \in b : g = h)
    <2>1. \A g, h \in D : u[g].activated = u[h].activated => g = h
      BY <1>1 DEF TwoChange
    <2>2. \A g, h \in a : u[g].activated = u[h].activated
      BY <1>2, <1>8
    <2>3. \A g, h \in b : u[g].activated = u[h].activated
      BY <1>3, <1>8
    <2> QED
      BY <1>2, <1>3, <2>1, <2>2, <2>3
  <1>10. PICK L \in Nat : /\ p \in Seq(a) /\ DOMAIN p = 1 .. L /\ Len(p) = L
                          /\ \A n \in 1 .. L : p[n] \in a
                          /\ \A h \in a : \E n \in 1 .. L : p[n] = h
    BY <1>4, <1>9, TheOne
  <1>11. PICK M \in Nat : /\ q \in Seq(b) /\ DOMAIN q = 1 .. M /\ Len(q) = M
                          /\ \A n \in 1 .. M : q[n] \in b
                          /\ \A h \in b : \E n \in 1 .. M : q[n] = h
    BY <1>5, <1>9, TheOne
  <1>12. /\ DOMAIN r = 1 .. (L + M)
         /\ \A k \in 1 .. L : k \in 1 .. (L + M) /\ r[k] = p[k]
         /\ \A n \in (1 .. (L + M)) \ (1 .. L) :
               /\ \A k \in 1 .. L : k < n
               /\ n - L \in 1 .. M /\ r[n] = q[n - L]
         /\ \A m \in 1 .. M : /\ L + m \in (1 .. (L + M)) \ (1 .. L)
                             /\ r[L + m] = q[m]
                             /\ \A j \in (1 .. L) \cup {0} : j < L + m
         /\ r \in Seq(D)
    <2>1. p \in Seq(D) /\ q \in Seq(D)
      <3>1. a \subseteq D /\ b \subseteq D
        BY <1>2, <1>3
      <3> QED
        BY <1>10, <1>11, <3>1
    <2>2. PICK L2, M2 \in Nat :
              /\ L2 = Len(p) /\ M2 = Len(q)
              /\ DOMAIN p = 1 .. L2 /\ DOMAIN q = 1 .. M2 /\ DOMAIN r = 1 .. (L2 + M2)
              /\ \A k \in 1 .. L2 : k \in 1 .. (L2 + M2) /\ r[k] = p[k]
              /\ \A n \in (1 .. (L2 + M2)) \ (1 .. L2) :
                    /\ \A k \in 1 .. L2 : k < n
                    /\ n - L2 \in 1 .. M2 /\ r[n] = q[n - L2]
              /\ \A m \in 1 .. M2 : /\ L2 + m \in (1 .. (L2 + M2)) \ (1 .. L2)
                                  /\ r[L2 + m] = q[m]
                                  /\ \A j \in (1 .. L2) \cup {0} : j < L2 + m
      <3>1. InRow(p, q, r)
        BY <1>7, <2>1, Joined
      <3> QED
        BY <3>1 DEF InRow
    <2>3. L2 = L /\ M2 = M
      BY <1>10, <1>11, <2>2
    <2>4. r \in Seq(D)
      BY <1>7, <2>1
    <2> QED
      BY <2>2, <2>3, <2>4
  <1>14. a \subseteq D /\ b \subseteq D /\ D = a \cup b
    BY <1>2, <1>3
  <1>15. ASSUME NEW h \in D PROVE \E n \in DOMAIN r : r[n] = h
    <2>1. CASE h \in a
      <3>1. PICK n \in 1 .. L : p[n] = h
        BY <1>10, <2>1
      <3> QED
        BY <1>12, <3>1
    <2>2. CASE h \in b
      <3>1. PICK n \in 1 .. M : q[n] = h
        BY <1>11, <2>2
      <3>2. L + n \in 1 .. (L + M) /\ r[L + n] = h
        BY <1>12, <3>1
      <3> QED
        BY <1>12, <3>2
    <2> QED
      BY <1>14, <2>1, <2>2
  <1> QED
    BY <1>1, <1>6, <1>12, <1>15

LEMMA ReportTells ==
    ASSUME NEW t, NEW u \in Seq(Window), TwoChange(t, u), NEW rep, rep = Report(t, u)
    PROVE  /\ rep \in Seq(Event)
           /\ \A kind, h : Says(rep, kind, h) => kind \in {"state", "done"} /\ h \in Changed(t, u)
           /\ \A h \in Changed(t, u) : Says(rep, "state", h)
           /\ \A m \in DOMAIN rep : rep[m].kind = "state" =>
                 /\ rep[m].activated = u[rep[m].handle].activated
                 /\ rep[m].minimized = u[rep[m].handle].minimized
  <1>1. PICK who : who = Altered(t, u)
    OBVIOUS
  <1>2. PICK D : D = Changed(t, u)
    OBVIOUS
  <1>3. who \in Seq(D) /\ \A h \in D : \E n \in DOMAIN who : who[n] = h
    BY <1>1, <1>2, AllAltered
  <1>4. PICK x : x = [n \in DOMAIN who |-> StateEv(u, who[n])]
    OBVIOUS
  <1>5. PICK y : y = [n \in DOMAIN who |-> Ev("done", who[n])]
    OBVIOUS
  <1>6. rep = x \o y
    BY <1>1, <1>4, <1>5 DEF Report
  <1>7. ASSUME NEW n \in DOMAIN who
        PROVE  /\ who[n] \in D
               /\ x[n] \in Event /\ x[n].kind = "state" /\ x[n].handle = who[n]
               /\ x[n].activated = u[who[n]].activated /\ x[n].minimized = u[who[n]].minimized
               /\ y[n] \in Event /\ y[n].kind = "done" /\ y[n].handle = who[n]
    <2>1. who[n] \in D
      BY <1>3
    <2>2. who[n] \in DOMAIN u
      BY <1>2, <2>1 DEF Changed
    <2>3. PICK h : h = who[n]
      OBVIOUS
    <2>4. h \in Nat /\ u[h] \in Window
      BY <2>2, <2>3
    <2>5. u[h].activated \in BOOLEAN /\ u[h].minimized \in BOOLEAN
      BY <2>4 DEF Window
    <2>6. StateEv(u, h) \in Event /\ StateEv(u, h).kind = "state" /\ StateEv(u, h).handle = h
          /\ StateEv(u, h).activated = u[h].activated /\ StateEv(u, h).minimized = u[h].minimized
      BY <2>4, <2>5 DEF StateEv, Ev, Event, Names
    <2>7. Ev("done", h) \in Event /\ Ev("done", h).kind = "done" /\ Ev("done", h).handle = h
      BY <2>4 DEF Ev, Event, Names
    <2> QED
      BY <1>4, <1>5, <2>1, <2>3, <2>6, <2>7
  <1>8. x \in Seq(Event) /\ y \in Seq(Event) /\ DOMAIN x = DOMAIN who /\ DOMAIN y = DOMAIN who
    <2>1. PICK L \in Nat : DOMAIN who = 1 .. L
      BY <1>3
    <2>2. x \in [1 .. L -> Event] /\ y \in [1 .. L -> Event]
      BY <1>4, <1>5, <1>7, <2>1
    <2> QED
      BY <2>1, <2>2
  <1>9. /\ \A kind, h : Says(x, kind, h) => kind = "state" /\ h \in D
        /\ \A kind, h : Says(y, kind, h) => kind = "done" /\ h \in D
        /\ \A h \in D : Says(x, "state", h)
    BY <1>3, <1>7, <1>8 DEF Says
  <1>10. \A kind, h : Says(rep, kind, h) <=> Says(x, kind, h) \/ Says(y, kind, h)
    BY <1>6, <1>8, SaysBoth
  <1>13. PICK L, M \in Nat :
              /\ L = Len(x) /\ M = Len(y)
              /\ DOMAIN x = 1 .. L /\ DOMAIN y = 1 .. M /\ DOMAIN rep = 1 .. (L + M)
              /\ \A k \in 1 .. L : k \in 1 .. (L + M) /\ rep[k] = x[k]
              /\ \A n \in (1 .. (L + M)) \ (1 .. L) :
                    /\ \A k \in 1 .. L : k < n
                    /\ n - L \in 1 .. M /\ rep[n] = y[n - L]
              /\ \A m \in 1 .. M : /\ L + m \in (1 .. (L + M)) \ (1 .. L)
                                  /\ rep[L + m] = y[m]
                                  /\ \A j \in (1 .. L) \cup {0} : j < L + m
    <2>1. x \in Seq(Event) /\ y \in Seq(Event)
      BY <1>8
    <2>2. InRow(x, y, rep)
      BY <1>6, <2>1, Joined
    <2> QED
      BY <2>2 DEF InRow
  <1>11. ASSUME NEW m \in DOMAIN rep, rep[m].kind = "state"
         PROVE  /\ rep[m].activated = u[rep[m].handle].activated
                /\ rep[m].minimized = u[rep[m].handle].minimized
    <2>3. CASE m \in 1 .. L
      <3>1. rep[m] = x[m] /\ m \in DOMAIN who
        BY <1>8, <1>13, <2>3
      <3> QED
        BY <1>7, <3>1
    <2>4. CASE m \notin 1 .. L
      <3>1. m - L \in DOMAIN who /\ rep[m] = y[m - L]
        BY <1>8, <1>13, <2>4
      <3>2. rep[m].kind = "done"
        BY <1>7, <3>1
      <3> QED
        BY <1>11, <3>2
    <2> QED
      BY <2>3, <2>4
  <1>12. rep \in Seq(Event)
    BY <1>6, <1>8
  <1> QED
    BY <1>2, <1>9, <1>10, <1>11, <1>12

----------------------------------------------------------------------------
(* What a change of the table leaves *)

LEMMA FromEither ==
    ASSUME NEW x \in Seq(Event), NEW y \in Seq(Event), NEW z, z = x \o y, NEW e \in DOMAIN z
    PROVE  (\E n \in DOMAIN x : z[e] = x[n]) \/ (\E n \in DOMAIN y : z[e] = y[n])
  <1>1. InRow(x, y, z)
    BY Joined
  <1>2. PICK L, M \in Nat :
              /\ DOMAIN x = 1 .. L /\ DOMAIN y = 1 .. M /\ DOMAIN z = 1 .. (L + M)
              /\ \A k \in 1 .. L : k \in 1 .. (L + M) /\ z[k] = x[k]
              /\ \A n \in (1 .. (L + M)) \ (1 .. L) :
                    /\ \A k \in 1 .. L : k < n
                    /\ n - L \in 1 .. M /\ z[n] = y[n - L]
              /\ \A m \in 1 .. M : /\ L + m \in (1 .. (L + M)) \ (1 .. L)
                                  /\ z[L + m] = y[m]
                                  /\ \A j \in (1 .. L) \cup {0} : j < L + m
    BY <1>1 DEF InRow
  <1> QED
    BY <1>2

(* The focus goes to f, and h, which had it or gets it, may change more. *)
Refocused(t, u, h, f) ==
    /\ DOMAIN u = DOMAIN t
    /\ \A g \in DOMAIN t : g # h => u[g] = [t[g] EXCEPT !.activated = (g = f)]
    /\ u[h].activated = (h = f)

LEMMA FocusMoved ==
    ASSUME NEW t \in Seq(Window), NEW u, NEW h, NEW f, Refocused(t, u, h, f), OneActive(t),
           h \in DOMAIN t, h = f \/ t[h].activated
    PROVE  TwoChange(t, u) /\ OneActive(u)
  <1>1. \A g \in DOMAIN t : t[g] \in Window
    OBVIOUS
  <1>2. ASSUME NEW g \in DOMAIN t PROVE u[g].activated = (g = f)
    <2>1. g # h => u[g].activated = (g = f)
      BY <1>1 DEF Refocused, Window
    <2> QED
      BY <2>1 DEF Refocused
  <1>3. OneActive(u)
    BY <1>2 DEF OneActive, Refocused
  <1>4. ASSUME NEW g \in Changed(t, u), g # f PROVE t[g].activated \/ (g = h /\ h # f)
    <2>1. g \in DOMAIN t /\ u[g] # t[g]
      BY DEF Changed, Refocused
    <2>2. CASE g # h
      <3>1. u[g] = [t[g] EXCEPT !.activated = FALSE]
        BY <1>4, <2>1, <2>2 DEF Refocused
      <3>2. t[g] \in Window
        BY <1>1, <2>1
      <3>3. ~t[g].activated => [t[g] EXCEPT !.activated = FALSE] = t[g]
        BY <3>2 DEF Window
      <3> QED
        BY <2>1, <3>1, <3>3
    <2> QED
      BY <1>4, <2>2
  <1>5. ASSUME NEW g \in Changed(t, u), NEW k \in Changed(t, u), u[g].activated = u[k].activated
        PROVE  g = k
    <2>1. g \in DOMAIN t /\ k \in DOMAIN t
      BY DEF Changed, Refocused
    <2>2. (g = f) <=> (k = f)
      BY <1>2, <1>5, <2>1
    <2>3. CASE g # f
      <3>1. t[g].activated /\ t[k].activated
        BY <1>4, <2>2, <2>3
      <3> QED
        BY <2>1, <3>1 DEF OneActive
    <2> QED
      BY <2>2, <2>3
  <1> QED
    BY <1>3, <1>5 DEF TwoChange

(* Only h changes, and not its focus. *)
LEMMA FlagMoved ==
    ASSUME NEW t, NEW u, NEW h, OneActive(t), DOMAIN u = DOMAIN t,
           \A g \in DOMAIN t : g # h => u[g] = t[g], u[h].activated = t[h].activated
    PROVE  TwoChange(t, u) /\ OneActive(u)
  <1>1. \A g \in DOMAIN t : u[g].activated = t[g].activated
    OBVIOUS
  <1>2. OneActive(u)
    BY <1>1 DEF OneActive
  <1>3. \A g \in Changed(t, u) : g = h
    BY DEF Changed
  <1> QED
    BY <1>2, <1>3 DEF TwoChange

(* h has lost what made it able to take the focus. *)
LEMMA DefocusMoved ==
    ASSUME NEW t \in Seq(Window), NEW v \in Seq(Window), NEW h \in DOMAIN t, OneActive(t),
           DOMAIN v = DOMAIN t, \A g \in DOMAIN t : g # h => v[g] = t[g],
           v[h].activated = t[h].activated, h \notin Focusable(v), NEW u \in Defocused(v, h)
    PROVE  TwoChange(t, u) /\ OneActive(u)
  <1>0. h \in DOMAIN v /\ v[h] \in Window /\ h \in Nat \ {0}
    OBVIOUS
  <1>1. CASE ~v[h].activated
    <2>1. u = v
      BY <1>1 DEF Defocused
    <2> QED
      BY <2>1, FlagMoved
  <1>2. CASE v[h].activated
    <2>1. PICK f : u = Focus(v, f) /\ h # f
      <3>1. u = Focus(v, 0) \/ \E f \in Focusable(v) : u = Focus(v, f)
        BY <1>2 DEF Defocused
      <3> QED
        BY <1>0, <3>1
    <2>2. u[h].activated = FALSE
      BY <1>0, <2>1 DEF Focus, Window
    <2>3. Refocused(t, u, h, f)
      <3>1. DOMAIN u = DOMAIN t
        BY <2>1 DEF Focus
      <3>2. \A g \in DOMAIN t : g # h => u[g] = [t[g] EXCEPT !.activated = (g = f)]
        BY <2>1 DEF Focus
      <3> QED
        BY <2>1, <2>2, <3>1, <3>2 DEF Refocused
    <2> QED
      BY <1>2, <2>3, FocusMoved
  <1> QED
    BY <1>1, <1>2

(* The flags of toplevels that were there before have changed. *)
LEMMA BecomeTold ==
    ASSUME TypeOK, TableInv, UNCHANGED tasks,
           NEW u \in Seq(Window), SameShells(top, u), TwoChange(top, u), OneActive(u),
           \A g \in DOMAIN top : u[g].open => top[g].open,
           NEW first \in Seq(Event), Become(u, first),
           \A n \in DOMAIN first : first[n].kind = "closed" /\ ~u[first[n].handle].open,
           \A g \in DOMAIN top : top[g].open /\ ~u[g].open => Says(first, "closed", g)
    PROVE  TableInv'
  <1>1. PICK rep : rep = Report(top, u)
    OBVIOUS
  <1>2. /\ rep \in Seq(Event)
        /\ \A kind, h : Says(rep, kind, h) => kind \in {"state", "done"} /\ h \in Changed(top, u)
        /\ \A h \in Changed(top, u) : Says(rep, "state", h)
        /\ \A m \in DOMAIN rep : rep[m].kind = "state" =>
              /\ rep[m].activated = u[rep[m].handle].activated
              /\ rep[m].minimized = u[rep[m].handle].minimized
    BY <1>1, ReportTells
  <1>3. PICK ext : ext = first \o rep
    OBVIOUS
  <1>4. ext \in Seq(Event) /\ wire' = wire \o ext
    <2>1. wire \in Seq(Event)
      BY DEF TypeOK
    <2>2. wire' = (wire \o first) \o rep
      BY <1>1 DEF Become
    <2>3. (wire \o first) \o rep = wire \o (first \o rep) /\ first \o rep \in Seq(Event)
      BY <1>2, <2>1, AppendedTwice
    <2> QED
      BY <1>3, <2>2, <2>3
  <1>5. top' = u /\ DOMAIN u = DOMAIN top /\ \A h \in DOMAIN top : u[h].shell = top[h].shell
    BY DEF Become, SameShells
  <1>6. \A kind, h : Says(ext, kind, h) <=> Says(first, kind, h) \/ Says(rep, kind, h)
    BY <1>2, <1>3, SaysBoth
  <1>7. \A kind, h : Says(first, kind, h) => kind = "closed" /\ ~u[h].open
    BY DEF Says
  <1>8. ASSUME NEW m \in DOMAIN ext, ext[m].kind = "state"
        PROVE  /\ ext[m].activated = u[ext[m].handle].activated
               /\ ext[m].minimized = u[ext[m].handle].minimized
    <2>1. (\E n \in DOMAIN first : ext[m] = first[n]) \/ (\E n \in DOMAIN rep : ext[m] = rep[n])
      BY <1>2, <1>3, FromEither
    <2>2. ~ \E n \in DOMAIN first : ext[m] = first[n]
      BY <1>8
    <2> QED
      BY <1>2, <1>8, <2>1, <2>2
  <1>9. ASSUME NEW h \in DOMAIN top PROVE Told(h)'
    <2>1. Told(h)
      BY DEF TableInv
    <2>2. ~Says(ext, "toplevel", h) /\ ~Says(ext, "app_id", h)
      <3>1. ASSUME NEW kind, kind \notin {"state", "done", "closed"} PROVE ~Says(ext, kind, h)
        <4>1. ~Says(first, kind, h)
          BY <1>7, <3>1
        <4>2. ~Says(rep, kind, h)
          BY <1>2, <3>1
        <4> QED
          BY <1>6, <4>1, <4>2
      <3> QED
        BY <3>1
    <2>3. u[h].open => /\ ~Says(ext, "closed", h)
                       /\ Says(ext, "state", h) \/ Shows(u[h], h)
      <3>1. u[h].open /\ h \notin Changed(top, u) => u[h] = top[h]
        BY <1>5 DEF Changed
      <3>2. u[h] = top[h] => Shows(u[h], h)
        BY DEF Shows
      <3> QED
        BY <1>2, <1>6, <1>7, <3>1, <3>2
    <2>4. ~u[h].open => /\ ~Says(ext, "done", h)
                        /\ top[h].open => Says(ext, "closed", h)
      <3>1. ~u[h].open => h \notin Changed(top, u)
        BY DEF Changed
      <3> QED
        BY <1>2, <1>6, <1>7, <3>1
    <2>5. \A m \in DOMAIN ext : ext[m].kind = "state" /\ ext[m].handle = h =>
              ext[m].activated = top'[h].activated /\ ext[m].minimized = top'[h].minimized
      BY <1>5, <1>8
    <2> QED
      BY <1>4, <1>5, <2>1, <2>2, <2>3, <2>4, <2>5, ToldOn
  <1> QED
    BY <1>5, <1>9 DEF TableInv, OneActive

----------------------------------------------------------------------------
(* The compositor's steps *)

LEMMA ReportTold ==
    ASSUME TypeOK, TableInv, UNCHANGED tasks,
           NEW u \in Seq(Window), SameShells(top, u), TwoChange(top, u), OneActive(u),
           \A g \in DOMAIN top : u[g].open = top[g].open, Become(u, <<>>)
    PROVE  TableInv'
  <1>1. PICK first : first = <<>>
    OBVIOUS
  <1>2. first \in Seq(Event) /\ DOMAIN first = {}
    BY <1>1
  <1>3. Become(u, first)
    BY <1>1
  <1> QED
    BY <1>2, <1>3, BecomeTold

LEMMA FocusOnly ==
    ASSUME NEW t \in Seq(Window), NEW f
    PROVE  /\ DOMAIN Focus(t, f) = DOMAIN t
           /\ \A g \in DOMAIN t : /\ Focus(t, f)[g] = [t[g] EXCEPT !.activated = (g = f)]
                                  /\ Focus(t, f)[g].activated = (g = f)
                                  /\ Focus(t, f)[g].open = t[g].open
                                  /\ Focus(t, f)[g].shell = t[g].shell
  <1>1. \A g \in DOMAIN t : t[g] \in Window
    OBVIOUS
  <1> QED
    BY <1>1 DEF Focus, Window

LEMMA DefocusOpen ==
    ASSUME NEW t \in Seq(Window), NEW h, NEW u \in Defocused(t, h)
    PROVE  \A g \in DOMAIN t : u[g].open = t[g].open
  <1>1. u = t \/ \E f : u = Focus(t, f)
    BY DEF Defocused
  <1>2. ASSUME NEW f, u = Focus(t, f) PROVE \A g \in DOMAIN t : u[g].open = t[g].open
    <2>0. \A g \in DOMAIN t : t[g] \in Window
      OBVIOUS
    <2>1. \A g \in DOMAIN t : Focus(t, f)[g].open = t[g].open
      BY <2>0 DEF Focus, Window
    <2> QED
      BY <1>2, <2>1
  <1> QED
    BY <1>1, <1>2

LEMMA CloseTold ==
    ASSUME TypeOK, TableInv, UNCHANGED tasks, NEW h \in DOMAIN top, CloseToplevel(h)
    PROVE  TableInv'
  <1>1. PICK v : v = [top EXCEPT ![h].open = FALSE]
    OBVIOUS
  <1>2. PICK first : first = <<Ev("closed", h)>>
    OBVIOUS
  <1>3. top \in Seq(Window) /\ v \in Seq(Window) /\ h \in Nat
    <2>1. top \in Seq(Window)
      BY DEF TypeOK
    <2>2. FALSE \in BOOLEAN
      OBVIOUS
    <2>3. v \in Seq(Window)
      BY <1>1, <2>1, <2>2, TypeFlag
    <2> QED
      BY <2>1, <2>3
  <1>4. PICK u \in Defocused(v, h) : Become(u, first)
    BY <1>1, <1>2 DEF CloseToplevel
  <1>5. /\ DOMAIN v = DOMAIN top /\ \A g \in DOMAIN top : g # h => v[g] = top[g]
        /\ v[h].activated = top[h].activated /\ v[h].open = FALSE
    <2>1. top[h] \in Window
      BY <1>3
    <2>2. v[h] = [top[h] EXCEPT !.open = FALSE]
      BY <1>1
    <2>3. v[h].activated = top[h].activated /\ v[h].open = FALSE
      BY <2>1, <2>2 DEF Window
    <2>4. DOMAIN v = DOMAIN top /\ \A g \in DOMAIN top : g # h => v[g] = top[g]
      BY <1>1
    <2> QED
      BY <2>3, <2>4
  <1>6. TwoChange(top, u) /\ OneActive(u)
    <2>1. h \notin Focusable(v)
      BY <1>5 DEF Focusable
    <2> QED
      BY <1>3, <1>4, <1>5, <2>1, DefocusMoved DEF TableInv
  <1>7. u \in Seq(Window) /\ SameShells(top, u)
    <2>1. u \in Seq(Window) /\ SameShells(v, u)
      BY <1>3, <1>4, TypeDefocused, ShellsKept
    <2>2. SameShells(top, v)
      BY <1>1, <1>3, ShellsKept
    <2> QED
      BY <2>1, <2>2 DEF SameShells
  <1>8. \A g \in DOMAIN top : u[g].open = v[g].open
    BY <1>3, <1>4, <1>5, DefocusOpen
  <1>9. /\ first \in Seq(Event)
        /\ \A n \in DOMAIN first : first[n].kind = "closed" /\ first[n].handle = h
        /\ Says(first, "closed", h)
    <2>1. PICK e : e = Ev("closed", h)
      OBVIOUS
    <2>2. e \in Event /\ e.kind = "closed" /\ e.handle = h
      BY <1>3, <2>1 DEF Ev, Event, Names
    <2>3. first = <<e>>
      BY <1>2, <2>1
    <2>4. first \in Seq(Event) /\ DOMAIN first = {1} /\ first[1] = e
      BY <2>2, <2>3
    <2> QED
      BY <2>2, <2>4 DEF Says
  <1>10. /\ \A g \in DOMAIN top : u[g].open => top[g].open
         /\ \A g \in DOMAIN top : top[g].open /\ ~u[g].open => g = h
         /\ ~u[h].open
    BY <1>5, <1>8
  <1>11. /\ \A n \in DOMAIN first : first[n].kind = "closed" /\ ~u[first[n].handle].open
         /\ \A g \in DOMAIN top : top[g].open /\ ~u[g].open => Says(first, "closed", g)
    BY <1>9, <1>10
  <1> QED
    BY <1>4, <1>6, <1>7, <1>9, <1>10, <1>11, BecomeTold

LEMMA RequestTold ==
    ASSUME TypeOK, NameInv, TableInv, HandleRequest
    PROVE  TableInv'
  <1>1. PICK h : h = Head(requests).handle
    OBVIOUS
  <1>2. PICK low, high : /\ low = [top EXCEPT ![h].minimized = TRUE]
                         /\ high = [top EXCEPT ![h].minimized = FALSE]
    OBVIOUS
  <1>3. UNCHANGED tasks
    BY DEF HandleRequest, agentVars
  <1>4. h \in DOMAIN top
    <2>1. requests \in Seq(Request) /\ requests # <<>>
      BY DEF TypeOK, HandleRequest
    <2>2. 1 \in DOMAIN requests /\ Head(requests) = requests[1]
      BY <2>1
    <2> QED
      BY <1>1, <2>2 DEF NameInv, HandlesExist
  <1>5. \/ UNCHANGED <<top, wire>>
        \/ Become(Focus(high, h), <<>>)
        \/ Become(high, <<>>)
        \/ \E u \in Defocused(low, h) : Become(u, <<>>)
        \/ CloseToplevel(h)
    BY <1>1, <1>2 DEF HandleRequest
  <1>6. /\ top \in Seq(Window) /\ OneActive(top)
        /\ low \in Seq(Window) /\ high \in Seq(Window)
        /\ SameShells(top, low) /\ SameShells(top, high)
    <2>1. top \in Seq(Window)
      BY DEF TypeOK
    <2> QED
      BY <1>2, <2>1, TypeFlag, ShellsKept DEF TableInv
  <1>7. /\ DOMAIN low = DOMAIN top /\ DOMAIN high = DOMAIN top
        /\ \A g \in DOMAIN top : g # h => low[g] = top[g] /\ high[g] = top[g]
        /\ low[h].activated = top[h].activated /\ high[h].activated = top[h].activated
        /\ low[h].minimized = TRUE
        /\ \A g \in DOMAIN top : low[g].open = top[g].open /\ high[g].open = top[g].open
    <2>1. top[h] \in Window
      BY <1>4, <1>6
    <2>2. /\ low[h] = [top[h] EXCEPT !.minimized = TRUE]
          /\ high[h] = [top[h] EXCEPT !.minimized = FALSE]
      BY <1>2, <1>4
    <2>3. /\ low[h].activated = top[h].activated /\ high[h].activated = top[h].activated
          /\ low[h].open = top[h].open /\ high[h].open = top[h].open
          /\ low[h].minimized = TRUE
      BY <2>1, <2>2 DEF Window
    <2>4. /\ DOMAIN low = DOMAIN top /\ DOMAIN high = DOMAIN top
          /\ \A g \in DOMAIN top : g # h => low[g] = top[g] /\ high[g] = top[g]
      BY <1>2
    <2> QED
      BY <2>3, <2>4
  <1>8. CASE UNCHANGED <<top, wire>>
    BY <1>3, <1>8, ToldSame DEF tableVars
  <1>9. CASE Become(Focus(high, h), <<>>)
    <2>1. PICK u : u = Focus(high, h)
      OBVIOUS
    <2>2. u \in Seq(Window) /\ SameShells(high, u)
      BY <1>6, <2>1, TypeFocus, ShellsKept
    <2>3. SameShells(top, u)
      BY <1>6, <2>2 DEF SameShells
    <2>4. /\ DOMAIN u = DOMAIN top
          /\ \A g \in DOMAIN top : /\ u[g] = [high[g] EXCEPT !.activated = (g = h)]
                                   /\ u[g].activated = (g = h)
                                   /\ u[g].open = high[g].open
      BY <1>6, <1>7, <2>1, FocusOnly
    <2>5. Refocused(top, u, h, h)
      BY <1>4, <1>7, <2>4 DEF Refocused
    <2>6. TwoChange(top, u) /\ OneActive(u)
      BY <1>4, <1>6, <2>5, FocusMoved
    <2> QED
      BY <1>3, <1>7, <1>9, <2>1, <2>2, <2>3, <2>4, <2>6, ReportTold
  <1>10. CASE Become(high, <<>>)
    <2>1. TwoChange(top, high) /\ OneActive(high)
      BY <1>6, <1>7, FlagMoved
    <2> QED
      BY <1>3, <1>6, <1>7, <1>10, <2>1, ReportTold
  <1>11. ASSUME NEW u \in Defocused(low, h), Become(u, <<>>) PROVE TableInv'
    <2>1. u \in Seq(Window) /\ SameShells(low, u)
      BY <1>6, TypeDefocused, ShellsKept
    <2>2. SameShells(top, u)
      BY <1>6, <2>1 DEF SameShells
    <2>3. h \notin Focusable(low)
      BY <1>7 DEF Focusable
    <2>4. TwoChange(top, u) /\ OneActive(u)
      BY <1>4, <1>6, <1>7, <2>3, DefocusMoved
    <2>5. \A g \in DOMAIN top : u[g].open = top[g].open
      BY <1>6, <1>7, DefocusOpen
    <2> QED
      BY <1>3, <1>11, <2>1, <2>2, <2>4, <2>5, ReportTold
  <1>12. CASE CloseToplevel(h)
    BY <1>3, <1>4, <1>12, CloseTold
  <1> QED
    BY <1>5, <1>8, <1>9, <1>10, <1>11, <1>12

LEMMA FocusTold ==
    ASSUME TypeOK, TableInv, NEW h \in DOMAIN top, FocusWindow(h)
    PROVE  TableInv'
  <1>1. PICK u : u = Focus(top, h)
    OBVIOUS
  <1>2. Become(u, <<>>) /\ UNCHANGED tasks
    BY <1>1 DEF FocusWindow, UserOp, agentVars
  <1>3. top \in Seq(Window)
    BY DEF TypeOK
  <1>4. u \in Seq(Window) /\ SameShells(top, u)
    BY <1>1, <1>3, TypeFocus, ShellsKept
  <1>5. /\ DOMAIN u = DOMAIN top
        /\ \A g \in DOMAIN top : /\ u[g] = [top[g] EXCEPT !.activated = (g = h)]
                                 /\ u[g].activated = (g = h)
                                 /\ u[g].open = top[g].open
    BY <1>1, <1>3, FocusOnly
  <1>6. TwoChange(top, u) /\ OneActive(u)
    <2>1. Refocused(top, u, h, h)
      BY <1>5 DEF Refocused
    <2> QED
      BY <1>3, <2>1, FocusMoved DEF TableInv
  <1> QED
    BY <1>2, <1>4, <1>5, <1>6, ReportTold

LEMMA StopTold ==
    ASSUME TypeOK, TableInv, ManagerStops
    PROVE  TableInv'
  <1>1. PICK ext : ext = <<Ev("finished", 0)>>
    OBVIOUS
  <1>2. wire' = wire \o ext /\ UNCHANGED <<tasks, top>>
    BY <1>1 DEF ManagerStops, agentVars, TypeOK
  <1>3. Ev("finished", 0) \in Event /\ Ev("finished", 0).kind = "finished"
    BY DEF Ev, Event, Names
  <1>4. ext \in Seq(Event) /\ \A n \in DOMAIN ext : ext[n].kind = "finished"
    BY <1>1, <1>3
  <1>5. \A kind, h : Says(ext, kind, h) => kind = "finished"
    BY <1>4 DEF Says
  <1>6. ASSUME NEW h \in DOMAIN top PROVE Told(h)'
    <2>1. Told(h)
      BY DEF TableInv
    <2>2. /\ ~Says(ext, "toplevel", h) /\ ~Says(ext, "app_id", h) /\ ~Says(ext, "closed", h)
          /\ ~Says(ext, "done", h)
      BY <1>5
    <2>3. Shows(top'[h], h)
      BY <1>2 DEF Shows
    <2> QED
      BY <1>2, <1>4, <2>1, <2>2, <2>3, ToldOn
  <1> QED
    BY <1>2, <1>6 DEF TableInv, OneActive

----------------------------------------------------------------------------

LEMMA OpenWindowTold ==
    ASSUME TypeOK, NameInv, TableInv, NEW shell \in BOOLEAN, OpenWindow(shell)
    PROVE  TableInv'
  <1>1. PICK new : new = [shell |-> shell, activated |-> TRUE, minimized |-> FALSE, open |-> TRUE]
    OBVIOUS
  <1>2. /\ top \in Seq(Window) /\ wire \in Seq(Event) /\ OneActive(top)
        /\ new \in Window /\ new.shell = shell /\ new.activated /\ new.open
    BY <1>1 DEF TypeOK, Window, TableInv
  <1>3. PICK g : g = Len(top) + 1
    OBVIOUS
  <1>4. PICK u : u = Append(Focus(top, 0), new)
    OBVIOUS
  <1>5. PICK a, b, c : /\ a = Ev("toplevel", g) /\ b = NameEv("title", g, shell)
                       /\ c = NameEv("app_id", g, shell)
    OBVIOUS
  <1>6. PICK first : first = <<a, b, c>>
    OBVIOUS
  <1>7. Become(u, first) /\ UNCHANGED tasks
    BY <1>1, <1>3, <1>4, <1>5, <1>6 DEF OpenWindow, UserOp, agentVars
  <1>8. /\ u \in Seq(Window) /\ DOMAIN u = DOMAIN top \cup {g} /\ g \notin DOMAIN top /\ g \in Nat
        /\ u[g] = new
        /\ \A h \in DOMAIN top : u[h] = Focus(top, 0)[h] /\ h # 0
    <2>1. Focus(top, 0) \in Seq(Window) /\ Len(Focus(top, 0)) = Len(top)
      BY <1>2, TypeFocus
    <2>2. /\ u \in Seq(Window) /\ DOMAIN u = 1 .. g /\ u[g] = new
          /\ \A h \in 1 .. Len(top) : u[h] = Focus(top, 0)[h]
      BY <1>2, <1>3, <1>4, <2>1
    <2>3. DOMAIN top = 1 .. Len(top) /\ Len(top) \in Nat
      BY <1>2
    <2> QED
      BY <1>3, <2>2, <2>3
  <1>9. ASSUME NEW h \in DOMAIN top
        PROVE  /\ u[h] = [top[h] EXCEPT !.activated = FALSE] /\ u[h].activated = FALSE
               /\ u[h].open = top[h].open /\ u[h].shell = top[h].shell
               /\ u[h].minimized = top[h].minimized
               /\ ~top[h].activated => u[h] = top[h]
    <2>1. top[h] \in Window
      BY <1>2
    <2>2. u[h] = [top[h] EXCEPT !.activated = FALSE]
      BY <1>8 DEF Focus
    <2> QED
      BY <2>1, <2>2 DEF Window
  <1>10. TwoChange(top, u) /\ OneActive(u)
    <2>1. \A h \in DOMAIN u : u[h].activated => h = g
      BY <1>2, <1>8, <1>9
    <2>2. ASSUME NEW h \in Changed(top, u), h # g PROVE h \in DOMAIN top /\ top[h].activated
      <3>1. h \in DOMAIN top /\ u[h] # top[h]
        BY <1>8, <2>2 DEF Changed
      <3> QED
        BY <1>9, <3>1
    <2>3. ASSUME NEW h \in Changed(top, u), NEW k \in Changed(top, u), u[h].activated = u[k].activated
          PROVE  h = k
      <3>1. h = g <=> k = g
        BY <1>2, <1>8, <1>9, <2>2, <2>3
      <3>2. CASE h # g
        <4>1. h \in DOMAIN top /\ k \in DOMAIN top /\ top[h].activated /\ top[k].activated
          BY <2>2, <3>1, <3>2
        <4> QED
          BY <1>2, <4>1 DEF OneActive
      <3> QED
        BY <3>1, <3>2
    <2> QED
      BY <2>1, <2>3 DEF TwoChange, OneActive
  <1>11. PICK rep : rep = Report(top, u)
    OBVIOUS
  <1>12. /\ rep \in Seq(Event)
         /\ \A kind, h : Says(rep, kind, h) => kind \in {"state", "done"} /\ h \in Changed(top, u)
         /\ \A h \in Changed(top, u) : Says(rep, "state", h)
         /\ \A m \in DOMAIN rep : rep[m].kind = "state" =>
               /\ rep[m].activated = u[rep[m].handle].activated
               /\ rep[m].minimized = u[rep[m].handle].minimized
    BY <1>8, <1>10, <1>11, ReportTells
  <1>13. /\ a \in Event /\ a.kind = "toplevel" /\ a.handle = g
         /\ b \in Event /\ b.kind = "title" /\ b.handle = g
         /\ c \in Event /\ c.kind = "app_id" /\ c.handle = g
         /\ c.name = IF shell THEN "shell" ELSE "other"
    BY <1>5, <1>8 DEF Ev, NameEv, Event, Names
  <1>14. /\ first \in Seq(Event) /\ DOMAIN first = 1 .. 3
         /\ first[1] = a /\ first[2] = b /\ first[3] = c
    BY <1>6, <1>13
  <1>15. PICK ext : ext = first \o rep
    OBVIOUS
  <1>16. ext \in Seq(Event) /\ wire' = wire \o ext
    <2>1. wire' = (wire \o first) \o rep
      BY <1>7, <1>11 DEF Become
    <2>2. (wire \o first) \o rep = wire \o (first \o rep) /\ first \o rep \in Seq(Event)
      BY <1>2, <1>12, <1>14, AppendedTwice
    <2> QED
      BY <1>15, <2>1, <2>2
  <1>17. PICK M \in Nat : /\ DOMAIN rep = 1 .. M
                          /\ DOMAIN ext = 1 .. (3 + M)
                          /\ \A k \in 1 .. 3 : ext[k] = first[k]
                          /\ \A n \in (1 .. (3 + M)) \ (1 .. 3) : n - 3 \in 1 .. M /\ ext[n] = rep[n - 3]
    <2>1. InRow(first, rep, ext)
      BY <1>12, <1>14, <1>15, Joined
    <2>2. PICK L, M \in Nat :
              /\ DOMAIN first = 1 .. L /\ DOMAIN rep = 1 .. M /\ DOMAIN ext = 1 .. (L + M)
              /\ \A k \in 1 .. L : k \in 1 .. (L + M) /\ ext[k] = first[k]
              /\ \A n \in (1 .. (L + M)) \ (1 .. L) :
                    /\ \A k \in 1 .. L : k < n
                    /\ n - L \in 1 .. M /\ ext[n] = rep[n - L]
              /\ \A m \in 1 .. M : /\ L + m \in (1 .. (L + M)) \ (1 .. L)
                                  /\ ext[L + m] = rep[m]
                                  /\ \A j \in (1 .. L) \cup {0} : j < L + m
      BY <2>1 DEF InRow
    <2>3. L = 3
      <3>1. 1 .. L = 1 .. 3
        BY <1>14, <2>2
      <3>2. L >= 3
        <4>1. 3 \in 1 .. 3
          OBVIOUS
        <4>2. 3 \in 1 .. L
          BY <3>1, <4>1
        <4> QED
          BY <4>2
      <3>3. L \in 1 .. L
        BY <3>2
      <3>4. L \in 1 .. 3
        BY <3>1, <3>3
      <3> QED
        BY <3>2, <3>4
    <2> QED
      BY <2>2, <2>3
  <1>18. ASSUME NEW m \in DOMAIN ext
         PROVE  \/ m = 1 /\ ext[m] = a
                \/ m = 2 /\ ext[m] = b
                \/ m = 3 /\ ext[m] = c
                \/ \E n \in DOMAIN rep : ext[m] = rep[n]
    <2>1. CASE m \in 1 .. 3
      <3>1. m = 1 \/ m = 2 \/ m = 3
        BY <2>1
      <3> QED
        BY <1>14, <1>17, <2>1, <3>1
    <2>2. CASE m \notin 1 .. 3
      BY <1>17, <2>2
    <2> QED
      BY <2>1, <2>2
  <1>19. /\ 1 \in DOMAIN ext /\ ext[1] = a /\ 3 \in DOMAIN ext /\ ext[3] = c
    <2>1. 1 \in 1 .. 3 /\ 3 \in 1 .. 3 /\ 1 \in 1 .. (3 + M) /\ 3 \in 1 .. (3 + M)
      OBVIOUS
    <2> QED
      BY <1>14, <1>17, <2>1
  <1>20. top' = u
    BY <1>7 DEF Become
  <1>21. \A m \in DOMAIN rep : /\ rep[m].kind \in {"state", "done"}
                               /\ rep[m].handle \in Changed(top, u)
    BY <1>12 DEF Says
  <1>22. ASSUME NEW m \in DOMAIN ext, ext[m].kind = "state"
         PROVE  /\ ext[m].activated = u[ext[m].handle].activated
                /\ ext[m].minimized = u[ext[m].handle].minimized
    BY <1>12, <1>13, <1>18, <1>22
  <1>23. ASSUME NEW h \in DOMAIN top PROVE Told(h)'
    <2>1. Told(h) /\ h # g
      BY <1>8 DEF TableInv
    <2>2. ASSUME NEW m \in DOMAIN ext, ext[m].handle = h
          PROVE  ext[m].kind \in {"state", "done"} /\ h \in Changed(top, u)
      BY <1>13, <1>18, <1>21, <2>1, <2>2
    <2>3. \A kind : Says(ext, kind, h) => kind \in {"state", "done"} /\ h \in Changed(top, u)
      BY <2>2 DEF Says
    <2>4. ~Says(ext, "toplevel", h) /\ ~Says(ext, "app_id", h) /\ ~Says(ext, "closed", h)
      <3>1. ASSUME NEW kind, kind \notin {"state", "done"} PROVE ~Says(ext, kind, h)
        BY <2>3, <3>1
      <3> QED
        BY <3>1
    <2>5. u[h].open => Says(ext, "state", h) \/ Shows(u[h], h)
      <3>1. CASE u[h].open /\ h \in Changed(top, u)
        <4>1. Says(ext, "state", h) <=> Says(first, "state", h) \/ Says(rep, "state", h)
          BY <1>12, <1>14, <1>15, SaysBoth
        <4> QED
          BY <1>12, <3>1, <4>1
      <3>2. CASE u[h].open /\ h \notin Changed(top, u)
        <4>1. u[h] = top[h]
          BY <1>8, <3>2 DEF Changed
        <4> QED
          BY <4>1 DEF Shows
      <3> QED
        BY <3>1, <3>2
    <2>6. ~u[h].open => ~Says(ext, "done", h)
      BY <2>3 DEF Changed
    <2>7. \A m \in DOMAIN ext : ext[m].kind = "state" /\ ext[m].handle = h =>
              ext[m].activated = top'[h].activated /\ ext[m].minimized = top'[h].minimized
      BY <1>20, <1>22
    <2> QED
      BY <1>7, <1>9, <1>16, <1>20, <2>1, <2>4, <2>5, <2>6, <2>7, ToldOn
  <1>24. Told(g)'
    <2>1. \A m \in DOMAIN ext : ext[m].kind = "toplevel" /\ ext[m].handle = g => m = 1
      BY <1>13, <1>18, <1>21
    <2>2. \E m \in DOMAIN ext : m = 1 /\ ext[m].kind = "toplevel" /\ ext[m].handle = g
      BY <1>13, <1>19
    <2>3. \E m \in DOMAIN ext : ext[m].kind = "app_id" /\ ext[m].handle = g
      BY <1>13, <1>19
    <2>4. \E m \in DOMAIN ext : ext[m].kind = "state" /\ ext[m].handle = g
      <3>1. g \in Changed(top, u)
        BY <1>2, <1>8 DEF Changed
      <3>2. Says(rep, "state", g)
        BY <1>12, <3>1
      <3>3. Says(ext, "state", g) <=> Says(first, "state", g) \/ Says(rep, "state", g)
        BY <1>12, <1>14, <1>15, SaysBoth
      <3> QED
        BY <3>2, <3>3 DEF Says
    <2>5. NameOf(g)' = IF shell THEN "shell" ELSE "other"
      BY <1>2, <1>8, <1>20 DEF NameOf
    <2>6. \A m \in DOMAIN ext : ext[m].kind = "app_id" /\ ext[m].handle = g =>
              ext[m].name = NameOf(g)'
      BY <1>13, <1>18, <1>21, <2>5
    <2>7. \A m \in DOMAIN ext : ext[m].kind = "state" /\ ext[m].handle = g =>
              ext[m].activated = top'[g].activated /\ ext[m].minimized = top'[g].minimized
      BY <1>20, <1>22
    <2>8. ~Says(ext, "closed", g)
      BY <1>13, <1>18, <1>21 DEF Says
    <2>9. top'[g].open
      BY <1>2, <1>8, <1>20
    <2> QED
      BY <1>7, <1>8, <1>16, <2>1, <2>2, <2>3, <2>4, <2>6, <2>7, <2>8, <2>9, ToldNew DEF NameInv
  <1> QED
    BY <1>8, <1>10, <1>20, <1>23, <1>24 DEF TableInv, OneActive

LEMMA CompositorTold ==
    ASSUME TypeOK, NameInv, TableInv, CompositorStep
    PROVE  TableInv'
  <1>1. ASSUME NEW h \in DOMAIN top, CloseWindow(h) PROVE TableInv'
    <2>1. CloseToplevel(h) /\ UNCHANGED tasks
      BY <1>1 DEF CloseWindow, UserOp, agentVars
    <2> QED
      BY <2>1, CloseTold
  <1>2. CASE CompositorExits
    BY <1>2, ToldSame DEF CompositorExits, agentVars, tableVars
  <1> QED
    BY <1>1, <1>2, FocusTold, RequestTold, StopTold, OpenWindowTold DEF CompositorStep

LEMMA CommandKeepsTable == ASSUME handle_command PROVE UNCHANGED tableVars
  <1>1. CASE \/ Hello \/ List \/ Subscribe \/ TaskCommandRefused \/ ActiveIsShell
             \/ UnknownCommand \/ BlankLine \/ OverlongLine
    BY <1>1 DEF Hello, List, Subscribe, TaskCommandRefused, ActiveIsShell, UnknownCommand,
                BlankLine, OverlongLine, ReplyOnly, AgentUnchanged, WorldUnchanged,
                compVars, tableVars
  <1>2. ASSUME NEW m, ReplyOnly(m) PROVE UNCHANGED tableVars
    BY <1>2 DEF ReplyOnly, AgentUnchanged, WorldUnchanged, tableVars
  <1>3. ASSUME NEW kinds, NEW k, Perform(kinds, k) PROVE UNCHANGED tableVars
    BY <1>3 DEF Perform, AgentUnchanged, WorldUnchanged, tableVars
  <1> QED
    BY <1>1, <1>2, <1>3 DEF handle_command, TaskCommand, FocusShell, ActiveCommand

LEMMA TableInit == Init => TableInv
  BY DEF Init, TableInv, OneActive

LEMMA TableStep == TypeOK /\ NameInv /\ TableInv /\ [Next]_vars => TableInv'
  <1> SUFFICES ASSUME TypeOK, NameInv, TableInv, [Next]_vars PROVE TableInv'
    OBVIOUS
  <1>1. CASE AgentStep
    <2>1. CASE LoopExit \/ DispatchFails
      BY <2>1, ToldSame DEF LoopExit, DispatchFails, Exit, compVars, tableVars
    <2>2. CASE prune_closed
      BY <2>2, PruneTold
    <2>3. CASE PreparePoll \/ PollReady \/ PollTimeout
      BY <2>3, ToldSame DEF PreparePoll, PollReady, PollTimeout, compVars, tableVars
    <2>4. CASE \/ manager_toplevel \/ manager_finished \/ handle_title \/ handle_app_id
               \/ handle_state \/ handle_done \/ handle_closed
      <3>1. UNCHANGED top
        BY <2>4 DEF manager_toplevel, manager_finished, handle_title, handle_app_id,
                    handle_state, handle_done, handle_closed, Dispatch
      <3>2. \A h \in DOMAIN top : Told(h)'
        BY <2>4, DisplayTold DEF TableInv
      <3> QED
        BY <3>1, <3>2 DEF TableInv, OneActive
    <2>5. CASE DispatchDone \/ accept_client \/ AcceptDone
      BY <2>5, ToldSame DEF DispatchDone, accept_client, AcceptDone, compVars, tableVars
    <2>6. CASE \/ ClientsDone \/ ServeHangup \/ ServeClient \/ ReadAgain \/ ReadEof
               \/ FlushWrite \/ FlushDone \/ FlushBroken
      BY <2>6, ToldSame DEF ClientsDone, ServeHangup, ServeClient, ReadAgain, ReadEof,
           FlushWrite, FlushDone, FlushBroken, ServeNext, Drop, compVars, tableVars
    <2>7. CASE handle_command
      BY <2>7, CommandKeepsTable, ToldSame DEF tableVars
    <2> QED
      BY <1>1, <2>1, <2>2, <2>3, <2>4, <2>5, <2>6, <2>7 DEF AgentStep
  <1>2. CASE Signal \/ PollFails
    BY <1>2, ToldSame DEF Signal, PollFails, compVars, tableVars
  <1>3. CASE CompositorStep
    BY <1>3, CompositorTold
  <1>4. CASE PeerStep
    BY <1>4, ToldSame DEF PeerStep, Connect, Receive, HangUp, SendCommand, agentVars, compVars,
         tableVars
  <1>5. CASE UNCHANGED vars
    BY <1>5, ToldSame DEF vars, agentVars, compVars, tableVars
  <1> QED
    BY <1>1, <1>2, <1>3, <1>4, <1>5 DEF Next

(* With nothing under way all that was to be told has been. *)
LEMMA QuietTable == TypeOK /\ NameInv /\ TableInv => QuietTableIsTrue
  <1> SUFFICES ASSUME TypeOK, HandlesExist, TableInv, wire = <<>>
               PROVE  Seen(SnapshotLines) = TrueLines
    BY DEF QuietTableIsTrue, NameInv
  <1>1. \A kind, j, h : ~Behind(kind, j, h)
    BY DEF Behind
  <1>2. \A k \in DOMAIN tasks : tasks[k].handle \in DOMAIN top /\ tasks[k].closed \in BOOLEAN
    <2>1. tasks \in Seq(Task)
      BY DEF TypeOK
    <2>2. \A k \in DOMAIN tasks : tasks[k] \in Task
      BY <2>1
    <2> QED
      BY <2>2 DEF HandlesExist, Task
  <1>3. ASSUME NEW h \in DOMAIN top
        PROVE  /\ \A k \in DOMAIN tasks : tasks[k].handle = h => tasks[k].app_id = NameOf(h)
               /\ top[h].open =>
                    /\ \A k \in DOMAIN tasks : tasks[k].handle = h =>
                          Shows(tasks[k], h) /\ ~tasks[k].closed
                    /\ \E k \in DOMAIN tasks : tasks[k].handle = h
               /\ ~top[h].open => \A k \in DOMAIN tasks : tasks[k].handle = h => tasks[k].closed
    BY <1>1 DEF TableInv, Told, NameTold, FlagsTold, OpenTold, ClosedTold
  <1>4. PICK Of : Of = [h \in DOMAIN top |->
                          [handle |-> h, name |-> NameOf(h),
                           activated |-> top[h].activated, minimized |-> top[h].minimized]]
    OBVIOUS
  <1>5. TrueLines = {Of[h] : h \in {g \in DOMAIN top : top[g].open}}
    BY <1>4 DEF TrueLines, NameOf
  <1>6. ASSUME NEW k \in DOMAIN tasks, ~tasks[k].closed
        PROVE  /\ top[tasks[k].handle].open
               /\ [handle |-> LineOf(tasks[k]).handle, name |-> LineOf(tasks[k]).app_id,
                   activated |-> LineOf(tasks[k]).activated,
                   minimized |-> LineOf(tasks[k]).minimized] = Of[tasks[k].handle]
    <2>1. PICK h \in DOMAIN top : h = tasks[k].handle
      BY <1>2
    <2>2. top[h].open /\ Shows(tasks[k], h) /\ tasks[k].app_id = NameOf(h)
      BY <1>3, <1>6, <2>1
    <2> QED
      BY <1>4, <2>1, <2>2 DEF LineOf, Shows
  <1>7. Seen(SnapshotLines) =
          {[handle |-> LineOf(tasks[k]).handle, name |-> LineOf(tasks[k]).app_id,
            activated |-> LineOf(tasks[k]).activated, minimized |-> LineOf(tasks[k]).minimized] :
              k \in {j \in DOMAIN tasks : ~tasks[j].closed}}
    BY DEF Seen, SnapshotLines
  <1>8. ASSUME NEW x \in Seen(SnapshotLines) PROVE x \in TrueLines
    BY <1>2, <1>5, <1>6, <1>7
  <1>9. ASSUME NEW x \in TrueLines PROVE x \in Seen(SnapshotLines)
    <2>1. PICK h \in DOMAIN top : top[h].open /\ x = Of[h]
      BY <1>5
    <2>2. PICK k \in DOMAIN tasks : tasks[k].handle = h /\ ~tasks[k].closed
      BY <1>3, <2>1
    <2> QED
      BY <1>6, <1>7, <2>1, <2>2
  <1> QED
    BY <1>8, <1>9

(* With no event under way the table shows every open toplevel, and no      *)
(* other, under its name and with its flags, for any number of toplevels    *)
(* and however the events were cut into batches: handle_done never takes    *)
(* back the "closed" of a toplevel that is gone, and prune_closed drops no  *)
(* task that is still to be told open (manager_toplevel, handle_app_id,     *)
(* handle_state, handle_done, handle_closed and prune_closed).              *)
THEOREM QuietTableAlwaysTrue == Spec => []QuietTableIsTrue
  BY TypeInit, TypeStep, NameInit, NameStep, TableInit, TableStep, QuietTable, PTL DEF Spec
=============================================================================
