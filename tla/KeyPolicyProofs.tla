--------------------------- MODULE KeyPolicyProofs ---------------------------
(***************************************************************************)
(* Proofs about KeyPolicy and ShellControl, for every number of presses,   *)
(* runs, crashes and other callers, every size of the device's queue and   *)
(* every set of faults.                                                    *)
(*                                                                         *)
(* What is shown of a press depends on two things that the properties do   *)
(* not mention: which lines of a script that nobody waits for may still be *)
(* with the agent (ControlInv), and what the device still holds of the     *)
(* press that is being measured (PressInv).                                *)
(***************************************************************************)
EXTENDS KeyPolicy, SequenceTheorems, TLAPS

----------------------------------------------------------------------------
(* The scripts *)

(* The run shows the Shell: that is the last thing the agent did for it. *)
Shown(r) == did[r] # <<>> /\ did[r][Len(did[r])] \in {"active-is-shell", "focus-shell"}

(* Nothing has been done to a window for the run. *)
Untouched(r) == \A n \in 1 .. Len(did[r]) : did[r][n] \notin Actions

RunInv(r) ==
    /\ spc[r] = "off" <=> r > started
    /\ spc[r] = "off" => did[r] = <<>> /\ call[r] = "idle"
    /\ spc[r] \in {"shell_is_active", "command"} => arg[r] \in Actions
    /\ spc[r] = "shell_is_active" \/ (spc[r] = "command" /\ call[r] = "idle") => Untouched(r)
    /\ spc[r] \in {"shell_is_active", "focus_shell"} /\ call[r] = "ok" => Shown(r)
    /\ spc[r] \in {"write", "move", "ok"} /\ arg[r] # "hide-tasks" => Shown(r)
    /\ \A n \in 1 .. Len(did[r]) : did[r][n] \in Actions => did[r][n] = arg[r]
    /\ \A m, n \in 1 .. Len(did[r]) : did[r][m] \in Actions /\ did[r][n] \in Actions => m = n

(* A line that a run has sent: the run waits for it, has given up waiting   *)
(* in that very step, or is over without success.                           *)
LineInv(l) ==
    l.from \in Runs =>
        /\ \/ /\ spc[l.from] \in Asking
              /\ l.verb = Verb(l.from)
              /\ \/ call[l.from] = "sent"
                 \/ call[l.from] = "error" /\ l.verb # "active-is-shell"
           \/ spc[l.from] \in {"failed", "killed"}
        /\ l.verb \in Actions => l.verb = arg[l.from] /\ Untouched(l.from)

ControlInv ==
    /\ \A r \in Runs : RunInv(r)
    /\ \A l \in inbox : LineInv(l)

----------------------------------------------------------------------------
(* The presses *)

(* A press is being measured and nothing has been asked for it; it has been *)
(* measured and its run is not yet started.                                 *)
Live    == elapsed # NoTime /\ ~long_action_sent
Pending == kpc \in {"zero_session", "shell_is_active", "spawn"}

(* The press is over and was short. *)
Short(p) == length[p] < LongPress /\ ~(held /\ presses = p)

(* What a press may be asked for. *)
Fits(p, a) ==
    /\ a = "close-active" => length[p] = LongPress
    /\ a = "minimize-active" /\ p \in ontime => Short(p)

ForInv(r) ==
    for[r] # NoPress =>
        /\ r <= started
        /\ for[r] <= tracked
        /\ for[r] = tracked => ~Live /\ ~Pending
        /\ Fits(for[r], arg[r])

UniqueInv == \A r, s \in Runs : for[r] = for[s] /\ for[r] # NoPress => r = s

PendingInv == Pending => tracked # NoPress /\ Fits(tracked, action)

(* What is still to be read of the press that is measured. *)
LiveInv ==
    Live =>
        /\ kpc = "select"
        /\ tracked # NoPress
        /\ elapsed <= length[tracked]
        /\ tracked \in ontime => elapsed = length[tracked]
        /\ queue = <<>> => held /\ presses = tracked
        /\ queue # <<>> => queue[1].press = tracked /\ queue[1].value # 1

TrackInv == tracked <= presses /\ \A p \in ontime : p <= tracked

(* The queue holds what happened: presses in order, each with its repeats   *)
(* and its end behind its start.                                            *)
EventInv(e) ==
    /\ e.press <= presses
    /\ e.value = 1 => e.press > tracked
    /\ e.value = 0 => ~(held /\ presses = e.press)

Follows(d, e) == d.value # 0 => e.press = d.press /\ e.value # 1

QueueInv ==
    /\ \A i \in 1 .. Len(queue) : EventInv(queue[i])
    /\ \A i, j \in 1 .. Len(queue) :
          i < j /\ queue[i].value = 1 /\ queue[j].value = 1 => queue[i].press < queue[j].press
    /\ \A i \in 1 .. Len(queue) - 1 : Follows(queue[i], queue[i + 1])
    /\ queue # <<>> /\ queue[Len(queue)].value # 0 => held /\ queue[Len(queue)].press = presses

PressInv ==
    /\ \A r \in Runs : ForInv(r)
    /\ UniqueInv
    /\ PendingInv
    /\ LiveInv
    /\ TrackInv
    /\ QueueInv

IInv == TypeOK /\ ControlInv /\ PressInv

(* The parts of TypeOK. *)
PolicyType ==
    /\ kpc \in {"select", "zero_session", "shell_is_active", "spawn", "control"}
    /\ elapsed \in 0 .. NoTime
    /\ tracked \in {NoPress} \cup Presses
    /\ action \in Actions
    /\ run \in 0 .. MaxRuns /\ (kpc = "control" => run # 0)
    /\ for \in [Runs -> {NoPress} \cup Presses]
    /\ ontime \subseteq Presses

Events == [value : 0 .. 2, press : Presses]

KeyType ==
    /\ queue \in Seq(Events)
    /\ presses \in {NoPress} \cup Presses
    /\ length \in [Presses -> 0 .. LongPress]

FlagType == held \in BOOLEAN /\ long_action_sent \in BOOLEAN
HeldType == held => presses # NoPress
CountType == others \in Nat /\ crashes \in 0 .. MaxCrashes

LEMMA Consts ==
    /\ MaxRuns \in Nat /\ LongPress \in Nat /\ LongPress # 0
    /\ QueueSize \in Nat /\ QueueSize # 0 /\ MaxCrashes \in Nat
    /\ Runs = 1 .. MaxRuns /\ Presses = 1 .. MaxRuns
    /\ Policy = 0 /\ NoPress = 0 /\ NoTime = LongPress + 1
    /\ Callers = Runs \cup {0}
  BY ControlAssumption, PolicyAssumption DEF Runs, Presses, Policy, NoPress, NoTime, Callers

LEMMA TypeSplit ==
    TypeOK <=> /\ ControlTypeOK /\ PolicyType /\ KeyType
               /\ FlagType /\ HeldType /\ CountType
  BY DEF TypeOK, PolicyType, KeyType, FlagType, HeldType, CountType, Events

LEMMA TypeJoin ==
  ASSUME ControlTypeOK', PolicyType', KeyType', FlagType', HeldType', CountType'
  PROVE  TypeOK'
  BY DEF TypeOK, PolicyType, KeyType, FlagType, HeldType, CountType, Events

LEMMA InitInv == Init => IInv
<1>. SUFFICES ASSUME Init PROVE IInv
  OBVIOUS
<1>. USE Consts
<1>1. ControlTypeOK
  <2>1. tmp \in BOOLEAN
    BY DEF Init, ControlInit
  <2>2. started \in 0 .. MaxRuns
    BY DEF Init, ControlInit
  <2>3. arg \in [Runs -> ControlActions] /\ inbox = {}
    BY DEF Init, ControlInit, ControlActions
  <2>4. spc \in [Runs -> Asking \cup Ended \cup {"off", "write", "move"}]
    BY DEF Init, ControlInit
  <2>5. call \in [Callers -> {"idle", "sent", "ok", "error"}]
    BY DEF Init, ControlInit
  <2>6. did \in [Runs -> Seq(Verbs)]
    BY DEF Init, ControlInit
  <2>. QED
    BY <2>1, <2>2, <2>3, <2>4, <2>5, <2>6 DEF ControlTypeOK
<1>2. PolicyType
  BY DEF Init, PolicyType, Actions
<1>3. KeyType
  BY DEF Init, KeyType
<1>4. FlagType /\ HeldType
  BY DEF Init, FlagType, HeldType
<1>5. CountType
  BY DEF Init, CountType
<1>6. \A r \in Runs : RunInv(r)
  BY DEF Init, ControlInit, RunInv
<1>7. \A l \in inbox : LineInv(l)
  BY DEF Init, ControlInit
<1>8. ~Live /\ ~Pending
  BY DEF Init, Live, Pending
<1>9. (\A r \in Runs : ForInv(r)) /\ UniqueInv
  BY DEF Init, ForInv, UniqueInv
<1>10. PendingInv /\ LiveInv /\ TrackInv
  BY <1>8 DEF Init, PendingInv, LiveInv, TrackInv
<1>11. QueueInv
  BY DEF Init, QueueInv
<1>. QED
  BY <1>1, <1>2, <1>3, <1>4, <1>5, <1>6, <1>7, <1>9, <1>10, <1>11, TypeSplit
  DEF IInv, ControlInv, PressInv

----------------------------------------------------------------------------
(* The scripts and the agent *)

(* What RunInv and LineInv look at, for one run. *)
Same(r) ==
    /\ spc'[r] = spc[r] /\ arg'[r] = arg[r] /\ did'[r] = did[r] /\ call'[r] = call[r]
    /\ r > started' <=> r > started

LEMMA SameKeeps ==
  ASSUME NEW r \in Runs, RunInv(r), Same(r)
  PROVE  RunInv(r)'
<1>1. Untouched(r)' <=> Untouched(r)
  BY DEF Untouched, Same
<1>2. Shown(r)' <=> Shown(r)
  BY DEF Shown, Same
<1>. QED
  BY <1>1, <1>2 DEF RunInv, Same

LEMMA SameLineKeeps ==
  ASSUME NEW l, LineInv(l), l.from \in Runs => Same(l.from)
  PROVE  LineInv(l)'
<1>. SUFFICES ASSUME l.from \in Runs PROVE LineInv(l)'
  BY DEF LineInv
<1>1. Verb(l.from)' = Verb(l.from)
  BY DEF Verb, Same
<1>2. Untouched(l.from)' <=> Untouched(l.from)
  BY DEF Untouched, Same
<1>. QED
  BY <1>1, <1>2 DEF LineInv, Same

(* A step of the policy that only concerns its own question. *)
LEMMA OwnQuestion ==
  ASSUME ControlInv, UNCHANGED <<started, arg, spc, did>>,
         \A r \in Runs : call'[r] = call[r],
         \A l \in inbox' : l \in inbox \/ l.from \notin Runs
  PROVE  ControlInv'
<1>1. \A r \in Runs : Same(r)
  BY DEF Same
<1>2. \A r \in Runs : RunInv(r)'
  BY <1>1, SameKeeps DEF ControlInv
<1>3. ASSUME NEW l \in inbox' PROVE LineInv(l)'
  <2>1. CASE l \in inbox
    BY <1>1, <2>1, SameLineKeeps DEF ControlInv
  <2>2. CASE l.from \notin Runs
    BY <2>2 DEF LineInv
  <2>. QED
    BY <2>1, <2>2
<1>. QED
  BY <1>2, <1>3 DEF ControlInv

(* A step of run r alone: it suffices to look at r and at its lines. *)
LEMMA OneRun ==
  ASSUME ControlInv, NEW r \in Runs,
         \A s \in Runs \ {r} : Same(s),
         \A l \in inbox' : l \in inbox \/ l.from = r,
         RunInv(r)',
         \A l \in inbox' : l.from = r => LineInv(l)'
  PROVE  ControlInv'
<1>1. ASSUME NEW s \in Runs PROVE RunInv(s)'
  <2>1. CASE s = r
    BY <2>1
  <2>2. CASE s # r
    BY <2>2, SameKeeps DEF ControlInv
  <2>. QED
    BY <2>1, <2>2
<1>2. ASSUME NEW l \in inbox' PROVE LineInv(l)'
  <2>1. CASE l.from = r
    BY <2>1
  <2>2. CASE l.from # r
    <3>1. LineInv(l)
      BY <2>2 DEF ControlInv
    <3>2. l.from \in Runs => Same(l.from)
      BY <2>2
    <3>. QED
      BY <3>1, <3>2, SameLineKeeps
  <2>. QED
    BY <2>1, <2>2
<1>. QED
  BY <1>1, <1>2 DEF ControlInv

(* A run that moves on after an answer, or by itself. *)
LEMMA GoesInv ==
  ASSUME TypeOK, ControlInv, NEW r \in Runs,
         NEW from \in Asking, NEW answers, NEW to \in {"write", "command", "focus_shell", "failed", "ok"},
         Goes(r, from, answers, to),
         to # "failed" => \A l \in inbox : l.from # r,
         to = "command" => from = "shell_is_active",
         to \in {"write", "ok"} => Shown(r)
  PROVE  ControlTypeOK' /\ ControlInv'
<1>. USE DEF ControlTypeOK
<1>1. ControlTypeOK
  BY TypeSplit
<1>2. /\ spc[r] = from /\ r \in Callers
      /\ spc' = [spc EXCEPT ![r] = to] /\ call' = [call EXCEPT ![r] = "idle"]
      /\ UNCHANGED <<started, arg, inbox, did, tmp>>
  BY DEF Goes, Callers
<1>3. spc'[r] = to /\ call'[r] = "idle" /\ \A s \in Runs \ {r} : spc'[s] = spc[s] /\ call'[s] = call[s]
  BY <1>1, <1>2 DEF Callers
<1>4. ControlTypeOK'
  <2>1. spc' \in [Runs -> Asking \cup Ended \cup {"off", "write", "move"}]
    BY <1>1, <1>2 DEF Asking, Ended
  <2>2. call' \in [Callers -> {"idle", "sent", "ok", "error"}]
    BY <1>1, <1>2
  <2>3. tmp' \in BOOLEAN
    BY <1>1, <1>2
  <2>. QED
    BY <1>1, <1>2, <2>1, <2>2, <2>3
<1>5. \A s \in Runs \ {r} : Same(s)
  BY <1>2, <1>3 DEF Same
<1>6. RunInv(r)'
  <2>1. RunInv(r) /\ spc[r] \in Asking
    BY <1>2 DEF ControlInv
  <2>2. (Untouched(r)' <=> Untouched(r)) /\ (Shown(r)' <=> Shown(r))
    BY <1>2 DEF Untouched, Shown
  <2>. QED
    BY <1>2, <1>3, <2>1, <2>2 DEF RunInv, Asking
<1>7. ASSUME NEW l \in inbox', l.from = r PROVE LineInv(l)'
  <2>1. to = "failed" /\ LineInv(l)
    BY <1>2, <1>7 DEF ControlInv
  <2>2. Untouched(r)' <=> Untouched(r)
    BY <1>2 DEF Untouched
  <2>. QED
    BY <1>2, <1>3, <1>7, <2>1, <2>2 DEF LineInv
<1>. QED
  BY <1>2, <1>4, <1>5, <1>6, <1>7, OneRun

LEMMA ShellIsActiveInv ==
  ASSUME TypeOK, ControlInv, NEW r \in Runs, shell_is_active(r)
  PROVE  ControlTypeOK' /\ ControlInv'
<1>1. RunInv(r) /\ spc[r] = "shell_is_active" /\ "shell_is_active" \in Asking
  BY DEF shell_is_active, Goes, ControlInv, Asking
<1>2. call[r] \in {"ok", "error"} => \A l \in inbox : l.from # r
  BY <1>1 DEF ControlInv, LineInv, Verb
<1>3. CASE Goes(r, "shell_is_active", {"ok"}, "write")
  <2>1. call[r] = "ok" /\ Shown(r)
    BY <1>1, <1>3 DEF Goes, RunInv
  <2>. QED
    BY <1>1, <1>2, <1>3, <2>1, GoesInv
<1>4. CASE Goes(r, "shell_is_active", {"error"}, "command")
  <2>1. call[r] = "error"
    BY <1>4 DEF Goes
  <2>. QED
    BY <1>1, <1>2, <1>4, <2>1, GoesInv
<1>. QED
  BY <1>3, <1>4 DEF shell_is_active

LEMMA CommandInv ==
  ASSUME TypeOK, ControlInv, NEW r \in Runs, command(r)
  PROVE  ControlTypeOK' /\ ControlInv'
<1>1. RunInv(r) /\ spc[r] = "command" /\ "command" \in Asking
  BY DEF command, Goes, ControlInv, Asking
<1>2. CASE Goes(r, "command", {"ok"}, "focus_shell")
  <2>1. call[r] = "ok"
    BY <1>2 DEF Goes
  <2>2. \A l \in inbox : l.from # r
    BY <1>1, <2>1 DEF ControlInv, LineInv
  <2>. QED
    BY <1>1, <1>2, <2>2, GoesInv
<1>3. CASE Goes(r, "command", {"error"}, "failed")
  BY <1>1, <1>3, GoesInv
<1>. QED
  BY <1>2, <1>3 DEF command

LEMMA FocusShellInv ==
  ASSUME TypeOK, ControlInv, NEW r \in Runs, focus_shell(r)
  PROVE  ControlTypeOK' /\ ControlInv'
<1>1. RunInv(r) /\ spc[r] = "focus_shell" /\ "focus_shell" \in Asking
  BY DEF focus_shell, Goes, ControlInv, Asking
<1>2. ASSUME NEW to \in {"write", "ok"}, Goes(r, "focus_shell", {"ok"}, to)
      PROVE  ControlTypeOK' /\ ControlInv'
  <2>1. call[r] = "ok"
    BY <1>2 DEF Goes
  <2>2. Shown(r) /\ \A l \in inbox : l.from # r
    BY <1>1, <2>1 DEF ControlInv, LineInv, RunInv
  <2>. QED
    BY <1>1, <1>2, <2>2, GoesInv
<1>3. CASE Goes(r, "focus_shell", {"error"}, "failed")
  BY <1>1, <1>3, GoesInv
<1>. QED
  BY <1>2, <1>3 DEF focus_shell

LEMMA SendInv ==
  ASSUME TypeOK, ControlInv, NEW r \in Runs, send_shell_command(r)
  PROVE  ControlTypeOK' /\ ControlInv'
<1>1. ControlTypeOK
  BY TypeSplit
<1>2. UNCHANGED <<started, arg, call, inbox, did>>
  BY DEF send_shell_command
<1>3. PICK to \in {"move", "ok", "failed"} :
        spc[r] \in {"write", "move"} /\ spc' = [spc EXCEPT ![r] = to]
  BY DEF send_shell_command
<1>4. spc'[r] = to /\ \A s \in Runs \ {r} : spc'[s] = spc[s]
  BY <1>1, <1>3 DEF ControlTypeOK
<1>5. ControlTypeOK'
  <2>1. spc' \in [Runs -> Asking \cup Ended \cup {"off", "write", "move"}]
    BY <1>1, <1>3 DEF ControlTypeOK, Asking, Ended
  <2>2. tmp' \in BOOLEAN
    BY <1>1 DEF send_shell_command, ControlTypeOK
  <2>. QED
    BY <1>1, <1>2, <2>1, <2>2 DEF ControlTypeOK
<1>6. RunInv(r)'
  <2>1. RunInv(r)
    BY DEF ControlInv
  <2>2. (Untouched(r)' <=> Untouched(r)) /\ (Shown(r)' <=> Shown(r))
    BY <1>2 DEF Untouched, Shown
  <2>. QED
    BY <1>2, <1>3, <1>4, <2>1, <2>2 DEF RunInv
<1>7. \A s \in Runs \ {r} : Same(s)
  BY <1>2, <1>4 DEF Same
<1>8. \A l \in inbox : l.from # r
  BY <1>3 DEF ControlInv, LineInv, Asking
<1>. QED
  BY <1>2, <1>5, <1>6, <1>7, <1>8, OneRun

LEMMA AgentCommandInv ==
  ASSUME TypeOK, ControlInv, NEW r \in Runs, agent_command(r)
  PROVE  ControlTypeOK' /\ ControlInv'
<1>. USE DEF ControlTypeOK
<1>1. ControlTypeOK /\ RunInv(r) /\ r \in Callers
  BY TypeSplit DEF ControlInv, Callers
<1>2. /\ spc[r] \in Asking /\ call[r] = "idle"
      /\ UNCHANGED <<started, arg, spc, did, tmp>>
  BY DEF agent_command, Ask
<1>3. PICK a \in {"sent", "error"} :
        /\ call' = [call EXCEPT ![r] = a]
        /\ \/ a = "sent" /\ inbox' = inbox \cup {[from |-> r, verb |-> Verb(r)]}
           \/ inbox' = inbox
  BY DEF agent_command, Ask
<1>4. call'[r] = a /\ \A s \in Runs \ {r} : call'[s] = call[s]
  BY <1>1, <1>3 DEF Callers
<1>5. Verb(r) \in Verbs
  BY <1>1, <1>2 DEF RunInv, Verb, Verbs, Actions
<1>6. ControlTypeOK'
  <2>1. call' \in [Callers -> {"idle", "sent", "ok", "error"}]
    BY <1>1, <1>3
  <2>2. inbox' \in SUBSET [from : Callers, verb : Verbs]
    BY <1>1, <1>3, <1>5
  <2>3. tmp' \in BOOLEAN
    BY <1>1, <1>2
  <2>. QED
    BY <1>1, <1>2, <2>1, <2>2, <2>3
<1>7. Untouched(r)' <=> Untouched(r)
  BY <1>2 DEF Untouched
<1>8. RunInv(r)'
  <2>1. Shown(r)' <=> Shown(r)
    BY <1>2 DEF Shown
  <2>. QED
    BY <1>1, <1>2, <1>4, <1>7, <2>1 DEF RunInv, Asking
<1>9. \A s \in Runs \ {r} : Same(s)
  BY <1>2, <1>4 DEF Same
<1>10. \A l \in inbox : l.from # r
  BY <1>2 DEF ControlInv, LineInv, Asking
<1>11. ASSUME NEW l \in inbox', l.from = r PROVE LineInv(l)'
  <2>1. a = "sent" /\ l.verb = Verb(r)
    BY <1>3, <1>10, <1>11
  <2>2. Verb(r)' = Verb(r)
    BY <1>2 DEF Verb
  <2>3. l.verb \in Actions => l.verb = arg[r] /\ Untouched(r)
    BY <1>1, <1>2, <2>1 DEF RunInv, Verb, Actions, Asking
  <2>. QED
    BY <1>2, <1>4, <1>7, <1>11, <2>1, <2>2, <2>3 DEF LineInv
<1>12. \A l \in inbox' : l \in inbox \/ l.from = r
  BY <1>3
<1>. QED
  BY <1>6, <1>8, <1>9, <1>11, <1>12, OneRun

LEMMA AgentCommandTimeoutInv ==
  ASSUME TypeOK, ControlInv, NEW r \in Runs, AgentCommandTimeout(r)
  PROVE  ControlTypeOK' /\ ControlInv'
<1>. USE DEF ControlTypeOK
<1>1. ControlTypeOK /\ RunInv(r) /\ r \in Callers
  BY TypeSplit DEF ControlInv, Callers
<1>2. /\ call[r] = "sent" /\ call' = [call EXCEPT ![r] = "error"]
      /\ inbox' = inbox \ {[from |-> r, verb |-> "active-is-shell"]}
      /\ UNCHANGED <<started, arg, spc, did, tmp>>
  BY DEF AgentCommandTimeout, GiveUp
<1>3. call'[r] = "error" /\ \A s \in Runs \ {r} : call'[s] = call[s]
  BY <1>1, <1>2 DEF Callers
<1>4. ControlTypeOK'
  <2>1. call' \in [Callers -> {"idle", "sent", "ok", "error"}]
    BY <1>1, <1>2
  <2>2. tmp' \in BOOLEAN
    BY <1>1, <1>2
  <2>. QED
    BY <1>1, <1>2, <2>1, <2>2
<1>5. Untouched(r)' <=> Untouched(r)
  BY <1>2 DEF Untouched
<1>6. RunInv(r)'
  <2>1. Shown(r)' <=> Shown(r)
    BY <1>2 DEF Shown
  <2>. QED
    BY <1>1, <1>2, <1>3, <1>5, <2>1 DEF RunInv
<1>7. \A s \in Runs \ {r} : Same(s)
  BY <1>2, <1>3 DEF Same
<1>8. ASSUME NEW l \in inbox', l.from = r PROVE LineInv(l)'
  <2>1. LineInv(l) /\ l \in [from : Callers, verb : Verbs]
    BY <1>1, <1>2 DEF ControlInv
  <2>2. l.verb # "active-is-shell"
    BY <1>2, <1>8, <2>1
  <2>3. Verb(r)' = Verb(r)
    BY <1>2 DEF Verb
  <2>. QED
    BY <1>2, <1>3, <1>5, <1>8, <2>1, <2>2, <2>3 DEF LineInv
<1>. QED
  BY <1>2, <1>4, <1>6, <1>7, <1>8, OneRun

(* The agent does what a run has asked for, or not. *)
LEMMA ServesRunInv ==
  ASSUME TypeOK, ControlInv, NEW l \in inbox, NEW ok \in BOOLEAN,
         NEW r \in Runs, l.from = r, AgentServes(l, ok)
  PROVE  ControlInv'
<1>1. RunInv(r) /\ LineInv(l)
  BY DEF ControlInv
<1>2. UNCHANGED <<started, arg, spc>> /\ inbox' = inbox \ {l}
  BY DEF AgentServes
<1>3. did[r] \in Seq(Verbs) /\ did \in [Runs -> Seq(Verbs)] /\ l \in [from : Callers, verb : Verbs]
  BY TypeSplit DEF ControlTypeOK
<1>4. call \in [Callers -> {"idle", "sent", "ok", "error"}] /\ r \in Callers /\ Runs \subseteq Callers
  BY TypeSplit DEF ControlTypeOK, Callers
<1>5. \A s \in Runs \ {r} : Same(s)
  <2>1. \A s \in Runs \ {r} : did'[s] = did[s]
    BY <1>3 DEF AgentServes
  <2>2. \A s \in Runs \ {r} : call'[s] = call[s]
    BY <1>4 DEF AgentServes
  <2>. QED
    BY <1>2, <2>1, <2>2 DEF Same
<1>6. \/ ok /\ did'[r] = Append(did[r], l.verb)
      \/ ~ok /\ did'[r] = did[r]
  BY <1>3 DEF AgentServes
<1>7. /\ Append(did[r], l.verb) # <<>>
      /\ Len(Append(did[r], l.verb)) = Len(did[r]) + 1 /\ Len(did[r]) \in Nat
      /\ \A n \in 1 .. Len(did[r]) : Append(did[r], l.verb)[n] = did[r][n]
      /\ Append(did[r], l.verb)[Len(did[r]) + 1] = l.verb
  BY <1>3, AppendProperties, LenProperties
<1>8. ok => \A n \in 1 .. Len(did'[r]) :
          \/ n \in 1 .. Len(did[r]) /\ did'[r][n] = did[r][n]
          \/ n = Len(did[r]) + 1 /\ did'[r][n] = l.verb
  <2>. SUFFICES ASSUME ok, NEW n \in 1 .. Len(did[r]) + 1
               PROVE  \/ n \in 1 .. Len(did[r]) /\ did'[r][n] = did[r][n]
                      \/ n = Len(did[r]) + 1 /\ did'[r][n] = l.verb
    BY <1>6, <1>7
  <2>1. n \in 1 .. Len(did[r]) \/ n = Len(did[r]) + 1
    BY <1>7
  <2>. QED
    BY <1>6, <1>7, <2>1
<1>9. Untouched(r) /\ l.verb \notin Actions => Untouched(r)'
  <2>1. CASE ~ok
    BY <1>6, <2>1 DEF Untouched
  <2>2. CASE ok
    BY <1>6, <1>8, <2>2 DEF Untouched
  <2>. QED
    BY <2>1, <2>2
<1>10. ok /\ l.verb \in {"active-is-shell", "focus-shell"} => Shown(r)'
  BY <1>6, <1>7 DEF Shown
<1>11. /\ \A n \in 1 .. Len(did'[r]) : did'[r][n] \in Actions => did'[r][n] = arg[r]
       /\ \A m, n \in 1 .. Len(did'[r]) : did'[r][m] \in Actions /\ did'[r][n] \in Actions => m = n
  <2>1. /\ \A n \in 1 .. Len(did[r]) : did[r][n] \in Actions => did[r][n] = arg[r]
        /\ \A m, n \in 1 .. Len(did[r]) : did[r][m] \in Actions /\ did[r][n] \in Actions => m = n
    BY <1>1 DEF RunInv
  <2>2. CASE ~ok
    BY <1>6, <2>1, <2>2
  <2>3. CASE ok
    <3>1. l.verb \in Actions => l.verb = arg[r] /\ \A n \in 1 .. Len(did[r]) : did[r][n] \notin Actions
      BY <1>1 DEF LineInv, Untouched
    <3>. QED
      BY <1>8, <2>1, <2>3, <3>1
  <2>. QED
    BY <2>2, <2>3
<1>12. CASE spc[r] \in Asking
  <2>1. l.verb = Verb(r) /\ call[r] \in {"sent", "error"}
    BY <1>1, <1>12 DEF LineInv, Asking
  <2>2. Awaits(l) <=> call[r] = "sent"
    BY <1>12, <2>1 DEF Awaits
  <2>3. call'[r] \in {"ok", "error"} /\ (call'[r] = "ok" => ok)
    BY <1>4, <2>1, <2>2 DEF AgentServes
  <2>4. RunInv(r)'
    <3>1. spc[r] = "shell_is_active" => l.verb = "active-is-shell"
      BY <2>1 DEF Verb
    <3>2. spc[r] = "focus_shell" => l.verb = "focus-shell"
      BY <2>1 DEF Verb
    <3>3. spc[r] \in {"shell_is_active", "command", "focus_shell"}
      BY <1>12 DEF Asking
    <3>4. spc[r] = "shell_is_active" => Untouched(r)'
      BY <1>1, <1>9, <3>1 DEF RunInv, Actions
    <3>5. spc[r] \in {"shell_is_active", "focus_shell"} /\ call'[r] = "ok" => Shown(r)'
      BY <1>10, <2>3, <3>1, <3>2
    <3>. QED
      BY <1>1, <1>2, <1>11, <2>3, <3>3, <3>4, <3>5 DEF RunInv
  <2>5. \A k \in inbox' : k.from # r
    <3>1. ASSUME NEW k \in inbox, k.from = r PROVE k = l
      <4>1. k.verb = Verb(r)
        BY <1>12, <3>1 DEF ControlInv, LineInv, Asking
      <4>2. k \in [from : Callers, verb : Verbs]
        BY TypeSplit DEF ControlTypeOK
      <4>. QED
        BY <1>3, <2>1, <3>1, <4>1, <4>2
    <3>. QED
      BY <1>2, <3>1
  <2>. QED
    BY <1>2, <1>5, <2>4, <2>5, OneRun
<1>13. CASE spc[r] \in {"failed", "killed"}
  <2>1. RunInv(r)'
    BY <1>1, <1>2, <1>11, <1>13 DEF RunInv
  <2>2. ASSUME NEW k \in inbox', k.from = r PROVE LineInv(k)'
    <3>1. LineInv(k) /\ k \in inbox /\ k # l /\ k \in [from : Callers, verb : Verbs]
      BY <1>2, TypeSplit DEF ControlInv, ControlTypeOK
    <3>2. k.verb \in Actions => k.verb = arg[r] /\ Untouched(r)
      BY <2>2, <3>1 DEF LineInv
    <3>3. k.verb \in Actions => l.verb \notin Actions
      <4>1. l.verb \in Actions => l.verb = arg[r]
        BY <1>1 DEF LineInv
      <4>2. k.verb # l.verb
        BY <1>3, <2>2, <3>1
      <4>. QED
        BY <3>2, <4>1, <4>2
    <3>. QED
      BY <1>2, <1>9, <1>13, <2>2, <3>2, <3>3 DEF LineInv
  <2>. QED
    BY <1>2, <1>5, <2>1, <2>2, OneRun
<1>. QED
  BY <1>1, <1>12, <1>13 DEF LineInv

LEMMA AgentServesInv ==
  ASSUME TypeOK, ControlInv, NEW l \in inbox, NEW ok \in BOOLEAN, AgentServes(l, ok)
  PROVE  ControlTypeOK' /\ ControlInv'
<1>. USE DEF ControlTypeOK
<1>1. ControlTypeOK
  BY TypeSplit
<1>2. UNCHANGED <<started, arg, spc, tmp>> /\ inbox' = inbox \ {l} /\ l.from \in Callers /\ l.verb \in Verbs
  BY <1>1 DEF AgentServes
<1>3. ControlTypeOK'
  <2>1. tmp' \in BOOLEAN
    BY <1>1, <1>2
  <2>2. call' \in [Callers -> {"idle", "sent", "ok", "error"}]
    BY <1>1, <1>2 DEF AgentServes
  <2>3. did' \in [Runs -> Seq(Verbs)]
    <3>1. CASE ok /\ l.from \in Runs
      <4>1. Append(did[l.from], l.verb) \in Seq(Verbs)
        BY <1>1, <1>2, <3>1
      <4>2. did' = [did EXCEPT ![l.from] = Append(did[l.from], l.verb)]
        BY <3>1 DEF AgentServes
      <4>. QED
        BY <1>1, <3>1, <4>1, <4>2
    <3>2. CASE ~(ok /\ l.from \in Runs)
      BY <1>1, <3>2 DEF AgentServes
    <3>. QED
      BY <3>1, <3>2
  <2>. QED
    BY <1>1, <1>2, <2>1, <2>2, <2>3
<1>4. CASE l.from \in Runs
  BY <1>3, <1>4, ServesRunInv
<1>5. CASE l.from \notin Runs
  <2>1. did' = did
    BY <1>5 DEF AgentServes
  <2>2. \A r \in Runs : call'[r] = call[r]
    BY <1>1, <1>5 DEF AgentServes, Callers
  <2>. QED
    BY <1>2, <1>3, <2>1, <2>2, OwnQuestion
<1>. QED
  BY <1>4, <1>5

LEMMA StartRunInv ==
  ASSUME TypeOK, ControlInv, NEW a \in ControlActions, StartRun(a)
  PROVE  ControlTypeOK' /\ ControlInv' /\ started' \in Runs /\ started' = started + 1
<1>. USE DEF ControlTypeOK
<1>1. ControlTypeOK
  BY TypeSplit
<1>2. PICK r \in Runs : r = started + 1 /\ started \in Nat
  BY <1>1, Consts DEF StartRun
<1>3. /\ started' = r
      /\ arg' = [arg EXCEPT ![r] = a] /\ spc' = [spc EXCEPT ![r] = ScriptStart(a)]
      /\ UNCHANGED <<call, inbox, did, tmp>>
  BY <1>2 DEF StartRun
<1>4. ScriptStart(a) \in {"focus_shell", "write", "shell_is_active"}
  BY DEF ScriptStart
<1>5. /\ arg'[r] = a /\ spc'[r] = ScriptStart(a)
      /\ \A s \in Runs \ {r} : arg'[s] = arg[s] /\ spc'[s] = spc[s]
  BY <1>1, <1>2, <1>3
<1>6. ControlTypeOK'
  <2>1. tmp' \in BOOLEAN
    BY <1>1, <1>3
  <2>2. spc' \in [Runs -> Asking \cup Ended \cup {"off", "write", "move"}]
    BY <1>1, <1>3, <1>4 DEF Asking
  <2>3. arg' \in [Runs -> ControlActions]
    BY <1>1, <1>3
  <2>4. started' \in 0 .. MaxRuns
    BY <1>2, <1>3, Consts
  <2>. QED
    BY <1>1, <1>3, <2>1, <2>2, <2>3, <2>4
<1>7. RunInv(r) /\ spc[r] = "off" /\ did[r] = <<>> /\ call[r] = "idle"
  BY <1>2 DEF ControlInv, RunInv
<1>8. RunInv(r)'
  <2>1. Len(did'[r]) = 0
    BY <1>3, <1>7
  <2>2. \A n \in 1 .. Len(did'[r]) : FALSE
    BY <2>1
  <2>3. Untouched(r)'
    BY <2>2 DEF Untouched
  <2>4. ScriptStart(a) = "write" => a = "hide-tasks"
    BY DEF ScriptStart
  <2>5. ScriptStart(a) = "shell_is_active" => a \in Actions
    BY DEF ScriptStart, ControlActions, Actions
  <2>6. ~(r > started') /\ call'[r] = "idle"
    BY <1>2, <1>3, <1>7, Consts
  <2>. QED
    BY <1>4, <1>5, <2>2, <2>3, <2>4, <2>5, <2>6 DEF RunInv
<1>9. \A s \in Runs \ {r} : Same(s)
  <2>1. \A s \in Runs \ {r} : s > started' <=> s > started
    BY <1>2, <1>3, Consts
  <2>. QED
    BY <1>3, <1>5, <2>1 DEF Same
<1>10. \A l \in inbox : l.from # r
  BY <1>2, <1>7 DEF ControlInv, LineInv, Asking
<1>11. ControlInv'
  BY <1>2, <1>3, <1>8, <1>9, <1>10, OneRun
<1>. QED
  BY <1>2, <1>3, <1>6, <1>11

(* systemd kills the runs that the policy started. *)
LEMMA RestartControlInv ==
  ASSUME IInv, PolicyRestarts
  PROVE  ControlTypeOK' /\ ControlInv'
<1>. USE DEF ControlTypeOK
<1>1. /\ ControlTypeOK /\ Policy \in Callers /\ Policy \notin Runs
      /\ ControlInv /\ \A r \in Runs : for[r] # NoPress => r <= started
  BY TypeSplit, Consts DEF IInv, PressInv, ForInv
<1>2. /\ UNCHANGED <<started, arg, inbox, did, tmp>>
      /\ call' = [call EXCEPT ![Policy] = "idle"]
      /\ spc' = [r \in Runs |-> IF for[r] # NoPress /\ spc[r] \notin Ended THEN "killed" ELSE spc[r]]
  BY DEF PolicyRestarts
<1>3. ControlTypeOK'
  <2>1. tmp' \in BOOLEAN
    BY <1>1, <1>2
  <2>2. call' \in [Callers -> {"idle", "sent", "ok", "error"}]
    BY <1>1, <1>2
  <2>3. spc' \in [Runs -> Asking \cup Ended \cup {"off", "write", "move"}]
    BY <1>1, <1>2 DEF Ended
  <2>. QED
    BY <1>1, <1>2, <2>1, <2>2, <2>3
<1>4. \A r \in Runs : call'[r] = call[r]
  BY <1>1, <1>2
<1>5. \A r \in Runs : Same(r) \/ (spc'[r] = "killed" /\ for[r] # NoPress)
  BY <1>2, <1>4 DEF Same
<1>6. ASSUME NEW r \in Runs PROVE RunInv(r)'
  <2>1. CASE Same(r)
    BY <1>1, <2>1, SameKeeps DEF ControlInv
  <2>2. CASE spc'[r] = "killed" /\ for[r] # NoPress
    <3>1. RunInv(r)
      BY <1>1 DEF ControlInv
    <3>2. ~(r > started)
      BY <1>1, <2>2, Consts
    <3>. QED
      BY <1>2, <1>4, <2>2, <3>1, <3>2 DEF RunInv
  <2>. QED
    BY <1>5, <2>1, <2>2
<1>7. ASSUME NEW l \in inbox' PROVE LineInv(l)'
  <2>1. LineInv(l)
    BY <1>1, <1>2 DEF ControlInv
  <2>2. CASE l.from \in Runs => Same(l.from)
    BY <2>1, <2>2, SameLineKeeps
  <2>3. CASE l.from \in Runs /\ spc'[l.from] = "killed"
    <3>1. Untouched(l.from)' <=> Untouched(l.from)
      BY <1>2 DEF Untouched
    <3>. QED
      BY <1>2, <2>1, <2>3, <3>1 DEF LineInv
  <2>. QED
    BY <1>5, <2>2, <2>3
<1>. QED
  BY <1>3, <1>6, <1>7 DEF ControlInv

----------------------------------------------------------------------------
(* The policy *)

LEMMA FitsSame ==
  ASSUME NEW p, NEW a, UNCHANGED <<length, held, presses>>, p \in ontime' => p \in ontime
  PROVE  Fits(p, a) => Fits(p, a)'
  BY DEF Fits, Short

(* A step that moves the policy and leaves presses, runs and the press that *)
(* is tracked alone.                                                        *)
LEMMA MoveKeeps ==
  ASSUME PressInv, UNCHANGED <<tracked, for, ontime, presses, held, length, arg, started>>,
         QueueInv', PendingInv', LiveInv',
         \A r \in Runs : for[r] # NoPress /\ for[r] = tracked => ~Live' /\ ~Pending'
  PROVE  PressInv'
<1>1. ASSUME NEW r \in Runs PROVE ForInv(r)'
  <2>1. ForInv(r)
    BY DEF PressInv
  <2>2. Fits(for[r], arg[r]) => Fits(for[r], arg[r])'
    BY FitsSame DEF Fits, Short
  <2>. QED
    BY <2>1, <2>2 DEF ForInv
<1>2. UniqueInv' /\ TrackInv'
  BY DEF PressInv, UniqueInv, TrackInv
<1>. QED
  BY <1>1, <1>2 DEF PressInv

LEMMA FlagsStay ==
  ASSUME TypeOK, UNCHANGED <<held, long_action_sent, presses>>
  PROVE  FlagType' /\ HeldType'
<1>1. FlagType /\ HeldType
  BY TypeSplit
<1>. QED
  BY <1>1 DEF FlagType, HeldType

LEMMA KeysStay ==
  ASSUME TypeOK, UNCHANGED <<queue, presses, held, length>>, QueueInv
  PROVE  KeyType' /\ HeldType' /\ (tracked' = tracked => QueueInv')
<1>1. KeyType /\ HeldType
  BY TypeSplit
<1>2. KeyType'
  BY <1>1 DEF KeyType
<1>3. HeldType'
  BY <1>1 DEF HeldType
<1>4. tracked' = tracked => QueueInv'
  BY DEF QueueInv, EventInv, Follows
<1>. QED
  BY <1>2, <1>3, <1>4

(* Steps of the scripts and of others. *)
LEMMA PressStays ==
  ASSUME TypeOK, PressInv, UNCHANGED <<policyVars, keyVars>>,
         started' \in Nat, started' >= started,
         \A r \in Runs : for[r] # NoPress => arg'[r] = arg[r]
  PROVE  PressInv' /\ PolicyType' /\ KeyType' /\ FlagType' /\ HeldType'
<1>1. UNCHANGED <<kpc, elapsed, tracked, action, run, for, ontime, queue, presses, length>>
  BY DEF policyVars, keyVars
<1>2. UNCHANGED <<held, long_action_sent>>
  BY DEF policyVars, keyVars
<1>3. PolicyType /\ PolicyType'
  BY <1>1, TypeSplit DEF PolicyType
<1>4. KeyType' /\ HeldType' /\ QueueInv'
  BY <1>1, <1>2, KeysStay DEF PressInv
<1>5. FlagType'
  BY <1>1, <1>2, FlagsStay
<1>6. Live' <=> Live
  BY <1>1, <1>2 DEF Live
<1>7. Pending' <=> Pending
  BY <1>1 DEF Pending
<1>8. ASSUME NEW r \in Runs PROVE ForInv(r)'
  <2>. SUFFICES ASSUME for[r] # NoPress PROVE ForInv(r)'
    BY <1>1 DEF ForInv
  <2>1. ForInv(r)
    BY DEF PressInv
  <2>2. Fits(for[r], arg[r]) => Fits(for[r], arg[r])'
    BY <1>1, <1>2 DEF Fits, Short
  <2>3. r <= started'
    <3>1. started \in Nat /\ r \in Nat /\ r <= started
      BY <2>1, TypeSplit, Consts DEF ControlTypeOK, ForInv
    <3>. QED
      BY <3>1
  <2>. QED
    BY <1>1, <1>6, <1>7, <2>1, <2>2, <2>3 DEF ForInv
<1>9. UniqueInv' /\ TrackInv'
  BY <1>1 DEF PressInv, UniqueInv, TrackInv
<1>10. PendingInv'
  <2>1. Fits(tracked, action) => Fits(tracked, action)'
    BY <1>1, <1>2 DEF Fits, Short
  <2>. QED
    BY <1>1, <1>7, <2>1 DEF PressInv, PendingInv
<1>11. LiveInv'
  BY <1>1, <1>2, <1>6 DEF PressInv, LiveInv
<1>. QED
  BY <1>3, <1>4, <1>5, <1>8, <1>9, <1>10, <1>11 DEF PressInv

(* run_control goes on or returns: no press is measured meanwhile. *)
LEMMA BlockedKeeps ==
  ASSUME TypeOK, PressInv, kpc # "select",
         UNCHANGED <<elapsed, long_action_sent, tracked, action, for, ontime, keyVars, arg, started>>,
         Pending' => Pending
  PROVE  PressInv' /\ KeyType' /\ FlagType' /\ HeldType'
<1>1. UNCHANGED <<elapsed, tracked, action, for, ontime, queue, presses, length, arg, started>>
  BY DEF keyVars
<1>2. UNCHANGED <<held, long_action_sent>>
  BY DEF keyVars
<1>3. ~Live /\ ~Live'
  BY <1>1, <1>2 DEF PressInv, LiveInv, Live
<1>4. KeyType' /\ HeldType' /\ QueueInv'
  BY <1>1, <1>2, KeysStay DEF PressInv
<1>5. FlagType'
  BY <1>1, <1>2, FlagsStay
<1>6. PendingInv'
  <2>1. Fits(tracked, action) => Fits(tracked, action)'
    BY <1>1, <1>2 DEF Fits, Short
  <2>. QED
    BY <1>1, <2>1 DEF PressInv, PendingInv
<1>7. LiveInv'
  BY <1>3 DEF LiveInv
<1>8. \A r \in Runs : for[r] # NoPress /\ for[r] = tracked => ~Live' /\ ~Pending'
  BY <1>3 DEF PressInv, ForInv
<1>9. PressInv'
  BY <1>1, <1>2, <1>4, <1>6, <1>7, <1>8, MoveKeeps
<1>. QED
  BY <1>4, <1>5, <1>9

(* run_control is called for the press that is measured. *)
LEMMA CallKeeps ==
  ASSUME TypeOK, PressInv, Live, NEW a \in Actions, run_control(a),
         UNCHANGED <<tracked, for, ontime, presses, held, length, arg, started>>,
         QueueInv', Fits(tracked, a), ~Live'
  PROVE  PressInv'
<1>1. kpc' = "zero_session" /\ action' = a /\ tracked # NoPress
  BY DEF run_control, PressInv, LiveInv
<1>2. PendingInv'
  <2>1. Fits(tracked, action)'
    BY <1>1 DEF Fits, Short
  <2>. QED
    BY <1>1, <2>1 DEF PendingInv
<1>3. LiveInv'
  BY DEF LiveInv
<1>4. \A r \in Runs : for[r] # NoPress => for[r] # tracked
  BY DEF PressInv, ForInv
<1>. QED
  BY <1>2, <1>3, <1>4, MoveKeeps

(* What is measured is long enough to close. *)
LEMMA LongFits ==
  ASSUME TypeOK, PressInv, Live, elapsed = LongPress
  PROVE  Fits(tracked, "close-active")
<1>1. tracked \in Presses /\ elapsed <= length[tracked] /\ length[tracked] \in 0 .. LongPress
  BY TypeSplit DEF PressInv, LiveInv, PolicyType, KeyType
<1>2. length[tracked] = LongPress
  BY <1>1, Consts
<1>. QED
  BY <1>2 DEF Fits

LEMMA SpawnInv ==
  ASSUME IInv, Spawn
  PROVE  IInv'
<1>1. TypeOK /\ ControlInv /\ PressInv /\ PolicyType /\ CountType /\ ControlTypeOK
  BY TypeSplit DEF IInv
<1>2. /\ kpc = "spawn" /\ kpc' = "control" /\ StartRun(action)
      /\ run' = started' /\ for' = [for EXCEPT ![started'] = tracked]
      /\ UNCHANGED <<elapsed, tracked, action, ontime, queue, presses, length, others, crashes>>
  BY DEF Spawn, keyVars
<1>3. UNCHANGED <<held, long_action_sent>>
  BY DEF Spawn, keyVars
<1>4. action \in ControlActions
  BY <1>1 DEF PolicyType, Actions, ControlActions
<1>5. ControlTypeOK' /\ ControlInv' /\ started' \in Runs /\ started' = started + 1 /\ started \in Nat
  <2>1. started \in Nat
    BY <1>1, Consts DEF ControlTypeOK
  <2>. QED
    BY <1>1, <1>2, <1>4, <2>1, StartRunInv
<1>6. /\ for'[started'] = tracked /\ \A r \in Runs \ {started'} : for'[r] = for[r]
      /\ for' \in [Runs -> {NoPress} \cup Presses]
  BY <1>1, <1>2, <1>5 DEF PolicyType
<1>7. PolicyType'
  <2>1. run' \in 0 .. MaxRuns /\ run' # 0
    BY <1>2, <1>5, Consts
  <2>. QED
    BY <1>1, <1>2, <1>6, <2>1 DEF PolicyType
<1>8. KeyType' /\ HeldType' /\ QueueInv' /\ FlagType'
  BY <1>1, <1>2, <1>3, KeysStay, FlagsStay DEF PressInv
<1>9. CountType'
  BY <1>1, <1>2 DEF CountType
<1>10. Pending /\ ~Live /\ ~Live' /\ ~Pending'
  BY <1>1, <1>2, <1>3 DEF Pending, PressInv, LiveInv, Live
<1>11. tracked # NoPress /\ Fits(tracked, action)
  BY <1>1, <1>10 DEF PressInv, PendingInv
<1>12. arg'[started'] = action /\ \A r \in Runs \ {started'} : arg'[r] = arg[r]
  BY <1>1, <1>2, <1>5 DEF StartRun, ControlTypeOK
<1>13. \A r \in Runs : for[r] # NoPress => for[r] # tracked /\ for[r] <= tracked /\ r <= started
  BY <1>1, <1>10 DEF PressInv, ForInv
<1>14. tracked \in Nat
  BY <1>1, Consts DEF PolicyType
<1>15. ASSUME NEW r \in Runs PROVE ForInv(r)'
  <2>1. CASE r = started'
    <3>1. for'[r] = tracked /\ arg'[r] = action /\ r <= started'
      BY <1>5, <1>6, <1>12, <2>1, Consts
    <3>2. Fits(for[r], arg[r])'
      BY <1>2, <1>3, <1>11, <3>1 DEF Fits, Short
    <3>. QED
      BY <1>2, <1>10, <1>14, <3>1, <3>2 DEF ForInv
  <2>2. CASE r # started'
    <3>1. for'[r] = for[r] /\ arg'[r] = arg[r]
      BY <1>6, <1>12, <2>2
    <3>2. Fits(for[r], arg[r]) => Fits(for[r], arg[r])'
      BY <1>2, <1>3, <3>1 DEF Fits, Short
    <3>3. for[r] # NoPress => r <= started'
      BY <1>5, <1>13, Consts
    <3>. QED
      BY <1>1, <1>2, <1>10, <3>1, <3>2, <3>3 DEF PressInv, ForInv
  <2>. QED
    BY <2>1, <2>2
<1>16. UniqueInv'
  BY <1>1, <1>6, <1>13 DEF PressInv, UniqueInv
<1>17. PendingInv' /\ LiveInv' /\ TrackInv'
  BY <1>1, <1>2, <1>10 DEF PendingInv, LiveInv, PressInv, TrackInv
<1>. QED
  BY <1>5, <1>7, <1>8, <1>9, <1>15, <1>16, <1>17, TypeJoin DEF IInv, PressInv

----------------------------------------------------------------------------
(* The device *)

LEMMA QueueFacts ==
  ASSUME TypeOK, queue # <<>>
  PROVE  /\ Len(queue) \in Nat /\ Len(queue) # 0
         /\ Head(queue) = queue[1] /\ Tail(queue) \in Seq(Events)
         /\ \A i \in 1 .. Len(queue) : queue[i] \in Events /\ queue[i].press \in Presses
         /\ Len(Tail(queue)) = Len(queue) - 1
         /\ \A i \in 1 .. Len(queue) - 1 : Tail(queue)[i] = queue[i + 1]
         /\ Tail(queue) = <<>> => Len(queue) = 1
         /\ Tail(queue) # <<>> => Len(queue) > 1
<1>1. queue \in Seq(Events)
  BY TypeSplit DEF KeyType
<1>2. Len(queue) \in Nat /\ Len(queue) # 0
  BY <1>1, EmptySeq
<1>3. /\ Tail(queue) \in Seq(Events) /\ Len(Tail(queue)) = Len(queue) - 1
      /\ \A i \in 1 .. Len(Tail(queue)) : Tail(queue)[i] = queue[i + 1]
  BY <1>1, HeadTailProperties
<1>4. \A i \in 1 .. Len(queue) : queue[i] \in Events
  BY <1>1, ElementOfSeq
<1>5. Head(queue) = queue[1]
  BY <1>1, <1>2
<1>6. Tail(queue) # <<>> => Len(Tail(queue)) # 0
  BY <1>3, EmptySeq
<1>7. Tail(queue) = <<>> => Len(Tail(queue)) = 0
  BY EmptySeq
<1>8. \A i \in 1 .. Len(queue) : queue[i].press \in Presses
  BY <1>4 DEF Events
<1>9. /\ Tail(queue) = <<>> => Len(queue) = 1
      /\ Tail(queue) # <<>> => Len(queue) > 1
  BY <1>2, <1>3, <1>6, <1>7
<1>. QED
  BY <1>2, <1>3, <1>4, <1>5, <1>8, <1>9

LEMMA TailInv ==
  ASSUME TypeOK, QueueInv, queue # <<>>, queue' = Tail(queue), UNCHANGED <<presses, held>>,
         \A i \in 2 .. Len(queue) : queue[i].value = 1 => queue[i].press > tracked'
  PROVE  QueueInv'
<1>. DEFINE n == Len(queue)
<1>1. n \in Nat /\ n # 0 /\ Len(queue') = n - 1 /\ \A i \in 1 .. n - 1 : queue'[i] = queue[i + 1]
  BY QueueFacts
<1>2. queue' # <<>> => n > 1
  BY QueueFacts
<1>. HIDE DEF n
<1>3. \A i \in 1 .. n : EventInv(queue[i])
  BY DEF QueueInv, n
<1>4. \A i, j \in 1 .. n :
         i < j /\ queue[i].value = 1 /\ queue[j].value = 1 => queue[i].press < queue[j].press
  BY DEF QueueInv, n
<1>5. \A i \in 1 .. n - 1 : Follows(queue[i], queue[i + 1])
  BY DEF QueueInv, n
<1>6. queue[n].value # 0 => held /\ queue[n].press = presses
  BY DEF QueueInv, n
<1>7. \A i \in 1 .. n - 1 : EventInv(queue[i])'
  <2>1. ASSUME NEW i \in 1 .. n - 1 PROVE EventInv(queue[i])'
    <3>1. EventInv(queue[i + 1]) /\ queue'[i] = queue[i + 1]
      BY <1>1, <1>3
    <3>2. queue[i + 1].value = 1 => queue[i + 1].press > tracked'
      BY <1>1 DEF n
    <3>. QED
      BY <3>1, <3>2 DEF EventInv
  <2>. QED
    BY <2>1
<1>8. ASSUME NEW i \in 1 .. n - 1, NEW j \in 1 .. n - 1,
             i < j, queue'[i].value = 1, queue'[j].value = 1
      PROVE  queue'[i].press < queue'[j].press
  <2>1. i + 1 \in 1 .. n /\ j + 1 \in 1 .. n /\ i + 1 < j + 1
    BY <1>1, <1>8
  <2>. QED
    BY <1>1, <1>4, <1>8, <2>1
<1>9. ASSUME NEW i \in 1 .. n - 2 PROVE Follows(queue[i], queue[i + 1])'
  <2>1. i \in 1 .. n - 1 /\ i + 1 \in 1 .. n - 1
    BY <1>1
  <2>2. queue'[i] = queue[i + 1] /\ queue'[i + 1] = queue[(i + 1) + 1]
    BY <1>1, <2>1
  <2>. QED
    BY <1>5, <2>1, <2>2 DEF Follows
<1>10. queue' # <<>> => queue'[n - 1] = queue[n]
  <2>1. queue' # <<>> => n - 1 \in 1 .. n - 1 /\ (n - 1) + 1 = n
    BY <1>1, <1>2
  <2>. QED
    BY <1>1, <2>1
<1>11. Len(queue') - 1 = n - 2
  BY <1>1
<1>. QED
  BY <1>1, <1>6, <1>7, <1>8, <1>9, <1>10, <1>11 DEF QueueInv

(* The tail of the queue, when the press of its head goes on being the one  *)
(* that is tracked.                                                         *)
LEMMA TailLive ==
  ASSUME TypeOK, QueueInv, queue # <<>>, queue' = Tail(queue), UNCHANGED <<presses, held>>,
         queue[1].value # 0
  PROVE  /\ queue' = <<>> => held' /\ presses' = queue[1].press
         /\ queue' # <<>> => queue'[1].press = queue[1].press /\ queue'[1].value # 1
<1>1. /\ Len(queue) \in Nat /\ \A i \in 1 .. Len(queue) - 1 : queue'[i] = queue[i + 1]
      /\ queue' = <<>> => Len(queue) = 1
      /\ queue' # <<>> => Len(queue) > 1
  BY QueueFacts
<1>2. CASE queue' = <<>>
  <2>1. held /\ queue[1].press = presses
    BY <1>1, <1>2 DEF QueueInv
  <2>. QED
    BY <1>2, <2>1
<1>3. CASE queue' # <<>>
  <2>1. 1 \in 1 .. Len(queue) - 1 /\ 1 + 1 = 2
    BY <1>1, <1>3
  <2>2. Follows(queue[1], queue[2]) /\ queue'[1] = queue[2]
    BY <1>1, <2>1 DEF QueueInv
  <2>. QED
    BY <1>3, <2>2 DEF Follows
<1>. QED
  BY <1>2, <1>3

(* What Read leaves alone, and the event it takes. *)
LEMMA ReadFacts ==
  ASSUME IInv, NEW v, Read(v)
  PROVE  /\ kpc = "select" /\ queue # <<>> /\ queue' = Tail(queue) /\ Head(queue) = queue[1]
         /\ queue[1].value = v /\ queue[1].press \in Presses /\ EventInv(queue[1])
         /\ ControlTypeOK' /\ ControlInv' /\ KeyType' /\ CountType' /\ HeldType'
         /\ UNCHANGED <<presses, length, run, for, arg, started>> /\ UNCHANGED held
         /\ held' \in BOOLEAN /\ ~Pending
<1>1. TypeOK /\ ControlInv /\ PressInv /\ ControlTypeOK /\ KeyType /\ CountType /\ FlagType /\ HeldType
  BY TypeSplit DEF IInv
<1>2. /\ kpc = "select" /\ queue # <<>> /\ queue' = Tail(queue) /\ Head(queue).value = v
      /\ UNCHANGED <<started, arg, spc, call, inbox, did, presses, length, run, for, others, crashes>>
  BY DEF Read, controlVars
<1>3. UNCHANGED held /\ UNCHANGED tmp
  BY DEF Read, controlVars
<1>4. ControlTypeOK'
  <2>1. tmp' \in BOOLEAN
    BY <1>1, <1>3 DEF ControlTypeOK
  <2>. QED
    BY <1>1, <1>2, <2>1 DEF ControlTypeOK
<1>5. ControlInv'
  BY <1>1, <1>2, OwnQuestion
<1>6. KeyType'
  <2>1. Tail(queue) \in Seq(Events)
    BY <1>1, <1>2, QueueFacts
  <2>. QED
    BY <1>1, <1>2, <2>1 DEF KeyType
<1>7. CountType'
  BY <1>1, <1>2 DEF CountType
<1>8. HeldType' /\ held' \in BOOLEAN
  BY <1>1, <1>2, <1>3 DEF HeldType, FlagType
<1>9. Head(queue) = queue[1] /\ queue[1].press \in Presses /\ EventInv(queue[1])
  <2>1. Len(queue) \in Nat /\ Len(queue) # 0
    BY <1>1, <1>2, QueueFacts
  <2>2. 1 \in 1 .. Len(queue)
    BY <2>1
  <2>. QED
    BY <1>1, <1>2, <2>2, QueueFacts DEF PressInv, QueueInv
<1>10. ~Pending
  BY <1>2 DEF Pending
<1>. QED
  BY <1>2, <1>3, <1>4, <1>5, <1>6, <1>7, <1>8, <1>9, <1>10

(* The events behind the head, while the same press is tracked. *)
LEMMA LaterDowns ==
  ASSUME TypeOK, QueueInv, queue # <<>>
  PROVE  /\ \A i \in 2 .. Len(queue) : queue[i].value = 1 => queue[i].press > tracked
         /\ queue[1].value = 1 =>
              \A i \in 2 .. Len(queue) : queue[i].value = 1 => queue[i].press > queue[1].press
<1>1. Len(queue) \in Nat /\ Len(queue) # 0 /\ \A i \in 1 .. Len(queue) : queue[i].press \in Presses
  BY QueueFacts
<1>2. \A i \in 2 .. Len(queue) : i \in 1 .. Len(queue) /\ 1 \in 1 .. Len(queue) /\ 1 < i
  BY <1>1
<1>3. \A i \in 2 .. Len(queue) : queue[i].value = 1 => queue[i].press > tracked
  BY <1>2 DEF QueueInv, EventInv
<1>4. ASSUME queue[1].value = 1, NEW i \in 2 .. Len(queue), queue[i].value = 1
      PROVE  queue[i].press > queue[1].press
  <2>1. queue[1].press < queue[i].press
    BY <1>2, <1>4 DEF QueueInv
  <2>2. queue[1].press \in Nat /\ queue[i].press \in Nat
    BY <1>1, <1>2, Consts
  <2>. QED
    BY <2>1, <2>2
<1>. QED
  BY <1>3, <1>4

----------------------------------------------------------------------------
(* main *)

LEMMA ReadDownInv ==
  ASSUME IInv, ReadDown
  PROVE  IInv'
<1>. DEFINE p == queue[1].press
<1>1. TypeOK /\ PressInv /\ PolicyType
  BY TypeSplit DEF IInv
<1>2. Read(1) /\ elapsed' = 0 /\ long_action_sent' = FALSE /\ tracked' = Head(queue).press
      /\ ontime' = (IF length[tracked'] = 0 THEN ontime \cup {tracked'} ELSE ontime)
      /\ UNCHANGED <<kpc, action>>
  BY DEF ReadDown
<1>3. /\ kpc = "select" /\ queue # <<>> /\ queue' = Tail(queue)
      /\ queue[1].value = 1 /\ p \in Presses /\ EventInv(queue[1])
      /\ ControlTypeOK' /\ ControlInv' /\ KeyType' /\ CountType' /\ HeldType'
      /\ UNCHANGED <<presses, length, run, for, arg, started>>
      /\ tracked' = p
  BY <1>2, ReadFacts
<1>4. UNCHANGED held /\ held' \in BOOLEAN
  BY <1>2, ReadFacts
<1>5. p > tracked /\ p <= presses /\ tracked \in Nat /\ p \in Nat /\ p # NoPress
  BY <1>1, <1>3, Consts DEF EventInv, PolicyType
<1>. HIDE DEF p
<1>6. PolicyType'
  <2>1. 0 \in 0 .. NoTime
    BY Consts
  <2>2. ontime' \subseteq Presses
    BY <1>1, <1>2, <1>3 DEF PolicyType
  <2>. QED
    BY <1>1, <1>2, <1>3, <2>1, <2>2 DEF PolicyType
<1>7. FlagType'
  BY <1>2, <1>4 DEF FlagType
<1>8. ~Pending'
  BY <1>2, <1>3 DEF Pending
<1>9. \A q \in ontime : q <= tracked
  BY <1>1 DEF PressInv, TrackInv
<1>10. \A q \in ontime' : q \in ontime \/ (q = p /\ length[p] = 0)
  BY <1>2, <1>3
<1>11. ASSUME NEW r \in Runs PROVE ForInv(r)'
  <2>. SUFFICES ASSUME for[r] # NoPress PROVE ForInv(r)'
    BY <1>3 DEF ForInv
  <2>1. ForInv(r) /\ for[r] <= tracked /\ for[r] \in Nat
    BY <1>1, Consts DEF PressInv, ForInv, PolicyType
  <2>2. for[r] # p /\ for[r] <= p
    BY <1>5, <2>1
  <2>3. for[r] \in ontime' => for[r] \in ontime
    BY <1>10, <2>2
  <2>4. Fits(for[r], arg[r]) => Fits(for[r], arg[r])'
    BY <1>3, <1>4, <2>3 DEF Fits, Short
  <2>. QED
    BY <1>3, <2>1, <2>2, <2>4 DEF ForInv
<1>12. UniqueInv' /\ PendingInv'
  BY <1>1, <1>3, <1>8 DEF PressInv, UniqueInv, PendingInv
<1>13. LiveInv'
  <2>1. /\ queue' = <<>> => held' /\ presses' = p
        /\ queue' # <<>> => queue'[1].press = p /\ queue'[1].value # 1
    BY <1>1, <1>3, <1>4, TailLive DEF PressInv, p
  <2>2. length[p] \in 0 .. LongPress
    BY <1>3, TypeSplit, <1>1 DEF KeyType
  <2>3. p \notin ontime
    BY <1>5, <1>9
  <2>4. elapsed' <= length'[p] /\ (p \in ontime' => elapsed' = length'[p])
    BY <1>2, <1>3, <1>10, <2>2, <2>3, Consts
  <2>. QED
    BY <1>2, <1>3, <1>5, <2>1, <2>4 DEF LiveInv
<1>14. TrackInv'
  <2>1. \A q \in ontime' : q <= p
    <3>1. ASSUME NEW q \in ontime' PROVE q <= p
      <4>1. q \in Nat
        BY <1>6, Consts DEF PolicyType
      <4>. QED
        BY <1>5, <1>9, <1>10, <4>1
    <3>. QED
      BY <3>1
  <2>. QED
    BY <1>3, <1>5, <2>1 DEF TrackInv
<1>15. QueueInv'
  <2>1. \A i \in 2 .. Len(queue) : queue[i].value = 1 => queue[i].press > p
    BY <1>1, <1>3, LaterDowns DEF PressInv, p
  <2>. QED
    BY <1>1, <1>3, <1>4, <2>1, TailInv DEF PressInv
<1>. QED
  BY <1>3, <1>6, <1>7, <1>11, <1>12, <1>13, <1>14, <1>15, TypeJoin DEF IInv, PressInv

LEMMA ReadRepeatInv ==
  ASSUME IInv, ReadRepeat
  PROVE  IInv'
<1>1. TypeOK /\ PressInv /\ PolicyType /\ FlagType
  BY TypeSplit DEF IInv
<1>2. Read(2) /\ UNCHANGED <<elapsed, tracked, ontime>>
  BY DEF ReadRepeat
<1>3. /\ kpc = "select" /\ queue # <<>> /\ queue' = Tail(queue) /\ queue[1].value = 2
      /\ ControlTypeOK' /\ ControlInv' /\ KeyType' /\ CountType' /\ HeldType'
      /\ UNCHANGED <<presses, length, run, for, arg, started>> /\ ~Pending
  BY <1>2, ReadFacts
<1>4. UNCHANGED held /\ held' \in BOOLEAN
  BY <1>2, ReadFacts
<1>5. QueueInv'
  <2>1. \A i \in 2 .. Len(queue) : queue[i].value = 1 => queue[i].press > tracked'
    BY <1>1, <1>2, <1>3, LaterDowns DEF PressInv
  <2>. QED
    BY <1>1, <1>3, <1>4, <2>1, TailInv DEF PressInv
<1>6. CASE elapsed = LongPress /\ ~long_action_sent
  <2>1. long_action_sent' = TRUE /\ run_control("close-active")
    BY <1>6 DEF ReadRepeat
  <2>2. Live /\ ~Live'
    BY <1>6, <2>1, Consts DEF Live
  <2>3. PolicyType'
    BY <1>1, <1>2, <1>3, <2>1 DEF PolicyType, run_control, Actions
  <2>4. FlagType'
    BY <1>4, <2>1 DEF FlagType
  <2>5. PressInv'
    BY <1>1, <1>2, <1>3, <1>4, <1>5, <1>6, <2>1, <2>2, LongFits, CallKeeps DEF Actions
  <2>. QED
    BY <1>3, <2>3, <2>4, <2>5, TypeJoin DEF IInv
<1>7. CASE ~(elapsed = LongPress /\ ~long_action_sent)
  <2>1. UNCHANGED <<kpc, action>>
    BY <1>7 DEF ReadRepeat
  <2>2. UNCHANGED long_action_sent
    BY <1>7 DEF ReadRepeat
  <2>3. PolicyType'
    BY <1>1, <1>2, <1>3, <2>1 DEF PolicyType
  <2>4. FlagType'
    BY <1>1, <1>4, <2>2 DEF FlagType
  <2>5. (Live' <=> Live) /\ (Pending' <=> Pending)
    BY <1>2, <2>1, <2>2 DEF Live, Pending
  <2>6. LiveInv'
    <3>. SUFFICES ASSUME Live PROVE LiveInv'
      BY <2>5 DEF LiveInv
    <3>1. LiveInv /\ queue[1].press = tracked
      BY <1>1, <1>3 DEF PressInv, LiveInv
    <3>2. /\ queue' = <<>> => held' /\ presses' = tracked
          /\ queue' # <<>> => queue'[1].press = tracked /\ queue'[1].value # 1
      BY <1>1, <1>3, <1>4, <3>1, TailLive DEF PressInv
    <3>. QED
      BY <1>2, <1>3, <2>1, <3>1, <3>2 DEF LiveInv
  <2>7. PendingInv'
    BY <1>3, <2>5 DEF PendingInv
  <2>8. \A r \in Runs : for[r] # NoPress /\ for[r] = tracked => ~Live' /\ ~Pending'
    BY <1>1, <2>5 DEF PressInv, ForInv
  <2>9. PressInv'
    BY <1>1, <1>2, <1>3, <1>4, <1>5, <2>6, <2>7, <2>8, MoveKeeps
  <2>. QED
    BY <1>3, <2>3, <2>4, <2>9, TypeJoin DEF IInv
<1>. QED
  BY <1>6, <1>7

LEMMA ReadUpInv ==
  ASSUME IInv, ReadUp
  PROVE  IInv'
<1>1. TypeOK /\ PressInv /\ PolicyType /\ FlagType /\ KeyType
  BY TypeSplit DEF IInv
<1>2. Read(0) /\ UNCHANGED <<tracked, ontime>>
  BY DEF ReadUp
<1>3. /\ kpc = "select" /\ queue # <<>> /\ queue' = Tail(queue) /\ queue[1].value = 0
      /\ EventInv(queue[1])
      /\ ControlTypeOK' /\ ControlInv' /\ KeyType' /\ CountType' /\ HeldType'
      /\ UNCHANGED <<presses, length, run, for, arg, started>> /\ ~Pending
  BY <1>2, ReadFacts
<1>4. UNCHANGED held /\ held' \in BOOLEAN
  BY <1>2, ReadFacts
<1>5. QueueInv'
  <2>1. \A i \in 2 .. Len(queue) : queue[i].value = 1 => queue[i].press > tracked'
    BY <1>1, <1>2, <1>3, LaterDowns DEF PressInv
  <2>. QED
    BY <1>1, <1>3, <1>4, <2>1, TailInv DEF PressInv
<1>6. elapsed' = NoTime /\ ~Live'
  BY DEF ReadUp, Live
<1>7. NoTime \in 0 .. NoTime
  BY Consts
<1>8. CASE elapsed # NoTime /\ ~long_action_sent
  <2>. DEFINE a == IF elapsed = LongPress THEN "close-active" ELSE "minimize-active"
  <2>1. long_action_sent' = FALSE /\ run_control(a) /\ a \in Actions
    BY <1>8 DEF ReadUp, Actions
  <2>2. Live
    BY <1>8 DEF Live
  <2>. HIDE DEF a
  <2>3. PolicyType'
    BY <1>1, <1>2, <1>3, <1>6, <1>7, <2>1 DEF PolicyType, run_control
  <2>4. FlagType'
    BY <1>4, <2>1 DEF FlagType
  <2>5. Fits(tracked, a)
    <3>1. CASE elapsed = LongPress
      BY <1>1, <2>2, <3>1, LongFits DEF a
    <3>2. CASE elapsed # LongPress
      <4>1. a = "minimize-active"
        BY <3>2 DEF a
      <4>2. tracked \in ontime => elapsed = length[tracked]
        BY <1>1, <2>2 DEF PressInv, LiveInv
      <4>3. elapsed < LongPress
        BY <1>1, <1>8, <3>2, Consts DEF PolicyType
      <4>4. queue[1].press = tracked
        BY <1>1, <1>3, <2>2 DEF PressInv, LiveInv
      <4>5. ~(held /\ presses = tracked)
        BY <1>3, <4>4 DEF EventInv
      <4>. QED
        BY <4>1, <4>2, <4>3, <4>5 DEF Fits, Short
    <3>. QED
      BY <3>1, <3>2
  <2>6. PressInv'
    BY <1>1, <1>2, <1>3, <1>4, <1>5, <1>6, <2>1, <2>2, <2>5, CallKeeps
  <2>. QED
    BY <1>3, <2>3, <2>4, <2>6, TypeJoin DEF IInv
<1>9. CASE ~(elapsed # NoTime /\ ~long_action_sent)
  <2>1. UNCHANGED <<kpc, action>>
    BY <1>9 DEF ReadUp
  <2>2. long_action_sent' \in BOOLEAN
    BY <1>1, <1>9 DEF ReadUp, FlagType
  <2>3. PolicyType'
    BY <1>1, <1>2, <1>3, <1>6, <1>7, <2>1 DEF PolicyType
  <2>4. FlagType'
    BY <1>4, <2>2 DEF FlagType
  <2>5. ~Pending'
    BY <1>3, <2>1 DEF Pending
  <2>6. PendingInv' /\ LiveInv'
    BY <1>6, <2>5 DEF PendingInv, LiveInv
  <2>7. PressInv'
    BY <1>1, <1>2, <1>3, <1>4, <1>5, <1>6, <2>5, <2>6, MoveKeeps
  <2>. QED
    BY <1>3, <2>3, <2>4, <2>7, TypeJoin DEF IInv
<1>. QED
  BY <1>8, <1>9

(* Nothing happens to the scripts, nor to what is counted. *)
LEMMA ControlStays ==
  ASSUME IInv, UNCHANGED <<controlVars, others, crashes>>
  PROVE  ControlTypeOK' /\ ControlInv' /\ CountType' /\ UNCHANGED <<arg, started>>
<1>1. ControlTypeOK /\ ControlInv /\ CountType
  BY TypeSplit DEF IInv
<1>2. UNCHANGED <<started, arg, spc, call, inbox, did, others, crashes>> /\ UNCHANGED tmp
  BY DEF controlVars
<1>3. tmp' \in BOOLEAN
  BY <1>1, <1>2 DEF ControlTypeOK
<1>4. ControlTypeOK'
  BY <1>1, <1>2, <1>3 DEF ControlTypeOK
<1>5. ControlInv'
  BY <1>1, <1>2, OwnQuestion
<1>. QED
  BY <1>1, <1>2, <1>4, <1>5 DEF CountType

LEMMA SelectTimeoutInv ==
  ASSUME IInv, SelectTimeout
  PROVE  IInv'
<1>1. TypeOK /\ PressInv /\ PolicyType /\ FlagType
  BY TypeSplit DEF IInv
<1>2. /\ kpc = "select" /\ elapsed = LongPress /\ run_control("close-active")
      /\ UNCHANGED <<elapsed, tracked, run, for, ontime, queue, presses, length>>
  BY DEF SelectTimeout, Due, keyVars
<1>3. ~long_action_sent /\ long_action_sent' = TRUE /\ UNCHANGED held
  BY DEF SelectTimeout, Due, keyVars
<1>4. ControlTypeOK' /\ ControlInv' /\ CountType' /\ UNCHANGED <<arg, started>>
  BY ControlStays DEF SelectTimeout
<1>5. Live /\ ~Live'
  BY <1>2, <1>3, Consts DEF Live
<1>6. PolicyType'
  BY <1>1, <1>2 DEF PolicyType, run_control, Actions
<1>7. FlagType'
  BY <1>1, <1>3 DEF FlagType
<1>8. KeyType' /\ HeldType' /\ QueueInv'
  BY <1>1, <1>2, <1>3, KeysStay DEF PressInv
<1>9. PressInv'
  BY <1>1, <1>2, <1>3, <1>4, <1>5, <1>8, LongFits, CallKeeps DEF Actions
<1>. QED
  BY <1>4, <1>6, <1>7, <1>8, <1>9, TypeJoin DEF IInv

LEMMA RunControlInv ==
  ASSUME IInv, zero_session \/ ControlEnds
  PROVE  IInv'
<1>1. TypeOK /\ PressInv /\ PolicyType
  BY TypeSplit DEF IInv
<1>2. /\ kpc \in {"zero_session", "control"}
      /\ kpc' \in {"select", "shell_is_active", "spawn"}
      /\ kpc = "control" => kpc' = "select"
  BY DEF zero_session, ControlEnds
<1>3. UNCHANGED <<elapsed, long_action_sent, tracked, action, run, for, ontime, keyVars>>
  BY DEF zero_session, ControlEnds
<1>4. ControlTypeOK' /\ ControlInv' /\ CountType' /\ UNCHANGED <<arg, started>>
  BY ControlStays DEF zero_session, ControlEnds
<1>5. Pending' => Pending
  BY <1>2 DEF Pending
<1>6. PressInv' /\ KeyType' /\ FlagType' /\ HeldType'
  BY <1>1, <1>2, <1>3, <1>4, <1>5, BlockedKeeps
<1>7. PolicyType'
  BY <1>1, <1>2, <1>3 DEF PolicyType
<1>. QED
  BY <1>4, <1>6, <1>7, TypeJoin DEF IInv

LEMMA PolicyQuestionInv ==
  ASSUME IInv, AskAgent \/ AskTimeout \/ PolicyAnswered
  PROVE  IInv'
<1>1. TypeOK /\ ControlInv /\ PressInv /\ ControlTypeOK /\ PolicyType /\ CountType
  BY TypeSplit DEF IInv
<1>2. Policy \in Callers /\ Policy \notin Runs
  BY Consts
<1>3. UNCHANGED <<started, arg, spc, did, others, crashes>> /\ UNCHANGED tmp
  BY DEF AskAgent, AskTimeout, PolicyAnswered
<1>4. PICK a \in {"idle", "sent", "error"} :
        /\ call' = [call EXCEPT ![Policy] = a]
        /\ \/ inbox' \subseteq inbox
           \/ inbox' = inbox \cup {[from |-> Policy, verb |-> "active-is-shell"]}
  BY DEF AskAgent, AskTimeout, PolicyAnswered, Ask, GiveUp
<1>5. ControlTypeOK'
  <2>1. tmp' \in BOOLEAN
    BY <1>1, <1>3 DEF ControlTypeOK
  <2>2. call' \in [Callers -> {"idle", "sent", "ok", "error"}]
    BY <1>1, <1>4 DEF ControlTypeOK
  <2>3. inbox' \in SUBSET [from : Callers, verb : Verbs]
    BY <1>1, <1>2, <1>4 DEF ControlTypeOK, Verbs
  <2>. QED
    BY <1>1, <1>3, <2>1, <2>2, <2>3 DEF ControlTypeOK
<1>6. ControlInv'
  <2>1. \A r \in Runs : call'[r] = call[r]
    BY <1>1, <1>2, <1>4 DEF ControlTypeOK, Callers
  <2>2. \A l \in inbox' : l \in inbox \/ l.from \notin Runs
    BY <1>2, <1>4
  <2>. QED
    BY <1>1, <1>3, <2>1, <2>2, OwnQuestion
<1>7. CountType'
  BY <1>1, <1>3 DEF CountType
<1>8. CASE AskAgent \/ AskTimeout
  <2>1. UNCHANGED <<policyVars, keyVars>>
    BY <1>8 DEF AskAgent, AskTimeout
  <2>2. started' \in Nat /\ started' >= started
    BY <1>1, <1>3, Consts DEF ControlTypeOK
  <2>3. PressInv' /\ PolicyType' /\ KeyType' /\ FlagType' /\ HeldType'
    BY <1>1, <1>3, <2>1, <2>2, PressStays
  <2>. QED
    BY <1>5, <1>6, <1>7, <2>3, TypeJoin DEF IInv
<1>9. CASE PolicyAnswered
  <2>1. kpc = "shell_is_active" /\ kpc' \in {"select", "spawn"}
        /\ UNCHANGED <<elapsed, long_action_sent, tracked, action, run, for, ontime, keyVars>>
    BY <1>9 DEF PolicyAnswered
  <2>2. Pending' => Pending
    BY <2>1 DEF Pending
  <2>3. PressInv' /\ KeyType' /\ FlagType' /\ HeldType'
    BY <1>1, <1>3, <2>1, <2>2, BlockedKeeps
  <2>4. PolicyType'
    BY <1>1, <2>1 DEF PolicyType
  <2>. QED
    BY <1>5, <1>6, <1>7, <2>3, <2>4, TypeJoin DEF IInv
<1>. QED
  BY <1>8, <1>9

LEMMA PolicyRestartsInv ==
  ASSUME IInv, PolicyRestarts
  PROVE  IInv'
<1>1. TypeOK /\ PressInv /\ PolicyType /\ KeyType /\ FlagType /\ HeldType /\ CountType
  BY TypeSplit DEF IInv
<1>2. ControlTypeOK' /\ ControlInv'
  BY RestartControlInv
<1>3. /\ kpc' = "select" /\ elapsed' = NoTime /\ queue' = <<>>
      /\ UNCHANGED <<started, arg, tracked, action, run, for, ontime, presses, length, others>>
  BY DEF PolicyRestarts
<1>4. long_action_sent' = FALSE /\ UNCHANGED held
  BY DEF PolicyRestarts
<1>5. ~Live' /\ ~Pending'
  BY <1>3 DEF Live, Pending
<1>6. PolicyType'
  <2>1. NoTime \in 0 .. NoTime
    BY Consts
  <2>. QED
    BY <1>1, <1>3, <2>1 DEF PolicyType
<1>7. KeyType'
  BY <1>1, <1>3 DEF KeyType
<1>8. FlagType' /\ HeldType'
  BY <1>1, <1>3, <1>4 DEF FlagType, HeldType
<1>9. CountType'
  <2>1. crashes' = crashes + 1 /\ crashes < MaxCrashes
    BY DEF PolicyRestarts
  <2>. QED
    BY <1>1, <1>3, <2>1, Consts DEF CountType
<1>10. QueueInv'
  <2>1. Len(queue') = 0
    BY <1>3
  <2>. QED
    BY <1>3, <2>1 DEF QueueInv
<1>11. PendingInv' /\ LiveInv'
  BY <1>5 DEF PendingInv, LiveInv
<1>12. PressInv'
  BY <1>1, <1>3, <1>4, <1>5, <1>10, <1>11, MoveKeeps
<1>. QED
  BY <1>2, <1>6, <1>7, <1>8, <1>9, <1>12, TypeJoin DEF IInv

----------------------------------------------------------------------------
(* The person and the clock *)

(* While a press is measured and the thread has read what there was, the    *)
(* queue is empty and the key is down.                                      *)
LEMMA ServedLive ==
  ASSUME PressInv, Served, Live
  PROVE  queue = <<>> /\ held /\ presses = tracked /\ (Prompt => ~Due)
  BY DEF PressInv, LiveInv, Served, Prompt, Blocked

(* An event reaches the queue: behind what is there, or in place of it. *)
LEMMA EventQueue ==
  ASSUME IInv, NEW v \in 0 .. 2, NEW p \in Presses, Event(v, p),
         UNCHANGED tracked,
         presses \in Nat, presses' \in Nat, p = presses', presses <= presses',
         v = 1 => p > tracked,
         v = 0 => ~held',
         v # 0 => held',
         v # 1 => held /\ presses' = presses,
         v = 1 => ~held,
         held' => held \/ presses' > presses
  PROVE  queue' \in Seq(Events) /\ queue' # <<>> /\ QueueInv'
         /\ (queue = <<>> => queue'[1].press = p /\ queue'[1].value = v)
<1>. DEFINE e == [value |-> v, press |-> p]
            n == Len(queue)
<1>1. TypeOK /\ QueueInv /\ queue \in Seq(Events) /\ n \in Nat /\ e \in Events
  BY TypeSplit, LenProperties DEF IInv, PressInv, KeyType, Events
<1>2. e.value = v /\ e.press = p
  OBVIOUS
<1>3. queue' = Append(queue, e) \/ queue' = <<e>>
  BY DEF Event
<1>4. queue = <<>> => queue' = Append(queue, e)
  BY Consts DEF Event
<1>. HIDE DEF e
<1>5. EventInv(e)'
  BY <1>2 DEF EventInv, e
<1>6. /\ Append(queue, e) \in Seq(Events) /\ Append(queue, e) # <<>>
      /\ Len(Append(queue, e)) = n + 1
      /\ \A i \in 1 .. n : Append(queue, e)[i] = queue[i]
      /\ Append(queue, e)[n + 1] = e
  BY <1>1, AppendProperties
<1>7. \A i \in 1 .. n : queue[i].press \in Nat /\ EventInv(queue[i])
  <2>1. \A i \in 1 .. n : queue[i] \in Events
    BY <1>1, ElementOfSeq
  <2>2. \A i \in 1 .. n : queue[i].press \in Nat
    BY <2>1, Consts DEF Events
  <2>. QED
    BY <1>1, <2>2 DEF QueueInv
<1>. HIDE DEF n
<1>8. CASE queue' = Append(queue, e)
  <2>1. /\ queue' \in Seq(Events) /\ queue' # <<>> /\ Len(queue') = n + 1
        /\ \A i \in 1 .. n : queue'[i] = queue[i]
        /\ queue'[n + 1] = e
    BY <1>6, <1>8
  <2>2. \A i \in 1 .. n + 1 : i \in 1 .. n \/ i = n + 1
    BY <1>1
  <2>3. ASSUME NEW i \in 1 .. n PROVE EventInv(queue[i])'
    <3>1. queue'[i] = queue[i] /\ EventInv(queue[i]) /\ queue[i].press \in Nat
      BY <1>7, <2>1
    <3>2. queue[i].press <= presses'
      BY <3>1 DEF EventInv
    <3>3. queue[i].value = 0 => ~(held' /\ presses' = queue[i].press)
      BY <3>1 DEF EventInv
    <3>. QED
      BY <3>1, <3>2, <3>3 DEF EventInv
  <2>4. ASSUME NEW i, i = n + 1 PROVE EventInv(queue[i])'
    <3>1. queue'[i] = e
      BY <2>1, <2>4
    <3>. QED
      BY <1>5, <3>1 DEF EventInv
  <2>5. \A i \in 1 .. Len(queue') : EventInv(queue[i])'
    BY <2>1, <2>2, <2>3, <2>4
  <2>6. ASSUME NEW i \in 1 .. n + 1, NEW j \in 1 .. n + 1,
               i < j, queue'[i].value = 1, queue'[j].value = 1
        PROVE  queue'[i].press < queue'[j].press
    <3>1. i \in 1 .. n /\ queue'[i] = queue[i]
      BY <1>1, <2>1, <2>6
    <3>2. CASE j \in 1 .. n
      BY <1>1, <2>1, <2>6, <3>1, <3>2 DEF QueueInv, n
    <3>3. CASE j = n + 1
      <4>1. v = 1 /\ queue'[j].press = p
        BY <1>2, <2>1, <2>6, <3>3
      <4>2. queue[i].press <= presses /\ queue[i].press \in Nat
        BY <1>7, <3>1 DEF EventInv
      <4>3. presses < p
        BY <4>1
      <4>. QED
        BY <3>1, <4>1, <4>2, <4>3
    <3>. QED
      BY <2>2, <3>2, <3>3
  <2>7. n # 0 /\ queue[n].value # 0 => held /\ queue[n].press = presses
    <3>1. n # 0 => queue # <<>>
      BY EmptySeq DEF n
    <3>. QED
      BY <1>1, <3>1 DEF QueueInv, n
  <2>8. ASSUME NEW i \in 1 .. n PROVE Follows(queue[i], queue[i + 1])'
    <3>1. queue'[i] = queue[i]
      BY <2>1
    <3>2. CASE i = n
      <4>1. queue'[i + 1] = e /\ n # 0
        BY <1>1, <2>1, <3>2
      <4>2. queue[n].value # 0 => v # 1 /\ p = queue[n].press
        BY <2>7, <4>1
      <4>. QED
        BY <1>2, <3>1, <3>2, <4>1, <4>2 DEF Follows
    <3>3. CASE i # n
      <4>1. i \in 1 .. n - 1 /\ i + 1 \in 1 .. n
        BY <1>1, <3>3
      <4>. QED
        BY <1>1, <2>1, <3>1, <4>1 DEF QueueInv, Follows, n
    <3>. QED
      BY <3>2, <3>3
  <2>9. queue'[Len(queue')].value # 0 => held' /\ queue'[Len(queue')].press = presses'
    BY <1>2, <2>1
  <2>10. Len(queue') - 1 = n
    BY <1>1, <2>1
  <2>11. QueueInv'
    BY <2>1, <2>5, <2>6, <2>8, <2>9, <2>10 DEF QueueInv
  <2>12. queue = <<>> => queue'[1] = e
    <3>1. queue = <<>> => n = 0
      BY EmptySeq DEF n
    <3>. QED
      BY <2>1, <3>1
  <2>. QED
    BY <1>2, <2>1, <2>11, <2>12
<1>9. CASE queue' = <<e>> /\ queue # <<>>
  <2>1. queue' \in Seq(Events) /\ queue' # <<>> /\ Len(queue') = 1 /\ queue'[1] = e
    BY <1>1, <1>9
  <2>2. \A i \in 1 .. 1 : i = 1
    OBVIOUS
  <2>3. EventInv(queue[1])'
    BY <1>5, <2>1 DEF EventInv
  <2>4. \A i \in 1 .. Len(queue') - 1 : FALSE
    BY <2>1
  <2>5. queue'[1].value # 0 => held' /\ queue'[1].press = presses'
    BY <1>2, <2>1
  <2>6. \A i, j \in 1 .. Len(queue') : ~(i < j)
    BY <2>1
  <2>7. \A i \in 1 .. Len(queue') : EventInv(queue[i])'
    BY <2>1, <2>2, <2>3
  <2>8. QueueInv'
    BY <2>1, <2>4, <2>5, <2>6, <2>7 DEF QueueInv
  <2>. QED
    BY <1>9, <2>1, <2>8
<1>. QED
  BY <1>3, <1>4, <1>8, <1>9

(* KeyDown, KeyRepeat and KeyUp, given what EventQueue asks for. *)
LEMMA KeyStep ==
  ASSUME IInv, Served, NEW v \in 0 .. 2, NEW p \in Presses, Event(v, p),
         UNCHANGED <<controlVars, policyVars, length, others, crashes>>,
         held' \in BOOLEAN, p = presses',
         \/ v = 1 /\ ~held /\ held' /\ presses' = presses + 1
         \/ v = 2 /\ held /\ held' /\ presses' = presses
         \/ v = 0 /\ held /\ ~held' /\ presses' = presses
  PROVE  IInv'
<1>1. TypeOK /\ PressInv /\ PolicyType /\ KeyType /\ FlagType
  BY TypeSplit DEF IInv
<1>2. UNCHANGED <<kpc, elapsed, tracked, action, run, for, ontime>> /\ UNCHANGED long_action_sent
  BY DEF policyVars
<1>3. ControlTypeOK' /\ ControlInv' /\ CountType' /\ UNCHANGED <<arg, started>>
  BY ControlStays
<1>4. presses \in Nat /\ presses' \in Nat /\ p # NoPress /\ tracked \in Nat /\ tracked <= presses
  BY <1>1, Consts DEF KeyType, PolicyType, PressInv, TrackInv
<1>5. /\ presses <= presses' /\ (v = 1 => p > tracked)
      /\ (v = 0 => ~held') /\ (v # 0 => held')
      /\ (held' => held \/ presses' > presses)
  <2>1. CASE v = 1
    BY <1>4, <2>1
  <2>2. CASE v # 1
    BY <1>4, <2>2
  <2>. QED
    BY <2>1, <2>2
<1>6. /\ queue' \in Seq(Events) /\ queue' # <<>> /\ QueueInv'
      /\ queue = <<>> => queue'[1].press = p /\ queue'[1].value = v
  BY <1>2, <1>4, <1>5, EventQueue
<1>7. PolicyType'
  BY <1>1, <1>2 DEF PolicyType
<1>8. KeyType'
  BY <1>1, <1>6 DEF KeyType
<1>9. FlagType' /\ HeldType'
  BY <1>1, <1>2, <1>4 DEF FlagType, HeldType
<1>10. (Live' <=> Live) /\ (Pending' <=> Pending)
  BY <1>2 DEF Live, Pending
<1>11. ASSUME NEW q \in Presses, NEW a, q <= tracked, Fits(q, a) PROVE Fits(q, a)'
  <2>1. held' /\ presses' = q => held /\ presses = q
    <3>1. CASE v = 1
      <4>1. q \in Nat
        BY Consts
      <4>2. presses' # q
        BY <1>4, <1>11, <3>1, <4>1
      <4>. QED
        BY <4>2
    <3>2. CASE v # 1
      BY <3>2
    <3>. QED
      BY <3>1, <3>2
  <2>2. Short(q) => Short(q)'
    BY <2>1 DEF Short
  <2>. QED
    BY <1>2, <1>11, <2>2 DEF Fits
<1>12. ASSUME NEW r \in Runs PROVE ForInv(r)'
  <2>. SUFFICES ASSUME for[r] # NoPress PROVE ForInv(r)'
    BY <1>2 DEF ForInv
  <2>1. ForInv(r) /\ for[r] \in Presses /\ for[r] <= tracked
    BY <1>1 DEF PressInv, ForInv, PolicyType
  <2>2. Fits(for[r], arg[r])
    BY <2>1 DEF ForInv
  <2>3. PICK q \in Presses, a \in {arg[r]} : q = for[r]
    BY <2>1
  <2>4. Fits(q, a)'
    BY <1>11, <2>1, <2>2, <2>3
  <2>5. Fits(for[r], arg[r])'
    BY <1>2, <1>3, <2>3, <2>4 DEF Fits, Short
  <2>. QED
    BY <1>2, <1>3, <1>10, <2>1, <2>5 DEF ForInv
<1>13. UniqueInv' /\ TrackInv'
  BY <1>1, <1>2, <1>4, <1>5 DEF PressInv, UniqueInv, TrackInv
<1>14. PendingInv'
  <2>. SUFFICES ASSUME Pending PROVE PendingInv'
    BY <1>10 DEF PendingInv
  <2>1. tracked \in Presses /\ Fits(tracked, action) /\ tracked # NoPress
    BY <1>1 DEF PressInv, PendingInv, PolicyType
  <2>2. PICK q \in Presses, a \in {action} : q = tracked
    BY <2>1
  <2>3. Fits(q, a)'
    BY <1>4, <1>11, <2>1, <2>2
  <2>4. Fits(tracked, action)'
    BY <1>2, <2>2, <2>3 DEF Fits, Short
  <2>. QED
    BY <1>2, <2>1, <2>4 DEF PendingInv
<1>15. LiveInv'
  <2>. SUFFICES ASSUME Live PROVE LiveInv'
    BY <1>10 DEF LiveInv
  <2>1. queue = <<>> /\ held /\ presses = tracked
    BY <1>1, ServedLive
  <2>2. v # 1 /\ p = tracked
    BY <2>1
  <2>3. queue'[1].press = tracked' /\ queue'[1].value # 1
    BY <1>2, <1>6, <2>1, <2>2
  <2>4. LiveInv /\ UNCHANGED length
    BY <1>1 DEF PressInv
  <2>. QED
    BY <1>2, <1>6, <2>3, <2>4 DEF LiveInv
<1>. QED
  BY <1>3, <1>6, <1>7, <1>8, <1>9, <1>12, <1>13, <1>14, <1>15, TypeJoin DEF IInv, PressInv

LEMMA KeyInv ==
  ASSUME IInv, KeyDown \/ KeyRepeat \/ KeyUp
  PROVE  IInv'
<1>1. KeyType /\ FlagType /\ HeldType /\ CountType
  BY TypeSplit DEF IInv
<1>2. Served /\ UNCHANGED <<controlVars, policyVars, length, others, crashes>>
  BY DEF KeyDown, KeyRepeat, KeyUp
<1>3. {0, 1, 2} \subseteq 0 .. 2
  OBVIOUS
<1>4. CASE KeyDown
  <2>1. presses + others < MaxRuns /\ presses' = presses + 1 /\ Event(1, presses')
    BY <1>4 DEF KeyDown
  <2>2. presses' \in Presses
    BY <1>1, <2>1, Consts DEF KeyType, CountType
  <2>3. ~held /\ held' /\ held' \in BOOLEAN
    BY <1>4 DEF KeyDown
  <2>. QED
    BY <1>2, <1>3, <2>1, <2>2, <2>3, KeyStep
<1>5. CASE KeyRepeat
  <2>1. held /\ presses' = presses /\ Event(2, presses')
    BY <1>5 DEF KeyRepeat
  <2>2. presses' \in Presses
    BY <1>1, <2>1 DEF KeyType, HeldType
  <2>3. held' /\ held' \in BOOLEAN
    BY <1>1, <1>5 DEF KeyRepeat, FlagType
  <2>. QED
    BY <1>2, <1>3, <2>1, <2>2, <2>3, KeyStep
<1>6. CASE KeyUp
  <2>1. held /\ presses' = presses /\ Event(0, presses')
    BY <1>6 DEF KeyUp
  <2>2. presses' \in Presses
    BY <1>1, <2>1 DEF KeyType, HeldType
  <2>3. ~held' /\ held' \in BOOLEAN
    BY <1>6 DEF KeyUp
  <2>. QED
    BY <1>2, <1>3, <2>1, <2>2, <2>3, KeyStep
<1>. QED
  BY <1>4, <1>5, <1>6

LEMMA TickInv ==
  ASSUME IInv, Tick
  PROVE  IInv'
<1>1. TypeOK /\ PressInv /\ PolicyType /\ KeyType /\ FlagType /\ HeldType
  BY TypeSplit DEF IInv
<1>2. /\ Prompt
      /\ UNCHANGED <<kpc, tracked, action, run, for, ontime, queue, presses>>
      /\ elapsed' = IF elapsed < LongPress THEN elapsed + 1 ELSE elapsed
      /\ length' = IF held /\ length[presses] < LongPress
                   THEN [length EXCEPT ![presses] = @ + 1] ELSE length
  BY DEF Tick
<1>3. UNCHANGED held /\ UNCHANGED long_action_sent
  BY DEF Tick
<1>4. ControlTypeOK' /\ ControlInv' /\ CountType' /\ UNCHANGED <<arg, started>>
  BY ControlStays DEF Tick
<1>5. elapsed \in 0 .. NoTime /\ elapsed' \in 0 .. NoTime /\ (elapsed' = NoTime <=> elapsed = NoTime)
  BY <1>1, <1>2, Consts DEF PolicyType
<1>6. PolicyType'
  BY <1>1, <1>2, <1>5 DEF PolicyType
<1>7. FlagType' /\ HeldType'
  BY <1>1, <1>2, <1>3 DEF FlagType, HeldType
<1>8. ASSUME NEW q \in Presses
      PROVE  /\ length[q] \in 0 .. LongPress /\ length'[q] \in 0 .. LongPress
             /\ length[q] = LongPress => length'[q] = LongPress
             /\ ~(held /\ presses = q) => length'[q] = length[q]
             /\ held /\ presses = q =>
                  length'[q] = IF length[q] < LongPress THEN length[q] + 1 ELSE length[q]
  <2>1. length[q] \in 0 .. LongPress /\ length \in [Presses -> 0 .. LongPress]
    BY <1>1 DEF KeyType
  <2>2. CASE held /\ length[presses] < LongPress
    <3>1. length' = [length EXCEPT ![presses] = length[presses] + 1]
      BY <1>2, <2>2
    <3>2. length'[q] = IF presses = q THEN length[q] + 1 ELSE length[q]
      BY <2>1, <3>1
    <3>3. presses = q => length[q] < LongPress
      BY <2>2
    <3>4. length'[q] \in 0 .. LongPress
      BY <2>1, <3>2, <3>3, Consts
    <3>5. length[q] = LongPress => length'[q] = LongPress
      BY <2>1, <3>2, <3>3, Consts
    <3>. QED
      BY <2>1, <2>2, <3>2, <3>3, <3>4, <3>5
  <2>3. CASE ~(held /\ length[presses] < LongPress)
    BY <1>2, <2>1, <2>3
  <2>. QED
    BY <2>2, <2>3
<1>9. KeyType'
  <2>1. length' \in [Presses -> 0 .. LongPress]
    <3>1. DOMAIN length' = Presses
      BY <1>1, <1>2 DEF KeyType
    <3>2. length' = [q \in Presses |-> length'[q]]
      BY <1>1, <1>2, <3>1 DEF KeyType
    <3>. QED
      BY <1>8, <3>2
  <2>. QED
    BY <1>1, <1>2, <2>1 DEF KeyType
<1>10. (Live' <=> Live) /\ (Pending' <=> Pending)
  BY <1>2, <1>3, <1>5 DEF Live, Pending
<1>11. ASSUME NEW q \in Presses, NEW a, Fits(q, a) PROVE Fits(q, a)'
  <2>1. a = "close-active" => length'[q] = LongPress
    BY <1>8, <1>11 DEF Fits
  <2>2. Short(q) => Short(q)'
    BY <1>2, <1>3, <1>8 DEF Short
  <2>. QED
    BY <1>2, <1>11, <2>1, <2>2 DEF Fits
<1>12. ASSUME NEW r \in Runs PROVE ForInv(r)'
  <2>. SUFFICES ASSUME for[r] # NoPress PROVE ForInv(r)'
    BY <1>2 DEF ForInv
  <2>1. ForInv(r) /\ for[r] \in Presses
    BY <1>1 DEF PressInv, PolicyType
  <2>2. PICK q \in Presses, a \in {arg[r]} : q = for[r] /\ Fits(q, a)
    BY <2>1 DEF ForInv
  <2>3. Fits(q, a)'
    BY <1>11, <2>2
  <2>4. Fits(for[r], arg[r])'
    BY <1>2, <1>4, <2>2, <2>3 DEF Fits, Short
  <2>. QED
    BY <1>2, <1>4, <1>10, <2>1, <2>4 DEF ForInv
<1>13. UniqueInv' /\ TrackInv'
  BY <1>1, <1>2 DEF PressInv, UniqueInv, TrackInv
<1>14. PendingInv'
  <2>. SUFFICES ASSUME Pending PROVE PendingInv'
    BY <1>10 DEF PendingInv
  <2>1. tracked \in Presses /\ Fits(tracked, action) /\ tracked # NoPress
    BY <1>1 DEF PressInv, PendingInv, PolicyType
  <2>2. PICK q \in Presses, a \in {action} : q = tracked
    BY <2>1
  <2>3. Fits(q, a)'
    BY <1>11, <2>1, <2>2
  <2>4. Fits(tracked, action)'
    BY <1>2, <2>2, <2>3 DEF Fits, Short
  <2>. QED
    BY <1>2, <2>1, <2>4 DEF PendingInv
<1>15. LiveInv'
  <2>. SUFFICES ASSUME Live PROVE LiveInv'
    BY <1>10 DEF LiveInv
  <2>1. held /\ presses = tracked /\ ~Due
    BY <1>1, <1>2, ServedLive DEF Prompt
  <2>2. LiveInv /\ tracked \in Presses
    BY <1>1 DEF PressInv, LiveInv, PolicyType
  <2>3. elapsed # LongPress /\ elapsed # NoTime
    BY <2>1 DEF Due, Live
  <2>4. elapsed < LongPress /\ elapsed' = elapsed + 1 /\ elapsed \in Nat
    BY <1>2, <1>5, <2>3, Consts
  <2>5. /\ length[tracked] \in 0 .. LongPress
        /\ length'[tracked] = IF length[tracked] < LongPress THEN length[tracked] + 1 ELSE length[tracked]
    BY <1>8, <2>1, <2>2
  <2>6. elapsed <= length[tracked] /\ (tracked \in ontime => elapsed = length[tracked])
    BY <2>2 DEF LiveInv
  <2>7. elapsed' <= length'[tracked] /\ (tracked \in ontime => elapsed' = length'[tracked])
    BY <2>4, <2>5, <2>6, Consts
  <2>. QED
    BY <1>2, <1>3, <2>2, <2>7 DEF LiveInv
<1>16. QueueInv'
  BY <1>1, <1>2, <1>3 DEF PressInv, QueueInv, EventInv, Follows
<1>. QED
  BY <1>4, <1>6, <1>7, <1>9, <1>12, <1>13, <1>14, <1>15, <1>16, TypeJoin DEF IInv, PressInv

----------------------------------------------------------------------------
(* A script runs, and somebody else starts one. *)

LEMMA ScriptInv ==
  ASSUME IInv, UNCHANGED <<policyVars, keyVars, others, crashes>>,
         \/ \E l \in inbox, ok \in BOOLEAN : AgentServes(l, ok)
         \/ \E r \in Runs : ScriptStep(r)
  PROVE  IInv'
<1>1. TypeOK /\ ControlInv /\ PressInv /\ ControlTypeOK /\ CountType
  BY TypeSplit DEF IInv
<1>2. ControlTypeOK' /\ ControlInv' /\ UNCHANGED <<started, arg>>
  <2>1. ASSUME NEW l \in inbox, NEW ok \in BOOLEAN, AgentServes(l, ok)
        PROVE  ControlTypeOK' /\ ControlInv' /\ UNCHANGED <<started, arg>>
    BY <1>1, <2>1, AgentServesInv DEF AgentServes
  <2>2. ASSUME NEW r \in Runs, ScriptStep(r)
        PROVE  ControlTypeOK' /\ ControlInv' /\ UNCHANGED <<started, arg>>
    <3>1. UNCHANGED <<started, arg>>
      BY <2>2 DEF ScriptStep, agent_command, AgentCommandTimeout, shell_is_active, command,
                  focus_shell, send_shell_command, Goes
    <3>2. CASE agent_command(r)
      BY <1>1, <3>1, <3>2, AgentCommandInv
    <3>3. CASE AgentCommandTimeout(r)
      BY <1>1, <3>1, <3>3, AgentCommandTimeoutInv
    <3>4. CASE shell_is_active(r)
      BY <1>1, <3>1, <3>4, ShellIsActiveInv
    <3>5. CASE command(r)
      BY <1>1, <3>1, <3>5, CommandInv
    <3>6. CASE focus_shell(r)
      BY <1>1, <3>1, <3>6, FocusShellInv
    <3>7. CASE send_shell_command(r)
      BY <1>1, <3>1, <3>7, SendInv
    <3>. QED
      BY <2>2, <3>2, <3>3, <3>4, <3>5, <3>6, <3>7 DEF ScriptStep
  <2>. QED
    BY <2>1, <2>2
<1>3. started' \in Nat /\ started' >= started
  BY <1>1, <1>2, Consts DEF ControlTypeOK
<1>4. PressInv' /\ PolicyType' /\ KeyType' /\ FlagType' /\ HeldType'
  BY <1>1, <1>2, <1>3, PressStays
<1>5. CountType'
  BY <1>1 DEF CountType
<1>. QED
  BY <1>2, <1>4, <1>5, TypeJoin DEF IInv

LEMMA OtherRunInv ==
  ASSUME IInv, OtherRun
  PROVE  IInv'
<1>1. TypeOK /\ ControlInv /\ PressInv /\ ControlTypeOK /\ CountType
  BY TypeSplit DEF IInv
<1>2. PICK a \in OtherActions : StartRun(a)
  BY DEF OtherRun
<1>3. ControlTypeOK' /\ ControlInv' /\ started' \in Runs /\ started' = started + 1
  BY <1>1, <1>2, StartRunInv, ControlAssumption
<1>4. started \in Nat
  BY <1>1, Consts DEF ControlTypeOK
<1>5. started' \in Nat /\ started' >= started
  BY <1>3, <1>4
<1>6. ASSUME NEW r \in Runs, for[r] # NoPress PROVE arg'[r] = arg[r]
  <2>1. r <= started /\ r \in Nat
    BY <1>1, <1>6, Consts DEF PressInv, ForInv
  <2>2. r # started'
    BY <1>3, <1>4, <2>1
  <2>3. arg' = [arg EXCEPT ![started'] = a] /\ arg \in [Runs -> ControlActions]
    BY <1>1, <1>2 DEF StartRun, ControlTypeOK
  <2>. QED
    BY <2>2, <2>3
<1>7. PressInv' /\ PolicyType' /\ KeyType' /\ FlagType' /\ HeldType'
  BY <1>1, <1>5, <1>6, PressStays DEF OtherRun
<1>8. CountType'
  <2>1. others' = others + 1 /\ crashes' = crashes
    BY DEF OtherRun
  <2>. QED
    BY <1>1, <2>1 DEF CountType
<1>. QED
  BY <1>3, <1>7, <1>8, TypeJoin DEF IInv

LEMMA StutterInv ==
  ASSUME IInv, UNCHANGED vars
  PROVE  IInv'
<1>1. UNCHANGED <<controlVars, policyVars, keyVars, others, crashes>>
  BY DEF vars
<1>2. TypeOK /\ PressInv /\ ControlTypeOK
  BY TypeSplit DEF IInv
<1>3. ControlTypeOK' /\ ControlInv' /\ CountType' /\ UNCHANGED <<arg, started>>
  BY <1>1, ControlStays
<1>4. started' \in Nat /\ started' >= started
  BY <1>2, <1>3, Consts DEF ControlTypeOK
<1>5. PressInv' /\ PolicyType' /\ KeyType' /\ FlagType' /\ HeldType'
  BY <1>1, <1>2, <1>3, <1>4, PressStays
<1>. QED
  BY <1>3, <1>5, TypeJoin DEF IInv

LEMMA StepInv == IInv /\ [Next]_vars => IInv'
<1>. SUFFICES ASSUME IInv, [Next]_vars PROVE IInv'
  OBVIOUS
<1>1. CASE UNCHANGED vars
  BY <1>1, StutterInv
<1>2. CASE PolicyStep
  <2>1. CASE zero_session \/ ControlEnds
    BY <2>1, RunControlInv
  <2>2. CASE AskAgent \/ AskTimeout \/ PolicyAnswered
    BY <2>2, PolicyQuestionInv
  <2>3. CASE Spawn
    BY <2>3, SpawnInv
  <2>4. CASE ReadDown
    BY <2>4, ReadDownInv
  <2>5. CASE ReadRepeat
    BY <2>5, ReadRepeatInv
  <2>6. CASE ReadUp
    BY <2>6, ReadUpInv
  <2>7. CASE SelectTimeout
    BY <2>7, SelectTimeoutInv
  <2>. QED
    BY <1>2, <2>1, <2>2, <2>3, <2>4, <2>5, <2>6, <2>7 DEF PolicyStep
<1>3. CASE Environment
  <2>1. CASE KeyDown \/ KeyRepeat \/ KeyUp
    BY <2>1, KeyInv
  <2>2. CASE Tick
    BY <2>2, TickInv
  <2>3. CASE PolicyRestarts
    BY <2>3, PolicyRestartsInv
  <2>4. CASE OtherRun
    BY <2>4, OtherRunInv
  <2>5. CASE /\ \/ \E l \in inbox, ok \in BOOLEAN : AgentServes(l, ok)
                \/ \E r \in Runs : ScriptStep(r)
             /\ UNCHANGED <<policyVars, keyVars, others, crashes>>
    BY <2>5, ScriptInv
  <2>. QED
    BY <1>3, <2>1, <2>2, <2>3, <2>4, <2>5 DEF Environment
<1>. QED
  BY <1>1, <1>2, <1>3 DEF Next

(* The inductive invariant holds of the policy, its scripts and the device. *)
THEOREM Invariance == Spec => []IInv
<1>1. Init => IInv
  BY InitInv
<1>2. IInv /\ [Next]_vars => IInv'
  BY StepInv
<1>. QED
  BY <1>1, <1>2, PTL DEF Spec

----------------------------------------------------------------------------
(* Theorems *)

(* Every value that zero-key-policy and zero-shell-control keep has its     *)
(* type, and the policy waits only for a run it has started.                *)
THEOREM TypeCorrect == Spec => []TypeOK
<1>1. IInv => TypeOK
  BY DEF IInv
<1>. QED
  BY <1>1, Invariance, PTL

(* A run of zero-shell-control that succeeds leaves the Shell in front,     *)
(* however many runs there are and whatever the agent serves late.          *)
THEOREM ShellShown == Spec => []SuccessShowsShell
<1>1. IInv => SuccessShowsShell
  BY DEF IInv, ControlInv, RunInv, Shown, SuccessShowsShell
<1>. QED
  BY <1>1, Invariance, PTL

LEMMA DidDomain ==
  ASSUME TypeOK, NEW r \in Runs
  PROVE  DOMAIN did[r] = 1 .. Len(did[r])
<1>1. did[r] \in Seq(Verbs)
  BY TypeSplit DEF ControlTypeOK
<1>. QED
  BY <1>1, LenProperties

(* The three calls of run_control in main never act twice for one press,    *)
(* whatever is queued, dropped, late or restarted.                          *)
THEOREM OneRequest == Spec => []OneRequestPerPress
<1>1. IInv => OneRequestPerPress
  <2>. SUFFICES ASSUME IInv, NEW p \in Presses, NEW r \in RunsFor(p), NEW s \in RunsFor(p)
               PROVE  /\ r = s
                      /\ \A m, n \in DOMAIN did[r] :
                            did[r][m] \in Actions /\ did[r][n] \in Actions => m = n
    BY DEF OneRequestPerPress
  <2>1. r \in Runs /\ s \in Runs /\ for[r] = p /\ for[s] = p /\ p # NoPress
    BY Consts DEF RunsFor
  <2>2. r = s
    BY <2>1 DEF IInv, PressInv, UniqueInv
  <2>3. RunInv(r) /\ DOMAIN did[r] = 1 .. Len(did[r])
    BY <2>1, DidDomain DEF IInv, ControlInv
  <2>. QED
    BY <2>2, <2>3 DEF RunInv
<1>. QED
  BY <1>1, Invariance, PTL

(* What was done for a press is what it was asked for, and that fits it.    *)
LEMMA TouchedFits ==
  ASSUME IInv, NEW p \in Presses, NEW verb \in Actions, Touched(p, verb)
  PROVE  Fits(p, verb)
<1>1. PICK r \in RunsFor(p) : \E n \in DOMAIN did[r] : did[r][n] = verb
  BY DEF Touched
<1>2. r \in Runs /\ for[r] = p /\ p # NoPress
  BY Consts DEF RunsFor
<1>3. RunInv(r) /\ ForInv(r) /\ DOMAIN did[r] = 1 .. Len(did[r])
  BY <1>2, DidDomain DEF IInv, ControlInv, PressInv
<1>4. arg[r] = verb
  BY <1>1, <1>3 DEF RunInv
<1>. QED
  BY <1>2, <1>3, <1>4 DEF ForInv

(* Whatever the thread was busy with when the key went down, a short press  *)
(* never closes a window.                                                   *)
THEOREM ShortSafe == Spec => []ShortPressNeverCloses
<1>1. IInv => ShortPressNeverCloses
  BY TouchedFits DEF ShortPressNeverCloses, Fits, Actions
<1>. QED
  BY <1>1, Invariance, PTL

(* A long press that was read in time never minimizes: not at the release,  *)
(* and not through a run that ends late.                                    *)
THEOREM LongSafe == Spec => []LongPressNeverMinimizes
<1>1. IInv => LongPressNeverMinimizes
  <2>1. IInv => ontime \subseteq Presses
    BY DEF IInv, TypeOK
  <2>. QED
    BY <2>1, TouchedFits DEF LongPressNeverMinimizes, Fits, Short, Actions
<1>. QED
  BY <1>1, Invariance, PTL

=============================================================================
