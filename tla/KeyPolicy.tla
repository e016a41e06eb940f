----------------------------- MODULE KeyPolicy -----------------------------
(***************************************************************************)
(* zero-key-policy (src/files/usr/local/bin/zero-key-policy): one thread   *)
(* reads Esc from the keyboard device and runs zero-shell-control, and     *)
(* waits for it: minimize-active for a short press, close-active for a     *)
(* long one.  It measures a press from when it READS the key going down.   *)
(*                                                                         *)
(* Time passes in ticks; LongPress ticks are LONG_PRESS_SECONDS.  The      *)
(* thread is prompt: no tick passes, and no second key comes, while it has *)
(* something to do, unless run_control blocks it.  Then events queue in    *)
(* the device, and when that is full the kernel drops them.                *)
(*                                                                         *)
(* The unit sets ZERO_KEY_POLICY_TTY to nothing, so ensure_zero_vt returns *)
(* at once.  Keys other than Esc are read and forgotten.                   *)
(***************************************************************************)
EXTENDS ShellControl

CONSTANTS
    LongPress,      \* LONG_PRESS_SECONDS, in ticks
    QueueSize,      \* events the device holds for a reader
    MaxCrashes      \* bound: crashes of the policy

ASSUME PolicyAssumption ==
    /\ LongPress \in Nat \ {0}
    /\ QueueSize \in Nat \ {0}
    /\ MaxCrashes \in Nat

Presses == Runs                 \* MaxRuns bounds the presses and the other runs together
NoPress == 0
NoTime  == LongPress + 1        \* esc_down_at is None

VARIABLES
    kpc,                \* where the thread is
    elapsed,            \* time.monotonic() - esc_down_at, up to LongPress, or NoTime
    long_action_sent,
    tracked,            \* the press that esc_down_at belongs to
    action,             \* the argument of run_control
    run,                \* the run it waits for
    for,                \* the press each run was started for, NoPress for another caller's
    queue,              \* the device: events not yet read
    presses, held,      \* presses so far, and whether the last one lasts
    length,             \* how long each press has lasted, up to LongPress
    ontime,             \* presses whose start was read when it happened
    others,             \* runs started by others
    crashes

policyVars == <<kpc, elapsed, long_action_sent, tracked, action, run, for, ontime>>
keyVars    == <<queue, presses, held, length>>
vars       == <<controlVars, policyVars, keyVars, others, crashes>>

Actions == {"minimize-active", "close-active"}

TypeOK ==
    /\ ControlTypeOK
    /\ kpc \in {"select", "zero_session", "shell_is_active", "spawn", "control"}
    /\ elapsed \in 0 .. NoTime
    /\ long_action_sent \in BOOLEAN
    /\ tracked \in {NoPress} \cup Presses
    /\ action \in Actions
    /\ run \in 0 .. MaxRuns /\ (kpc = "control" => run # 0)
    /\ for \in [Runs -> {NoPress} \cup Presses]
    /\ queue \in Seq([value : 0 .. 2, press : Presses])
    /\ presses \in {NoPress} \cup Presses
    /\ held \in BOOLEAN /\ (held => presses # NoPress)
    /\ length \in [Presses -> 0 .. LongPress]
    /\ ontime \subseteq Presses
    /\ others \in Nat /\ crashes \in 0 .. MaxCrashes

----------------------------------------------------------------------------
(* run_control *)

(* Called in place of the rest of a step: the thread does nothing else      *)
(* until it returns.                                                        *)
run_control(a) == kpc' = "zero_session" /\ action' = a

Blocked == kpc # "select"

(* Mutant: waits for a run that was not started. *)
zero_session_unspawned ==
    /\ kpc = "zero_session"
    /\ kpc' = IF action = "minimize-active" THEN "shell_is_active" ELSE "control"
    /\ UNCHANGED <<controlVars, elapsed, long_action_sent, tracked, action, run, for, ontime,
                   keyVars, others, crashes>>

(* zero_session, then the question that precedes a minimize *)
zero_session ==
    /\ kpc = "zero_session"
    /\ \/ "no-session" \in Faults /\ kpc' = "select"
       \/ kpc' = IF action = "minimize-active" THEN "shell_is_active" ELSE "spawn"
    /\ UNCHANGED <<controlVars, elapsed, long_action_sent, tracked, action, run, for, ontime,
                   keyVars, others, crashes>>

AskAgent ==
    /\ kpc = "shell_is_active"
    /\ Ask(Policy, "active-is-shell")
    /\ UNCHANGED <<started, arg, spc, did, tmp, policyVars, keyVars, others, crashes>>

(* Mutant: neither the socket nor subprocess.run has a timeout. *)
AskTimeout_never == FALSE /\ UNCHANGED vars

AskTimeout ==
    /\ GiveUp(Policy)
    /\ UNCHANGED <<started, arg, spc, did, tmp, policyVars, keyVars, others, crashes>>

PolicyAnswered ==
    /\ kpc = "shell_is_active"
    /\ call[Policy] \in {"ok", "error"}
    /\ kpc' = IF call[Policy] = "ok" THEN "select" ELSE "spawn"
    /\ call' = [call EXCEPT ![Policy] = "idle"]
    /\ UNCHANGED <<started, arg, spc, inbox, did, tmp, elapsed, long_action_sent,
                   tracked, action, run, for, ontime, keyVars, others, crashes>>

Spawn ==
    /\ kpc = "spawn"
    /\ StartRun(action)
    /\ run' = started'
    /\ for' = [for EXCEPT ![run'] = tracked]
    /\ kpc' = "control"
    /\ UNCHANGED <<elapsed, long_action_sent, tracked, action, ontime, keyVars, others, crashes>>

(* The run has ended, or two seconds have: then runuser is killed and the   *)
(* script, its child, lives on.                                             *)
ControlEnds ==
    /\ kpc = "control"
    /\ spc[run] \in Ended \/ "timeout" \in Faults
    /\ kpc' = "select"
    /\ UNCHANGED <<controlVars, elapsed, long_action_sent, tracked, action, run, for, ontime,
                   keyVars, others, crashes>>

----------------------------------------------------------------------------
(* main: one turn of the loop *)

Read(value) ==
    /\ kpc = "select"
    /\ queue # <<>>
    /\ Head(queue).value = value
    /\ queue' = Tail(queue)
    /\ UNCHANGED <<controlVars, presses, held, length, run, for, others, crashes>>

ReadDown ==
    /\ Read(1)
    /\ elapsed' = 0
    /\ long_action_sent' = FALSE
    /\ tracked' = Head(queue).press
    /\ ontime' = IF length[tracked'] = 0 THEN ontime \cup {tracked'} ELSE ontime
    /\ UNCHANGED <<kpc, action>>

(* Mutant: a repeat is taken for the key going down. *)
ReadRepeat_down ==
    /\ Read(2)
    /\ elapsed' = 0
    /\ UNCHANGED <<kpc, action, long_action_sent, tracked, ontime>>

ReadRepeat ==
    /\ Read(2)
    /\ IF elapsed = LongPress /\ ~long_action_sent
       THEN long_action_sent' = TRUE /\ run_control("close-active")
       ELSE UNCHANGED <<long_action_sent, kpc, action>>
    /\ UNCHANGED <<elapsed, tracked, ontime>>

(* Mutant: the press is not forgotten when it ends. *)
ReadUp_keep ==
    /\ Read(0)
    /\ IF elapsed # NoTime /\ ~long_action_sent
       THEN run_control(IF elapsed = LongPress THEN "close-active" ELSE "minimize-active")
       ELSE UNCHANGED <<kpc, action>>
    /\ UNCHANGED <<elapsed, long_action_sent, tracked, ontime>>

(* Mutant: what was sent for the long press is not looked at. *)
ReadUp_again ==
    /\ Read(0)
    /\ IF elapsed # NoTime
       THEN run_control(IF elapsed = LongPress THEN "close-active" ELSE "minimize-active")
       ELSE UNCHANGED <<kpc, action>>
    /\ elapsed' = NoTime /\ long_action_sent' = FALSE
    /\ UNCHANGED <<tracked, ontime>>

(* esc_down_at and long_action_sent are cleared when run_control returns;   *)
(* nobody looks at them before.                                             *)
ReadUp ==
    /\ Read(0)
    /\ IF elapsed = NoTime
       THEN UNCHANGED <<kpc, action, elapsed, long_action_sent>>
       ELSE /\ IF long_action_sent
               THEN UNCHANGED <<kpc, action>>
               ELSE run_control(IF elapsed = LongPress THEN "close-active" ELSE "minimize-active")
            /\ elapsed' = NoTime /\ long_action_sent' = FALSE
    /\ UNCHANGED <<tracked, ontime>>

Due == elapsed = LongPress /\ ~long_action_sent

(* select returns with nothing to read. *)
SelectTimeout ==
    /\ kpc = "select" /\ queue = <<>> /\ Due
    /\ long_action_sent' = TRUE
    /\ run_control("close-active")
    /\ UNCHANGED <<controlVars, elapsed, tracked, run, for, ontime, keyVars, others, crashes>>

PolicyStep ==
    \/ zero_session \/ AskAgent \/ AskTimeout \/ PolicyAnswered \/ Spawn \/ ControlEnds
    \/ ReadDown \/ ReadRepeat \/ ReadUp \/ SelectTimeout

(* An exception ends the process (no runuser, a device gone); systemd stops *)
(* what is left in its control group and starts it again, with the device   *)
(* opened anew.                                                             *)
PolicyRestarts ==
    /\ "crash" \in Faults /\ crashes < MaxCrashes
    /\ crashes' = crashes + 1
    /\ kpc' = "select" /\ elapsed' = NoTime /\ long_action_sent' = FALSE
    /\ queue' = <<>>
    /\ call' = [call EXCEPT ![Policy] = "idle"]
    /\ spc' = [r \in Runs |-> IF for[r] # NoPress /\ spc[r] \notin Ended THEN "killed" ELSE spc[r]]
    /\ UNCHANGED <<started, arg, inbox, did, tmp, tracked, action, run, for, ontime,
                   presses, held, length, others>>

----------------------------------------------------------------------------
(* The person, the clock and the device (external) *)

(* The thread has read what there was, or cannot; and it has acted on the   *)
(* time.  A key that is repeated or released just when the press gets long  *)
(* races with the timeout of select.                                        *)
Served == Blocked \/ queue = <<>>
Prompt == Served /\ (Blocked \/ ~Due)

(* The kernel drops what is queued when there is no room. *)
Event(value, p) ==
    LET e == [value |-> value, press |-> p] IN
    IF Len(queue) < QueueSize
    THEN queue' = Append(queue, e)
    ELSE "overrun" \in Faults /\ queue' = <<e>>

KeyDown ==
    /\ Served /\ ~held /\ presses + others < MaxRuns
    /\ presses' = presses + 1 /\ held' = TRUE
    /\ Event(1, presses')
    /\ UNCHANGED <<controlVars, policyVars, length, others, crashes>>

KeyRepeat ==
    /\ Served /\ held
    /\ Event(2, presses)
    /\ UNCHANGED <<controlVars, policyVars, presses, held, length, others, crashes>>

KeyUp ==
    /\ Served /\ held
    /\ held' = FALSE
    /\ Event(0, presses)
    /\ UNCHANGED <<controlVars, policyVars, presses, length, others, crashes>>

Tick ==
    /\ Prompt
    /\ elapsed' = IF elapsed < LongPress THEN elapsed + 1 ELSE elapsed
    /\ length' = IF held /\ length[presses] < LongPress
                 THEN [length EXCEPT ![presses] = @ + 1] ELSE length
    /\ UNCHANGED <<controlVars, kpc, long_action_sent, tracked, action, run, for, ontime,
                   queue, presses, held, others, crashes>>

(* Somebody else runs zero-shell-control. *)
OtherRun ==
    /\ presses + others < MaxRuns
    /\ others' = others + 1
    /\ \E a \in OtherActions : StartRun(a)
    /\ UNCHANGED <<policyVars, keyVars, crashes>>

Environment ==
    \/ KeyDown \/ KeyRepeat \/ KeyUp \/ Tick
    \/ PolicyRestarts \/ OtherRun
    \/ /\ \/ \E l \in inbox, ok \in BOOLEAN : AgentServes(l, ok)
          \/ \E r \in Runs : ScriptStep(r)
       /\ UNCHANGED <<policyVars, keyVars, others, crashes>>

----------------------------------------------------------------------------
Init ==
    /\ ControlInit
    /\ kpc = "select" /\ elapsed = NoTime /\ long_action_sent = FALSE
    /\ tracked = NoPress /\ action = "minimize-active"
    /\ run = 0 /\ for = [r \in Runs |-> NoPress]
    /\ queue = <<>>
    /\ presses = NoPress /\ held = FALSE
    /\ length = [p \in Presses |-> 0]
    /\ ontime = {}
    /\ others = 0 /\ crashes = 0

Next == PolicyStep \/ Environment

Spec == Init /\ [][Next]_vars

(* The policy and the scripts are processes that run, and each of their     *)
(* waits has a timeout.  Nothing is assumed of the agent.                   *)
Fairness ==
    /\ WF_vars(PolicyStep)
    /\ \A r \in Runs : WF_vars(ScriptStep(r) /\ UNCHANGED <<policyVars, keyVars, others, crashes>>)

FairSpec == Spec /\ Fairness

----------------------------------------------------------------------------
(* Properties *)

RunsFor(p) == {r \in Runs : for[r] = p}

Touched(p, verb) == \E r \in RunsFor(p) : \E n \in DOMAIN did[r] : did[r][n] = verb

(* A press acts on one window at most, once: the timeout, a repeat and the  *)
(* release of the key are three places that call run_control for the same   *)
(* press, and a script whose answer is late does not ask again.             *)
OneRequestPerPress ==
    \A p \in Presses : \A r, s \in RunsFor(p) :
        /\ r = s
        /\ \A m, n \in DOMAIN did[r] :
              did[r][m] \in Actions /\ did[r][n] \in Actions => m = n

(* A window is asked to close only for a press that really lasted           *)
(* LONG_PRESS_SECONDS, whatever was queued, dropped or restarted.           *)
ShortPressNeverCloses ==
    \A p \in Presses : Touched(p, "close-active") => length[p] = LongPress

(* A press whose start was read when it happened is taken for what it is: a *)
(* long one does not minimize.  (One that was queued behind another action  *)
(* is measured from when it is read, and may be taken for a short one.)     *)
LongPressNeverMinimizes ==
    \A p \in ontime : Touched(p, "minimize-active") => length[p] < LongPress

(* run_control returns, whether or not the agent answers.                   *)
PolicyReturns == (kpc # "select") ~> (kpc = "select")

=============================================================================
