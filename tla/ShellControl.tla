---------------------------- MODULE ShellControl ----------------------------
(***************************************************************************)
(* zero-shell-control (src/files/usr/local/bin/zero-shell-control): a      *)
(* script that asks the window agent for one thing after another, each     *)
(* over a connection of its own, and leaves a command for the Shell in a   *)
(* file.  Several runs may be under way at once: a run outlives a caller   *)
(* that has given up waiting for it.                                       *)
(*                                                                         *)
(* The window agent is the program WindowAgent models; here it is what a   *)
(* caller sees of it: it may serve a line at any time or never, also when  *)
(* the sender has stopped waiting, and which answer it gives depends on a  *)
(* table that changes all the time.                                        *)
(***************************************************************************)
EXTENDS Naturals, Sequences

CONSTANTS
    MaxRuns,        \* bound: runs of the script
    OtherActions,   \* what others than the key policy run it for
    Faults          \* what may go wrong

ControlActions == {"tasks", "hide-tasks", "focus-shell", "minimize-active", "close-active"}

ASSUME ControlAssumption ==
    /\ MaxRuns \in Nat
    /\ OtherActions \subseteq ControlActions
    /\ Faults \subseteq {"no-socket", "timeout", "no-session", "crash", "overrun"}

Runs    == 1 .. MaxRuns
Policy  == 0                    \* the key policy asks the agent too
Callers == Runs \cup {Policy}
Verbs   == {"active-is-shell", "minimize-active", "close-active", "focus-shell"}

VARIABLES
    started,        \* runs that have begun
    arg,            \* $1 of each run
    spc,            \* where each run is
    call,           \* its agent_command: "idle", "sent", "ok" or "error"
    inbox,          \* lines the agent has not served
    did,            \* what the agent did for each run, in order
    tmp             \* $command_file.tmp exists

controlVars == <<started, arg, spc, call, inbox, did, tmp>>

Asking == {"shell_is_active", "command", "focus_shell"}
Ended  == {"ok", "failed", "killed"}

ControlTypeOK ==
    /\ started \in 0 .. MaxRuns
    /\ arg \in [Runs -> ControlActions]
    /\ spc \in [Runs -> Asking \cup Ended \cup {"off", "write", "move"}]
    /\ call \in [Callers -> {"idle", "sent", "ok", "error"}]
    /\ inbox \in SUBSET [from : Callers, verb : Verbs]
    /\ did \in [Runs -> Seq(Verbs)]
    /\ tmp \in BOOLEAN

ControlInit ==
    /\ started = 0
    /\ arg = [r \in Runs |-> "hide-tasks"]
    /\ spc = [r \in Runs |-> "off"]
    /\ call = [c \in Callers |-> "idle"]
    /\ inbox = {}
    /\ did = [r \in Runs |-> <<>>]
    /\ tmp = FALSE

----------------------------------------------------------------------------
(* agent_command: a connection, one line, one answer *)

Ask(c, verb) ==
    /\ call[c] = "idle"
    /\ \/ /\ inbox' = inbox \cup {[from |-> c, verb |-> verb]}
          /\ call' = [call EXCEPT ![c] = "sent"]
       \/ /\ "no-socket" \in Faults
          /\ call' = [call EXCEPT ![c] = "error"]
          /\ UNCHANGED inbox

(* sock.settimeout: the line stays with the agent.  A question that nobody  *)
(* waits for any more has no effect and is dropped here.                    *)
GiveUp(c) ==
    /\ "timeout" \in Faults
    /\ call[c] = "sent"
    /\ call' = [call EXCEPT ![c] = "error"]
    /\ inbox' = inbox \ {[from |-> c, verb |-> "active-is-shell"]}

Verb(r) ==
    CASE spc[r] = "shell_is_active" -> "active-is-shell"
      [] spc[r] = "command"         -> arg[r]
      [] OTHER                      -> "focus-shell"

(* Who sent the line is still waiting for its answer. *)
Awaits(l) ==
    /\ call[l.from] = "sent"
    /\ l.from = Policy \/ (spc[l.from] \in Asking /\ Verb(l.from) = l.verb)

(* The agent takes a line and answers "ok" or "error".  "ok" means that the *)
(* Shell is active, or that the compositor has been asked.                  *)
AgentServes(l, ok) ==
    /\ l \in inbox
    /\ inbox' = inbox \ {l}
    /\ call' = IF Awaits(l) THEN [call EXCEPT ![l.from] = IF ok THEN "ok" ELSE "error"] ELSE call
    /\ did' = IF ok /\ l.from \in Runs THEN [did EXCEPT ![l.from] = Append(@, l.verb)] ELSE did
    /\ UNCHANGED <<started, arg, spc, tmp>>

----------------------------------------------------------------------------
(* The script *)

ScriptStart(action) ==
    CASE action \in {"tasks", "focus-shell"} -> "focus_shell"
      [] action = "hide-tasks"               -> "write"
      [] OTHER                               -> "shell_is_active"

StartRun(action) ==
    /\ started < MaxRuns
    /\ started' = started + 1
    /\ arg' = [arg EXCEPT ![started'] = action]
    /\ spc' = [spc EXCEPT ![started'] = ScriptStart(action)]
    /\ UNCHANGED <<call, inbox, did, tmp>>

agent_command(r) ==
    /\ spc[r] \in Asking
    /\ Ask(r, Verb(r))
    /\ UNCHANGED <<started, arg, spc, did, tmp>>

AgentCommandTimeout(r) ==
    /\ GiveUp(r)
    /\ UNCHANGED <<started, arg, spc, did, tmp>>

Goes(r, from, answers, to) ==
    /\ spc[r] = from /\ call[r] \in answers
    /\ spc' = [spc EXCEPT ![r] = to]
    /\ call' = [call EXCEPT ![r] = "idle"]
    /\ UNCHANGED <<started, arg, inbox, did, tmp>>

(* No answer counts as "the Shell is not active". *)
shell_is_active(r) ==
    \/ Goes(r, "shell_is_active", {"ok"}, "write")
    \/ Goes(r, "shell_is_active", {"error"}, "command")

(* minimize-active or close-active, and the short sleep behind it *)
command(r) ==
    \/ Goes(r, "command", {"ok"}, "focus_shell")
    \/ Goes(r, "command", {"error"}, "failed")

(* Mutant: the run goes on although the Shell could not be focused. *)
focus_shell_unchecked(r) ==
    Goes(r, "focus_shell", {"ok", "error"}, IF arg[r] = "focus-shell" THEN "ok" ELSE "write")

focus_shell(r) ==
    \/ Goes(r, "focus_shell", {"ok"}, IF arg[r] = "focus-shell" THEN "ok" ELSE "write")
    \/ Goes(r, "focus_shell", {"error"}, "failed")

(* send_shell_command: all runs write the same .tmp, and mv fails (set -e)  *)
(* when another run has moved it away.  Which command the Shell then finds  *)
(* in the file is left out.                                                 *)
send_shell_command(r) ==
    /\ \/ spc[r] = "write" /\ tmp' = TRUE /\ spc' = [spc EXCEPT ![r] = "move"]
       \/ spc[r] = "move" /\ tmp /\ tmp' = FALSE /\ spc' = [spc EXCEPT ![r] = "ok"]
       \/ spc[r] = "move" /\ ~tmp /\ spc' = [spc EXCEPT ![r] = "failed"] /\ UNCHANGED tmp
    /\ UNCHANGED <<started, arg, call, inbox, did>>

ScriptStep(r) ==
    \/ agent_command(r)
    \/ AgentCommandTimeout(r)
    \/ shell_is_active(r)
    \/ command(r)
    \/ focus_shell(r)
    \/ send_shell_command(r)

----------------------------------------------------------------------------
(* Properties *)

(* A run that reports success leaves the Shell in front: the last thing the *)
(* agent did for it was to find the Shell active or to ask for its          *)
(* activation, never the minimize or close before it (focus_shell fails the *)
(* run).                                                                    *)
SuccessShowsShell ==
    \A r \in Runs : spc[r] = "ok" /\ arg[r] # "hide-tasks" =>
        did[r] # <<>> /\ did[r][Len(did[r])] \in {"active-is-shell", "focus-shell"}

=============================================================================
