-------------------------------- MODULE Idle --------------------------------
(***************************************************************************)
(* cardputer-zero-idle (src/files/usr/local/bin/cardputer-zero-idle): every *)
(* two seconds it reads the screen timeout that the user has chosen, and   *)
(* keeps a swayidle running with it, which turns the output off and, at    *)
(* the next input, on again.  A swayidle that has died is replaced; when   *)
(* the choice is "never", and when it ends, the daemon turns the output on *)
(* itself.                                                                 *)
(*                                                                         *)
(* swayidle and wlopm are external, from how the daemon uses them:         *)
(* swayidle -w waits for each command it runs, and on SIGTERM runs the     *)
(* resume command if it is due, and ends.                                  *)
(***************************************************************************)
EXTENDS Naturals

CONSTANTS
    Timeouts,       \* the names in TIMEOUT_SECONDS, "never" among them
    Default,        \* DEFAULT_TIMEOUT, which need not be one of them
    Installed,      \* swayidle and wlopm are there
    Faults,         \* what may go wrong
    MaxEdits,       \* bound: changes of the configuration files
    MaxFailures     \* bound: times that swayidle fails

ASSUME IdleAssumption ==
    /\ "never" \in Timeouts
    /\ {"", "missing", "unreadable", "silent", "unknown"} \cap Timeouts = {}
    /\ Installed \in BOOLEAN
    /\ Faults \subseteq {"crash", "hang"}
    /\ MaxEdits \in Nat /\ MaxFailures \in Nat

(* The choices that may be wanted, and those that need a swayidle. *)
Choices == Timeouts \cup {Default}
Timed   == Timeouts \ {"never"}

(* A configuration file: not there, not JSON, without an entry for the      *)
(* timeout, with one that is no name, or with a name.                       *)
Contents == {"missing", "unreadable", "silent", "unknown"} \cup Timeouts

VARIABLES
    ipc, running,
    wanted_timeout, active_timeout,
    final,          \* in the finally block
    swayidle,       \* the child: "none", "dead", or what it does
    term,           \* SIGTERM is on its way to it
    stray,          \* the wlopms under way of swayidles that have died
    stirred,        \* there was input since swayidle turned to turning off
    output,         \* "on", or why it is not
    config,         \* the files of config_paths, in order
    edits, failures

(* A dark output was turned off by the swayidle that runs ("off"), by one   *)
(* that has died since ("lost"), or by a wlopm that outlived its swayidle   *)
(* ("late").  No action looks at the difference.                            *)
Output == {"on", "off", "lost", "late"}

childVars == <<swayidle, term, stray, stirred>>
fileVars  == <<config, edits>>
mainVars  == <<ipc, running, wanted_timeout, active_timeout, final>>
vars      == <<mainVars, childVars, output, fileVars, failures>>

Alive == swayidle \notin {"none", "dead"}

TypeOK ==
    /\ ipc \in {"top", "second", "stop", "wait", "start", "wake", "sleep", "exited"}
    /\ running \in BOOLEAN /\ final \in BOOLEAN
    /\ (final => ~running) /\ (ipc = "exited" => final)
    /\ wanted_timeout \in Choices \cup {""} /\ active_timeout \in Choices \cup {""}
    /\ swayidle \in {"none", "dead", "watching", "turning-off", "idle", "turning-on"}
    /\ (Alive => Installed /\ active_timeout \in Timed)
    /\ term \in BOOLEAN /\ stirred \in BOOLEAN
    /\ stray \in [{"on", "off"} -> Nat]
    /\ output \in Output
    /\ config \in [1 .. 2 -> Contents]
    /\ edits \in 0 .. MaxEdits /\ failures \in 0 .. MaxFailures

----------------------------------------------------------------------------
(* main *)

normalize_timeout(c) == IF c \in Timeouts THEN c ELSE Default

Usable(n) == config[n] \notin {"missing", "unreadable", "silent"}

(* What the files say, when nobody changes them between the two reads. *)
load_timeout ==
    IF Usable(1) THEN normalize_timeout(config[1])
    ELSE IF Usable(2) THEN normalize_timeout(config[2])
    ELSE normalize_timeout(Default)

(* Mutant: "never" is taken for a timeout. *)
start_swayidle_never(timeout_name) ==
    /\ swayidle' = IF timeout_name \in Timeouts /\ Installed THEN "watching" ELSE "none"
    /\ term' = FALSE /\ stirred' = FALSE
    /\ UNCHANGED stray

start_swayidle(timeout_name) ==
    /\ swayidle' = IF timeout_name \in Timed /\ Installed THEN "watching" ELSE "none"
    /\ term' = FALSE /\ stirred' = FALSE
    /\ UNCHANGED stray

(* Mutant: a child that has died is taken for a running one. *)
Decide_trusting(choice) ==
    /\ wanted_timeout' = choice
    /\ ipc' = IF choice # active_timeout THEN "stop" ELSE "sleep"
    /\ UNCHANGED childVars

(* The choice has changed, the child has died, or there is nothing to do.   *)
Decide(choice) ==
    /\ wanted_timeout' = choice
    /\ ipc' = IF choice # active_timeout THEN "stop" ELSE "sleep"
    /\ IF choice = active_timeout /\ swayidle = "dead"
       THEN start_swayidle(active_timeout)
       ELSE UNCHANGED childVars

(* One turn of the loop.  load_timeout reads the files one after the other. *)
Turn ==
    /\ ipc = "top" /\ running
    /\ \/ Usable(1) /\ Decide(normalize_timeout(config[1]))
       \/ ~Usable(1) /\ ipc' = "second" /\ UNCHANGED <<wanted_timeout, childVars>>
    /\ UNCHANGED <<running, active_timeout, final, output, fileVars, failures>>

SecondFile ==
    /\ ipc = "second"
    /\ Decide(normalize_timeout(IF Usable(2) THEN config[2] ELSE Default))
    /\ UNCHANGED <<running, active_timeout, final, output, fileVars, failures>>

Finally ==
    /\ ipc = "top" /\ ~running
    /\ ipc' = "stop" /\ final' = TRUE
    /\ UNCHANGED <<running, wanted_timeout, active_timeout, childVars, output, fileVars, failures>>

(* Mutant: the finally block does not turn the output on. *)
AfterStop_dark == IF final THEN "exited" ELSE "start"

(* Where main goes when stop_child has returned. *)
AfterStop == IF final THEN "wake" ELSE "start"

(* Mutant: SIGKILL where SIGTERM is sent. *)
stop_child_kill ==
    /\ ipc = "stop"
    /\ ipc' = AfterStop
    /\ swayidle' = IF Alive THEN "dead" ELSE swayidle
    /\ UNCHANGED <<running, wanted_timeout, active_timeout, final, term, stray, stirred, output,
                   fileVars, failures>>

stop_child ==
    /\ ipc = "stop"
    /\ IF Alive THEN ipc' = "wait" /\ term' = TRUE
                ELSE ipc' = AfterStop /\ UNCHANGED term
    /\ UNCHANGED <<running, wanted_timeout, active_timeout, final, swayidle, stray, stirred, output,
                   fileVars, failures>>

(* A command that swayidle waits for goes on without it; whoever runs next  *)
(* does not know that the output is off.                                    *)
Dies ==
    /\ swayidle' = "dead"
    /\ output' = IF output = "off" THEN "lost" ELSE output
    /\ stray' = CASE swayidle = "turning-off" -> [stray EXCEPT !["off"] = @ + 1]
                  [] swayidle = "turning-on"  -> [stray EXCEPT !["on"] = @ + 1]
                  [] OTHER                    -> stray
    /\ failures < MaxFailures /\ failures' = failures + 1
    /\ UNCHANGED <<term, stirred>>

(* child.wait returns, or swayidle has not ended after two seconds and is   *)
(* killed.                                                                  *)
ChildWait ==
    /\ ipc = "wait"
    /\ \/ ~Alive /\ UNCHANGED <<childVars, output, failures>>
       \/ Alive /\ "hang" \in Faults /\ Dies
    /\ ipc' = AfterStop
    /\ UNCHANGED <<running, wanted_timeout, active_timeout, final, fileVars>>

(* Mutant: the output is not turned on. *)
StartChild_dark ==
    /\ ipc = "start"
    /\ start_swayidle(wanted_timeout)
    /\ active_timeout' = wanted_timeout
    /\ ipc' = "sleep"
    /\ UNCHANGED <<running, wanted_timeout, final, output, fileVars, failures>>

StartChild ==
    /\ ipc = "start"
    /\ start_swayidle(wanted_timeout)
    /\ active_timeout' = wanted_timeout
    /\ ipc' = IF wanted_timeout = "never" THEN "wake" ELSE "sleep"
    /\ UNCHANGED <<running, wanted_timeout, final, output, fileVars, failures>>

wlopm_on ==
    /\ ipc = "wake"
    /\ output' = IF Installed THEN "on" ELSE output
    /\ ipc' = IF final THEN "exited" ELSE "sleep"
    /\ UNCHANGED <<running, wanted_timeout, active_timeout, final, childVars, fileVars, failures>>

SleepOver ==
    /\ ipc = "sleep"
    /\ ipc' = "top"
    /\ UNCHANGED <<running, wanted_timeout, active_timeout, final, childVars, output, fileVars, failures>>

handle_signal ==
    /\ running /\ ipc # "exited"
    /\ running' = FALSE
    /\ UNCHANGED <<ipc, wanted_timeout, active_timeout, final, childVars, output, fileVars, failures>>

MainStep == Turn \/ SecondFile \/ Finally \/ stop_child \/ ChildWait \/ StartChild \/ wlopm_on \/ SleepOver

----------------------------------------------------------------------------
(* swayidle and wlopm (external) *)

ChildStep == Alive /\ UNCHANGED <<mainVars, stray, fileVars, failures>>

(* Nobody has touched a key for long enough: wlopm --off *)
TimeoutCommand ==
    /\ ChildStep /\ swayidle = "watching" /\ ~term
    /\ swayidle' = "turning-off" /\ stirred' = FALSE
    /\ UNCHANGED <<term, output>>

TurnedOff ==
    /\ ChildStep /\ swayidle = "turning-off"
    /\ swayidle' = "idle" /\ output' = "off"
    /\ UNCHANGED <<term, stirred>>

(* wlopm --on, at input or before swayidle ends *)
ResumeCommand ==
    /\ ChildStep /\ swayidle = "idle" /\ (stirred \/ term)
    /\ swayidle' = "turning-on"
    /\ UNCHANGED <<term, stirred, output>>

TurnedOn ==
    /\ ChildStep /\ swayidle = "turning-on"
    /\ swayidle' = "watching" /\ output' = "on"
    /\ UNCHANGED <<term, stirred>>

Terminated ==
    /\ ChildStep /\ swayidle = "watching" /\ term
    /\ swayidle' = "dead"
    /\ UNCHANGED <<term, stirred, output>>

StrayDone(switch) ==
    /\ stray[switch] > 0
    /\ stray' = [stray EXCEPT ![switch] = @ - 1]
    /\ output' = IF switch = "on" THEN "on" ELSE IF output = "off" THEN "off" ELSE "late"
    /\ UNCHANGED <<mainVars, swayidle, term, stirred, fileVars, failures>>

Crash ==
    /\ "crash" \in Faults /\ Alive
    /\ Dies
    /\ UNCHANGED <<mainVars, fileVars>>

Input ==
    /\ swayidle \in {"turning-off", "idle"} /\ ~stirred
    /\ stirred' = TRUE
    /\ UNCHANGED <<mainVars, swayidle, term, stray, output, fileVars, failures>>

Edit ==
    /\ edits < MaxEdits
    /\ edits' = edits + 1
    /\ \E n \in 1 .. 2, c \in Contents : config' = [config EXCEPT ![n] = c]
    /\ UNCHANGED <<mainVars, childVars, output, failures>>

Swayidle == TimeoutCommand \/ TurnedOff \/ ResumeCommand \/ TurnedOn \/ Terminated

Init ==
    /\ ipc = "top" /\ running = TRUE /\ final = FALSE
    /\ wanted_timeout = "" /\ active_timeout = ""
    /\ swayidle = "none" /\ term = FALSE /\ stirred = FALSE
    /\ stray = [switch \in {"on", "off"} |-> 0]
    /\ output = "on"
    /\ config \in [1 .. 2 -> Contents]
    /\ edits = 0 /\ failures = 0

Next == MainStep \/ Swayidle \/ handle_signal \/ Crash \/ Input \/ Edit
        \/ \E switch \in {"on", "off"} : StrayDone(switch)

Spec == Init /\ [][Next]_vars

(* The daemon's thread and swayidle's run, and the commands they wait for   *)
(* end.  Nothing is assumed of the person.                                  *)
Fairness ==
    /\ WF_vars(MainStep)
    /\ WF_vars(TurnedOff) /\ WF_vars(ResumeCommand) /\ WF_vars(TurnedOn) /\ WF_vars(Terminated)
    /\ \A switch \in {"on", "off"} : WF_vars(StrayDone(switch))

FairSpec == Spec /\ Fairness

----------------------------------------------------------------------------
(* Properties *)

(* An output that a swayidle has turned off has a swayidle that turns it on *)
(* at the next input: changing the timeout, and ending, never leave it dark *)
(* (stop_child sends SIGTERM and waits).  Failures of a swayidle that has   *)
(* turned it off are the exception, until the output is on again.           *)
OffHasWaker == output = "off" => swayidle \in {"idle", "turning-on"}

(* When the daemon has ended, no swayidle is left that could turn the       *)
(* output off, and the output is on, also when swayidle had to be killed    *)
(* with the output off or has died before; only a wlopm that outlives its   *)
(* swayidle may turn it off later (finally in main).                        *)
ExitLeavesOutputOn == ipc = "exited" => ~Alive /\ output \in {"on", "late"}

(* If the user's choice stays "never", the output ends up on, whatever      *)
(* became of the swayidles before, with the same exception.                 *)
NeverMeansOn ==
    <>[](load_timeout = "never") => <>[](output \in {"on", "late"})

(* A choice that stays is put into effect, and stays in effect when         *)
(* swayidle dies, as long as the daemon runs.                               *)
SettingApplied ==
    [](running) => \A t \in Choices :
        <>[](load_timeout = t)
            => <>[](active_timeout = t /\ (Alive <=> t \in Timed /\ Installed))

=============================================================================
