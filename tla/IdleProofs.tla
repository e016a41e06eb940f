----------------------------- MODULE IdleProofs -----------------------------
(***************************************************************************)
(* Proofs about Idle, for every set of timeouts and every number of edits  *)
(* and of failures of swayidle.                                            *)
(*                                                                         *)
(* What is to be shown is not inductive: that the output stays on when     *)
(* swayidle is replaced depends on no swayidle being alive where one is    *)
(* started, and that depends on where stop_child returns to.               *)
(***************************************************************************)
EXTENDS Idle, TLAPS

(* stop_child is over: the old swayidle has ended. *)
StoppedInv == ipc \in {"start", "wake", "exited"} => ~Alive

(* What is started is a timeout that has been read, and the finally block  *)
(* never starts anything.                                                  *)
PathInv ==
    /\ ipc \in {"stop", "wait", "start"} /\ ~final => wanted_timeout \in Choices
    /\ final => ipc \in {"stop", "wait", "wake", "exited"}

(* Without swayidle and wlopm nobody turns the output off. *)
LitInv == ~Installed => output = "on" /\ stray = [switch \in {"on", "off"} |-> 0]

IInv ==
    /\ TypeOK
    /\ StoppedInv
    /\ PathInv
    /\ LitInv
    /\ OffHasWaker
    /\ ExitLeavesOutputOn

LEMMA Bounds == MaxEdits \in Nat /\ MaxFailures \in Nat
  BY IdleAssumption

LEMMA NormalizeType == \A c : normalize_timeout(c) \in Choices
  BY DEF normalize_timeout, Choices

(* The part of TypeOK about main's control, and what else it says of the    *)
(* daemon, when neither moves.                                              *)
ControlType ==
    /\ running \in BOOLEAN /\ final \in BOOLEAN
    /\ (final => ~running) /\ (ipc = "exited" => final)

LEMMA ControlStays ==
  ASSUME TypeOK, UNCHANGED <<running, final>>, ipc' = "exited" => ipc = "exited"
  PROVE  ControlType'
<1>1. ControlType
  BY DEF TypeOK, ControlType
<1>. QED
  BY <1>1 DEF ControlType

LEMMA InitInv == Init => IInv
<1>. SUFFICES ASSUME Init PROVE IInv
  OBVIOUS
<1>1. ~Alive
  BY DEF Init, Alive
<1>2. edits = 0 /\ failures = 0
  BY DEF Init
<1>3. edits \in 0 .. MaxEdits /\ failures \in 0 .. MaxFailures
  BY <1>2, Bounds
<1>4. TypeOK
  <2>1. stray \in [{"on", "off"} -> Nat]
    BY DEF Init
  <2>2. output \in Output /\ config \in [1 .. 2 -> Contents]
    BY DEF Init, Output
  <2>. QED
    BY <1>1, <1>3, <2>1, <2>2 DEF Init, TypeOK
<1>5. StoppedInv /\ PathInv /\ LitInv
  BY <1>1 DEF Init, StoppedInv, PathInv, LitInv
<1>6. OffHasWaker /\ ExitLeavesOutputOn
  BY DEF Init, OffHasWaker, ExitLeavesOutputOn
<1>. QED
  BY <1>4, <1>5, <1>6 DEF IInv

----------------------------------------------------------------------------
(* The daemon's own steps *)

(* What a turn decides, for any choice it may have read. *)
LEMMA DecideInv ==
  ASSUME IInv, NEW choice \in Choices, Decide(choice),
         ipc \in {"top", "second"},
         UNCHANGED <<running, active_timeout, final, output, config, edits, failures>>
  PROVE  IInv'
<1>. USE DEF IInv
<1>1. ~final /\ ipc' \in {"stop", "sleep"} /\ wanted_timeout' = choice
  BY DEF Decide, PathInv
<1>2. PathInv' /\ ExitLeavesOutputOn'
  BY <1>1 DEF PathInv, ExitLeavesOutputOn
<1>3. CASE choice = active_timeout /\ swayidle = "dead"
  <2>1. UNCHANGED stray /\ term' = FALSE /\ stirred' = FALSE
        /\ swayidle' = IF active_timeout \in Timed /\ Installed THEN "watching" ELSE "none"
    BY <1>3 DEF Decide, start_swayidle
  <2>2. TypeOK'
    BY <1>1, <2>1 DEF TypeOK, Alive
  <2>3. OffHasWaker'
    BY <1>3 DEF OffHasWaker
  <2>. QED
    BY <1>1, <1>2, <2>1, <2>2, <2>3 DEF StoppedInv, LitInv
<1>4. CASE ~(choice = active_timeout /\ swayidle = "dead")
  <2>1. UNCHANGED <<swayidle, term, stray, stirred>>
    BY <1>4 DEF Decide, childVars
  <2>2. TypeOK'
    BY <1>1, <2>1 DEF TypeOK, Alive
  <2>. QED
    BY <1>1, <1>2, <2>1, <2>2 DEF StoppedInv, LitInv, OffHasWaker
<1>. QED
  BY <1>3, <1>4

LEMMA TurnInv == IInv /\ (Turn \/ SecondFile) => IInv'
<1>. SUFFICES ASSUME IInv, Turn \/ SecondFile PROVE IInv'
  OBVIOUS
<1>1. /\ UNCHANGED <<running, active_timeout, final, output, config, edits, failures>>
      /\ ipc \in {"top", "second"}
  BY DEF Turn, SecondFile, fileVars
<1>2. CASE \E choice \in Choices : Decide(choice)
  BY <1>1, <1>2, DecideInv
<1>3. CASE Turn /\ ipc' = "second" /\ UNCHANGED <<wanted_timeout, childVars>>
  <2>1. UNCHANGED <<wanted_timeout, swayidle, term, stray, stirred>> /\ ~final
    BY <1>3 DEF childVars, Turn, IInv, PathInv
  <2>2. TypeOK'
    BY <1>1, <1>3, <2>1 DEF IInv, TypeOK, Alive
  <2>. QED
    BY <1>1, <1>3, <2>1, <2>2
    DEF IInv, StoppedInv, PathInv, LitInv, OffHasWaker, ExitLeavesOutputOn
<1>. QED
  BY <1>2, <1>3, NormalizeType DEF Turn, SecondFile

(* The steps that leave the child and the output alone. *)
LEMMA MainInv ==
  ASSUME IInv, Finally \/ stop_child \/ SleepOver \/ handle_signal
  PROVE  IInv'
<1>. USE DEF IInv
<1>1. UNCHANGED <<wanted_timeout, active_timeout, swayidle, stray, stirred, output, config, edits, failures>>
  BY DEF Finally, stop_child, SleepOver, handle_signal, childVars, fileVars
<1>2. running' \in BOOLEAN /\ final' \in BOOLEAN /\ term' \in BOOLEAN
  BY DEF Finally, stop_child, SleepOver, handle_signal, childVars, TypeOK
<1>3. ipc' \in {"top", "second", "stop", "wait", "start", "wake", "sleep", "exited"}
  BY DEF Finally, stop_child, SleepOver, handle_signal, AfterStop, TypeOK
<1>4. (final' => ~running') /\ (ipc' = "exited" => final')
  <2>1. (final => ~running) /\ (ipc = "exited" => final)
    BY DEF TypeOK
  <2>2. CASE Finally
    BY <2>2 DEF Finally
  <2>3. CASE stop_child
    BY <2>1, <2>3 DEF stop_child, AfterStop
  <2>4. CASE SleepOver
    BY <2>1, <2>4 DEF SleepOver
  <2>5. CASE handle_signal
    BY <2>1, <2>5 DEF handle_signal
  <2>. QED
    BY <2>2, <2>3, <2>4, <2>5
<1>5. TypeOK'
  BY <1>1, <1>2, <1>3, <1>4 DEF TypeOK, Alive
<1>6. StoppedInv'
  BY <1>1 DEF Finally, stop_child, SleepOver, handle_signal, StoppedInv, Alive
<1>7. PathInv'
  BY <1>1 DEF Finally, stop_child, SleepOver, handle_signal, AfterStop, PathInv
<1>8. LitInv' /\ OffHasWaker'
  BY <1>1 DEF LitInv, OffHasWaker
<1>9. ipc' = "exited" => ipc = "exited"
  BY DEF Finally, stop_child, SleepOver, handle_signal, AfterStop
<1>10. ExitLeavesOutputOn'
  BY <1>1, <1>9 DEF ExitLeavesOutputOn, Alive
<1>. QED
  BY <1>5, <1>6, <1>7, <1>8, <1>10

(* What is left of a swayidle that dies. *)
LEMMA DiesFacts ==
  ASSUME IInv, Alive, Dies
  PROVE  /\ ~Alive' /\ swayidle' = "dead" /\ UNCHANGED <<term, stirred>> /\ Installed
         /\ stray' \in [{"on", "off"} -> Nat]
         /\ output' \in {"on", "lost", "late"} /\ (output' = output \/ output = "off")
         /\ failures' \in 0 .. MaxFailures
<1>1. /\ failures \in 0 .. MaxFailures /\ stray \in [{"on", "off"} -> Nat]
      /\ output \in Output /\ Installed
  BY DEF IInv, TypeOK
<1>2. /\ swayidle' = "dead" /\ UNCHANGED <<term, stirred>>
      /\ output' = IF output = "off" THEN "lost" ELSE output
      /\ failures' = failures + 1 /\ failures < MaxFailures
  BY DEF Dies
<1>3. stray' \in [{"on", "off"} -> Nat]
  <2>1. \/ stray' = [stray EXCEPT !["off"] = @ + 1]
        \/ stray' = [stray EXCEPT !["on"] = @ + 1]
        \/ stray' = stray
    BY DEF Dies
  <2>. QED
    BY <1>1, <2>1
<1>4. failures' \in 0 .. MaxFailures
  BY <1>1, <1>2, Bounds
<1>5. ~Alive'
  BY <1>2 DEF Alive
<1>. QED
  BY <1>1, <1>2, <1>3, <1>4, <1>5 DEF Output

LEMMA ChildWaitInv == IInv /\ ChildWait => IInv'
<1>. SUFFICES ASSUME IInv, ChildWait PROVE IInv'
  OBVIOUS
<1>. USE DEF IInv
<1>1. ipc = "wait" /\ ipc' = (IF final THEN "wake" ELSE "start")
      /\ UNCHANGED <<running, wanted_timeout, active_timeout, final, config, edits>>
  BY DEF ChildWait, AfterStop, fileVars
<1>2. /\ ~Alive' /\ stray' \in [{"on", "off"} -> Nat]
      /\ term' \in BOOLEAN /\ stirred' \in BOOLEAN
      /\ swayidle' \in {"none", "dead"} /\ output' \in Output
      /\ failures' \in 0 .. MaxFailures
      /\ OffHasWaker' /\ LitInv'
  <2>1. CASE ~Alive /\ UNCHANGED <<swayidle, term, stray, stirred, output, failures>>
    BY <2>1 DEF TypeOK, Alive, OffHasWaker, LitInv
  <2>2. CASE Alive /\ Dies
    <3>1. term \in BOOLEAN /\ stirred \in BOOLEAN
      BY DEF TypeOK
    <3>. QED
      BY <2>2, <3>1, DiesFacts DEF Output, OffHasWaker, LitInv
  <2>. QED
    BY <2>1, <2>2 DEF ChildWait, childVars
<1>3. TypeOK'
  BY <1>1, <1>2 DEF TypeOK
<1>4. StoppedInv'
  BY <1>2 DEF StoppedInv
<1>5. PathInv'
  BY <1>1 DEF PathInv
<1>6. ExitLeavesOutputOn'
  BY <1>1 DEF ExitLeavesOutputOn
<1>. QED
  BY <1>2, <1>3, <1>4, <1>5, <1>6

LEMMA StartChildInv == IInv /\ StartChild => IInv'
<1>. SUFFICES ASSUME IInv, StartChild PROVE IInv'
  OBVIOUS
<1>. USE DEF IInv
<1>1. ipc = "start" /\ ~final /\ ~Alive /\ wanted_timeout \in Choices
  BY DEF StartChild, PathInv, StoppedInv
<1>2. /\ UNCHANGED <<running, wanted_timeout, final, output, config, edits, failures, stray>>
      /\ active_timeout' = wanted_timeout
      /\ term' = FALSE /\ stirred' = FALSE
      /\ ipc' = IF wanted_timeout = "never" THEN "wake" ELSE "sleep"
      /\ swayidle' = IF wanted_timeout \in Timed /\ Installed THEN "watching" ELSE "none"
  BY DEF StartChild, start_swayidle, fileVars
<1>3. TypeOK'
  <2>1. swayidle' \in {"none", "watching"} /\ (Alive' => wanted_timeout \in Timed /\ Installed)
    BY <1>2 DEF Alive
  <2>2. (Alive => Installed /\ active_timeout \in Timed)'
    BY <1>2, <2>1 DEF Timed
  <2>3. ipc' \in {"wake", "sleep"} /\ active_timeout' \in Choices \cup {""}
    BY <1>1, <1>2
  <2>4. /\ swayidle' \in {"none", "dead", "watching", "turning-off", "idle", "turning-on"}
        /\ term' \in BOOLEAN /\ stirred' \in BOOLEAN
    BY <1>2, <2>1
  <2>5. /\ (running \in BOOLEAN /\ final \in BOOLEAN /\ (final => ~running))'
        /\ (wanted_timeout \in Choices \cup {""} /\ stray \in [{"on", "off"} -> Nat])'
        /\ (output \in Output /\ config \in [1 .. 2 -> Contents])'
        /\ (edits \in 0 .. MaxEdits /\ failures \in 0 .. MaxFailures)'
    BY <1>2 DEF TypeOK
  <2>. QED
    BY <2>2, <2>3, <2>4, <2>5 DEF TypeOK
<1>4. StoppedInv'
  <2>1. ipc' = "wake" => wanted_timeout \notin Timed
    BY <1>2 DEF Timed
  <2>. QED
    BY <1>2, <2>1 DEF StoppedInv, Alive
<1>5. PathInv' /\ LitInv' /\ ExitLeavesOutputOn'
  BY <1>1, <1>2 DEF PathInv, LitInv, ExitLeavesOutputOn
<1>6. OffHasWaker'
  BY <1>1, <1>2 DEF OffHasWaker, Alive
<1>. QED
  BY <1>3, <1>4, <1>5, <1>6

LEMMA WlopmInv == IInv /\ wlopm_on => IInv'
<1>. SUFFICES ASSUME IInv, wlopm_on PROVE IInv'
  OBVIOUS
<1>. USE DEF IInv
<1>1. /\ ipc = "wake" /\ ~Alive
      /\ UNCHANGED <<running, wanted_timeout, active_timeout, final, swayidle, term, stray, stirred,
                     config, edits, failures>>
      /\ output' = IF Installed THEN "on" ELSE output
      /\ ipc' = IF final THEN "exited" ELSE "sleep"
  BY DEF wlopm_on, StoppedInv, childVars, fileVars
<1>2. TypeOK'
  <2>1. output' \in Output /\ ~Alive' /\ ipc' \in {"exited", "sleep"} /\ (ipc' = "exited" => final')
    BY <1>1 DEF TypeOK, Alive, Output
  <2>. QED
    BY <1>1, <2>1 DEF TypeOK, Timed
<1>3. StoppedInv' /\ PathInv' /\ LitInv'
  BY <1>1 DEF StoppedInv, PathInv, LitInv, Alive
<1>4. output' = "on"
  BY <1>1 DEF LitInv
<1>5. OffHasWaker' /\ ExitLeavesOutputOn'
  BY <1>1, <1>4 DEF OffHasWaker, ExitLeavesOutputOn, Alive
<1>. QED
  BY <1>2, <1>3, <1>5

----------------------------------------------------------------------------
(* swayidle, wlopm and the person *)

LEMMA SwayidleInv == IInv /\ Swayidle => IInv'
<1>. SUFFICES ASSUME IInv, Swayidle PROVE IInv'
  OBVIOUS
<1>. USE DEF IInv
<1>1. /\ Alive
      /\ UNCHANGED <<ipc, running, wanted_timeout, active_timeout, final, stray, config, edits, failures>>
      /\ Installed
  BY DEF TypeOK, Swayidle, TimeoutCommand, TurnedOff, ResumeCommand, TurnedOn, Terminated, ChildStep,
         mainVars, fileVars
<1>2. ipc \notin {"start", "wake", "exited"}
  BY <1>1 DEF StoppedInv
<1>3. /\ swayidle' \in {"dead", "watching", "turning-off", "idle", "turning-on"}
      /\ UNCHANGED term /\ stirred' \in BOOLEAN /\ output' \in Output
  BY DEF Swayidle, TimeoutCommand, TurnedOff, ResumeCommand, TurnedOn, Terminated, TypeOK, Output
<1>4. TypeOK'
  <2>1. ControlType'
    BY <1>1, ControlStays
  <2>. QED
    BY <1>1, <1>3, <2>1 DEF TypeOK, ControlType
<1>5. OffHasWaker'
  BY <1>1 DEF OffHasWaker, Swayidle, TimeoutCommand, TurnedOff, ResumeCommand, TurnedOn, Terminated
<1>. QED
  BY <1>1, <1>2, <1>4, <1>5 DEF StoppedInv, PathInv, LitInv, ExitLeavesOutputOn

LEMMA EnvironmentInv ==
  ASSUME IInv,
         Crash \/ Input \/ Edit \/ \E switch \in {"on", "off"} : StrayDone(switch)
  PROVE  IInv'
<1>. USE DEF IInv
<1>1. UNCHANGED <<ipc, running, wanted_timeout, active_timeout, final>>
  BY DEF StrayDone, Crash, Input, Edit, mainVars
<1>2. PathInv' /\ ControlType'
  BY <1>1, ControlStays DEF PathInv
<1>3. ASSUME NEW switch \in {"on", "off"}, StrayDone(switch) PROVE IInv'
  <2>1. /\ stray[switch] > 0 /\ stray' = [stray EXCEPT ![switch] = @ - 1]
        /\ output' = IF switch = "on" THEN "on" ELSE IF output = "off" THEN "off" ELSE "late"
        /\ UNCHANGED <<swayidle, term, stirred, config, edits, failures>>
    BY <1>3 DEF StrayDone, fileVars
  <2>2. stray' \in [{"on", "off"} -> Nat]
    <3>1. stray \in [{"on", "off"} -> Nat]
      BY DEF TypeOK
    <3>2. stray[switch] - 1 \in Nat
      BY <2>1, <3>1
    <3>. QED
      BY <2>1, <3>1, <3>2
  <2>3. TypeOK'
    BY <1>1, <1>2, <2>1, <2>2 DEF TypeOK, ControlType, Alive, Output
  <2>4. Installed
    BY <2>1 DEF LitInv
  <2>. QED
    BY <1>1, <1>2, <2>1, <2>3, <2>4 DEF StoppedInv, LitInv, OffHasWaker, ExitLeavesOutputOn, Alive
<1>4. CASE Crash
  <2>1. Alive /\ Dies /\ UNCHANGED <<config, edits>>
    BY <1>4 DEF Crash, fileVars
  <2>2. /\ ~Alive' /\ swayidle' = "dead" /\ UNCHANGED <<term, stirred>> /\ Installed
        /\ stray' \in [{"on", "off"} -> Nat] /\ output' \in {"on", "lost", "late"}
        /\ failures' \in 0 .. MaxFailures
    BY <2>1, DiesFacts
  <2>3. TypeOK'
    BY <1>1, <1>2, <2>1, <2>2 DEF TypeOK, ControlType, Output
  <2>4. ipc # "exited"
    BY <2>1 DEF StoppedInv
  <2>. QED
    BY <1>1, <1>2, <2>2, <2>3, <2>4 DEF StoppedInv, LitInv, OffHasWaker, ExitLeavesOutputOn
<1>5. CASE Input \/ Edit
  <2>1. UNCHANGED <<swayidle, term, stray, output, failures>>
    BY <1>5 DEF Input, Edit, childVars
  <2>2. stirred' \in BOOLEAN /\ config' \in [1 .. 2 -> Contents] /\ edits' \in 0 .. MaxEdits
    <3>1. CASE Input
      BY <3>1 DEF Input, TypeOK, fileVars
    <3>2. CASE Edit
      <4>1. edits < MaxEdits /\ edits' = edits + 1 /\ edits \in 0 .. MaxEdits
        BY <3>2 DEF Edit, TypeOK
      <4>2. edits' \in 0 .. MaxEdits
        BY <4>1, Bounds
      <4>3. config' \in [1 .. 2 -> Contents]
        BY <3>2 DEF Edit, TypeOK
      <4>. QED
        BY <3>2, <4>2, <4>3 DEF Edit, TypeOK, childVars
    <3>. QED
      BY <1>5, <3>1, <3>2
  <2>3. TypeOK'
    <3>1. term' \in BOOLEAN
      BY <2>1 DEF TypeOK
    <3>2. Alive' => Installed /\ active_timeout' \in Timed
      BY <1>1, <2>1 DEF TypeOK, Alive
    <3>. QED
      BY <1>1, <1>2, <2>1, <2>2, <3>1, <3>2 DEF TypeOK, ControlType
  <2>. QED
    BY <1>1, <1>2, <2>1, <2>3 DEF StoppedInv, LitInv, OffHasWaker, ExitLeavesOutputOn, Alive
<1>. QED
  BY <1>3, <1>4, <1>5

LEMMA StepInv == IInv /\ [Next]_vars => IInv'
<1>. SUFFICES ASSUME IInv, [Next]_vars PROVE IInv'
  OBVIOUS
<1>1. CASE Turn \/ SecondFile
  BY <1>1, TurnInv
<1>2. CASE Finally \/ stop_child \/ SleepOver \/ handle_signal
  BY <1>2, MainInv
<1>3. CASE ChildWait
  BY <1>3, ChildWaitInv
<1>4. CASE StartChild
  BY <1>4, StartChildInv
<1>5. CASE wlopm_on
  BY <1>5, WlopmInv
<1>6. CASE Swayidle
  BY <1>6, SwayidleInv
<1>7. CASE Crash \/ Input \/ Edit \/ \E switch \in {"on", "off"} : StrayDone(switch)
  BY <1>7, EnvironmentInv
<1>8. CASE UNCHANGED vars
  <2>1. UNCHANGED <<ipc, running, wanted_timeout, active_timeout, final, swayidle, term, stray, stirred,
                    output, config, edits, failures>>
    BY <1>8 DEF vars, mainVars, childVars, fileVars
  <2>2. ControlType'
    BY <2>1, ControlStays DEF IInv
  <2>3. TypeOK'
    <3>1. term' \in BOOLEAN /\ stirred' \in BOOLEAN
      BY <2>1 DEF IInv, TypeOK
    <3>2. Alive' => Installed /\ active_timeout' \in Timed
      BY <2>1 DEF IInv, TypeOK, Alive
    <3>. QED
      BY <2>1, <2>2, <3>1, <3>2 DEF IInv, TypeOK, ControlType
  <2>. QED
    BY <2>1, <2>3 DEF IInv, StoppedInv, PathInv, LitInv, OffHasWaker, ExitLeavesOutputOn, Alive
<1>. QED
  BY <1>1, <1>2, <1>3, <1>4, <1>5, <1>6, <1>7, <1>8 DEF Next, MainStep

----------------------------------------------------------------------------
(* The inductive invariant holds of the daemon. *)
THEOREM Invariance == Spec => []IInv
<1>1. Init => IInv
  BY InitInv
<1>2. IInv /\ [Next]_vars => IInv'
  BY StepInv
<1>. QED
  BY <1>1, <1>2, PTL DEF Spec

(* The state of cardputer-zero-idle has its type: a swayidle runs only with *)
(* a timeout that has a duration.                                           *)
THEOREM TypeCorrect == Spec => []TypeOK
<1>1. IInv => TypeOK
  BY DEF IInv
<1>. QED
  BY <1>1, Invariance, PTL

(* stop_child and start_swayidle never leave an output that a swayidle has  *)
(* turned off without a swayidle that turns it on again, unless one failed  *)
(* since.                                                                   *)
THEOREM Wakes == Spec => []OffHasWaker
<1>1. IInv => OffHasWaker
  BY DEF IInv
<1>. QED
  BY <1>1, Invariance, PTL

(* The finally block of main leaves no swayidle behind and the output on,   *)
(* whatever failed before; a wlopm that outlived its swayidle may turn it   *)
(* off afterwards.                                                          *)
THEOREM ExitIsClean == Spec => []ExitLeavesOutputOn
<1>1. IInv => ExitLeavesOutputOn
  BY DEF IInv
<1>. QED
  BY <1>1, Invariance, PTL

----------------------------------------------------------------------------
(* Each turn of the loop puts what it read into effect *)

(* The output is on once "never" is in effect, that is, from wlopm_on to    *)
(* the end of the next choice's stop_child, whatever failed before, unless  *)
(* a wlopm that outlived its swayidle turns it off (main, the branch for    *)
(* wanted_timeout "never").                                                 *)
NeverIsLit ==
    active_timeout = "never" /\ (ipc = "wake" => final) => output \in {"on", "late"}

(* A turn that goes to sleep leaves the choice it has read in effect and a  *)
(* swayidle running exactly when that one has a duration, although the      *)
(* child may have died, been replaced or been killed in between (main, its  *)
(* loop).                                                                   *)
TurnsApply ==
    [][ipc # "sleep" /\ ipc' = "sleep" =>
         /\ active_timeout' = wanted_timeout' /\ active_timeout' \in Choices
         /\ Alive' <=> active_timeout' \in Timed /\ Installed]_vars

(* While the loop runs, there is no child only where none is wanted;        *)
(* without this a turn that changes nothing could find none.                *)
SettingInv ==
    /\ ipc = "wake" /\ ~final => active_timeout = "never" /\ active_timeout = wanted_timeout
    /\ swayidle = "none" => active_timeout \notin Timed \/ ~Installed
    /\ NeverIsLit

LEMMA SettingDecide ==
  ASSUME IInv, SettingInv, NEW choice \in Choices, Decide(choice),
         ipc \in {"top", "second"}, UNCHANGED <<active_timeout, final, output>>
  PROVE  /\ SettingInv'
         /\ ipc' = "sleep" =>
              /\ active_timeout' = wanted_timeout' /\ active_timeout' \in Choices
              /\ Alive' <=> active_timeout' \in Timed /\ Installed
<1>1. TypeOK /\ wanted_timeout' = choice
      /\ ipc' = IF choice # active_timeout THEN "stop" ELSE "sleep"
  BY DEF IInv, Decide
<1>2. CASE choice = active_timeout /\ swayidle = "dead"
  <2>1. swayidle' = IF active_timeout \in Timed /\ Installed THEN "watching" ELSE "none"
    BY <1>2 DEF Decide, start_swayidle
  <2>. QED
    BY <1>1, <1>2, <2>1 DEF SettingInv, NeverIsLit, Alive
<1>3. CASE ~(choice = active_timeout /\ swayidle = "dead")
  <2>1. UNCHANGED swayidle
    BY <1>3 DEF Decide, childVars
  <2>2. choice = active_timeout => (Alive <=> active_timeout \in Timed /\ Installed)
    BY <1>1, <1>3 DEF TypeOK, SettingInv, Alive
  <2>. QED
    BY <1>1, <1>3, <2>1, <2>2 DEF SettingInv, NeverIsLit, Alive
<1>. QED
  BY <1>2, <1>3

LEMMA SettingMain ==
  ASSUME IInv, SettingInv, MainStep
  PROVE  /\ SettingInv'
         /\ ipc # "sleep" /\ ipc' = "sleep" =>
              /\ active_timeout' = wanted_timeout' /\ active_timeout' \in Choices
              /\ Alive' <=> active_timeout' \in Timed /\ Installed
<1>1. TypeOK /\ StoppedInv /\ PathInv /\ LitInv
  BY DEF IInv
<1>2. CASE Turn \/ SecondFile
  <2>1. UNCHANGED <<active_timeout, final, output>> /\ ipc \in {"top", "second"}
    BY <1>2 DEF Turn, SecondFile
  <2>2. CASE \E choice \in Choices : Decide(choice)
    BY <2>1, <2>2, SettingDecide
  <2>3. CASE ipc' = "second" /\ UNCHANGED <<wanted_timeout, childVars>>
    BY <2>1, <2>3 DEF childVars, SettingInv, NeverIsLit
  <2>. QED
    BY <1>2, <2>2, <2>3, NormalizeType DEF Turn, SecondFile
<1>3. CASE Finally \/ stop_child
  <2>1. /\ UNCHANGED <<active_timeout, wanted_timeout, swayidle, output>>
        /\ ipc' \in {"stop", "wait", "start"} \/ (ipc' = "wake" /\ final')
        /\ ipc # "wake"
    BY <1>3 DEF Finally, stop_child, AfterStop, childVars
  <2>. QED
    BY <2>1 DEF SettingInv, NeverIsLit
<1>4. CASE ChildWait
  <2>1. /\ UNCHANGED <<active_timeout, wanted_timeout>>
        /\ ipc = "wait" /\ (ipc' = "start" \/ (ipc' = "wake" /\ final'))
    BY <1>4 DEF ChildWait, AfterStop
  <2>2. /\ swayidle' = "none" => swayidle = "none"
        /\ output' = output \/ output = "off"
    <3>1. CASE Alive /\ Dies
      BY <3>1, DiesFacts
    <3>2. CASE UNCHANGED <<childVars, output>>
      BY <3>2 DEF childVars
    <3>. QED
      BY <1>4, <3>1, <3>2 DEF ChildWait
  <2>. QED
    BY <2>1, <2>2 DEF SettingInv, NeverIsLit
<1>5. CASE StartChild
  <2>1. /\ active_timeout' = wanted_timeout /\ wanted_timeout' = wanted_timeout
        /\ ipc' = IF wanted_timeout = "never" THEN "wake" ELSE "sleep"
        /\ swayidle' = IF wanted_timeout \in Timed /\ Installed THEN "watching" ELSE "none"
        /\ final' = final /\ ~final /\ wanted_timeout \in Choices
    BY <1>1, <1>5 DEF StartChild, start_swayidle, PathInv
  <2>. QED
    BY <2>1 DEF SettingInv, NeverIsLit, Alive
<1>6. CASE wlopm_on
  <2>1. /\ UNCHANGED <<active_timeout, wanted_timeout, swayidle, final>> /\ ipc = "wake"
        /\ output' = "on"
        /\ ipc' = IF final THEN "exited" ELSE "sleep"
        /\ ~Alive /\ ~Alive'
    BY <1>1, <1>6 DEF wlopm_on, childVars, StoppedInv, LitInv, Alive
  <2>2. "never" \in Choices /\ "never" \notin Timed
    BY IdleAssumption DEF Choices, Timed
  <2>. QED
    BY <2>1, <2>2 DEF SettingInv, NeverIsLit
<1>7. CASE SleepOver
  BY <1>7 DEF SleepOver, childVars, SettingInv, NeverIsLit
<1>. QED
  BY <1>2, <1>3, <1>4, <1>5, <1>6, <1>7 DEF MainStep

LEMMA SettingOther ==
  ASSUME IInv, SettingInv, [Next]_vars, ~MainStep
  PROVE  SettingInv' /\ ipc' = ipc
<1>1. UNCHANGED <<ipc, wanted_timeout, active_timeout, final>>
  BY DEF Next, Swayidle, TimeoutCommand, TurnedOff, ResumeCommand, TurnedOn, Terminated, ChildStep,
     handle_signal, StrayDone, Crash, Input, Edit, mainVars, vars
<1>2. /\ swayidle' = "none" => swayidle = "none"
      /\ output' \in {"on", "late"} \/ output' = output \/ output = "off" \/ Alive
  <2>1. CASE Crash
    BY <2>1, DiesFacts DEF Crash
  <2>2. ASSUME NEW switch \in {"on", "off"}, StrayDone(switch)
        PROVE  UNCHANGED swayidle /\ (output' \in {"on", "late"} \/ output' = output)
    BY <2>2 DEF StrayDone
  <2>3. CASE Swayidle \/ handle_signal \/ Input \/ Edit \/ UNCHANGED vars
    BY <2>3 DEF Swayidle, TimeoutCommand, TurnedOff, ResumeCommand, TurnedOn, Terminated,
       ChildStep, handle_signal, Input, Edit, childVars, vars
  <2>. QED
    BY <2>1, <2>2, <2>3 DEF Next
<1>3. Alive => active_timeout # "never"
  BY DEF IInv, TypeOK, Timed
<1>. QED
  BY <1>1, <1>2, <1>3 DEF SettingInv, NeverIsLit

LEMMA SettingStep == IInv /\ SettingInv /\ [Next]_vars => SettingInv'
  BY SettingMain, SettingOther

LEMMA SettingAlways == Spec => []SettingInv
<1>1. Init => SettingInv
  <2>. SUFFICES ASSUME Init PROVE SettingInv
    OBVIOUS
  <2>2. ipc = "top" /\ active_timeout = "" /\ output = "on" /\ "" \notin Timeouts
    BY IdleAssumption DEF Init
  <2>. QED
    BY <2>2 DEF SettingInv, NeverIsLit, Timed
<1>. QED
  BY <1>1, Invariance, SettingStep, PTL DEF Spec

(* NeverIsLit holds in every state: what NeverMeansOn says, except that the *)
(* choice is put into effect.                                               *)
THEOREM NeverAlwaysLit == Spec => []NeverIsLit
<1>1. SettingInv => NeverIsLit
  BY DEF SettingInv
<1>. QED
  BY <1>1, SettingAlways, PTL

(* Every turn applies the setting: what SettingApplied says, except that    *)
(* turns end.                                                               *)
THEOREM TurnsAlwaysApply == Spec => TurnsApply
<1>1. IInv /\ SettingInv /\ [Next]_vars
        => [ipc # "sleep" /\ ipc' = "sleep" =>
              /\ active_timeout' = wanted_timeout' /\ active_timeout' \in Choices
              /\ Alive' <=> active_timeout' \in Timed /\ Installed]_vars
  BY SettingMain, SettingOther
<1>. QED
  BY <1>1, Invariance, SettingAlways, PTL DEF Spec, TurnsApply

=============================================================================
