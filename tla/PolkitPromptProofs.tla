------------------------- MODULE PolkitPromptProofs -------------------------
(***************************************************************************)
(* Proofs about PolkitPrompt, for any limits, any characters and any       *)
(* faults.                                                                 *)
(***************************************************************************)
EXTENDS PolkitPrompt, TLAPS

(* Nothing is decided or typed before the window is up, nothing is written  *)
(* before the end, and a prompt that accepts no longer runs.                *)
ContractInv ==
    /\ running \in BOOLEAN /\ accepted \in BOOLEAN
    /\ pc = "main" => running /\ secret = <<>>
    /\ pc # "ended" => stdout = <<>>
    /\ accepted => ~running

(* What the contract sees of the window. *)
Seen == <<pc, status, running, accepted, secret, stdout>>

(* Steps of the thread that neither type, nor erase, nor decide, nor end. *)
Plain ==
    \/ LoopTurn \/ PollTimeout \/ DispatchFails \/ DispatchDone
    \/ surface_configure \/ seat_capabilities \/ keyboard_keymap \/ buffer_release
    \/ KeyUnmapped \/ KeyOther

(* Steps of the world other than a signal. *)
World ==
    \/ \E sym \in Keys : Press(sym)
    \/ \E b \in Buffers : ReleaseBuffer(b)
    \/ CloseToplevel \/ Replug \/ CompositorExits

----------------------------------------------------------------------------
LEMMA PlainStep ==
    ASSUME Plain
    PROVE  /\ pc \notin {"main", "ended"} /\ pc' \notin {"main", "ended"}
           /\ UNCHANGED <<status, running, accepted, secret, stdout>>
  BY DEF Plain, LoopTurn, PollTimeout, DispatchFails, DispatchDone, surface_configure,
     seat_capabilities, keyboard_keymap, buffer_release, KeyUnmapped, KeyOther, Key, Dispatch

LEMMA WorldStep ==
    ASSUME World
    PROVE  UNCHANGED winVars
  BY DEF World, Press, ReleaseBuffer, CloseToplevel, Replug, CompositorExits, Send

(* The steps of the prompt, by what they do to the text and the decision. *)
LEMMA StepKinds ==
    ASSUME [Next]_vars
    PROVE  \/ init \/ init_fails \/ LoopExit \/ Killed
           \/ toplevel_close \/ KeyReturn \/ KeyEscape \/ KeyBackSpace \/ handle_text
           \/ Plain \/ UNCHANGED Seen
  <1>1. World => UNCHANGED Seen
    BY WorldStep DEF winVars, Seen
  <1> QED
    BY <1>1 DEF Next, PromptRuns, Environment, Plain, World, vars, winVars, Seen

----------------------------------------------------------------------------
(* The invariant *)

LEMMA ContractInvInit == Init => ContractInv
  BY DEF Init, ContractInv

LEMMA ContractInvStep == ContractInv /\ [Next]_vars => ContractInv'
  <1> SUFFICES ASSUME ContractInv, [Next]_vars PROVE ContractInv'
    OBVIOUS
  <1>1. CASE init \/ init_fails \/ LoopExit \/ Killed
    BY <1>1 DEF ContractInv, init, init_fails, LoopExit, Killed
  <1>2. CASE toplevel_close \/ KeyReturn \/ KeyEscape
    BY <1>2 DEF ContractInv, toplevel_close, KeyReturn, KeyEscape, Key, Dispatch, submit, cancel
  <1>3. CASE KeyBackSpace \/ handle_text
    BY <1>3 DEF ContractInv, KeyBackSpace, handle_text, Key, Dispatch
  <1>4. CASE Plain
    BY <1>4, PlainStep DEF ContractInv
  <1>5. CASE UNCHANGED Seen
    BY <1>5 DEF ContractInv, Seen
  <1> QED
    BY <1>1, <1>2, <1>3, <1>4, <1>5, StepKinds

----------------------------------------------------------------------------
(* The refinement *)

LEMMA ContractInit == Init => Contract!PromptInit
  BY DEF Init, Contract!PromptInit

LEMMA ContractStep ==
    ContractInv /\ [Next]_vars => [Contract!PromptStep]_(Contract!promptVars)
  <1> SUFFICES ASSUME ContractInv, [Next]_vars
               PROVE  Contract!PromptStep \/ UNCHANGED Contract!promptVars
    OBVIOUS
  <1>1. CASE init
    <2>1. Contract!Open
      BY <1>1 DEF ContractInv, init, Contract!Open
    <2> QED
      BY <2>1 DEF Contract!PromptStep
  <1>2. CASE init_fails
    <2>1. Contract!FailsToOpen
      BY <1>2 DEF ContractInv, init_fails, Contract!FailsToOpen
    <2> QED
      BY <2>1 DEF Contract!PromptStep
  <1>3. CASE LoopExit
    <2>1. CASE ~running
      <3>1. Contract!Finish
        BY <1>3, <2>1 DEF ContractInv, LoopExit, Contract!Finish
      <3> QED
        BY <3>1 DEF Contract!PromptStep
    <2>2. CASE running
      <3>1. Contract!Abort
        BY <1>3, <2>2 DEF ContractInv, LoopExit, Contract!Abort
      <3> QED
        BY <3>1 DEF Contract!PromptStep
    <2> QED
      BY <2>1, <2>2
  <1>4. CASE Killed
    <2>1. CASE pc = "main"
      <3>1. Contract!FailsToOpen
        BY <1>4, <2>1 DEF ContractInv, Killed, Signalled, Contract!FailsToOpen
      <3> QED
        BY <3>1 DEF Contract!PromptStep
    <2>2. CASE pc # "main"
      <3>1. Contract!Abort
        BY <1>4, <2>2 DEF ContractInv, Killed, Signalled, Contract!Abort
      <3> QED
        BY <3>1 DEF Contract!PromptStep
    <2> QED
      BY <2>1, <2>2
  <1>5. CASE toplevel_close \/ KeyReturn \/ KeyEscape
    <2>1. Contract!Decide
      BY <1>5 DEF ContractInv, toplevel_close, KeyReturn, KeyEscape, Key, Dispatch, submit,
         cancel, Contract!Decide
    <2> QED
      BY <2>1 DEF Contract!PromptStep
  <1>6. CASE KeyBackSpace
    <2>1. CASE secret = <<>>
      BY <1>6, <2>1 DEF KeyBackSpace, Key, Dispatch, Contract!promptVars
    <2>2. CASE secret # <<>>
      <3>1. Contract!Erase
        BY <1>6, <2>2 DEF KeyBackSpace, Key, Dispatch, Contract!Erase
      <3> QED
        BY <3>1 DEF Contract!PromptStep
    <2> QED
      BY <2>1, <2>2
  <1>7. CASE handle_text
    <2>1. CASE running /\ Len(secret) < SecretLimit
      <3>1. Contract!Type
        BY <1>7, <2>1 DEF handle_text, Key, Dispatch, Contract!Type
      <3> QED
        BY <3>1 DEF Contract!PromptStep
    <2>2. CASE ~(running /\ Len(secret) < SecretLimit)
      BY <1>7, <2>2 DEF handle_text, Key, Dispatch, Contract!promptVars
    <2> QED
      BY <2>1, <2>2
  <1>8. CASE Plain
    BY <1>8, PlainStep DEF Contract!promptVars
  <1>9. CASE UNCHANGED Seen
    BY <1>9 DEF Seen, Contract!promptVars
  <1> QED
    BY <1>1, <1>2, <1>3, <1>4, <1>5, <1>6, <1>7, <1>8, <1>9, StepKinds

(* The prompt implements its contract: every step of the window, whatever   *)
(* events are read together and whatever fails, is a step that the agent    *)
(* expects of it, or none (run, handle_keysym, handle_text).                *)
THEOREM PromptImplementsContract == Spec => KeepsContract
  <1>1. Spec => []ContractInv
    BY ContractInvInit, ContractInvStep, PTL DEF Spec
  <1> QED
    BY <1>1, ContractInit, ContractStep, PTL DEF Spec, KeepsContract, Contract!PromptSpec

----------------------------------------------------------------------------
(* What is on the screen *)

(* FieldShowsSecret at every point of run(). *)
ShownInv == pc # "ended" /\ ~dirty => screen = draw_password

LEMMA ShownInvStep == ShownInv /\ [Next]_vars => ShownInv'
  <1> SUFFICES ASSUME ShownInv, [Next]_vars PROVE ShownInv'
    OBVIOUS
  <1>1. CASE LoopTurn
    BY <1>1 DEF ShownInv, LoopTurn, render, draw_password
  <1>2. CASE init_fails \/ LoopExit \/ Killed
    BY <1>2 DEF ShownInv, init_fails, LoopExit, Killed
  <1>3. ASSUME pc' = pc \/ pc # "ended", dirty' <=> dirty, UNCHANGED <<screen, secret, echo>>
        PROVE  ShownInv'
    BY <1>3 DEF ShownInv, draw_password
  <1>4. CASE KeyBackSpace \/ handle_text \/ surface_configure
    <2>1. CASE dirty'
      BY <2>1 DEF ShownInv
    <2>2. CASE ~dirty'
      <3>1. pc # "ended" /\ ~dirty /\ UNCHANGED <<screen, secret, echo>>
        BY <1>4, <2>2 DEF KeyBackSpace, handle_text, surface_configure, Key, Dispatch
      <3> QED
        BY <1>3, <2>2, <3>1
    <2> QED
      BY <2>1, <2>2
  <1>5. CASE init \/ PollTimeout \/ DispatchFails \/ DispatchDone
    BY <1>3, <1>5 DEF init, PollTimeout, DispatchFails, DispatchDone, compVars
  <1>6. CASE seat_capabilities \/ keyboard_keymap \/ buffer_release \/ KeyUnmapped
             \/ toplevel_close \/ KeyReturn \/ KeyEscape \/ KeyOther
    BY <1>3, <1>6 DEF seat_capabilities, keyboard_keymap, buffer_release, KeyUnmapped,
       toplevel_close, KeyReturn, KeyEscape, KeyOther, Key, Dispatch
  <1>7. CASE World
    <2>1. UNCHANGED winVars /\ UNCHANGED screen
      BY <1>7, WorldStep DEF World, Press, ReleaseBuffer, CloseToplevel, Replug,
         CompositorExits, Send
    <2> QED
      BY <1>3, <2>1 DEF winVars
  <1>8. CASE UNCHANGED vars
    BY <1>3, <1>8 DEF vars, winVars, compVars
  <1> QED
    BY <1>1, <1>2, <1>4, <1>5, <1>6, <1>7, <1>8 DEF Next, PromptRuns, Environment, World

(* A window with no repaint due shows the text as it is: no change of the   *)
(* text and no frame that could not be drawn is forgotten (render, dirty_). *)
THEOREM FieldAlwaysShowsSecret == Spec => []FieldShowsSecret
  <1>1. Init => ShownInv
    BY DEF Init, ShownInv
  <1>2. ShownInv => FieldShowsSecret
    BY DEF ShownInv, FieldShowsSecret
  <1> QED
    BY <1>1, <1>2, ShownInvStep, PTL DEF Spec

----------------------------------------------------------------------------
(* Types *)

LEMMA Limits == SecretLimit \in Nat /\ ShownLimit \in Nat /\ MaxKeys \in Nat
  BY PromptAssumption

LEMMA TypeInit == Init => TypeOK
  <1> SUFFICES ASSUME Init PROVE TypeOK
    OBVIOUS
  <1>1. [Ev("keymap") EXCEPT !.n = 1] \in Event /\ Ev("configure") \in Event
    BY DEF Ev, Event, Keys
  <1>2. wire \in Seq(Event)
    BY <1>1 DEF Init
  <1>3. busy \in [Buffers -> BOOLEAN]
    BY DEF Init
  <1>4. Len(secret) <= SecretLimit /\ typed \in 0 .. MaxKeys
    BY Limits DEF Init
  <1>5. stdout \in Seq(Seq(Chars)) /\ secret \in Seq(Chars) /\ screen \in Seq(Chars \cup {"dot"})
    BY DEF Init
  <1>6. /\ pc \in {"main", "top", "poll", "dispatch", "ended"}
        /\ status \in {0, 1, Signalled}
        /\ held \in SUBSET Buffers /\ shown \in {0} \cup Buffers
    BY DEF Init
  <1>7. /\ running \in BOOLEAN /\ accepted \in BOOLEAN /\ dirty \in BOOLEAN
        /\ configured \in BOOLEAN /\ echo \in BOOLEAN /\ keyboard \in BOOLEAN
        /\ xkb \in BOOLEAN /\ lost \in BOOLEAN /\ comp \in BOOLEAN /\ plugged \in BOOLEAN
    BY DEF Init
  <1> QED
    BY <1>2, <1>3, <1>4, <1>5, <1>6, <1>7 DEF TypeOK

LEMMA FieldType == ASSUME TypeOK PROVE draw_password \in Seq(Chars \cup {"dot"})
  <1> DEFINE n == IF Len(secret) < ShownLimit THEN Len(secret) ELSE ShownLimit
  <1>1. secret \in Seq(Chars)
    BY DEF TypeOK
  <1>2. n \in Nat /\ n <= Len(secret)
    BY <1>1, Limits
  <1>3. \A i \in 1 .. n : secret[i] \in Chars
    BY <1>1, <1>2
  <1> HIDE DEF n
  <1>4. [i \in 1 .. n |-> IF echo THEN secret[i] ELSE "dot"] \in [1 .. n -> Chars \cup {"dot"}]
    BY <1>3
  <1>5. [i \in 1 .. n |-> IF echo THEN secret[i] ELSE "dot"] \in Seq(Chars \cup {"dot"})
    BY <1>2, <1>4
  <1> QED
    BY <1>5 DEF draw_password, n

LEMMA TypeRender == ASSUME TypeOK, LoopTurn PROVE TypeOK'
  <1>1. CASE dirty /\ configured /\ next_buffer # {}
    <2>1. PICK b \in next_buffer : /\ busy' = [busy EXCEPT ![b] = TRUE]
                                   /\ held' = held \cup {b}
                                   /\ shown' = b
      BY <1>1 DEF LoopTurn, render
    <2>2. b \in Buffers
      BY DEF next_buffer
    <2>3. busy' \in [Buffers -> BOOLEAN] /\ held' \in SUBSET Buffers /\ shown' \in Buffers
      BY <2>1, <2>2 DEF TypeOK
    <2>4. screen' \in Seq(Chars \cup {"dot"}) /\ dirty' = FALSE
      BY <1>1, FieldType DEF LoopTurn, render
    <2> QED
      BY <2>3, <2>4 DEF TypeOK, LoopTurn
  <1>2. CASE ~(dirty /\ configured /\ next_buffer # {})
    <2>1. UNCHANGED <<busy, held, shown, screen, dirty>>
      BY <1>2 DEF LoopTurn, render
    <2> QED
      BY <2>1 DEF TypeOK, LoopTurn
  <1> QED
    BY <1>1, <1>2

(* Steps that leave all but these alone. *)
LEMMA TypeKept ==
    ASSUME TypeOK, pc' \in {"main", "top", "poll", "dispatch", "ended"},
           lost' \in BOOLEAN, comp' \in BOOLEAN,
           UNCHANGED <<status, running, accepted, dirty, configured, secret, echo, keyboard, xkb,
                       busy, stdout, wire, held, shown, screen, plugged, typed>>
    PROVE  TypeOK'
  BY DEF TypeOK

LEMMA TypeMain ==
    ASSUME TypeOK,
           init \/ init_fails \/ LoopExit \/ PollTimeout \/ DispatchFails \/ DispatchDone \/ Killed
    PROVE  TypeOK'
  <1>1. CASE init \/ init_fails
    BY <1>1 DEF TypeOK, init, init_fails, compVars
  <1>2. CASE LoopExit
    <2>1. stdout' \in Seq(Seq(Chars)) /\ secret' \in Seq(Chars) /\ Len(secret') <= SecretLimit
      BY <1>2, Limits DEF TypeOK, LoopExit
    <2>2. status' \in {0, 1}
      BY <1>2 DEF LoopExit
    <2> QED
      BY <1>2, <2>1, <2>2 DEF TypeOK, LoopExit, compVars
  <1>3. CASE PollTimeout \/ DispatchFails \/ DispatchDone
    <2>1. CASE PollTimeout \/ DispatchDone
      <3>1. lost' \in BOOLEAN /\ comp' \in BOOLEAN
        BY <2>1 DEF PollTimeout, DispatchDone, compVars, TypeOK
      <3> QED
        BY <2>1, <3>1, TypeKept DEF PollTimeout, DispatchDone, compVars
    <2>2. CASE DispatchFails
      <3>1. lost' \in BOOLEAN /\ comp' \in BOOLEAN
        BY <2>2 DEF DispatchFails, compVars, TypeOK
      <3> QED
        BY <2>2, <3>1, TypeKept DEF DispatchFails, compVars
    <2> QED
      BY <1>3, <2>1, <2>2
  <1>4. CASE Killed
    <2>1. secret' \in Seq(Chars) /\ Len(secret') <= SecretLimit
      BY <1>4, Limits DEF Killed
    <2> QED
      BY <1>4, <2>1 DEF TypeOK, Killed, compVars
  <1> QED
    BY <1>1, <1>2, <1>3, <1>4

(* What a listener leaves alone, and the event it has taken. *)
LEMMA TypeDispatch ==
    ASSUME TypeOK, NEW kind, Dispatch(kind),
           running' \in BOOLEAN, accepted' \in BOOLEAN, dirty' \in BOOLEAN,
           configured' \in BOOLEAN, keyboard' \in BOOLEAN, xkb' \in BOOLEAN,
           busy' \in [Buffers -> BOOLEAN],
           secret' \in Seq(Chars), Len(secret') <= SecretLimit
    PROVE  TypeOK'
  <1>1. wire' \in Seq(Event)
    BY DEF TypeOK, Dispatch
  <1> QED
    BY <1>1 DEF TypeOK, Dispatch

LEMMA TypeListener ==
    ASSUME TypeOK,
           \/ surface_configure \/ toplevel_close \/ seat_capabilities \/ keyboard_keymap
           \/ buffer_release \/ KeyUnmapped \/ KeyReturn \/ KeyEscape \/ KeyOther
    PROVE  TypeOK'
  <1>1. CASE surface_configure
    BY <1>1, TypeDispatch DEF TypeOK, surface_configure
  <1>2. CASE toplevel_close
    BY <1>2, TypeDispatch DEF TypeOK, toplevel_close, cancel
  <1>3. CASE seat_capabilities
    BY <1>3, TypeDispatch DEF TypeOK, seat_capabilities
  <1>4. CASE keyboard_keymap
    <2>1. xkb' \in BOOLEAN
      BY <1>4 DEF TypeOK, keyboard_keymap
    <2> QED
      BY <1>4, <2>1, TypeDispatch DEF TypeOK, keyboard_keymap
  <1>5. CASE buffer_release
    BY <1>5, TypeDispatch DEF TypeOK, buffer_release
  <1>6. CASE KeyUnmapped
    BY <1>6, TypeDispatch DEF TypeOK, KeyUnmapped
  <1>7. CASE KeyReturn
    BY <1>7, TypeDispatch DEF TypeOK, KeyReturn, Key, submit
  <1>8. CASE KeyEscape
    BY <1>8, TypeDispatch DEF TypeOK, KeyEscape, Key, cancel
  <1>9. CASE KeyOther
    BY <1>9, TypeDispatch DEF TypeOK, KeyOther, Key
  <1> QED
    BY <1>1, <1>2, <1>3, <1>4, <1>5, <1>6, <1>7, <1>8, <1>9

LEMMA TypeText == ASSUME TypeOK, KeyBackSpace \/ handle_text PROVE TypeOK'
  <1>1. Dispatch("key") /\ UNCHANGED <<running, accepted, configured, keyboard, xkb, busy>>
    BY DEF KeyBackSpace, handle_text, Key
  <1>2. secret \in Seq(Chars) /\ Len(secret) <= SecretLimit
    BY DEF TypeOK
  <1>3. dirty' \in BOOLEAN
    BY DEF KeyBackSpace, handle_text, TypeOK
  <1>4. secret' \in Seq(Chars) /\ Len(secret') <= SecretLimit
    <2>1. CASE secret' = secret
      BY <1>2, <2>1
    <2>2. CASE KeyBackSpace /\ secret # <<>>
      <3>1. secret' = SubSeq(secret, 1, Len(secret) - 1)
        BY <2>2 DEF KeyBackSpace
      <3> QED
        BY <1>2, <2>2, <3>1, Limits
    <2>3. CASE handle_text /\ Len(secret) < SecretLimit /\ secret' = Append(secret, Head(wire).sym)
      <3>1. Head(wire).sym \in Chars
        BY <2>3 DEF handle_text, Key
      <3> QED
        BY <1>2, <2>3, <3>1, Limits
    <2> QED
      BY <2>1, <2>2, <2>3 DEF KeyBackSpace, handle_text
  <1> QED
    BY <1>1, <1>3, <1>4, TypeDispatch DEF TypeOK

(* What the world sends is an event, and what it does not touch is as it was. *)
LEMMA TypeSend ==
    ASSUME TypeOK, NEW events \in Seq(Event), Send(events),
           held' \in SUBSET Buffers, plugged' \in BOOLEAN, typed' \in 0 .. MaxKeys
    PROVE  TypeOK'
  <1>1. wire' \in Seq(Event)
    BY DEF TypeOK, Send
  <1> QED
    BY <1>1 DEF TypeOK, Send, winVars

LEMMA TypeWorld == ASSUME TypeOK, World PROVE TypeOK'
  <1>1. \A kind \in {"key", "close", "release", "caps", "keymap"} : Ev(kind) \in Event
    BY DEF Ev, Event, Keys
  <1>2. typed < MaxKeys => typed + 1 \in 0 .. MaxKeys
    BY Limits DEF TypeOK
  <1>3. ASSUME NEW sym \in Keys, Press(sym) PROVE TypeOK'
    <2>1. [Ev("key") EXCEPT !.sym = sym] \in Event
      BY <1>1, <1>3 DEF Ev, Event
    <2>2. <<[Ev("key") EXCEPT !.sym = sym]>> \in Seq(Event)
      BY <2>1
    <2>3. typed' \in 0 .. MaxKeys /\ held' \in SUBSET Buffers /\ plugged' \in BOOLEAN
      BY <1>2, <1>3 DEF Press, TypeOK
    <2>4. Send(<<[Ev("key") EXCEPT !.sym = sym]>>)
      BY <1>3 DEF Press
    <2> QED
      BY <2>2, <2>3, <2>4, TypeSend
  <1>4. ASSUME NEW b \in Buffers, ReleaseBuffer(b) PROVE TypeOK'
    <2>1. [Ev("release") EXCEPT !.n = b] \in Event
      BY <1>1, <1>4 DEF Ev, Event, Buffers
    <2>2. <<[Ev("release") EXCEPT !.n = b]>> \in Seq(Event)
      BY <2>1
    <2>3. typed' \in 0 .. MaxKeys /\ held' \in SUBSET Buffers /\ plugged' \in BOOLEAN
      BY <1>4 DEF ReleaseBuffer, TypeOK
    <2>4. Send(<<[Ev("release") EXCEPT !.n = b]>>)
      BY <1>4 DEF ReleaseBuffer
    <2> QED
      BY <2>2, <2>3, <2>4, TypeSend
  <1>5. CASE CloseToplevel
    <2>1. <<Ev("close")>> \in Seq(Event)
      BY <1>1
    <2> QED
      BY <1>5, <2>1, TypeSend DEF CloseToplevel, TypeOK
  <1>6. CASE Replug
    <2>1. typed' \in 0 .. MaxKeys /\ held' \in SUBSET Buffers /\ plugged' \in BOOLEAN
      BY <1>2, <1>6 DEF Replug, TypeOK
    <2>2. CASE Send(<<Ev("caps")>>)
      <3>1. <<Ev("caps")>> \in Seq(Event)
        BY <1>1
      <3> QED
        BY <2>1, <2>2, <3>1, TypeSend
    <2>3. ASSUME NEW n \in 0 .. 2,
                 Send(<<[Ev("caps") EXCEPT !.n = 1], [Ev("keymap") EXCEPT !.n = n]>>)
          PROVE  TypeOK'
      <3>1. [Ev("caps") EXCEPT !.n = 1] \in Event /\ [Ev("keymap") EXCEPT !.n = n] \in Event
        BY <1>1, <2>3 DEF Ev, Event
      <3>2. <<[Ev("caps") EXCEPT !.n = 1], [Ev("keymap") EXCEPT !.n = n]>> \in Seq(Event)
        BY <3>1
      <3> QED
        BY <2>1, <2>3, <3>2, TypeSend
    <2> QED
      BY <1>6, <2>2, <2>3 DEF Replug
  <1>7. CASE CompositorExits
    <2>1. /\ pc' \in {"main", "top", "poll", "dispatch", "ended"}
          /\ lost' \in BOOLEAN /\ comp' \in BOOLEAN
      BY <1>7 DEF CompositorExits, TypeOK, winVars
    <2> QED
      BY <1>7, <2>1, TypeKept DEF CompositorExits, winVars
  <1> QED
    BY <1>3, <1>4, <1>5, <1>6, <1>7 DEF World

LEMMA TypeStep == TypeOK /\ [Next]_vars => TypeOK'
  <1> SUFFICES ASSUME TypeOK, [Next]_vars PROVE TypeOK'
    OBVIOUS
  <1>1. CASE UNCHANGED vars
    BY <1>1 DEF TypeOK, vars, winVars, compVars
  <1>2. CASE World
    BY <1>2, TypeWorld
  <1> QED
    BY <1>1, <1>2, TypeRender, TypeMain, TypeListener, TypeText
    DEF Next, PromptRuns, Environment, World

(* The variables of the window keep their types; above all, the text never  *)
(* exceeds its limit, whatever keys are read together (handle_text).        *)
THEOREM PromptTypeCorrect == Spec => []TypeOK
  BY TypeInit, TypeStep, PTL DEF Spec

----------------------------------------------------------------------------
(* Buffers shared with the compositor *)

Release(e) == e.kind = "release"

(* A buffer the compositor may read is busy, and so is one whose release is *)
(* still under way; no release is sent twice.                               *)
BufInv ==
    /\ \A b \in held : busy[b]
    /\ \A i \in DOMAIN wire : Release(wire[i]) => busy[wire[i].n] /\ wire[i].n \notin held
    /\ \A i, j \in DOMAIN wire :
          Release(wire[i]) /\ Release(wire[j]) /\ wire[i].n = wire[j].n => i = j

LEMMA TailAt ==
    ASSUME NEW S, NEW s \in Seq(S), s # <<>>
    PROVE  \A i \in DOMAIN Tail(s) : i + 1 \in DOMAIN s /\ Tail(s)[i] = s[i + 1] /\ i \in Nat \ {0}
  OBVIOUS

LEMMA ConcatAt ==
    ASSUME NEW S, NEW s \in Seq(S), NEW t \in Seq(S)
    PROVE  \A i \in DOMAIN (s \o t) :
              \/ i \in DOMAIN s /\ (s \o t)[i] = s[i]
              \/ /\ i \notin DOMAIN s /\ i - Len(s) \in DOMAIN t
                 /\ (s \o t)[i] = t[i - Len(s)]
  OBVIOUS

(* The events of a step are those there were, one place further on or not,  *)
(* or they are no releases.                                                 *)
LEMMA BufKept ==
    ASSUME BufInv, UNCHANGED <<busy, held>>,
           \A i \in DOMAIN wire' : Release(wire'[i]) => i \in DOMAIN wire /\ wire'[i] = wire[i]
    PROVE  BufInv'
  <1>1. \A i \in DOMAIN wire' : Release(wire'[i]) => busy[wire'[i].n] /\ wire'[i].n \notin held
    BY DEF BufInv
  <1>2. \A i, j \in DOMAIN wire' :
          Release(wire'[i]) /\ Release(wire'[j]) /\ wire'[i].n = wire'[j].n => i = j
    BY DEF BufInv
  <1> QED
    BY <1>1, <1>2 DEF BufInv, Release

LEMMA BufSame == ASSUME BufInv, UNCHANGED <<wire, busy, held>> PROVE BufInv'
  BY DEF BufInv, Release

LEMMA BufTail ==
    ASSUME TypeOK, BufInv, wire # <<>>, wire' = Tail(wire), UNCHANGED <<busy, held>>
    PROVE  BufInv'
  <1>1. wire \in Seq(Event)
    BY DEF TypeOK
  <1>2. \A i \in DOMAIN wire' : i + 1 \in DOMAIN wire /\ wire'[i] = wire[i + 1] /\ i \in Nat \ {0}
    BY <1>1, TailAt
  <1>3. \A i \in DOMAIN wire' : Release(wire'[i]) => busy[wire'[i].n] /\ wire'[i].n \notin held
    BY <1>2 DEF BufInv
  <1>4. \A i, j \in DOMAIN wire' :
          Release(wire'[i]) /\ Release(wire'[j]) /\ wire'[i].n = wire'[j].n => i = j
    BY <1>2 DEF BufInv
  <1> QED
    BY <1>3, <1>4 DEF BufInv, Release

LEMMA BufSend ==
    ASSUME TypeOK, BufInv, NEW events \in Seq(Event), Send(events), UNCHANGED held,
           \A i \in DOMAIN events : ~Release(events[i])
    PROVE  BufInv'
  <1>1. wire \in Seq(Event) /\ wire' = wire \o events /\ busy' = busy
    BY DEF TypeOK, Send, winVars
  <1>2. \A i \in DOMAIN wire' : Release(wire'[i]) => i \in DOMAIN wire /\ wire'[i] = wire[i]
    BY <1>1, ConcatAt
  <1> QED
    BY <1>1, <1>2, BufKept

(* The compositor gives a held buffer back, once. *)
LEMMA BufGiveBack == ASSUME TypeOK, BufInv, NEW b \in Buffers, ReleaseBuffer(b) PROVE BufInv'
  <1> DEFINE e == [Ev("release") EXCEPT !.n = b]
  <1>1. /\ wire \in Seq(Event) /\ wire' = wire \o <<e>> /\ b \in held /\ held' = held \ {b}
        /\ busy' = busy
    BY DEF TypeOK, ReleaseBuffer, Send, winVars
  <1>2. e.n = b /\ e \in Event
    BY DEF Ev, Event, Buffers, Keys
  <1> HIDE DEF e
  <1>3. busy[b] /\ \A i \in DOMAIN wire : Release(wire[i]) => wire[i].n # b
    BY <1>1 DEF BufInv
  <1>4. \A i \in DOMAIN wire' : \/ i \in DOMAIN wire /\ wire'[i] = wire[i]
                                \/ i = Len(wire) + 1 /\ i \notin DOMAIN wire /\ wire'[i] = e
    BY <1>1, <1>2
  <1>5. \A c \in held' : busy'[c]
    BY <1>1 DEF BufInv
  <1>6. \A i \in DOMAIN wire' : Release(wire'[i]) => busy'[wire'[i].n] /\ wire'[i].n \notin held'
    BY <1>1, <1>2, <1>3, <1>4 DEF BufInv
  <1>7. \A i, j \in DOMAIN wire' :
          Release(wire'[i]) /\ Release(wire'[j]) /\ wire'[i].n = wire'[j].n => i = j
    BY <1>2, <1>3, <1>4 DEF BufInv
  <1> QED
    BY <1>5, <1>6, <1>7 DEF BufInv, Release

(* The prompt learns of it: the buffer was not held again in between. *)
LEMMA BufReleased == ASSUME TypeOK, BufInv, buffer_release PROVE BufInv'
  <1>1. /\ wire \in Seq(Event) /\ wire # <<>>
        /\ Release(Head(wire)) /\ wire' = Tail(wire)
        /\ busy' = [busy EXCEPT ![Head(wire).n] = FALSE] /\ held' = held
        /\ busy \in [Buffers -> BOOLEAN] /\ held \subseteq Buffers
    BY DEF TypeOK, buffer_release, Dispatch, Release
  <1>2. 1 \in DOMAIN wire /\ Head(wire) = wire[1]
    BY <1>1
  <1>3. wire[1].n \notin held
    BY <1>1, <1>2 DEF BufInv
  <1>4. \A b \in held' : busy'[b]
    BY <1>1, <1>2, <1>3 DEF BufInv
  <1>5. \A i \in DOMAIN wire' : i + 1 \in DOMAIN wire /\ wire'[i] = wire[i + 1] /\ i \in Nat \ {0}
    BY <1>1, TailAt
  <1>6. \A i \in DOMAIN wire' : i + 1 # 1
    BY <1>5
  <1>7. \A i \in DOMAIN wire' : Release(wire'[i]) => wire'[i].n # wire[1].n
    BY <1>1, <1>2, <1>5, <1>6 DEF BufInv
  <1>8. \A i \in DOMAIN wire' : Release(wire'[i]) => busy'[wire'[i].n] /\ wire'[i].n \notin held'
    BY <1>1, <1>2, <1>5, <1>7 DEF BufInv
  <1>9. \A i, j \in DOMAIN wire' :
          Release(wire'[i]) /\ Release(wire'[j]) /\ wire'[i].n = wire'[j].n => i = j
    BY <1>5 DEF BufInv
  <1> QED
    BY <1>4, <1>8, <1>9 DEF BufInv, Release

(* Painting takes a buffer that is not busy: not one that is held, nor one  *)
(* whose release is under way.                                              *)
LEMMA BufRender ==
    ASSUME TypeOK, BufInv, LoopTurn
    PROVE  BufInv' /\ (<<shown, screen>>' # <<shown, screen>> => shown' \notin held)
  <1>1. CASE dirty /\ configured /\ next_buffer # {}
    <2>1. PICK b \in next_buffer : /\ busy' = [busy EXCEPT ![b] = TRUE]
                                   /\ held' = held \cup {b}
                                   /\ shown' = b
      BY <1>1 DEF LoopTurn, render
    <2>2. /\ b \in Buffers /\ ~busy[b] /\ busy \in [Buffers -> BOOLEAN]
          /\ held \subseteq Buffers /\ wire' = wire
      BY DEF next_buffer, TypeOK, LoopTurn
    <2>3. b \notin held
      BY <2>2 DEF BufInv
    <2>4. \A c \in held' : busy'[c]
      BY <2>1, <2>2 DEF BufInv
    <2>5. ASSUME NEW i \in DOMAIN wire, Release(wire[i])
          PROVE  busy'[wire[i].n] /\ wire[i].n \notin held'
      <3>1. busy[wire[i].n] /\ wire[i].n \notin held /\ wire[i].n # b
        BY <2>2, <2>5 DEF BufInv
      <3> QED
        BY <2>1, <2>2, <3>1
    <2>6. BufInv'
      BY <2>2, <2>4, <2>5 DEF BufInv, Release
    <2> QED
      BY <2>1, <2>3, <2>6
  <1>2. CASE ~(dirty /\ configured /\ next_buffer # {})
    <2>1. UNCHANGED <<busy, held, shown, screen, wire>>
      BY <1>2 DEF LoopTurn, render
    <2> QED
      BY <2>1, BufSame
  <1> QED
    BY <1>1, <1>2

LEMMA BufWorld == ASSUME TypeOK, BufInv, World PROVE BufInv' /\ UNCHANGED <<shown, screen>>
  <1>1. UNCHANGED <<shown, screen>>
    BY DEF World, Press, ReleaseBuffer, CloseToplevel, Replug, CompositorExits, Send
  <1> SUFFICES BufInv'
    BY <1>1
  <1>2. /\ \A kind \in {"key", "close", "caps", "keymap"} : Ev(kind) \in Event /\ ~Release(Ev(kind))
        /\ \A sym \in Keys : LET e == [Ev("key") EXCEPT !.sym = sym] IN e \in Event /\ ~Release(e)
        /\ \A n \in 0 .. 2, kind \in {"caps", "keymap"} :
              LET e == [Ev(kind) EXCEPT !.n = n] IN e \in Event /\ ~Release(e)
    BY DEF Ev, Event, Keys, Release
  <1>3. ASSUME NEW e \in Event, ~Release(e), Send(<<e>>), UNCHANGED held PROVE BufInv'
    <2>1. <<e>> \in Seq(Event) /\ \A i \in DOMAIN <<e>> : ~Release(<<e>>[i])
      BY <1>3
    <2> QED
      BY <1>3, <2>1, BufSend
  <1>4. ASSUME NEW sym \in Keys, Press(sym) PROVE BufInv'
    BY <1>2, <1>3, <1>4 DEF Press
  <1>5. CASE CloseToplevel
    BY <1>2, <1>3, <1>5 DEF CloseToplevel
  <1>6. CASE Replug
    <2>1. UNCHANGED held
      BY <1>6 DEF Replug
    <2>2. CASE Send(<<Ev("caps")>>)
      BY <1>2, <1>3, <2>1, <2>2
    <2>3. ASSUME NEW d \in Event, NEW e \in Event, ~Release(d), ~Release(e), Send(<<d, e>>)
          PROVE  BufInv'
      <3>1. <<d, e>> \in Seq(Event) /\ \A i \in DOMAIN <<d, e>> : ~Release(<<d, e>>[i])
        BY <2>3
      <3> QED
        BY <2>1, <2>3, <3>1, BufSend
    <2>4. ASSUME NEW n \in 0 .. 2,
                 Send(<<[Ev("caps") EXCEPT !.n = 1], [Ev("keymap") EXCEPT !.n = n]>>)
          PROVE  BufInv'
      BY <1>2, <2>3, <2>4
    <2> QED
      BY <1>6, <2>2, <2>4 DEF Replug
  <1>7. CASE CompositorExits
    BY <1>7, BufSame DEF CompositorExits, winVars
  <1> QED
    BY <1>4, <1>5, <1>6, <1>7, BufGiveBack DEF World

LEMMA BufStep ==
    ASSUME TypeOK, BufInv, [Next]_vars
    PROVE  BufInv' /\ (<<shown, screen>>' # <<shown, screen>> => shown' \notin held)
  <1>1. CASE init \/ init_fails \/ LoopExit \/ PollTimeout \/ DispatchFails \/ DispatchDone \/ Killed
    <2>1. UNCHANGED <<wire, busy, held, shown, screen>>
      BY <1>1 DEF init, init_fails, LoopExit, PollTimeout, DispatchFails, DispatchDone, Killed, compVars
    <2> QED
      BY <2>1, BufSame
  <1>2. CASE \/ surface_configure \/ toplevel_close \/ seat_capabilities \/ keyboard_keymap
             \/ KeyUnmapped \/ KeyReturn \/ KeyEscape \/ KeyBackSpace \/ handle_text \/ KeyOther
    <2>1. wire # <<>> /\ wire' = Tail(wire) /\ UNCHANGED <<busy, held, shown, screen>>
      BY <1>2 DEF surface_configure, toplevel_close, seat_capabilities, keyboard_keymap,
         KeyUnmapped, KeyReturn, KeyEscape, KeyBackSpace, handle_text, KeyOther, Key, Dispatch
    <2> QED
      BY <2>1, BufTail
  <1>3. CASE buffer_release
    <2>1. UNCHANGED <<shown, screen>>
      BY <1>3 DEF buffer_release, Dispatch
    <2> QED
      BY <1>3, <2>1, BufReleased
  <1>4. CASE LoopTurn
    BY <1>4, BufRender
  <1>5. CASE World
    BY <1>5, BufWorld
  <1>6. CASE UNCHANGED vars
    <2>1. UNCHANGED <<wire, busy, held, shown, screen>>
      BY <1>6 DEF vars, winVars, compVars
    <2> QED
      BY <2>1, BufSame
  <1> QED
    BY <1>1, <1>2, <1>3, <1>4, <1>5, <1>6 DEF Next, PromptRuns, Environment, World

(* The prompt never draws into a buffer that the compositor may still read: *)
(* busy is cleared only for a buffer that was given back and not taken      *)
(* again (next_buffer, buffer_release).                                     *)
THEOREM HeldBuffersSpared == Spec => SparesHeldBuffers
  <1>1. Init => BufInv
    <2> SUFFICES ASSUME Init PROVE BufInv
      OBVIOUS
    <2>1. held = {} /\ \A i \in DOMAIN wire : ~Release(wire[i])
      BY DEF Init, Ev, Release
    <2> QED
      BY <2>1 DEF BufInv
  <1>2. TypeOK /\ BufInv /\ [Next]_vars => BufInv'
    BY BufStep
  <1>3. TypeOK /\ BufInv /\ [Next]_vars =>
          [<<shown, screen>>' # <<shown, screen>> => shown' \notin held]_vars
    BY BufStep
  <1> QED
    BY <1>1, <1>2, <1>3, PromptTypeCorrect, PTL DEF Spec, SparesHeldBuffers

=============================================================================
