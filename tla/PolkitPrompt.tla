---------------------------- MODULE PolkitPrompt ----------------------------
(***************************************************************************)
(* zero-polkit-prompt-wayland (src/polkit-agent/zero-polkit-prompt-        *)
(* wayland.cpp): one window, one line of text.  The thread reads events    *)
(* from the compositor, several at a time, and calls the listeners of all  *)
(* it has read before it looks at running_ again.  The compositor and the  *)
(* person are external.                                                    *)
(***************************************************************************)
EXTENDS Naturals, Sequences

CONSTANTS
    Chars,          \* printable characters
    SecretLimit,    \* 128 in handle_text
    ShownLimit,     \* 32 dots, or 33 characters with echo, in draw_password
    Faults,         \* what may go wrong: see PossibleFaults
    MaxKeys         \* bound: key presses and changes of the seat

PossibleFaults == {"init", "close", "compositor-exit", "unplug", "killed"}

ASSUME PromptAssumption ==
    /\ SecretLimit \in Nat /\ ShownLimit \in Nat /\ MaxKeys \in Nat
    /\ Faults \subseteq PossibleFaults

VARIABLES
    pc,             \* where the thread is: main, run() or ended
    status,         \* exit status: 0, 1, or Signalled
    running,        \* running_
    accepted,       \* accepted_
    dirty,          \* dirty_
    configured,     \* configured_
    secret,         \* secret_
    echo,           \* --echo or --secret
    keyboard,       \* keyboard_ is bound
    xkb,            \* xkb_state_ is not null
    busy,           \* buffers_[].busy
    lost,           \* wl_display_get_error
    stdout,         \* what was written: a sequence of at most one line
    \* external
    wire,           \* events sent and not yet dispatched
    held,           \* buffers the compositor may still read
    shown,          \* the buffer committed last, 0 before the first
    screen,         \* the text that buffer shows
    comp,           \* the compositor is up
    plugged,        \* the seat has a keyboard
    typed

winVars  == <<pc, status, running, accepted, dirty, configured, secret, echo, keyboard, xkb,
              busy, lost, stdout>>
compVars == <<wire, held, shown, screen, comp, plugged, typed>>
vars     == <<winVars, compVars>>

----------------------------------------------------------------------------
Buffers == 1 .. 2

Signalled == 256

(* Keys by what handle_keysym and handle_text make of them: KP_Enter is     *)
(* Return, Delete is BackSpace, a character is text and "other" is neither. *)
Keys == {"Return", "Escape", "BackSpace", "other"} \cup Chars

Event == [kind : {"key", "configure", "close", "release", "caps", "keymap"},
          sym : Keys, n : 0 .. 2]

TypeOK ==
    /\ pc \in {"main", "top", "poll", "dispatch", "ended"}
    /\ status \in {0, 1, Signalled}
    /\ running \in BOOLEAN /\ accepted \in BOOLEAN
    /\ dirty \in BOOLEAN /\ configured \in BOOLEAN
    /\ secret \in Seq(Chars) /\ Len(secret) <= SecretLimit
    /\ echo \in BOOLEAN
    /\ keyboard \in BOOLEAN /\ xkb \in BOOLEAN
    /\ busy \in [Buffers -> BOOLEAN]
    /\ lost \in BOOLEAN
    /\ stdout \in Seq(Seq(Chars))
    /\ wire \in Seq(Event)
    /\ held \in SUBSET Buffers
    /\ shown \in {0} \cup Buffers
    /\ screen \in Seq(Chars \cup {"dot"})
    /\ comp \in BOOLEAN /\ plugged \in BOOLEAN
    /\ typed \in 0 .. MaxKeys

----------------------------------------------------------------------------
(* Painting *)

(* Dots for a password; with echo the text itself, cut to the field. *)
draw_password ==
    LET n == IF Len(secret) < ShownLimit THEN Len(secret) ELSE ShownLimit
    IN [i \in 1 .. n |-> IF echo THEN secret[i] ELSE "dot"]

(* Mutant: a buffer is taken whether or not it is busy. *)
next_buffer_any == {1}

(* The first buffer that is not busy; none is nullptr. *)
next_buffer == {b \in Buffers : ~busy[b] /\ \A a \in Buffers : ~busy[a] => b <= a}

(* Mutant: dirty_ is cleared although no buffer was free. *)
render_forgets ==
    /\ dirty' = FALSE
    /\ IF configured /\ next_buffer # {}
       THEN /\ \E b \in next_buffer :
                  /\ busy' = [busy EXCEPT ![b] = TRUE]
                  /\ held' = held \cup {b}
                  /\ shown' = b
            /\ screen' = draw_password
       ELSE UNCHANGED <<busy, held, shown, screen>>

render ==
    IF configured /\ next_buffer # {}
    THEN /\ \E b \in next_buffer :
               /\ busy' = [busy EXCEPT ![b] = TRUE]
               /\ held' = held \cup {b}
               /\ shown' = b
         /\ screen' = draw_password
         /\ dirty' = FALSE
    ELSE UNCHANGED <<busy, held, shown, screen, dirty>>

----------------------------------------------------------------------------
(* main and run() *)

(* init() succeeds; its second roundtrip has bound the keyboard. *)
init ==
    /\ pc = "main"
    /\ pc' = "top"
    /\ UNCHANGED <<status, running, accepted, dirty, configured, secret, echo, keyboard, xkb,
                   busy, lost, stdout, compVars>>

init_fails ==
    /\ "init" \in Faults
    /\ pc = "main"
    /\ pc' = "ended"
    /\ status' = 1
    /\ UNCHANGED <<running, accepted, dirty, configured, secret, echo, keyboard, xkb,
                   busy, lost, stdout, compVars>>

LoopTurn ==
    /\ pc = "top"
    /\ running
    /\ ~lost
    /\ pc' = "poll"
    /\ IF dirty THEN render ELSE UNCHANGED <<dirty, busy, held, shown, screen>>
    /\ UNCHANGED <<status, running, accepted, configured, secret, echo, keyboard, xkb, lost,
                   stdout, wire, comp, plugged, typed>>

(* The end of run(): the text is written if it was accepted, then cleared. *)
LoopExit ==
    /\ pc = "top"
    /\ ~running \/ lost
    /\ pc' = "ended"
    /\ status' = IF accepted THEN 0 ELSE 1
    /\ stdout' = IF accepted THEN <<secret>> ELSE <<>>
    /\ secret' = <<>>
    /\ UNCHANGED <<running, accepted, dirty, configured, echo, keyboard, xkb, busy, lost,
                   compVars>>

(* poll returns 0 after 100 ms. *)
PollTimeout ==
    /\ pc = "poll"
    /\ wire = <<>>
    /\ comp
    /\ pc' = "top"
    /\ UNCHANGED <<status, running, accepted, dirty, configured, secret, echo, keyboard, xkb,
                   busy, lost, stdout, compVars>>

(* Mutant: the end of the connection is not noticed. *)
DispatchFails_unnoticed ==
    /\ pc = "poll"
    /\ wire = <<>>
    /\ ~comp
    /\ pc' = "top"
    /\ UNCHANGED <<status, running, accepted, dirty, configured, secret, echo, keyboard, xkb,
                   busy, lost, stdout, compVars>>

(* The connection is at its end: wl_display_dispatch fails. *)
DispatchFails ==
    /\ pc = "poll"
    /\ wire = <<>>
    /\ ~comp
    /\ pc' = "top"
    /\ lost' = TRUE
    /\ UNCHANGED <<status, running, accepted, dirty, configured, secret, echo, keyboard, xkb,
                   busy, stdout, compVars>>

(* wl_display_dispatch has read one event or more and calls their           *)
(* listeners; how many it read depends on when they were sent.              *)
Dispatch(kind) ==
    /\ pc \in {"poll", "dispatch"}
    /\ wire # <<>>
    /\ Head(wire).kind = kind
    /\ wire' = Tail(wire)
    /\ pc' = "dispatch"
    /\ UNCHANGED <<status, echo, lost, stdout, held, shown, screen, comp, plugged, typed>>

DispatchDone ==
    /\ pc = "dispatch"
    /\ pc' = "top"
    /\ UNCHANGED <<status, running, accepted, dirty, configured, secret, echo, keyboard, xkb,
                   busy, lost, stdout, compVars>>

surface_configure ==
    /\ Dispatch("configure")
    /\ configured' = TRUE
    /\ dirty' = TRUE
    /\ UNCHANGED <<running, accepted, secret, keyboard, xkb, busy>>

cancel == accepted' = FALSE /\ running' = FALSE

submit == accepted' = TRUE /\ running' = FALSE

toplevel_close ==
    /\ Dispatch("close")
    /\ cancel
    /\ UNCHANGED <<dirty, configured, secret, keyboard, xkb, busy>>

seat_capabilities ==
    /\ Dispatch("caps")
    /\ keyboard' = (Head(wire).n = 1)
    /\ UNCHANGED <<running, accepted, dirty, configured, secret, xkb, busy>>

(* A keymap that does not compile leaves xkb_state_ null (n = 0); one of    *)
(* another format, or that cannot be mapped, is ignored (n = 2).            *)
keyboard_keymap ==
    /\ Dispatch("keymap")
    /\ xkb' = IF keyboard /\ Head(wire).n # 2 THEN Head(wire).n = 1 ELSE xkb
    /\ UNCHANGED <<running, accepted, dirty, configured, secret, keyboard, busy>>

buffer_release ==
    /\ Dispatch("release")
    /\ busy' = [busy EXCEPT ![Head(wire).n] = FALSE]
    /\ UNCHANGED <<running, accepted, dirty, configured, secret, keyboard, xkb>>

----------------------------------------------------------------------------
(* keyboard_key: handle_keysym, and handle_text unless the key has ended    *)
(* the prompt.  Return, Escape and BackSpace produce no printable text.     *)

Key(S) ==
    /\ Dispatch("key")
    /\ keyboard /\ xkb
    /\ Head(wire).sym \in S
    /\ UNCHANGED <<configured, keyboard, xkb, busy>>

(* No keyboard or no keymap: the key is dropped. *)
KeyUnmapped ==
    /\ Dispatch("key")
    /\ ~keyboard \/ ~xkb
    /\ UNCHANGED <<running, accepted, dirty, configured, secret, keyboard, xkb, busy>>

KeyReturn ==
    /\ Key({"Return"})
    /\ submit
    /\ UNCHANGED <<dirty, secret>>

KeyEscape ==
    /\ Key({"Escape"})
    /\ cancel
    /\ UNCHANGED <<dirty, secret>>

KeyBackSpace ==
    /\ Key({"BackSpace"})
    /\ secret' = IF secret = <<>> THEN secret ELSE SubSeq(secret, 1, Len(secret) - 1)
    /\ dirty' = (dirty \/ secret # <<>>)
    /\ UNCHANGED <<running, accepted>>

(* Mutant: one character too many. *)
handle_text_long ==
    /\ Key(Chars)
    /\ IF running /\ Len(secret) <= SecretLimit
       THEN secret' = Append(secret, Head(wire).sym) /\ dirty' = TRUE
       ELSE UNCHANGED <<secret, dirty>>
    /\ UNCHANGED <<running, accepted>>

(* Mutant: characters are taken after the decision as well. *)
handle_text_late ==
    /\ Key(Chars)
    /\ IF Len(secret) < SecretLimit
       THEN secret' = Append(secret, Head(wire).sym) /\ dirty' = TRUE
       ELSE UNCHANGED <<secret, dirty>>
    /\ UNCHANGED <<running, accepted>>

handle_text ==
    /\ Key(Chars)
    /\ IF running /\ Len(secret) < SecretLimit
       THEN secret' = Append(secret, Head(wire).sym) /\ dirty' = TRUE
       ELSE UNCHANGED <<secret, dirty>>
    /\ UNCHANGED <<running, accepted>>

KeyOther ==
    /\ Key({"other"})
    /\ UNCHANGED <<running, accepted, dirty, secret>>

PromptRuns ==
    \/ init \/ init_fails \/ LoopTurn \/ LoopExit
    \/ PollTimeout \/ DispatchFails \/ DispatchDone
    \/ surface_configure \/ toplevel_close \/ seat_capabilities \/ keyboard_keymap
    \/ buffer_release
    \/ KeyUnmapped \/ KeyReturn \/ KeyEscape \/ KeyBackSpace \/ handle_text \/ KeyOther

----------------------------------------------------------------------------
(* The compositor, the person and the system (external) *)

Ev(kind) == [kind |-> kind, sym |-> "other", n |-> 0]

Send(events) ==
    /\ comp
    /\ pc \notin {"main", "ended"}
    /\ wire' = wire \o events
    /\ UNCHANGED <<winVars, shown, screen, comp>>

Press(sym) ==
    /\ plugged /\ keyboard
    /\ typed < MaxKeys
    /\ typed' = typed + 1
    /\ Send(<<[Ev("key") EXCEPT !.sym = sym]>>)
    /\ UNCHANGED <<held, plugged>>

ReleaseBuffer(b) ==
    /\ b \in held
    /\ held' = held \ {b}
    /\ Send(<<[Ev("release") EXCEPT !.n = b]>>)
    /\ UNCHANGED <<plugged, typed>>

(* For example close-active of zero-window-agent. *)
CloseToplevel ==
    /\ "close" \in Faults
    /\ running
    /\ ~ \E n \in DOMAIN wire : wire[n].kind = "close"
    /\ Send(<<Ev("close")>>)
    /\ UNCHANGED <<held, plugged, typed>>

Replug ==
    /\ "unplug" \in Faults
    /\ typed < MaxKeys
    /\ typed' = typed + 1
    /\ plugged' = ~plugged
    /\ \/ plugged /\ Send(<<Ev("caps")>>)
       \/ /\ ~plugged
          /\ \E n \in 0 .. 2 :
                Send(<<[Ev("caps") EXCEPT !.n = 1], [Ev("keymap") EXCEPT !.n = n]>>)
    /\ UNCHANGED held

CompositorExits ==
    /\ "compositor-exit" \in Faults
    /\ comp
    /\ pc # "ended"
    /\ comp' = FALSE
    /\ UNCHANGED <<winVars, wire, held, shown, screen, plugged, typed>>

Killed ==
    /\ "killed" \in Faults
    /\ pc # "ended"
    /\ pc' = "ended"
    /\ status' = Signalled
    /\ secret' = <<>>
    /\ UNCHANGED <<running, accepted, dirty, configured, echo, keyboard, xkb, busy, lost,
                   stdout, compVars>>

Environment ==
    \/ \E sym \in Keys : Press(sym)
    \/ \E b \in Buffers : ReleaseBuffer(b)
    \/ CloseToplevel \/ Replug \/ CompositorExits \/ Killed

----------------------------------------------------------------------------
Init ==
    /\ pc = "main"
    /\ status = 0
    /\ running = TRUE
    /\ accepted = FALSE
    /\ dirty = TRUE
    /\ configured = FALSE
    /\ secret = <<>>
    /\ echo \in BOOLEAN
    /\ keyboard = TRUE
    /\ xkb = FALSE
    /\ busy = [b \in Buffers |-> FALSE]
    /\ lost = FALSE
    /\ stdout = <<>>
    /\ wire = <<[Ev("keymap") EXCEPT !.n = 1], Ev("configure")>>
    /\ held = {}
    /\ shown = 0
    /\ screen = <<>>
    /\ comp = TRUE
    /\ plugged = TRUE
    /\ typed = 0

Next == PromptRuns \/ Environment

Spec == Init /\ [][Next]_vars

(* The process is scheduled, and the compositor gives back a buffer that    *)
(* another has replaced.                                                    *)
FairSpec ==
    /\ Spec
    /\ WF_vars(PromptRuns)
    /\ WF_vars(\E b \in held \ {shown} : ReleaseBuffer(b))

----------------------------------------------------------------------------
(* Properties *)

(* The prompt does what the agent relies on: exit status 0 comes with the   *)
(* text as the person left it and after a decision to submit, no character  *)
(* is taken after a decision, and every other end writes nothing (run,      *)
(* handle_text, submit, cancel).                                            *)
Contract ==
    INSTANCE PromptContract WITH
        prompt <- IF pc = "main" THEN "none"
                  ELSE IF pc # "ended" THEN "open"
                  ELSE IF status = 0 THEN "accepted" ELSE "cancelled",
        secret <- IF pc = "ended" /\ stdout # <<>> THEN stdout[1] ELSE secret,
        decision <- IF running THEN "none" ELSE IF accepted THEN "submit" ELSE "cancel"

KeepsContract == Contract!PromptSpec

(* A window with no repaint due shows the text as it is, whatever frames    *)
(* could not be drawn on the way (render, dirty_).                          *)
FieldShowsSecret == pc \in {"top", "poll"} /\ ~dirty => screen = draw_password

(* render never draws into a buffer that the compositor may still read.     *)
SparesHeldBuffers ==
    [][<<shown, screen>>' # <<shown, screen>> => shown' \notin held]_vars

(* Once the person or the window has decided, or the compositor is gone,    *)
(* the process ends: the agent waits for it without a timeout.              *)
PromptEnds == (~running \/ ~comp) ~> (pc = "ended")

=============================================================================
