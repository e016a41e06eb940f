------------------------------ MODULE Greeter ------------------------------
(***************************************************************************)
(* zero-greeter-wayland (src/greeter/zero-greeter-wayland.cpp): the login  *)
(* screen.  One thread reads events from the compositor, changes the       *)
(* dialog's state, paints it into one of two shared buffers and, for a     *)
(* login attempt, blocks inside the key handler until zero-greeter-auth    *)
(* (module GreeterAuth) has ended.  Keys pressed meanwhile wait in the     *)
(* connection.                                                             *)
(*                                                                         *)
(* The compositor, the person at the keyboard and whoever edits the        *)
(* account database are external.                                          *)
(***************************************************************************)
EXTENDS GreeterAuth, FiniteSets

CONSTANTS
    Keys,           \* keys the person presses, of Syms
    kMaxPassword,   \* 128 in the code
    MaxKeys,        \* bound: key presses
    MaxEdits        \* bound: edits of the account database

(* Keys by what handle_keysym and handle_text make of them: Right is Down,  *)
(* Left is Up, Delete is BackSpace; "text" is a printable character and     *)
(* "other" a key that is neither.                                           *)
Syms == {"Escape", "Tab", "Down", "Up", "Return", "BackSpace", "text", "other"}

ASSUME KeysAssumption   == Keys \subseteq Syms
ASSUME BoundsAssumption == kMaxPassword \in Nat /\ MaxKeys \in Nat /\ MaxEdits \in Nat

VARIABLES
    gpc,            \* where the thread is in run()
    exit,           \* how the process ended
    running,        \* running_
    session_started,
    display_error,  \* wl_display_get_error
    configured,     \* configured_
    dirty,          \* dirty_
    ui,             \* mode_, users_, selected_, ... : all that draw_frame reads
    keyboard,       \* keyboard_ is bound
    xkb,            \* xkb_state_ is not null
    busy,           \* buffers_[].busy
    power,          \* the last action passed to zero-helper
    \* external
    wire,           \* events sent by the compositor and not yet dispatched
    held,           \* buffers the compositor may still read
    shown,          \* the buffer committed last, 0 before the first
    screen,         \* what that buffer shows
    comp,           \* the compositor is up
    plugged,        \* the seat has a keyboard
    typed, edits

uiVars    == <<gpc, exit, running, session_started, display_error, configured, dirty, ui,
               keyboard, xkb, busy, power>>
envVars   == <<wire, held, shown, screen, comp, plugged, typed, edits>>
vars      == <<authVars, uiVars, envVars>>

----------------------------------------------------------------------------
Buffers == 1 .. 2

Modes == {"Login", "UserMenu", "PowerMenu", "Authenticating", "StartingSession"}

Messages == {"PAM AUTHENTICATION", "CREATE A USER FIRST", "AUTHENTICATING",
             "SESSION STARTING", "AUTH HELPER FAILED", "PAM ERROR", ""} \cup Responses

(* selected and menu_selected count from 0, as in the code. *)
Ui == [mode : Modes, users : Seq(Entry), selected : Nat, menu_selected : Nat,
       power_selection : 0 .. 2, password : Password, message : Messages, error : BOOLEAN]

Frame == [mode : Modes, user : Names \cup {NoName}, rows : SUBSET Nat, lit : Nat,
          dots : 0 .. 12, message : Messages, error : BOOLEAN]

EventKinds == {"key", "configure", "close", "release", "caps", "keymap"}
Event == [kind : EventKinds, sym : Syms, n : 0 .. 2]

NoFrame == [mode |-> "Login", user |-> NoName, rows |-> {}, lit |-> 0,
            dots |-> 0, message |-> "", error |-> FALSE]

TypeOK ==
    /\ AuthTypeOK
    /\ gpc \in {"top", "poll", "dispatch", "write", "wait", "exited"}
    /\ exit \in {"", "ok", "failed", "sigpipe"}
    /\ running \in BOOLEAN
    /\ session_started \in BOOLEAN
    /\ display_error \in BOOLEAN
    /\ configured \in BOOLEAN
    /\ dirty \in BOOLEAN
    /\ ui \in Ui
    /\ keyboard \in BOOLEAN
    /\ xkb \in BOOLEAN
    /\ busy \in [Buffers -> BOOLEAN]
    /\ power \in {"", "shutdown", "reboot"}
    /\ wire \in Seq(Event)
    /\ held \in SUBSET Buffers
    /\ shown \in {0} \cup Buffers
    /\ screen \in Frame
    /\ comp \in BOOLEAN
    /\ plugged \in BOOLEAN
    /\ typed \in Nat
    /\ edits \in Nat

----------------------------------------------------------------------------
(* Users and selection *)

Count(u) == Len(u.users)

(* The getpwent loop: each entry of the file is kept or skipped, in order. *)
login_capable_entries(file) ==
    LET kept[n \in 0 .. Len(file)] ==
          IF n = 0 THEN <<>>
          ELSE IF user_is_login_capable(file[n]) THEN Append(kept[n - 1], file[n])
                                                 ELSE kept[n - 1]
    IN kept[Len(file)]

load_users == login_capable_entries(passwd)

clamp_selection(u) ==
    IF Count(u) = 0
    THEN [u EXCEPT !.selected = 0, !.menu_selected = 0]
    ELSE [u EXCEPT !.selected = @ % Count(u), !.menu_selected = @ % Count(u)]

(* Mutant: the selection is not brought back into the new list. *)
reload_users_unclamped(u) == [u EXCEPT !.users = load_users]

reload_users(u) == clamp_selection([u EXCEPT !.users = load_users])

(* users_[selected_].name, when there is one. *)
Selected(u) == IF u.selected + 1 \in DOMAIN u.users THEN u.users[u.selected + 1].name ELSE NoName

----------------------------------------------------------------------------
(* Painting *)

AtMost(a, b) == IF a <= b THEN a ELSE b

(* draw_user_menu shows three rows at most, the one before the selection    *)
(* first where the list allows it.                                          *)
Visible(n) == AtMost(n, 3)

(* Mutant: the last rows are not moved back into the list. *)
FirstRow_overrun(n, menu) == IF menu - 1 < 0 THEN 0 ELSE menu - 1

FirstRow(n, menu) ==
    LET wanted == IF menu - 1 < 0 THEN 0 ELSE menu - 1
    IN IF wanted + Visible(n) > n THEN n - Visible(n) ELSE wanted

MenuRows(n, menu) == FirstRow(n, menu) .. (FirstRow(n, menu) + Visible(n) - 1)

(* What the frame says; an empty message is drawn as the first one. *)
draw_frame(u) ==
    [mode    |-> u.mode,
     user    |-> Selected(u),
     rows    |-> IF u.mode = "UserMenu" THEN MenuRows(Count(u), u.menu_selected) ELSE {},
     lit     |-> IF u.mode = "UserMenu" THEN u.menu_selected
                 ELSE IF u.mode = "PowerMenu" THEN u.power_selection ELSE 0,
     dots    |-> AtMost(Len(u.password), 12),
     message |-> IF u.message = "" THEN "PAM AUTHENTICATION" ELSE u.message,
     error   |-> u.error]

(* Mutant: the first buffer is taken whether or not it is busy. *)
next_buffer_any == {1}

(* The first buffer that is not busy; none is nullptr. *)
next_buffer == {b \in Buffers : ~busy[b] /\ \A a \in Buffers : ~busy[a] => b <= a}

NotPainted == UNCHANGED <<busy, held, shown, screen>>

CanPaint == configured /\ next_buffer # {}

(* Drawing, attaching and committing a buffer. *)
Paint(u) ==
    \/ /\ CanPaint
       /\ \E b \in next_buffer :
             /\ busy' = [busy EXCEPT ![b] = TRUE]
             /\ held' = held \cup {b}
             /\ shown' = b
       /\ screen' = draw_frame(u)
    \/ ~CanPaint /\ NotPainted

(* Mutant: dirty_ is cleared even when no buffer was free. *)
render_forgets(u) == Paint(u) /\ dirty' = FALSE

(* render() of the dialog u; the callers have set dirty_. *)
render(u) == Paint(u) /\ dirty' = ~CanPaint

----------------------------------------------------------------------------
(* run() *)

LoopExit ==
    /\ gpc = "top"
    /\ ~running \/ display_error
    /\ gpc' = "exited"
    /\ exit' = IF session_started THEN "ok" ELSE "failed"
    /\ UNCHANGED <<authVars, running, session_started, display_error, configured, dirty, ui,
                   keyboard, xkb, busy, power, envVars>>

LoopTurn ==
    /\ gpc = "top"
    /\ running
    /\ ~display_error
    /\ gpc' = "poll"
    /\ IF dirty THEN render(ui) ELSE UNCHANGED <<dirty, busy, held, shown, screen>>
    /\ UNCHANGED <<authVars, exit, running, session_started, display_error, configured, ui,
                   keyboard, xkb, power, wire, comp, plugged, typed, edits>>

(* poll returns 0 after 100 ms. *)
PollTimeout ==
    /\ gpc = "poll"
    /\ wire = <<>>
    /\ comp
    /\ gpc' = "top"
    /\ UNCHANGED <<authVars, exit, running, session_started, display_error, configured, dirty,
                   ui, keyboard, xkb, busy, power, envVars>>

(* The connection is at its end: wl_display_dispatch fails. *)
DispatchFails ==
    /\ gpc = "poll"
    /\ wire = <<>>
    /\ ~comp
    /\ display_error' = TRUE
    /\ gpc' = "top"
    /\ UNCHANGED <<authVars, exit, running, session_started, configured, dirty,
                   ui, keyboard, xkb, busy, power, envVars>>

(* wl_display_dispatch read at least one event and calls the listeners of   *)
(* all it read, which may be any part of what was sent.                     *)
Dispatch(kind) ==
    /\ gpc \in {"poll", "dispatch"}
    /\ wire # <<>>
    /\ Head(wire).kind = kind
    /\ wire' = Tail(wire)
    /\ UNCHANGED <<exit, display_error, comp, plugged, typed, edits>>

DispatchDone ==
    /\ gpc = "dispatch"
    /\ gpc' = "top"
    /\ UNCHANGED <<authVars, exit, running, session_started, display_error, configured, dirty,
                   ui, keyboard, xkb, busy, power, envVars>>

NoLogin == UNCHANGED <<authVars, session_started>>

surface_configure ==
    /\ Dispatch("configure")
    /\ gpc' = "dispatch"
    /\ configured' = TRUE
    /\ dirty' = TRUE
    /\ NotPainted /\ NoLogin
    /\ UNCHANGED <<running, ui, keyboard, xkb, power>>

toplevel_close ==
    /\ Dispatch("close")
    /\ gpc' = "dispatch"
    /\ running' = FALSE
    /\ NotPainted /\ NoLogin
    /\ UNCHANGED <<configured, dirty, ui, keyboard, xkb, power>>

seat_capabilities ==
    /\ Dispatch("caps")
    /\ gpc' = "dispatch"
    /\ keyboard' = (Head(wire).n = 1)
    /\ NotPainted /\ NoLogin
    /\ UNCHANGED <<running, configured, dirty, ui, xkb, power>>

(* A keymap that does not compile leaves xkb_state_ null (n = 0); one of    *)
(* another format, or that cannot be mapped, is ignored (n = 2).            *)
keyboard_keymap ==
    /\ Dispatch("keymap")
    /\ gpc' = "dispatch"
    /\ xkb' = IF keyboard /\ Head(wire).n # 2 THEN Head(wire).n = 1 ELSE xkb
    /\ NotPainted /\ NoLogin
    /\ UNCHANGED <<running, configured, dirty, ui, keyboard, power>>

(* Mutant: the release is ignored. *)
buffer_release_ignored ==
    /\ Dispatch("release")
    /\ gpc' = "dispatch"
    /\ NoLogin
    /\ UNCHANGED <<running, configured, dirty, ui, keyboard, xkb, busy, power,
                   held, shown, screen>>

buffer_release ==
    /\ Dispatch("release")
    /\ gpc' = "dispatch"
    /\ busy' = [busy EXCEPT ![Head(wire).n] = FALSE]
    /\ NoLogin
    /\ UNCHANGED <<running, configured, dirty, ui, keyboard, xkb, power, held, shown, screen>>

----------------------------------------------------------------------------
(* keyboard_key, handle_keysym and handle_text.  Show(u) is the end of most *)
(* branches: the dialog becomes u and dirty_ is set.                        *)

Key(S) ==
    /\ Dispatch("key")
    /\ keyboard
    /\ xkb
    /\ Head(wire).sym \in S
    /\ UNCHANGED <<configured, keyboard, xkb>>

Settled ==
    /\ gpc' = "dispatch"
    /\ NotPainted /\ NoLogin
    /\ UNCHANGED running

Show(u) == ui' = u /\ dirty' = TRUE /\ UNCHANGED power

Nothing == UNCHANGED <<ui, dirty, power>>

(* No keymap: the key is dropped. *)
KeyUnmapped ==
    /\ Dispatch("key")
    /\ ~keyboard \/ ~xkb
    /\ Settled /\ Nothing
    /\ UNCHANGED <<configured, keyboard, xkb>>

Advance(k, step, n) == IF n = 0 THEN k ELSE (k + step) % n

UserMenuEscape ==
    /\ ui.mode = "UserMenu"
    /\ Key({"Escape"})
    /\ Settled
    /\ Show([ui EXCEPT !.mode = "Login"])

UserMenuMove ==
    /\ ui.mode = "UserMenu"
    /\ Key({"Tab", "Down", "Up"})
    /\ Settled
    /\ LET step == IF Head(wire).sym = "Up" THEN Count(ui) - 1 ELSE 1
       IN Show([ui EXCEPT !.menu_selected = Advance(@, step, Count(ui))])

(* Mutant: the password typed for the previous user is kept. *)
UserMenuEnter_keep ==
    /\ ui.mode = "UserMenu"
    /\ Key({"Return"})
    /\ Settled
    /\ \/ Count(ui) = 0 /\ Nothing
       \/ /\ Count(ui) > 0
          /\ Show([ui EXCEPT !.selected = ui.menu_selected, !.mode = "Login",
                             !.message = "PAM AUTHENTICATION", !.error = FALSE])

UserMenuEnter ==
    /\ ui.mode = "UserMenu"
    /\ Key({"Return"})
    /\ Settled
    /\ \/ Count(ui) = 0 /\ Nothing
       \/ /\ Count(ui) > 0
          /\ Show([ui EXCEPT !.selected = ui.menu_selected, !.password = <<>>, !.mode = "Login",
                             !.message = "PAM AUTHENTICATION", !.error = FALSE])

PowerMenuEscape ==
    /\ ui.mode = "PowerMenu"
    /\ Key({"Escape"})
    /\ Settled
    /\ Show([ui EXCEPT !.mode = "Login"])

(* Mutant: the selection runs past the end of the menu. *)
PowerMenuMove_nowrap ==
    /\ ui.mode = "PowerMenu"
    /\ Key({"Tab", "Down", "Up"})
    /\ Settled
    /\ LET step == IF Head(wire).sym = "Up" THEN 2 ELSE 1
       IN Show([ui EXCEPT !.power_selection = @ + step])

PowerMenuMove ==
    /\ ui.mode = "PowerMenu"
    /\ Key({"Tab", "Down", "Up"})
    /\ Settled
    /\ LET step == IF Head(wire).sym = "Up" THEN 2 ELSE 1
       IN Show([ui EXCEPT !.power_selection = (@ + step) % 3])

(* The child that runs zero-helper is not waited for. *)
run_power_action ==
    /\ ui.mode = "PowerMenu"
    /\ Key({"Return"})
    /\ Settled
    /\ ui' = [ui EXCEPT !.mode = "Login"]
    /\ dirty' = TRUE
    /\ power' = IF ui.power_selection = 0 THEN "shutdown"
                ELSE IF ui.power_selection = 1 THEN "reboot" ELSE power

(* Keys that a menu swallows, and every key once the session has started. *)
KeySwallowed ==
    /\ \/ ui.mode \in {"UserMenu", "PowerMenu"} /\ Key({"BackSpace", "text", "other"})
       \/ ui.mode \in {"Authenticating", "StartingSession"} /\ Key(Syms)
    /\ Settled /\ Nothing

LoginTab ==
    /\ ui.mode = "Login"
    /\ Key({"Tab"})
    /\ Settled
    /\ LET u == reload_users(ui)
       IN Show([u EXCEPT !.menu_selected = u.selected, !.mode = "UserMenu",
                         !.message = "", !.error = FALSE])

LoginEscape ==
    /\ ui.mode = "Login"
    /\ Key({"Escape"})
    /\ Settled
    /\ Show([ui EXCEPT !.power_selection = 2, !.mode = "PowerMenu",
                       !.message = "", !.error = FALSE])

LoginBackSpace ==
    /\ ui.mode = "Login"
    /\ Key({"BackSpace"})
    /\ Settled
    /\ Show([ui EXCEPT !.password = IF @ = <<>> THEN @ ELSE SubSeq(@, 1, Len(@) - 1),
                       !.message = "PAM AUTHENTICATION", !.error = FALSE])

(* A character typed when there is no account to type it for has no owner;  *)
(* keyboard_key passes none on once running_ is false.                      *)
handle_text ==
    /\ ui.mode = "Login"
    /\ Key({"text"})
    /\ Settled
    /\ \/ /\ ~running \/ Len(ui.password) >= kMaxPassword
          /\ Nothing
       \/ /\ running
          /\ Len(ui.password) < kMaxPassword
          /\ Show([ui EXCEPT !.password = Append(@, Selected(ui)),
                             !.message = "PAM AUTHENTICATION", !.error = FALSE])

(* Arrows and other keys in the login view: not handled, and no text. *)
LoginOther ==
    /\ ui.mode = "Login"
    /\ Key({"Down", "Up", "other"})
    /\ Settled /\ Nothing

----------------------------------------------------------------------------
(* attempt_login and authenticate_and_start_session *)

LoginNoUsers ==
    /\ ui.mode = "Login"
    /\ Key({"Return"})
    /\ Count(ui) = 0
    /\ Settled
    /\ Show([ui EXCEPT !.message = "CREATE A USER FIRST", !.error = TRUE])

LoginAttempt ==
    /\ ui.mode = "Login"
    /\ Key({"Return"})
    /\ Count(ui) > 0
    /\ UNCHANGED <<running, session_started, power>>

Attempting == [ui EXCEPT !.mode = "Authenticating", !.message = "AUTHENTICATING",
                         !.error = FALSE]

Failed(message) == [ui EXCEPT !.mode = "Login", !.password = <<>>,
                              !.message = message, !.error = TRUE]

(* The form is repainted, then the helper is forked with both pipes; the    *)
(* child closes the ends it does not use.                                   *)
ForkHelper ==
    /\ LoginAttempt
    /\ ui' = Attempting
    /\ render(Attempting)
    /\ helper' = "main"
    /\ stdin' = [data |-> <<>>, open |-> TRUE]
    /\ account' = NoName
    /\ stdout' = ""
    /\ status' = 0
    /\ gpc' = "write"
    /\ UNCHANGED <<passwd, sessions>>

(* pipe or fork fails: dirty_ is set again whether or not the form was      *)
(* painted on the way.                                                      *)
ForkFails ==
    /\ "fork" \in Faults
    /\ LoginAttempt
    /\ Paint(Attempting)
    /\ ui' = Failed("AUTH HELPER FAILED")
    /\ dirty' = TRUE
    /\ gpc' = "dispatch"
    /\ UNCHANGED authVars

(* Mutant: a write end of the pipe stays open, here or in the child. *)
WriteRequest_unclosed ==
    /\ gpc = "write"
    /\ helper # "dead"
    /\ stdin' = [data |-> <<[user |-> Selected(ui), password |-> ui.password]>>, open |-> TRUE]
    /\ gpc' = "wait"
    /\ UNCHANGED <<passwd, helper, account, stdout, status, sessions, exit, running,
                   session_started, display_error, configured, dirty, ui, keyboard, xkb,
                   busy, power, envVars>>

(* write_all and close of the request pipe. *)
WriteRequest ==
    /\ gpc = "write"
    /\ helper # "dead"
    /\ stdin' = [data |-> <<[user |-> Selected(ui), password |-> ui.password]>>, open |-> FALSE]
    /\ gpc' = "wait"
    /\ UNCHANGED <<passwd, helper, account, stdout, status, sessions, exit, running,
                   session_started, display_error, configured, dirty, ui, keyboard, xkb,
                   busy, power, envVars>>

(* Nobody reads the pipe any more: SIGPIPE, which neither the code nor the  *)
(* unit (IgnoreSIGPIPE=no) ignores, ends the greeter.                       *)
WriteBroken ==
    /\ gpc = "write"
    /\ helper = "dead"
    /\ gpc' = "exited"
    /\ exit' = "sigpipe"
    /\ UNCHANGED <<authVars, running, session_started, display_error, configured, dirty,
                   ui, keyboard, xkb, busy, power, envVars>>

LoginMessage ==
    IF status = Signalled THEN "AUTH HELPER FAILED"
    ELSE IF status = 0 THEN "SESSION STARTING"
    ELSE IF stdout \in {"AUTH FAILED", "PAM ERROR", "SESSION FAILED", "USER INVALID"} THEN stdout
    ELSE IF status = kAuthFailed THEN "AUTH FAILED"
    ELSE IF status = kSessionFailed THEN "SESSION FAILED"
    ELSE "AUTH HELPER FAILED"

(* The answer's pipe is at its end and waitpid has returned.  systemd-run   *)
(* holds the pipe too, so a helper killed while it runs is waited for until *)
(* the session has started or not: as if it was killed after or before.     *)
Reaped ==
    /\ gpc = "wait"
    /\ helper = "dead"
    /\ helper' = "none"
    /\ gpc' = "dispatch"
    /\ UNCHANGED <<passwd, stdin, account, stdout, status, sessions, exit, display_error,
                   configured, keyboard, xkb, busy, power, envVars>>

(* Mutant: the dialog goes back to the login view although the session      *)
(* started.                                                                 *)
LoginSucceeds_to_login ==
    /\ Reaped
    /\ status = 0
    /\ ui' = [ui EXCEPT !.mode = "Login", !.password = <<>>,
                        !.message = LoginMessage, !.error = FALSE]
    /\ session_started' = TRUE
    /\ running' = FALSE
    /\ UNCHANGED dirty

LoginSucceeds ==
    /\ Reaped
    /\ status = 0
    /\ ui' = [ui EXCEPT !.mode = "StartingSession", !.password = <<>>,
                        !.message = LoginMessage, !.error = FALSE]
    /\ session_started' = TRUE
    /\ running' = FALSE
    /\ UNCHANGED dirty

LoginFails ==
    /\ Reaped
    /\ status # 0
    /\ ui' = Failed(LoginMessage)
    /\ dirty' = TRUE
    /\ UNCHANGED <<session_started, running>>

GreeterStep ==
    \/ LoopExit \/ LoopTurn \/ PollTimeout \/ DispatchFails \/ DispatchDone
    \/ surface_configure \/ toplevel_close \/ seat_capabilities \/ keyboard_keymap
    \/ buffer_release
    \/ KeyUnmapped \/ KeySwallowed
    \/ UserMenuEscape \/ UserMenuMove \/ UserMenuEnter
    \/ PowerMenuEscape \/ PowerMenuMove \/ run_power_action
    \/ LoginTab \/ LoginEscape \/ LoginBackSpace \/ handle_text \/ LoginOther
    \/ LoginNoUsers \/ ForkHelper \/ ForkFails
    \/ WriteRequest \/ WriteBroken \/ LoginSucceeds \/ LoginFails

----------------------------------------------------------------------------
(* The compositor, the person and the account database (external) *)

Ev(kind) == [kind |-> kind, sym |-> "other", n |-> 0]

EnvStep == UNCHANGED <<authVars, uiVars>>

(* The greeter has the keyboard focus; keys reach it in order. *)
Press(sym) ==
    /\ comp
    /\ plugged /\ keyboard
    /\ gpc # "exited"
    /\ typed < MaxKeys
    /\ typed' = typed + 1
    /\ wire' = Append(wire, [Ev("key") EXCEPT !.sym = sym])
    /\ EnvStep /\ UNCHANGED <<held, shown, screen, comp, plugged, edits>>

(* A buffer is given back once it has been replaced or copied. *)
ReleaseBuffer(b) ==
    /\ comp
    /\ b \in held
    /\ held' = held \ {b}
    /\ wire' = Append(wire, [Ev("release") EXCEPT !.n = b])
    /\ EnvStep /\ UNCHANGED <<shown, screen, comp, plugged, typed, edits>>

ReleaseReplaced == \E b \in held \ {shown} : ReleaseBuffer(b)

CloseToplevel ==
    /\ "close" \in Faults
    /\ comp
    /\ running
    /\ ~ \E n \in DOMAIN wire : wire[n].kind = "close"
    /\ wire' = Append(wire, Ev("close"))
    /\ EnvStep /\ UNCHANGED <<held, shown, screen, comp, plugged, typed, edits>>

CompositorExits ==
    /\ "compositor-exit" \in Faults
    /\ comp
    /\ comp' = FALSE
    /\ EnvStep /\ UNCHANGED <<wire, held, shown, screen, plugged, typed, edits>>

(* The keyboard leaves the seat, or comes back with a keymap that may or    *)
(* may not compile.  Counted with the key presses.                          *)
Unplug ==
    /\ "unplug" \in Faults
    /\ comp
    /\ gpc # "exited"
    /\ typed < MaxKeys
    /\ typed' = typed + 1
    /\ plugged' = ~plugged
    /\ \/ plugged /\ wire' = Append(wire, Ev("caps"))
       \/ /\ ~plugged
          /\ \E n \in 0 .. 2 :
                wire' = wire \o <<[Ev("caps") EXCEPT !.n = 1], [Ev("keymap") EXCEPT !.n = n]>>
    /\ EnvStep /\ UNCHANGED <<held, shown, screen, comp, edits>>

EditPasswd ==
    /\ edits < MaxEdits
    /\ edits' = edits + 1
    /\ passwd' \in PasswdFiles \ {passwd}
    /\ UNCHANGED <<helper, stdin, account, stdout, status, sessions, uiVars,
                   wire, held, shown, screen, comp, plugged, typed>>

Environment ==
    \/ \E sym \in Keys : Press(sym)
    \/ \E b \in Buffers : ReleaseBuffer(b)
    \/ CloseToplevel \/ CompositorExits \/ Unplug \/ EditPasswd

HelperRuns ==
    /\ HelperStep \/ HelperKilled
    /\ UNCHANGED <<uiVars, envVars>>

----------------------------------------------------------------------------
(* After init(): the users are loaded, the keyboard is bound, and the       *)
(* compositor answers the first commit.                                     *)
Init ==
    /\ AuthInit
    /\ gpc = "top"
    /\ exit = ""
    /\ running = TRUE
    /\ session_started = FALSE
    /\ display_error = FALSE
    /\ configured = FALSE
    /\ dirty = TRUE
    /\ ui = [mode |-> "Login", users |-> load_users, selected |-> 0, menu_selected |-> 0,
             power_selection |-> 2, password |-> <<>>, message |-> "PAM AUTHENTICATION",
             error |-> FALSE]
    /\ keyboard = TRUE
    /\ xkb = FALSE
    /\ busy = [b \in Buffers |-> FALSE]
    /\ power = ""
    /\ wire = <<[Ev("keymap") EXCEPT !.n = 1], Ev("configure")>>
    /\ held = {}
    /\ shown = 0
    /\ screen = NoFrame
    /\ comp = TRUE
    /\ plugged = TRUE
    /\ typed = 0
    /\ edits = 0

Next == GreeterStep \/ HelperRuns \/ Environment

Spec == Init /\ [][Next]_vars

(* Each process keeps running, and the compositor gives back a buffer that  *)
(* has been replaced.                                                       *)
Fairness ==
    /\ WF_vars(GreeterStep)
    /\ WF_vars(HelperStep /\ UNCHANGED <<uiVars, envVars>>)
    /\ WF_vars(ReleaseReplaced)

FairSpec == Spec /\ Fairness

----------------------------------------------------------------------------
(* Properties *)

SelectionInRange ==
    /\ Count(ui) = 0 => ui.selected = 0 /\ ui.menu_selected = 0
    /\ Count(ui) > 0 => ui.selected < Count(ui) /\ ui.menu_selected < Count(ui)

(* users_[selected_] and the menu's selection exist whenever a user does,   *)
(* although the list is read again while the indices are kept (reload_users *)
(* and clamp_selection), so attempt_login and draw_user_menu index the      *)
(* vector within its bounds; and the rows that draw_user_menu paints are    *)
(* users of the list, the highlighted one among them, for every length.     *)
MenuShowsSelection ==
    LET rows == MenuRows(Count(ui), ui.menu_selected)
    IN /\ SelectionInRange
       /\ rows \subseteq 0 .. (Count(ui) - 1)
       /\ Count(ui) > 0 => ui.menu_selected \in rows

(* Whenever no repaint is due, what the screen shows is the dialog as it    *)
(* is: no handler changes it silently, and a repaint for which no buffer    *)
(* was free is not forgotten (render's early return, attempt_login's own    *)
(* call of render).                                                         *)
ScreenCurrent == ~dirty /\ ~session_started => screen = draw_frame(ui)

(* A buffer is never drawn into while the compositor may still read it.     *)
NeverDrawsHeldBuffer == [][screen' # screen => shown' \notin held]_vars

(* The form holds nothing but what was typed for the user who is selected. *)
Owned(u) == \A n \in DOMAIN u.password : u.password[n] = Selected(u)

(* Tab in the login view, with other accounts than when they were last read. *)
ReadsChangedList == LoginTab /\ load_users # ui.users

(* The password sent for a user was typed while that user was selected:     *)
(* choosing another user drops what was typed, and a form comes to hold     *)
(* another user's password only when the menu is opened on a list that has  *)
(* changed, whatever happened to the accounts before (greeter_esc is about  *)
(* that).                                                                   *)
PasswordForSelectedUser == [][Owned(ui) => Owned(ui') \/ ReadsChangedList]_vars

(* No more than one session is started, it is that of the user who was      *)
(* selected, and outside an attempt the greeter knows of it: keys queued    *)
(* behind the Enter that succeeded start nothing, a failed attempt leaves   *)
(* nothing running.                                                         *)
HandoffMatchesSession ==
    /\ Len(sessions) <= 1
    /\ session_started => sessions = <<Selected(ui)>>
    /\ gpc \in {"top", "poll", "dispatch", "exited"} => (session_started <=> sessions # <<>>)

(* A login attempt ends: the greeter is back in its dialog or has exited.   *)
(* Neither process waits for the other's end of a pipe for ever.            *)
AttemptEnds == gpc \in {"write", "wait"} ~> gpc \in {"dispatch", "exited"}

(* A repaint that is due takes place, with two buffers and a compositor     *)
(* that gives them back.                                                    *)
RepaintHappens == (configured /\ dirty) ~> (~dirty \/ gpc = "exited")

(* docs/greeter-ui.md, user selector: "Esc: close without changing."  If    *)
(* the user for whom the password in the form was typed still exists, that  *)
(* user is the one selected after it.                                       *)
UserNames(u) == {u.users[n].name : n \in DOMAIN u.users}

EscClosesWithoutChanging ==
    [][UserMenuEscape =>
         \A n \in DOMAIN ui'.password :
            ui'.password[n] \in UserNames(ui') => ui'.password[n] = Selected(ui')]_vars

=============================================================================
