# Cardputer Zero OS: a TLA+ model

Cardputer Zero OS turns a Raspberry Pi image into a small handheld system: a
login screen on the internal panel, a user session under labwc, a Shell, and a
set of small programs between them. This directory models those programs in
TLA+, model-checks small instances with TLC and proves some of the results for
every instance with TLAPS. All line numbers refer to the sources in `src/`.

## The system

| component | state it keeps | operations | interacts with |
|---|---|---|---|
| window agent (`window-agent/zero-window-agent.cpp`) | the table of toplevels, the next id, the connected clients with their output buffers, one "changed" flag | one poll loop: toplevel events, accept, commands, partial writes, prune, broadcast, signals | labwc over the foreign-toplevel protocol; the Shell and `zero-shell-control` over a local socket |
| greeter (`greeter/zero-greeter-wayland.cpp`) | the dialog (mode, user list, selection, password, message), two shared buffers, `dirty_` | keys in five modes, configure/close/keymap/release events, painting, a blocking login attempt | the compositor; the helper through two pipes |
| authentication helper (`greeter/zero-greeter-auth.cpp`) | one request | read to end of file, check the account, PAM, `systemd-run` | greeter, account database, PAM, systemd |
| key policy (`zero-key-policy`) | when Esc went down, whether the long action was sent | key down, repeat, up, select timeout | input device; runs `zero-shell-control` and waits for it |
| shell control (`zero-shell-control`) | a command file with one slot | tasks, hide-tasks, focus-shell, minimize-active, close-active | window agent, Shell; several run at once |
| session handoff (`zero-greetd.service`, `zero-greeter-should-start`, session scripts) | the unit, the seat's owner | start condition, restart on failure, start limit, handoff | greeter, systemd, logind |
| shell session (`cardputer-zero-shell-session`, labwc autostart) | pid files, the socket path | start agent and idle daemon once, wait for the socket, exec the Shell | window agent, idle daemon |
| polkit agent and prompt (`polkit-agent/`) | one record per request | initiate, request, cancel, completed; a blocking prompt | polkitd, the prompt process |
| idle daemon (`cardputer-zero-idle`) | active timeout, the swayidle child | poll the setting, restart swayidle, wake the output | swayidle, wlopm |
| HDMI policy (`zero-hdmi-lightdm-policy`) | a marker file | wait for a cable, start or stop lightdm | udev, systemd |
| `zero-helper`, configuration, set-up and probe scripts | none | one command each | |

What is hard here is never an algorithm. It is one thread that serves several
parties through poll, with state that outlives the system call it was computed
for; batches of events cut at any point; two processes joined by pipes; a
blocking call inside an event handler, with keys queued behind it; buffers
shared with a compositor; a list that is read again under an index; scripts
that check and then act. `PROJECT.json` lists these as hazards, each at its line.

What makes each part correct:

- *window agent*: an id means one window for ever; commands on "the active
  task" never hit the Shell; a dead toplevel cannot be reached; every command
  has one answer; a subscriber ends up with the compositor's table; SIGTERM
  ends it.
- *greeter and helper*: the selection exists; the screen shows the dialog; no
  buffer is drawn into while it is on screen; the password goes with the user
  for whom it was typed; one session at most, and the greeter knows of it; an
  attempt ends.
- *key policy and shell control*: one action per press; only a long press
  closes, and a long one read in time never minimizes; a script that succeeds
  leaves the Shell in front; the policy comes back to its keys whatever the
  agent does.
- *session handoff* (not modelled): one owner of the seat; after a failure some
  login screen or session comes back.
- *shell session* (not modelled): one agent, with a socket that somebody serves.
- *polkit agent and prompt*: every request is answered, and granted only for
  the right password; the password arrives as it was typed; nothing calls into
  a freed request; the prompt ends.
- *idle*: the choice that stays takes effect; with "never", and after the
  daemon's end, the output is on; an output that is off has somebody to wake it.

## Modules

| module | what it is |
|---|---|
| `TaskService` | abstract: what the window agent's clients may count on |
| `WindowAgent` | the agent's poll loop, with the compositor and the socket's peers around it; implements `TaskService` |
| `MCWindowAgent`, `WindowAgent*.cfg` | instances for TLC |
| `WindowAgentProofs`, `WindowAgentTaskProofs`, `WindowAgentClientProofs` | theorems about `WindowAgent` |
| `GreeterAuth` | the helper process |
| `Greeter` | the greeter; extends `GreeterAuth`, so that the two run side by side |
| `MCGreeter`, `Greeter*.cfg` | instances for TLC |
| `GreeterProofs` | theorems about `Greeter` |
| `PromptContract` | abstract: what the polkit agent relies on when it runs the prompt |
| `PolkitPrompt` | the prompt's window and thread; implements `PromptContract` |
| `PolkitAgent` | the polkit agent; extends `PromptContract`, so that it runs with any prompt that keeps it |
| `MCPolkitPrompt`, `MCPolkitAgent`, `Polkit*.cfg` | instances for TLC |
| `PolkitPromptProofs`, `PolkitAgentProofs` | theorems about them |
| `ShellControl` | runs of `zero-shell-control`, several at once, and what they see of the window agent |
| `KeyPolicy` | the key policy with the keyboard and the clock; extends `ShellControl`, whose runs it starts and waits for |
| `Idle` | the idle daemon with swayidle, the output and the configuration files |
| `MCKeyPolicy`, `MCIdle`, `KeyPolicy.cfg`, `Idle.cfg` | instances for TLC |
| `KeyPolicyProofs`, `IdleProofs` | theorems about them |

A definition `X_something` preceded by a comment "Mutant" is a plausible bug:
put in the place of `X` it makes a property fail. Mutants take no part in the
specification.

### WindowAgent

The variables of the first group are the members of `WindowAgent` (`tasks_`,
`next_id_`, `changed_`, `clients_`), `g_running`, and the locals of `run()` that
live across system calls: the poll result `fds` and the client index `i`. `fds`
is kept by position, as in the code, because the code indexes it by position
after clients have been erased. `pc` is the place in `run()`.

A step is the code from one system call to the next, for that is all the rest of
the world can tell apart: `PreparePoll` (dispatch pending, prune, broadcast,
building the pollfd vector, flush), `PollReady`/`PollTimeout`/`PollFails`, one
action per toplevel event (`manager_toplevel`, `handle_title`, ...), accept, one
command line of `handle_client` with one action per family of verbs, one
message written by `flush_client`. The client loop's three outcomes (close on
hang-up, read, flush) are actions too.

Around the agent, from how the code uses them: the compositor, with toplevels
that open, close and change focus, the events it reports and the requests it
serves; and peers that connect, send lines, read and hang up.

`TaskService` is the agent as its clients see it: a table of lines, and actions
that answer a command in one step against the table as it is then. A change of
the table is followed, some time later, by a snapshot for every subscriber; the
queue of a connection reaches its peer in order, and only its end can be lost.
The refinement mapping (`Service` in `WindowAgent`) takes the open tasks for the
table, `changed_` for the snapshot that is due, and for the queue of a
connection what is in the socket followed by what is in its `Client::output`.
Of `pc`, `fds`, `i`, the closed tasks and the order of `clients_` nothing is
left: they must not show.

Abstractions:

- A name is "none yet", "the Shell's" or "another", all that `is_shell_task`
  tells apart. Encoding of names and the flags maximized and fullscreen are
  only copied out and are left out.
- A snapshot is one message with the set of its task lines, not a sequence of
  lines: a partial write never shows a peer a piece of a message as a whole
  one, because the peers read up to the end of a line.
- Lines arrive whole, and `kMaxLine` is the separate kind of line "overlong": the
  code tests the whole input buffer, of which the model holds one line at a time.
  A peer that shuts down only one direction is not modelled.
- With `AcceptFails` any error of `accept4` may end the accept loop with
  connections left in the backlog. It is FALSE in `window_live` and
  `window_cascade`: how long descriptors or memory stay short is not the agent's
  doing, and a connection that is never accepted gets no answer.
- Each element of `Conns` is one connection, used once; reconnecting is another
  element.
- `SplitReads` says whether a read of the display may end inside a batch of
  events. It is TRUE where the table is the subject (`WindowAgentTasks`), and
  FALSE elsewhere to keep the state space small.
- `SockCap` is how many messages the kernel takes before the agent's write
  would block. With 1 the second message always waits, the case that matters.

### GreeterAuth and Greeter

`GreeterAuth` is `main()` of the helper, cut where another process may act or a
call may fail: the caller check, reading to end of file, the account check, PAM,
`systemd-run`, and reporting. Every refusal is an action.

`Greeter` keeps everything `draw_frame` reads in one record `ui`. There is one
action per branch of `handle_keysym`/`handle_text`, one per listener, and the
turns of `run()`. A login attempt is split where the two processes meet: the
fork (after painting "AUTHENTICATING"), the write and close of the request
pipe, and the end of the response pipe with `waitpid`. Between these the
greeter handles no event; keys pile up in `wire`.

Abstractions:

- A character of the password is the account that was selected when it was
  typed. That is what `PasswordForSelectedUser` and `EscClosesWithoutChanging`
  need.
- A frame is what the dialog puts into it (mode, user, rows, highlighted row,
  number of dots, message), not pixels; the clock is left out.
- Keys are classes of keysyms (`Syms`). Key repeat and releases do nothing in
  the code. Modifiers only choose the character.
- An account is its name, uid, whether its home is under `/home/`, and what
  `shell_is_login_capable` sees of its shell. Names of more than 64 bytes are
  `LongNames`.
- PAM, `systemd-run`, `fork`, `exec`, the compositor and the keyboard fail as
  `Faults` allows.
- The response pipe is at its end when the helper has ended. `systemd-run`, which
  inherits the pipe, has returned by then unless a signal ends the helper alone;
  that only delays the same outcome.
- `init()` is done: its failures end the process before there is any state.

### PromptContract, PolkitPrompt and PolkitAgent

The agent runs the prompt as a child process, reads one line from it and waits
for its exit status. `PromptContract` says all that the agent may count on:
status 0 comes after a last decision to submit and with the text as the person
left it; no character is added after a decision; every other end gives no text.
`PolkitPrompt` is shown to implement it (`KeepsContract`, a refinement mapping
in which an accepted line in `stdout` is the contract's text), and `PolkitAgent`
is built on the contract, so the window's detail does not multiply the agent's
states.

`PolkitPrompt` has one action per listener and per key class, and the turns of
`run()`. `wire` holds what the compositor has sent; `wl_display_dispatch` takes
one or more events from it, so several keys may be handled before `running_` is
tested.

`PolkitAgent` has one action per call that the GLib main loop makes into the
agent. `on_session_request` sets `agent` to "prompt" and the loop handles
nothing until the prompt has ended; calls queue in `inbox`, helpers go on by
themselves. External, from how the code uses them: polkitd's calls; the helper
of each `PolkitAgentSession` and its PAM conversation; `GTask`, whose result
reaches polkitd at once or, for a task created in the same turn, from an idle
source; `GCancellable`, which runs the connected handlers and makes
`g_cancellable_disconnect` wait for a running one; `polkit_agent_session_cancel`,
which emits "completed" before it returns.

Abstractions:

- The line and the exit status of the prompt reach the agent in one step: it
  uses neither before it has both.
- The prompt is started with valid arguments, as the agent always does; its usage
  exit is left out.
- A cancelled request is usually refused to polkitd at once. Its result waits in an
  idle source, behind the caught thread, when the task was created in the same
  turn; `on_auth_cancelled` has both outcomes.
- Texts that are only shown (message, identity label, request) are left out;
  `info_text` is kept as its source. `show-info` and `show-error` are one action.
- The identity is a user; PAM accepts exactly `Password[identity]`.
- `"stuck"` is the thread inside `g_cancellable_disconnect`, which does not
  return.
- Modifiers, pings and the layout of the window are left out; a frame is what
  the field shows.

### ShellControl and KeyPolicy

A run of `zero-shell-control` is a process of its own: `spc` says which call of
the script it is in, `call` how far its `agent_command` is. Each call is one
line in the agent's `inbox`, which the agent serves at any time, in any order,
or never (`AgentServes`); what it answers is free, because the table behind it
changes all the time. A run that has stopped waiting leaves its line behind, and
the agent may still serve it. `did` records what the agent did for each run.
`send_shell_command` is two steps, since all runs share one `.tmp` file.

`KeyPolicy` is the single thread of `main()`. `run_control` is called in the
middle of handling an event and is modelled as where the thread is (`kpc`):
`zero_session`, the question to the agent before a minimize, the start of the
script, the wait for it with its two-second limit. Until it returns nothing is
read: events queue in the device (`queue`), and `Event` drops the queue when it
is full, as evdev does. `elapsed` is `time.monotonic() - esc_down_at`, counted
from when the key is *read*; `length` is how long the person really held it.

Abstractions:

- Time is in ticks up to `LongPress`. The thread is prompt: when nothing blocks
  it, it reads what there is before the next key (`Served`), and acts on a timeout
  that is due before more time passes (`Prompt`). Repeat and release may still
  arrive exactly when the timeout is due and be read first, so that each of the three
  places that act on a long press is reached.
- A question to the agent (`active-is-shell`) that nobody waits for any more has
  no effect and is dropped when its sender gives up. Commands are kept.
- Which command the Shell finds in the command file is left out: the Shell is
  not in the repository.
- `ensure_zero_vt` returns at once under the unit, which sets
  `ZERO_KEY_POLICY_TTY` to nothing. `--action` is one call of `run_control`
  without the loop; such a run of the script is one of `OtherRun`'s kind.
- `PolicyRestarts` is any end of the process; systemd kills what is left in the
  unit's control group and starts it again, with the device opened anew. The
  pause before it does (`RestartSec`) is not modelled: presses during it are
  lost with the queue.
- A read of the device returns whole events, as evdev does; the branch for a
  short read (`zero-key-policy:238`) is left out.

### Idle

`main()` with one action per part of a turn: reading the first configuration file
(`Turn`) and the second (`SecondFile`), either of which may settle the choice
(`Decide`), `stop_child` up to the SIGTERM, the wait for the child or its SIGKILL
(`ChildWait`), `start_swayidle`, `wlopm_on`, the sleep; `Finally` is the
`finally` block, reached when a signal has cleared `running`. The two files may
change between any two steps; a file is missing, unreadable, without the entry,
with an unknown name or with a known one. `Default` is whatever the environment
says and need not be a known name.

External, from how the daemon uses it: `swayidle -w`, which runs a command and
waits for it, runs the resume command at input, and at SIGTERM runs it if due and ends.
It may crash or not end, as `Faults` allows; the `wlopm` it was waiting for then
goes on alone (`stray`). `output` also records why it is not on, for the
properties: turned off by the swayidle that runs ("off"), by one that has died since
("lost"), or by a `wlopm` that outlived its swayidle ("late"). No action of the
daemon looks at the difference.

Two exceptions are left out; both end the daemon. A configuration file that is
not valid UTF-8 raises `UnicodeDecodeError`, which `load_timeout` does not catch.
And `child.wait` after the SIGKILL may itself time out (`cardputer-zero-idle:121`),
which takes a process that the kernel cannot end.

## Runs

| run | instance | what it shows |
|---|---|---|
| `window_tasks` | one client, two toplevels, three operations of the user, two commands, batches cut anywhere | `IdsNameOneToplevel`, `ActiveCommandsSpareShell`, `QuietTableIsTrue` |
| `window_clients` | two clients (symmetric), one toplevel, a command of every kind each, full sockets, hang-ups, failing accepts | `TypeOK` (reads and flushes index a client that exists), `SubscribersCurrent`, `OneAnswerPerCommand`, `KeepsService` (refinement) |
| `window_live` | one client, all faults, fairness | `SubscribersConverge`, `EveryCommandSettles`, `ShutdownCompletes` |
| `window_cascade` | two clients, hang-ups | a violation of `SubscriptionLasts`, see below |
| `greeter_dialog` | any four keys, three account lists with one edit, more users than rows, refusals and failures of the helper | `TypeOK`, `MenuShowsSelection`, `ScreenCurrent`, `PasswordForSelectedUser`, `HandoffMatchesSession`, `NeverDrawsHeldBuffer` |
| `greeter_live` | every fault, fairness | `AttemptEnds`, `RepaintHappens` |
| `greeter_esc` | six keys, an account removed | a violation of `EscClosesWithoutChanging`, see below |
| `polkit_prompt` | any three keys or changes of the seat, every fault, fairness | `TypeOK`, `FieldShowsSecret`, `SparesHeldBuffers`, `KeepsContract` (refinement), `PromptEnds` |
| `polkit_agent` | two requests, one of which may be cancelled, two users, two prompts each, every failure, fairness | `TypeOK`, `GrantsAreEarned`, `EveryRequestIsCarried`, `CallbacksFindLive`, `AnswersArriveWhole`, `EveryRequestAnswered` |
| `polkit_cancel` | the same | a violation of `PromptOpensWhenNeeded`, see below |
| `key_policy` | two presses of any length, or one and another caller of the script, a queue of three events, one restart, every fault, fairness | `TypeOK`, `OneRequestPerPress`, `ShortPressNeverCloses`, `LongPressNeverMinimizes`, `SuccessShowsShell`, `PolicyReturns` |
| `idle` | three timeouts, two changes of the files, two failures of swayidle, fairness | `TypeOK`, `OffHasWaker`, `ExitLeavesOutputOn`, `NeverMeansOn`, `SettingApplied` |

Bounds. Two toplevels and two commands are the least with which an id can be
pruned and another given, and with which a command can meet a table half
updated. Two clients are the least with which one slides into another's place.
Four keys are enough to open the menu, move, choose and submit, or to type,
submit and have two keys queued behind the attempt; with three account lists
(none, two and four users who may log in) the menu is empty, short and longer
than its rows. Six keys are needed only for the long path of `greeter_esc`. The
liveness runs have two commands or three keys and every fault, so that a fault can
meet each stage of an attempt or of a turn.

Three keys are enough to type, decide and have one key read behind the decision,
and to reach the limit of two characters with one to spare. Two requests are the
least with which one queues behind the other's prompt; one character against a
limit of one and an output of three puts the longest line exactly at the end of
the buffer; two rounds let a helper ask again.

Two presses are the least with which one is queued behind the action of another,
and two runs the least that can take each other's `.tmp` file away. A long press
of two ticks leaves room for a press that is neither at once nor long; a queue
of three holds a whole press with a repeat and overflows at the next. Two
changes of the files let the choice change, and change back, while the old
swayidle is being stopped; two failures let one die in either of two places.

Two limits of `greeter_dialog` are deliberate. `PasswordForSelectedUser` exempts
the one step that `greeter_esc` is about, a Tab that reads a list which has
changed, and no other. And the helper is not killed by a signal: killed after `systemd-run` succeeded
and before it reported, it leaves a session of which the greeter does not
know; nothing in the code could prevent that.

Deadlock is checked in the runs of the window agent except `window_live`, where
the process may exit; the greeter's and the prompt's runs switch it off, because
those programs really end, the polkit agent's, because all requests may be
answered (or the thread stuck) with nothing left to do, that of the key policy,
because its presses are bounded, and that of the idle daemon, which ends.

### Fairness

`WindowAgent`: weak fairness of the agent's own steps (a runnable thread; poll
has a 1 s timeout), of the compositor serving requests, and of each peer reading
what it has been sent. A peer need not send anything, nor the user do anything.

`Greeter`: weak fairness of the greeter's own steps (its poll has a 100 ms
timeout) and of the helper's (PAM and `systemd-run` return), and the compositor
releases a buffer once another one has been committed, which the Wayland
protocol requires.

`PolkitPrompt`: weak fairness of its thread (its poll has a 100 ms timeout), and
release of replaced buffers, as above.

`PolkitAgent`: the main loop dispatches every source that stays ready; helper
and prompt are processes and run; systemd restarts the unit. Nothing is assumed
of the person or of polkitd: `EveryRequestAnswered` says what happens *if* the
thread does not wait for the person for ever and is not caught by the deadlock
of `polkit_cancel`.

`KeyPolicy`: weak fairness of the policy's thread and of each run of the script.
All their waits have timeouts, so nothing is assumed of the agent.

`Idle`: weak fairness of the daemon's thread and of swayidle's reactions; the
commands they wait for end. Nothing is assumed of the person.

### Findings

- `window_cascade`: after `close_client(i)` the loop looks at the next client
  with the closed client's `revents`, so one hang-up closes every client behind
  it (`zero-window-agent.cpp:763`), against `docs/window-agent.md:92`.
- `greeter_esc`: opening the user menu reloads the list under the kept index, so
  leaving it with Esc can change the selected user
  (`zero-greeter-wayland.cpp:866`), against `docs/greeter-ui.md:49`.
- `polkit_cancel`: a cancellation of a live session runs `on_auth_cancelled`,
  which completes the session and, in `auth_request_free`, waits in
  `g_cancellable_disconnect` for itself (`zero-polkit-agent.c:168`). The agent
  prompts for nothing any more, against `polkit-agent/README.md:5`. polkitd has
  its refusal by then, so nothing shows until the next request.

Three limits of the code that the properties are worded around, without a run of
their own:

- A press that is queued behind a running action is measured from when it is
  read (`zero-key-policy:254`), so a long Esc can be taken for a short one and
  minimize where `README.md:246` has it close. `LongPressNeverMinimizes` is
  about the presses that are read in time (`ontime`).
- When swayidle dies by itself while the output is off, its successor
  (`cardputer-zero-idle:147`) is not idle and will not run the resume hook at
  the next input, against `README.md:221`; the output stays off until it has been
  idle for a whole timeout again. `OffHasWaker` exempts an output that was turned
  off by a swayidle which has died since ("lost"), until the output is on again.
- When swayidle is killed or crashes while its `wlopm --off` is under way
  (`cardputer-zero-idle:120`), nobody waits for that `wlopm`: it may turn the output off
  after "never" has been put into effect, or after the daemon has ended.
  `ExitLeavesOutputOn`, `NeverMeansOn` and `NeverIsLit` exempt an output that was turned
  off so ("late").

## Proofs

The eight proof modules are checked by TLAPS for every value of the constants:
any number of connections, toplevels, commands, keys, users, edits, requests,
rounds, presses and scripts, any timeouts and bounds. The assumptions are the named `ASSUME`s of the modules, which
say what the constants are (`BoundsAssumption`, `FaultsAssumption`, ...), and
which TLC evaluates on every instance. Nothing else is assumed. In one place a
proof needs induction over a list (the accounts that `load_users` keeps): the
lemma `Induction` of `GreeterProofs` states it for a *set* of numbers, which
the prover can instantiate, where the library's theorem takes a predicate.

| theorem | states | argument |
|---|---|---|
| `TypeCorrect` | `TypeOK` of the window agent | `TypeOK` is inductive; it includes that `i` is within `clients_` while a client is read or flushed |
| `IdsNameOneToplevelAlways` | `IdsNameOneToplevel` | not inductive alone: `IdInv` adds that every id in the table, in an output buffer, in a socket or in a peer's hands is below `next_id_`, so that `next_id_++` names something new |
| `ShellAlwaysSpared` | `ActiveCommandsSpareShell` | `NameInv`: as long as a task of the Shell has no name, it is not active and its title is on the way, ahead of any state; commands look at the name when they are handled, so the order of the events is what decides |
| `QuietTableAlwaysTrue` | `QuietTableIsTrue` | `TableInv`, for each toplevel and whatever is still on the way: an open one has a task or the announcement of one in `wire`; the last name and the last flags under way, or those of the task if there are none, are the compositor's; a task that `closed` has reached is pruned or will not be told "done" again; one that is gone has its "closed" behind every "done". At most one toplevel is active, so a change of focus reports on two at most |
| `SubscribersAlwaysCurrent`, `CommandsAnsweredOnce` | `SubscribersCurrent`, `OneAnswerPerCommand` | `ConnInv`: a connection is one entry of the backlog or one client, which survives the moves `erase` makes in the vector; without it the output found for a connection could be another client's. `AnswerInv` adds that a connection not yet made has sent and received nothing. Every step is one of a few kinds (`StepKinds`): it closes a client, answers a line, skips one, writes a message, or leaves the sockets alone |
| `ClosedTasksNeverReached` | `ClosedTasksAreUnreachable` | each lookup (`find_task`, `shell_task`, `active_task`) and `send_snapshot` skip the closed tasks, and the kinds of steps queue nothing else; `ConnInv` for the clients that `erase` moves |
| `SettledAlwaysSeeTruth` | when no event, broadcast or snapshot is on its way, a subscriber's view is the compositor's toplevels | `SubscribersCurrent` and `QuietTableIsTrue` joined: what `SubscribersConverge` says, except that it must come to this |
| `CascadesAlwaysFollowHangUps` | `CascadesFollowHangUps`: a client that is not at fault is dropped only after a peer has hung up and another connection has lost its client | `HupInv`: a POLLHUP that `run()` may still look at is that of a peer which has hung up, and until a client has been erased it is the one at the same index |
| `AgentImplementsService` | `KeepsService`: `WindowAgent` implements `TaskService` | each step maps to one of the service's or to none: the table changes only with `changed_`, the lookups of the first fitting task are one choice among the lines addressed, `erase` keeps the sets of connections, and a partial write moves a message inside the queue. `ConnInv` again, so that a connection's queue is one client's |
| `GreeterTypeCorrect` | `TypeOK` of the greeter | with `SelectionInRange` (`clamp_selection` and the wrap-around of the menu), and that an attempt is made only when there is a user (`TypeInv`): the name sent is an account's only because the index is in range |
| `MenuAlwaysShowsSelection` | `MenuShowsSelection` | arithmetic of `FirstRow` from `SelectionInRange` |
| `ScreenAlwaysCurrent` | `ScreenCurrent` | inductive: every step leaves the dialog alone, leaves `dirty_` set, paints what the dialog becomes, or hands over |
| `BuffersNeverTorn` | `NeverDrawsHeldBuffer` | `BufInv`: held buffers are busy, a buffer whose release is under way is busy and not held, and no release is under way twice; without the last the second release would free a buffer taken again |
| `HandoffAlwaysMatches` | `HandoffMatchesSession`, assuming that no signal ends the helper | `HandInv`: where greeter and helper are relative to each other, that the request and the account found are the selected user's, and that a session exists exactly from `start_user_session` on |
| `PasswordAlwaysForSelected` | `PasswordForSelectedUser`: a form that is all the selected user's stays so, except in a Tab that reads a changed list | step by step, from the type invariant: every step types for the selected user, empties the form or leaves both alone; a Tab that reads the list the dialog has already keeps the index, which is in range |
| `UserAlwaysChosenInMenu` | `UserChangesInMenu`: only Return in the user menu, or such a Tab, changes the user of the form | the same; `SelectionInRange` keeps the clamp from moving the index |
| `RequestsAlwaysArrive`, `SessionsAlwaysAsSelected` | `RequestsArrive`: greeter and helper never wait for each other and a whole request arrives; `SessionsAsSelected`: sessions start during an attempt and for the user of the form, with any faults | `PipeInv`: `HandInv` without what a signal breaks |
| `PromptImplementsContract` | `KeepsContract`: `PolkitPrompt` implements `PromptContract` | `ContractInv`: nothing is decided before the window is up, nothing is written before the end, `accepted_` implies not `running_`; then each step maps to one of the contract's or to none |
| `FieldAlwaysShowsSecret` | `FieldShowsSecret` | `ShownInv`: the same at every point of `run()`, because the text may change between two turns |
| `PromptTypeCorrect`, `HeldBuffersSpared` | `TypeOK`, `SparesHeldBuffers` of the prompt | the type invariant is inductive, the limit of the text included; the prompt's `BufInv` is the greeter's |
| `AgentTypeCorrect`, `AnswersAlwaysWhole` | `TypeOK`, `AnswersArriveWhole` of the polkit agent | `ResponseIsSecret`: a line of at most `SecretLimit` characters and its end fit into the buffer, so reading and stripping undo what the prompt wrote; `PromptInv` bounds the text |
| `GrantsAlwaysEarned`, `RequestsAlwaysCarried` | `GrantsAreEarned`, `EveryRequestIsCarried` | one inductive invariant `IInv`: `RequestInv` says of each request where it can be (queued and untouched, in an idle source with a refusal, in a live session for the chosen identity, answered), and `QueuedOnce` that its call is in the queue at most once, without which reading one would not mean that it has begun |
| `TasksReturnOnce`, `CallbacksAlwaysFindLive` | `SettledOnce`: what is answered is not answered again; `CallbacksFindLive`: a callback finds a record that is not freed and a task that has not returned | `OneResult`: a request has a result exactly when it is answered or waits in an idle source; with `IInv`, which says who may still call for it |
| `TypeCorrect`, `ShellShown` of `KeyPolicyProofs` | `TypeOK` of the key policy, `SuccessShowsShell` | `ControlInv`: where a run of the script is decides what the agent may have done for it, and every line in the agent's `inbox` is the one its sender last sent, so a late answer is never taken for another's |
| `OneRequest`, `ShortSafe`, `LongSafe` | `OneRequestPerPress`, `ShortPressNeverCloses`, `LongPressNeverMinimizes` | `PressInv`: the queue holds the events of each press in order (`QueueInv`); `elapsed` never exceeds how long the tracked press has lasted, and equals it while the press was read in time and is held; a press has a run only once `long_action_sent` is set or it is no longer tracked. Without the order of the queue a repeat could be taken for that of another press |
| `TypeCorrect`, `Wakes`, `ExitIsClean` of `IdleProofs` | `TypeOK`, `OffHasWaker`, `ExitLeavesOutputOn` of the idle daemon | `StoppedInv`, `PathInv`, `LitInv`: no swayidle is alive where one is started or the output is turned on, the `finally` block starts nothing, and where swayidle and `wlopm` are missing nobody turns the output off |
| `NeverAlwaysLit`, `TurnsAlwaysApply` | `NeverIsLit`: with "never" in effect the output is on, unless it was turned off late; `TurnsApply`: a turn ends with what it wanted in effect, and with a swayidle exactly if that one needs it | `SettingInv`: what was wanted last is in effect except between `stop_child` and `start_swayidle`, and there is no child only where none is wanted |

The polkit agent's theorems are about `Spec`, in which the prompt is any program that
keeps the contract; together with `PromptImplementsContract` they hold for the
prompt of this repository.

Liveness needs fairness and `ENABLED`, which are beyond the prover, and stays
with TLC: `SubscribersConverge`, `EveryCommandSettles`, `ShutdownCompletes`,
`AttemptEnds`, `RepaintHappens`, `PromptEnds`, `EveryRequestAnswered`,
`PolicyReturns`, `NeverMeansOn` and `SettingApplied`. Of four of them the part that
is a safety property is proved, so that fairness is needed only for the system to
move: `SettledAlwaysSeeTruth` (of `SubscribersConverge`), `RequestsAlwaysArrive`
(of `AttemptEnds`), `NeverAlwaysLit` (of `NeverMeansOn`) and `TurnsAlwaysApply` (of
`SettingApplied`).

The three violations are found by TLC. For two of them a theorem says how far they
go: `CascadesAlwaysFollowHangUps` for `window_cascade`, `UserAlwaysChosenInMenu` for
`greeter_esc`. The properties that only these
theorems and the safety parts above state are definitions of the proof modules and
are not in a run's configuration.

## Not modelled

See `components` in `PROJECT.json`. Session handoff and HDMI policy are unit
files and short scripts around systemd, logind and DRM: what can go wrong there
(restart and start limits, who owns a seat, how starts of a oneshot are merged)
is decided by those programs, so a model would have to be of them. The
shell session script runs once per session and leaves its work to the programs
it starts; its stale pid files and two agents that overlap are hazards without a
property. Drawing, fonts, text encoding and logging
are data that no branch depends on. `zero-helper`, the configuration files and
the set-up and probe scripts keep no state that other parts share.

## Plan

Done: `WindowAgent`, `GreeterAuth` and `Greeter`, `PromptContract`, `PolkitPrompt`
and `PolkitAgent`, `ShellControl` and `KeyPolicy`, `Idle`, with their proofs.

Next, in this order:

1. `ShellSession`: pid files and the socket's path, with two agents at once.
