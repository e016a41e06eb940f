---------------------------- MODULE PolkitAgent ----------------------------
(***************************************************************************)
(* zero-polkit-agent (src/polkit-agent/zero-polkit-agent.c): answers the   *)
(* authentication requests of polkitd.  One thread runs a GLib main loop;  *)
(* its sources are the D-Bus calls of polkitd, the output of one polkit    *)
(* helper process per request (PolkitAgentSession) and results that GTask  *)
(* returns from an idle source.  on_session_request runs the prompt        *)
(* (PromptContract) and blocks the loop until it has ended.                *)
(*                                                                         *)
(* polkitd, the helper with its PAM stack, and GLib and libpolkit-agent    *)
(* as the agent uses them are external.                                    *)
(***************************************************************************)
EXTENDS PromptContract

CONSTANTS
    Requests,       \* the cookies of the requests polkitd makes
    Identities,     \* users that may authenticate
    Me,             \* the user the agent runs as
    Offers,         \* lists of identities that polkitd may offer
    Password,       \* Password[i]: what PAM accepts for identity i
    OutputSize,     \* sizeof(output), MAX_SECRET + 8 = 264 in the code
    Revocable,      \* requests that polkitd may cancel
    MaxRounds,      \* bound: prompts of one PAM conversation
    MaxFailures     \* bound: registrations that fail

Newline == "newline"

(* The line of the prompt and its end of line fit into output with room     *)
(* for the terminating null: 128 + 1 < 264.                                 *)
ASSUME AgentAssumption ==
    /\ Offers \subseteq Seq(Identities)
    /\ Password \in [Identities -> Seq(Chars)]
    /\ OutputSize \in Nat /\ SecretLimit + 2 <= OutputSize
    /\ Newline \notin Chars
    /\ Revocable \subseteq Requests
    /\ MaxRounds \in Nat \ {0} /\ MaxFailures \in Nat

VARIABLES
    agent,          \* where the thread is
    current,        \* the request whose prompt is open
    auth,           \* struct auth_request: "none", "live" or "freed"
    connected,      \* requests with a cancel_handler connected
    identity,       \* the identity the session authenticates
    info_text,
    \* external: GTask, GCancellable, the listener of libpolkit-agent
    pending,        \* requests the listener has not answered
    cancelled,      \* requests whose GCancellable is cancelled
    result,         \* what the task was given
    idle,           \* tasks that return from an idle source
    \* external: the helper of each session
    helper, given, rounds,
    \* external: polkitd and systemd
    inbox,          \* calls not yet dispatched
    offered,        \* the identities sent with a request
    sent, revoked,  \* requests made, requests cancelled
    reply,
    failures

agentVars  == <<agent, current, auth, connected, identity, info_text>>
glibVars   == <<pending, cancelled, result, idle>>
helperVars == <<helper, given, rounds>>
busVars    == <<inbox, offered, sent, revoked, reply, failures>>
vars       == <<promptVars, agentVars, glibVars, helperVars, busVars>>

----------------------------------------------------------------------------
NoRequest  == "no request"
NoIdentity == "no identity"
NoResponse == <<"no response">>

Results == {"none", "granted", "denied"}

(* What the helper has written and the agent not yet read, or what it does. *)
Lines == {"PROMPT", "INFO", "ERROR", "SUCCESS", "FAILURE", "HUP"}

Call == [kind : {"begin", "cancel"}, req : Requests]

TypeOK ==
    /\ PromptTypeOK
    /\ agent \in {"start", "loop", "prompt", "stuck", "exited"}
    /\ current \in Requests \cup {NoRequest}
    /\ auth \in [Requests -> {"none", "live", "freed"}]
    /\ connected \in SUBSET Requests
    /\ identity \in [Requests -> Identities \cup {NoIdentity}]
    /\ info_text \in [Requests -> {"", "info", "error"}]
    /\ pending \in SUBSET Requests
    /\ cancelled \in SUBSET Requests
    /\ result \in [Requests -> Results]
    /\ idle \in SUBSET Requests
    /\ helper \in [Requests -> Lines \cup {"none", "running", "waiting", "checking", "dead"}]
    /\ given \in [Requests -> Seq(Chars) \cup {NoResponse}]
    /\ rounds \in [Requests -> 0 .. MaxRounds]
    /\ inbox \in Seq(Call)
    /\ offered \in [Requests -> Seq(Identities)]
    /\ sent \in SUBSET Requests
    /\ revoked \in SUBSET Requests
    /\ reply \in [Requests -> Results]
    /\ failures \in 0 .. MaxFailures

----------------------------------------------------------------------------
(* Operators of the agent *)

(* Mutant: the first identity that is offered. *)
choose_identity_first(ids) == IF ids = <<>> THEN NoIdentity ELSE ids[1]

(* The agent's own user if it is offered, otherwise the first one. *)
choose_identity(ids) ==
    IF \E n \in DOMAIN ids : ids[n] = Me THEN Me
    ELSE IF ids = <<>> THEN NoIdentity ELSE ids[1]

(* Mutant: output is smaller than what the prompt may write. *)
ReadOutput_short(line) ==
    SubSeq(line, 1, IF Len(line) < SecretLimit THEN Len(line) ELSE SecretLimit - 1)

(* read until end of file or until output is full. *)
ReadOutput(line) ==
    SubSeq(line, 1, IF Len(line) < OutputSize - 1 THEN Len(line) ELSE OutputSize - 1)

(* Mutant: the end of the line is passed on. *)
StripNewline_not(line) == line

(* Trailing newlines are removed; the prompt writes no other. *)
StripNewline(line) ==
    IF line # <<>> /\ line[Len(line)] = Newline THEN SubSeq(line, 1, Len(line) - 1) ELSE line

(* What prompt_for_response_wayland returns for what the prompt has written. *)
Response == StripNewline(ReadOutput(Append(secret, Newline)))

(* g_task_propagate_boolean: a task whose cancellable is cancelled fails. *)
Propagated(r, res) == IF r \in cancelled THEN "denied" ELSE res

(* GTask calls the listener's callback, which replies to polkitd: at once,  *)
(* or from an idle source when the task was created in the same turn.       *)
TaskReturns(r, res) ==
    /\ result' = [result EXCEPT ![r] = res]
    /\ reply' = [reply EXCEPT ![r] = Propagated(r, res)]
    /\ pending' = pending \ {r}
    /\ UNCHANGED <<idle, cancelled>>

(* Mutant: the cancel handler stays connected. *)
auth_request_free_connected(r, handlers) ==
    /\ auth' = [auth EXCEPT ![r] = "freed"]
    /\ connected' = handlers

(* handlers: the requests with a cancel handler when the call is made. *)
auth_request_free(r, handlers) ==
    /\ auth' = [auth EXCEPT ![r] = "freed"]
    /\ connected' = handlers \ {r}

(* polkit_agent_session_cancel and the helper's verdict end the session:    *)
(* the helper is killed and "completed" is emitted.                         *)
on_session_completed(r, res) ==
    /\ helper' = [helper EXCEPT ![r] = "dead"]
    /\ TaskReturns(r, res)
    /\ auth_request_free(r, connected)

----------------------------------------------------------------------------
(* main *)

Register ==
    /\ agent = "start"
    /\ agent' = "loop"
    /\ UNCHANGED <<promptVars, current, auth, connected, identity, info_text, glibVars,
                   helperVars, busVars>>

(* No WAYLAND_DISPLAY, no session, or polkitd refuses the registration. *)
RegisterFails ==
    /\ agent = "start"
    /\ failures < MaxFailures
    /\ failures' = failures + 1
    /\ agent' = "exited"
    /\ UNCHANGED <<promptVars, current, auth, connected, identity, info_text, glibVars,
                   helperVars, inbox, offered, sent, revoked, reply>>

(* Restart=on-failure of the user unit. *)
Restart ==
    /\ agent = "exited"
    /\ agent' = "start"
    /\ UNCHANGED <<promptVars, current, auth, connected, identity, info_text, glibVars,
                   helperVars, busVars>>

----------------------------------------------------------------------------
(* zero_polkit_agent_initiate_authentication *)

Receive(kind, r) ==
    /\ agent = "loop"
    /\ inbox # <<>>
    /\ Head(inbox) = [kind |-> kind, req |-> r]
    /\ inbox' = Tail(inbox)
    /\ UNCHANGED <<promptVars, current, info_text, given, rounds, offered, sent, revoked,
                   failures>>

(* Mutant: nothing is returned when no identity was offered. *)
NoIdentityOffered_silent(r) ==
    /\ Receive("begin", r)
    /\ choose_identity(offered[r]) = NoIdentity
    /\ pending' = pending \cup {r}
    /\ UNCHANGED <<agent, auth, connected, identity, cancelled, result, idle, helper, reply>>

NoIdentityOffered(r) ==
    /\ Receive("begin", r)
    /\ choose_identity(offered[r]) = NoIdentity
    /\ pending' = pending \cup {r}
    /\ result' = [result EXCEPT ![r] = "denied"]
    /\ idle' = idle \cup {r}
    /\ UNCHANGED <<agent, auth, connected, identity, cancelled, helper, reply>>

initiate_authentication(r) ==
    /\ Receive("begin", r)
    /\ choose_identity(offered[r]) # NoIdentity
    /\ pending' = pending \cup {r}
    /\ auth' = [auth EXCEPT ![r] = "live"]
    /\ connected' = connected \cup {r}
    /\ identity' = [identity EXCEPT ![r] = choose_identity(offered[r])]
    /\ helper' = [helper EXCEPT ![r] = "running"]
    /\ UNCHANGED <<agent, cancelled, result, idle, reply>>

(* The helper cannot be started: "completed" is emitted before the call     *)
(* returns, the request is freed and the result waits in an idle source.    *)
InitiateFails(r) ==
    /\ Receive("begin", r)
    /\ choose_identity(offered[r]) # NoIdentity
    /\ pending' = pending \cup {r}
    /\ identity' = [identity EXCEPT ![r] = choose_identity(offered[r])]
    /\ helper' = [helper EXCEPT ![r] = "dead"]
    /\ auth_request_free(r, connected \cup {r})
    /\ result' = [result EXCEPT ![r] = "denied"]
    /\ idle' = idle \cup {r}
    /\ UNCHANGED <<agent, cancelled, reply>>

(* initiate_authentication_finish, called by the listener. *)
ReturnFromIdle(r) ==
    /\ agent = "loop"
    /\ r \in idle
    /\ idle' = idle \ {r}
    /\ reply' = [reply EXCEPT ![r] = Propagated(r, result[r])]
    /\ pending' = pending \ {r}
    /\ UNCHANGED <<promptVars, agentVars, cancelled, result, helperVars, inbox, offered, sent,
                   revoked, failures>>

----------------------------------------------------------------------------
(* CancelAuthentication *)

(* The request is not pending any more: an error to polkitd. *)
CancelUnknown(r) ==
    /\ Receive("cancel", r)
    /\ r \notin pending
    /\ UNCHANGED <<agent, auth, connected, identity, glibVars, helper, reply>>

CancelUnheard(r) ==
    /\ Receive("cancel", r)
    /\ r \in pending
    /\ r \notin connected
    /\ cancelled' = cancelled \cup {r}
    /\ UNCHANGED <<agent, auth, connected, identity, pending, result, idle, helper, reply>>

(* g_cancellable_cancel calls on_auth_cancelled, which cancels the session; *)
(* the session calls on_session_completed, which returns the error (at      *)
(* once, or from an idle source for a task created in the same turn) and    *)
(* then, in auth_request_free, waits in g_cancellable_disconnect for the    *)
(* running handler to end: the handler is this very call.                   *)
on_auth_cancelled(r) ==
    /\ Receive("cancel", r)
    /\ r \in pending
    /\ r \in connected
    /\ cancelled' = cancelled \cup {r}
    /\ helper' = [helper EXCEPT ![r] = "dead"]
    /\ result' = [result EXCEPT ![r] = "denied"]
    /\ \/ reply' = [reply EXCEPT ![r] = "denied"] /\ pending' = pending \ {r} /\ UNCHANGED idle
       \/ idle' = idle \cup {r} /\ UNCHANGED <<reply, pending>>
    /\ agent' = "stuck"
    /\ UNCHANGED <<auth, connected, identity>>

----------------------------------------------------------------------------
(* Signals of a session *)

Line(r, S) ==
    /\ agent = "loop"
    /\ helper[r] \in S

on_session_show_info(r) ==
    /\ Line(r, {"INFO", "ERROR"})
    /\ info_text' = [info_text EXCEPT ![r] = IF helper[r] = "INFO" THEN "info" ELSE "error"]
    /\ helper' = [helper EXCEPT ![r] = "running"]
    /\ UNCHANGED <<promptVars, agent, current, auth, connected, identity, glibVars, given,
                   rounds, busVars>>

(* on_session_completed for SUCCESS, FAILURE and the end of the output. *)
SessionEnds(r) ==
    /\ Line(r, {"SUCCESS", "FAILURE", "HUP"})
    /\ on_session_completed(r, IF helper[r] = "SUCCESS" THEN "granted" ELSE "denied")
    /\ UNCHANGED <<promptVars, agent, current, identity, info_text, given, rounds, inbox,
                   offered, sent, revoked, failures>>

(* on_session_request up to the prompt; a cancelled request is not asked. *)
on_session_request(r) ==
    /\ Line(r, {"PROMPT"})
    /\ r \notin cancelled
    /\ agent' = "prompt"
    /\ current' = r
    /\ helper' = [helper EXCEPT ![r] = "waiting"]
    /\ Open \/ FailsToOpen
    /\ UNCHANGED <<auth, connected, identity, info_text, glibVars, given, rounds, busVars>>

(* No prompt program, no pipe or no process; also a cancelled request. *)
PromptUnavailable(r) ==
    /\ Line(r, {"PROMPT"})
    /\ on_session_completed(r, "denied")
    /\ UNCHANGED <<promptVars, agent, current, identity, info_text, given, rounds, inbox,
                   offered, sent, revoked, failures>>

(* waitpid has returned; the prompt program is gone. *)
Reap ==
    /\ agent = "prompt"
    /\ agent' = "loop"
    /\ current' = NoRequest
    /\ prompt' = "none" /\ secret' = <<>> /\ decision' = "none"
    /\ UNCHANGED <<identity, info_text, rounds, inbox, offered, sent, revoked, failures>>

(* polkit_agent_session_response; a helper that has ended reads nothing. *)
PromptAnswered ==
    /\ prompt = "accepted"
    /\ Reap
    /\ given' = IF helper[current] = "waiting"
                THEN [given EXCEPT ![current] = Response] ELSE given
    /\ helper' = [helper EXCEPT ![current] = IF @ = "waiting" THEN "checking" ELSE @]
    /\ UNCHANGED <<auth, connected, glibVars, reply>>

(* Mutant: the session is not told that there is no response. *)
PromptDismissed_silent ==
    /\ prompt = "cancelled"
    /\ Reap
    /\ UNCHANGED <<auth, connected, glibVars, helper, given, reply>>

PromptDismissed ==
    /\ prompt = "cancelled"
    /\ Reap
    /\ on_session_completed(current, "denied")
    /\ UNCHANGED given

AgentStep ==
    \/ Register \/ RegisterFails
    \/ \E r \in Requests :
          \/ NoIdentityOffered(r) \/ initiate_authentication(r) \/ InitiateFails(r)
          \/ ReturnFromIdle(r)
          \/ CancelUnknown(r) \/ CancelUnheard(r) \/ on_auth_cancelled(r)
          \/ on_session_show_info(r) \/ SessionEnds(r)
          \/ on_session_request(r) \/ PromptUnavailable(r)
    \/ PromptAnswered \/ PromptDismissed

----------------------------------------------------------------------------
(* The person at the prompt *)

PromptMoves ==
    /\ agent = "prompt"
    /\ Type \/ Erase \/ Decide \/ Finish \/ Abort
    /\ UNCHANGED <<agentVars, glibVars, helperVars, busVars>>

(* The polkit helper and its PAM stack (external) *)

HelperIs(r, from, to) ==
    /\ helper[r] = from
    /\ helper' = [helper EXCEPT ![r] = to]
    /\ UNCHANGED <<promptVars, agentVars, glibVars, busVars>>

HelperAsks(r) ==
    /\ HelperIs(r, "running", "PROMPT")
    /\ rounds[r] < MaxRounds
    /\ rounds' = [rounds EXCEPT ![r] = @ + 1]
    /\ UNCHANGED given

(* A message before a prompt, at most one in a conversation. *)
HelperSays(r) ==
    /\ rounds[r] < MaxRounds
    /\ info_text[r] = ""
    /\ HelperIs(r, "running", "INFO") \/ HelperIs(r, "running", "ERROR")
    /\ UNCHANGED <<given, rounds>>

(* PAM may ask again, and accepts only the password of the identity. *)
HelperChecks(r) ==
    /\ \/ HelperIs(r, "checking", "running") /\ rounds[r] < MaxRounds
       \/ HelperIs(r, "checking", "SUCCESS") /\ given[r] = Password[identity[r]]
       \/ HelperIs(r, "checking", "FAILURE") /\ given[r] # Password[identity[r]]
    /\ UNCHANGED <<given, rounds>>

HelperDies(r) ==
    /\ \E from \in {"running", "waiting", "checking"} : HelperIs(r, from, "HUP")
    /\ UNCHANGED <<given, rounds>>

HelperStep(r) == HelperAsks(r) \/ HelperSays(r) \/ HelperChecks(r) \/ HelperDies(r)

(* polkitd (external) *)

BusStep == UNCHANGED <<promptVars, agentVars, glibVars, helperVars, reply, failures>>

BeginAuthentication(r, ids) ==
    /\ agent \notin {"start", "exited"}
    /\ r \notin sent
    /\ sent' = sent \cup {r}
    /\ offered' = [offered EXCEPT ![r] = ids]
    /\ inbox' = Append(inbox, [kind |-> "begin", req |-> r])
    /\ BusStep /\ UNCHANGED revoked

(* The caller has gone away; the reply may be on its way. *)
CancelAuthentication(r) ==
    /\ r \in (sent \cap Revocable) \ revoked
    /\ revoked' = revoked \cup {r}
    /\ inbox' = Append(inbox, [kind |-> "cancel", req |-> r])
    /\ BusStep /\ UNCHANGED <<offered, sent>>

Environment ==
    \/ Restart
    \/ PromptMoves
    \/ \E r \in Requests :
          \/ HelperStep(r)
          \/ CancelAuthentication(r)
          \/ \E ids \in Offers : BeginAuthentication(r, ids)

----------------------------------------------------------------------------
Init ==
    /\ PromptInit
    /\ agent = "start"
    /\ current = NoRequest
    /\ auth = [r \in Requests |-> "none"]
    /\ connected = {}
    /\ identity = [r \in Requests |-> NoIdentity]
    /\ info_text = [r \in Requests |-> ""]
    /\ pending = {} /\ cancelled = {} /\ idle = {}
    /\ result = [r \in Requests |-> "none"]
    /\ helper = [r \in Requests |-> "none"]
    /\ given = [r \in Requests |-> NoResponse]
    /\ rounds = [r \in Requests |-> 0]
    /\ inbox = <<>>
    /\ offered = [r \in Requests |-> <<>>]
    /\ sent = {} /\ revoked = {}
    /\ reply = [r \in Requests |-> "none"]
    /\ failures = 0

Next == AgentStep \/ Environment

Spec == Init /\ [][Next]_vars

(* The main loop dispatches every source that stays ready; the helper and   *)
(* the prompt are processes of their own.  Nothing is assumed of the person *)
(* or of polkitd.                                                           *)
Fairness ==
    /\ WF_vars(Register) /\ WF_vars(Restart)
    /\ WF_vars(PromptAnswered \/ PromptDismissed)
    /\ WF_vars(PromptMoves /\ Finish)
    /\ \A r \in Requests :
          /\ WF_vars(NoIdentityOffered(r) \/ initiate_authentication(r)
                     \/ CancelUnknown(r) \/ CancelUnheard(r) \/ on_auth_cancelled(r))
          /\ WF_vars(ReturnFromIdle(r))
          /\ WF_vars(on_session_show_info(r) \/ SessionEnds(r) \/ on_session_request(r))
          /\ WF_vars(HelperAsks(r) \/ HelperChecks(r))

FairSpec == Spec /\ Fairness

----------------------------------------------------------------------------
(* Properties *)

(* The response is the password of the agent's own user or, when that user  *)
(* is not offered, of the first identity that is.                           *)
Earned(ids, response) ==
    IF Me \in {ids[n] : n \in DOMAIN ids}
    THEN response = Password[Me]
    ELSE ids # <<>> /\ response = Password[ids[1]]

(* A request is granted only on the password of an identity that polkitd    *)
(* accepts for it, the agent's own user before any other (choose_identity,  *)
(* on_session_completed).                                                   *)
GrantsAreEarned ==
    \A r \in Requests : reply[r] = "granted" => Earned(offered[r], given[r])

(* A helper is given exactly the text that was submitted in the prompt that *)
(* was opened for it: nothing is cut off and no newline is left             *)
(* (prompt_for_response_wayland).                                           *)
AnswersArriveWhole ==
    [][given' # given => /\ decision = "submit"
                         /\ given' = [given EXCEPT ![current] = secret]]_vars

Queued(r) == \E n \in DOMAIN inbox : inbox[n] = [kind |-> "begin", req |-> r]

Carried(r) ==
    \/ reply[r] # "none"
    \/ Queued(r)
    \/ r \in pending /\ r \in idle
    \/ r \in pending /\ auth[r] = "live" /\ helper[r] # "dead"

(* No request is forgotten: until polkitd has its answer, the call is still *)
(* queued, or its result is in an idle source, or its session is alive; and *)
(* a helper that waits for a response has its prompt on the screen.         *)
EveryRequestIsCarried ==
    \A r \in sent : Carried(r) /\ (helper[r] = "waiting" => agent = "prompt" /\ current = r)

(* The calls that GLib and libpolkit-agent make with a request's record. *)
CalledWith(r) ==
    \/ on_auth_cancelled(r) \/ on_session_show_info(r) \/ SessionEnds(r)
    \/ on_session_request(r) \/ PromptUnavailable(r)
    \/ r = current /\ (PromptAnswered \/ PromptDismissed)

(* A callback, and the code after the prompt, finds the record of its       *)
(* request not freed and its task not returned: nothing that happened       *)
(* before it, not even while the prompt blocked the loop, has ended the     *)
(* session it is about (struct auth_request, auth_request_free).            *)
CallbacksFindLive ==
    [][\A r \in Requests : CalledWith(r) => auth[r] = "live" /\ result[r] = "none"]_vars

(* The thread waits for the person. *)
WaitsForPerson == agent = "prompt" /\ prompt = "open" /\ decision = "none"

(* If every prompt is eventually decided, and the thread is not caught in   *)
(* on_auth_cancelled, every request is answered.                            *)
EveryRequestAnswered ==
    []<>~WaitsForPerson /\ [](agent # "stuck")
        => \A r \in Requests : (r \in sent) ~> (reply[r] # "none")

(* "opens zero-polkit-prompt-wayland ... when polkit needs user             *)
(* authentication" (polkit-agent/README.md): if every prompt is eventually  *)
(* decided, a request that is not withdrawn is prompted for or answered.    *)
PromptOpensWhenNeeded ==
    []<>~WaitsForPerson
        => \A r \in Requests :
              (r \in sent) ~> (current = r \/ reply[r] # "none" \/ r \in revoked)

=============================================================================
