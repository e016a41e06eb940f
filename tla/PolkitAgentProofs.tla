------------------------- MODULE PolkitAgentProofs -------------------------
(***************************************************************************)
(* Proofs about PolkitAgent, for any number of requests, any offers and    *)
(* any passwords.                                                          *)
(***************************************************************************)
EXTENDS PolkitAgent, SequenceTheorems, TLAPS

(* A request the agent has not heard of, or not yet read the call of. *)
Untouched(r) == reply[r] = "none" /\ helper[r] = "none" /\ r \notin idle

Alive(r) == helper[r] \notin {"none", "dead"}

(* No request has two begin calls in the queue. *)
QueuedOnce ==
    \A m, n \in DOMAIN inbox : inbox[m] = inbox[n] /\ inbox[m].kind = "begin" => m = n

PromptInv ==
    /\ Len(secret) <= SecretLimit
    /\ prompt = "accepted" => decision = "submit"
    /\ agent = "prompt" => current \in Requests

(* A session authenticates the chosen identity; what waits in an idle       *)
(* source is a refusal; an answered request has neither; a prompt is        *)
(* open only for a live session, and a handler connected only to a request  *)
(* that has begun, and to one in an idle source only when the thread is     *)
(* stuck in that handler; no request is lost, freed too early or granted    *)
(* for nothing.                                                             *)
RequestInv(r) ==
    /\ Queued(r) => r \in sent
    /\ r \notin sent \/ Queued(r) => Untouched(r)
    /\ r \in idle => result[r] = "denied" /\ ~Alive(r)
    /\ reply[r] # "none" => ~Alive(r) /\ r \notin pending
    /\ Alive(r) => identity[r] = choose_identity(offered[r]) /\ identity[r] # NoIdentity
    /\ helper[r] = "SUCCESS" => given[r] = Password[identity[r]]
    /\ helper[r] = "waiting" => agent = "prompt" /\ current = r
    /\ agent = "prompt" /\ current = r => Alive(r)
    /\ auth[r] = "freed" => r \notin connected /\ helper[r] = "dead"
    /\ r \in connected => r \in sent /\ ~Queued(r) /\ (r \in idle => agent = "stuck")
    /\ r \in sent => Carried(r)
    /\ reply[r] = "granted" => Earned(offered[r], given[r])

IInv ==
    /\ TypeOK
    /\ PromptInv
    /\ QueuedOnce
    /\ \A r \in Requests : RequestInv(r)

----------------------------------------------------------------------------
(* Data *)

LEMMA LenType == ASSUME NEW S, NEW s \in Seq(S) PROVE Len(s) \in Nat
  OBVIOUS

LEMMA TailFacts ==
    ASSUME NEW S, NEW s \in Seq(S), s # <<>>
    PROVE  /\ Tail(s) \in Seq(S)
           /\ Head(s) = s[1] /\ 1 \in DOMAIN s
           /\ \A n \in DOMAIN Tail(s) : n + 1 \in DOMAIN s /\ Tail(s)[n] = s[n + 1] /\ n \in Nat
           /\ \A n \in DOMAIN s : n # 1 => n - 1 \in DOMAIN Tail(s) /\ Tail(s)[n - 1] = s[n]
  OBVIOUS

LEMMA AppendFacts ==
    ASSUME NEW S, NEW s \in Seq(S), NEW e \in S
    PROVE  /\ Append(s, e) \in Seq(S)
           /\ Len(Append(s, e)) = Len(s) + 1
           /\ \A n \in DOMAIN s : n \in DOMAIN Append(s, e) /\ Append(s, e)[n] = s[n]
           /\ \A n \in DOMAIN Append(s, e) : n \in DOMAIN s \/ (n = Len(s) + 1 /\ n \notin DOMAIN s)
           /\ Len(s) + 1 \in DOMAIN Append(s, e)
           /\ Append(s, e)[Len(s) + 1] = e
  OBVIOUS

LEMMA FrontFacts ==
    ASSUME NEW S, NEW s \in Seq(S), s # <<>>
    PROVE  SubSeq(s, 1, Len(s) - 1) \in Seq(S) /\ Len(SubSeq(s, 1, Len(s) - 1)) = Len(s) - 1
  <1>1. Len(s) \in Nat /\ Len(s) >= 1
    OBVIOUS
  <1>2. \A i \in 1 .. Len(s) - 1 : s[i] \in S
    OBVIOUS
  <1>3. ASSUME NEW k \in Nat, k = Len(s) - 1
        PROVE  SubSeq(s, 1, k) \in Seq(S) /\ Len(SubSeq(s, 1, k)) = k
    <2>1. /\ SubSeq(s, 1, k) \in Seq(S)
          /\ Len(SubSeq(s, 1, k)) = IF 1 <= k THEN k - 1 + 1 ELSE 0
      BY <1>1, <1>2, <1>3, SubSeqProperties
    <2> QED
      BY <2>1
  <1>4. Len(s) - 1 \in Nat
    BY <1>1
  <1> QED
    BY <1>3, <1>4

(* Removing the last element of a sequence undoes Append. *)
LEMMA FrontOfAppend ==
    ASSUME NEW S, NEW s \in Seq(S), NEW e
    PROVE  SubSeq(Append(s, e), 1, Len(Append(s, e)) - 1) = s
  OBVIOUS

(* The prompt's line fits into output, so the response is the text itself. *)
LEMMA ResponseIsSecret ==
    ASSUME secret \in Seq(Chars), Len(secret) <= SecretLimit
    PROVE  Response = secret
  <1> DEFINE line == Append(secret, Newline)
  <1>1. /\ line \in Seq(Chars \cup {Newline})
        /\ Len(line) = Len(secret) + 1
        /\ line[Len(line)] = Newline
        /\ Len(secret) \in Nat
        /\ line # <<>>
    OBVIOUS
  <1>2. Len(line) <= OutputSize - 1
    BY <1>1, AgentAssumption, SecretLimitAssumption
  <1>3. SubSeq(line, 1, Len(line)) = line
    BY <1>1, SubSeqFull
  <1>4. ReadOutput(line) = line
    <2>1. (IF Len(line) < OutputSize - 1 THEN Len(line) ELSE OutputSize - 1) = Len(line)
      BY <1>1, <1>2, AgentAssumption
    <2> QED
      BY <2>1, <1>3 DEF ReadOutput
  <1>5. StripNewline(line) = SubSeq(line, 1, Len(line) - 1)
    BY <1>1 DEF StripNewline
  <1> QED
    BY <1>4, <1>5, FrontOfAppend DEF Response

(* The identity that is chosen is one of those offered. *)
LEMMA ChosenType ==
    ASSUME NEW ids \in Seq(Identities), choose_identity(ids) # NoIdentity
    PROVE  choose_identity(ids) \in Identities
  BY DEF choose_identity

----------------------------------------------------------------------------
(* The queue *)

LEMMA QueueStays ==
    ASSUME UNCHANGED inbox
    PROVE  (QueuedOnce => QueuedOnce') /\ \A q : Queued(q)' <=> Queued(q)
  BY DEF Queued, QueuedOnce

(* A call is dispatched. *)
LEMMA QueueReceives ==
    ASSUME inbox \in Seq(Call), QueuedOnce, NEW kind, NEW r,
           inbox # <<>>, Head(inbox) = [kind |-> kind, req |-> r], inbox' = Tail(inbox)
    PROVE  /\ inbox' \in Seq(Call)
           /\ QueuedOnce'
           /\ \A q : Queued(q)' <=> (Queued(q) /\ ~(kind = "begin" /\ q = r))
           /\ kind = "begin" => Queued(r)
  <1>1. /\ inbox' \in Seq(Call)
        /\ Head(inbox) = inbox[1] /\ 1 \in DOMAIN inbox
        /\ \A n \in DOMAIN inbox' : n + 1 \in DOMAIN inbox /\ inbox'[n] = inbox[n + 1] /\ n \in Nat
        /\ \A n \in DOMAIN inbox : n # 1 => n - 1 \in DOMAIN inbox' /\ inbox'[n - 1] = inbox[n]
    BY TailFacts
  <1>2. \A n \in DOMAIN inbox' : n + 1 # 1
    BY <1>1
  <1>3. QueuedOnce'
    <2> SUFFICES ASSUME NEW m \in DOMAIN inbox', NEW n \in DOMAIN inbox',
                        inbox'[m] = inbox'[n], inbox'[m].kind = "begin"
                 PROVE  m = n
      BY DEF QueuedOnce
    <2>1. m + 1 = n + 1
      BY <1>1 DEF QueuedOnce
    <2>2. m \in Nat /\ n \in Nat
      BY <1>1, Zenon
    <2> QED
      BY ONLY <2>1, <2>2
  <1>4. ASSUME NEW q, Queued(q)'
        PROVE  Queued(q) /\ ~(kind = "begin" /\ q = r)
    <2>1. PICK n \in DOMAIN inbox' : inbox'[n] = [kind |-> "begin", req |-> q]
      BY <1>4 DEF Queued
    <2>2. n + 1 \in DOMAIN inbox /\ inbox[n + 1] = [kind |-> "begin", req |-> q] /\ n + 1 # 1
      BY <1>1, <1>2, <2>1
    <2>3. Queued(q)
      BY <2>2 DEF Queued
    <2>4. ASSUME kind = "begin", q = r PROVE FALSE
      <3>1. inbox[1] = inbox[n + 1] /\ inbox[1].kind = "begin"
        BY <1>1, <2>2, <2>4
      <3> QED
        BY <3>1, <2>2, <1>1 DEF QueuedOnce
    <2> QED
      BY <2>3, <2>4
  <1>5. ASSUME NEW q, Queued(q), ~(kind = "begin" /\ q = r)
        PROVE  Queued(q)'
    <2>1. PICK n \in DOMAIN inbox : inbox[n] = [kind |-> "begin", req |-> q]
      BY <1>5 DEF Queued
    <2>2. n # 1
      BY <1>1, <1>5, <2>1
    <2>3. n - 1 \in DOMAIN inbox' /\ inbox'[n - 1] = [kind |-> "begin", req |-> q]
      BY <1>1, <2>1, <2>2
    <2> QED
      BY <2>3 DEF Queued
  <1>6. kind = "begin" => Queued(r)
    BY <1>1 DEF Queued
  <1> QED
    BY <1>1, <1>3, <1>4, <1>5, <1>6

(* A call is sent. *)
LEMMA QueueSends ==
    ASSUME inbox \in Seq(Call), QueuedOnce,
           NEW kind \in {"begin", "cancel"}, NEW r \in Requests, kind = "begin" => ~Queued(r),
           inbox' = Append(inbox, [kind |-> kind, req |-> r])
    PROVE  /\ inbox' \in Seq(Call)
           /\ QueuedOnce'
           /\ \A q : Queued(q)' <=> (Queued(q) \/ (kind = "begin" /\ q = r))
  <1> DEFINE call == [kind |-> kind, req |-> r]
             last == Len(inbox) + 1
  <1>1. call \in Call
    BY DEF Call
  <1>2. /\ inbox' \in Seq(Call)
        /\ \A n \in DOMAIN inbox : n \in DOMAIN inbox' /\ inbox'[n] = inbox[n]
        /\ \A n \in DOMAIN inbox' : n \in DOMAIN inbox \/ (n = last /\ n \notin DOMAIN inbox)
        /\ last \in DOMAIN inbox' /\ inbox'[last] = call
    BY <1>1, AppendFacts
  <1>3. ASSUME NEW n \in DOMAIN inbox, inbox[n] = call, kind = "begin" PROVE FALSE
    BY <1>3 DEF Queued
  <1>4. QueuedOnce'
    <2> SUFFICES ASSUME NEW m \in DOMAIN inbox', NEW n \in DOMAIN inbox',
                        inbox'[m] = inbox'[n], inbox'[m].kind = "begin"
                 PROVE  m = n
      BY DEF QueuedOnce
    <2>1. CASE m \in DOMAIN inbox /\ n \in DOMAIN inbox
      BY <1>2, <2>1 DEF QueuedOnce
    <2>2. CASE m = last /\ n = last
      BY <2>2
    <2>3. CASE m \in DOMAIN inbox /\ n = last
      BY <1>2, <1>3, <2>3
    <2>4. CASE m = last /\ n \in DOMAIN inbox
      BY <1>2, <1>3, <2>4
    <2> QED
      BY <1>2, <2>1, <2>2, <2>3, <2>4
  <1>5. ASSUME NEW q, Queued(q)'
        PROVE  Queued(q) \/ (kind = "begin" /\ q = r)
    <2>1. PICK n \in DOMAIN inbox' : inbox'[n] = [kind |-> "begin", req |-> q]
      BY <1>5 DEF Queued
    <2>2. CASE n \in DOMAIN inbox
      BY <1>2, <2>1, <2>2 DEF Queued
    <2>3. CASE n = last
      BY <1>2, <2>1, <2>3
    <2> QED
      BY <1>2, <2>2, <2>3
  <1>6. ASSUME NEW q, Queued(q) \/ (kind = "begin" /\ q = r)
        PROVE  Queued(q)'
    <2>1. CASE Queued(q)
      BY <1>2, <2>1 DEF Queued
    <2>2. CASE kind = "begin" /\ q = r
      BY <1>2, <2>2 DEF Queued
    <2> QED
      BY <1>6, <2>1, <2>2
  <1> QED
    BY <1>2, <1>4, <1>5, <1>6

(* A chosen identity's password earns the grant. *)
LEMMA ChosenEarns ==
    ASSUME NEW ids \in Seq(Identities), choose_identity(ids) # NoIdentity
    PROVE  Earned(ids, Password[choose_identity(ids)])
  BY DEF Earned, choose_identity

----------------------------------------------------------------------------
(* A step that leaves request q alone *)

SameSession(q) ==
    /\ helper'[q] = helper[q] /\ given'[q] = given[q]
    /\ auth'[q] = auth[q] /\ identity'[q] = identity[q]
    /\ (q \in connected' <=> q \in connected)

SameTask(q) ==
    /\ reply'[q] = reply[q] /\ result'[q] = result[q]
    /\ (q \in idle' <=> q \in idle) /\ (q \in pending' <=> q \in pending)

SameCall(q) ==
    /\ (Queued(q)' <=> Queued(q))
    /\ (q \in sent' <=> q \in sent) /\ offered'[q] = offered[q]

LEMMA LeftAlone ==
    ASSUME NEW q \in Requests, RequestInv(q), SameSession(q), SameTask(q), SameCall(q),
           helper[q] = "waiting" => agent' = agent /\ current' = current,
           agent' = "prompt" /\ current' = q => agent = "prompt" /\ current = q,
           agent = "stuck" => agent' = "stuck"
    PROVE  RequestInv(q)'
  BY DEF RequestInv, Untouched, Alive, Carried, SameSession, SameTask, SameCall

(* A request whose call is in the queue. *)
LEMMA NotBegun ==
    ASSUME NEW r \in Requests, RequestInv(r), Queued(r)
    PROVE  /\ r \in sent /\ reply[r] = "none" /\ helper[r] = "none" /\ r \notin idle
           /\ auth[r] # "freed" /\ ~(agent = "prompt" /\ current = r)
  BY DEF RequestInv, Untouched, Alive

(* A request whose session is alive. *)
LEMMA InSession ==
    ASSUME TypeOK, NEW r \in Requests, RequestInv(r), helper[r] \notin {"none", "dead"}
    PROVE  /\ r \in sent /\ ~Queued(r) /\ r \notin idle /\ r \in pending
           /\ reply[r] = "none" /\ auth[r] = "live"
           /\ identity[r] = choose_identity(offered[r]) /\ identity[r] # NoIdentity
           /\ helper[r] = "SUCCESS" => given[r] = Password[identity[r]]
           /\ helper[r] = "waiting" => agent = "prompt" /\ current = r
  BY DEF RequestInv, Untouched, Alive, Carried

(* A session goes on. *)
LEMMA SessionMoves ==
    ASSUME TypeOK, NEW r \in Requests, RequestInv(r), helper[r] \notin {"none", "dead"},
           helper'[r] \notin {"none", "dead"},
           auth'[r] = auth[r], identity'[r] = identity[r], SameTask(r), SameCall(r),
           helper'[r] = "SUCCESS" => given'[r] = Password[identity[r]],
           helper'[r] = "waiting" => agent' = "prompt" /\ current' = r
    PROVE  RequestInv(r)'
  BY InSession DEF RequestInv, Untouched, Alive, Carried, SameTask, SameCall

(* A request has its answer. *)
LEMMA Answered ==
    ASSUME NEW r \in Requests, helper'[r] \in {"none", "dead"}, reply'[r] \in {"denied", "granted"},
           auth'[r] = "freed" => r \notin connected' /\ helper'[r] = "dead",
           r \in sent', ~Queued(r)', r \notin idle', r \notin pending',
           reply'[r] = "granted" => Earned(offered[r], given[r])',
           ~(agent = "prompt" /\ current = r)'
    PROVE  RequestInv(r)'
  BY DEF RequestInv, Untouched, Alive, Carried

(* A request is refused from an idle source. *)
LEMMA RefusedLater ==
    ASSUME NEW r \in Requests, helper'[r] \in {"none", "dead"}, reply'[r] = "none",
           auth'[r] = "freed" => r \notin connected' /\ helper'[r] = "dead",
           r \in connected' => agent' = "stuck",
           r \in sent', ~Queued(r)', r \in idle', r \in pending',
           result'[r] = "denied",
           ~(agent = "prompt" /\ current = r)'
    PROVE  RequestInv(r)'
  BY DEF RequestInv, Untouched, Alive, Carried

(* A session begins. *)
LEMMA SessionBegins ==
    ASSUME NEW r \in Requests, helper'[r] = "running", reply'[r] = "none", auth'[r] = "live",
           r \in sent', ~Queued(r)', r \notin idle', r \in pending',
           (identity[r] = choose_identity(offered[r]) /\ identity[r] # NoIdentity)'
    PROVE  RequestInv(r)'
  BY DEF RequestInv, Untouched, Alive, Carried

(* What the person does keeps the text a text, and within its limit. *)
LEMMA PromptKeeps ==
    ASSUME PromptTypeOK, Len(secret) <= SecretLimit, prompt = "accepted" => decision = "submit",
           Type \/ Erase \/ Decide \/ Finish \/ Abort
    PROVE  /\ PromptTypeOK'
           /\ Len(secret') <= SecretLimit
           /\ prompt' = "accepted" => decision' = "submit"
  <1>1. secret \in Seq(Chars) /\ Len(secret) \in Nat /\ <<>> \in Seq(Chars) /\ Len(<<>>) = 0
    BY DEF PromptTypeOK
  <1>2. CASE Type
    <2>1. PICK c \in Chars : secret' = Append(secret, c)
      BY <1>2 DEF Type
    <2>2. secret' \in Seq(Chars) /\ Len(secret') = Len(secret) + 1
      BY <1>1, <2>1
    <2>3. Len(secret') <= SecretLimit
      BY <1>1, <1>2, <2>2, SecretLimitAssumption DEF Type
    <2> QED
      BY <1>2, <2>2, <2>3 DEF Type, PromptTypeOK
  <1>3. CASE Erase
    <2>1. secret' \in Seq(Chars) /\ Len(secret') = Len(secret) - 1
      BY <1>1, <1>3, FrontFacts DEF Erase
    <2>2. Len(secret') <= SecretLimit
      BY <1>1, <2>1, SecretLimitAssumption
    <2> QED
      BY <1>3, <2>1, <2>2 DEF Erase, PromptTypeOK
  <1>4. CASE Decide
    BY <1>4 DEF Decide, PromptTypeOK
  <1>5. CASE Finish \/ Abort
    <2>1. secret' \in {secret, <<>>}
      BY <1>5 DEF Finish, Abort
    <2>2. 0 <= SecretLimit
      BY SecretLimitAssumption
    <2>3. secret' \in Seq(Chars) /\ Len(secret') <= SecretLimit
      BY <1>1, <2>1, <2>2
    <2> QED
      BY <1>5, <2>3 DEF Finish, Abort, PromptTypeOK
  <1> QED
    BY <1>2, <1>3, <1>4, <1>5

----------------------------------------------------------------------------
(* Every step keeps the invariant *)

LEMMA KeepsRegister ==
    ASSUME IInv, Register
    PROVE  IInv'
  <1>1. TypeOK /\ PromptInv /\ QueuedOnce /\ \A q \in Requests : RequestInv(q)
    BY DEF IInv
  <1>2. inbox' \in Seq(Call) /\ QueuedOnce' /\ \A q : Queued(q)' <=> Queued(q)
    BY <1>1, QueueStays DEF TypeOK, Register, promptVars, glibVars, helperVars, busVars
  <1>3. TypeOK'
    BY <1>1, <1>2 DEF TypeOK, PromptTypeOK, Lines, Results, Register, promptVars,
       glibVars, helperVars, busVars
  <1>4. PromptInv'
    BY <1>1 DEF TypeOK, PromptTypeOK, PromptInv, Register, promptVars, glibVars,
       helperVars, busVars
  <1>5. ASSUME NEW q \in Requests PROVE RequestInv(q)'
    BY <1>1, <1>2 DEF TypeOK, RequestInv, Untouched, Alive, Carried, Register, promptVars,
       glibVars, helperVars, busVars
  <1> QED
    BY <1>2, <1>3, <1>4, <1>5 DEF IInv

LEMMA KeepsRegisterFails ==
    ASSUME IInv, RegisterFails
    PROVE  IInv'
  <1>1. TypeOK /\ PromptInv /\ QueuedOnce /\ \A q \in Requests : RequestInv(q)
    BY DEF IInv
  <1>2. inbox' \in Seq(Call) /\ QueuedOnce' /\ \A q : Queued(q)' <=> Queued(q)
    BY <1>1, QueueStays DEF TypeOK, RegisterFails, promptVars, glibVars, helperVars
  <1>3. TypeOK'
    <2>1. failures \in 0 .. MaxFailures /\ failures < MaxFailures /\ failures' = failures + 1
      BY <1>1 DEF TypeOK, RegisterFails
    <2>2. failures' \in 0 .. MaxFailures
      BY <2>1, AgentAssumption
    <2> QED
      BY <1>1, <1>2, <2>2 DEF TypeOK, PromptTypeOK, Lines, Results, RegisterFails,
         promptVars, glibVars, helperVars
  <1>4. PromptInv'
    BY <1>1 DEF TypeOK, PromptTypeOK, PromptInv, RegisterFails, promptVars, glibVars,
       helperVars
  <1>5. ASSUME NEW q \in Requests PROVE RequestInv(q)'
    BY <1>1, <1>2 DEF TypeOK, RequestInv, Untouched, Alive, Carried, RegisterFails,
       promptVars, glibVars, helperVars
  <1> QED
    BY <1>2, <1>3, <1>4, <1>5 DEF IInv

LEMMA KeepsRestart ==
    ASSUME IInv, Restart
    PROVE  IInv'
  <1>1. TypeOK /\ PromptInv /\ QueuedOnce /\ \A q \in Requests : RequestInv(q)
    BY DEF IInv
  <1>2. inbox' \in Seq(Call) /\ QueuedOnce' /\ \A q : Queued(q)' <=> Queued(q)
    BY <1>1, QueueStays DEF TypeOK, Restart, promptVars, glibVars, helperVars, busVars
  <1>3. TypeOK'
    BY <1>1, <1>2 DEF TypeOK, PromptTypeOK, Lines, Results, Restart, promptVars, glibVars,
       helperVars, busVars
  <1>4. PromptInv'
    BY <1>1 DEF TypeOK, PromptTypeOK, PromptInv, Restart, promptVars, glibVars,
       helperVars, busVars
  <1>5. ASSUME NEW q \in Requests PROVE RequestInv(q)'
    BY <1>1, <1>2 DEF TypeOK, RequestInv, Untouched, Alive, Carried, Restart, promptVars,
       glibVars, helperVars, busVars
  <1> QED
    BY <1>2, <1>3, <1>4, <1>5 DEF IInv

LEMMA KeepsNoIdentityOffered ==
    ASSUME IInv, NEW r \in Requests, NoIdentityOffered(r)
    PROVE  IInv'
  <1>1. TypeOK /\ PromptInv /\ QueuedOnce /\ \A q \in Requests : RequestInv(q)
    BY DEF IInv
  <1>2. /\ inbox' \in Seq(Call) /\ QueuedOnce'
        /\ \A q : Queued(q)' <=> (Queued(q) /\ q # r)
        /\ Queued(r)
    <2>1. inbox # <<>> /\ Head(inbox) = [kind |-> "begin", req |-> r] /\ inbox' = Tail(inbox)
      BY DEF NoIdentityOffered, Receive
    <2> QED
      BY <1>1, <2>1, QueueReceives DEF TypeOK
  <1>3. TypeOK'
    BY <1>1, <1>2 DEF TypeOK, PromptTypeOK, Lines, Results, NoIdentityOffered, Receive,
       promptVars
  <1>4. PromptInv'
    BY <1>1 DEF TypeOK, PromptTypeOK, PromptInv, NoIdentityOffered, Receive, promptVars
  <1>5. ASSUME NEW q \in Requests PROVE RequestInv(q)'
    <2>1. CASE q # r
      <3>1. SameSession(q)
        BY <1>1, <2>1 DEF TypeOK, SameSession, NoIdentityOffered, Receive, promptVars
      <3>2. SameTask(q)
        BY <1>1, <2>1 DEF TypeOK, SameTask, NoIdentityOffered, Receive, promptVars
      <3>3. SameCall(q)
        BY <1>1, <1>2, <2>1 DEF TypeOK, SameCall, NoIdentityOffered, Receive, promptVars
      <3>4. helper[q] = "waiting" => agent' = agent /\ current' = current
        BY <1>1, <2>1 DEF RequestInv, NoIdentityOffered, Receive, promptVars
      <3>5. /\ agent' = "prompt" /\ current' = q => agent = "prompt" /\ current = q
            /\ agent = "stuck" => agent' = "stuck"
        BY <1>1, <2>1 DEF RequestInv, NoIdentityOffered, Receive, promptVars
      <3> QED
        BY <1>1, <3>1, <3>2, <3>3, <3>4, <3>5, LeftAlone
    <2>2. CASE q = r
      <3>1. /\ r \in sent /\ reply[r] = "none" /\ helper[r] = "none" /\ r \notin idle
            /\ auth[r] # "freed" /\ r \notin connected
        BY <1>1, <1>2, NotBegun DEF RequestInv
      <3>2. r \in sent' /\ ~Queued(r)' /\ ~(agent = "prompt" /\ current = r)'
        BY <1>2, <3>1 DEF NoIdentityOffered, Receive, promptVars
      <3>3. /\ helper'[r] = "none" /\ reply'[r] = "none" /\ auth'[r] # "freed" /\ r \notin connected'
            /\ r \in idle' /\ r \in pending' /\ result'[r] = "denied"
        BY <1>1, <3>1 DEF TypeOK, NoIdentityOffered, Receive, promptVars
      <3> QED
        BY <2>2, <3>2, <3>3, RefusedLater
    <2> QED
      BY <2>1, <2>2
  <1> QED
    BY <1>2, <1>3, <1>4, <1>5 DEF IInv

LEMMA KeepsInitiateAuthentication ==
    ASSUME IInv, NEW r \in Requests, initiate_authentication(r)
    PROVE  IInv'
  <1>1. TypeOK /\ PromptInv /\ QueuedOnce /\ \A q \in Requests : RequestInv(q)
    BY DEF IInv
  <1>2. /\ inbox' \in Seq(Call) /\ QueuedOnce'
        /\ \A q : Queued(q)' <=> (Queued(q) /\ q # r)
        /\ Queued(r)
    <2>1. inbox # <<>> /\ Head(inbox) = [kind |-> "begin", req |-> r] /\ inbox' = Tail(inbox)
      BY DEF initiate_authentication, Receive
    <2> QED
      BY <1>1, <2>1, QueueReceives DEF TypeOK
  <1>3. TypeOK'
    BY <1>1, <1>2, ChosenType DEF TypeOK, PromptTypeOK, Lines, Results,
       initiate_authentication, Receive, promptVars
  <1>4. PromptInv'
    BY <1>1 DEF TypeOK, PromptTypeOK, PromptInv, initiate_authentication, Receive,
       promptVars
  <1>5. ASSUME NEW q \in Requests PROVE RequestInv(q)'
    <2>1. CASE q # r
      <3>1. SameSession(q)
        BY <1>1, <2>1 DEF TypeOK, SameSession, initiate_authentication, Receive, promptVars
      <3>2. SameTask(q)
        BY <1>1, <2>1 DEF TypeOK, SameTask, initiate_authentication, Receive, promptVars
      <3>3. SameCall(q)
        BY <1>1, <1>2, <2>1 DEF TypeOK, SameCall, initiate_authentication, Receive,
           promptVars
      <3>4. helper[q] = "waiting" => agent' = agent /\ current' = current
        BY <1>1, <2>1 DEF RequestInv, initiate_authentication, Receive, promptVars
      <3>5. /\ agent' = "prompt" /\ current' = q => agent = "prompt" /\ current = q
            /\ agent = "stuck" => agent' = "stuck"
        BY <1>1, <2>1 DEF RequestInv, initiate_authentication, Receive, promptVars
      <3> QED
        BY <1>1, <3>1, <3>2, <3>3, <3>4, <3>5, LeftAlone
    <2>2. CASE q = r
      <3>1. /\ r \in sent /\ reply[r] = "none" /\ helper[r] = "none" /\ r \notin idle
            /\ auth[r] # "freed" /\ r \notin connected
        BY <1>1, <1>2, NotBegun DEF RequestInv
      <3>2. r \in sent' /\ ~Queued(r)' /\ ~(agent = "prompt" /\ current = r)'
        BY <1>2, <3>1 DEF initiate_authentication, Receive, promptVars
      <3>3. /\ helper'[r] = "running" /\ reply'[r] = "none" /\ auth'[r] = "live"
            /\ r \notin idle' /\ r \in pending'
            /\ (identity[r] = choose_identity(offered[r]) /\ identity[r] # NoIdentity)'
        BY <1>1, <3>1 DEF TypeOK, initiate_authentication, Receive, promptVars
      <3> QED
        BY <2>2, <3>2, <3>3, SessionBegins
    <2> QED
      BY <2>1, <2>2
  <1> QED
    BY <1>2, <1>3, <1>4, <1>5 DEF IInv

LEMMA KeepsInitiateFails ==
    ASSUME IInv, NEW r \in Requests, InitiateFails(r)
    PROVE  IInv'
  <1>1. TypeOK /\ PromptInv /\ QueuedOnce /\ \A q \in Requests : RequestInv(q)
    BY DEF IInv
  <1>2. /\ inbox' \in Seq(Call) /\ QueuedOnce'
        /\ \A q : Queued(q)' <=> (Queued(q) /\ q # r)
        /\ Queued(r)
    <2>1. inbox # <<>> /\ Head(inbox) = [kind |-> "begin", req |-> r] /\ inbox' = Tail(inbox)
      BY DEF InitiateFails, Receive
    <2> QED
      BY <1>1, <2>1, QueueReceives DEF TypeOK
  <1>3. TypeOK'
    BY <1>1, <1>2, ChosenType DEF TypeOK, PromptTypeOK, Lines, Results, InitiateFails,
       Receive, auth_request_free, promptVars
  <1>4. PromptInv'
    BY <1>1 DEF TypeOK, PromptTypeOK, PromptInv, InitiateFails, Receive,
       auth_request_free, promptVars
  <1>5. ASSUME NEW q \in Requests PROVE RequestInv(q)'
    <2>1. CASE q # r
      <3>1. SameSession(q)
        BY <1>1, <2>1 DEF TypeOK, SameSession, InitiateFails, Receive, auth_request_free,
           promptVars
      <3>2. SameTask(q)
        BY <1>1, <2>1 DEF TypeOK, SameTask, InitiateFails, Receive, auth_request_free,
           promptVars
      <3>3. SameCall(q)
        BY <1>1, <1>2, <2>1 DEF TypeOK, SameCall, InitiateFails, Receive,
           auth_request_free, promptVars
      <3>4. helper[q] = "waiting" => agent' = agent /\ current' = current
        BY <1>1, <2>1 DEF RequestInv, InitiateFails, Receive, auth_request_free, promptVars
      <3>5. /\ agent' = "prompt" /\ current' = q => agent = "prompt" /\ current = q
            /\ agent = "stuck" => agent' = "stuck"
        BY <1>1, <2>1 DEF RequestInv, InitiateFails, Receive, auth_request_free, promptVars
      <3> QED
        BY <1>1, <3>1, <3>2, <3>3, <3>4, <3>5, LeftAlone
    <2>2. CASE q = r
      <3>1. /\ r \in sent /\ reply[r] = "none" /\ helper[r] = "none" /\ r \notin idle
            /\ auth[r] # "freed" /\ r \notin connected
        BY <1>1, <1>2, NotBegun DEF RequestInv
      <3>2. r \in sent' /\ ~Queued(r)' /\ ~(agent = "prompt" /\ current = r)'
        BY <1>2, <3>1 DEF InitiateFails, Receive, auth_request_free, promptVars
      <3>3. /\ helper'[r] = "dead" /\ reply'[r] = "none" /\ r \notin connected'
            /\ r \in idle' /\ r \in pending' /\ result'[r] = "denied"
        BY <1>1, <3>1 DEF TypeOK, InitiateFails, Receive, auth_request_free, promptVars
      <3> QED
        BY <2>2, <3>2, <3>3, RefusedLater
    <2> QED
      BY <2>1, <2>2
  <1> QED
    BY <1>2, <1>3, <1>4, <1>5 DEF IInv

LEMMA KeepsReturnFromIdle ==
    ASSUME IInv, NEW r \in Requests, ReturnFromIdle(r)
    PROVE  IInv'
  <1>1. TypeOK /\ PromptInv /\ QueuedOnce /\ \A q \in Requests : RequestInv(q)
    BY DEF IInv
  <1>2. inbox' \in Seq(Call) /\ QueuedOnce' /\ \A q : Queued(q)' <=> Queued(q)
    BY <1>1, QueueStays DEF TypeOK, ReturnFromIdle, Propagated, promptVars, agentVars,
       helperVars
  <1>3. TypeOK'
    BY <1>1, <1>2 DEF TypeOK, PromptTypeOK, Lines, Results, ReturnFromIdle, Propagated,
       promptVars, agentVars, helperVars
  <1>4. PromptInv'
    BY <1>1 DEF TypeOK, PromptTypeOK, PromptInv, ReturnFromIdle, Propagated, promptVars,
       agentVars, helperVars
  <1>5. ASSUME NEW q \in Requests PROVE RequestInv(q)'
    <2>1. CASE q # r
      <3>1. SameSession(q)
        BY <1>1, <2>1 DEF TypeOK, SameSession, ReturnFromIdle, Propagated, promptVars,
           agentVars, helperVars
      <3>2. SameTask(q)
        BY <1>1, <2>1 DEF TypeOK, SameTask, ReturnFromIdle, Propagated, promptVars,
           agentVars, helperVars
      <3>3. SameCall(q)
        BY <1>1, <1>2, <2>1 DEF TypeOK, SameCall, ReturnFromIdle, Propagated, promptVars,
           agentVars, helperVars
      <3>4. helper[q] = "waiting" => agent' = agent /\ current' = current
        BY <1>1, <2>1 DEF RequestInv, ReturnFromIdle, Propagated, promptVars, agentVars,
           helperVars
      <3>5. /\ agent' = "prompt" /\ current' = q => agent = "prompt" /\ current = q
            /\ agent = "stuck" => agent' = "stuck"
        BY <1>1, <2>1 DEF RequestInv, ReturnFromIdle, Propagated, promptVars, agentVars,
           helperVars
      <3> QED
        BY <1>1, <3>1, <3>2, <3>3, <3>4, <3>5, LeftAlone
    <2>2. CASE q = r
      <3>1. helper[r] \in {"none", "dead"} /\ result[r] = "denied" /\ r \in sent /\ ~Queued(r)
        BY <1>1 DEF RequestInv, Alive, Untouched, ReturnFromIdle, Propagated, promptVars,
           agentVars, helperVars
      <3>2. reply'[r] = "denied" /\ helper' = helper /\ auth' = auth /\ connected' = connected
        BY <1>1, <3>1 DEF TypeOK, ReturnFromIdle, Propagated, promptVars, agentVars,
           helperVars
      <3>3. auth[r] = "freed" => r \notin connected /\ helper[r] = "dead"
        BY <1>1 DEF RequestInv
      <3>4. /\ r \in sent' /\ ~Queued(r)' /\ r \notin idle' /\ r \notin pending'
            /\ agent' # "prompt"
        BY <1>1, <1>2, <3>1 DEF ReturnFromIdle, Propagated, promptVars, agentVars,
           helperVars
      <3> QED
        BY <2>2, <3>1, <3>2, <3>3, <3>4, Answered
    <2> QED
      BY <2>1, <2>2
  <1> QED
    BY <1>2, <1>3, <1>4, <1>5 DEF IInv

LEMMA KeepsCancelUnknown ==
    ASSUME IInv, NEW r \in Requests, CancelUnknown(r)
    PROVE  IInv'
  <1>1. TypeOK /\ PromptInv /\ QueuedOnce /\ \A q \in Requests : RequestInv(q)
    BY DEF IInv
  <1>2. /\ inbox' \in Seq(Call) /\ QueuedOnce'
        /\ \A q : Queued(q)' <=> Queued(q)
    <2>1. inbox # <<>> /\ Head(inbox) = [kind |-> "cancel", req |-> r] /\ inbox' = Tail(inbox)
      BY DEF CancelUnknown, Receive
    <2>2. /\ inbox' \in Seq(Call) /\ QueuedOnce'
          /\ \A q : Queued(q)' <=> (Queued(q) /\ ~("cancel" = "begin" /\ q = r))
      BY <1>1, <2>1, QueueReceives DEF TypeOK
    <2> QED
      BY <2>2
  <1>3. TypeOK'
    BY <1>1, <1>2 DEF TypeOK, PromptTypeOK, Lines, Results, CancelUnknown, Receive,
       promptVars, glibVars
  <1>4. PromptInv'
    BY <1>1 DEF TypeOK, PromptTypeOK, PromptInv, CancelUnknown, Receive, promptVars,
       glibVars
  <1>5. ASSUME NEW q \in Requests PROVE RequestInv(q)'
    BY <1>1, <1>2 DEF TypeOK, RequestInv, Untouched, Alive, Carried, CancelUnknown,
       Receive, promptVars, glibVars
  <1> QED
    BY <1>2, <1>3, <1>4, <1>5 DEF IInv

LEMMA KeepsCancelUnheard ==
    ASSUME IInv, NEW r \in Requests, CancelUnheard(r)
    PROVE  IInv'
  <1>1. TypeOK /\ PromptInv /\ QueuedOnce /\ \A q \in Requests : RequestInv(q)
    BY DEF IInv
  <1>2. /\ inbox' \in Seq(Call) /\ QueuedOnce'
        /\ \A q : Queued(q)' <=> Queued(q)
    <2>1. inbox # <<>> /\ Head(inbox) = [kind |-> "cancel", req |-> r] /\ inbox' = Tail(inbox)
      BY DEF CancelUnheard, Receive
    <2>2. /\ inbox' \in Seq(Call) /\ QueuedOnce'
          /\ \A q : Queued(q)' <=> (Queued(q) /\ ~("cancel" = "begin" /\ q = r))
      BY <1>1, <2>1, QueueReceives DEF TypeOK
    <2> QED
      BY <2>2
  <1>3. TypeOK'
    BY <1>1, <1>2 DEF TypeOK, PromptTypeOK, Lines, Results, CancelUnheard, Receive,
       promptVars
  <1>4. PromptInv'
    BY <1>1 DEF TypeOK, PromptTypeOK, PromptInv, CancelUnheard, Receive, promptVars
  <1>5. ASSUME NEW q \in Requests PROVE RequestInv(q)'
    BY <1>1, <1>2 DEF TypeOK, RequestInv, Untouched, Alive, Carried, CancelUnheard,
       Receive, promptVars
  <1> QED
    BY <1>2, <1>3, <1>4, <1>5 DEF IInv

LEMMA KeepsOnAuthCancelled ==
    ASSUME IInv, NEW r \in Requests, on_auth_cancelled(r)
    PROVE  IInv'
  <1>1. TypeOK /\ PromptInv /\ QueuedOnce /\ \A q \in Requests : RequestInv(q)
    BY DEF IInv
  <1>2. /\ inbox' \in Seq(Call) /\ QueuedOnce'
        /\ \A q : Queued(q)' <=> Queued(q)
    <2>1. inbox # <<>> /\ Head(inbox) = [kind |-> "cancel", req |-> r] /\ inbox' = Tail(inbox)
      BY DEF on_auth_cancelled, Receive
    <2>2. /\ inbox' \in Seq(Call) /\ QueuedOnce'
          /\ \A q : Queued(q)' <=> (Queued(q) /\ ~("cancel" = "begin" /\ q = r))
      BY <1>1, <2>1, QueueReceives DEF TypeOK
    <2> QED
      BY <2>2
  <1>3. TypeOK'
    BY <1>1, <1>2 DEF TypeOK, PromptTypeOK, Lines, Results, on_auth_cancelled, Receive,
       promptVars
  <1>4. PromptInv'
    BY <1>1 DEF TypeOK, PromptTypeOK, PromptInv, on_auth_cancelled, Receive, promptVars
  <1>5. ASSUME NEW q \in Requests PROVE RequestInv(q)'
    <2>1. CASE q # r
      <3>1. SameSession(q)
        BY <1>1, <2>1 DEF TypeOK, SameSession, on_auth_cancelled, Receive, promptVars
      <3>2. SameTask(q)
        BY <1>1, <2>1 DEF TypeOK, SameTask, on_auth_cancelled, Receive, promptVars
      <3>3. SameCall(q)
        BY <1>1, <1>2, <2>1 DEF TypeOK, SameCall, on_auth_cancelled, Receive, promptVars
      <3>4. helper[q] = "waiting" => agent' = agent /\ current' = current
        BY <1>1, <2>1 DEF RequestInv, on_auth_cancelled, Receive, promptVars
      <3>5. /\ agent' = "prompt" /\ current' = q => agent = "prompt" /\ current = q
            /\ agent = "stuck" => agent' = "stuck"
        BY <1>1, <2>1 DEF RequestInv, on_auth_cancelled, Receive, promptVars
      <3> QED
        BY <1>1, <3>1, <3>2, <3>3, <3>4, <3>5, LeftAlone
    <2>2. CASE q = r
      <3>1. /\ helper'[r] = "dead" /\ result'[r] = "denied" /\ reply[r] = "none"
            /\ \/ reply'[r] = "denied" /\ idle' = idle /\ r \notin pending'
               \/ reply'[r] = reply[r] /\ r \in idle' /\ r \in pending'
        <4>1. r \in pending /\ reply[r] = "none"
          BY <1>1 DEF RequestInv, on_auth_cancelled
        <4>2. /\ helper' = [helper EXCEPT ![r] = "dead"] /\ result' = [result EXCEPT ![r] = "denied"]
              /\ \/ reply' = [reply EXCEPT ![r] = "denied"] /\ pending' = pending \ {r} /\ idle' = idle
                 \/ idle' = idle \cup {r} /\ reply' = reply /\ pending' = pending
          BY DEF on_auth_cancelled
        <4>3. /\ helper \in [Requests -> Lines \cup {"none", "running", "waiting", "checking", "dead"}]
              /\ result \in [Requests -> Results] /\ reply \in [Requests -> Results]
          BY <1>1 DEF TypeOK
        <4> QED
          BY <4>1, <4>2, <4>3
      <3>2. auth'[r] = "freed" => r \notin connected' /\ helper'[r] = "dead"
        BY <1>1, <3>1 DEF RequestInv, on_auth_cancelled, Receive, promptVars
      <3>3. r \in sent' /\ ~Queued(r)' /\ r \notin idle /\ agent' = "stuck"
        BY <1>1, <1>2 DEF RequestInv, on_auth_cancelled, Receive, promptVars
      <3> QED
        BY <2>2, <3>1, <3>2, <3>3, Answered, RefusedLater
    <2> QED
      BY <2>1, <2>2
  <1> QED
    BY <1>2, <1>3, <1>4, <1>5 DEF IInv

LEMMA KeepsOnSessionShowInfo ==
    ASSUME IInv, NEW r \in Requests, on_session_show_info(r)
    PROVE  IInv'
  <1>1. TypeOK /\ PromptInv /\ QueuedOnce /\ \A q \in Requests : RequestInv(q)
    BY DEF IInv
  <1>2. inbox' \in Seq(Call) /\ QueuedOnce' /\ \A q : Queued(q)' <=> Queued(q)
    BY <1>1, QueueStays DEF TypeOK, on_session_show_info, Line, promptVars, glibVars,
       busVars
  <1>3. TypeOK'
    BY <1>1, <1>2 DEF TypeOK, PromptTypeOK, Lines, Results, on_session_show_info, Line,
       promptVars, glibVars, busVars
  <1>4. PromptInv'
    BY <1>1 DEF TypeOK, PromptTypeOK, PromptInv, on_session_show_info, Line, promptVars,
       glibVars, busVars
  <1>5. ASSUME NEW q \in Requests PROVE RequestInv(q)'
    <2>1. CASE q # r
      <3>1. SameSession(q)
        BY <1>1, <2>1 DEF TypeOK, SameSession, on_session_show_info, Line, promptVars,
           glibVars, busVars
      <3>2. SameTask(q)
        BY <1>1, <2>1 DEF TypeOK, SameTask, on_session_show_info, Line, promptVars,
           glibVars, busVars
      <3>3. SameCall(q)
        BY <1>1, <1>2, <2>1 DEF TypeOK, SameCall, on_session_show_info, Line, promptVars,
           glibVars, busVars
      <3>4. helper[q] = "waiting" => agent' = agent /\ current' = current
        BY <1>1, <2>1 DEF RequestInv, on_session_show_info, Line, promptVars, glibVars,
           busVars
      <3>5. /\ agent' = "prompt" /\ current' = q => agent = "prompt" /\ current = q
            /\ agent = "stuck" => agent' = "stuck"
        BY <1>1, <2>1 DEF RequestInv, on_session_show_info, Line, promptVars, glibVars,
           busVars
      <3> QED
        BY <1>1, <3>1, <3>2, <3>3, <3>4, <3>5, LeftAlone
    <2>2. CASE q = r
      <3>1. helper[r] \in {"INFO", "ERROR"} /\ helper'[r] = "running"
        BY <1>1 DEF TypeOK, on_session_show_info, Line
      <3>2. SameTask(r) /\ SameCall(r)
        BY <1>2 DEF SameTask, SameCall, on_session_show_info, glibVars, busVars
      <3>3. auth'[r] = auth[r] /\ identity'[r] = identity[r]
        BY DEF on_session_show_info
      <3> QED
        BY <1>1, <2>2, <3>1, <3>2, <3>3, SessionMoves
    <2> QED
      BY <2>1, <2>2
  <1> QED
    BY <1>2, <1>3, <1>4, <1>5 DEF IInv

LEMMA KeepsSessionEnds ==
    ASSUME IInv, NEW r \in Requests, SessionEnds(r)
    PROVE  IInv'
  <1>1. TypeOK /\ PromptInv /\ QueuedOnce /\ \A q \in Requests : RequestInv(q)
    BY DEF IInv
  <1>2. inbox' \in Seq(Call) /\ QueuedOnce' /\ \A q : Queued(q)' <=> Queued(q)
    BY <1>1, QueueStays DEF TypeOK, SessionEnds, Line, on_session_completed, TaskReturns,
       auth_request_free, Propagated, promptVars
  <1>3. TypeOK'
    BY <1>1, <1>2 DEF TypeOK, PromptTypeOK, Lines, Results, SessionEnds, Line,
       on_session_completed, TaskReturns, auth_request_free, Propagated, promptVars
  <1>4. PromptInv'
    BY <1>1 DEF TypeOK, PromptTypeOK, PromptInv, SessionEnds, Line, on_session_completed,
       TaskReturns, auth_request_free, Propagated, promptVars
  <1>5. ASSUME NEW q \in Requests PROVE RequestInv(q)'
    <2>1. CASE q # r
      <3>1. SameSession(q)
        BY <1>1, <2>1 DEF TypeOK, SameSession, SessionEnds, Line, on_session_completed,
           TaskReturns, auth_request_free, Propagated, promptVars
      <3>2. SameTask(q)
        BY <1>1, <2>1 DEF TypeOK, SameTask, SessionEnds, Line, on_session_completed,
           TaskReturns, auth_request_free, Propagated, promptVars
      <3>3. SameCall(q)
        BY <1>1, <1>2, <2>1 DEF TypeOK, SameCall, SessionEnds, Line, on_session_completed,
           TaskReturns, auth_request_free, Propagated, promptVars
      <3>4. helper[q] = "waiting" => agent' = agent /\ current' = current
        BY <1>1, <2>1 DEF RequestInv, SessionEnds, Line, on_session_completed,
           TaskReturns, auth_request_free, Propagated, promptVars
      <3>5. /\ agent' = "prompt" /\ current' = q => agent = "prompt" /\ current = q
            /\ agent = "stuck" => agent' = "stuck"
        BY <1>1, <2>1 DEF RequestInv, SessionEnds, Line, on_session_completed,
           TaskReturns, auth_request_free, Propagated, promptVars
      <3> QED
        BY <1>1, <3>1, <3>2, <3>3, <3>4, <3>5, LeftAlone
    <2>2. CASE q = r
      <3>1. helper[r] \notin {"none", "dead"}
        BY <1>1 DEF TypeOK, SessionEnds, Line, on_session_completed, TaskReturns,
           auth_request_free, Propagated, promptVars
      <3>2. /\ r \in sent /\ ~Queued(r) /\ r \notin idle /\ r \in pending
            /\ reply[r] = "none" /\ auth[r] = "live"
            /\ identity[r] = choose_identity(offered[r]) /\ identity[r] # NoIdentity
        BY <1>1, <2>2, <3>1, InSession
      <3>3. /\ r \in sent' /\ ~Queued(r)' /\ r \notin idle'
            /\ ~(agent = "prompt" /\ current = r)'
        BY <1>2, <2>2, <3>2 DEF SessionEnds, Line, on_session_completed, TaskReturns,
           auth_request_free, Propagated, promptVars
      <3>5. helper[r] = "SUCCESS" => Earned(offered[r], given[r])
        <4>1. offered[r] \in Seq(Identities)
          BY <1>1 DEF TypeOK
        <4>2. helper[r] = "SUCCESS" => given[r] = Password[identity[r]]
          BY <1>1, <3>1, InSession
        <4> QED
          BY <3>2, <4>1, <4>2, ChosenEarns
      <3>4. /\ helper'[r] = "dead" /\ r \notin connected' /\ r \notin pending'
            /\ reply'[r] \in {"denied", "granted"}
            /\ reply'[r] = "granted" => helper[r] = "SUCCESS"
            /\ offered' = offered /\ given' = given
        BY <1>1, <2>2, <3>1, <3>2, <3>5 DEF TypeOK, SessionEnds, Line,
           on_session_completed, TaskReturns, auth_request_free, Propagated, promptVars
      <3> QED
        BY <2>2, <3>3, <3>4, Answered, <3>5
    <2> QED
      BY <2>1, <2>2
  <1> QED
    BY <1>2, <1>3, <1>4, <1>5 DEF IInv

LEMMA KeepsOnSessionRequest ==
    ASSUME IInv, NEW r \in Requests, on_session_request(r)
    PROVE  IInv'
  <1>1. TypeOK /\ PromptInv /\ QueuedOnce /\ \A q \in Requests : RequestInv(q)
    BY DEF IInv
  <1>2. inbox' \in Seq(Call) /\ QueuedOnce' /\ \A q : Queued(q)' <=> Queued(q)
    BY <1>1, QueueStays DEF TypeOK, on_session_request, Line, Open, FailsToOpen, glibVars,
       busVars
  <1>3. TypeOK'
    <2>1. PromptTypeOK'
      <3>1. <<>> \in Seq(Chars)
        OBVIOUS
      <3> QED
        BY <1>1, <3>1 DEF TypeOK, PromptTypeOK, on_session_request, Open, FailsToOpen
    <2> QED
      BY <1>1, <1>2, <2>1 DEF TypeOK, Lines, on_session_request, Line, glibVars, busVars
  <1>4. PromptInv'
    <2>1. Len(<<>>) <= SecretLimit
      BY SecretLimitAssumption
    <2>2. Len(secret') <= SecretLimit
      BY <1>1, <2>1 DEF PromptInv, on_session_request, Open, FailsToOpen
    <2> QED
      BY <2>2 DEF PromptInv, on_session_request, Open, FailsToOpen
  <1>5. ASSUME NEW q \in Requests PROVE RequestInv(q)'
    <2>1. CASE q # r
      <3>1. SameSession(q)
        BY <1>1, <2>1 DEF TypeOK, SameSession, on_session_request, Line, Open,
           FailsToOpen, glibVars, busVars
      <3>2. SameTask(q)
        BY <1>1, <2>1 DEF TypeOK, SameTask, on_session_request, Line, Open, FailsToOpen,
           glibVars, busVars
      <3>3. SameCall(q)
        BY <1>1, <1>2, <2>1 DEF TypeOK, SameCall, on_session_request, Line, Open,
           FailsToOpen, glibVars, busVars
      <3>4. helper[q] = "waiting" => agent' = agent /\ current' = current
        BY <1>1, <2>1 DEF RequestInv, on_session_request, Line, Open, FailsToOpen,
           glibVars, busVars
      <3>5. /\ agent' = "prompt" /\ current' = q => agent = "prompt" /\ current = q
            /\ agent = "stuck" => agent' = "stuck"
        BY <1>1, <2>1 DEF RequestInv, on_session_request, Line, Open, FailsToOpen,
           glibVars, busVars
      <3> QED
        BY <1>1, <3>1, <3>2, <3>3, <3>4, <3>5, LeftAlone
    <2>2. CASE q = r
      BY <1>1, <1>2, <1>5, <2>2 DEF TypeOK, RequestInv, Untouched, Alive, Carried,
         on_session_request, Line, Open, FailsToOpen, glibVars, busVars
    <2> QED
      BY <2>1, <2>2
  <1> QED
    BY <1>2, <1>3, <1>4, <1>5 DEF IInv

LEMMA KeepsPromptUnavailable ==
    ASSUME IInv, NEW r \in Requests, PromptUnavailable(r)
    PROVE  IInv'
  <1>1. TypeOK /\ PromptInv /\ QueuedOnce /\ \A q \in Requests : RequestInv(q)
    BY DEF IInv
  <1>2. inbox' \in Seq(Call) /\ QueuedOnce' /\ \A q : Queued(q)' <=> Queued(q)
    BY <1>1, QueueStays DEF TypeOK, PromptUnavailable, Line, on_session_completed,
       TaskReturns, auth_request_free, Propagated, promptVars
  <1>3. TypeOK'
    BY <1>1, <1>2 DEF TypeOK, PromptTypeOK, Lines, Results, PromptUnavailable, Line,
       on_session_completed, TaskReturns, auth_request_free, Propagated, promptVars
  <1>4. PromptInv'
    BY <1>1 DEF TypeOK, PromptTypeOK, PromptInv, PromptUnavailable, Line,
       on_session_completed, TaskReturns, auth_request_free, Propagated, promptVars
  <1>5. ASSUME NEW q \in Requests PROVE RequestInv(q)'
    <2>1. CASE q # r
      <3>1. SameSession(q)
        BY <1>1, <2>1 DEF TypeOK, SameSession, PromptUnavailable, Line,
           on_session_completed, TaskReturns, auth_request_free, Propagated, promptVars
      <3>2. SameTask(q)
        BY <1>1, <2>1 DEF TypeOK, SameTask, PromptUnavailable, Line, on_session_completed,
           TaskReturns, auth_request_free, Propagated, promptVars
      <3>3. SameCall(q)
        BY <1>1, <1>2, <2>1 DEF TypeOK, SameCall, PromptUnavailable, Line,
           on_session_completed, TaskReturns, auth_request_free, Propagated, promptVars
      <3>4. helper[q] = "waiting" => agent' = agent /\ current' = current
        BY <1>1, <2>1 DEF RequestInv, PromptUnavailable, Line, on_session_completed,
           TaskReturns, auth_request_free, Propagated, promptVars
      <3>5. /\ agent' = "prompt" /\ current' = q => agent = "prompt" /\ current = q
            /\ agent = "stuck" => agent' = "stuck"
        BY <1>1, <2>1 DEF RequestInv, PromptUnavailable, Line, on_session_completed,
           TaskReturns, auth_request_free, Propagated, promptVars
      <3> QED
        BY <1>1, <3>1, <3>2, <3>3, <3>4, <3>5, LeftAlone
    <2>2. CASE q = r
      <3>1. helper[r] \notin {"none", "dead"}
        BY <1>1 DEF TypeOK, PromptUnavailable, Line, on_session_completed, TaskReturns,
           auth_request_free, Propagated, promptVars
      <3>2. /\ r \in sent /\ ~Queued(r) /\ r \notin idle /\ r \in pending
            /\ reply[r] = "none" /\ auth[r] = "live"
            /\ identity[r] = choose_identity(offered[r]) /\ identity[r] # NoIdentity
        BY <1>1, <2>2, <3>1, InSession
      <3>3. /\ r \in sent' /\ ~Queued(r)' /\ r \notin idle'
            /\ ~(agent = "prompt" /\ current = r)'
        BY <1>2, <2>2, <3>2 DEF PromptUnavailable, Line, on_session_completed,
           TaskReturns, auth_request_free, Propagated, promptVars
      <3>4. /\ helper'[r] = "dead" /\ r \notin connected' /\ r \notin pending'
            /\ reply'[r] = "denied"
        BY <1>1, <2>2, <3>1, <3>2 DEF TypeOK, PromptUnavailable, Line,
           on_session_completed, TaskReturns, auth_request_free, Propagated, promptVars
      <3> QED
        BY <2>2, <3>3, <3>4, Answered
    <2> QED
      BY <2>1, <2>2
  <1> QED
    BY <1>2, <1>3, <1>4, <1>5 DEF IInv

LEMMA KeepsPromptAnswered ==
    ASSUME IInv, PromptAnswered
    PROVE  IInv'
  <1>1. TypeOK /\ PromptInv /\ QueuedOnce /\ \A q \in Requests : RequestInv(q)
    BY DEF IInv
  <1>2. inbox' \in Seq(Call) /\ QueuedOnce' /\ \A q : Queued(q)' <=> Queued(q)
    BY <1>1, QueueStays DEF TypeOK, PromptAnswered, Reap, glibVars
  <1>3. TypeOK'
    <2>1. PromptTypeOK'
      <3>1. <<>> \in Seq(Chars)
        OBVIOUS
      <3> QED
        BY <1>1, <3>1 DEF TypeOK, PromptTypeOK, PromptAnswered, Reap
    <2>2. given' \in [Requests -> Seq(Chars) \cup {NoResponse}]
      <3>1. Response \in Seq(Chars)
        BY <1>1, ResponseIsSecret DEF TypeOK, PromptTypeOK, PromptInv
      <3> QED
        BY <1>1, <3>1 DEF TypeOK, PromptAnswered
    <2>3. helper' \in [Requests -> Lines \cup {"none", "running", "waiting", "checking", "dead"}]
      BY <1>1 DEF TypeOK, PromptAnswered
    <2> QED
      BY <1>1, <1>2, <2>1, <2>2, <2>3 DEF TypeOK, PromptAnswered, Reap, glibVars
  <1>4. PromptInv'
    <2>1. Len(<<>>) <= SecretLimit
      BY SecretLimitAssumption
    <2> QED
      BY <2>1 DEF PromptInv, PromptAnswered, Reap
  <1>5. ASSUME NEW q \in Requests PROVE RequestInv(q)'
    <2>1. CASE q # current
      <3>1. SameSession(q)
        BY <1>1, <2>1 DEF TypeOK, SameSession, PromptAnswered, Reap, glibVars
      <3>2. SameTask(q)
        BY <1>1, <2>1 DEF TypeOK, SameTask, PromptAnswered, Reap, glibVars
      <3>3. SameCall(q)
        BY <1>1, <1>2, <2>1 DEF TypeOK, SameCall, PromptAnswered, Reap, glibVars
      <3>4. helper[q] = "waiting" => agent' = agent /\ current' = current
        BY <1>1, <2>1 DEF RequestInv, PromptAnswered, Reap, glibVars
      <3>5. /\ agent' = "prompt" /\ current' = q => agent = "prompt" /\ current = q
            /\ agent = "stuck" => agent' = "stuck"
        BY <1>1, <2>1 DEF RequestInv, PromptAnswered, Reap, glibVars
      <3> QED
        BY <1>1, <3>1, <3>2, <3>3, <3>4, <3>5, LeftAlone
    <2>2. CASE q = current
      BY <1>1, <1>2, <1>5, <2>2 DEF TypeOK, RequestInv, Untouched, Alive, Carried,
         PromptAnswered, Reap, glibVars
    <2> QED
      BY <2>1, <2>2
  <1> QED
    BY <1>2, <1>3, <1>4, <1>5 DEF IInv

LEMMA KeepsPromptDismissed ==
    ASSUME IInv, PromptDismissed
    PROVE  IInv'
  <1>1. TypeOK /\ PromptInv /\ QueuedOnce /\ \A q \in Requests : RequestInv(q)
    BY DEF IInv
  <1>2. inbox' \in Seq(Call) /\ QueuedOnce' /\ \A q : Queued(q)' <=> Queued(q)
    BY <1>1, QueueStays DEF TypeOK, PromptDismissed, Reap, on_session_completed,
       TaskReturns, auth_request_free, Propagated
  <1>3. TypeOK'
    <2>1. PromptTypeOK'
      <3>1. <<>> \in Seq(Chars)
        OBVIOUS
      <3> QED
        BY <1>1, <3>1 DEF TypeOK, PromptTypeOK, PromptDismissed, Reap
    <2>2. current \in Requests
      BY <1>1 DEF PromptInv, PromptDismissed, Reap
    <2> QED
      BY <1>1, <1>2, <2>1, <2>2 DEF TypeOK, Lines, Results, PromptDismissed, Reap,
         on_session_completed, TaskReturns, auth_request_free, Propagated
  <1>4. PromptInv'
    <2>1. Len(<<>>) <= SecretLimit
      BY SecretLimitAssumption
    <2> QED
      BY <2>1 DEF PromptInv, PromptDismissed, Reap
  <1>5. ASSUME NEW q \in Requests PROVE RequestInv(q)'
    <2>1. CASE q # current
      <3>1. SameSession(q)
        BY <1>1, <2>1 DEF TypeOK, SameSession, PromptDismissed, Reap,
           on_session_completed, TaskReturns, auth_request_free, Propagated
      <3>2. SameTask(q)
        BY <1>1, <2>1 DEF TypeOK, SameTask, PromptDismissed, Reap, on_session_completed,
           TaskReturns, auth_request_free, Propagated
      <3>3. SameCall(q)
        BY <1>1, <1>2, <2>1 DEF TypeOK, SameCall, PromptDismissed, Reap,
           on_session_completed, TaskReturns, auth_request_free, Propagated
      <3>4. helper[q] = "waiting" => agent' = agent /\ current' = current
        BY <1>1, <2>1 DEF RequestInv, PromptDismissed, Reap, on_session_completed,
           TaskReturns, auth_request_free, Propagated
      <3>5. /\ agent' = "prompt" /\ current' = q => agent = "prompt" /\ current = q
            /\ agent = "stuck" => agent' = "stuck"
        BY <1>1, <2>1 DEF RequestInv, PromptDismissed, Reap, on_session_completed,
           TaskReturns, auth_request_free, Propagated
      <3> QED
        BY <1>1, <3>1, <3>2, <3>3, <3>4, <3>5, LeftAlone
    <2>2. CASE q = current
      <3>1. /\ helper'[q] = "dead" /\ q \notin connected' /\ q \notin pending'
            /\ reply'[q] = "denied"
        BY <1>1, <2>2 DEF TypeOK, PromptDismissed, Reap, on_session_completed,
           TaskReturns, auth_request_free, Propagated
      <3>3. helper[q] \notin {"none", "dead"}
        BY <1>1, <2>2 DEF RequestInv, Alive, PromptDismissed, Reap, on_session_completed,
           TaskReturns, auth_request_free, Propagated
      <3>4. q \in sent /\ ~Queued(q) /\ q \notin idle
        BY <1>1, <3>3, InSession
      <3>2. q \in sent' /\ ~Queued(q)' /\ q \notin idle' /\ agent' # "prompt"
        BY <1>2, <3>4 DEF PromptDismissed, Reap, on_session_completed, TaskReturns,
           auth_request_free, Propagated
      <3> QED
        BY <3>1, <3>2, Answered
    <2> QED
      BY <2>1, <2>2
  <1> QED
    BY <1>2, <1>3, <1>4, <1>5 DEF IInv

LEMMA KeepsPromptMoves ==
    ASSUME IInv, PromptMoves
    PROVE  IInv'
  <1>1. TypeOK /\ PromptInv /\ QueuedOnce /\ \A q \in Requests : RequestInv(q)
    BY DEF IInv
  <1>2. inbox' \in Seq(Call) /\ QueuedOnce' /\ \A q : Queued(q)' <=> Queued(q)
    BY <1>1, QueueStays DEF TypeOK, PromptMoves, Type, Erase, Decide, Finish, Abort,
       agentVars, glibVars, helperVars, busVars
  <1>3. TypeOK'
    <2>1. PromptTypeOK'
      BY <1>1, PromptKeeps DEF TypeOK, PromptInv, PromptMoves
    <2> QED
      BY <1>1, <1>2, <2>1 DEF TypeOK, PromptMoves, agentVars, glibVars, helperVars, busVars
  <1>4. PromptInv'
    <2>1. /\ Len(secret') <= SecretLimit
          /\ prompt' = "accepted" => decision' = "submit"
      BY <1>1, PromptKeeps DEF TypeOK, PromptInv, PromptMoves
    <2> QED
      BY <1>1, <2>1 DEF PromptInv, PromptMoves, agentVars
  <1>5. ASSUME NEW q \in Requests PROVE RequestInv(q)'
    BY <1>1, <1>2 DEF TypeOK, RequestInv, Untouched, Alive, Carried, PromptMoves, Type,
       Erase, Decide, Finish, Abort, agentVars, glibVars, helperVars, busVars
  <1> QED
    BY <1>2, <1>3, <1>4, <1>5 DEF IInv

LEMMA KeepsHelperAsks ==
    ASSUME IInv, NEW r \in Requests, HelperAsks(r)
    PROVE  IInv'
  <1>1. TypeOK /\ PromptInv /\ QueuedOnce /\ \A q \in Requests : RequestInv(q)
    BY DEF IInv
  <1>2. inbox' \in Seq(Call) /\ QueuedOnce' /\ \A q : Queued(q)' <=> Queued(q)
    BY <1>1, QueueStays DEF TypeOK, HelperAsks, HelperIs, promptVars, agentVars, glibVars,
       busVars
  <1>3. TypeOK'
    <2>1. rounds[r] + 1 \in 0 .. MaxRounds
      <3>1. rounds[r] \in 0 .. MaxRounds /\ rounds[r] < MaxRounds
        BY <1>1 DEF TypeOK, HelperAsks
      <3> QED
        BY <3>1, AgentAssumption
    <2>2. rounds' \in [Requests -> 0 .. MaxRounds]
      BY <1>1, <2>1 DEF TypeOK, HelperAsks
    <2>3. helper' \in [Requests -> Lines \cup {"none", "running", "waiting", "checking", "dead"}]
      BY <1>1 DEF TypeOK, Lines, HelperAsks, HelperIs, promptVars, agentVars, glibVars,
         busVars
    <2> QED
      BY <1>1, <1>2, <2>2, <2>3 DEF TypeOK, PromptTypeOK, HelperAsks, HelperIs,
         promptVars, agentVars, glibVars, busVars
  <1>4. PromptInv'
    BY <1>1 DEF TypeOK, PromptTypeOK, PromptInv, HelperAsks, HelperIs, promptVars,
       agentVars, glibVars, busVars
  <1>5. ASSUME NEW q \in Requests PROVE RequestInv(q)'
    <2>1. CASE q # r
      <3>1. SameSession(q)
        BY <1>1, <2>1 DEF TypeOK, SameSession, HelperAsks, HelperIs, promptVars,
           agentVars, glibVars, busVars
      <3>2. SameTask(q)
        BY <1>1, <2>1 DEF TypeOK, SameTask, HelperAsks, HelperIs, promptVars, agentVars,
           glibVars, busVars
      <3>3. SameCall(q)
        BY <1>1, <1>2, <2>1 DEF TypeOK, SameCall, HelperAsks, HelperIs, promptVars,
           agentVars, glibVars, busVars
      <3>4. helper[q] = "waiting" => agent' = agent /\ current' = current
        BY <1>1, <2>1 DEF RequestInv, HelperAsks, HelperIs, promptVars, agentVars,
           glibVars, busVars
      <3>5. /\ agent' = "prompt" /\ current' = q => agent = "prompt" /\ current = q
            /\ agent = "stuck" => agent' = "stuck"
        BY <1>1, <2>1 DEF RequestInv, HelperAsks, HelperIs, promptVars, agentVars,
           glibVars, busVars
      <3> QED
        BY <1>1, <3>1, <3>2, <3>3, <3>4, <3>5, LeftAlone
    <2>2. CASE q = r
      <3>1. helper[r] \notin {"none", "dead"} /\ helper'[r] \notin {"none", "dead"}
        BY <1>1 DEF TypeOK, HelperAsks, HelperIs, promptVars, agentVars, glibVars, busVars
      <3>2. auth'[r] = auth[r] /\ identity'[r] = identity[r] /\ SameTask(r)
        BY <1>1 DEF TypeOK, SameTask, HelperAsks, HelperIs, promptVars, agentVars,
           glibVars, busVars
      <3>3. SameCall(r)
        BY <1>1, <1>2 DEF TypeOK, SameCall, HelperAsks, HelperIs, promptVars, agentVars,
           glibVars, busVars
      <3>4. helper'[r] \notin {"waiting", "SUCCESS"}
        BY <1>1 DEF TypeOK, HelperAsks, HelperIs, promptVars, agentVars, glibVars, busVars
      <3> QED
        BY <1>1, <2>2, <3>1, <3>2, <3>3, <3>4, SessionMoves
    <2> QED
      BY <2>1, <2>2
  <1> QED
    BY <1>2, <1>3, <1>4, <1>5 DEF IInv

LEMMA KeepsHelperSays ==
    ASSUME IInv, NEW r \in Requests, HelperSays(r)
    PROVE  IInv'
  <1>1. TypeOK /\ PromptInv /\ QueuedOnce /\ \A q \in Requests : RequestInv(q)
    BY DEF IInv
  <1>2. inbox' \in Seq(Call) /\ QueuedOnce' /\ \A q : Queued(q)' <=> Queued(q)
    BY <1>1, QueueStays DEF TypeOK, HelperSays, HelperIs, promptVars, agentVars, glibVars,
       busVars
  <1>3. TypeOK'
    <2>1. helper' \in [Requests -> Lines \cup {"none", "running", "waiting", "checking", "dead"}]
      <3>1. helper \in [Requests -> Lines \cup {"none", "running", "waiting", "checking", "dead"}]
        BY <1>1 DEF TypeOK
      <3>2. \E l \in Lines \cup {"running"} : helper' = [helper EXCEPT ![r] = l]
        BY DEF HelperSays, HelperIs, Lines
      <3> QED
        BY <3>1, <3>2
    <2>2. UNCHANGED <<promptVars, agentVars, glibVars, busVars, given, rounds>>
      BY DEF HelperSays, HelperIs
    <2> QED
      BY <1>1, <1>2, <2>1, <2>2 DEF TypeOK, PromptTypeOK, promptVars, agentVars, glibVars,
         busVars
  <1>4. PromptInv'
    BY <1>1 DEF TypeOK, PromptTypeOK, PromptInv, HelperSays, HelperIs, promptVars,
       agentVars, glibVars, busVars
  <1>5. ASSUME NEW q \in Requests PROVE RequestInv(q)'
    <2>1. CASE q # r
      <3>1. SameSession(q)
        BY <1>1, <2>1 DEF TypeOK, SameSession, HelperSays, HelperIs, promptVars,
           agentVars, glibVars, busVars
      <3>2. SameTask(q)
        BY <1>1, <2>1 DEF TypeOK, SameTask, HelperSays, HelperIs, promptVars, agentVars,
           glibVars, busVars
      <3>3. SameCall(q)
        BY <1>1, <1>2, <2>1 DEF TypeOK, SameCall, HelperSays, HelperIs, promptVars,
           agentVars, glibVars, busVars
      <3>4. helper[q] = "waiting" => agent' = agent /\ current' = current
        BY <1>1, <2>1 DEF RequestInv, HelperSays, HelperIs, promptVars, agentVars,
           glibVars, busVars
      <3>5. /\ agent' = "prompt" /\ current' = q => agent = "prompt" /\ current = q
            /\ agent = "stuck" => agent' = "stuck"
        BY <1>1, <2>1 DEF RequestInv, HelperSays, HelperIs, promptVars, agentVars,
           glibVars, busVars
      <3> QED
        BY <1>1, <3>1, <3>2, <3>3, <3>4, <3>5, LeftAlone
    <2>2. CASE q = r
      <3>1. helper[r] \notin {"none", "dead"} /\ helper'[r] \notin {"none", "dead"}
        BY <1>1 DEF TypeOK, HelperSays, HelperIs, promptVars, agentVars, glibVars, busVars
      <3>2. auth'[r] = auth[r] /\ identity'[r] = identity[r] /\ SameTask(r)
        BY <1>1 DEF TypeOK, SameTask, HelperSays, HelperIs, promptVars, agentVars,
           glibVars, busVars
      <3>3. SameCall(r)
        BY <1>1, <1>2 DEF TypeOK, SameCall, HelperSays, HelperIs, promptVars, agentVars,
           glibVars, busVars
      <3>4. helper'[r] \notin {"waiting", "SUCCESS"}
        BY <1>1 DEF TypeOK, HelperSays, HelperIs, promptVars, agentVars, glibVars, busVars
      <3> QED
        BY <1>1, <2>2, <3>1, <3>2, <3>3, <3>4, SessionMoves
    <2> QED
      BY <2>1, <2>2
  <1> QED
    BY <1>2, <1>3, <1>4, <1>5 DEF IInv

LEMMA KeepsHelperChecks ==
    ASSUME IInv, NEW r \in Requests, HelperChecks(r)
    PROVE  IInv'
  <1>1. TypeOK /\ PromptInv /\ QueuedOnce /\ \A q \in Requests : RequestInv(q)
    BY DEF IInv
  <1>2. inbox' \in Seq(Call) /\ QueuedOnce' /\ \A q : Queued(q)' <=> Queued(q)
    BY <1>1, QueueStays DEF TypeOK, HelperChecks, HelperIs, promptVars, agentVars,
       glibVars, busVars
  <1>3. TypeOK'
    <2>1. helper' \in [Requests -> Lines \cup {"none", "running", "waiting", "checking", "dead"}]
      <3>1. helper \in [Requests -> Lines \cup {"none", "running", "waiting", "checking", "dead"}]
        BY <1>1 DEF TypeOK
      <3>2. \E l \in Lines \cup {"running"} : helper' = [helper EXCEPT ![r] = l]
        BY DEF HelperChecks, HelperIs, Lines
      <3> QED
        BY <3>1, <3>2
    <2>2. UNCHANGED <<promptVars, agentVars, glibVars, busVars, given, rounds>>
      BY DEF HelperChecks, HelperIs
    <2> QED
      BY <1>1, <1>2, <2>1, <2>2 DEF TypeOK, PromptTypeOK, promptVars, agentVars, glibVars,
         busVars
  <1>4. PromptInv'
    BY <1>1 DEF TypeOK, PromptTypeOK, PromptInv, HelperChecks, HelperIs, promptVars,
       agentVars, glibVars, busVars
  <1>5. ASSUME NEW q \in Requests PROVE RequestInv(q)'
    <2>1. CASE q # r
      <3>1. SameSession(q)
        BY <1>1, <2>1 DEF TypeOK, SameSession, HelperChecks, HelperIs, promptVars,
           agentVars, glibVars, busVars
      <3>2. SameTask(q)
        BY <1>1, <2>1 DEF TypeOK, SameTask, HelperChecks, HelperIs, promptVars, agentVars,
           glibVars, busVars
      <3>3. SameCall(q)
        BY <1>1, <1>2, <2>1 DEF TypeOK, SameCall, HelperChecks, HelperIs, promptVars,
           agentVars, glibVars, busVars
      <3>4. helper[q] = "waiting" => agent' = agent /\ current' = current
        BY <1>1, <2>1 DEF RequestInv, HelperChecks, HelperIs, promptVars, agentVars,
           glibVars, busVars
      <3>5. /\ agent' = "prompt" /\ current' = q => agent = "prompt" /\ current = q
            /\ agent = "stuck" => agent' = "stuck"
        BY <1>1, <2>1 DEF RequestInv, HelperChecks, HelperIs, promptVars, agentVars,
           glibVars, busVars
      <3> QED
        BY <1>1, <3>1, <3>2, <3>3, <3>4, <3>5, LeftAlone
    <2>2. CASE q = r
      <3>1. helper[r] \notin {"none", "dead"} /\ helper'[r] \notin {"none", "dead"}
        BY <1>1 DEF TypeOK, HelperChecks, HelperIs, promptVars, agentVars, glibVars, busVars
      <3>2. auth'[r] = auth[r] /\ identity'[r] = identity[r] /\ SameTask(r)
        BY <1>1 DEF TypeOK, SameTask, HelperChecks, HelperIs, promptVars, agentVars,
           glibVars, busVars
      <3>3. SameCall(r)
        BY <1>1, <1>2 DEF TypeOK, SameCall, HelperChecks, HelperIs, promptVars, agentVars,
           glibVars, busVars
      <3>4. /\ helper'[r] # "waiting"
            /\ helper'[r] = "SUCCESS" => given'[r] = Password[identity[r]]
        BY <1>1 DEF TypeOK, HelperChecks, HelperIs, promptVars, agentVars, glibVars, busVars
      <3> QED
        BY <1>1, <2>2, <3>1, <3>2, <3>3, <3>4, SessionMoves
    <2> QED
      BY <2>1, <2>2
  <1> QED
    BY <1>2, <1>3, <1>4, <1>5 DEF IInv

LEMMA KeepsHelperDies ==
    ASSUME IInv, NEW r \in Requests, HelperDies(r)
    PROVE  IInv'
  <1>1. TypeOK /\ PromptInv /\ QueuedOnce /\ \A q \in Requests : RequestInv(q)
    BY DEF IInv
  <1>2. inbox' \in Seq(Call) /\ QueuedOnce' /\ \A q : Queued(q)' <=> Queued(q)
    BY <1>1, QueueStays DEF TypeOK, HelperDies, HelperIs, promptVars, agentVars, glibVars,
       busVars
  <1>3. TypeOK'
    <2>1. helper' \in [Requests -> Lines \cup {"none", "running", "waiting", "checking", "dead"}]
      <3>1. helper \in [Requests -> Lines \cup {"none", "running", "waiting", "checking", "dead"}]
        BY <1>1 DEF TypeOK
      <3>2. \E l \in Lines \cup {"running"} : helper' = [helper EXCEPT ![r] = l]
        BY DEF HelperDies, HelperIs, Lines
      <3> QED
        BY <3>1, <3>2
    <2>2. UNCHANGED <<promptVars, agentVars, glibVars, busVars, given, rounds>>
      BY DEF HelperDies, HelperIs
    <2> QED
      BY <1>1, <1>2, <2>1, <2>2 DEF TypeOK, PromptTypeOK, promptVars, agentVars, glibVars,
         busVars
  <1>4. PromptInv'
    BY <1>1 DEF TypeOK, PromptTypeOK, PromptInv, HelperDies, HelperIs, promptVars,
       agentVars, glibVars, busVars
  <1>5. ASSUME NEW q \in Requests PROVE RequestInv(q)'
    <2>1. CASE q # r
      <3>1. SameSession(q)
        BY <1>1, <2>1 DEF TypeOK, SameSession, HelperDies, HelperIs, promptVars,
           agentVars, glibVars, busVars
      <3>2. SameTask(q)
        BY <1>1, <2>1 DEF TypeOK, SameTask, HelperDies, HelperIs, promptVars, agentVars,
           glibVars, busVars
      <3>3. SameCall(q)
        BY <1>1, <1>2, <2>1 DEF TypeOK, SameCall, HelperDies, HelperIs, promptVars,
           agentVars, glibVars, busVars
      <3>4. helper[q] = "waiting" => agent' = agent /\ current' = current
        BY <1>1, <2>1 DEF RequestInv, HelperDies, HelperIs, promptVars, agentVars,
           glibVars, busVars
      <3>5. /\ agent' = "prompt" /\ current' = q => agent = "prompt" /\ current = q
            /\ agent = "stuck" => agent' = "stuck"
        BY <1>1, <2>1 DEF RequestInv, HelperDies, HelperIs, promptVars, agentVars,
           glibVars, busVars
      <3> QED
        BY <1>1, <3>1, <3>2, <3>3, <3>4, <3>5, LeftAlone
    <2>2. CASE q = r
      <3>1. helper[r] \notin {"none", "dead"} /\ helper'[r] \notin {"none", "dead"}
        BY <1>1 DEF TypeOK, HelperDies, HelperIs, promptVars, agentVars, glibVars, busVars
      <3>2. auth'[r] = auth[r] /\ identity'[r] = identity[r] /\ SameTask(r)
        BY <1>1 DEF TypeOK, SameTask, HelperDies, HelperIs, promptVars, agentVars,
           glibVars, busVars
      <3>3. SameCall(r)
        BY <1>1, <1>2 DEF TypeOK, SameCall, HelperDies, HelperIs, promptVars, agentVars,
           glibVars, busVars
      <3>4. /\ helper'[r] = "HUP"
        BY <1>1 DEF TypeOK, HelperDies, HelperIs, promptVars, agentVars, glibVars, busVars
      <3> QED
        BY <1>1, <2>2, <3>1, <3>2, <3>3, <3>4, SessionMoves
    <2> QED
      BY <2>1, <2>2
  <1> QED
    BY <1>2, <1>3, <1>4, <1>5 DEF IInv

LEMMA KeepsCancelAuthentication ==
    ASSUME IInv, NEW r \in Requests, CancelAuthentication(r)
    PROVE  IInv'
  <1>1. TypeOK /\ PromptInv /\ QueuedOnce /\ \A q \in Requests : RequestInv(q)
    BY DEF IInv
  <1>2. inbox' \in Seq(Call) /\ QueuedOnce' /\ \A q : Queued(q)' <=> Queued(q)
    <2>1. inbox' = Append(inbox, [kind |-> "cancel", req |-> r])
      BY DEF CancelAuthentication
    <2> QED
      BY <1>1, <2>1, QueueSends DEF TypeOK
  <1>3. TypeOK'
    BY <1>1, <1>2 DEF TypeOK, PromptTypeOK, Lines, Results, CancelAuthentication, BusStep,
       promptVars, agentVars, glibVars, helperVars
  <1>4. PromptInv'
    BY <1>1 DEF TypeOK, PromptTypeOK, PromptInv, CancelAuthentication, BusStep,
       promptVars, agentVars, glibVars, helperVars
  <1>5. ASSUME NEW q \in Requests PROVE RequestInv(q)'
    BY <1>1, <1>2 DEF TypeOK, RequestInv, Untouched, Alive, Carried, CancelAuthentication,
       BusStep, promptVars, agentVars, glibVars, helperVars
  <1> QED
    BY <1>2, <1>3, <1>4, <1>5 DEF IInv

LEMMA KeepsBeginAuthentication ==
    ASSUME IInv, NEW r \in Requests, NEW ids \in Offers, BeginAuthentication(r, ids)
    PROVE  IInv'
  <1>1. TypeOK /\ PromptInv /\ QueuedOnce /\ \A q \in Requests : RequestInv(q)
    BY DEF IInv
  <1>2. inbox' \in Seq(Call) /\ QueuedOnce' /\ \A q : Queued(q)' <=> (Queued(q) \/ q = r)
    <2>1. inbox' = Append(inbox, [kind |-> "begin", req |-> r]) /\ ~Queued(r)
      BY <1>1 DEF BeginAuthentication, RequestInv
    <2> QED
      BY <1>1, <2>1, QueueSends DEF TypeOK
  <1>3. TypeOK'
    BY <1>1, <1>2, AgentAssumption DEF TypeOK, PromptTypeOK, Lines, Results,
       BeginAuthentication, BusStep, promptVars, agentVars, glibVars, helperVars
  <1>4. PromptInv'
    BY <1>1 DEF TypeOK, PromptTypeOK, PromptInv, BeginAuthentication, BusStep, promptVars,
       agentVars, glibVars, helperVars
  <1>5. ASSUME NEW q \in Requests PROVE RequestInv(q)'
    <2>1. CASE q # r
      <3>1. SameSession(q)
        BY <1>1, <2>1 DEF TypeOK, SameSession, BeginAuthentication, BusStep, promptVars,
           agentVars, glibVars, helperVars
      <3>2. SameTask(q)
        BY <1>1, <2>1 DEF TypeOK, SameTask, BeginAuthentication, BusStep, promptVars,
           agentVars, glibVars, helperVars
      <3>3. SameCall(q)
        BY <1>1, <1>2, <2>1 DEF TypeOK, SameCall, BeginAuthentication, BusStep,
           promptVars, agentVars, glibVars, helperVars
      <3>4. helper[q] = "waiting" => agent' = agent /\ current' = current
        BY <1>1, <2>1 DEF RequestInv, BeginAuthentication, BusStep, promptVars, agentVars,
           glibVars, helperVars
      <3>5. /\ agent' = "prompt" /\ current' = q => agent = "prompt" /\ current = q
            /\ agent = "stuck" => agent' = "stuck"
        BY <1>1, <2>1 DEF RequestInv, BeginAuthentication, BusStep, promptVars, agentVars,
           glibVars, helperVars
      <3> QED
        BY <1>1, <3>1, <3>2, <3>3, <3>4, <3>5, LeftAlone
    <2>2. CASE q = r
      BY <1>1, <1>2, <1>5, <2>2 DEF TypeOK, RequestInv, Untouched, Alive, Carried,
         BeginAuthentication, BusStep, promptVars, agentVars, glibVars, helperVars
    <2> QED
      BY <2>1, <2>2
  <1> QED
    BY <1>2, <1>3, <1>4, <1>5 DEF IInv

----------------------------------------------------------------------------
(* The invariant *)

LEMMA InitInv == Init => IInv
  <1> SUFFICES ASSUME Init PROVE IInv
    OBVIOUS
  <1>1. <<>> \in Seq(Chars) /\ <<>> \in Seq(Call) /\ <<>> \in Seq(Identities) /\ Len(<<>>) = 0
        /\ DOMAIN <<>> = {}
    OBVIOUS
  <1>2. TypeOK
    <2>1. 0 \in 0 .. MaxRounds /\ 0 \in 0 .. MaxFailures
      BY AgentAssumption
    <2>2. PromptTypeOK
      BY <1>1 DEF Init, PromptInit, PromptTypeOK
    <2>3. /\ rounds \in [Requests -> 0 .. MaxRounds] /\ failures \in 0 .. MaxFailures
          /\ inbox \in Seq(Call) /\ offered \in [Requests -> Seq(Identities)]
      BY <1>1, <2>1 DEF Init
    <2> QED
      BY <2>2, <2>3 DEF Init, TypeOK, Results
  <1>3. PromptInv /\ QueuedOnce
    <2>1. 0 <= SecretLimit
      BY SecretLimitAssumption
    <2> QED
      BY <1>1, <2>1 DEF Init, PromptInit, PromptInv, QueuedOnce
  <1>4. ASSUME NEW r \in Requests PROVE RequestInv(r)
    BY <1>1 DEF Init, RequestInv, Queued, Untouched, Alive, Carried
  <1> QED
    BY <1>2, <1>3, <1>4 DEF IInv

LEMMA StepInv == IInv /\ [Next]_vars => IInv'
  <1> SUFFICES ASSUME IInv, [Next]_vars PROVE IInv'
    OBVIOUS
  <1>1. CASE AgentStep
    BY <1>1, KeepsRegister, KeepsRegisterFails, KeepsNoIdentityOffered,
       KeepsInitiateAuthentication, KeepsInitiateFails, KeepsReturnFromIdle, KeepsCancelUnknown,
       KeepsCancelUnheard, KeepsOnAuthCancelled, KeepsOnSessionShowInfo, KeepsSessionEnds,
       KeepsOnSessionRequest, KeepsPromptUnavailable, KeepsPromptAnswered, KeepsPromptDismissed
       DEF AgentStep
  <1>2. CASE Environment
    BY <1>2, KeepsRestart, KeepsPromptMoves, KeepsHelperAsks, KeepsHelperSays,
       KeepsHelperChecks, KeepsHelperDies, KeepsCancelAuthentication, KeepsBeginAuthentication
       DEF Environment, HelperStep
  <1>3. CASE UNCHANGED vars
    <2> USE <1>3 DEF vars, promptVars, agentVars, glibVars, helperVars, busVars
    <2>1. TypeOK' /\ PromptInv' /\ QueuedOnce'
      <3>1. TypeOK'
        BY DEF IInv, TypeOK, PromptTypeOK
      <3>2. PromptInv' /\ QueuedOnce'
        BY DEF IInv, PromptInv, QueuedOnce
      <3> QED
        BY <3>1, <3>2
    <2>2. ASSUME NEW q \in Requests PROVE RequestInv(q)'
      BY DEF IInv, RequestInv, Queued, Untouched, Alive, Carried
    <2> QED
      BY <2>1, <2>2 DEF IInv
  <1> QED
    BY <1>1, <1>2, <1>3 DEF Next

LEMMA Invariant == Spec => []IInv
  BY InitInv, StepInv, PTL DEF Spec

----------------------------------------------------------------------------
(* The theorems *)

(* The agent, its helpers and the queue keep their types, whatever is       *)
(* typed: in particular what a helper is given has no newline in it         *)
(* (prompt_for_response_wayland).                                           *)
THEOREM AgentTypeCorrect == Spec => []TypeOK
  <1>1. IInv => TypeOK
    BY DEF IInv
  <1> QED
    BY Invariant, <1>1, PTL

(* A request is granted only on the password of the agent's own user or,    *)
(* when that user is not offered, of the first identity that is             *)
(* (choose_identity, on_session_completed).                                 *)
THEOREM GrantsAlwaysEarned == Spec => []GrantsAreEarned
  <1>1. IInv => GrantsAreEarned
    BY DEF IInv, RequestInv, GrantsAreEarned
  <1> QED
    BY Invariant, <1>1, PTL

(* No request is forgotten, on any path through the agent, and a helper     *)
(* that waits for a response has its prompt on the screen.                  *)
THEOREM RequestsAlwaysCarried == Spec => []EveryRequestIsCarried
  <1>1. IInv => EveryRequestIsCarried
    BY DEF IInv, TypeOK, RequestInv, EveryRequestIsCarried
  <1> QED
    BY Invariant, <1>1, PTL

(* A helper is given exactly the text that was submitted in the prompt that *)
(* was opened for it (prompt_for_response_wayland, on_session_request).     *)
THEOREM AnswersAlwaysWhole == Spec => AnswersArriveWhole
  <1>1. ASSUME IInv, [Next]_vars, given' # given
        PROVE  decision = "submit" /\ given' = [given EXCEPT ![current] = secret]
    <2>1. PromptAnswered
      <3>1. CASE AgentStep
        BY <1>1, <3>1 DEF AgentStep, Register, RegisterFails, NoIdentityOffered,
           initiate_authentication, InitiateFails, ReturnFromIdle, CancelUnknown, CancelUnheard,
           on_auth_cancelled, on_session_show_info, SessionEnds, on_session_request,
           PromptUnavailable, PromptDismissed, Receive, helperVars
      <3>2. CASE Environment
        BY <1>1, <3>2 DEF Environment, Restart, PromptMoves, HelperStep, HelperAsks,
           HelperSays,
           HelperChecks, HelperDies, CancelAuthentication, BeginAuthentication, BusStep, helperVars
      <3>3. CASE UNCHANGED vars
        BY <1>1, <3>3 DEF vars, helperVars
      <3> QED
        BY <1>1, <3>1, <3>2, <3>3 DEF Next
    <2>2. Response = secret /\ decision = "submit"
      BY <1>1, <2>1, ResponseIsSecret DEF IInv, TypeOK, PromptTypeOK, PromptInv,
         PromptAnswered
    <2> QED
      BY <1>1, <2>1, <2>2 DEF PromptAnswered
  <1>2. IInv /\ [Next]_vars
        => [given' # given => /\ decision = "submit"
                              /\ given' = [given EXCEPT ![current] = secret]]_vars
    BY <1>1
  <1> QED
    BY Invariant, <1>2, PTL DEF Spec, AnswersArriveWhole

----------------------------------------------------------------------------
(* Each task returns once, and no callback comes too late *)

(* The result of a task that has returned is on its way or has arrived, and *)
(* the listener waits for it until then.                                    *)
OneResult(r) ==
    /\ result[r] # "none" <=> reply[r] # "none" \/ r \in idle
    /\ r \in pending \/ r \in idle => reply[r] = "none"

answerVars == <<result, reply, idle, pending>>

(* Only these steps make a task, return it or deliver what it returned. *)
LEMMA AnswerSteps ==
    ASSUME [Next]_vars
    PROVE  \/ UNCHANGED answerVars
           \/ \E r \in Requests : \/ NoIdentityOffered(r) \/ InitiateFails(r)
                                  \/ initiate_authentication(r)
                                  \/ ReturnFromIdle(r) \/ on_auth_cancelled(r)
                                  \/ SessionEnds(r) \/ PromptUnavailable(r)
           \/ PromptDismissed
  <1>1. CASE AgentStep
    <2>1. CASE Register \/ RegisterFails \/ PromptAnswered
      BY <2>1 DEF Register, RegisterFails, PromptAnswered, Reap, glibVars, busVars, answerVars
    <2>2. ASSUME NEW r \in Requests,
                 \/ CancelUnknown(r) \/ CancelUnheard(r)
                 \/ on_session_show_info(r) \/ on_session_request(r)
          PROVE  UNCHANGED answerVars
      BY <2>2 DEF CancelUnknown, CancelUnheard, on_session_show_info, on_session_request,
         glibVars, busVars, answerVars
    <2> QED
      BY <1>1, <2>1, <2>2 DEF AgentStep
  <1>2. CASE Environment
    BY <1>2 DEF Environment, Restart, PromptMoves, HelperStep, HelperAsks, HelperSays,
       HelperChecks, HelperDies, HelperIs, CancelAuthentication, BeginAuthentication, BusStep,
       glibVars, busVars, answerVars
  <1>3. CASE UNCHANGED vars
    BY <1>3 DEF vars, glibVars, busVars, answerVars
  <1> QED
    BY <1>1, <1>2, <1>3 DEF Next

(* What a step does to the answer of r, which it gives for the first time. *)
LEMMA ReturnedOnce ==
    ASSUME IInv, \A q \in Requests : OneResult(q), [Next]_vars, NEW r \in Requests
    PROVE  /\ result'[r] # result[r] => result[r] = "none"
           /\ reply'[r] # reply[r] => reply[r] = "none"
           /\ OneResult(r)'
  <1>1. /\ TypeOK
        /\ QueuedOnce
        /\ \A q \in Requests : RequestInv(q) /\ OneResult(q)
    BY DEF IInv
  <1>2. /\ result \in [Requests -> Results]
        /\ reply \in [Requests -> Results]
        /\ idle \in SUBSET Requests /\ pending \in SUBSET Requests
    BY <1>1 DEF TypeOK
  <1>3. CASE UNCHANGED answerVars
    BY <1>1, <1>3 DEF answerVars, OneResult
  <1>4. ASSUME NEW q \in Requests,
               NoIdentityOffered(q) \/ InitiateFails(q) \/ initiate_authentication(q)
        PROVE  OneResult(r)' /\ reply' = reply /\ (result'[r] # result[r] => result[r] = "none")
    <2>1. Queued(q)
      <3>1. inbox # <<>> /\ Head(inbox) = [kind |-> "begin", req |-> q] /\ inbox' = Tail(inbox)
        BY <1>4 DEF NoIdentityOffered, InitiateFails, initiate_authentication, Receive
      <3> QED
        BY <1>1, <3>1, QueueReceives DEF TypeOK
    <2>2. reply[q] = "none" /\ q \notin idle /\ result[q] = "none"
      BY <1>1, <2>1, NotBegun DEF OneResult
    <2>3. reply' = reply /\ pending' = pending \cup {q}
      BY <1>4 DEF NoIdentityOffered, InitiateFails, initiate_authentication
    <2>4. \/ result' = [result EXCEPT ![q] = "denied"] /\ idle' = idle \cup {q}
          \/ UNCHANGED <<result, idle>>
      BY <1>4 DEF NoIdentityOffered, InitiateFails, initiate_authentication
    <2> QED
      BY <1>1, <1>2, <2>2, <2>3, <2>4 DEF OneResult
  <1>5. ASSUME NEW q \in Requests, reply[q] = "none", result[q] = "none",
               NEW res \in {"granted", "denied"}, NEW rep \in {"granted", "denied"},
               result' = [result EXCEPT ![q] = res], reply' = [reply EXCEPT ![q] = rep],
               pending' = pending \ {q}, idle' = idle
        PROVE  /\ OneResult(r)'
               /\ result'[r] # result[r] => result[r] = "none"
               /\ reply'[r] # reply[r] => reply[r] = "none"
    BY <1>1, <1>2, <1>5 DEF OneResult
  <1>6. ASSUME NEW q \in Requests,
               SessionEnds(q) \/ PromptUnavailable(q) \/ (q = current /\ PromptDismissed)
        PROVE  /\ OneResult(r)'
               /\ result'[r] # result[r] => result[r] = "none"
               /\ reply'[r] # reply[r] => reply[r] = "none"
    <2>1. Alive(q)
      BY <1>1, <1>6 DEF SessionEnds, PromptUnavailable, PromptDismissed, Reap, Line, Alive,
         RequestInv
    <2>2. reply[q] = "none" /\ result[q] = "none"
      BY <1>1, <2>1, InSession DEF Alive, OneResult
    <2>3. PICK res \in {"granted", "denied"} : TaskReturns(q, res)
      BY <1>6 DEF SessionEnds, PromptUnavailable, PromptDismissed, on_session_completed
    <2>4. Propagated(q, res) \in {"granted", "denied"}
      BY DEF Propagated
    <2> QED
      BY <1>5, <2>2, <2>3, <2>4 DEF TaskReturns
  <1>7. ASSUME NEW q \in Requests, on_auth_cancelled(q)
        PROVE  /\ OneResult(r)'
               /\ result'[r] # result[r] => result[r] = "none"
               /\ reply'[r] # reply[r] => reply[r] = "none"
    <2>1. q \in pending /\ q \in connected
      BY <1>7 DEF on_auth_cancelled
    <2>2. reply[q] = "none" /\ q \notin idle
      BY <1>1, <1>7, <2>1 DEF RequestInv, on_auth_cancelled, Receive
    <2>3. result[q] = "none"
      BY <1>1, <2>2 DEF OneResult
    <2>4. CASE idle' = idle
      BY <1>5, <1>7, <2>2, <2>3, <2>4 DEF on_auth_cancelled
    <2>5. CASE UNCHANGED <<reply, pending>>
      BY <1>1, <1>2, <1>7, <2>2, <2>3, <2>5 DEF on_auth_cancelled, OneResult
    <2> QED
      BY <1>7, <2>4, <2>5 DEF on_auth_cancelled
  <1>8. ASSUME NEW q \in Requests, ReturnFromIdle(q)
        PROVE  OneResult(r)' /\ result' = result /\ (reply'[r] # reply[r] => reply[r] = "none")
    <2>1. result[q] = "denied" /\ reply[q] = "none" /\ q \in idle
      BY <1>1, <1>8 DEF ReturnFromIdle, RequestInv, OneResult
    <2>2. /\ result' = result
          /\ reply' = [reply EXCEPT ![q] = "denied"]
          /\ idle' = idle \ {q} /\ pending' = pending \ {q}
      BY <1>8, <2>1 DEF ReturnFromIdle, Propagated
    <2> QED
      BY <1>1, <1>2, <2>1, <2>2 DEF OneResult
  <1>9. PromptDismissed => current \in Requests
    BY DEF IInv, PromptInv, PromptDismissed, Reap
  <1> QED
    BY <1>3, <1>4, <1>6, <1>7, <1>8, <1>9, AnswerSteps

LEMMA ResultAlways == Spec => [](\A r \in Requests : OneResult(r))
  <1>1. Init => \A r \in Requests : OneResult(r)
    BY DEF Init, OneResult
  <1>2. IInv /\ (\A r \in Requests : OneResult(r)) /\ [Next]_vars
          => (\A r \in Requests : OneResult(r))'
    BY ReturnedOnce
  <1> QED
    BY Invariant, <1>1, <1>2, PTL DEF Spec

(* polkitd has one answer from each request, and the agent's tasks return   *)
(* one result: what is answered is never answered again, although a session *)
(* may be ended by the helper, by the prompt, by a cancellation and by the  *)
(* call that was to start it (on_session_completed, on_session_request,     *)
(* on_auth_cancelled, zero_polkit_agent_initiate_authentication).           *)
SettledOnce ==
    [][\A r \in Requests : /\ result'[r] # result[r] => result[r] = "none"
                           /\ reply'[r] # reply[r] => reply[r] = "none"]_vars

(* SettledOnce holds of every behaviour: a task returns once (by              *)
(* g_task_return_boolean or g_task_return_new_error), whichever end is first. *)
THEOREM TasksReturnOnce == Spec => SettledOnce
  <1>1. IInv /\ (\A r \in Requests : OneResult(r)) /\ [Next]_vars
          => [\A r \in Requests : /\ result'[r] # result[r] => result[r] = "none"
                                  /\ reply'[r] # reply[r] => reply[r] = "none"]_vars
    BY ReturnedOnce
  <1> QED
    BY Invariant, ResultAlways, <1>1, PTL DEF Spec, SettledOnce

(* CallbacksFindLive holds of every behaviour, for any prompt that keeps      *)
(* PromptContract.                                                            *)
THEOREM CallbacksAlwaysFindLive == Spec => CallbacksFindLive
  <1>1. ASSUME IInv, \A q \in Requests : OneResult(q), NEW r \in Requests, CalledWith(r)
        PROVE  auth[r] = "live" /\ result[r] = "none"
    <2>1. TypeOK /\ RequestInv(r) /\ OneResult(r)
      BY <1>1 DEF IInv
    <2>2. CASE on_auth_cancelled(r)
      <3>1. r \in pending /\ r \in connected
        BY <2>2 DEF on_auth_cancelled
      <3>2. reply[r] = "none" /\ r \notin idle /\ r \in sent /\ ~Queued(r)
        BY <2>1, <2>2, <3>1 DEF RequestInv, OneResult, on_auth_cancelled, Receive
      <3> QED
        BY <2>1, <3>2 DEF RequestInv, OneResult, Carried
    <2>3. CASE ~on_auth_cancelled(r)
      <3>1. Alive(r)
        BY <1>1, <2>1, <2>3 DEF CalledWith, on_session_show_info, SessionEnds, PromptUnavailable,
           on_session_request, PromptAnswered, PromptDismissed, Reap, Line, Alive, RequestInv
      <3> QED
        BY <2>1, <3>1, InSession DEF Alive, OneResult
    <2> QED
      BY <2>2, <2>3
  <1>2. IInv /\ (\A r \in Requests : OneResult(r))
          => [\A r \in Requests : CalledWith(r) => auth[r] = "live" /\ result[r] = "none"]_vars
    BY <1>1
  <1> QED
    BY Invariant, ResultAlways, <1>2, PTL DEF CallbacksFindLive

=============================================================================
