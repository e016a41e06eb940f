--------------------------- MODULE PromptContract ---------------------------
(***************************************************************************)
(* What zero-polkit-agent relies on when it runs zero-polkit-prompt-       *)
(* wayland: a process that collects a line of text from the person and     *)
(* ends in one of two ways.  Exit status 0 means that the last decision    *)
(* was to submit, and the line written is the text as the person left it;  *)
(* any other end means no text.  PolkitPrompt implements this module;      *)
(* PolkitAgent is built on it.                                             *)
(***************************************************************************)
EXTENDS Naturals, Sequences

CONSTANTS
    Chars,          \* characters the person types
    SecretLimit     \* longest text the prompt takes, 128 in the code

ASSUME SecretLimitAssumption == SecretLimit \in Nat

VARIABLES
    prompt,         \* "none", "open", or how it ended: "accepted", "cancelled"
    secret,         \* the text
    decision        \* the last of "submit" and "cancel", "none" before the first

promptVars == <<prompt, secret, decision>>

PromptTypeOK ==
    /\ prompt \in {"none", "open", "accepted", "cancelled"}
    /\ secret \in Seq(Chars)
    /\ decision \in {"none", "submit", "cancel"}

PromptInit == prompt = "none" /\ secret = <<>> /\ decision = "none"

----------------------------------------------------------------------------
Open ==
    /\ prompt = "none"
    /\ prompt' = "open"
    /\ secret' = <<>>
    /\ decision' = "none"

(* The program cannot be executed, or has no display. *)
FailsToOpen ==
    /\ prompt = "none"
    /\ prompt' = "cancelled"
    /\ UNCHANGED <<secret, decision>>

(* Nothing is added to the text after a decision. *)
Type ==
    /\ prompt = "open"
    /\ decision = "none"
    /\ Len(secret) < SecretLimit
    /\ \E c \in Chars : secret' = Append(secret, c)
    /\ UNCHANGED <<prompt, decision>>

(* Keys that were read together with the one that decided are still         *)
(* handled: they may erase, or decide again.                                *)
Erase ==
    /\ prompt = "open"
    /\ secret # <<>>
    /\ secret' = SubSeq(secret, 1, Len(secret) - 1)
    /\ UNCHANGED <<prompt, decision>>

Decide ==
    /\ prompt = "open"
    /\ decision' \in {"submit", "cancel"}
    /\ UNCHANGED <<prompt, secret>>

Finish ==
    /\ prompt = "open"
    /\ decision # "none"
    /\ prompt' = IF decision = "submit" THEN "accepted" ELSE "cancelled"
    /\ secret' = IF decision = "submit" THEN secret ELSE <<>>
    /\ UNCHANGED decision

(* The display is lost, or the process is killed. *)
Abort ==
    /\ prompt = "open"
    /\ prompt' = "cancelled"
    /\ secret' = <<>>
    /\ UNCHANGED decision

PromptStep == Open \/ FailsToOpen \/ Type \/ Erase \/ Decide \/ Finish \/ Abort

(* One run of the program. *)
PromptSpec == PromptInit /\ [][PromptStep]_promptVars

=============================================================================
