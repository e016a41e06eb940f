---------------------------- MODULE GreeterAuth ----------------------------
(***************************************************************************)
(* zero-greeter-auth (src/greeter/zero-greeter-auth.cpp): the set-uid      *)
(* helper that the greeter forks for each login attempt.  It reads one     *)
(* request from its standard input until end of file, checks the account,  *)
(* asks PAM, starts the user's session with systemd-run and reports by a   *)
(* line on standard output and an exit status.                             *)
(*                                                                         *)
(* PAM, systemd-run and the account database are not in the repository:    *)
(* they may answer in any way the code tells apart.                        *)
(***************************************************************************)
EXTENDS Integers, Sequences

CONSTANTS
    Names,          \* account names
    LongNames,      \* those of more than 64 bytes
    PasswdFiles,    \* contents the account database may have
    Faults          \* failures this instance includes, of FaultKinds

FaultKinds == {"exec", "denied", "killed", "pam", "systemd-run", "fork",
               "compositor-exit", "close", "unplug"}

(* Of an account's shell, shell_is_login_capable sees whether it is empty   *)
(* and whether it contains "nologin" or "false".                            *)
Shells == {"", "login", "nologin", "false"}

(* A passwd entry; home is "home" for a directory under /home/. *)
Entry == [name : Names, uid : Nat, home : {"home", "other"}, shell : Shells]

ASSUME NamesAssumption  == LongNames \subseteq Names /\ "" \notin Names
ASSUME PasswdAssumption == PasswdFiles # {} /\ PasswdFiles \subseteq Seq(Entry)
ASSUME FaultsAssumption == Faults \subseteq FaultKinds

VARIABLES
    passwd,     \* the account database
    helper,     \* where the helper process is in main()
    stdin,      \* the request pipe: what was written, and whether a write end is open
    account,    \* pw->pw_name of the entry found for the request
    stdout,     \* the line the helper has written
    status,     \* its exit status, or Signalled
    sessions    \* accounts whose session unit was started, in order

authVars == <<passwd, helper, stdin, account, stdout, status, sessions>>

----------------------------------------------------------------------------
(* A character of the password is told apart only by the account for which *)
(* it was typed: the name that was selected at the time.                   *)
NoName   == ""
Password == Seq(Names \cup {NoName})
Request  == [user : Names, password : Password]

Responses == {"", "HELPER DENIED", "USER INVALID", "AUTH FAILED", "SESSION FAILED", "OK"}

kAuthFailed    == 10
kSessionFailed == 20
kHelperFailed  == 30
ExecFailed     == 127
Signalled      == -1

AuthTypeOK ==
    /\ passwd \in PasswdFiles
    /\ helper \in {"none", "main", "read", "pam", "start", "started", "dead"}
    /\ stdin \in [data : Seq(Request), open : BOOLEAN]
    /\ account \in Names \cup {NoName}
    /\ helper \in {"pam", "start", "started"} => account \in Names
    /\ stdout \in Responses
    /\ status \in {0, kAuthFailed, kSessionFailed, kHelperFailed, ExecFailed, Signalled}
    /\ sessions \in Seq(Names)

----------------------------------------------------------------------------
shell_is_login_capable(shell) == shell \notin {"nologin", "false"}

user_is_login_capable(pw) ==
    /\ pw.uid >= 1000
    /\ pw.uid < 60000
    /\ pw.home = "home"
    /\ shell_is_login_capable(pw.shell)

(* Entries that getpwnam may return for a name: the first match. *)
getpwnam(name) ==
    {passwd[k] : k \in {n \in DOMAIN passwd :
                          /\ passwd[n].name = name
                          /\ \A m \in DOMAIN passwd : passwd[m].name = name => n <= m}}

----------------------------------------------------------------------------
(* main().  A step is the code between two calls in which other processes  *)
(* may act or which may fail.                                              *)

ExitWith(code, line) ==
    /\ helper' = "dead"
    /\ status' = code
    /\ stdout' = line

Quiet == UNCHANGED <<stdout, status>>

(* execl fails in the child: _exit(127). *)
ExecFails ==
    /\ "exec" \in Faults
    /\ helper = "main"
    /\ ExitWith(ExecFailed, "")
    /\ UNCHANGED <<passwd, stdin, account, sessions>>

(* caller_is_allowed() or setuid() says no, before anything is read. *)
CallerDenied ==
    /\ "denied" \in Faults
    /\ helper = "main"
    /\ ExitWith(kHelperFailed, "HELPER DENIED")
    /\ UNCHANGED <<passwd, stdin, account, sessions>>

CallerAllowed ==
    /\ helper = "main"
    /\ helper' = "read"
    /\ Quiet
    /\ UNCHANGED <<passwd, stdin, account, sessions>>

(* read() returns 0 only when no write end of the pipe is open. *)
AtEof == helper = "read" /\ ~stdin.open

(* No line, an empty name or one that is too long. *)
RequestDenied ==
    /\ AtEof
    /\ \/ stdin.data = <<>>
       \/ stdin.data # <<>> /\ Head(stdin.data).user \in LongNames
    /\ ExitWith(kHelperFailed, "HELPER DENIED")
    /\ UNCHANGED <<passwd, stdin, account, sessions>>

RequestRead ==
    /\ AtEof
    /\ stdin.data # <<>>
    /\ Head(stdin.data).user \notin LongNames

(* The account has gone, or is no longer one that may log in. *)
UserInvalid ==
    /\ RequestRead
    /\ \A pw \in getpwnam(Head(stdin.data).user) : ~user_is_login_capable(pw)
    /\ ExitWith(kAuthFailed, "USER INVALID")
    /\ UNCHANGED <<passwd, stdin, account, sessions>>

UserValid ==
    /\ RequestRead
    /\ \E pw \in getpwnam(Head(stdin.data).user) :
          user_is_login_capable(pw) /\ account' = pw.name
    /\ helper' = "pam"
    /\ Quiet
    /\ UNCHANGED <<passwd, stdin, sessions>>

(* authenticate_user(): pam_start, pam_authenticate or pam_acct_mgmt fails. *)
AuthenticationFails ==
    /\ "pam" \in Faults
    /\ helper = "pam"
    /\ ExitWith(kAuthFailed, "AUTH FAILED")
    /\ UNCHANGED <<passwd, stdin, account, sessions>>

AuthenticationSucceeds ==
    /\ helper = "pam"
    /\ helper' = "start"
    /\ Quiet
    /\ UNCHANGED <<passwd, stdin, account, sessions>>

SessionFails ==
    /\ "systemd-run" \in Faults
    /\ helper = "start"
    /\ ExitWith(kSessionFailed, "SESSION FAILED")
    /\ UNCHANGED <<passwd, stdin, account, sessions>>

(* systemd-run has created the unit; the helper still waits for it. *)
start_user_session ==
    /\ helper = "start"
    /\ helper' = "started"
    /\ sessions' = Append(sessions, account)
    /\ Quiet
    /\ UNCHANGED <<passwd, stdin, account>>

ReportOk ==
    /\ helper = "started"
    /\ ExitWith(0, "OK")
    /\ UNCHANGED <<passwd, stdin, account, sessions>>

(* A signal ends the helper wherever it is. *)
HelperKilled ==
    /\ "killed" \in Faults
    /\ helper \notin {"none", "dead"}
    /\ ExitWith(Signalled, "")
    /\ UNCHANGED <<passwd, stdin, account, sessions>>

(* What the helper does of its own accord. *)
HelperStep ==
    \/ ExecFails \/ CallerDenied \/ CallerAllowed
    \/ RequestDenied \/ UserInvalid \/ UserValid
    \/ AuthenticationFails \/ AuthenticationSucceeds
    \/ SessionFails \/ start_user_session \/ ReportOk

AuthInit ==
    /\ passwd \in PasswdFiles
    /\ helper = "none"
    /\ stdin = [data |-> <<>>, open |-> FALSE]
    /\ account = NoName
    /\ stdout = ""
    /\ status = 0
    /\ sessions = <<>>

=============================================================================
