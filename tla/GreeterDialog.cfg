SPECIFICATION Spec
CONSTANTS
    Names <- AllNames
    LongNames <- DanIsLong
    PasswdFiles <- Editions
    Faults = {"fork", "denied", "pam", "systemd-run"}
    Keys = {"Escape", "Tab", "Up", "Return", "text"}
    kMaxPassword = 1
    MaxKeys = 4
    MaxEdits = 1
INVARIANTS
    TypeOK
    MenuShowsSelection
    ScreenCurrent
    HandoffMatchesSession
PROPERTIES
    PasswordForSelectedUser
    NeverDrawsHeldBuffer
CHECK_DEADLOCK FALSE
