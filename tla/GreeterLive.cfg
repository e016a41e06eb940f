SPECIFICATION FairSpec
CONSTANTS
    Names <- AllNames
    LongNames <- DanIsLong
    PasswdFiles <- TwoUsers
    Faults = {"exec", "denied", "killed", "pam", "systemd-run", "fork", "compositor-exit", "close", "unplug"}
    Keys = {"Return", "BackSpace"}
    kMaxPassword = 1
    MaxKeys = 3
    MaxEdits = 0
PROPERTIES
    AttemptEnds
    RepaintHappens
CHECK_DEADLOCK FALSE
