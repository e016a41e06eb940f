SPECIFICATION Spec
CONSTANTS
    Names <- AllNames
    LongNames <- DanIsLong
    PasswdFiles <- AmyLeaves
    Faults = {}
    Keys = {"Tab", "Down", "Return", "Escape", "text"}
    kMaxPassword = 1
    MaxKeys = 6
    MaxEdits = 1
PROPERTY
    EscClosesWithoutChanging
CHECK_DEADLOCK FALSE
