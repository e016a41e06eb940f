SPECIFICATION FairSpec
CONSTANTS
    MaxRuns = 2
    OtherActions = {"tasks", "hide-tasks", "focus-shell"}
    Faults = {"no-socket", "timeout", "no-session", "crash", "overrun"}
    LongPress = 2
    QueueSize = 3
    MaxCrashes = 1
INVARIANTS
    TypeOK
    OneRequestPerPress
    ShortPressNeverCloses
    LongPressNeverMinimizes
    SuccessShowsShell
PROPERTIES
    PolicyReturns
CHECK_DEADLOCK FALSE
