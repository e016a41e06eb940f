SPECIFICATION FairSpec
CONSTANTS
    Conns = {c1}
    Commands <- LiveCommands
    SplitReads = FALSE
    AcceptFails = FALSE
    HasSeat = TRUE
    SockCap = 1
    MaxWindows = 1
    MaxOps = 2
    MaxCommands = 2
    Faults = {"signal", "finished", "compositor-exit", "poll-error", "hang-up"}
CHECK_DEADLOCK FALSE
PROPERTIES
    SubscribersConverge
    EveryCommandSettles
    ShutdownCompletes
