SPECIFICATION Spec
CONSTANTS
    Conns = {c1, c2}
    Commands <- LiveCommands
    SplitReads = FALSE
    AcceptFails = FALSE
    HasSeat = TRUE
    SockCap = 1
    MaxWindows = 1
    MaxOps = 2
    MaxCommands = 1
    Faults = {"hang-up"}
PROPERTY
    SubscriptionLasts
