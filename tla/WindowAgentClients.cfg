SPECIFICATION Spec
CONSTANTS
    Conns = {c1, c2}
    Commands <- ClientCommands
    SplitReads = FALSE
    AcceptFails = TRUE
    HasSeat = TRUE
    SockCap = 1
    MaxWindows = 1
    MaxOps = 2
    MaxCommands = 1
    Faults = {"hang-up"}
SYMMETRY ConnSymmetry
INVARIANTS
    TypeOK
    SubscribersCurrent
    OneAnswerPerCommand
PROPERTIES
    KeepsService
