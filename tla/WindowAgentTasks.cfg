SPECIFICATION Spec
CONSTANTS
    Conns = {c1}
    Commands <- TableCommands
    SplitReads = TRUE
    AcceptFails = TRUE
    HasSeat = TRUE
    SockCap = 1
    MaxWindows = 2
    MaxOps = 3
    MaxCommands = 2
    Faults = {}
INVARIANTS
    IdsNameOneToplevel
    ActiveCommandsSpareShell
    QuietTableIsTrue
