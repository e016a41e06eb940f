SPECIFICATION FairSpec
CONSTANTS
    Timeouts = {"30s", "2min", "never"}
    Default = "2min"
    Installed = TRUE
    Faults = {"crash", "hang"}
    MaxEdits = 2
    MaxFailures = 2
INVARIANTS
    TypeOK
    OffHasWaker
    ExitLeavesOutputOn
PROPERTIES
    NeverMeansOn
    SettingApplied
CHECK_DEADLOCK FALSE
