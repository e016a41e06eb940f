SPECIFICATION FairSpec
CONSTANTS
    Chars <- OneLetter
    SecretLimit = 2
    ShownLimit = 1
    Faults = {"init", "close", "compositor-exit", "unplug", "killed"}
    MaxKeys = 3
INVARIANTS
    TypeOK
    FieldShowsSecret
PROPERTIES
    SparesHeldBuffers
    KeepsContract
    PromptEnds
CHECK_DEADLOCK FALSE
