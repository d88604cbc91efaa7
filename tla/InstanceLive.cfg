SPECIFICATION FairSpec
CONSTANTS
    NR = 1
    NP = 2
    Hint <- V4Only
    Addr = {a1, a2}
    Unknown = Unknown
    Interval = 1
    MaxBackoff = 1
    AttemptTimeout = 1
    HookTimeout = 1
    FailureCap = 1
    MaxRestarts = 0
    Settles = TRUE
    FlakyR = {}
    FlakyP = {1}
PROPERTIES
    Convergence
    CancelStops
    WritesCease
    CyclesContinue
