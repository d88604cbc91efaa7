SPECIFICATION HealthSpec
CONSTANTS
    NR = 1
    NP = 1
    Hint <- V4Only
    Addr = {a1}
    Unknown = Unknown
    Interval = 1
    MaxBackoff = 1
    AttemptTimeout = 2
    HookTimeout = 0
    FailureCap = 1
    MaxRestarts = 0
    Settles = FALSE
    FlakyR = {}
    FlakyP = {}
    AgeCap = 10
INVARIANTS
    RunningIsFresh
