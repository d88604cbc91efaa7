SPECIFICATION HealthSpec
CONSTANTS
    NR = 1
    NP = 2
    Hint <- V4Only
    Addr = {a1, a2}
    Unknown = Unknown
    Interval = 3
    MaxBackoff = 4
    AttemptTimeout = 1
    HookTimeout = 0
    FailureCap = 2
    MaxRestarts = 1
    Settles = FALSE
    FlakyR = {}
    FlakyP = {}
    AgeCap = 7
SYMMETRY AddrSymmetry
INVARIANTS
    SuccessMeansPublished
    SubscriberKnows
    ChangesAreAnnounced
    OldIsTrue
    RunningIsFresh
PROPERTIES
    NoAttemptAfterCancel
    QuietShutdown
