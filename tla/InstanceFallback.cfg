SPECIFICATION Spec
CONSTANTS
    NR = 2
    NP = 1
    Hint <- DualBackup
    Addr = {a1, a2}
    Unknown = Unknown
    Interval = 1
    MaxBackoff = 1
    AttemptTimeout = 0
    HookTimeout = 0
    FailureCap = 1
    MaxRestarts = 1
    Settles = TRUE
    FlakyR = {}
    FlakyP = {}
SYMMETRY AddrSymmetry
INVARIANTS
    TypeOK
    BeliefIsTrue
    FailureIsConsistent
    FallbackExhausted
PROPERTIES
    KeepsRecords
