SPECIFICATION Spec
CONSTANTS
    Name <- Plain
    Interval <- FastSlow
    MinStaleness = 3
    Old = 5
INVARIANTS
    StuckIsReported
    RecentIsHealthy
