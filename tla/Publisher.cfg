SPECIFICATION FairSpec
CONSTANTS
    Instances = {i1, i2, i3}
    Dials = {c1, c2, c3}
    Timeout = 1
    DialTime = 2
    CloseTime = 1
    Kinds = {"mqtt", "rabbitmq"}
    None = None
INVARIANTS
    HeldBriefly
    NothingLeaks
    ClosedLast
PROPERTIES
    ShutdownIsClean
