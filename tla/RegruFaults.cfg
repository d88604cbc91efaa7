SPECIFICATION FairSpec
CONSTANTS
    Addr = {a1, a2, a3}
    Unknown = Unknown
    MaxFound = 3
    AddressChanges = TRUE
    Settles = TRUE
INVARIANTS
    SuccessIsExact
PROPERTIES
    StaysResolvable
    FailedRemovalHeals
