SPECIFICATION FairSpec
CONSTANTS
    a1 = a1
    a2 = a2
    a3 = a3
    Unknown = Unknown
    Addr <- AddrDef
    Wanted <- WantedDef
    Found <- FoundDef
    Kinds <- KindsDef
    MaxEdits = 1
INVARIANTS
    SuccessIsPublished
    FailsForAReason
PROPERTIES
    OthersSurvive
    NeverMultiplies
    HealsOnceCalm
    KeepsContract
