SPECIFICATION Spec
CONSTANTS
    MinInterval = 1
    DefaultInterval = 5
    None = None
    References <- Refs
    Environments <- Envs
    Builds <- FullAndLight
    Documents <- AllDocs
INVARIANTS
    LoadedIsRunnable
    HooksReachWhatTheyName
    UnusedNeedsNothing
    LayersAreKept
    FormsAgree
    AnswersFitTheHint
    SummaryTellsApart
