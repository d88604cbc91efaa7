SPECIFICATION Spec
CONSTANTS
    MinInterval = 1
    DefaultInterval = 5
    None = None
    References <- Refs
    Environments <- Envs
    Builds <- Full
    Documents <- RetrieverDocs
INVARIANTS
    HintIsGiven
