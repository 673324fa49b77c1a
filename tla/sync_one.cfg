CONSTANTS
    c1 = c1
    c2 = c2
    w1 = w1
    w2 = w2
    None = None
    Contents <- TwoContents
    FileContent = c1
    Workers <- OneWorker
    SourceTypes <- AllTypes
    MaxRetries = 1
    MaxVersion = 2
    MaxCopies = 1
    MaxFaults = 1
    LostAcks = FALSE
    LatePuts = FALSE
SPECIFICATION Spec
INVARIANTS
    RawMatchesDocument
    FailureIsCurrent
PROPERTIES
    SyncResolves
