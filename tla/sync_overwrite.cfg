CONSTANTS
    c1 = c1
    c2 = c2
    w1 = w1
    w2 = w2
    None = None
    Contents <- TwoContents
    FileContent = c1
    Workers <- TwoWorkers
    SourceTypes <- UrlOnly
    MaxRetries = 1
    MaxVersion = 1
    MaxCopies = 2
    MaxFaults = 0
    LostAcks = FALSE
    LatePuts = FALSE
SPECIFICATION Spec
INVARIANTS
    RawMatchesDocument
