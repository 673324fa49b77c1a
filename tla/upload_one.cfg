\* One upload against its whole retry budget; commits are acknowledged.
SPECIFICATION Spec
CONSTANTS
    a = a
    Uploads = {a}
    Size <- TwoBytes
    SourceLimit = 1
    ByteLimit = 2
    ConcurrencyLimit = 1
    MaxAttempts = 3
    LostAcks = FALSE
INVARIANTS
    ReferencedObjectKept
    OrphanStaysCharged
PROPERTIES
    ResolutionIsFinal
    HoldsResolve
