\* One upload; the commit of its source row may go unacknowledged.
SPECIFICATION Spec
CONSTANTS
    a = a
    Uploads = {a}
    Size <- TwoBytes
    SourceLimit = 1
    ByteLimit = 2
    ConcurrencyLimit = 1
    MaxAttempts = 1
    LostAcks = TRUE
INVARIANTS
    ReferencedObjectKept
