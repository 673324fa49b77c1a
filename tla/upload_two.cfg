\* Two uploads and URL sources compete for one tenant's quota; the acknowledgement of any commit may be lost.
SPECIFICATION Spec
CONSTANTS
    a = a
    b = b
    Uploads = {a, b}
    Size <- TwoBytes
    SourceLimit = 2
    ByteLimit = 3
    ConcurrencyLimit = 2
    MaxAttempts = 1
    LostAcks = TRUE
SYMMETRY Symmetry
INVARIANTS
    QuotaNeverOvershot
