CONSTANTS
    c1 = c1
    s1 = s1
    s2 = s2
    s3 = s3
    n1 = n1
    m1 = m1
    r1 = r1
    r2 = r2
    Conns <- MCConns
    Refs <- MCRefs
    Names <- MCNames
    Models <- MCModels
    Upstreams <- MCUpstreams
    Requests <- MCRequests
    LostAcks = TRUE
SYMMETRY MCSymmetry
CONSTRAINT MCBound
SPECIFICATION Spec
INVARIANTS
    SecretsMatchRows
    StatusOfOwnKey
PROPERTIES
    ModelNeedsActiveProvider
