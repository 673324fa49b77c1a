CONSTANTS
    e1 = e1
    e2 = e2
    bad = bad
    p1 = p1
    p2 = p2
    Events <- MCEvents
    Malformed <- MCMalformed
    Publishers <- MCPublishers
    BatchSize = 2
    MaxCrashes = 1
SPECIFICATION Spec
INVARIANTS
    PublisherInv
PROPERTIES
    ImplementsDelivery
    EventuallySettled
