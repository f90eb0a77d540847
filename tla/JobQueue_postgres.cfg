SPECIFICATION FairSpec
CONSTANTS
    Jobs = {1}
    w1 = w1
    w2 = w2
    shared = shared
    Workers = {w1, w2}
    Owners = {shared}
    Owner <- SameOwner
    NoOwner = NoOwner
    NoLease = NoLease
    Alive = {w1}
    Corrupt = {1}
    MaxAttempts = 3
    LeaseSeconds = 2
    MaxLag = 2
    MaxResults = 3
    MaxRecorded = 1
    SkipLocked = TRUE
INVARIANTS
    LeasesFenced
    PublishedOnce
    CancelWins
    FlagsAccurate
PROPERTIES
    NoLeaseStolen
    ImplementsLifecycle
    EveryJobDecided
