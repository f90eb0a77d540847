SPECIFICATION SpecApi
CONSTANTS
    Jobs = {1}
    w1 = w1
    shared = shared
    Workers = {w1}
    Owners = {shared}
    Owner <- SharedOwner
    NoOwner = NoOwner
    NoLease = NoLease
    Alive = {w1}
    Corrupt = {}
    MaxAttempts = 1
    LeaseSeconds = 1
    MaxLag = 0
    MaxResults = 1
    MaxRecorded = 1
    SkipLocked = FALSE
    a1 = a1
    a2 = a2
    ann = ann
    Requests = {a1, a2}
    Principal <- PrincipalOf
    PerPrincipal <- PerPrincipalLimits
    Total <- TotalLimits
CHECK_DEADLOCK FALSE
INVARIANTS
    SlotsAccounted
    StreamFaithful
    CancelHonoured
    ResultsBounded
PROPERTIES
    RequestsEnd
