SPECIFICATION Spec
CONSTANTS
    a = a
    b = b
    c = c
    d = d
    h1 = h1
    h2 = h2
    Events = {a, b, c}
    LineLen <- ShortLines
    Refused = {}
    GapLen = 1
    MaxRecords = 5
    MaxBytes = 100
    ReservedRecords = 2
    ReservedBytes = 8
    GapMargin = 1
    Faults = {"partial"}
    MaxFaults = 1
    MaxCrashes = 1
    MaxDropped = 2
    Handlers = {h1, h2}
    Batches <- Separate
    Malformed = Malformed
SYMMETRY HandlerSymmetry
CHECK_DEADLOCK FALSE
INVARIANTS
    AckedDurable
