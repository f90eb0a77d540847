SPECIFICATION Spec
CONSTANTS
    a = a
    b = b
    c = c
    d = d
    h1 = h1
    h2 = h2
    Events = {a, b, c, d}
    LineLen <- OneLongLine
    Refused = {d}
    GapLen = 1
    MaxRecords = 5
    MaxBytes = 12
    ReservedRecords = 2
    ReservedBytes = 8
    GapMargin = 1
    Faults = {"clean"}
    MaxFaults = 1
    MaxCrashes = 1
    MaxDropped = 2
    Handlers = {h1, h2}
    Batches <- Overlapping
    Malformed = Malformed
SYMMETRY HandlerSymmetry
CHECK_DEADLOCK FALSE
INVARIANTS
    SpooledOnce
    SequencesOrdered
    AckedDurable
    LossVisible
