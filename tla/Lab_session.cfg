CONSTANTS
    MaxCommands = 3
    MaxReplaced = 1
    MaxRepeat = 2
    RotationAttempts = 2
SPECIFICATION Spec
CHECK_DEADLOCK FALSE
INVARIANTS
    ConfirmedContained
    EvidenceComplete
    LeakFree
PROPERTIES
    ResetRestores
    ForeignUntouched
    CommandsEnd
