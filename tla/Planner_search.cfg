SPECIFICATION FairSpec
CONSTANTS
    Candidates <- ThreeCandidates
    MaxLength = 3
    Caps <- CapsConsidered
    Totals <- Tariffs
    NoPlan = NoPlan
CHECK_DEADLOCK FALSE
INVARIANTS
    SearchExact
PROPERTIES
    SearchEnds
