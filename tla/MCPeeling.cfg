SPECIFICATION FairSpec
CONSTANTS
    NParts = 5
    AreaOf <- FiveParts
    Capacity = 4
    Consolidate = TRUE
    Lns = TRUE
    MaxWindow = 3
    MaxAttempts = 1
INVARIANTS
    PartsConserved
    AppliedIsMinimal
    WholeRequestKept
PROPERTIES
    PeelingEnds
