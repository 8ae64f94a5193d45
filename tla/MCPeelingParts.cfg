SPECIFICATION Spec
CONSTANTS
    NParts = 4
    AreaOf <- FourParts
    Capacity = 4
    Consolidate = TRUE
    Lns = FALSE
    MaxWindow = 2
    MaxAttempts = 1
INVARIANTS
    PartsPreserved
