SPECIFICATION Spec
CONSTANTS
    Kerf = 2
    MinShift = 1
    MaxPasses = 4
    Tolerance = 1
    Constructed <- BuiltPlans
    Jobs <- WideJobs
INVARIANTS
    PartsDisjoint
