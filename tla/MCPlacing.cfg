SPECIFICATION FairSpec
CONSTANTS
    Kerf = 2
    MinShift = 1
    MaxPasses = 4
    Tolerance = 1
    Constructed <- BuiltPlans
    Jobs <- AllJobs
INVARIANTS
    TypeOK
    KerfKept
    ConstructedHolds
    CornerNeverShrinks
    PickHonest
PROPERTIES
    ShiftKeepsApart
    PlacingEnds
