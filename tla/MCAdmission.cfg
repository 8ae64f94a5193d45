SPECIFICATION FairSpec
CONSTANTS
    c1 = c1
    c2 = c2
    c3 = c3
    c4 = c4
    Slots <- FourSlots
    MaxConcurrent = 2
    JobKinds <- AllKinds
    MaxJobs = 1
    MaxOrphans = 1
INVARIANTS
    PermitsConserved
    NoIdlePermit
PROPERTIES
    OverloadedOnlyWhenBusy
    FirstComeFirstServed
    EveryRequestAnswered
