SPECIFICATION Spec
CONSTANTS
    c1 = c1
    c2 = c2
    c3 = c3
    c4 = c4
    Slots <- ThreeSlots
    MaxConcurrent = 1
    JobKinds <- PostOnly
    MaxJobs = 1
    MaxOrphans = 1
INVARIANTS
    DeepJobsBoundedByPermits
