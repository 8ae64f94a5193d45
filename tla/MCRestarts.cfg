SPECIFICATION FairSpec
CONSTANTS
    Budget = 5
    MinSlice = 2
    Patience = 4
    MaxRank = 4
    MostSheets = 3
    Sheets <- CrossedSheets
    MaxTime = 6
    Schedules <- SomeSchedules
INVARIANTS
    InternalOnlyAfterPanic
    SlicesContained
    TimeoutReasonHonest
PROPERTIES
    ImplementsAnytime
    RunAnswers
