SPECIFICATION FairSpec
CONSTANTS
    MinSlice = 1
    Deadline = 5
    Candidates = 4
    Width = 2
    Depth = 2
    Branches = 2
    Iterations = 3
    MinBaseline = 3
    MinIteration = 2
    MaxStreak = 2
    MaxIterRestarts = 2
    MaxRestarts = 4
    MaxRank = 3
    Score <- CrossedScore
    Overrun = 2
    Requests <- AllSearches
INVARIANTS
    TypeOK
    AnswerHonest
    TelemetryHonest
    BudgetsKept
PROPERTIES
    ImplementsAnytime
    SearchEnds
