SPECIFICATION FairSpec
CONSTANTS
    MinSlice = 80
    MaxStockTypes = 2
    MaxInstances = 5
    Word = 16
    Kerf = 1
    DefaultTimeLimit = 50
    DefaultRestarts = 0
    Responses <- SomeResponses
    Requests <- SomeRequests
    RunBaseline <- Baseline
    RunWidthFirst <- WidthFirst
INVARIANTS
    TypeOK
    SearchInputsRight
    PlanFillsBudget
    PoolChoosesWell
    PoolAccounts
    VacuumHolds
    VacuumNeverWorse
PROPERTIES
    RequestAnswered
