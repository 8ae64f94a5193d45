SPECIFICATION Spec
CONSTANTS
    Responses <- SomeResponses
    Modes = {"guillotine"}
    RestartsAsked = {0}
    DefaultRestarts = 10
    Attempts = {4}
INVARIANTS
    PicksBest
