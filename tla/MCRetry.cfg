SPECIFICATION Spec
CONSTANTS
    Responses <- SomeResponses
    Modes = {"guillotine", "nested", "vacuum_table"}
    RestartsAsked = {0, 4, 15}
    DefaultRestarts = 10
    Attempts = {1, 2, 4}
INVARIANTS
    NeverWorse
    SearchesDiffer
    TriesEnough
