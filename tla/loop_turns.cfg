SPECIFICATION FairSpec
CONSTANTS
    MaxIterations = 10
    MaxTokens = 3
    RecursionLimit = 25
    MaxCalls = 2
    MaxUsage = 2
    MaxEstimate = 2
    Chunks = 2
    MaxResets = 1
CHECK_DEADLOCK FALSE
INVARIANTS WithinRecursionLimit SpendBounded
PROPERTIES CancelStopsTurn TurnEnds
