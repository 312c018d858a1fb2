SPECIFICATION Spec
CONSTANTS
    Ends <- MCEnds
    MaxRuns = 2
    MaxConns = 3
    MaxRetries = 1
    MaxTurns = 2
INVARIANTS
    ShownEndIsTrue
    ServedIsRegistered
    OneSocket
PROPERTY NobodyPassedOver
CHECK_DEADLOCK FALSE
