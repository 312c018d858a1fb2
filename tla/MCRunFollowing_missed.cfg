SPECIFICATION FairSpec
CONSTANTS
    Ends <- MCOneRun
    MaxRuns = 1
    MaxConns = 2
    MaxRetries = 1
    MaxTurns = 0
PROPERTY EndIsShown
CHECK_DEADLOCK FALSE
