SPECIFICATION FairSpec
CONSTANTS
    j1 = j1
    j2 = j2
    Jobs = {j1}
    MaxPending = 1
    MaxCrashes = 1
    Faults = {"producer", "consumer", "lease"}
INVARIANT RowAndCallerAgree
PROPERTY IsOneShotCall Settled ClaimAnswered
CHECK_DEADLOCK FALSE
