SPECIFICATION FairSpec
CONSTANTS
    in = in
    a = a
    b = b
    c = c
    d = d
    out = out
    Node <- MCNode
    Input = in
    Output = out
    Layers <- DiamondLayers
    Parents <- DiamondParents
    Retry <- RetryOfA
    Uploads = {a}
    Derived = FALSE
    RerunFrom = in
    Ops = {"pause", "resume", "cancel"}
    MaxCalls = 3
    MaxCrashes = 1
    MaxFaults = 0
INVARIANTS
    TypeOK
    QuietWhenNotRunning
    PausedHasWaiter
    ClientsKnowTheEnd
PROPERTIES
    EventuallyEnds
    ImplementsLifecycle
CHECK_DEADLOCK FALSE
