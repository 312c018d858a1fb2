SPECIFICATION FairSpec
CONSTANTS
    in = in
    a = a
    b = b
    c = c
    d = d
    out = out
    Node <- MCNode
    Input = in
    Output = out
    Layers <- ChainLayers
    Parents <- ChainParents
    Retry <- NoRetry
    Uploads = {}
    Derived = FALSE
    RerunFrom = in
    Ops = {"pause", "resume", "cancel"}
    MaxCalls = 3
    MaxCrashes = 0
    MaxFaults = 0
PROPERTIES
    CancelStopsRun
CHECK_DEADLOCK FALSE
