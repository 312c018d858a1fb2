SPECIFICATION FairSpec
CONSTANTS
    in = in
    a = a
    b = b
    c = c
    d = d
    out = out
    Node <- MCNode
    Input = in
    Output = out
    Layers <- ChainLayers
    Parents <- ChainParents
    Retry <- NoRetry
    Uploads = {}
    Derived = FALSE
    RerunFrom = in
    Ops = {"pause"}
    MaxCalls = 1
    MaxCrashes = 1
    MaxFaults = 0
PROPERTIES
    PauseIsBounded
CHECK_DEADLOCK FALSE
