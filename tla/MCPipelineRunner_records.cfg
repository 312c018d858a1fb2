SPECIFICATION Spec
CONSTANTS
    in = in
    a = a
    b = b
    c = c
    d = d
    out = out
    Node <- MCNode6
    Input = in
    Output = out
    Layers <- TwoLaneLayers
    Parents <- TwoLaneParents
    Retry <- RetryOfA6
    Uploads = {a}
    Derived = TRUE
    RerunFrom = a
    Ops = {"cancel", "delete"}
    MaxCalls = 1
    MaxCrashes = 1
    MaxFaults = 2
INVARIANTS
    InputsComplete
    CompletedMeansAll
    CompletedNodesListed
    ResultBound
    AcceptedHasResult
    InheritedSoundly
CHECK_DEADLOCK FALSE
