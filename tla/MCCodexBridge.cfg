SPECIFICATION Spec
CONSTANTS
    j1 = j1
    j2 = j2
    Jobs = {j1, j2}
    MaxPending = 1
    MaxCrashes = 0
    Faults = {}
SYMMETRY Symmetry
INVARIANT QueueBound
CHECK_DEADLOCK FALSE
