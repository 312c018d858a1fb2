SPECIFICATION Spec
CONSTANTS
    in = in
    a = a
    b = b
    out = out
    stranger = stranger
    MaxEdges = 5
    Templates <- MCTemplates
INVARIANTS
    ValidationVerdict
    PlanRight
CHECK_DEADLOCK FALSE
