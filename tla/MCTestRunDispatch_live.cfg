SPECIFICATION FairSpec
CONSTANTS
    Run = {r1}
    Thread = {t1, t2}
    Id <- CancelledFirst
    Limit = 4
    MaxAttempts = 2
    MaxExecutions = 1
    Requests = {"cancel"}
    MaxFailures = 2
PROPERTIES
    Delivered
    WorkflowEnds
CHECK_DEADLOCK FALSE
