SPECIFICATION Spec
CONSTANTS
    Run = {r1}
    Thread = {t1, t2}
    Id <- CancelledFirst
    Limit = 4
    MaxAttempts = 2
    MaxExecutions = 2
    Requests = {"cancel", "result"}
    MaxFailures = 2
INVARIANTS
    TypeOK
    VerdictObserved
    OutboxTellsRun
    OneProposal
    PublishedIsDone
PROPERTIES
    TerminalStable
    NoExecutionAfterCancel
CHECK_DEADLOCK FALSE
