SPECIFICATION FairSpec
CONSTANTS
    MaxOps = 2
    MaxTroubles = 1
INVARIANTS
    IntentFirst
    SaidNotDone
    AckedIsDurable
    EndedIsDecided
PROPERTIES
    EndedIsQuiet
    IsOneShotCall
    Ends
CHECK_DEADLOCK FALSE
