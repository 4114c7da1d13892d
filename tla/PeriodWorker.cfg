CONSTANTS
    Exprs = {e1, e2}
    Retained = {e1}
    Handlers = {h1}
    None = None
    MaxTime = 2
    MaxRetry = 1
    MaxAdmin = 1
    MaxFaults = 1
SPECIFICATION FairSpec
INVARIANT TypeOK
INVARIANT NothingSkipped
PROPERTY KeepsRunning
CHECK_DEADLOCK FALSE
