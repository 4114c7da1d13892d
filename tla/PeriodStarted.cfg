CONSTANTS
    Exprs = {e1}
    Retained = {e1}
    Handlers = {h1}
    None = None
    MaxTime = 1
    MaxRetry = 0
    MaxAdmin = 1
    MaxFaults = 0
SPECIFICATION Spec
INVARIANT StartedIsRegistered
CHECK_DEADLOCK FALSE
