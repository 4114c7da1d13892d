CONSTANTS
    Parts = {"rules"}
    Rules = {1, 2}
    Products = {p1, p2}
    Requests = {q1, q2}
    p1 = p1
    p2 = p2
    Places <- MCPlaces
    MaxRestarts = 0
    NoProduct = NoProduct
    Writers = {w1, w2}
    Limit = 1
    PageSize = 1
    Pages = {1, 2}
    MaxRecords = 3
    m1 = m1
    b1 = b1
    Jobs <- MCOwn
    GatewayJobs <- MCNone
    Flushers = {f1}
    Timeout = 30
    Overloaded = FALSE
    UpdateFails = FALSE
    RedisFails = FALSE
    MaxAdmin = 1
    MaxStarts = 1
SPECIFICATION Spec
INVARIANT EnabledIsChecked
CHECK_DEADLOCK FALSE
