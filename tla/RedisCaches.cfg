CONSTANTS
    Parts = {"rules", "records", "status"}
    Rules = {1, 2}
    Products = {p1, p2}
    Requests = {q1, q2}
    p1 = p1
    p2 = p2
    Places <- MCPlaces
    MaxRestarts = 1
    NoProduct = NoProduct
    Writers = {w1, w2}
    Limit = 1
    PageSize = 1
    Pages = {1, 2}
    MaxRecords = 3
    m1 = m1
    b1 = b1
    Jobs <- MCJobs
    GatewayJobs <- MCGateway
    Flushers = {f1, f2}
    Timeout = 30
    Overloaded = TRUE
    UpdateFails = TRUE
    RedisFails = TRUE
    MaxAdmin = 2
    MaxStarts = 2
SPECIFICATION Spec
INVARIANT AlarmTypeOK
INVARIANT RefreshIsCurrent
INVARIANT EnabledAgree
PROPERTY RuleLife
INVARIANT DataTypeOK
INVARIANT Bounded
INVARIANT UnarmedIsAwaited
INVARIANT OutOfOrderOverlapped
INVARIANT PageFits
PROPERTY Cleared
INVARIANT StatusTypeOK
INVARIANT PresentIsWatched
PROPERTY WatchersEnd
CHECK_DEADLOCK FALSE
