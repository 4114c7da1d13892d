CONSTANTS
    s1 = s1
    p1 = p1
    Calls <- MCCalls
    Kind <- MCKind
    Jobs = {j1, j2}
    MaxReplies <- MCReplies
    NoCall = NoCall
SPECIFICATION FairSpec
INVARIANT TypeOK
INVARIANT RegisteredChannelOpen
INVARIANT EntryHasWaiter
INVARIANT AnswerIsOwn
PROPERTY ImplementsRpc
PROPERTY CallEnds
PROPERTY SenderIsFreed
CHECK_DEADLOCK FALSE
