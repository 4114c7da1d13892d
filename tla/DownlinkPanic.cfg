CONSTANTS
    s1 = s1
    p1 = p1
    Calls <- MCCalls
    Kind <- MCKind
    Jobs = {j1}
    MaxReplies <- MCReplies
    NoCall = NoCall
SPECIFICATION Spec
INVARIANT NoSendOnClosed
CHECK_DEADLOCK FALSE
