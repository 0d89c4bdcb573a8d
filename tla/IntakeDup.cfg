SPECIFICATION Spec
CONSTANTS
    c1 = c1
    c2 = c2
    c3 = c3
    Calls = {c1, c2}
    Requests <- KeyedRequests
    Rejected <- NoRequests
    NoKey = NoKey
    NoId = NoId
    NoAmount = NoAmount
    Nil = Nil
    MaxResends = 1
    Faults = {"save"}
INVARIANT
    DupAckNotLost
CHECK_DEADLOCK FALSE
