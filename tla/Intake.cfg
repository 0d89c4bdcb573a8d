SPECIFICATION OrderedSpec
CONSTANTS
    c1 = c1
    c2 = c2
    c3 = c3
    Calls = {c1, c2, c3}
    Requests <- AllRequests
    Rejected <- RefusedRequests
    NoKey = NoKey
    NoId = NoId
    NoAmount = NoAmount
    Nil = Nil
    MaxResends = 1
    Faults = {"redis", "expire", "save", "commit", "crash"}
INVARIANTS
    TypeOK
    NeverDoubleProcess
    AckedUnlessCommitFailed
    DupNamesSameKey
PROPERTY
    EveryCallEnds
CHECK_DEADLOCK FALSE
