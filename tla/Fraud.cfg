SPECIFICATION BoundedSpec
CONSTANTS
    MaxTogether = 2
    Workers = {w1, w2}
    Payments = {p1, p2}
    Large = {p1}
    Limit = 1
    Minute = 2
    MaxAttempts = 2
    MaxTime = 2
    MaxFaults = 2
    MaxResends = 1
    Nobody = Nobody
    Never = Never
INVARIANTS
    TypeOK
    FastIsReviewed
    RescoringHasCause
    HandledIsScored
PROPERTY
    ScoringNeverBlocks
CHECK_DEADLOCK FALSE
