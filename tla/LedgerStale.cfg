SPECIFICATION Spec
CONSTANTS
    Workers = {w1}
    Payments = {p1}
    NonPositive = {}
    MaxAttempts = 3
    MaxFaults = 1
    Nobody = Nobody
    Faults = {"legs"}
INVARIANT
    StaleMeansCaptured
CHECK_DEADLOCK FALSE
