SPECIFICATION Spec
CONSTANTS
    Workers = {w1, w2}
    Payments = {p1, p2}
    NonPositive = {p2}
    MaxAttempts = 3
    MaxFaults = 3
    Nobody = Nobody
    Faults = {"legs", "state", "commit", "kafka", "crash", "repeat"}
INVARIANTS
    TypeOK
    Balanced
    HandledIsPosted
    AuditTrail
PROPERTIES
    CapturedIsPosted
    EveryEventHandled
CHECK_DEADLOCK FALSE
