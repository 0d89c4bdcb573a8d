SPECIFICATION Spec
CONSTANTS
    Payments = {p1, p2}
    NonPositive = {}
    Workers = {w1, w2}
    MaxAttempts = 2
    Faults = {"legs", "state", "commit", "kafka", "crash", "repeat"}
    Nobody = Nobody
    Engines = {e1}
    g1 = g1
    Groups = {g1}
    GroupOf <- OneGroup
    WindowSize = 1
    Buffer = 0
    MaxTime = 1
    MaxFaults = 2
    Oversized = {p2}
    Unset = Unset
INVARIANT
    PaidWasCaptured
PROPERTIES
    ImplementsLifecycle
    PaidIsPosted
CHECK_DEADLOCK FALSE
