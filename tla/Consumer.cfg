SPECIFICATION Spec
CONSTANTS
    Members = {m1, m2}
    Log <- Partition
    MaxAttempts = 2
    MaxFaults = 3
    NoOwner = NoOwner
INVARIANTS
    TypeOK
    NoRecordSkipped
    InOrder
PROPERTY
    HandledUnlessGarbage
CHECK_DEADLOCK FALSE
