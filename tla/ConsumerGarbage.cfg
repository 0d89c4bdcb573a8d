SPECIFICATION Spec
CONSTANTS
    Members = {m1, m2}
    Log <- Partition
    MaxAttempts = 3
    MaxFaults = 0
    NoOwner = NoOwner
PROPERTY
    EveryRecordHandled
CHECK_DEADLOCK FALSE
