SPECIFICATION Spec
CONSTANTS
    Half = 8388608
    Requests <- AllRequests
    Absent = Absent
INVARIANTS
    TypeOK
    RoundTrip
    TextExact
    DeadHasCause
CHECK_DEADLOCK FALSE
