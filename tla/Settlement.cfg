SPECIFICATION Spec
CONSTANTS
    p1 = p1
    p2 = p2
    p3 = p3
    g1 = g1
    g2 = g2
    Engines = {e1}
    Payments = {p1, p2, p3}
    Groups = {g1, g2}
    GroupOf <- Grouping
    WindowSize = 2
    Buffer = 1
    MaxTime = 4
    MaxFaults = 2
    Unset = Unset
INVARIANTS
    TypeOK
    NoDoubleSettling
    SettledIsPaid
    BufferCoversCapture
SYMMETRY Interchangeable
CHECK_DEADLOCK FALSE
