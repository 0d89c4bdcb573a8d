SPECIFICATION Spec
CONSTANTS
    p1 = p1
    p2 = p2
    p3 = p3
    g1 = g1
    g2 = g2
    Engines = {e1, e2}
    Payments = {p1}
    Groups = {g1}
    GroupOf <- Grouping
    WindowSize = 2
    Buffer = 1
    MaxTime = 4
    MaxFaults = 0
    Unset = Unset
INVARIANT
    NoDoubleSettling
CHECK_DEADLOCK FALSE
