SPECIFICATION Spec
CONSTANTS
    Relays = {r1, r2}
    s1 = s1
    s2 = s2
    Streams = {s1, s2}
    StreamsOf <- UpToRenaming
    MaxRows = 3
    BatchSize = 2
    Refusable = {2}
    MaxFaults = 1
INVARIANTS
    TypeOK
    NoLostNoPhantom
    CausalOrder
    RepeatsHaveCause
PROPERTIES
    ImplementsChannel
    PublishedUnlessBlocked
CHECK_DEADLOCK FALSE
