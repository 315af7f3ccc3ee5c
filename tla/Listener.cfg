SPECIFICATION Spec
CONSTANTS
    Ips = {i1}
    i1 = i1
    Ports = {1}
    Duration = 1
    Capacity = 1
    MaxConns = 2
INVARIANTS
    TypeOK
    NoStaleEntry
    CloseMakesAtMostOne
    CountNotAhead
PROPERTIES
    EstablishedIsAccepted
    CloseEnds
    BlockEnds
CHECK_DEADLOCK FALSE
