SPECIFICATION Spec
CONSTANTS
    Listening = FALSE
    OutSize = 1
    InSize = 1
    Reads = TRUE
    Kinds = {"ack", "disconnect", "bad"}
    MaxTracked = 1
    MaxPings = 1
    MaxInbound = 1
INVARIANTS
    TypeOK
PROPERTIES
    ClosesGracefully
CHECK_DEADLOCK FALSE
