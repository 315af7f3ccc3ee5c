SPECIFICATION FairSpec
CONSTANTS
    Listening = TRUE
    OutSize = 1
    InSize = 1
    Reads = FALSE
    Kinds = {"data"}
    MaxTracked = 1
    MaxPings = 0
    MaxInbound = 1
PROPERTIES
    CloseEnds
    WriteReturns
    SilenceEnds
CHECK_DEADLOCK FALSE
