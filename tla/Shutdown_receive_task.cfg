SPECIFICATION FairSpec
CONSTANTS
    Listening = FALSE
    OutSize = 2
    InSize = 2
    Reads = FALSE
    Kinds = {"disconnect"}
    MaxTracked = 0
    MaxPings = 0
    MaxInbound = 1
PROPERTIES ReceiveTaskEnds
CHECK_DEADLOCK FALSE
