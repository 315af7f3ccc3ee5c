SPECIFICATION FairSpec
CONSTANTS
    N = 2
    Frags <- Frags11
    SeqEnd = 10
    MaxWindow = 8
    SplitMod = 8
    MaxSplits = 2
    MaxSplitCount = 4
    Listening = FALSE
    Rejected = {}
    Cancelled = {}
    MayClose = FALSE
    MaxLost = 2
    MaxHitches = 0
PROPERTIES
    EveryPacketArrives
    ResendingEnds
    ImplementsReliableOrdered
CHECK_DEADLOCK FALSE
