SPECIFICATION Spec
CONSTANTS
    N = 2
    Frags <- Frags22
    SeqEnd = 16
    MaxWindow = 8
    SplitMod = 1
    MaxSplits = 2
    MaxSplitCount = 4
    Listening = FALSE
    Rejected = {}
    Cancelled = {}
    MayClose = FALSE
    MaxLost = 0
    MaxHitches = 1
INVARIANTS DeliveredIntact
CHECK_DEADLOCK FALSE
