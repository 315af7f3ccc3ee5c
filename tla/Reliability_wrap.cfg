SPECIFICATION Spec
CONSTANTS
    N = 4
    Frags <- Frags1111
    SeqEnd = 3
    MaxWindow = 8
    SplitMod = 8
    MaxSplits = 2
    MaxSplitCount = 4
    Listening = FALSE
    Rejected = {}
    Cancelled = {}
    MayClose = FALSE
    MaxLost = 0
    MaxHitches = 0
INVARIANTS NothingReadyWaits
CHECK_DEADLOCK FALSE
