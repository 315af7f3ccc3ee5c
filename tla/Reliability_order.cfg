SPECIFICATION Spec
CONSTANTS
    N = 3
    Frags <- Frags111
    SeqEnd = 8
    MaxWindow = 2
    SplitMod = 8
    MaxSplits = 1
    MaxSplitCount = 4
    Listening = TRUE
    Rejected = {1}
    Cancelled = {0}
    MayClose = TRUE
    MaxLost = 0
    MaxHitches = 1
INVARIANTS
    NothingLost
    InOrderIntact
CHECK_DEADLOCK FALSE
