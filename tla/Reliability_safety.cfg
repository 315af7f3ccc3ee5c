SPECIFICATION Spec
CONSTANTS
    N = 2
    Frags <- Frags22
    SeqEnd = 6
    MaxWindow = 2
    SplitMod = 8
    MaxSplits = 1
    MaxSplitCount = 4
    Listening = TRUE
    Rejected = {0}
    Cancelled = {1}
    MayClose = TRUE
    MaxLost = 0
    MaxHitches = 1
INVARIANTS
    TypeOK
    NothingLost
    InOrderIntact
    TrackedOnce
    RequestedNotAcknowledged
CHECK_DEADLOCK FALSE
