SPECIFICATION PartsSpec
CONSTANTS
    Numbers = {0, 2, 3, 5, 7, 9}
    Mtu = 16
    MaxNumbers = 3
    Lengths = {1, 2, 3, 7, 8, 9, 15, 16, 17, 18, 19, 20, 21, 22, 35, 36, 37, 63, 64, 65}
    Mtus = {25, 26, 30, 31, 32, 33, 40}
    SystemAddresses = 4
    SeqEnd = 7
    MaxWindow = 4
    MaxIndex = 6
    Delays = {0, 1, 2}
    MaxTime = 3
INVARIANTS
    HeardWasGiven
    OverrunBounded
    AscendingArrives
    PiecesJoin
    PiecesFit
    PacketsRead
    MessagesRead
    GapAtLowest
    AskedOnce
PROPERTIES
    AsksForOverdue
    UsesWindowOps
CHECK_DEADLOCK FALSE
