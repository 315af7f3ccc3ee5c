SPECIFICATION ListSpec
CONSTANTS
    Numbers = {0, 2, 3, 5, 7, 9}
    Mtu = 16
    MaxNumbers = 3
INVARIANTS
    ListArrives
CHECK_DEADLOCK FALSE
