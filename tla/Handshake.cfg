SPECIFICATION Spec
CONSTANTS
    Dials <- SomeDials
    ResendTime = 1
    MaxPings = 2
INVARIANTS
    TypeOK
    MtuAgrees
    LosslessConnects
    OneLossConnects
    AcceptedAnswered
PROPERTIES
    Settles
