SPECIFICATION Spec
CONSTANT Clients = {c1, c2}
SYMMETRY Symmetry
INVARIANTS
    TypeOK
    OperationalOnBothPlanes
    PlanesNeedControl
    PendingOnlyWhileFinalizing
    ConfiguringNotOperational
PROPERTIES
    EveryTargetGetsOutcome
    OperationalOnlyByConfiguration
    ShutdownHonoured
    PartialKeepsOthers
