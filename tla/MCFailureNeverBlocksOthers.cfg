SPECIFICATION LifecycleSpec
CONSTANTS
    Clients = {c1, c2}
    Sessions = {s1}
SYMMETRY Symmetry
PROPERTY FailureNeverBlocksOthers
