SPECIFICATION LifecycleSpec
CONSTANTS
    Clients = {c1, c2}
    Sessions = {s1}
SYMMETRY Symmetry
VIEW WithoutHistory
INVARIANTS
    RegistryConsistent
    LifecycleConsistent
    RunAbandonedOnlyByScan
PROPERTIES
    EveryTargetGetsOutcome
    OperationalOnlyByConfiguration
    ShutdownHonoured
    PartialKeepsOthers
    RefusedOnlyBehindStale
