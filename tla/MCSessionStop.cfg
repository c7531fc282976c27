SPECIFICATION InsistentStopSpec
CONSTANTS
    Clients = {c1, c2}
    RunThreads = {s1, s2}
INVARIANTS
    StopConsistent
PROPERTY StopEndsRun
