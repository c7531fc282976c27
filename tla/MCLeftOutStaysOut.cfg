SPECIFICATION LifecycleSpec
CONSTANTS
    Clients = {c1, c2}
    Sessions = {s1, s2}
SYMMETRY Symmetry
PROPERTY LeftOutStaysOut
