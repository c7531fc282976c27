SPECIFICATION TimelySpec
CONSTANTS
    Clients = {c1}
    MultipmtIds = {i1, i2}
    Attempts = {a1, a2, a3}
    MaxStale = 1
    MaxRestarts = 1
PROPERTY BoardGetsIn
CHECK_DEADLOCK FALSE
