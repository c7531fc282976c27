SPECIFICATION MCSpec
CONSTANTS
    Clients = {c1, c2}
    MultipmtIds = {i1, i2}
    Attempts = {a1, a2, a3}
    MaxStale = 1
    MaxRestarts = 1
INVARIANTS
    UniqueMultipmtIds
PROPERTIES AdmittedIsConnected CleanBoardGetsIn
CHECK_DEADLOCK FALSE
