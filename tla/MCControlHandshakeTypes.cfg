\* The type invariant of the handshake, on the instance of MCControlHandshake.
SPECIFICATION Spec
CONSTANTS
    Clients = {c1, c2}
    MultipmtIds = {i1, i2}
    Attempts = {a1, a2, a3}
    MaxStale = 1
    MaxRestarts = 1
INVARIANT TypeOK
CHECK_DEADLOCK FALSE
