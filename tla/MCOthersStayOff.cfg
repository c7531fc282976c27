\* The acquisition recovery switches on channels without parameters.
SPECIFICATION Spec
CONSTANTS
    Channels = {1, 2}
    Threads = {"t1"}
    Callers = {"t1", "safe"}
    UserCommands = {}
    MaxFaults = 0
    MaxEvents = 1
PROPERTY OthersStayOff
CHECK_DEADLOCK FALSE
