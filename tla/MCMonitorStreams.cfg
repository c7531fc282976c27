\* One consumer, two intervals, two losses or restarts, two commands to the board.
SPECIFICATION FairSpec
CONSTANTS
    Consumers = {show}
    Intervals = {1, 2}
    Attempts = 2
    MaxCalls = 2
    MaxFaults = 2
    None = None
CHECK_DEADLOCK FALSE
INVARIANTS
    StreamConsistent
PROPERTIES
    BookKept
    WantedComesBack
