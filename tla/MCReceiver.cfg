CONSTANTS
    NoSource = NoSource
    w1 = w1
    Sources = {s1}
    Workers = {w1}
    WorkerOf <- MCWorkerOf
    QueueSize = 1
    ProcessBatch = 2
    FlushEvery = 2
    FileLimit = 2
    MaxDelayed = 1
    Commands = {"OPEN", "OPEN_READY", "CLOSE", "CLOSE_READY", "START_PRODUCER", "STOP_PRODUCER"}
    MaxCommands = 2
    MaxPackets = 2
    PacketSizes = {5}
    MaxFaults = 1
SPECIFICATION FairSpec
INVARIANTS QueuesConsistent ReplyIsTrue FileComplete
PROPERTIES CommandAnswered StopEnds
ACTION_CONSTRAINT StopIsACommand
CHECK_DEADLOCK FALSE
