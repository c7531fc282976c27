\* Two sources, so that a mis-framed packet is taken for another source; invariants only.
CONSTANTS
    NoSource = NoSource
    w1 = w1
    Sources = {s1, s2}
    Workers = {w1}
    WorkerOf <- MCWorkerOf
    QueueSize = 1
    ProcessBatch = 2
    FlushEvery = 2
    FileLimit = 2
    MaxDelayed = 1
    Commands = {"OPEN", "OPEN_READY", "CLOSE", "CLOSE_READY", "START_PRODUCER", "STOP_PRODUCER"}
    MaxCommands = 2
    MaxPackets = 2
    PacketSizes = {5}
    MaxFaults = 1
SPECIFICATION Spec
INVARIANTS QueuesConsistent ReplyIsTrue FileComplete
ACTION_CONSTRAINT StopIsACommand
CHECK_DEADLOCK FALSE
