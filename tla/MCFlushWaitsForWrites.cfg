\* save_stop says of its flush: it waits for any write already in flight.
SPECIFICATION Spec
CONSTANTS
    Samples = {hv}
    Events = {ev}
    Workers = {w1, w2}
    QueueSize = 1
    BatchSize = 2
    MaxItems = 2
    MaxDatasets = 1
    MaxChanges = 1
    None = None
SYMMETRY Symmetry
CONSTRAINT PoolOrChanges
INVARIANTS
    FlushWaitsForWrites
