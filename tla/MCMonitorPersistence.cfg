\* One dataset at a time, of samples or of events, two workers, a queue of one item.
SPECIFICATION Spec
CONSTANTS
    Samples = {hv}
    Events = {ev}
    Workers = {w1, w2}
    QueueSize = 1
    BatchSize = 2
    MaxItems = 2
    MaxDatasets = 1
    MaxChanges = 2
    None = None
SYMMETRY Symmetry
CONSTRAINT PoolOrChanges
INVARIANTS
    ItemsAccounted
    StopDrains
    FileIsSound
    FlushedUnlessDue
    MetadataConsistent
