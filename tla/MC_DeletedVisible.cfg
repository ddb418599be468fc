SPECIFICATION Spec
CONSTANTS
    Keys = {1}
    RemoteKeys = {}
    Agents = {}
    None = None
    QuietWindow = 1
    ActiveWindow = 2
    DeletionCap = 1
    PendingCap = 1
    PageSize = 1
    Epochs = {0}
    StartTime = 2
    InboxCap = 1
    SpillCap = 1
    DrainBatch = 1
    DrainWeight = 1
    ExpireBatch = 1
    Producers = {"upsert", "broad", "touch"}
    MaxRevision = 3
    MaxIncarnation = 3
    MaxTime = 2
    MaxTouches = 1
    MaxGeneration = 0
    MaxFailures = 0
INVARIANTS
    NoDeletedIncarnationVisible
CHECK_DEADLOCK FALSE
