SPECIFICATION FairSpec
CONSTANTS
    Keys = {1, 2}
    RemoteKeys = {}
    Agents = {}
    None = None
    QuietWindow = 1
    ActiveWindow = 2
    DeletionCap = 1
    PendingCap = 1
    PageSize = 1
    Epochs = {2}
    StartTime = 2
    InboxCap = 1
    SpillCap = 1
    DrainBatch = 1
    DrainWeight = 1
    ExpireBatch = 1
    Producers = {"upsert", "broad"}
    MaxRevision = 2
    MaxIncarnation = 2
    MaxTime = 2
    MaxTouches = 0
    MaxGeneration = 0
    MaxFailures = 1
INVARIANTS
    Converged
PROPERTIES
    Settles
CHECK_DEADLOCK FALSE
