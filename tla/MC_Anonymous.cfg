SPECIFICATION Spec
CONSTANTS
    Keys = {1, 2}
    RemoteKeys = {}
    Agents = {1}
    None = None
    QuietWindow = 1
    ActiveWindow = 2
    DeletionCap = 1
    PendingCap = 1
    PageSize = 1
    Epochs = {2}
    StartTime = 2
    InboxCap = 1
    SpillCap = 1
    DrainBatch = 1
    DrainWeight = 1
    ExpireBatch = 1
    Producers = {"analysis"}
    MaxRevision = 2
    MaxIncarnation = 1
    MaxTime = 4
    MaxTouches = 0
    MaxGeneration = 2
    MaxFailures = 0
INVARIANTS
    AnonymousTracked
    NoLostRowChange
CHECK_DEADLOCK FALSE
