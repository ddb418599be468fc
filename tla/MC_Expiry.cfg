SPECIFICATION Spec
CONSTANTS
    Keys = {1, 2}
    RemoteKeys = {}
    Agents = {}
    None = None
    QuietWindow = 1
    ActiveWindow = 2
    DeletionCap = 1
    PendingCap = 1
    PageSize = 1
    Epochs = {0}
    StartTime = 2
    InboxCap = 1
    SpillCap = 1
    DrainBatch = 1
    DrainWeight = 1
    ExpireBatch = 1
    Producers = {"touch", "broad"}
    MaxRevision = 1
    MaxIncarnation = 2
    MaxTime = 4
    MaxTouches = 2
    MaxGeneration = 0
    MaxFailures = 1
INVARIANTS
    IndexExact
    ViewExact
    NeverSleepsOnWork
CHECK_DEADLOCK FALSE
