SPECIFICATION Spec
CONSTANTS
    Keys = {1, 2}
    RemoteKeys = {}
    Agents = {}
    None = None
    QuietWindow = 1
    ActiveWindow = 2
    DeletionCap = 1
    PendingCap = 1
    PageSize = 1
    Epochs = {1}
    StartTime = 2
    InboxCap = 1
    SpillCap = 1
    DrainBatch = 1
    DrainWeight = 1
    ExpireBatch = 1
    Producers = {"upsert", "delete", "broad", "touch", "reject"}
    MaxRevision = 3
    MaxIncarnation = 2
    MaxTime = 2
    MaxTouches = 1
    MaxGeneration = 0
    MaxFailures = 0
INVARIANTS
    TypeOK
    NoResurrection
    LiveOrPending
    NoForeignActivity
    Truthful
    Converged
PROPERTIES
    GuardsGrow
CHECK_DEADLOCK FALSE
