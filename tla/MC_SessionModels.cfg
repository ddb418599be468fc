SPECIFICATION FairSpec
CONSTANTS
    NumKeys = 2
    Models = {"m1"}
    None = None
    ModelPage = 1
    MaxRevision = 1
    MaxEpoch = 1
    MaxFailures = 1
    MaxEntries = 2
INVARIANTS
    SlotsExact
    ModelsConverge
PROPERTIES
    VersionTells
    ModelsArrive
CHECK_DEADLOCK FALSE
