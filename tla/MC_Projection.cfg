SPECIFICATION Spec
CONSTANTS
    k1 = k1
    k2 = k2
    Keys = {k1, k2}
    Facets = {"metadata", "analysis"}
    RowCap = 1
    BusCap = 1
    ReceiveBatch = 1
    MaxChanges = 2
    MaxLives = 2
    MaxFailures = 2
SYMMETRY Symmetry
INVARIANTS TypeOK NoStaleRow RowsTold LivesTold
CHECK_DEADLOCK FALSE
