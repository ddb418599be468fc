SPECIFICATION Spec
CONSTANTS
    Keys = {k1}
    Labels = {l1, l2}
    Paths = {p1, p2}
    Writers = {w1, w2}
    None = None
    MaxAttempt = 4
    MaxEpoch = 1
    MaxIncarnation = 2
    MaxTitles = 1
SYMMETRY Symmetry
INVARIANTS
    NoOrphanFence
    WriteInv
PROPERTIES
    NoStaleWrite
    NewestWins
    NoStaleTitle
    SourceOwnsDelete
CHECK_DEADLOCK FALSE
