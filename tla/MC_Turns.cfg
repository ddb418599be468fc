SPECIFICATION Spec
CONSTANTS
    s1 = s1
    s2 = s2
    w1 = w1
    w2 = w2
    Sessions = {s1, s2}
    Workers = {w1, w2}
    Nobody = Nobody
    FirstSeen <- Order
    FairEvery = 4
    MaxResets = 1
SYMMETRY Symmetry
INVARIANTS NoStarvation LearnsOwnRun LearningStarts
