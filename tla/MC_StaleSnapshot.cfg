SPECIFICATION Spec
CONSTANTS
    s1 = s1
    par = par
    sub = sub
    w1 = w1
    w2 = w2
    Sessions = {s1}
    Sources = {par, sub}
    Parent = par
    Workers = {w1}
    Agents = {"claude"}
    MaxEpoch = 2
    MaxLen = 2
    MaxChanges = 1
    MaxFence = 2
    MaxFaults = 3
    MaxAttempts = 1
INVARIANT ResumeExact
CHECK_DEADLOCK FALSE
