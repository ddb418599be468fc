SPECIFICATION Spec
CONSTANTS
    s1 = s1
    par = par
    sub = sub
    w1 = w1
    w2 = w2
    Sessions = {s1}
    Sources = {par, sub}
    Parent = par
    Workers = {w1, w2}
    Agents = {"claude", "codex", "plain"}
    MaxEpoch = 2
    MaxLen = 2
    MaxChanges = 1
    MaxFence = 2
    MaxFaults = 1
    MaxAttempts = 1
INVARIANTS ReadyIsCurrent NoOrphanRows ResumeExact
PROPERTY PublishesWhole
CHECK_DEADLOCK FALSE
SYMMETRY Symmetry
