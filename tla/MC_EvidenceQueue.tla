--------------------------- MODULE MC_EvidenceQueue ---------------------------
EXTENDS EvidenceQueue, TLC

CONSTANTS s1, par, sub, w1, w2

MCWorkers == {w1, w2}
Symmetry == Permutations(MCWorkers)
=============================================================================
