------------------------- MODULE MC_SessionProjection -------------------------
(* Two sessions with two facets; the caps of the code are one or two, so that    *)
(* every one of them is met.                                                     *)
EXTENDS SessionProjection, TLC

CONSTANTS k1, k2

Symmetry == Permutations({k1, k2})
=============================================================================
