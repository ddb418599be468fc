---------------------------- MODULE MC_WorkerTurns ----------------------------
(* Two sessions, s1 first seen before s2, and two workers that are interchangeable. *)
EXTENDS WorkerTurns, TLC

CONSTANTS s1, s2, w1, w2

Order == <<s1, s2>>
Symmetry == Permutations({w1, w2})
=============================================================================
