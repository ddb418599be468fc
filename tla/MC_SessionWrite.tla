-------------------------- MODULE MC_SessionWrite --------------------------
(***************************************************************************)
(* The instance of SessionWrite that TLC checks: the writers and the       *)
(* physical paths are interchangeable.                                     *)
(***************************************************************************)
EXTENDS SessionWrite, TLC

Symmetry == Permutations(Writers) \cup Permutations(Paths)
==========================================================================
