------------------------- MODULE MC_SessionModels -------------------------
(***************************************************************************)
(* The instance of SessionModels that TLC checks.                          *)
(***************************************************************************)
EXTENDS SessionModels
==========================================================================
