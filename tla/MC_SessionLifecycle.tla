------------------------ MODULE MC_SessionLifecycle ------------------------
(***************************************************************************)
(* The session lifecycle on small instances.  Each configuration file      *)
(* gives the constants of one question; the caps of the code (deletion     *)
(* memory, pending set, inbox, spill, page, batches) are 1 or 2, so that   *)
(* every one of them is met.                                               *)
(***************************************************************************)
EXTENDS SessionLifecycle
=============================================================================
