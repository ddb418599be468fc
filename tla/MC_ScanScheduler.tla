--------------------------- MODULE MC_ScanScheduler ---------------------------
(* One agent with a session that is known and a database.                        *)
EXTENDS ScanScheduler

CONSTANTS session, database, agent

Lanes == [s \in Sources |-> IF s = session THEN "sessions" ELSE "db"]
Owners == [s \in Sources |-> agent]
=============================================================================
