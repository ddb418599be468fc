--------------------------- MODULE EvidencePublication ---------------------------
(* What the evidence queue promises to its readers.  A session has at most one   *)
(* published evidence: for every transcript source that could be read the        *)
(* version whose rows are visible.  It is replaced as a whole by a reading of    *)
(* the version the store has recorded for the session, it never goes back to an  *)
(* older version of a source, and it disappears only together with the session.  *)
EXTENDS Integers

CONSTANTS Sessions, Sources, Parent,
          Versions          \* the versions of a source, records of an epoch and a length

VARIABLES recorded,         \* the version of the parent transcript a scan recorded
          evidence          \* the published sources, each with its version

(* No version is recorded for a session.                                         *)
NoVersion == [epoch |-> 0, len |-> 0]

(* v was the content of a source before w was: a rewrite starts a new epoch, an  *)
(* append makes the file longer.                                                 *)
Older(v, w) == v.epoch < w.epoch \/ (v.epoch = w.epoch /\ v.len < w.len)

Init ==
    /\ recorded = [s \in Sessions |-> NoVersion]
    /\ evidence = [s \in Sessions |-> {}]

(* A scan records a version of the parent transcript.                            *)
Record(s) ==
    /\ recorded'[s] \in Versions
    /\ recorded' = [recorded EXCEPT ![s] = recorded'[s]]
    /\ UNCHANGED evidence

(* A pass publishes: the parent exactly as recorded, every other source at one   *)
(* version, no older than the published one.                                     *)
Publish(s) ==
    LET old == evidence[s]
        new == evidence'[s]
    IN  /\ recorded[s] # NoVersion
        /\ <<Parent, recorded[s]>> \in new
        /\ new \subseteq Sources \X Versions
        /\ \A m, n \in new : m[1] = n[1] => m = n
        /\ \A o \in old, n \in new : o[1] = n[1] => ~ Older(n[2], o[2])
        /\ evidence' = [evidence EXCEPT ![s] = new]
        /\ UNCHANGED recorded

(* The session is deleted with all it owns.                                      *)
Forget(s) ==
    /\ recorded' = [recorded EXCEPT ![s] = NoVersion]
    /\ evidence' = [evidence EXCEPT ![s] = {}]

Next == \E s \in Sessions : Record(s) \/ Publish(s) \/ Forget(s)

Spec == Init /\ [][Next]_<<recorded, evidence>>
=============================================================================
