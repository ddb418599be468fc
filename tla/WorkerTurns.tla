------------------------------- MODULE WorkerTurns -------------------------------
(* Which session the insights workers serve next, and what a publication starts. *)
(*                                                                               *)
(* The evidence queue gives every waiting entry a ticket.  Three claims of four  *)
(* go to the most recently active session, the fourth to the lowest ticket.  The *)
(* workers wait for the first-run gate before every claim; when the last busy    *)
(* worker runs out of work, the newest first run that published is reported to   *)
(* the gate, and limit learning may price its turns.  A debug reset sends the    *)
(* gate back to its first stage while the workers run.                           *)
(*                                                                               *)
(* Abstractions.  Tickets are only compared, so the assigned ones are kept as a  *)
(* line in their order.  How recently a session was active is arbitrary.  A pass *)
(* is one step that publishes, is tried again later, or finds its claim lost;    *)
(* what it reads and writes is the subject of EvidenceQueue.  The dirty          *)
(* remediations and recoveries that share the loop of a worker are left out.     *)
EXTENDS Integers, Sequences, FiniteSets, SequencesExt

CONSTANTS Sessions, Workers,
          Nobody,           \* a value that is no worker
          FirstSeen,        \* the sessions in the order of first_seen_at
          FairEvery,        \* one claim of so many is a fair turn
          MaxResets         \* bound on debug resets

ASSUME TurnsAssumption ==
    /\ FirstSeen \in Seq(Sessions) /\ \A s \in Sessions : Contains(FirstSeen, s)
    /\ \A i, j \in 1..Len(FirstSeen) : FirstSeen[i] = FirstSeen[j] => i = j
    /\ Nobody \notin Workers
    /\ FairEvery \in Nat \ {0} /\ MaxResets \in Nat

VARIABLES
    entry,      \* the evidence row: "none", "pending", "backoff", "processing", "done"
    holder,     \* the worker whose claim fence the row carries
    line,       \* the entries that have a ticket, in its order
    turns,      \* successful_turns modulo FairEvery
    gate,       \* the first-run stage, the generation, turns_published
    worker,     \* the loop of every worker
    newest,     \* Backlog.published_generation, -1 for none
    pubs,       \* history: the generation noted and the one of the claim, per publication
    passed      \* history: the claims made while an entry waits

vars == <<entry, holder, line, turns, gate, worker, newest, pubs, passed>>

(* FirstRunStage; Agents and Done are above no other threshold than their        *)
(* predecessors and are left out.                                                *)
Welcome == 0
SessionsStage == 1
Checks == 2

(* A worker knows the generation it read at the top of its loop; "since" is the  *)
(* generation in which its claim was made, which the code does not keep.         *)
AtTop == [pc |-> "top", busy |-> FALSE, s |-> FirstSeen[1], gen |-> 0, since |-> 0]

Init ==
    /\ entry = [s \in Sessions |-> "none"]
    /\ holder = [s \in Sessions |-> Nobody]
    /\ line = <<>>
    /\ turns = 0
    /\ gate \in [stage : {Welcome, Checks}, generation : {0}, published : {FALSE}]
    /\ worker = [w \in Workers |-> AtTop]
    /\ newest = -1
    /\ pubs = {}
    /\ passed = [s \in Sessions |-> 0]

-----------------------------------------------------------------------------
(* The queue.                                                                    *)

(* The elements of a line that are not in drop, in their order.                  *)
Without(s, drop) ==
    LET kept[n \in 0..Len(s)] ==
          IF n = 0 THEN <<>>
          ELSE IF s[n] \in drop THEN kept[n - 1] ELSE Append(kept[n - 1], s[n])
    IN kept[Len(s)]

(* A scan stores a new session, or queues a known one again.                     *)
Enqueue(s) ==
    /\ entry[s] # "none" \/ gate.stage >= SessionsStage
    /\ entry' = [entry EXCEPT ![s] = "pending"]
    /\ UNCHANGED <<holder, line, turns, gate, worker, newest, pubs, passed>>

(* The backoff of a failed attempt is over.                                      *)
BackoffEnds(s) ==
    /\ entry[s] = "backoff"
    /\ entry' = [entry EXCEPT ![s] = "pending"]
    /\ UNCHANGED <<holder, line, turns, gate, worker, newest, pubs, passed>>

(* Without its row an entry has no ticket any more.                              *)
Forget(gone) ==
    /\ entry' = [s \in Sessions |-> IF s \in gone THEN "none" ELSE entry[s]]
    /\ holder' = [s \in Sessions |-> IF s \in gone THEN Nobody ELSE holder[s]]
    /\ line' = Without(line, gone)
    /\ passed' = [s \in Sessions |-> IF s \in gone THEN 0 ELSE passed[s]]

DeleteSession(s) ==
    /\ entry[s] # "none"
    /\ Forget({s})
    /\ UNCHANGED <<turns, gate, worker, newest, pubs>>

(* What a claim may take now: the entries that wait, and those whose lease is    *)
(* over, which may be any of the claimed ones.                                   *)
Waiting == {s \in Sessions : entry[s] = "pending"}
Leased == {s \in Sessions : entry[s] = "processing"}

(* The tickets once the entries that have none are appended, oldest first.       *)
Ticketed ==
    line \o Without(FirstSeen,
                    {s \in Sessions : entry[s] \in {"none", "done"} \/ Contains(line, s)})

\* Mutant of Served: every turn goes to the most recently active session.
ServedByRecency(s, over) == s \in Waiting \cup over

(* The order of claim_next_evidence_in_order: a fair turn takes the lowest       *)
(* ticket, any other turn may take every candidate.                              *)
Served(s, over) ==
    /\ s \in Waiting \cup over
    /\ turns = FairEvery - 1 =>
        \A t \in (Waiting \cup over) \ {s} :
            (CHOOSE i \in DOMAIN Ticketed : Ticketed[i] = s)
                < (CHOOSE i \in DOMAIN Ticketed : Ticketed[i] = t)

-----------------------------------------------------------------------------
(* The gate.                                                                     *)

(* advance_first_run and finish_first_run                                        *)
Advance ==
    /\ \E stage \in (gate.stage + 1)..Checks : gate' = [gate EXCEPT !.stage = stage]
    /\ UNCHANGED <<entry, holder, line, turns, worker, newest, pubs, passed>>

(* reset_first_run sends the gate back and wipes the session data afterwards.    *)
Reset ==
    /\ gate.generation < MaxResets
    /\ gate' = [stage |-> Welcome, generation |-> gate.generation + 1, published |-> FALSE]
    /\ UNCHANGED <<entry, holder, line, turns, worker, newest, pubs, passed>>

Wipe ==
    /\ gate.generation > 0 /\ Sessions # {s \in Sessions : entry[s] = "none"}
    /\ Forget(Sessions)
    /\ UNCHANGED <<turns, gate, worker, newest, pubs>>

\* Mutant of Marked: the generation of the publication is not compared.
MarkedAnyRun(g, generation) == [g EXCEPT !.published = @ \/ g.stage >= Checks]

(* mark_turns_published                                                          *)
Marked(g, generation) ==
    [g EXCEPT !.published = @ \/ (g.generation = generation /\ g.stage >= Checks)]

-----------------------------------------------------------------------------
(* The loop of a worker.                                                         *)

Step(w, p) == worker' = [worker EXCEPT ![w] = p]

ToTop(p) == [AtTop EXCEPT !.busy = p.busy]

(* worker_loop: the generation is read before the gate is awaited.               *)
Top(w) ==
    /\ worker[w].pc = "top"
    /\ Step(w, [worker[w] EXCEPT !.pc = "gate", !.gen = gate.generation])
    /\ UNCHANGED <<entry, holder, line, turns, gate, newest, pubs, passed>>

(* A generation that changed while the worker waited sends it back to the top.   *)
AfterGate(p) == IF gate.generation = p.gen THEN [p EXCEPT !.pc = "work"] ELSE ToTop(p)

PassGate(w) ==
    /\ worker[w].pc = "gate"
    /\ gate.stage >= Checks
    /\ Step(w, AfterGate(worker[w]))
    /\ UNCHANGED <<entry, holder, line, turns, gate, newest, pubs, passed>>

(* The claim, its new ticket and the busy mark.                                  *)
Claim(w, s) ==
    /\ worker[w].pc = "work"
    /\ \E over \in SUBSET Leased : Served(s, over)
    /\ entry' = [entry EXCEPT ![s] = "processing"]
    /\ holder' = [holder EXCEPT ![s] = w]
    /\ line' = Append(Without(Ticketed, {s}), s)
    /\ turns' = (turns + 1) % FairEvery
    /\ Step(w, [worker[w] EXCEPT !.pc = "pass", !.busy = TRUE, !.s = s,
                                 !.since = gate.generation])
    /\ passed' = [t \in Sessions |->
                    IF t # s /\ entry[t] = "pending" THEN passed[t] + 1 ELSE 0]
    /\ UNCHANGED <<gate, newest, pubs>>

(* BacklogActivity::idle: the last busy worker takes the newest publication, and *)
(* reports it after it has released the backlog.                                 *)
GoesIdle(w) ==
    LET p == worker[w]
        last == p.busy /\ \A v \in Workers \ {w} : ~ worker[v].busy
    IN  /\ Step(w, IF last /\ newest # -1 THEN [AtTop EXCEPT !.pc = "report", !.gen = newest]
                   ELSE [AtTop EXCEPT !.pc = "asleep"])
        /\ newest' = IF last THEN -1 ELSE newest

(* publication_drained, with the generation that was taken.                      *)
Report(w) ==
    /\ worker[w].pc = "report"
    /\ gate' = Marked(gate, worker[w].gen)
    /\ Step(w, [AtTop EXCEPT !.pc = "asleep"])
    /\ UNCHANGED <<entry, holder, line, turns, newest, pubs, passed>>

(* No candidate: the worker sleeps until it is woken or its poll is due.         *)
NoWork(w) ==
    /\ worker[w].pc = "work"
    /\ Waiting = {}
    /\ line' = Ticketed
    /\ GoesIdle(w)
    /\ UNCHANGED <<entry, holder, turns, gate, pubs, passed>>

Wake(w) ==
    /\ worker[w].pc = "asleep"
    /\ Step(w, ToTop(worker[w]))
    /\ UNCHANGED <<entry, holder, line, turns, gate, newest, pubs, passed>>

(* The store fails, or the task of the worker panics and is started again; the   *)
(* entry it held waits for its lease.                                            *)
Fault(w) ==
    /\ worker[w].pc \in {"work", "pass"}
    /\ GoesIdle(w)
    /\ UNCHANGED <<entry, holder, line, turns, gate, pubs, passed>>

Holds(w) ==
    LET p == worker[w]
    IN  p.pc = "pass" /\ holder[p.s] = w /\ entry[p.s] = "processing"

\* Mutant of Newest: a late pass of an earlier first run overwrites a newer one.
NewestLast(gen) == gen

(* note_backlog_published                                                        *)
Newest(gen) == IF newest > gen THEN newest ELSE gen

Publish(w) ==
    LET p == worker[w]
    IN  /\ Holds(w)
        /\ entry' = [entry EXCEPT ![p.s] = "done"]
        /\ newest' = Newest(p.gen)
        /\ pubs' = pubs \cup {<<p.gen, p.since>>}
        /\ Step(w, ToTop(p))
        /\ UNCHANGED <<holder, line, turns, gate, passed>>

(* The pass is tried again after a backoff, or has failed for good.              *)
Fails(w) ==
    LET p == worker[w]
    IN  /\ Holds(w)
        /\ \E status \in {"backoff", "done"} : entry' = [entry EXCEPT ![p.s] = status]
        /\ Step(w, ToTop(p))
        /\ UNCHANGED <<holder, line, turns, gate, newest, pubs, passed>>

(* The entry was queued again, claimed by another worker or deleted meanwhile.   *)
Superseded(w) ==
    /\ worker[w].pc = "pass" /\ ~ Holds(w)
    /\ Step(w, ToTop(worker[w]))
    /\ UNCHANGED <<entry, holder, line, turns, gate, newest, pubs, passed>>

Next ==
    \/ \E w \in Workers :
        \/ Top(w) \/ PassGate(w) \/ (\E s \in Sessions : Claim(w, s)) \/ NoWork(w) \/ Wake(w)
        \/ Publish(w) \/ Fails(w) \/ Superseded(w) \/ Fault(w) \/ Report(w)
    \/ \E s \in Sessions : Enqueue(s) \/ BackoffEnds(s) \/ DeleteSession(s)
    \/ Advance \/ Reset \/ Wipe

Spec == Init /\ [][Next]_vars

-----------------------------------------------------------------------------
(* Properties.                                                                   *)

(* No session waits for ever behind more active ones, however often those are    *)
(* queued again: a bounded number of claims passes it, whichever workers make    *)
(* them and whatever is deleted, retried or left by a panic meanwhile.           *)
NoStarvation == \A s \in Sessions : passed[s] < FairEvery * Cardinality(Sessions)

(* Limit learning is started by a publication of this first run only: never by a *)
(* pass that was claimed before the reset (mark_turns_published).                *)
LearnsOwnRun == gate.published => \E p \in pubs : p[2] = gate.generation

(* A publication that was noted for the current first run has been reported once *)
(* no worker is busy or reports: no order of the last steps of the workers, no   *)
(* panic and no late publication of an earlier run loses it                      *)
(* (BacklogActivity::idle).                                                      *)
LearningStarts ==
    /\ \A w \in Workers : ~ worker[w].busy /\ worker[w].pc # "report"
    /\ \E p \in pubs : p[1] = gate.generation
    => gate.published
=============================================================================
