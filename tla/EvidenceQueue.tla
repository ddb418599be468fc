------------------------------ MODULE EvidenceQueue ------------------------------
(* The durable evidence queue and the passes of the insights worker.             *)
(*                                                                               *)
(* A session row records the fingerprint of its parent transcript and a source   *)
(* generation; its evidence row is the queue entry.  A worker claims an entry    *)
(* under a fence, reads the parent and the sub-agent transcript from the disk,   *)
(* writes turn rows stamped with its fence, and publishes them.  The files       *)
(* change, the lease runs out, the entry is requeued or the session deleted at   *)
(* any point of a pass.                                                          *)
(*                                                                               *)
(* Abstractions.  A version of a source is an epoch (a rewrite starts the next   *)
(* one) and a length in rows; a fingerprint tells versions apart, and a resume   *)
(* point is the version it was taken from.  Time is left out: a lease may have   *)
(* run out, and a backoff be over, at any moment.  A flushed batch is one row.   *)
(* The coverage record is the set of sources it calls readable.  An agent is     *)
(* what its adapter makes of a file: "claude" resumes and compares all files     *)
(* again at the end, "codex" resumes and may end unsettled, "plain" always reads *)
(* from the start.  Which of the claimable entries a worker gets is decided in   *)
(* WorkerTurns.                                                                  *)
EXTENDS Integers, FiniteSets

CONSTANTS Sessions, Sources, Parent, Workers,
          Agents,               \* the agents of the sessions
          MaxEpoch, MaxLen,     \* bounds on the versions of a source
          MaxChanges,           \* bound on changes of the files, requeues and deletions
          MaxFence,             \* bound on claims
          MaxFaults,            \* bound on read errors, panics, store errors and crashes
          MaxAttempts           \* MAX_EVIDENCE_ATTEMPTS

ASSUME QueueAssumption ==
    /\ Parent \in Sources /\ Sessions # {} /\ Agents \subseteq {"claude", "codex", "plain"}
    /\ MaxEpoch \in Nat \ {0} /\ MaxLen \in Nat \ {0}
    /\ MaxChanges \in Nat /\ MaxFence \in Nat
    /\ MaxFaults \in Nat /\ MaxAttempts \in Nat

VARIABLES
    agent,      \* the agent of a session
    file,       \* what is on the disk: a version of every source (length 0: no file)
    ev,         \* the session row and its evidence row
    turn,       \* the turn rows of a session
    resume,     \* source_resume: the version a later pass may resume from
    seq,        \* evidence_claim_fence_seq
    worker,     \* the pass every worker runs
    lost,       \* fences of the passes a crash has ended
    changes, faults

vars == <<agent, file, ev, turn, resume, seq, worker, lost, changes, faults>>

NoVersion == [epoch |-> 0, len |-> 0]
Versions == [epoch : 1..MaxEpoch, len : 1..MaxLen]

Absent == [present |-> FALSE, gen |-> 0, fp |-> NoVersion, status |-> "none",
           claim |-> 0, pub |-> 0, analyzed |-> 0, processed |-> NoVersion,
           retry |-> 0, missing |-> FALSE, cover |-> {}]

NoMode == [src \in Sources |-> "none"]
NoKeep == [src \in Sources |-> NoVersion]

Idle == [pc |-> "idle", s |-> CHOOSE s \in Sessions : TRUE, fence |-> 0, gen |-> 0,
         retry |-> 0, fp |-> NoVersion, todo |-> {}, src |-> Parent, ver |-> NoVersion,
         at |-> 0, try |-> "none", bad |-> FALSE, all |-> NoKeep, read |-> NoVersion,
         mode |-> NoMode, keep |-> NoKeep, outcome |-> "none", counts |-> FALSE]

Init ==
    /\ agent \in [Sessions -> Agents]
    /\ file = [s \in Sessions |-> [src \in Sources |-> [epoch |-> 1, len |-> 1]]]
    /\ ev = [s \in Sessions |-> Absent]
    /\ turn = [s \in Sessions |-> {}]
    /\ resume = [s \in Sessions |-> NoKeep]
    /\ seq = 0
    /\ worker = [w \in Workers |-> Idle]
    /\ lost = {}
    /\ changes = 0 /\ faults = 0

-----------------------------------------------------------------------------
(* The store.                                                                    *)

(* mark_evidence_pending_in: the claim fence and the published fence of the      *)
(* entry stay as they are.                                                       *)
Pending(e) == [e EXCEPT !.status = "pending", !.missing = FALSE, !.retry = 0]

(* Any moment may be past the lease of a claim and past the backoff of an entry. *)
Claimable(e) == e.status \in {"pending", "processing"}

(* The claim of pass p is the current one of its entry.                          *)
Holds(e, p) == e.status = "processing" /\ e.claim = p.fence

(* require_active_claim, in front of every write of a pass.                      *)
Active(e, p) == Holds(e, p) /\ e.pub # p.fence

(* The condition of the claim-fenced updates.                                    *)
Current(e, p) == Holds(e, p) /\ e.gen = p.gen

\* Mutant of Discard: only the pass that still holds the entry discards its rows.
DiscardOfHolder(s, f) ==
    IF ev[s].pub = f \/ ev[s].claim # f THEN turn[s] ELSE {r \in turn[s] : r.fence # f}

(* discard_evidence_claim_rows_in                                                *)
Discard(s, f) == IF ev[s].pub = f THEN turn[s] ELSE {r \in turn[s] : r.fence # f}

(* evidence_failure: whether a failure is tried again.                           *)
Retries(p, counts) == ~ counts \/ p.retry < MaxAttempts

(* fail_evidence on the entry of pass p.                                         *)
Retried(e, counts) ==
    [e EXCEPT !.status = "pending", !.retry = @ + (IF counts THEN 1 ELSE 0),
              !.missing = FALSE]

Failed(e, missing) ==
    [e EXCEPT !.status = "failed", !.retry = @ + 1, !.analyzed = e.gen,
              !.missing = missing]

FailEvidence(p, e) ==
    /\ ev' = [ev EXCEPT ![p.s] = IF Current(@, p) THEN e ELSE @]
    /\ turn' = [turn EXCEPT ![p.s] = Discard(p.s, p.fence)]
    /\ UNCHANGED resume

(* publish_projections: whether the claim-fenced update finds its row.           *)
Accepts(e, p) == Current(e, p) /\ e.fp = p.read

TargetFence(e, p) == IF e.pub = 0 THEN p.fence ELSE e.pub

Published(e, p) ==
    [e EXCEPT !.status = "ready", !.analyzed = p.gen, !.processed = p.read, !.retry = 0,
              !.missing = FALSE, !.pub = TargetFence(e, p),
              !.cover = {src \in Sources : p.mode[src] # "none"}]

(* publish_turn_rows and delete_turn_rows_except_fence: a resumed source keeps   *)
(* the rows of the last publication, every row of this pass joins them.          *)
PublishedRows(p) ==
    LET target == TargetFence(ev[p.s], p)
        own == {r \in turn[p.s] : r.fence = p.fence}
    IN  {r \in turn[p.s] : r.fence = target /\ p.mode[r.src] = "resumed"}
            \cup {[r EXCEPT !.fence = target] : r \in own}

\* Mutant of PublishedResume: the snapshot of a source that vanished stays.
PublishedResumeKeeps(p) ==
    [src \in Sources |-> IF p.mode[src] # "none" THEN p.keep[src] ELSE resume[p.s][src]]

(* source_resume after a publication: a named source gets what its visit left,   *)
(* an unnamed one loses its snapshot unless the pass wrote rows for it.          *)
PublishedResume(p) ==
    [src \in Sources |->
        IF p.mode[src] # "none" THEN p.keep[src]
        ELSE IF \E r \in turn[p.s] : r.fence = p.fence /\ r.src = src THEN resume[p.s][src]
        ELSE NoVersion]

-----------------------------------------------------------------------------
(* The disk, the scans and the user.                                             *)

Change(s, src, v) ==
    /\ changes < MaxChanges
    /\ file' = [file EXCEPT ![s][src] = v]
    /\ changes' = changes + 1
    /\ UNCHANGED <<agent, ev, turn, resume, seq, worker, lost, faults>>

Append(s, src) ==
    /\ file[s][src].len \in 1..(MaxLen - 1)
    /\ Change(s, src, [file[s][src] EXCEPT !.len = @ + 1])

Rewrite(s, src) ==
    /\ file[s][src].epoch < MaxEpoch
    /\ \E n \in 1..MaxLen : Change(s, src, [epoch |-> file[s][src].epoch + 1, len |-> n])

Remove(s, src) ==
    /\ file[s][src].len > 0
    /\ Change(s, src, [file[s][src] EXCEPT !.len = 0])

\* Mutant of Queues: a new fingerprint alone does not queue the entry.
QueuesOnCursor(e, stored, cursorChanged) ==
    ~ e.present \/ cursorChanged \/ e.missing

(* Whether an upsert queues the entry: a new row or fingerprint, a new activity  *)
(* cursor, or a source that came back.                                           *)
Queues(e, stored, cursorChanged) ==
    stored.gen > e.gen \/ cursorChanged \/ e.missing

(* upsert_sessions_locked: a scan stores the fingerprint of the parent.          *)
Scan(s) ==
    LET e == ev[s]
        f == file[s][Parent]
        stored == [e EXCEPT !.present = TRUE, !.fp = f, !.gen = IF e.fp = f THEN @ ELSE @ + 1]
    IN  /\ f.len > 0
        /\ \E cursorChanged \in BOOLEAN :
            ev' = [ev EXCEPT ![s] =
                      IF Queues(e, stored, cursorChanged)
                      THEN Pending(stored) ELSE stored]
        /\ UNCHANGED <<agent, file, turn, resume, seq, worker, lost, changes, faults>>

(* requeue_session_evidence, from the drilldown command.                         *)
Requeue(s) ==
    /\ ev[s].present /\ changes < MaxChanges
    /\ changes' = changes + 1
    /\ ev' = [ev EXCEPT ![s] = Pending(@)]
    /\ UNCHANGED <<agent, file, turn, resume, seq, worker, lost, faults>>

(* delete_session_in: the session, its entry, its rows and its snapshots.        *)
DeleteSession(s) ==
    /\ ev[s].present /\ changes < MaxChanges
    /\ changes' = changes + 1
    /\ ev' = [ev EXCEPT ![s] = Absent]
    /\ turn' = [turn EXCEPT ![s] = {}]
    /\ resume' = [resume EXCEPT ![s] = NoKeep]
    /\ UNCHANGED <<agent, file, seq, worker, lost, faults>>

(* The process ends in the middle of its passes; the next one reconciles the     *)
(* queue before its workers start.                                               *)
Stale(e) ==
    /\ e.present
    /\ e.analyzed # e.gen \/ (e.status # "failed" /\ e.processed # e.fp)

Restart ==
    /\ faults < MaxFaults
    /\ faults' = faults + 1
    /\ lost' = lost \cup {worker[w].fence : w \in {v \in Workers : worker[v].pc # "idle"}}
    /\ worker' = [w \in Workers |-> Idle]
    /\ ev' = [s \in Sessions |-> IF Stale(ev[s]) THEN Pending(ev[s]) ELSE ev[s]]
    /\ UNCHANGED <<agent, file, turn, resume, seq, changes>>

-----------------------------------------------------------------------------
(* The pass of one worker.                                                       *)

Step(w, p) == worker' = [worker EXCEPT ![w] = p]

InPass(p) == p.pc \in {"open", "read", "end"}

\* Mutant of NextFence: every entry counts its own claims.
NextFenceOfRow(s) == ev[s].claim + 1

(* next_claim_fence_in: one sequence for all sessions, which no deletion resets. *)
NextFence(s) == seq + 1

(* claim_next_evidence: the entry gets a fence no claim has had before.          *)
Claim(w, s) ==
    /\ worker[w].pc = "idle"
    /\ seq < MaxFence
    /\ Claimable(ev[s])
    /\ seq' = seq + 1
    /\ ev' = [ev EXCEPT ![s].status = "processing", ![s].claim = NextFence(s)]
    /\ Step(w, [Idle EXCEPT !.pc = "start", !.s = s, !.fence = NextFence(s),
                            !.gen = ev[s].gen, !.retry = ev[s].retry])
    /\ UNCHANGED <<agent, file, turn, resume, lost, changes, faults>>

(* A pass that has nothing to publish keeps its claim and its outcome.           *)
Apply(p, outcome) ==
    [Idle EXCEPT !.pc = "apply", !.s = p.s, !.fence = p.fence, !.gen = p.gen,
                 !.retry = p.retry, !.outcome = outcome]

(* The claim is handed to settle_failed_claim.                                   *)
Settling(p, counts) ==
    [Idle EXCEPT !.pc = "settle", !.s = p.s, !.fence = p.fence, !.gen = p.gen,
                 !.retry = p.retry, !.counts = counts]

(* combined_fingerprint over the parent and the children that were found.        *)
Combined(f, kids) ==
    [src \in Sources |->
        IF src \notin {Parent} \cup kids \/ f[src].len = 0 \/ f[Parent].len = 0
        THEN NoVersion ELSE f[src]]

(* The session row is read after the claim; the transcripts are located.         *)
StartPass(w) ==
    LET p == worker[w]
        kids == {src \in Sources \ {Parent} : file[p.s][src].len > 0}
    IN  /\ p.pc = "start"
        /\ Step(w, IF ~ ev[p.s].present THEN Idle
                   ELSE IF file[p.s][Parent].len = 0
                        THEN Apply(p, "missing")
                   ELSE [p EXCEPT !.pc = "open", !.fp = ev[p.s].fp, !.src = Parent,
                                  !.todo = kids, !.all = Combined(file[p.s], kids)])
        /\ UNCHANGED <<agent, file, ev, turn, resume, seq, lost, changes, faults>>

(* The stream stops with an outcome.                                             *)
Ends(p, outcome) == [p EXCEPT !.pc = "end", !.outcome = outcome, !.todo = {}, !.src = Parent,
                              !.ver = NoVersion, !.at = 0, !.try = "none", !.bad = FALSE]

(* The visit of the current source is over: the next child, or the end.          *)
NextSource(p) ==
    IF p.todo = {} THEN Ends(p, "all-read")
    ELSE LET src == CHOOSE c \in p.todo : TRUE
         IN  [p EXCEPT !.pc = "open", !.src = src, !.todo = @ \ {src},
                       !.ver = NoVersion, !.at = 0, !.try = "none", !.bad = FALSE]

AtEnd(p, f) == p.at >= f.len

(* delete_rows_for_source: what the pass has written for its current source.     *)
Flushed(p) == {r \in turn[p.s] : r.fence = p.fence /\ r.src = p.src}

(* delete_then_full_read: the rows flushed so far go, the file is read from its  *)
(* start under the claim the visit began with.                                   *)
FullRead(w, p, try) ==
    IF Active(ev[p.s], p)
    THEN /\ turn' = [turn EXCEPT ![p.s] = @ \ Flushed(p)]
         /\ Step(w, [p EXCEPT !.pc = "read", !.at = 0, !.try = try, !.bad = FALSE])
    ELSE /\ Step(w, Ends(p, "unreadable"))
         /\ UNCHANGED turn

(* claim_file and stream_snapshot_to_attempt: the visit starts behind a stored   *)
(* resume point when the file still has it as a prefix.                          *)
OpenSource(w) ==
    LET p == worker[w]
        f == file[p.s][p.src]
        r == resume[p.s][p.src]
        opened == [p EXCEPT !.pc = "read", !.ver = f]
    IN  /\ p.pc = "open"
        /\ \/ /\ f.len = 0
              /\ Step(w, IF p.src = Parent THEN Ends(p, "missing") ELSE NextSource(p))
              /\ UNCHANGED turn
           \/ /\ f.len > 0 /\ r = NoVersion
              /\ Step(w, [opened EXCEPT !.try = IF agent[p.s] = "plain" THEN "plain" ELSE "first"])
              /\ UNCHANGED turn
           \/ /\ f.len > 0 /\ r # NoVersion /\ r.epoch = f.epoch /\ r.len <= f.len
              /\ Step(w, [opened EXCEPT !.at = r.len, !.try = "resume"])
              /\ UNCHANGED turn
           \/ /\ f.len > 0 /\ r # NoVersion /\ (r.epoch # f.epoch \/ r.len > f.len)
              /\ FullRead(w, opened, "again")
        /\ UNCHANGED <<agent, file, ev, resume, seq, lost, changes, faults>>

(* The reader takes the next row of whatever the file holds now, and the sink    *)
(* writes it.  "by" is the visit that wrote it, a pass and its attempt at the    *)
(* source; no index keeps rows apart.  After a refused write the sink writes     *)
(* nothing more.                                                                 *)
ReadRow(w) ==
    LET p == worker[w]
        f == file[p.s][p.src]
        row == [src |-> p.src, by |-> <<p.fence, p.try>>, fence |-> p.fence,
                epoch |-> f.epoch, index |-> p.at + 1]
    IN  /\ p.pc = "read" /\ ~ p.bad /\ ~ AtEnd(p, f)
        /\ IF Active(ev[p.s], p)
           THEN /\ turn' = [turn EXCEPT ![p.s] = @ \cup {row}]
                /\ Step(w, [p EXCEPT !.at = @ + 1])
           ELSE /\ Step(w, [p EXCEPT !.bad = TRUE])
                /\ UNCHANGED turn
        /\ UNCHANGED <<agent, file, ev, resume, seq, lost, changes, faults>>

(* The end of the file: the fingerprint is compared with the claimed one.        *)
(* A visit that ends in an unsettled state leaves no resume point.               *)
EndRead(w) ==
    LET p == worker[w]
        f == file[p.s][p.src]
        again == p.try \in {"resume", "first"}
        keeps == IF p.try = "plain" THEN {NoVersion}
                 ELSE {p.ver} \cup (IF agent[p.s] = "codex" THEN {NoVersion} ELSE {})
        accepted(k) == [p EXCEPT !.mode[p.src] = IF p.try = "resume" THEN "resumed" ELSE "full",
                                 !.keep[p.src] = k,
                                 !.read = IF p.src = Parent THEN p.ver ELSE @]
    IN  /\ p.pc = "read" /\ (p.bad \/ AtEnd(p, f))
        /\ \/ /\ f = p.ver /\ p.bad
              /\ Step(w, Ends(p, "unreadable"))
              /\ UNCHANGED turn
           \/ /\ f = p.ver /\ ~ p.bad
              /\ \E k \in keeps : Step(w, NextSource(accepted(k)))
              /\ UNCHANGED turn
           \/ /\ f # p.ver /\ again
              /\ FullRead(w, p, "again")
           \/ /\ f # p.ver /\ ~ again
              /\ Step(w, Ends(p, "changed"))
              /\ UNCHANGED turn
        /\ UNCHANGED <<agent, file, ev, resume, seq, lost, changes, faults>>

(* The adapter fails partway: the first visit and the retry with a fresh         *)
(* snapshot are followed by a full read, the plain read is the last attempt.     *)
(* An unreadable child does not fail the pass, and its rows stay.                *)
ReadError(w) ==
    LET p == worker[w]
    IN  /\ faults < MaxFaults
        /\ faults' = faults + 1
        /\ \/ /\ p.pc = "read" /\ p.try \in {"resume", "first"}
              /\ FullRead(w, p, "again")
           \/ /\ p.pc = "read" /\ p.try = "again"
              /\ FullRead(w, p, "plain")
           \/ /\ p.pc = "open" \/ (p.pc = "read" /\ p.try = "plain")
              /\ Step(w, IF p.src = Parent THEN Ends(p, "unreadable") ELSE NextSource(p))
              /\ UNCHANGED turn
        /\ UNCHANGED <<agent, file, ev, resume, seq, lost, changes>>

(* The stream is over.  When every source was read, the coverage record has been *)
(* written under the claim; the files of a Claude session are compared with what *)
(* they were at the start; and the parent must be the version the session row    *)
(* named then.                                                                   *)
EndPass(w) ==
    LET p == worker[w]
        kids == {src \in Sources \ {Parent} : p.all[src] # NoVersion}
        computed == IF p.outcome # "all-read" THEN p.outcome
                    ELSE IF Active(ev[p.s], p) THEN "published" ELSE "unreadable"
        changed ==
            \/ agent[p.s] = "claude" /\ kids # {} /\ Combined(file[p.s], kids) # p.all
            \/ computed = "published" /\ p.read # p.fp
    IN  /\ p.pc = "end"
        /\ Step(w, IF changed THEN Apply(p, "changed")
                   ELSE IF computed = "published"
                        THEN [p EXCEPT !.pc = "apply", !.all = NoKeep, !.outcome = "published"]
                   ELSE Apply(p, computed))
        /\ UNCHANGED <<agent, file, ev, turn, resume, seq, lost, changes, faults>>

(* The renewal of a pass that made progress.  An accepted one changes nothing    *)
(* but the lease; a refused or failed one cancels the pass and waits for it to   *)
(* stop.                                                                         *)
RenewFails(w) ==
    LET p == worker[w]
    IN  /\ InPass(p)
        /\ \/ ~ Current(ev[p.s], p) /\ UNCHANGED faults
           \/ faults < MaxFaults /\ faults' = faults + 1
        /\ Step(w, Settling(p, FALSE))
        /\ UNCHANGED <<agent, file, ev, turn, resume, seq, lost, changes>>

Panic(w) ==
    LET p == worker[w]
    IN  /\ InPass(p) /\ faults < MaxFaults
        /\ faults' = faults + 1
        /\ Step(w, Settling(p, TRUE))
        /\ UNCHANGED <<agent, file, ev, turn, resume, seq, lost, changes>>

(* apply_outcome of a published pass: one transaction.                           *)
Publish(w) ==
    LET p == worker[w]
    IN  /\ p.pc = "apply" /\ p.outcome = "published"
        /\ IF Accepts(ev[p.s], p)
           THEN /\ ev' = [ev EXCEPT ![p.s] = Published(@, p)]
                /\ turn' = [turn EXCEPT ![p.s] = PublishedRows(p)]
                /\ resume' = [resume EXCEPT ![p.s] = PublishedResume(p)]
                /\ \/ Step(w, Idle) /\ UNCHANGED faults
                   \/ /\ faults < MaxFaults /\ faults' = faults + 1
                      /\ Step(w, Settling(p, TRUE))
           ELSE /\ turn' = [turn EXCEPT ![p.s] = Discard(p.s, p.fence)]
                /\ Step(w, Idle)
                /\ UNCHANGED <<ev, resume, faults>>
        /\ UNCHANGED <<agent, file, seq, lost, changes>>

(* The publication fails before its commit and is rolled back.                   *)
PublishFails(w) ==
    LET p == worker[w]
    IN  /\ p.pc = "apply" /\ faults < MaxFaults
        /\ faults' = faults + 1
        /\ Step(w, Settling(p, TRUE))
        /\ UNCHANGED <<agent, file, ev, turn, resume, seq, lost, changes>>

(* apply_outcome of any other pass.                                              *)
Fail(w) ==
    LET p == worker[w]
        e == ev[p.s]
    IN  /\ p.pc = "apply" /\ p.outcome # "published"
        /\ FailEvidence(p, CASE p.outcome = "changed" -> Retried(e, TRUE)
                             [] p.outcome = "missing" -> Failed(e, TRUE)
                             [] p.outcome = "unreadable" ->
                                    IF Retries(p, TRUE) THEN Retried(e, TRUE)
                                    ELSE Failed(e, FALSE))
        /\ Step(w, Idle)
        /\ UNCHANGED <<agent, file, seq, lost, changes, faults>>

(* settle_failed_claim: a publication that had committed under this fence stays. *)
Settle(w) ==
    LET p == worker[w]
        e == ev[p.s]
        committed == e.present /\ e.pub = p.fence
    IN  /\ p.pc = "settle"
        /\ IF committed THEN UNCHANGED <<ev, turn, resume>>
           ELSE FailEvidence(p, IF Retries(p, p.counts) THEN Retried(e, p.counts)
                                ELSE Failed(e, FALSE))
        /\ Step(w, Idle)
        /\ UNCHANGED <<agent, file, seq, lost, changes, faults>>

(* The session cannot be read after its claim, or the recovery fails too: the    *)
(* lease runs out, and the rows wait for the next publication.                   *)
SettleFails(w) ==
    LET p == worker[w]
    IN  /\ p.pc \in {"start", "settle"} /\ faults < MaxFaults
        /\ faults' = faults + 1
        /\ lost' = lost \cup {p.fence}
        /\ Step(w, Idle)
        /\ UNCHANGED <<agent, file, ev, turn, resume, seq, changes>>

PassNext(w) ==
    \/ \E s \in Sessions : Claim(w, s)
    \/ StartPass(w) \/ OpenSource(w) \/ ReadRow(w) \/ EndRead(w) \/ ReadError(w)
    \/ EndPass(w) \/ RenewFails(w) \/ Panic(w)
    \/ Publish(w) \/ PublishFails(w) \/ Fail(w) \/ Settle(w) \/ SettleFails(w)

StoreNext(s) ==
    \/ \E src \in Sources : Append(s, src) \/ Rewrite(s, src) \/ Remove(s, src)
    \/ Scan(s) \/ Requeue(s) \/ DeleteSession(s)

Next ==
    \/ \E w \in Workers : PassNext(w)
    \/ \E s \in Sessions : StoreNext(s)
    \/ Restart

Spec == Init /\ [][Next]_vars

-----------------------------------------------------------------------------
(* Properties.                                                                   *)

(* The rows rs are one reading of version v from its first row to its last, no   *)
(* row missing, doubled or of another epoch.                                     *)
ReadingOf(rs, v) ==
    /\ Cardinality(rs) = v.len
    /\ \A r \in rs : r.epoch = v.epoch
    /\ {r.index : r \in rs} = 1..v.len

(* Rows that are no reading of any version.                                      *)
Torn == [epoch |-> 0, len |-> 1]

VisibleOf(s, src) == {r \in turn[s] : r.fence = ev[s].pub /\ r.src = src}

VersionOf(s, src) ==
    LET rs == VisibleOf(s, src)
        v == [epoch |-> (CHOOSE r \in rs : TRUE).epoch, len |-> Cardinality(rs)]
    IN  IF rs = {} THEN NoVersion ELSE IF ReadingOf(rs, v) THEN v ELSE Torn

(* What a reader of the published evidence sees: the version of every source the *)
(* coverage record calls readable.                                               *)
EP == INSTANCE EvidencePublication WITH
          recorded <- [s \in Sessions |-> ev[s].fp],
          evidence <- [s \in Sessions |->
                          {<<src, VersionOf(s, src)>> : src \in ev[s].cover}]

(* The queue implements its promise: whatever passes overlap, lose their lease,  *)
(* resume from a stored snapshot, fail or crash halfway, the visible rows change *)
(* only by a publication of the recorded version of the parent as a whole, and   *)
(* are never a mixture of two readings (publish_projections, publish_turn_rows). *)
PublishesWhole == EP!Spec

(* An entry that is ready shows exactly the transcript the session row names.    *)
ReadyIsCurrent ==
    \A s \in Sessions : ev[s].status = "ready" =>
        /\ ev[s].analyzed = ev[s].gen
        /\ ev[s].processed = ev[s].fp
        /\ VersionOf(s, Parent) = ev[s].fp

(* Every row is published, or belongs to a pass that still has to publish or to  *)
(* discard it, or was left by a pass a crash or a store error ended: no failed   *)
(* or superseded pass leaks its rows.                                            *)
NoOrphanRows ==
    \A s \in Sessions : \A r \in turn[s] :
        \/ r.fence = ev[s].pub
        \/ \E w \in Workers : worker[w].pc # "idle" /\ worker[w].s = s
                                /\ worker[w].fence = r.fence
        \/ r.fence \in lost

(* A stored snapshot continues the rows that are visible: a pass that resumes    *)
(* from it appends to the reading it was taken from (source_resume).             *)
ResumeExact ==
    \A s \in Sessions : \A src \in Sources :
        resume[s][src] # NoVersion => ReadingOf(VisibleOf(s, src), resume[s][src])
=============================================================================
