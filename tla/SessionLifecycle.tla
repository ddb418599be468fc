------------------------- MODULE SessionLifecycle -------------------------
(***************************************************************************)
(* The session lifecycle of the desktop app: the store that owns the rows, *)
(* the producers that commit to it and report facts afterwards (the scan   *)
(* path, which waits for inbox capacity, and the commands, retention and   *)
(* analysis workers, which spill when the inbox is full), the registry     *)
(* actor that applies the facts, and the blocking presence reads it issues.*)
(*                                                                         *)
(* A row change and its report are separate steps, so facts arrive late,   *)
(* out of order across producers, and after a newer row exists.            *)
(*                                                                         *)
(* Left out: the inbox of a stopped actor (shutdown), IndexChanged reports *)
(* (they carry no session evidence; the one a spill overflow makes out of  *)
(* row changes is here), and the model replies (SessionModels).            *)
(***************************************************************************)
EXTENDS SessionRegistry

CONSTANTS
    Epochs,           \* the activity times an indexed row may carry
    StartTime,        \* the clock at startup
    InboxCap,         \* INBOX_CAPACITY
    SpillCap,         \* SPILL_KEY_CAP
    DrainBatch,       \* DRAIN_BATCH
    DrainWeight,      \* DRAIN_WEIGHT
    ExpireBatch,      \* EXPIRE_BATCH
    Producers,        \* the producer operations that run
    \* Bounds on the behaviours explored.
    MaxRevision, MaxIncarnation, MaxTime, MaxTouches, MaxGeneration, MaxFailures

ASSUME BoundAssumption ==
    /\ Epochs \subseteq Int /\ StartTime \in Nat
    /\ InboxCap \in Nat \ {0} /\ SpillCap \in Nat
    /\ DrainBatch \in Nat \ {0} /\ DrainWeight \in Nat \ {0} /\ ExpireBatch \in Nat \ {0}
    /\ MaxRevision \in Nat /\ MaxIncarnation \in Nat /\ MaxTime \in Nat
    /\ MaxTouches \in Nat /\ MaxGeneration \in Nat /\ MaxFailures \in Nat

VARIABLES
    \* The store, under its mutex.
    row,          \* row[k]: the stored incarnation and epoch of k, or None
    rev,          \* total_changes() of the writing connection
    incSeq,       \* session_incarnation_seq: the last incarnation allocated
    now,          \* the wall clock
    \* The producers.
    scanQ,        \* reports the scan path still has to send, in order
    cmdQ,         \* sync reports their threads have not made yet
    ledger,       \* AnonymousLedger of the scan scheduler
    \* The way to the actor.
    inbox, spill, spillWake,
    \* The actor and its registry.
    reg, pc, roundNow, budget, carry, blocked, inFlight, backoff, page, taken,
    \* Bound counters.
    touches, failures,
    \* History: the incarnations that the store held at every revision; the latest
    \* activity of the present incarnation of a key that was reported, and that it
    \* ever had; the keys whose row changed without the clients being told.
    existed, heard, reached, stale

storeVars == <<row, rev, incSeq, now>>
producerVars == <<scanQ, cmdQ, ledger>>
channelVars == <<inbox, spill, spillWake>>
actorVars == <<reg, pc, roundNow, budget, carry, blocked, inFlight, backoff, page, taken>>
boundVars == <<touches, failures>>
historyVars == <<existed, heard, reached, stale>>
vars == <<storeVars, producerVars, channelVars, actorVars, boundVars, historyVars>>

LocalKeys == Keys \ RemoteKeys

----------------------------------------------------------------------------
(* Observations.                                                           *)

\* Touched and Indexed both become an Existence for establish.  A batch of
\* indexed sessions is as many facts: observe applies them one by one.
Exists(k, incarnation, at, revision) ==
    [type |-> "exists", key |-> k, incarnation |-> incarnation, at |-> at,
     revision |-> revision]

Removed(k, incarnation, revision) ==
    [type |-> "removed", key |-> k, incarnation |-> incarnation, revision |-> revision]

BroadRemoval(revision) == [type |-> "broad", revision |-> revision]

RowChanged(k) == [type |-> "rowChanged", key |-> k]

Anonymous(a, at, generation) ==
    [type |-> "anonymous", agent |-> a, at |-> at, generation |-> generation]

Covered(a, through) == [type |-> "covered", agent |-> a, through |-> through]

EmptySpill == [removed |-> [k \in Keys |-> None], rows |-> {}, invalidated |-> FALSE,
               broad |-> None]

----------------------------------------------------------------------------
(* The store.  Every write raises the revision under the store mutex; the  *)
(* history records the incarnations that the new revision holds.           *)

Stored == {k \in Keys : row[k] # None}

Commit ==
    /\ rev < MaxRevision
    /\ rev' = rev + 1
    /\ existed' = existed \cup {<<k, row'[k].incarnation, rev + 1>> : k \in Stored'}

\* upsert_sessions_locked and allocate_incarnation_in: an update keeps the
\* incarnation, a new row takes the next one.  The record brings the activity
\* time at; the stored epoch keeps the old one or takes it, by the activity
\* sources of the two (the maximum when they agree).
Upsert(k, at, epoch) ==
    LET incarnation == IF row[k] = None THEN incSeq + 1 ELSE row[k].incarnation IN
    /\ row[k] = None => incSeq < MaxIncarnation
    /\ incSeq' = IF row[k] = None THEN incSeq + 1 ELSE incSeq
    /\ row' = [row EXCEPT ![k] = [incarnation |-> incarnation, epoch |-> epoch]]
    /\ Commit
    /\ epoch \in {at} \cup (IF row[k] = None THEN {} ELSE {row[k].epoch})
    /\ reached' = [reached EXCEPT ![k] = IF row[k] = None THEN at ELSE Max2(@, at)]
    /\ heard' = [heard EXCEPT ![k] = IF row[k] = None THEN at
                                     ELSE IF OutOfWindow(at, now) THEN @ ELSE Max2(@, at)]
    /\ UNCHANGED now

\* delete_session_in for each key of S, in one transaction.
Delete(S) ==
    /\ row' = [k \in Keys |-> IF k \in S THEN None ELSE row[k]]
    /\ Commit
    /\ UNCHANGED <<incSeq, now, heard, reached>>

----------------------------------------------------------------------------
(* The scan path.  One task commits and then awaits its reports in order,  *)
(* so it starts an operation only when the last one's reports are sent.    *)

\* upsert and indexed_sessions_for_report: a row outside the window is stored
\* but not reported.
ScanUpsert(k, at) ==
    /\ "upsert" \in Producers
    /\ scanQ = <<>>
    /\ at <= now
    /\ \E epoch \in Epochs : Upsert(k, at, epoch)
    /\ scanQ' = IF OutOfWindow(at, now) THEN <<>>
                ELSE <<Exists(k, row'[k].incarnation, at, rev')>>
    /\ UNCHANGED <<cmdQ, ledger, stale, channelVars, actorVars, boundVars>>

\* delete_rejected
ScanReject(k) ==
    /\ "reject" \in Producers
    /\ scanQ = <<>>
    /\ row[k] # None
    /\ Delete({k})
    /\ scanQ' = <<Removed(k, row[k].incarnation, rev')>>
    /\ UNCHANGED <<cmdQ, ledger, stale, channelVars, actorVars, boundVars>>

\* report_touched: the identity of the row and the revision are read in one
\* critical section, the report follows.
ScanTouch(k) ==
    /\ "touch" \in Producers
    /\ scanQ = <<>>
    /\ touches < MaxTouches
    /\ row[k] # None
    /\ touches' = touches + 1
    /\ scanQ' = <<Exists(k, row[k].incarnation, now, rev)>>
    /\ heard' = [heard EXCEPT ![k] = Max2(@, now)]
    /\ reached' = [reached EXCEPT ![k] = Max2(@, now)]
    /\ UNCHANGED <<storeVars, cmdQ, ledger, channelVars, actorVars, failures, existed, stale>>

\* AnonymousLedger::issue
ScanAnonymous(a) ==
    LET generation == ledger.next + 1 IN
    /\ scanQ = <<>>
    /\ ledger.next < MaxGeneration
    /\ ledger' = [ledger EXCEPT !.next = generation,
                                !.outstanding[a] = generation, !.at[a] = now]
    /\ scanQ' = <<Anonymous(a, now, generation)>>
    /\ UNCHANGED <<storeVars, cmdQ, channelVars, actorVars, boundVars, historyVars>>

\* AnonymousLedger::capture at the start of a pass over a.
PassStart(a) ==
    /\ ledger.captured[a] = 0 /\ ledger.outstanding[a] # 0
    /\ ledger' = [ledger EXCEPT !.captured[a] = ledger.outstanding[a]]
    /\ UNCHANGED <<storeVars, scanQ, cmdQ, channelVars, actorVars, boundVars, historyVars>>

\* A pass that succeeds reports its covers after everything else it reported,
\* and settles them; a failed or cancelled pass covers nothing.
PassEnd(a, success) ==
    LET through == ledger.captured[a] IN
    /\ scanQ = <<>>
    /\ through # 0
    /\ ledger' = [ledger EXCEPT !.captured[a] = 0,
                                !.outstanding[a] = IF success /\ @ <= through THEN 0 ELSE @]
    /\ scanQ' = IF success THEN <<Covered(a, through)>> ELSE <<>>
    /\ UNCHANGED <<storeVars, cmdQ, channelVars, actorVars, boundVars, historyVars>>

\* report_async: the send waits until the inbox has room.
ScanSend ==
    /\ scanQ # <<>>
    /\ Len(inbox) < InboxCap
    /\ inbox' = Append(inbox, Head(scanQ))
    /\ scanQ' = Tail(scanQ)
    /\ UNCHANGED <<storeVars, cmdQ, ledger, spill, spillWake, actorVars, boundVars, historyVars>>

----------------------------------------------------------------------------
(* Commands, retention and analysis: commit on their own threads, report   *)
(* later, in any order.                                                    *)

\* delete_session of a command
CommandDelete(k) ==
    /\ "delete" \in Producers
    /\ row[k] # None
    /\ Delete({k})
    /\ cmdQ' = cmdQ \cup {Removed(k, row[k].incarnation, rev')}
    /\ UNCHANGED <<scanQ, ledger, stale, channelVars, actorVars, boundVars>>

\* clear_local_session_data (S is every row), a retention purge or a
\* repository opt-out: rows go, the report names none of them.
CommandBroad(S) ==
    /\ "broad" \in Producers
    /\ S # {}
    /\ Delete(S)
    /\ cmdQ' = cmdQ \cup {BroadRemoval(rev')}
    /\ UNCHANGED <<scanQ, ledger, stale, channelVars, actorVars, boundVars>>

\* A published analysis: the row changed, its identity and activity did not.
AnalysisPublish(k) ==
    /\ "analysis" \in Producers
    /\ row[k] # None
    /\ UNCHANGED row
    /\ Commit
    /\ stale' = stale \cup {k}
    /\ cmdQ' = cmdQ \cup {RowChanged(k)}
    /\ UNCHANGED <<incSeq, now, scanQ, ledger, channelVars, actorVars, boundVars, heard,
                   reached>>

\* Spill::fold_broad
FoldBroad(s, revision) == [s EXCEPT !.broad = Require(@, revision)]

\* Mutant of Fold: a row change or a removal that finds no free cell is lost.
FoldDropsOverflow(s, o) ==
    IF o.type = "broad" THEN FoldBroad(s, o.revision)
    ELSE IF o.type = "rowChanged"
    THEN IF Cardinality(s.rows) < SpillCap THEN [s EXCEPT !.rows = @ \cup {o.key}] ELSE s
    ELSE IF Cardinality({k \in Keys : s.removed[k] # None}) < SpillCap
    THEN [s EXCEPT !.removed[o.key] =
            [incarnation |-> o.incarnation, absent_at |-> o.revision]]
    ELSE s

\* Spill::fold
Fold(s, o) ==
    IF o.type = "broad" THEN FoldBroad(s, o.revision)
    ELSE IF o.type = "rowChanged"
    THEN IF o.key \in s.rows \/ Cardinality(s.rows) < SpillCap
         THEN [s EXCEPT !.rows = @ \cup {o.key}]
         ELSE [s EXCEPT !.invalidated = TRUE]
    ELSE LET cell == s.removed[o.key] IN
         IF cell # None
         THEN [s EXCEPT !.removed[o.key] =
                 [incarnation |-> Max2(cell.incarnation, o.incarnation),
                  absent_at |-> Max2(cell.absent_at, o.revision)]]
         ELSE IF Cardinality({k \in Keys : s.removed[k] # None}) < SpillCap
         THEN [s EXCEPT !.removed[o.key] =
                 [incarnation |-> o.incarnation, absent_at |-> o.revision]]
         ELSE FoldBroad(s, o.revision)

\* report: one sync report reaches the inbox, or the spill when it is full.
Report(o) ==
    /\ cmdQ' = cmdQ \ {o}
    /\ IF Len(inbox) < InboxCap
       THEN inbox' = Append(inbox, o) /\ UNCHANGED <<spill, spillWake>>
       ELSE spill' = Fold(spill, o) /\ spillWake' = TRUE /\ UNCHANGED inbox
    /\ UNCHANGED <<storeVars, scanQ, ledger, actorVars, boundVars, historyVars>>

----------------------------------------------------------------------------
(* Presence reads, on the blocking pool.                                   *)

\* The rows a page of active sessions returns: newest first, ties by
\* descending key, strictly after the cursor.
Precedes(j, k) == \/ row[j].epoch > row[k].epoch
                  \/ row[j].epoch = row[k].epoch /\ j > k

AfterCursor(k, cursor) ==
    \/ cursor = None
    \/ row[k].epoch < cursor.epoch
    \/ row[k].epoch = cursor.epoch /\ k < cursor.key

\* The first PageSize of them in that order.
ActivePages(recovery) ==
    LET S == {k \in Stored : row[k].epoch >= recovery.since /\ AfterCursor(k, recovery.cursor)}
        size == IF Cardinality(S) < PageSize THEN Cardinality(S) ELSE PageSize
        first(p) == /\ \A m, n \in 1..size : m < n => Precedes(p[m], p[n])
                    /\ \A n \in 1..size, k \in S : Precedes(k, p[n]) =>
                          \E m \in 1..size : p[m] = k
    IN {[n \in 1..size |-> [key |-> p[n], incarnation |-> row[p[n]].incarnation,
                            epoch |-> row[p[n]].epoch]] :
           p \in {q \in [1..size -> S] : first(q)}}

\* session_presence_for_keys and sessions_active_since_page: rows and revision
\* come from one critical section.
ReadPage ==
    /\ inFlight # None /\ inFlight.status = "reading"
    /\ \E active \in IF inFlight.request.class = "recovery"
                      THEN ActivePages(reg.recovery) ELSE {<<>>} :
         inFlight' =
            [inFlight EXCEPT !.status = "ok",
                             !.revision = rev,
                             !.rows = [k \in Keys |-> IF k \in inFlight.request.keys
                                                      THEN row[k] ELSE None],
                             !.active = active]
    /\ UNCHANGED <<storeVars, producerVars, channelVars, reg, pc, roundNow, budget, carry,
                   blocked, backoff, page, taken, boundVars, historyVars>>

\* A read error, a panic or a cancellation of the task.
FailPage ==
    /\ inFlight # None /\ inFlight.status = "reading"
    /\ failures < MaxFailures
    /\ failures' = failures + 1
    /\ inFlight' = [inFlight EXCEPT !.status = "failed"]
    /\ UNCHANGED <<storeVars, producerVars, channelVars, reg, pc, roundNow, budget, carry,
                   blocked, backoff, page, taken, touches, historyVars>>

----------------------------------------------------------------------------
(* The actor.  A round is: select, expiry, one finished page (or the rest  *)
(* of a recovery page), the spill, a batch of facts, the next page.        *)

\* The arms of the select before the inbox, which is polled last.
FirstArms ==
    \/ spillWake
    \/ inFlight # None /\ inFlight.status # "reading"
    \/ RecoveryReady(reg)
    \/ carry # <<>> /\ ~blocked
    \/ Due(reg, now) # {}
    \/ inFlight = None /\ backoff = "elapsed" /\ WantsPage(reg)

Awake == FirstArms \/ (carry = <<>> /\ inbox # <<>>)

\* recv_many and receive_ready: the carry takes what the inbox holds, up to a
\* batch.
Drain ==
    LET n == IF Len(inbox) < DrainBatch THEN Len(inbox) ELSE DrainBatch IN
    /\ carry' = SubSeq(inbox, 1, n)
    /\ inbox' = SubSeq(inbox, n + 1, Len(inbox))

Select ==
    /\ pc = "select"
    /\ Awake
    /\ IF FirstArms THEN UNCHANGED <<carry, inbox>> ELSE Drain
    /\ pc' = "expire"
    /\ roundNow' = now
    /\ budget' = ExpireBatch
    /\ spillWake' = FALSE
    /\ UNCHANGED <<storeVars, producerVars, spill, reg, blocked, inFlight, backoff, page, taken,
                   boundVars, historyVars>>

\* sleep_until_instant: the retry interval of a failed page has passed.
BackoffElapses ==
    /\ backoff = "waiting"
    /\ backoff' = "elapsed"
    /\ UNCHANGED <<storeVars, producerVars, channelVars, reg, pc, roundNow, budget, carry,
                   blocked, inFlight, page, taken, boundVars, historyVars>>

ExpiryOver == budget = 0 \/ Due(reg, roundNow) = {}

\* expire, one deadline: the earliest.
Expire ==
    /\ pc = "expire" /\ ~ExpiryOver
    /\ \E d \in Due(reg, roundNow) :
         /\ \A e \in Due(reg, roundNow) : d[1] <= e[1]
         /\ reg' = ExpireOne(reg, d, roundNow)
    /\ budget' = budget - 1
    /\ UNCHANGED <<storeVars, producerVars, channelVars, pc, roundNow, carry, blocked,
                   inFlight, backoff, page, taken, boundVars, historyVars>>

\* apply_page, a presence page: its keys are applied under one lock.
PageArrives ==
    /\ pc = "expire" /\ ExpiryOver
    /\ inFlight # None /\ inFlight.status = "ok"
    /\ inFlight.request.class # "recovery"
    /\ page' = [class |-> inFlight.request.class, rest |-> inFlight.request.keys,
                rows |-> inFlight.rows, revision |-> inFlight.revision]
    /\ inFlight' = None
    /\ backoff' = "none"
    /\ pc' = "rows"
    /\ UNCHANGED <<storeVars, producerVars, channelVars, reg, roundNow, budget, carry,
                   blocked, taken, boundVars, historyVars>>

\* apply_page, a recovery page.
RecoveryPageArrives ==
    /\ pc = "expire" /\ ExpiryOver
    /\ inFlight # None /\ inFlight.status = "ok"
    /\ inFlight.request.class = "recovery"
    /\ reg' = HoldRecoveryPage(reg, inFlight.active, inFlight.revision)
    /\ inFlight' = None
    /\ backoff' = "none"
    /\ pc' = IF reg'.recovery = None THEN "spill" ELSE "recover"
    /\ UNCHANGED <<storeVars, producerVars, channelVars, roundNow, budget, carry, blocked,
                   page, taken, boundVars, historyVars>>

\* apply_page, a failed read: requirements and cursor stay, the retry waits.
PageFailed ==
    /\ pc = "expire" /\ ExpiryOver
    /\ inFlight # None /\ inFlight.status = "failed"
    /\ inFlight' = None
    /\ backoff' = "waiting"
    /\ pc' = "spill"
    /\ UNCHANGED <<storeVars, producerVars, channelVars, reg, roundNow, budget, carry,
                   blocked, page, taken, boundVars, historyVars>>

NoPage ==
    /\ pc = "expire" /\ ExpiryOver
    /\ inFlight # None => inFlight.status = "reading"
    /\ pc' = IF RecoveryReady(reg) THEN "recover" ELSE "spill"
    /\ UNCHANGED <<storeVars, producerVars, channelVars, reg, roundNow, budget, carry,
                   blocked, inFlight, backoff, page, taken, boundVars, historyVars>>

\* One key of the page, in key order; after the last one the walk advances.
PageRow ==
    /\ pc = "rows"
    /\ \E k \in page.rest :
         LET applied == ApplyRow(reg, k, page.rows, page.revision, roundNow)
             last == page.rest = {k}
         IN /\ \A j \in page.rest : k <= j
            /\ reg' = IF last /\ page.class = "walk" THEN AdvanceWalk(applied, k) ELSE applied
            /\ page' = IF last THEN None ELSE [page EXCEPT !.rest = @ \ {k}]
            /\ pc' = IF last THEN "spill" ELSE "rows"
    /\ UNCHANGED <<storeVars, producerVars, channelVars, roundNow, budget, carry, blocked,
                   inFlight, backoff, taken, boundVars, historyVars>>

\* apply_recovery, one row: a full pending set stops it.
RecoveryRow ==
    /\ pc = "recover"
    /\ reg.recovery.page.rows # <<>>
    /\ LET t == RecoverRow(reg, roundNow) IN
       /\ reg' = t.reg
       /\ pc' = IF t.touch = "blocked" THEN "spill" ELSE "recover"
    /\ UNCHANGED <<storeVars, producerVars, channelVars, roundNow, budget, carry, blocked,
                   inFlight, backoff, page, taken, boundVars, historyVars>>

RecoveryPageEnds ==
    /\ pc = "recover"
    /\ reg.recovery.page.rows = <<>>
    /\ reg' = FinishRecoveryPage(reg)
    /\ pc' = "spill"
    /\ UNCHANGED <<storeVars, producerVars, channelVars, roundNow, budget, carry, blocked,
                   inFlight, backoff, page, taken, boundVars, historyVars>>

\* take_spill, and the row cells of apply_spill: Updated tells the clients.
TakeSpill ==
    /\ pc = "spill"
    /\ taken' = spill
    /\ spill' = EmptySpill
    /\ stale' = stale \ spill.rows
    /\ pc' = IF spill = EmptySpill THEN "receive" ELSE "cells"
    /\ UNCHANGED <<storeVars, producerVars, inbox, spillWake, reg, roundNow, budget, carry,
                   blocked, inFlight, backoff, page, boundVars, existed, heard, reached>>

TakenKeys == {k \in Keys : taken.removed[k] # None}

\* apply_spill, one keyed removal, in key order.
SpillRemoval ==
    /\ pc = "cells"
    /\ \E k \in TakenKeys :
         /\ \A j \in TakenKeys : k <= j
         /\ reg' = Remove(reg, k, taken.removed[k].incarnation, taken.removed[k].absent_at)
         /\ taken' = [taken EXCEPT !.removed[k] = None]
    /\ UNCHANGED <<storeVars, producerVars, channelVars, pc, roundNow, budget, carry, blocked,
                   inFlight, backoff, page, boundVars, historyVars>>

\* apply_spill, the broad removal and the invalidation that follow.
SpillRest ==
    /\ pc = "cells"
    /\ TakenKeys = {}
    /\ reg' = IF taken.broad = None THEN reg ELSE Broad(reg, taken.broad)
    /\ stale' = IF taken.invalidated THEN {} ELSE stale
    /\ taken' = EmptySpill
    /\ pc' = "receive"
    /\ UNCHANGED <<storeVars, producerVars, channelVars, roundNow, budget, carry, blocked,
                   inFlight, backoff, page, boundVars, existed, heard, reached>>

\* The carry is empty when the inbox arm did not fill it.
Receive ==
    /\ pc = "receive"
    /\ IF carry = <<>> THEN Drain ELSE UNCHANGED <<carry, inbox>>
    /\ budget' = DrainWeight
    /\ pc' = "facts"
    /\ UNCHANGED <<storeVars, producerVars, spill, spillWake, reg, roundNow, blocked, inFlight,
                   backoff, page, taken, boundVars, historyVars>>

\* observe, for every observation but an existence.
ObserveOther(r, o) ==
    CASE o.type = "removed" -> Remove(r, o.key, o.incarnation, o.revision)
      [] o.type = "broad" -> Broad(r, o.revision)
      [] o.type = "anonymous" -> AnonymousTouch(r, o.agent, o.at, o.generation, roundNow)
      [] o.type = "covered" -> Cover(r, o.agent, o.through)
      [] o.type = "rowChanged" -> r

\* apply_facts, one fact; a full pending set keeps it at the head.
ApplyFact ==
    /\ pc = "facts" /\ budget > 0 /\ carry # <<>>
    /\ LET o == Head(carry)
           fact == [incarnation |-> o.incarnation, at |-> o.at, revision |-> o.revision]
           t == IF o.type = "exists" THEN Observe(reg, o.key, fact, roundNow)
                ELSE Touched(ObserveOther(reg, o), "unchanged")
           full == t.touch = "blocked"
       IN /\ reg' = t.reg
          /\ carry' = IF full THEN carry ELSE Tail(carry)
          /\ budget' = IF full THEN budget ELSE budget - 1
          /\ blocked' = full
          /\ pc' = IF full THEN "issue" ELSE "facts"
          /\ stale' = IF o.type = "rowChanged" THEN stale \ {o.key} ELSE stale
    /\ UNCHANGED <<storeVars, producerVars, channelVars, roundNow, inFlight, backoff, page,
                   taken, boundVars, existed, heard, reached>>

FactsEnd ==
    /\ pc = "facts"
    /\ budget = 0 \/ carry = <<>>
    /\ blocked' = FALSE
    /\ pc' = "issue"
    /\ UNCHANGED <<storeVars, producerVars, channelVars, reg, roundNow, budget, carry,
                   inFlight, backoff, page, taken, boundVars, historyVars>>

Reading(request) ==
    [request |-> request, status |-> "reading", revision |-> 0,
     rows |-> [k \in Keys |-> None], active |-> <<>>]

\* Mutant of StillBlocked: the flag keeps the value it had before the pruning.
StillBlockedUnrefreshed(r) == blocked

\* The wake condition of a blocked carry after the page selection, which may
\* have pruned the pending set.
StillBlocked(r) == blocked /\ Cardinality(Waiting(r)) = PendingCap

\* issue_page, and the end of the round.
Issue ==
    /\ pc = "issue"
    /\ IF inFlight = None /\ backoff # "waiting"
       THEN LET n == NextPage(reg, roundNow) IN
            /\ reg' = n.reg
            /\ inFlight' = IF n.request = None THEN None ELSE Reading(n.request)
            /\ blocked' = StillBlocked(n.reg)
       ELSE UNCHANGED <<reg, inFlight, blocked>>
    /\ pc' = "select"
    /\ UNCHANGED <<storeVars, producerVars, channelVars, roundNow, budget, carry, backoff,
                   page, taken, boundVars, historyVars>>

----------------------------------------------------------------------------
Tick ==
    /\ now < MaxTime
    /\ now' = now + 1
    /\ UNCHANGED <<row, rev, incSeq, producerVars, channelVars, actorVars, boundVars,
                   historyVars>>

\* Rows that exist at startup have incarnation 0 (V51 gives it to old rows).
\* Seeding reads pages silently and makes their recent rows live.
SeedKeys == {k \in Stored : k \notin RemoteKeys /\ ~OutOfWindow(row[k].epoch, StartTime)}

SeededRegistry(S) ==
    LET live == [k \in Keys |-> IF k \in S THEN Seeded(row[k], 0, StartTime) ELSE None]
        on == {k \in Keys : live[k] # None}
    IN [Empty EXCEPT !.live = live,
                     !.working = Cardinality({k \in on : ~live[k].quiet_published}),
                     !.deadlines = {SessionDeadline(k, live[k]) : k \in on},
                     !.view = [k \in Keys |-> IF live[k] = None THEN "absent"
                                              ELSE IF live[k].quiet_published THEN "quiet"
                                              ELSE "working"]]

\* Where the seed stands when a page fails: at the start, or behind a full page.
SeedCursors ==
    LET listed == {k \in Stored : row[k].epoch >= StartTime - ActiveWindow}
        fills(k) == Cardinality({j \in listed : ~Precedes(k, j)}) % PageSize = 0
    IN {None} \cup {[epoch |-> row[k].epoch, key |-> k] : k \in {j \in listed : fills(j)}}

\* When a page fails, the actor starts with what the pages before it brought, and
\* with a recovery of the rows behind them.
UnseededRegistry(cursor) ==
    [SeededRegistry({k \in SeedKeys : ~AfterCursor(k, cursor)}) EXCEPT
        !.recovery = [since |-> StartTime - ActiveWindow, cursor |-> cursor, page |-> None]]

Init ==
    /\ row \in [Keys -> [incarnation : {0}, epoch : {e \in Epochs : e <= StartTime}] \cup {None}]
    /\ rev = 0 /\ incSeq = 0 /\ now = StartTime
    /\ scanQ = <<>> /\ cmdQ = {}
    /\ ledger = [next |-> 0, outstanding |-> [a \in Agents |-> 0],
                 captured |-> [a \in Agents |-> 0], at |-> [a \in Agents |-> 0]]
    /\ inbox = <<>> /\ spill = EmptySpill /\ spillWake = FALSE
    /\ \/ reg = SeededRegistry(SeedKeys) /\ backoff = "none"
       \/ /\ MaxFailures > 0 /\ backoff = "waiting"
          /\ \E cursor \in SeedCursors : reg = UnseededRegistry(cursor)
    /\ pc = "select" /\ roundNow = StartTime /\ budget = 0
    /\ carry = <<>> /\ blocked = FALSE /\ inFlight = None /\ page = None
    /\ taken = EmptySpill
    /\ touches = 0 /\ failures = 0
    /\ existed = {<<k, 0, 0>> : k \in Stored}
    /\ reached = [k \in Keys |-> IF row[k] = None THEN 0 ELSE row[k].epoch]
    /\ heard = [k \in Keys |-> IF reg.live[k] = None THEN StartTime - ActiveWindow
                                ELSE row[k].epoch]
    /\ stale = {}

Scan ==
    \/ \E k \in LocalKeys : ScanReject(k) \/ ScanTouch(k) \/ \E e \in Epochs : ScanUpsert(k, e)
    \/ \E a \in Agents : ScanAnonymous(a) \/ PassStart(a) \/ \E s \in BOOLEAN : PassEnd(a, s)

Command ==
    \/ \E k \in Keys : CommandDelete(k) \/ AnalysisPublish(k)
    \/ \E S \in SUBSET Stored : CommandBroad(S)

ReportSome == \E o \in cmdQ : Report(o)

ActorStep ==
    \/ Select \/ Expire
    \/ PageArrives \/ RecoveryPageArrives \/ PageFailed \/ NoPage
    \/ PageRow \/ RecoveryRow \/ RecoveryPageEnds
    \/ TakeSpill \/ SpillRemoval \/ SpillRest
    \/ Receive \/ ApplyFact \/ FactsEnd \/ Issue

Next ==
    \/ Scan \/ ScanSend
    \/ Command \/ ReportSome
    \/ ReadPage \/ FailPage \/ BackoffElapses
    \/ ActorStep
    \/ Tick

Spec == Init /\ [][Next]_vars

\* The actor task is never stopped while the app runs; a started read returns;
\* a timer fires; a producer that has a report to make makes it.
Fairness ==
    /\ WF_vars(ActorStep)
    /\ WF_vars(ReadPage)
    /\ WF_vars(BackoffElapses)
    /\ WF_vars(ScanSend)
    /\ WF_vars(ReportSome)

FairSpec == Spec /\ Fairness

----------------------------------------------------------------------------
(* Types.                                                                  *)

ExistsObs == [type : {"exists"}, key : Keys, incarnation : Incarnation, at : Time,
              revision : Revision]
RemovedObs == [type : {"removed"}, key : Keys, incarnation : Incarnation,
               revision : Revision]
BroadObs == [type : {"broad"}, revision : Revision]
RowObs == [type : {"rowChanged"}, key : Keys]
AnonymousObs == [type : {"anonymous"}, agent : Agents, at : Time, generation : Nat]
CoveredObs == [type : {"covered"}, agent : Agents, through : Nat]
SyncObservation == RemovedObs \cup BroadObs \cup RowObs
Observation == SyncObservation \cup ExistsObs \cup AnonymousObs \cup CoveredObs

Spill == [removed : [Keys -> Deletion \cup {None}], rows : SUBSET Keys,
          invalidated : BOOLEAN, broad : Revision \cup {None}]

PageRequest == [class : PageClass, keys : SUBSET Keys]

PageOutcome == [request : PageRequest, status : {"reading", "ok", "failed"},
                revision : Revision, rows : [Keys -> Presence \cup {None}],
                active : Seq(ActiveRow)]

PageInHand == [class : PageClass, rest : SUBSET Keys,
               rows : [Keys -> Presence \cup {None}], revision : Revision]

ASSUME NoneIsNoPage == None \notin PageRequest \cup PageOutcome \cup PageInHand

StoreTypeOK ==
    /\ row \in [Keys -> Presence \cup {None}]
    /\ rev \in Revision /\ incSeq \in Incarnation /\ now \in Nat
    /\ existed \subseteq Keys \X Incarnation \X Revision
    /\ heard \in [Keys -> Time] /\ reached \in [Keys -> Time]
    /\ stale \subseteq Keys

ChannelTypeOK ==
    /\ scanQ \in Seq(Observation) /\ cmdQ \subseteq SyncObservation
    /\ ledger \in [next : Nat, outstanding : [Agents -> Nat], captured : [Agents -> Nat],
                    at : [Agents -> Time]]
    /\ inbox \in Seq(Observation) /\ spill \in Spill /\ spillWake \in BOOLEAN

ActorTypeOK ==
    /\ reg \in Registry
    /\ pc \in {"select", "expire", "rows", "recover", "spill", "cells", "receive", "facts",
               "issue"}
    /\ roundNow \in Nat /\ budget \in Nat
    /\ carry \in Seq(Observation) /\ blocked \in BOOLEAN
    /\ inFlight \in PageOutcome \cup {None}
    /\ backoff \in {"none", "waiting", "elapsed"}
    /\ page \in PageInHand \cup {None} /\ taken \in Spill
    /\ touches \in Nat /\ failures \in Nat

\* Every variable of the model has its type; the caps of the code hold: the
\* inbox, the spill, the pending set and the deletion memory are bounded.
TypeOK ==
    /\ StoreTypeOK /\ ChannelTypeOK /\ ActorTypeOK
    /\ Len(inbox) <= InboxCap
    /\ Cardinality(spill.rows) <= SpillCap
    /\ Cardinality({k \in Keys : spill.removed[k] # None}) <= SpillCap
    /\ Cardinality(Waiting(reg)) <= PendingCap
    /\ Cardinality(Remembered(reg.deleted)) <= DeletionCap

----------------------------------------------------------------------------
(* Properties.                                                             *)

\* Once the registry has applied the absence of an incarnation, no late fact
\* (a delayed Touched or Indexed, a stale page, a deferred admission) makes
\* that incarnation or an older one of the key live again, even after the
\* bounded deletion memory of remember() has forgotten the key.
NoResurrection ==
    \A k \in Keys : reg.live[k] # None => reg.live[k].incarnation > reg.gone[k]

\* establish() and apply_present_row() never import the activity of another
\* incarnation: the entry of the stored incarnation is never newer than what
\* was written or reported for that incarnation.
NoForeignActivity ==
    \A k \in Keys :
        reg.live[k] # None /\ row[k] # None /\ reg.live[k].incarnation = row[k].incarnation
            => reg.live[k].last_activity_at <= reached[k]

\* A key is live or waits for admission, never both: apply_absent_row() looks
\* at the live entry only when nothing waits.
LiveOrPending == \A k \in Keys : reg.live[k] = None \/ reg.pending[k] = None

\* The deadline index holds exactly one deadline per live session and
\* anonymous agent, and the working count is the number of live sessions that
\* are not quiet, after every insert, touch, replacement, removal and expiry.
IndexExact ==
    /\ reg.deadlines =
          {SessionDeadline(k, reg.live[k]) : k \in {j \in Keys : reg.live[j] # None}}
            \cup {AnonymousDeadline(a, reg.anonymous[a]) :
                     a \in {b \in Agents : reg.anonymous[b] # None}}
    /\ reg.working = Cardinality({k \in Keys : reg.live[k] # None
                                               /\ ~reg.live[k].quiet_published})

\* A client that starts from the seed and applies every lifecycle event
\* (Started, Activity, Quiet, Idle, AnonymousCleared) has the registry's live
\* set, quiet flags and anonymous agents: no transition is silent, also when
\* a higher incarnation replaces the live one and is itself deferred.
ViewExact ==
    /\ \A k \in Keys :
          reg.view[k] = IF reg.live[k] = None THEN "absent"
                        ELSE IF reg.live[k].quiet_published THEN "quiet" ELSE "working"
    /\ reg.anonymousView = {a \in Agents : reg.anonymous[a] # None}

\* Nothing is under way: every report is made and applied, no page is wanted.
Quiescent ==
    /\ scanQ = <<>> /\ cmdQ = {} /\ inbox = <<>> /\ carry = <<>>
    /\ spill = EmptySpill /\ pc = "select" /\ inFlight = None
    /\ ~WantsPage(reg) /\ reg.recovery = None
    /\ Due(reg, now) = {}

\* The activity the registry owes to the stored row of k.
Owed(k) == Max2(heard[k], row[k].epoch)

Recent(k) == row[k] # None /\ now - Owed(k) < ActiveWindow

\* Convergence after pending facts and reconciliation complete: a live entry
\* has a stored row, and a stored row with recent activity is live as its
\* present incarnation, with all of that activity.  An older incarnation may
\* stay only while the stored row has no recent activity of its own.
Converged ==
    Quiescent => \A k \in LocalKeys :
        /\ reg.live[k] # None => /\ row[k] # None
                                /\ reg.live[k].incarnation <= row[k].incarnation
        /\ Recent(k) => /\ reg.live[k] # None
                        /\ reg.live[k].incarnation = row[k].incarnation
                        /\ reg.live[k].last_activity_at >= Owed(k)

\* The stronger convergence that the contract's text states: reconciliation
\* leaves no deleted incarnation visible.
NoDeletedIncarnationVisible ==
    Quiescent => \A k \in LocalKeys :
        reg.live[k] # None => row[k] # None /\ reg.live[k].incarnation = row[k].incarnation

\* A published row change reaches the clients as an Updated event or as a list
\* invalidation, also when the inbox and the row cells of the spill are full.
NoLostRowChange == Quiescent => stale = {}

\* An anonymous touch that no successful pass has covered stays visible until
\* its deadline: a cover captured before the touch cannot clear it.
AnonymousTracked ==
    Quiescent => \A a \in Agents :
        ledger.outstanding[a] # 0 /\ now - ledger.at[a] < QuietWindow
            => /\ reg.anonymous[a] # None
               /\ reg.anonymous[a].generation = ledger.outstanding[a]
               /\ reg.anonymous[a].at = ledger.at[a]

\* The admission guards never move back, and the deletion memory of a key only
\* grows until it is evicted into forgotten_through.
GuardsGrow ==
    [][/\ reg'.forgotten_through >= reg.forgotten_through
       /\ reg'.broad_through >= reg.broad_through
       /\ \A k \in Keys : reg.deleted[k] # None =>
             IF reg'.deleted[k] = None
             THEN reg'.forgotten_through >= reg.deleted[k].absent_at
             ELSE /\ reg'.deleted[k].incarnation >= reg.deleted[k].incarnation
                  /\ reg'.deleted[k].absent_at >= reg.deleted[k].absent_at]_vars

\* Nothing can happen until a producer starts an operation or a deadline comes.
Asleep ==
    /\ pc = "select" /\ ~Awake
    /\ backoff # "waiting"
    /\ inFlight # None => inFlight.status # "reading"
    /\ cmdQ = {}
    /\ scanQ # <<>> => Len(inbox) >= InboxCap

\* No wakeup is lost: the actor sleeps only when no fact waits in the carry,
\* the inbox or the spill and no page is wanted.  A carry that a full pending
\* set blocked is retried when the page selection prunes that set.
NeverSleepsOnWork == Asleep => Quiescent

\* The actor serves all its work: whatever the producers did and whichever
\* reads failed, once they stop every fact is applied and every requirement of
\* the reconciliation is served, with a blocked carry retried.
Settles == <>[]Quiescent

----------------------------------------------------------------------------
(* The inductive invariant behind NoResurrection and LiveOrPending: what   *)
(* is under way between the store and the registry is true of the history. *)

\* The history ends with the rows of the store, and incSeq is above every
\* incarnation.
StoreInv ==
    /\ History(existed, rev)
    /\ \A k \in Keys : row[k] # None => <<k, row[k].incarnation, rev>> \in existed
    /\ \A x \in existed :
          /\ x[2] <= incSeq
          /\ x[3] = rev => row[x[1]] # None /\ row[x[1]].incarnation = x[2]

\* An existence names a revision that held the incarnation; a removal names
\* one from which on it was gone.
TrueObs(E, R) ==
    {o \in Observation :
        /\ o.type = "exists" => <<o.key, o.incarnation, o.revision>> \in E
        /\ o.type = "removed" => Gone(E, R, o.key, o.incarnation, o.revision)}

TrueSpill(s, E, R) ==
    \A k \in Keys : s.removed[k] # None =>
        Gone(E, R, k, s.removed[k].incarnation, s.removed[k].absent_at)

ReportInv ==
    /\ scanQ \in Seq(TrueObs(existed, rev)) /\ cmdQ \subseteq TrueObs(existed, rev)
    /\ inbox \in Seq(TrueObs(existed, rev)) /\ carry \in Seq(TrueObs(existed, rev))
    /\ TrueSpill(spill, existed, rev) /\ TrueSpill(taken, existed, rev)

\* For the keys of S, rows is what the store held at revision q.
Snapshot(S, rows, q, E, R) ==
    /\ q <= R
    /\ \A k \in S : IF rows[k] = None THEN \A x \in E : x[1] = k => x[3] # q
                    ELSE <<k, rows[k].incarnation, q>> \in E

ReadInv ==
    /\ inFlight # None /\ inFlight.status = "ok" =>
          /\ Snapshot(inFlight.request.keys, inFlight.rows, inFlight.revision, existed, rev)
          /\ RowsTrue(inFlight.active, existed, inFlight.revision)
    /\ page # None => Snapshot(page.rest, page.rows, page.revision, existed, rev)
    /\ pc = "rows" => page # None
    /\ pc = "recover" => reg.recovery # None /\ reg.recovery.page # None

Truthful ==
    /\ StoreTypeOK /\ ChannelTypeOK /\ ActorTypeOK
    /\ StoreInv /\ ReportInv /\ ReadInv
    /\ RegistryInv(reg, existed, rev)
==========================================================================
