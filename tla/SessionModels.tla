--------------------------- MODULE SessionModels ---------------------------
(***************************************************************************)
(* The model evidence of the live sessions (session_lifecycle/models.rs):  *)
(* one slot per live session, filled by pages that the projection task     *)
(* (session_projection.rs) reads from the store and the lifecycle actor    *)
(* applies.  A publication, its report, the page that reads it and the     *)
(* reply that applies it are separate steps of four tasks.                 *)
(*                                                                         *)
(* The registry is reduced here to its live set: sessions enter, advance   *)
(* and leave it as SessionLifecycle lets them.  Left out: the counts per   *)
(* agent that sweep_counts derives from the slots, and the route and       *)
(* vendor that ExecutionMetadata derives from the model.                   *)
(***************************************************************************)
EXTENDS Integers, FiniteSets, Sequences, SequencesExt

CONSTANTS
    NumKeys,          \* the sessions, in the order advance_broad walks them
    Models,           \* the model names a published turn can carry
    None,
    ModelPage,        \* MODEL_PAGE
    \* Bounds on the behaviours explored.
    MaxRevision, MaxEpoch, MaxFailures, MaxEntries

ASSUME ModelsAssumption ==
    /\ NumKeys \in Nat
    /\ ModelPage \in Nat \ {0}
    /\ MaxRevision \in Nat /\ MaxEpoch \in Nat
    /\ MaxFailures \in Nat /\ MaxEntries \in Nat

Keys == 1..NumKeys

\* One session of Models, a live session of the registry, a row of the answer
\* to published_models_for_keys, a request of a page and a page on its way.
Slot == [epoch : Nat, ticket : Nat, accepted : Nat,
         status : {"pending", "failed", "ready"}, model : Models \cup {None}]

LiveEntry == [incarnation : Nat, exists_at : Nat]

PublishedModel == [incarnation : Nat, model : Models \cup {None}]

ModelRequest == [key : Keys, incarnation : Nat, epoch : Nat, ticket : Nat, minimum : Nat]

Page == [requests : Seq(ModelRequest), status : {"reading", "ok", "failed"},
         revision : Nat, rows : [Keys -> PublishedModel \cup {None}]]

\* None is distinguishable from every value it stands in for.
ASSUME NoneAssumption ==
    /\ None \notin Nat \cup Models
    /\ None \notin Slot \cup LiveEntry \cup PublishedModel \cup Page

VARIABLES
    row,        \* row[k]: incarnation and published model of the stored session, or None
    rev,        \* the writer's revision
    reports,    \* the keys with a RowChanged report that is not yet applied
    live,       \* live[k]: incarnation and exists_at of the live entry, or None
    models,     \* the struct Models
    load,       \* the page of the projection task, or None
    wake,       \* the projection task will ask for a page
    timer,      \* it sleeps until the first due retry
    failures, entries   \* bound counters

vars == <<row, rev, reports, live, models, load, wake, timer, failures, entries>>

----------------------------------------------------------------------------
(* The struct Models.  queue holds the tickets that are due, in due order; *)
(* waiting the ones whose backoff has not passed.                          *)

Execution(m, k) ==
    IF m.slots[k] = None \/ m.slots[k].epoch # m.epoch \/ m.slots[k].status # "ready"
    THEN None ELSE m.slots[k].model

\* The ticket of a slot, wherever it is.
Unqueue(m, k) ==
    LET q == [key |-> k, ticket |-> m.slots[k].ticket]
        at == {n \in 1..Len(m.queue) : m.queue[n] = q}
    IN [m EXCEPT !.queue = IF at = {} THEN @ ELSE RemoveAt(@, CHOOSE n \in at : TRUE),
                 !.waiting = @ \ {q}]

\* Models::remove
Forget(m, k) ==
    IF m.slots[k] = None THEN m
    ELSE [Unqueue(m, k) EXCEPT !.resolved = IF Execution(m, k) # None THEN @ - 1 ELSE @,
                               !.slots[k] = None]

\* Mutant of Invalidate: the execution version stays.
InvalidateSilent(m, k) ==
    LET accepted == IF m.slots[k] = None THEN 0 ELSE m.slots[k].accepted
        n == Forget(m, k)
        ticket == m.ticket + 1
    IN [n EXCEPT !.ticket = ticket,
                 !.slots[k] = [epoch |-> m.epoch, ticket |-> ticket, accepted |-> accepted,
                               status |-> "pending", model |-> None],
                 !.queue = Append(@, [key |-> k, ticket |-> ticket])]

\* Models::invalidate: a new ticket, due now.
Invalidate(m, k) ==
    LET accepted == IF m.slots[k] = None THEN 0 ELSE m.slots[k].accepted
        n == Forget(m, k)
        ticket == m.ticket + 1
    IN [n EXCEPT !.version = IF Execution(m, k) # None THEN @ + 1 ELSE @,
                 !.ticket = ticket,
                 !.slots[k] = [epoch |-> m.epoch, ticket |-> ticket, accepted |-> accepted,
                               status |-> "pending", model |-> None],
                 !.queue = Append(@, [key |-> k, ticket |-> ticket])]

\* Mutant of InvalidateAll: the slots that resolved stay counted.
InvalidateAllKeepsCount(m) ==
    [m EXCEPT !.version = IF m.resolved > 0 THEN @ + 1 ELSE @,
              !.epoch = @ + 1, !.broad = 0]

\* Models::invalidate_all: a new epoch; the slots follow page by page, from the
\* first key (0 is before every key).
InvalidateAll(m) ==
    [m EXCEPT !.version = IF m.resolved > 0 THEN @ + 1 ELSE @,
              !.resolved = 0, !.epoch = @ + 1, !.broad = 0]

\* The next page of slots after the cursor.
BroadPage(m) ==
    LET after == {k \in Keys : m.slots[k] # None /\ k > m.broad}
    IN {k \in after : Cardinality({j \in after : j < k}) < ModelPage}

\* The slots of a page that an epoch has passed, invalidated in key order.
InvalidateStale(m, page) ==
    LET upTo[k \in 0..NumKeys] ==
          IF k = 0 THEN m
          ELSE IF k \in page /\ m.slots[k].epoch # m.epoch THEN Invalidate(upTo[k - 1], k)
          ELSE upTo[k - 1]
    IN upTo[NumKeys]

\* Mutant of AdvanceBroad: a full page is taken for the last one.
AdvanceBroadOnce(m) ==
    IF m.broad = None THEN m
    ELSE InvalidateStale([m EXCEPT !.broad = None], BroadPage(m))

\* Models::advance_broad: a full page leaves the cursor at its last key.
AdvanceBroad(m) ==
    LET page == BroadPage(m)
        next == IF Cardinality(page) = ModelPage
                THEN CHOOSE k \in page : \A j \in page : j <= k ELSE None
    IN IF m.broad = None THEN m
       ELSE InvalidateStale([m EXCEPT !.broad = next], page)

\* Registry::model_page, the requests: the due tickets of live sessions.
Requests(m) ==
    LET size == IF Len(m.queue) < ModelPage THEN Len(m.queue) ELSE ModelPage
        upTo[n \in 0..size] ==
          IF n = 0 THEN <<>>
          ELSE LET k == m.queue[n].key IN
               IF live[k] = None \/ m.slots[k] = None THEN upTo[n - 1]
               ELSE Append(upTo[n - 1],
                      [key |-> k, incarnation |-> live[k].incarnation,
                       epoch |-> m.slots[k].epoch, ticket |-> m.queue[n].ticket,
                       minimum |-> IF live[k].exists_at > m.slots[k].accepted
                                   THEN live[k].exists_at ELSE m.slots[k].accepted])
    IN upTo[size]

\* The answer for a key is of the right incarnation and recent enough.
Valid(m, request, page) ==
    LET k == request.key IN
    /\ page.status = "ok"
    /\ page.revision >= request.minimum
    /\ page.revision >= live[k].exists_at
    /\ page.revision >= m.slots[k].accepted
    /\ page.rows[k] # None /\ page.rows[k].incarnation = request.incarnation

\* Mutant of Wanted: the answer to an old ticket is applied.
WantedByIdentity(m, request) ==
    LET k == request.key IN
    /\ live[k] # None /\ m.slots[k] # None
    /\ live[k].incarnation = request.incarnation
    /\ m.slots[k].epoch = request.epoch /\ m.epoch = request.epoch

\* The request is still the one the slot waits for.
Wanted(m, request) ==
    LET k == request.key IN
    /\ live[k] # None /\ m.slots[k] # None
    /\ live[k].incarnation = request.incarnation
    /\ m.slots[k].ticket = request.ticket
    /\ m.slots[k].epoch = request.epoch /\ m.epoch = request.epoch

\* apply_models, one request.
ApplyModel(m, request, page) ==
    LET k == request.key
        slot == m.slots[k]
        answered == [Unqueue(m, k) EXCEPT
                        !.slots[k] = [slot EXCEPT !.accepted = page.revision,
                                                  !.status = "ready",
                                                  !.model = page.rows[k].model]]
        retried == [Unqueue(m, k) EXCEPT
                        !.slots[k] = [slot EXCEPT !.status = "failed", !.model = None],
                        !.waiting = @ \cup {[key |-> k, ticket |-> slot.ticket]}]
        n == IF Valid(m, request, page) THEN answered ELSE retried
        before == Execution(m, k)
        after == Execution(n, k)
        bit(e) == IF e # None THEN 1 ELSE 0
    IN IF ~Wanted(m, request) THEN m
       ELSE IF before = after THEN n
       ELSE [n EXCEPT !.resolved = @ - bit(before) + bit(after), !.version = @ + 1]

\* apply_models
ApplyModels(m, page) ==
    LET upTo[n \in 0..Len(page.requests)] ==
          IF n = 0 THEN m ELSE ApplyModel(upTo[n - 1], page.requests[n], page)
    IN upTo[Len(page.requests)]

----------------------------------------------------------------------------
(* The store.                                                              *)

\* A publication of the insights worker, which reports it later.
Publish(k) ==
    /\ row[k] # None /\ rev < MaxRevision
    /\ rev' = rev + 1
    /\ \E m \in Models \ {row[k].model} : row' = [row EXCEPT ![k].model = m]
    /\ reports' = reports \cup {k}
    /\ UNCHANGED <<live, models, load, wake, timer, failures, entries>>

\* A deletion, and a new row that takes the next incarnation.
Recreate(k) ==
    /\ rev < MaxRevision
    /\ rev' = rev + 1
    /\ row' = [row EXCEPT ![k] = IF row[k] # None THEN None
                                 ELSE [incarnation |-> rev', model |-> None]]
    /\ UNCHANGED <<reports, live, models, load, wake, timer, failures, entries>>

----------------------------------------------------------------------------
(* The registry, under its lock; apply() wakes the projection task.        *)

\* insert_live: the entry of the stored session.
Enter(k) ==
    /\ live[k] = None /\ row[k] # None
    /\ entries < MaxEntries
    /\ entries' = entries + 1
    /\ live' = [live EXCEPT ![k] = [incarnation |-> row[k].incarnation, exists_at |-> rev]]
    /\ models' = Invalidate(Forget(models, k), k)
    /\ wake' = TRUE
    /\ UNCHANGED <<row, rev, reports, load, timer, failures>>

\* A later fact of the same incarnation.
Advance(k) ==
    /\ live[k] # None /\ row[k] # None
    /\ row[k].incarnation = live[k].incarnation
    /\ live[k].exists_at < rev
    /\ live' = [live EXCEPT ![k].exists_at = rev]
    /\ wake' = TRUE
    /\ UNCHANGED <<row, rev, reports, models, load, timer, failures, entries>>

\* remove_live
Leave(k) ==
    /\ live[k] # None
    /\ live' = [live EXCEPT ![k] = None]
    /\ models' = Forget(models, k)
    /\ wake' = TRUE
    /\ UNCHANGED <<row, rev, reports, load, timer, failures, entries>>

\* observe, RowChanged with new analysis.
RowChanged(k) ==
    /\ k \in reports
    /\ reports' = reports \ {k}
    /\ models' = IF live[k] # None THEN Invalidate(models, k) ELSE models
    /\ wake' = TRUE
    /\ UNCHANGED <<row, rev, live, load, timer, failures, entries>>

\* broad, or an Invalidated index change, which may stand for the row changes
\* that found no cell in the spill.
Broad(R) ==
    /\ models.epoch < MaxEpoch
    /\ reports' = reports \ R
    /\ models' = InvalidateAll(models)
    /\ wake' = TRUE
    /\ UNCHANGED <<row, rev, live, load, timer, failures, entries>>

----------------------------------------------------------------------------
(* The projection task.                                                    *)

Due(m) == m.queue # <<>> \/ m.broad # None

\* model_page: a step of the broad walk, the requests and the next wakeup.
SelectPage ==
    LET m == AdvanceBroad(models)
        requests == Requests(m)
    IN
    /\ load = None
    /\ wake \/ (timer /\ Due(models))
    /\ models' = m
    /\ load' = IF requests = <<>> THEN None
               ELSE [requests |-> requests, status |-> "reading", revision |-> 0,
                     rows |-> [k \in Keys |-> None]]
    /\ wake' = FALSE
    /\ timer' = (Due(m) \/ m.waiting # {})
    /\ UNCHANGED <<row, rev, reports, live, failures, entries>>

\* published_models_for_keys
ReadModels ==
    /\ load # None /\ load.status = "reading"
    /\ load' = [load EXCEPT !.status = "ok", !.revision = rev,
                            !.rows = [k \in Keys |->
                               IF \E n \in 1..Len(load.requests) : load.requests[n].key = k
                               THEN row[k] ELSE None]]
    /\ UNCHANGED <<row, rev, reports, live, models, wake, timer, failures, entries>>

FailRead ==
    /\ load # None /\ load.status = "reading"
    /\ failures < MaxFailures
    /\ failures' = failures + 1
    /\ load' = [load EXCEPT !.status = "failed"]
    /\ UNCHANGED <<row, rev, reports, live, models, wake, timer, entries>>

\* apply_reply of the actor, with the acknowledgement that the projection task
\* waits for before its next page.
ApplyReply ==
    /\ load # None /\ load.status # "reading"
    /\ models' = ApplyModels(models, load)
    /\ load' = None
    /\ wake' = TRUE
    /\ UNCHANGED <<row, rev, reports, live, timer, failures, entries>>

\* The backoff of a slot has passed.
BackoffElapses ==
    /\ \E q \in models.waiting :
         models' = [models EXCEPT !.waiting = @ \ {q}, !.queue = Append(@, q)]
    /\ UNCHANGED <<row, rev, reports, live, load, wake, timer, failures, entries>>

Init ==
    /\ row = [k \in Keys |-> [incarnation |-> 0, model |-> None]]
    /\ rev = 0 /\ reports = {}
    /\ live = [k \in Keys |-> None]
    /\ models = [epoch |-> 0, ticket |-> 0, version |-> 0, resolved |-> 0, broad |-> None,
                 slots |-> [k \in Keys |-> None], queue |-> <<>>, waiting |-> {}]
    /\ load = None /\ wake = TRUE /\ timer = FALSE
    /\ failures = 0 /\ entries = 0

Next ==
    \/ \E k \in Keys : Publish(k) \/ Recreate(k)
    \/ \E k \in Keys : Enter(k) \/ Advance(k) \/ Leave(k) \/ RowChanged(k)
    \/ \E R \in SUBSET reports : Broad(R)
    \/ SelectPage \/ ReadModels \/ FailRead \/ ApplyReply \/ BackoffElapses

Spec == Init /\ [][Next]_vars

\* The loop of the projection task, with the reply it waits for.
ProjectionTask == SelectPage \/ ReadModels \/ ApplyReply

\* The projection task and the actor run, a started read returns, a timer
\* fires, a report that was made is applied.
Fairness ==
    /\ WF_vars(ProjectionTask) /\ WF_vars(BackoffElapses)
    /\ \A k \in Keys : WF_vars(RowChanged(k))

FairSpec == Spec /\ Fairness
----------------------------------------------------------------------------
(* Properties.                                                             *)

\* The indexes of Models agree: a live session has a slot and no other does;
\* a slot without an answer has its ticket in the queue exactly once and no
\* other ticket is there; resolved counts the sessions with an execution.
SlotsExact ==
    LET on == {k \in Keys : models.slots[k] # None}
        queued == {models.queue[n] : n \in 1..Len(models.queue)} \cup models.waiting
    IN
    /\ models.slots \in [Keys -> Slot \cup {None}]
    /\ on = {k \in Keys : live[k] # None}
    /\ queued = {[key |-> k, ticket |-> models.slots[k].ticket] :
                    k \in {j \in on : models.slots[j].status # "ready"}}
    /\ Len(models.queue) + Cardinality(models.waiting) = Cardinality(queued)
    /\ models.resolved = Cardinality({k \in Keys : Execution(models, k) # None})

\* No report is under way and no page is wanted.
Settled ==
    /\ reports = {} /\ load = None /\ models.broad = None
    /\ models.queue = <<>>

\* A live session whose row is the one it was entered for.
Present(k) == live[k] # None /\ row[k] # None /\ row[k].incarnation = live[k].incarnation

\* When every report is applied and every page answered, the registry shows
\* the published model of each live session: no answer that was read before a
\* publication survives it, and a broad invalidation forgets no slot.
ModelsConverge ==
    Settled => \A k \in Keys :
        Present(k) => \/ models.slots[k].status = "failed"
                      \/ Execution(models, k) = row[k].model

\* The shown model of a session that stays live changes only with a new
\* execution version, which is what makes apply() publish SweepChanged.
VersionTells ==
    [][\A k \in Keys :
          /\ live[k] # None /\ live'[k] # None
          /\ Execution(models, k) # Execution(models', k)
          => models'.version > models.version]_vars

\* Every live session with a stored row gets its published model for good, after
\* failed reads and broad invalidations too, once the producers stop.
ModelsArrive ==
    <>[](\A k \in Keys : Present(k) => Execution(models, k) = row[k].model)
==========================================================================
