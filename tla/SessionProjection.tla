---------------------------- MODULE SessionProjection ----------------------------
(* The projection worker: it turns the events of the session registry into rows,  *)
(* list refreshes and lifecycle messages for the windows.                         *)
(*                                                                                *)
(* Rows are loaded on another thread while the worker keeps receiving.  The bus   *)
(* is bounded and drops its oldest event when the worker is slow; the worker then *)
(* asks the windows to read a snapshot and the list again.                        *)
(*                                                                                *)
(* Abstractions.  A row is a version for every facet that an update may name.     *)
(* Of the windows only what they have been told is kept: an emitted row tells its *)
(* facets, an index change tells everything stored so far, a recovery marker      *)
(* every lifecycle state so far.  Tickets and activity times only order the keys  *)
(* of one read, and the registry never publishes Resync: both are left out, and   *)
(* so is what the model reads return, the subject of SessionModels.               *)
EXTENDS Integers, Sequences, FiniteSets

CONSTANTS Keys, Facets,
          RowCap,           \* PENDING_ROW_CAP
          BusCap,           \* BUS_CAPACITY
          ReceiveBatch,     \* RECEIVE_BATCH
          MaxChanges,       \* bound on the changes of rows
          MaxLives,         \* bound on the changes of liveness alone
          MaxFailures       \* bound on failed loads

ASSUME ProjectionAssumption ==
    /\ "metadata" \in Facets
    /\ RowCap \in Nat \ {0} /\ BusCap \in Nat \ {0} /\ ReceiveBatch \in Nat \ {0}
    /\ MaxChanges \in Nat /\ MaxLives \in Nat /\ MaxFailures \in Nat

VARIABLES
    row,        \* the stored rows: there, and the version of every facet
    seq, lives, \* the sequence of the registry, and how much of it was liveness alone
    life,       \* the sequence of the last lifecycle event of every session
    sending,    \* events that have a sequence and are not yet on the bus
    bus, lagged,
    proj,       \* Projector
    load,       \* the load task, NoLoad for none
    timer,      \* flush_at: "off", "armed", "due"
    pc, drained,
    failures,
    sent,       \* history: the versions of the last event on the bus of every session
    told, seen  \* what the windows have been told of rows and of lifecycle states

vars == <<row, seq, lives, life, sending, bus, lagged, proj, load, timer, pc, drained, failures,
          sent, told, seen>>

storeVars == <<row, seq, lives, life, sending>>
busVars == <<bus, lagged>>

NoRows == [k \in Keys |-> {}]
NoBatch == [open |-> FALSE, rows |-> NoRows, invalidated |-> FALSE, retried |-> FALSE]
NoRecovery == [open |-> FALSE, watermark |-> 0, followUp |-> 0]
Zero == [f \in Facets |-> 0]
NoLoad == [status |-> "none", rows |-> [k \in Keys |-> [there |-> FALSE, ver |-> Zero]],
           left |-> {}]

Init ==
    /\ row = [k \in Keys |-> [there |-> TRUE, ver |-> Zero]]
    /\ seq = 0 /\ lives = 0
    /\ life = [k \in Keys |-> 0]
    /\ sending = <<>> /\ bus = <<>> /\ lagged = FALSE
    /\ proj = [rows |-> NoRows, refresh |-> FALSE, retry |-> FALSE, batch |-> NoBatch,
               recovery |-> NoRecovery]
    /\ load = NoLoad
    /\ timer = "off"
    /\ pc = "select" /\ drained = 0
    /\ failures = 0
    /\ sent = [k \in Keys |-> Zero]
    /\ told = [k \in Keys |-> row[k].ver]
    /\ seen = life

-----------------------------------------------------------------------------
(* The registry and the bus.                                                      *)

Bumped(r, F) == [r EXCEPT !.ver = [f \in Facets |-> IF f \in F THEN @[f] + 1 ELSE @[f]]]

(* apply: a change of the store or of a liveness takes a sequence.                *)
Event(type, keys, F, rows, live) ==
    /\ row' = rows
    /\ seq' = seq + 1
    /\ life' = [k \in Keys |-> IF k \in live THEN seq + 1 ELSE life[k]]
    /\ sending' = Append(sending,
                    [type |-> type, keys |-> keys, facets |-> F, seq |-> seq + 1,
                     ver |-> [k \in Keys |-> rows[k].ver]])
    /\ UNCHANGED <<busVars, proj, load, timer, pc, drained, failures, sent, told, seen>>

(* A row changes, or comes back after its deletion.                               *)
Updated(k, F) ==
    Event("updated", {k}, IF row[k].there THEN F ELSE Facets,
          [row EXCEPT ![k] = [Bumped(@, IF row[k].there THEN F ELSE Facets)
                                EXCEPT !.there = TRUE]], {})

(* Started, Activity, Quiet, AnonymousCleared and SweepChanged                     *)
Activity(k) ==
    /\ lives < MaxLives
    /\ lives' = lives + 1
    /\ Event("live", {k}, {}, row, {k})

(* Idle also changes the activity flag of the row.                                *)
Idle(k) ==
    Event("idle", {k}, {"metadata"},
          [row EXCEPT ![k] = IF @.there THEN Bumped(@, {"metadata"}) ELSE @], {k})

Removed(k) ==
    /\ row[k].there
    /\ Event("removed", {k}, {}, [row EXCEPT ![k].there = FALSE, ![k].ver =
                                    [f \in Facets |-> @[f] + 1]], {})

(* A broad removal, and a broad invalidation, of every row.                       *)
Broad(there) ==
    Event("broad", Keys, {},
          [k \in Keys |-> IF row[k].there
                          THEN [Bumped(row[k], Facets) EXCEPT !.there = there]
                          ELSE row[k]], {})

(* The bus keeps the last events; a receiver that misses some is told so.         *)
Send ==
    /\ sending # <<>>
    /\ sending' = Tail(sending)
    /\ bus' = Append(IF Len(bus) = BusCap THEN Tail(bus) ELSE bus, Head(sending))
    /\ lagged' = (lagged \/ Len(bus) = BusCap)
    /\ sent' = [k \in Keys |-> IF k \in Head(sending).keys THEN Head(sending).ver[k] ELSE sent[k]]
    /\ UNCHANGED <<row, seq, lives, life, proj, load, timer, pc, drained, failures, told, seen>>

BusReady == lagged \/ bus # <<>>

-----------------------------------------------------------------------------
(* Pending and Projector.                                                         *)

\* Mutant of NoteRow: the cap is not looked at.
NoteRowUncapped(p, k, F) == IF p.refresh THEN p ELSE [p EXCEPT !.rows[k] = @ \cup F]

(* note_row_with_ticket                                                           *)
NoteRow(p, k, F) ==
    IF p.refresh THEN p
    ELSE IF p.rows[k] # {} \/ Cardinality({j \in Keys : p.rows[j] # {}}) < RowCap
         THEN [p EXCEPT !.rows[k] = @ \cup F]
         ELSE [p EXCEPT !.rows = NoRows, !.refresh = TRUE]

InvalidateInFlight(p) == [p EXCEPT !.batch.invalidated = p.batch.open]

InvalidateRows(p) == InvalidateInFlight([p EXCEPT !.rows = NoRows, !.retry = FALSE])

(* lose                                                                           *)
Lose(p) == InvalidateRows([p EXCEPT !.refresh = TRUE])

\* Mutant of Retire: the loading row is not withdrawn.
RetireKeeps(p, k) == p

\* Mutant of Retire: the facets of the withdrawn row are forgotten.
RetireForgets(p, k) == [p EXCEPT !.batch.rows[k] = {}]

(* retire: a newer change withdraws the loading row and keeps its facets.         *)
Retire(p, k) ==
    IF p.batch.rows[k] = {} THEN p
    ELSE NoteRow([p EXCEPT !.batch.rows[k] = {}], k, p.batch.rows[k])

Noted(p, k, F) ==
    LET q == NoteRow(Retire(p, k), k, F)
    IN  IF q.refresh THEN InvalidateInFlight(q) ELSE q

(* absorb                                                                         *)
Absorbed(p, e) ==
    CASE e.type \in {"updated", "idle"} -> Noted(p, CHOOSE k \in e.keys : TRUE, e.facets)
      [] e.type = "live" -> p
      [] e.type = "removed" ->
            [p EXCEPT !.rows = [k \in Keys |-> IF k \in e.keys THEN {} ELSE @[k]],
                      !.batch.rows = [k \in Keys |-> IF k \in e.keys THEN {} ELSE @[k]]]
      [] e.type = "broad" -> InvalidateRows(p)

\* Mutant of AbsorbLag: a gap during a recovery is taken for a part of it.
AbsorbLagOnce(p, w) ==
    [Lose(p) EXCEPT !.recovery =
        IF @.open THEN @ ELSE [open |-> TRUE, watermark |-> w, followUp |-> 0]]

(* absorb_lag: a gap above the watermark of an open recovery waits for its end.   *)
AbsorbLag(p, w) ==
    [Lose(p) EXCEPT !.recovery =
        IF ~ @.open THEN [open |-> TRUE, watermark |-> w, followUp |-> 0]
        ELSE IF w > @.watermark /\ w > @.followUp THEN [@ EXCEPT !.followUp = w]
        ELSE @]

HasWork(p) == p.refresh \/ p.rows # NoRows

(* open_batch of an index refresh: the end of a recovery may start the next one.  *)
Refreshed(p) ==
    LET follow == p.recovery.followUp
    IN  [p EXCEPT !.rows = NoRows, !.retry = FALSE, !.refresh = follow # 0,
                  !.recovery = IF follow = 0 THEN NoRecovery
                               ELSE [open |-> TRUE, watermark |-> follow, followUp |-> 0]]

(* open_batch of rows                                                             *)
Opened(p) ==
    [p EXCEPT !.rows = NoRows, !.retry = FALSE,
              !.batch = [open |-> TRUE, rows |-> p.rows, invalidated |-> FALSE,
                         retried |-> p.retry]]

-----------------------------------------------------------------------------
(* What the windows are told.                                                     *)

TellAll == told' = [k \in Keys |-> row[k].ver]

TellRows(keys) == told' = [k \in Keys |-> IF k \in keys THEN row[k].ver ELSE told[k]]

Mark == seen' = life

(* A lifecycle event that a marker has not covered.                               *)
Relayed(e, k) == k \in e.keys /\ e.type \in {"live", "idle"} /\ e.seq > seen[k]

(* Receiving one item, from the loop or while a finished load waits.              *)
Receive ==
    /\ BusReady
    /\ IF lagged
       THEN /\ lagged' = FALSE
            /\ proj' = AbsorbLag(proj, seq)
            /\ IF proj.recovery.open THEN UNCHANGED seen ELSE Mark
            /\ UNCHANGED <<bus, told>>
       ELSE LET e == Head(bus)
            IN  /\ bus' = Tail(bus)
                /\ proj' = Absorbed(proj, e)
                /\ IF e.type \in {"removed", "broad"} THEN TellRows(e.keys)
                   ELSE UNCHANGED told
                /\ seen' = [k \in Keys |-> IF Relayed(e, k) THEN e.seq ELSE seen[k]]
                /\ UNCHANGED lagged
    /\ UNCHANGED <<storeVars, load, timer, failures, sent>>

-----------------------------------------------------------------------------
(* The load task.                                                                 *)

ReadRow(k) ==
    /\ load.status = "reading" /\ k \in load.left
    /\ load' = [load EXCEPT !.rows[k] = row[k], !.left = @ \ {k},
                            !.status = IF load.left = {k} THEN "ok" ELSE @]
    /\ UNCHANGED <<storeVars, busVars, proj, timer, pc, drained, failures, sent, told, seen>>

(* The store fails or the task panics.                                            *)
LoadFails ==
    /\ load.status = "reading" /\ failures < MaxFailures
    /\ failures' = failures + 1
    /\ load' = [NoLoad EXCEPT !.status = "failed"]
    /\ UNCHANGED <<storeVars, busVars, proj, timer, pc, drained, sent, told, seen>>

Finished == load.status \in {"ok", "failed"}

(* The rows of a batch that a finished load emits, and those it misses.           *)
Emitted(p) ==
    {k \in Keys : /\ load.status = "ok" /\ ~ p.batch.invalidated
                  /\ p.batch.rows[k] # {} /\ load.rows[k].there}

Missing(p) ==
    {k \in Keys : /\ load.status = "ok" /\ ~ p.batch.invalidated
                  /\ p.batch.rows[k] # {} /\ ~ load.rows[k].there}

(* The rows of a failed load join the pending ones, or overflow with them.        *)
Returned(p, rows) ==
    LET all == [k \in Keys |-> p.rows[k] \cup rows[k]]
    IN  IF p.refresh \/ rows = NoRows THEN p
        ELSE IF Cardinality({k \in Keys : all[k] # {}}) <= RowCap
             THEN [p EXCEPT !.rows = all]
             ELSE [p EXCEPT !.rows = NoRows, !.refresh = TRUE]

(* complete: a failed load returns its rows once.                                 *)
GivesUp(p) == load.status = "failed" /\ ~ p.batch.invalidated /\ p.batch.retried

Completed(p) ==
    LET closed == [p EXCEPT !.batch = NoBatch]
    IN  IF load.status = "failed" /\ ~ p.batch.invalidated /\ ~ p.batch.retried
        THEN [Returned(closed, p.batch.rows) EXCEPT !.retry = TRUE]
        ELSE closed

-----------------------------------------------------------------------------
(* run_with_models: one arm of the select, then the rest of the iteration.        *)

SelectBus ==
    /\ pc = "select"
    /\ Receive
    /\ pc' = IF Finished THEN "drain" ELSE "tail"
    /\ UNCHANGED drained

SelectLoad ==
    /\ pc = "select" /\ Finished
    /\ pc' = "drain"
    /\ UNCHANGED <<storeVars, busVars, proj, load, timer, drained, failures, sent, told, seen>>

SelectTimer ==
    /\ pc = "select" /\ timer = "due" /\ load.status = "none" /\ ~ BusReady
    /\ pc' = "tail"
    /\ UNCHANGED <<storeVars, busVars, proj, load, timer, drained, failures, sent, told, seen>>

(* The arms of the model reads: the rest of the iteration runs for them as well.  *)
SelectModels ==
    /\ pc = "select"
    /\ pc' = IF Finished THEN "drain" ELSE "tail"
    /\ UNCHANGED <<storeVars, busVars, proj, load, timer, drained, failures, sent, told, seen>>

TimerExpires ==
    /\ timer = "armed"
    /\ timer' = "due"
    /\ UNCHANGED <<storeVars, busVars, proj, load, pc, drained, failures, sent, told, seen>>

(* Queued changes are received before a completed load can emit an obsolete row.  *)
Drain ==
    /\ pc = "drain" /\ drained < ReceiveBatch
    /\ Receive
    /\ drained' = drained + 1
    /\ UNCHANGED pc

DrainEnds ==
    /\ pc = "drain" /\ (~ BusReady \/ drained = ReceiveBatch)
    /\ pc' = "finish" /\ drained' = 0
    /\ UNCHANGED <<storeVars, busVars, proj, load, timer, failures, sent, told, seen>>

(* A larger backlog requires recovery instead of a possibly obsolete row.         *)
Behind(p) == IF BusReady THEN AbsorbLag(p, seq) ELSE p

Finish ==
    LET p == Behind(proj)
    IN  /\ pc = "finish"
        /\ proj' = Completed(p)
        /\ load' = NoLoad
        /\ IF Missing(p) # {} \/ GivesUp(p) THEN TellAll
           ELSE told' = [k \in Keys |-> [f \in Facets |->
                            IF k \in Emitted(p) /\ f \in p.batch.rows[k]
                            THEN load.rows[k].ver[f] ELSE told[k][f]]]
        /\ IF p.recovery.open /\ ~ proj.recovery.open THEN Mark ELSE UNCHANGED seen
        /\ pc' = "tail"
        /\ UNCHANGED <<storeVars, busVars, timer, drained, failures, sent>>

(* The end of an iteration: a due deadline opens the batch, and later events      *)
(* cannot move a deadline.                                                        *)
Rearmed(p, left) == IF ~ HasWork(p) THEN "off" ELSE IF left = "off" THEN "armed" ELSE left

Due == ~ proj.batch.open /\ timer = "due"

(* An index refresh, which may start the next recovery.                           *)
CloseRefresh ==
    /\ Due /\ proj.refresh
    /\ proj' = Refreshed(proj)
    /\ TellAll
    /\ IF proj.recovery.followUp # 0 THEN Mark ELSE UNCHANGED seen
    /\ timer' = Rearmed(Refreshed(proj), "off")
    /\ UNCHANGED load

(* The load of the pending rows.                                                  *)
CloseRows ==
    /\ Due /\ ~ proj.refresh /\ proj.rows # NoRows
    /\ proj' = Opened(proj)
    /\ load' = [NoLoad EXCEPT !.status = "reading", !.left = {k \in Keys : proj.rows[k] # {}}]
    /\ timer' = "off"
    /\ UNCHANGED <<told, seen>>

(* The pending rows were removed or invalidated after the deadline was set: there *)
(* is no batch to open.                                                           *)
CloseEmpty ==
    /\ Due /\ ~ HasWork(proj)
    /\ proj' = [proj EXCEPT !.retry = FALSE]
    /\ timer' = "off"
    /\ UNCHANGED <<load, told, seen>>

CloseEarly ==
    /\ ~ Due
    /\ timer' = Rearmed(proj, timer)
    /\ UNCHANGED <<proj, load, told, seen>>

Close ==
    /\ pc = "tail"
    /\ pc' = "select"
    /\ CloseRefresh \/ CloseRows \/ CloseEmpty \/ CloseEarly
    /\ UNCHANGED <<storeVars, busVars, drained, failures, sent>>

Registry ==
    \/ \E k \in Keys : Activity(k)
    \/ /\ seq - lives < MaxChanges /\ UNCHANGED lives
       /\ \/ \E k \in Keys : \/ \E F \in SUBSET Facets \ {{}} : Updated(k, F)
                             \/ Idle(k) \/ Removed(k)
          \/ \E there \in BOOLEAN : Broad(there)

Loop ==
    \/ SelectBus \/ SelectLoad \/ SelectTimer \/ SelectModels
    \/ Drain \/ DrainEnds \/ Finish \/ Close

Load == (\E k \in Keys : ReadRow(k)) \/ LoadFails

Next == Registry \/ Send \/ Loop \/ Load \/ TimerExpires

Spec == Init /\ [][Next]_vars

-----------------------------------------------------------------------------
(* Properties.                                                                    *)

Entry == [there : BOOLEAN, ver : [Facets -> Nat]]

Batch == [open : BOOLEAN, rows : [Keys -> SUBSET Facets], invalidated : BOOLEAN,
          retried : BOOLEAN]

(* The type of the state.  A row is pending or loading within its cap, one batch  *)
(* loads at a time and has a row left to read until the load is done, and an      *)
(* index refresh stands for every pending row.                                    *)
TypeOK ==
    /\ row \in [Keys -> Entry] /\ seq \in 0..(MaxChanges + MaxLives) /\ life \in [Keys -> 0..seq]
    /\ Len(bus) <= BusCap /\ lagged \in BOOLEAN
    /\ proj.rows \in [Keys -> SUBSET Facets] /\ proj.batch \in Batch
    /\ \A rows \in {proj.rows, proj.batch.rows} :
            Cardinality({k \in Keys : rows[k] # {}}) <= RowCap
    /\ proj.refresh => proj.rows = NoRows
    /\ proj.batch.open <=> load.status # "none"
    /\ load.rows \in [Keys -> Entry]
    /\ load.status = "reading" => load.left # {}
    /\ timer \in {"off", "armed", "due"}
    /\ pc \in {"select", "drain", "finish", "tail"} /\ drained \in 0..ReceiveBatch

(* A row that was loaded before a change is never emitted after the event of the  *)
(* change: an emitted row is at least as new as every event that was on the bus   *)
(* before, received or lost (retire, invalidate_rows, the last receipts).         *)
NoStaleRow ==
    pc = "finish" =>
        \A k \in Emitted(Behind(proj)) : \A f \in Facets : load.rows[k].ver[f] >= sent[k][f]

(* Nothing is under way: the worker sleeps until the next event, with no timer    *)
(* armed and no load to wait for.                                                 *)
AtRest ==
    /\ sending = <<>> /\ ~ BusReady
    /\ pc = "select" /\ load.status = "none" /\ timer = "off"

(* Once the worker is at rest every window has been told every facet of every     *)
(* row, by its row or by a list refresh: no overflow, retirement, failed load,    *)
(* missing row or lost event leaves one out.                                      *)
RowsTold == AtRest => \A k \in Keys : told[k] = row[k].ver

(* And every lifecycle state, by its event or by a recovery marker that is later  *)
(* than the loss, also when events are lost again during a recovery.              *)
LivesTold == AtRest => seen = life
=============================================================================
