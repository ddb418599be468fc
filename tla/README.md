# A TLA+ development for antiburn

antiburn is a desktop app (Tauri, Rust) that watches the local transcripts of
coding agents, indexes them into a SQLite store, analyses them in the background
and shows the sessions that are alive right now. These modules specify the part
of it where the order of events decides whether what the user sees is true: who
may write a session row, how its transcripts become published evidence, and how
everybody else learns that something changed.

`T` stands for `src/apps/desktop/src-tauri/src` below.

## 1. Inventory

| Component | State | Operations | Talks to |
|---|---|---|---|
| Session lifecycle actor, `T/session_lifecycle.rs` | registry of live and pending sessions, deletion memory, deadline index, reconciliation requirement, spill | apply facts, expire, serve presence pages, seed and recover, spill | facts from scan, commands, workers; reads of the store; events to clients |
| Model resolution, `T/session_lifecycle/models.rs` | slot per live session, tickets, backoff, broad walk, execution version | invalidate, page, accept, retry | lifecycle actor, projection task, store |
| Session write fences, `T/store/session_write.rs`, `T/scan/owner.rs` | attempts, fences, bindings of labels to physical sources, policy epoch (all in memory) | open a guard, commit, reject, delete, purge, title lookup | scan passes, commands, the rows |
| Session rows, `T/store/session_persistence.rs`, `T/store/mod.rs` | rows with incarnations, `total_changes()` | upsert, delete, broad removal, presence pages | everybody |
| Row projection, `T/session_projection.rs` | pending rows, the loading batch, an open recovery, a flush deadline | absorb, retire, open, complete, lag and recover | lifecycle events, store, windows |
| Evidence queue, `T/store/evidence_queue.rs`, `T/store/publication.rs` | claims, fences, leases, attempts, tickets, published fence, turn rows, resume snapshots | claim, renew, write rows, publish, fail, discard, reconcile | insights worker, scans, commands |
| Insights worker, `T/insights_worker.rs`, `T/analysis.rs` | the pass of each worker, the backlog, its renewals | claim, read and resume sources, publish, settle, report the backlog | evidence queue, transcripts, gate, lifecycle (RowChanged) |
| First-run gate, `T/first_run_gate.rs` | stage, generation, published turns | advance, finish, reset, mark | workers, commands, limit learning |
| Scan, `T/scan/*.rs` | the slot of the pass, pending burst, trigger and refreshes, scoped work with its floors, tick and due time, anonymous ledger; queue and tasks inside a pass | debounce, classify, admit, retry, run a pass, cancel, cover | watcher, commands, insights worker, write fences, lifecycle |
| Windows, `T/window_readiness.rs`, `T/popover/*`, `crates/anchored-window` | readiness, retention, peek timers | show, hide, retain, destroy | frontend |
| Burn checks, `T/store/burn_checks/*`, `T/jev/*`, `crates/antiburn-checks*` | check runs, budgets | run, cancel, publish | store, providers |
| Agent integrations, `T/agent_integrations/*`, `T/remediation/*` | config files, journal | install, verify, roll back | file system |
| Provider usage, `T/provider_usage/*`, `T/store/provider_limit.rs`, `T/usage_alerts.rs` | cached windows, cooldowns | fetch, back off, alert | network |
| Remote sync, `T/remote_sync.rs`, `T/remote_cache.rs`, `crates/antiburn-remote` | remote rows, host state | sync, evict | network, store |
| Parsers, pricing, CLI, nudges, HUD, tray, updates, analytics, TypeScript frontend and plugins | mostly local state or pure functions | | |

What is hard to test in this code:

- a row is committed first and **reported later**, by several producers on
  several threads, so facts arrive late, out of order, and after a newer row
  exists;
- every channel and memory is **bounded**: inbox, spill, pending set, deletion
  memory. What does not fit must widen, never vanish, and what was forgotten must
  still be held off;
- reads of the store return after the state they were asked for has changed;
- a session is **deleted and indexed again** under the same key;
- the actor **sleeps**, and each kind of work has its own way to wake it;
- a scan pass reads a source for seconds and commits afterwards, while the user
  deletes the session, purges it or turns the repository off;
- an analysis pass works for minutes under a lease: its files grow, its claim is
  taken over, it resumes behind rows that another publication replaced, or it
  dies with rows written;
- a change on disk passes four buffers on its way to a description, each of which
  may be full, postponed, superseded or dropped, and one slot serves every pass;
- rows are loaded on another thread while the change that makes them obsolete is
  already on the bus, and the bus drops what a slow receiver does not fetch.

`PROJECT.json` lists them line by line under `hazards`, with the properties that
cover them.

Correct means, per component:

- *lifecycle*: no deleted incarnation comes back; no incarnation borrows another's
  activity; once everything is applied, the live set is that of the rows; every
  transition is announced; the actor never sleeps on work and always finishes;
- *models*: no stale model survives; every shown change has a new version; every
  live session gets its model;
- *write fences*: no write lands over a change made after its guard was opened;
  of two overlapping attempts the newer one wins; a rejection of one source never
  deletes the row of another;
- *projection*: no obsolete row is emitted, and once the worker rests the windows
  have been told of everything;
- *evidence*: what is visible is what one publication accepted; a late pass
  publishes nothing and leaks no rows; nobody starves;
- *scan*: a change that was delivered waits somewhere until a pass describes it;
  the loop never sleeps on work; no pass covers what it has not read; a historical
  request is not coalesced away; in the end every change is described;
- *first run*: limit learning starts from turns of the present first run, and
  always does;
- *windows*: a window is never shown unready nor destroyed while in use;
- *integrations*: a failed installation leaves what was there before.

## 2. Modules

| Module | Stands for |
|---|---|
| `SessionRegistry` | the registry of `session_lifecycle.rs` as operators on a record: establish, touch, remove, defer, admit, expire, requirements and page selection, recovery, anonymous activity |
| `SessionLifecycle` | the system around it: store, producers, inbox and spill, presence reads, the actor's round; `EXTENDS SessionRegistry` |
| `MC_SessionLifecycle` + 5 configurations | instances for TLC |
| `SessionRegistryProofs` | what each registry operator preserves |
| `SessionLifecycleProofs` | the inductive invariant and the theorems of the specification |
| `SessionWrite`, `MC_SessionWrite`, `SessionWriteProofs` | write guards, fences, bindings, titles |
| `SessionModels`, `MC_SessionModels`, `SessionModelsProofs` | model resolution and the projection task that drives it |
| `EvidencePublication` | the promise of the evidence queue to its readers: an abstract specification |
| `EvidenceQueue`, `MC_EvidenceQueue`, `EvidenceQueueProofs` | the queue, the passes over the transcripts and their publication; implements `EvidencePublication` |
| `WorkerTurns`, `MC_WorkerTurns`, `WorkerTurnsProofs` | which entry a worker gets, the first-run gate, the backlog report |
| `SessionProjection`, `MC_SessionProjection`, `SessionProjectionProofs` | the projection worker between the registry's bus and the windows |
| `ScanScheduler`, `MC_ScanScheduler`, `ScanSchedulerProofs` | from a change on disk to its description: debouncer, controller, the scheduler's loop, the slot of the passes |

Definitions keep the names of the code where TLA+ allows it; `map` in
`PROJECT.json` gives the lines each stands for. Operators that a comment calls a
mutant are wrong versions of a definition, kept so that each property can be seen
to fail.

### SessionRegistry and SessionLifecycle

*State.* `row`, `rev`, `incSeq` are the store: rows with an incarnation and an
activity epoch, `total_changes()` and the incarnation sequence. `reg` is the
registry; `reg.gone` and `reg.view` are ghosts (the highest incarnation whose
absence was applied; what a client that applies the events believes). `inbox`,
`spill`, `spillWake` are the way to the actor. `pc` is the point of its round
(select, expire, page rows, spill, facts, issue), `carry` the batch it is
applying, `inFlight` the blocking read.

*Steps.* One producer operation is two steps, commit and report. The scan path
awaits capacity (`ScanSend`), so its reports stay in order and it starts nothing
before they are sent. Commands, retention and analysis report from their own
threads in any order (`Report`) and spill when the inbox is full. The actor's
round is split where other tasks can run or where the code handles one element
after another: a fact, a row of a page, a removal of the spill. That is finer
than the code, which runs a whole batch without an await; the properties hold
in the intermediate states as well. A behaviour starts after the seed: with every
recent row live, or, when a page of the seed failed, any page, with the rows of the
pages before it and a recovery of the rest behind its cursor (`UnseededRegistry`).

*Abstractions.* A key is a number (the store's order matters for pages), a time
is an integer, the payload of a session is left out. A batch of indexed sessions
is as many facts. The deadline index is a set: its order is only the order in
which due deadlines expire, and any order is allowed. The deletion memory evicts
the oldest entry by its absence revision, as in the code. The stored epoch after
an update is the old one or the new one, because the activity source that decides
is not modelled. The pages of the seed are read from the rows of one moment.

*Left out.* Shutdown, `IndexChanged` reports (they carry no session), the replies
of `SessionModels`, tracing and counters.

### SessionWrite

*State.* The rows with the physical source that wrote them, the registered
attempt and fence of each key, the policy epoch, the binding of a label to its
physical source, and the guards and title lookups under way.

*Steps.* Opening a guard, preparing and committing under it, rejecting a source,
deleting, clearing and purging, a policy change, looking up and writing an indexed
title, dropping a guard, and a restart, which loses everything but the rows. A
call that the code rejects is the absence of a step.

*Abstractions.* The reads of a transcript are not modelled: what matters is that
they lie between the guard and the commit. In `owner.rs` the identity of a file
source may be read before the guard is opened; passes over one source are
serialised by the scan queue, which is not modelled. The early epoch check of
`commit()` is subsumed by the one under the lock. The rejection of a record whose
key differs from its guard's is left out. Remote rows have no guards:
`remote_cache` writes only remote keys, and removing a remote host moves fences
nobody holds. A title write is not a change for a guard.

### SessionModels

*State.* The slots, the ticket counter, the queue of due tickets (a sequence) and
of backed-off ones (a set), the broad walk with its cursor, the resolved count and
the execution version; on the store's side the published model and publication
count of each key. The registry is reduced to its live set.

*Steps.* A session enters or leaves, an analysis is published, its report is
applied, everything is invalidated, the projection task issues a page, the read
returns or fails, the answer is applied, a backoff elapses.

*Abstractions.* A slot has at most one ticket, queued or backed off, and leaves with it
(`Unqueue`). A backoff that elapses appends its ticket, so backed-off tickets come due in any order, which allows more than the code's timestamps do. The
projection loop asks for pages after other bus events too; those calls find
nothing new and are stutters.

### EvidenceQueue and EvidencePublication

*State.* `file` is the disk, `ev` the session row with its evidence row (generation,
fingerprint, status, claim fence, published fence, attempts, coverage), `turn` the
turn rows with their fence, `resume` the stored snapshots, `seq` the global fence
sequence, `worker` the pass of each worker. `lost` is a ghost: the fences of passes
that a crash or a store error ended before they could settle.

*Steps.* The claim, the start of a pass, the opening of a source (fresh, or behind a
stored snapshot that is still a prefix of the file), one row read and flushed, the
end of a source with its fingerprint check, the end of the pass with the check over
all files and the check against the claimed fingerprint, publication, failure,
settlement. Any step may meet a file that changed, a session that was requeued,
deleted or scanned again, and a claim that another worker took. Faults are read
errors (with the two retries of a source), a refused or failed renewal, a panic, a
publication that fails before or after its commit, a settlement that fails, and a
crash with the reconciliation of the next start.

*Abstractions.* A version of a file is an epoch and a length; a fingerprint tells
versions apart. Time is left out: a lease may be over, and a backoff past, at any
moment, which allows more than the clock does. A batch of flushed rows is one row.
Which agent a session has decides only what its adapter does: `claude` compares the
files again at the end, `codex` may end a reading without a snapshot, `plain` has
no snapshots. Other adapters are one of these. Publications with the statuses
`ready` and `unsupported` are one.

*Left out.* Metrics, attribution of configurations and the other columns of a
publication, which are written in the same transaction; parser revisions.

*Refinement.* `EvidencePublication` has two variables: the version of the parent
that the store recorded for a session, and the published set of sources with their
versions. A publication replaces the set as a whole, with the parent exactly as
recorded, no source at two versions and none at an older version than before.
`EvidenceQueue` is shown to implement it under the mapping that reads the rows under
the published fence; rows that are no reading of a version map to a value that no
abstract step can produce.

### WorkerTurns

*State.* The status of each entry and who holds it, the assigned tickets in their
order (`line`; the code compares tickets and nothing else), the count of turns
modulo four, the gate, the loop of each worker and the newest published generation.
`pubs` and `passed` are histories for the properties.

*Steps.* A worker reads the generation, waits at the gate, compares the generation
again, claims, and publishes, fails or finds its claim gone; without work it goes to
sleep and, as the last busy one, takes the newest publication of the backlog and then, as
a step of its own, reports it: another worker may begin or a reset may come in between. Scans queue entries, sessions
are deleted, the gate advances, and a debug reset sends it back and wipes the data.

*Abstractions.* A pass is one step (its inside is `EvidenceQueue`). Activity times
are arbitrary, so a turn that is not fair may take any candidate. The stages `Agents`
and `Done` open nothing that the stages before them do not.

*Left out.* Remediation and recovery work in the same loop, the limit journal, and
the waiting of the settings window for a stage.

### SessionProjection

*State.* The stored rows as a version per facet, the registry's sequence, the events
between the registry's lock and the bus, the bus with its lag flag, the `Projector`
(pending rows, refresh, batch, recovery), the load task, the flush timer and the
point of the loop. `sent`, `told` and `seen` are histories: what was on the bus, and
what the windows have been told.

*Steps.* One arm of the `select!`, then the rest of the iteration: the receipts in
front of a finished load, the recovery when the worker is still behind, completion,
and then, if the deadline is due, the opening of the next batch: an index refresh, a load
of the pending rows, or nothing when a removal or a broad event has emptied them since
(`CloseEmpty`). The load reads its rows one by one on another thread,
or fails. The registry changes rows and liveness at any moment, and an event reaches
the bus after the lock was released.

*Abstractions.* An emitted row tells its facets, an index change everything stored so
far, a recovery marker every lifecycle state so far: what a window makes of it is the
frontend's. `Resync`, which the registry never publishes, and the tickets that order
the keys of one read are left out.

### ScanScheduler

*State.* `gathered` is the burst of the debouncer; `controller` what the tasks share
(pending burst, trigger, source refreshes, the permit of the kick, the cancel flag);
`pass` the pass in the slot with what it may cover; `sched` the point of the loop with
the overflow, the tick and the lanes it has in hand; `work` the deferred and the
retried work; `clock` the ages of the floors, the time to the tick and to the due
time; `outstanding` the ledger. `dirty` is what no pass has described yet. `adrift`,
`told` and `owed` are histories: changes that the code itself leaves to the tick,
changes reported as anonymous activity, and a historical request not yet served.

*Steps.* A change reaches the burst, becomes an overflow, or is not seen. The burst is
pushed, and the live poll pushes one of its own for active sources whose stamp has
changed, which makes up for what the watcher missed; a kick, the tick or the due time wakes the loop, which takes the burst and
then, at separate steps, the refreshes, the trigger, the retried lanes and the
admitted lanes. A pass starts, reads its scope and perhaps the burst that waits, and
ends well, with an error or cancelled. Commands take the slot, request, cancel (the
check and the store are two steps), pause and resume (the setting and the request are
two steps); the insights worker asks for refreshes, and for the historical pass when its
backlog drains.

*Abstractions.* A path is a source with a fixed lane and agent. The stamps of the poll and
the conditions of the automatic historical pass are left open: the poll may push any
sources, and the pass may be asked for at any time. A pass reads its scope
in one step; one that fails or is cancelled has read any part of it. Bounded buffers
may be full at any time. Durations are small numbers, the retry delay and the debounce
windows are below the unit, and time passes only while the loop waits. OpenCode's own
database floor is the constant `DbFloor` with another value.

*Left out.* The recovery of fingerprints, the health of the watcher (it only shortens
the tick), the first-run gate inside a pass, the status the views render, and the
queue and tasks inside a pass.

## 3. Runs

| Run | Instance | Shows |
|---|---|---|
| `admission` | 2 keys, one of them indexed again; all keyed producers; every cap 1 | late, reordered and spilled facts against deletion memory, deferral, replacement and reconciliation; the inductive invariant `Truthful` |
| `expiry` | 2 keys, the clock advances, one read may fail | deadlines, pruning of pending evidence, blocked carry, lost wakeups |
| `anonymous` | 2 keys, 1 agent, touches against passes, analysis reports into a spill that is too small | a cover never clears a later touch; overflow widens and loses nothing |
| `settles` | 2 keys, pages of 1, a page of the seed or a later one fails, fair | the recovery walk with its cursor, and everything is applied in the end |
| `deleted_visible` | 1 key, old rows | **violated**: the first finding |
| `write_fences` | 2 passes, deletes, purges, policy changes, titles, a restart | late writers publish nothing |
| `models` | publications, walks in pages of 1, failed reads, fair | no stale model, no silent change, every live session gets its model |
| `evidence` | 1 session with a parent and a child, 2 workers, 2 claims, 1 change, 1 fault | the refinement, no leaked rows, exact snapshots |
| `stale_snapshot` | 1 worker, 2 claims, 3 faults | **violated**: the second finding |
| `turns` | 2 workers, 2 sessions, fair turn every 4, 1 reset | nobody starves; the backlog report |
| `projection` | 2 keys, 2 facets, bus, batch and row cap 1, 2 failed loads | no obsolete row; everything is told |
| `scan` | a session and a database of one agent, floors 1, tick 2, 2 changes, 1 request, pause, cancel or failure, fair | no delivered change is forgotten, no lost wakeup, honest covers, everything is described in the end |

*Bounds.* `MaxRevision`, `MaxIncarnation`, `MaxTime`, `MaxTouches`,
`MaxGeneration`, `MaxFailures`, `MaxEpoch`, `MaxEntries` and their like appear only
in guards and stop the producers, never the actor. All caps of the code are
constants. They are 1 or 2 where the code has hundreds, so that the full queue, the
evicted memory and the second page are reached with few facts: two keys suffice
because the caps are the only way in which keys interact, and two incarnations
are a deleted and a present one. The windows of the code (minutes) are one
to three ticks with the same order.

In `EvidenceQueue`, `MaxChanges` bounds changes of the files, requeues and deletions,
`MaxFence` the claims and `MaxFaults` the faults; `MaxEpoch` and `MaxLen` of 2 give a
source an append and a rewrite. Two workers and two claims are a pass and the one that
overtakes it; scans are not bounded. The attempts of the code (five) are one. The fair
turn of `WorkerTurns` is the code's own 4. In `SessionProjection`, `MaxChanges` and
`MaxLives` bound what the registry does; the caps of one make every second row an
overflow, every second event a lag, and every second queued change a backlog. In
`ScanScheduler`, `MaxChanges` bounds changes, reports of the poll and stale claims,
`MaxEvents` everything the reader does, a drained backlog and every failure: two changes are one in a pass's hand and one behind
its back, and one event is what meets them. Ignored events are not bounded, so the
loop may be kicked for ever. The title and quiet lanes take the same steps as the two
in the instance and are not in it. Remote
keys are in no configuration: the registry refuses them, and the proofs cover them.

*Deadlock.* A bounded behaviour ends when its producers are exhausted, and the app
itself may be idle, so the configurations do not check for deadlock, except `turns`
and `scan`, whose workers and ticks always have a step. That the actor
does not stop with work in hand is `NeverSleepsOnWork`, `Settles` and
`ModelsArrive`.

*Fairness.* Weak fairness of the actor and of the projection task (tokio schedules
a ready task), of a started blocking read (it returns, with rows or an error), of
timers, and of a producer that has a report to make. No producer is fair in
starting an operation, and nothing is assumed about failures beyond their bound.
In `ScanScheduler` a pass that started ends and the loop goes on after a wake (weak
fairness). The arms of the loop's `select!` are polled in random order, so a tick that
is due again and again is taken, and time passes whenever the loop is found waiting
again and again (strong fairness). Nothing is assumed of the watcher, the debouncer,
the kick or the reader: `EventuallyDescribed` rests on the tick alone.

*Findings.* 1. `docs/session-lifecycle-events.md` says that reconciliation leaves no
deleted incarnation visible. When the row that replaced a live incarnation is
outside the activity window, `establish` and the page application return before
they look at the live entry, which stays visible until its own deadline.
`Converged` states what the code does guarantee: an older incarnation stays only
while the stored row has no recent activity of its own.

2. A child transcript whose every attempt fails does not fail its pass: it is left
out of the coverage, but the rows its last attempt flushed stay under the claim fence
and are published. `publish_turn_rows` takes such rows as a sign that the source is
alive and keeps its resume snapshot, whose own rows go with the former publication.
The next pass resumes behind rows that are no longer visible. The comment at
`delete_source_resume` says that a later pass never restores what a full read has
discarded. It takes three read errors on one source within one pass
(`MaxFaults` of 3); with the single fault of `evidence`, `ResumeExact` holds.

Remarks without a run. `worker_loop_with_reports` compares the generation before
the claim, not with it, so a pass may be claimed after a reset in the name of the run
before it. `LearnsOwnRun` and `LearningStarts` show that this costs nothing but the
report of that pass.

`spawn_scheduler` has four places that leave more to the tick than their comments say;
in the model they are the ways into `adrift`, and `EventuallyDescribed` shows that the
tick makes up for them. A source refresh that finds the slot taken starts the loop over
without the overflow it has already taken (`watch.rs` says that an overflow "makes the
next burst request a full reconciliation pass"). A full pass that finds the slot taken,
fails or is cancelled supersedes the scoped work as if it had run. A failed lane is not
retried. And `request_cancel` reads the running flag before it stores the cancel, so a
pass that starts in between is cancelled in the place of the one that was meant. A
historical trigger that finds the slot taken is requested again at once, and the loop
goes round without a delay until the slot is free.

## 4. Proofs

TLAPS checks the following for every value of the constants.

`SessionLifecycleProofs`, the base: `TruthfulAlways`, and from it `TypesAlways`,
`NoResurrectionAlways` and `LiveOrPendingAlways`. That no deleted incarnation comes
back cannot be shown from the registry alone: a fact is believed because of its
revision, so the proof must know that the revision is right. `Truthful` says that
everything under way is true of the history of the store: a reported existence
names a revision that held the incarnation, a reported or spilled removal one from
which on it was gone, a page is the snapshot of its revision, and each registry
entry is one of these. The history has one shape (`History`): the incarnations of a
key follow one another and each occupies one gapless interval of revisions. The
registry part, `RegistryInv`, is a live incarnation above every absent one and, for
each absence applied, either a deletion cell at least as high or a
`forgotten_through` at least as late. A late fact then fails one of the two guards,
because its revision lies in an interval that ended before the absence.
`SessionRegistryProofs` shows for each operator of the registry that it preserves
`RegistryInv`; `SessionLifecycleProofs` has one step per action.

The other invariants of `SessionLifecycleProofs` are inductive relative to `Truthful`
(a step is taken from a truthful state into a truthful one); TLC checked each of them on the
runs' instances before it was proved:

- *Index and view* (`IndexExactAlways`, `ViewExactAlways`, `GuardsGrowAlways`). Every operator
  of the registry keeps `Exact`: one deadline per live session and anonymous agent, the working
  count, and the view of a client. It needs `LiveOrPending`, because `admit` counts on
  no live entry being behind waiting evidence. The guards against a late fact only rise: a
  removal remembers at most one absence, and what it evicts goes into `forgotten_through`.
- *Caps* (`TypeOKAlways`). The pending set grows only where `defer` has seen room, the
  deletion memory only in `remember`, which evicts when it goes over the cap; the spill refuses a new cell at
  its cap. A fact that finds the pending set full leaves it full, so the `blocked` flag of the
  carry is honest.
- *Wake-ups* (`NeverSleepsOnWorkAlways`, from `SleepInv`). A filled spill has its notification
  or a round in front of `take_spill`; a blocked carry at the end of a round has a full pending
  set; after `issue_page` nothing is wanted that is not in flight, waiting for its backoff or
  held. An actor that sleeps therefore has nothing to do.
- *Row changes* (`NoLostRowChangeAlways`, from `AnnounceInv`). A changed row the clients have
  not been told of is reported, in a spill cell, or covered by a spill that invalidates the list.
- *Anonymous activity* (`AnonymousTrackedAlways`, from `AnonInv`). The ledger of the scan
  scheduler bounds every touch and cover under way: the outstanding touch is the newest of its
  agent and alone with its generation, and a cover was captured before it. So the outstanding
  touch has expired, is under way, or is the one registered.
- *Own activity* (`NoForeignActivityAlways`, from `OwnInv`). Wherever a time is kept (a report,
  a page read or in hand, a held recovery page, a live entry, waiting evidence), it is
  within the reach of its own incarnation if that is the stored one. The store may reuse a key
  but not an incarnation, and `Truthful` bounds every incarnation under way by `incSeq`, so the
  next row of a key starts with no evidence; the operators that merge times do so only for
  equal incarnations.
- *Convergence* (`ConvergedAlways`, from `AbsentInv` and `ActiveInv`). The first invariant
  follows a key that has no row: a report or a spill that removes its every incarnation is under
  way, or the registry bars it (a deletion cell, `forgotten_through` or `broad_through` is past
  all of its history) and, while it is live, a walk that removes it is required or runs. For that the
  running walk must still have the key in front of it: behind its cursor, in the keys its
  request names, in the rest of its page (`FrontInv`); and a walk page must be read at a
  revision the walk asked for (`WalkReads`). The second follows a row with recent activity: the registry holds that
  activity for the stored incarnation, live or waiting, or a report carries it, or the recovery has
  yet to come to the row, in the page in hand, the page read, or behind the cursor
  (`Recovers`, which needs that a page of active rows leaves out no row before its last). In a
  quiescent state nothing is under way, required, waiting or to be recovered, and what remains
  of both is `Converged`.

`SessionWriteProofs`: `WriteInvAlways`, `NoOrphanFenceAlways`, `NoStaleWriteAlways`
and `NewestWinsAlways`. The invariant `WriteInv` says that a registered, unspent
guard of the present policy epoch has seen every change of its key, that attempts
are unique, and that the registered attempt is the newest. That a commit is never
stale follows in one step. `SourceInvAlways` is a second invariant on top of it: the
row of a label that is bound carries the path of the source that owns the label, no
open guard can publish again under the attempt that a binding names, and a title lookup
that finds its binding in its own epoch has missed no change of its row. From it `SourceOwnsDeleteAlways` (a rejected
source deletes only its own row) and `NoStaleTitleAlways`.

`EvidenceQueueProofs`: `EvidenceInvAlways`, `NoOrphanRowsAlways`,
`ReadyIsCurrentAlways`, `ParentResumeExactAlways` and the refinement
`ParentPublishedWhole`. The invariant has three parts. *Fences*: `seq` bounds every
fence in the store and in the passes, the fences of busy workers differ, and a pass
writes only under its own. *Passes*: what a pass has written of a source is a prefix
of the version it opened, and its counters agree with the rows. *Store*: the rows
under the published fence are one reading of one version of the parent, and the
snapshot of the parent matches them. The argument is that, as long as a pass holds its
claim, nobody else changes the visible rows or the snapshot it resumes behind, and a
version of a file never comes back; a fingerprint that is at the end of the pass what
it was at the opening therefore means that nothing changed in between. Under the
refinement mapping of the parent a scan is `Record`, an accepted publication is
`Publish`, a deletion is `Forget` and every other step stutters. For child sources
the corresponding statements fail when every attempt on one source fails (the second
finding), so `ResumeExact` and `PublishesWhole` over all sources are model-checked with a
single fault.

`WorkerTurnsProofs`: `LearnInvAlways`, `LearnsOwnRunAlways`, `LearningStartsAlways`. The
invariant says that a worker past the gate in the present run found it open, and that a
publication was noted under a generation no newer than its claim's (`KnowsRun`, `Noted`);
that a generation which waits to be reported was published and has a busy worker left to
report it (`NewestInv`); and that a publication of the present run is reported, waits
to be, or is in the hand of a worker that is about to report it (`ReportInv`). `NoStarvationAlways` is proved from a second invariant, on the line of
tickets: it names no session twice, and an entry that has been passed over is in it, at some
place p, and has been passed at most `FairEvery` times the number of sessions less p, plus
the ordinary turns since the last fair one. A fair turn removes the head and moves everybody one
place up, an ordinary claim appends behind; and the line is no longer than there are sessions. New tickets are
given in a constant order, `FirstSeen`, which is assumed to name no session twice.

`SessionModelsProofs`: `InvAlways`, and from it `SlotsExactAlways`, `ModelsConvergeAlways` and
`VersionTellsAlways`. The invariant has four parts. *Sound*: the indexes of `Models` agree
with its slots, no ticket or epoch is ahead of the counters, and an open ticket is in the
queue or among the backed-off ones, once. *BroadAhead*: a slot of an older epoch is still in front of the broad
walk, so that when the walk ends every slot is of the present epoch. *Fresh*: an answer taken
by a slot, or on its way in a page whose ticket still counts, is the model the row publishes, or the change is among
the reports still to be applied; without the second half the invariant is not inductive, as
the answer is taken from the page and not from the store. *Incarnations* are never above
the revision, so a session that is stored again is not taken for the one the page read.
`InvalidateStale`, `Requests` and `ApplyModels` recurse over a page. The
invariant of their steps is shown at every index by taking the least
index at which it fails (`LeastNatural`, `UpTo`). TLC checked the invariant with
one revision more than the run `models` has (1,983,399 states).

`ScanSchedulerProofs`: `ScanInvAlways`, and from it `NoSilentLossAlways`,
`NeverSleepsOnScanAlways`, `CoverHonestAlways` and `HistoryKeptAlways`. Beside these
properties the invariant says what the loop has in hand at each of its points and which
scope the running pass then has (`LoopInv`, `LaneInv`), that a pass covers only agents all
of whose sources are in its scope (`CoverInv`), that what waits in the controller has the
permit of the kick or a loop that has yet to take it, and scoped work that stays a due time
(`WakeInv`), and that a change made after a full pass has read is in a burst, so that the
work the pass supersedes does not stand for it (`FullInv`).

`SessionProjectionProofs`: `ProjectionInvAlways`, and from it `TypeOKAlways`,
`NoStaleRowAlways`, `RowsToldAlways` and `LivesToldAlways`, so every property of the run
`projection`. The invariant follows a difference to the window that shows it. The events
between the lock and the bus form a chain from the versions of the last event sent to the
stored rows (`SendingInv`). A loaded row that would be emitted is as new as the last event
on the bus, or the event that withdraws it, or a lag, is still in front of the worker
(`FreshInv`); and each of its facets equals the stored one or is named by an event under way
(`LoadedInv`). A facet that a window does not have is pending, in a batch that stands, covered
by a refresh, or under way (`ToldInv`). A lifecycle state it does not have is under way or
belongs to a gap above the watermark of the open recovery, which then has a follow-up
(`LifeInv`); an open recovery has marked every state up to its watermark. The worker rests
only without work (`LoopInv`), which leaves none of these. That rest is not postponed by a
batch without rows is part of `TypeOK`: a load that reads has a row left to read, so it ends by
itself, and a due deadline over no rows opens none.

The assumptions are those of the modules, each named: caps are positive where the
code's constants are, bounds are naturals, `None` is none of the values it stands
beside.

Only model-checked: all liveness (`Settles`, `ModelsArrive`,
`EventuallyDescribed`), which this prover does not reach, and everything that needs
`ENABLED`; `ResumeExact` and `PublishesWhole` over child sources.

## 5. Plan

1. **Proofs.** Every safety property of a run is a theorem, but for the child sources of
   the evidence queue: their statements hold with a single fault only, so the bound on
   faults would have to be part of their invariant.
2. **Scan queue and owner**: serialisation of the reads per source inside a pass, which
   `SessionWrite` assumes; the recovery of fingerprints; the health of the watcher.
3. **Windows**: what a window does with the projection's messages (`sessionLifecycle.ts`,
   `MainActivitySession.ts`; two hazards without a property are there), readiness and
   the retained popover.
4. Burn-check runtime, integration transactions, provider cooldown, nudge gate.

## 6. Not modelled

The parts under 2 to 4 of the plan hold protocol state and are left for later.
Parsers, pricing and formatting are pure functions of large inputs; HUD, tray, sound
and notifications hold no protocol state; SQLite, tokio and the file system are taken
as the code uses them: a transaction is atomic and durable, a bounded channel is first
in first out, a notification is one permit.
