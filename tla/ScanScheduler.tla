------------------------------ MODULE ScanScheduler ------------------------------
(* How a change on disk reaches a description: the watcher's debouncer, the       *)
(* controller the tasks share, the loop of the scheduler, and the passes.         *)
(*                                                                                *)
(* The callback of the watcher queues an event or, when the channel is full, a    *)
(* sticky overflow.  The debouncer folds events into a burst and pushes it.  The  *)
(* scheduler classifies the burst into lanes, runs what is past its floor and     *)
(* keeps the rest; an overflow, a request or the tick asks for a full pass.  One  *)
(* slot serves every pass, and a command of the reader may hold it.               *)
(*                                                                                *)
(* Abstractions.  A path is a source with a lane and an agent.  A pass reads all  *)
(* of its scope in one step between its start and its end; one that fails or is   *)
(* cancelled has read any part of it.  Durations are small numbers and only their *)
(* order matters; the retry delay (500 ms) and the debounce windows are below the *)
(* unit of time.  A bounded buffer may be full at any time.  Left out: the        *)
(* recovery of fingerprints, the watcher's health, which only shortens the tick,  *)
(* the first-run gate, and the status the views render.                           *)
EXTENDS Integers, Sequences, FiniteSets, FiniteSetsExt, SequencesExt

CONSTANTS Sources, Agents,
          Lane,             \* what classify_path makes of the source
          AgentOf,          \* the agent whose watch root owns the source
          None,
          SessionFloor,     \* TARGETED_MIN_INTERVAL
          TitleFloor,       \* TITLE_REFRESH_MIN_INTERVAL
          AgentFloor,       \* AGENT_REDISCOVER_MIN_INTERVAL
          DbFloor,          \* DB_AGENT_REDISCOVER_MIN_INTERVAL
          TickInterval,     \* TICK
          MaxChanges,       \* bound on changes on disk, reports of the poll and stale claims
          MaxEvents         \* bound on requests, pauses, cancels and failures

Floors == {SessionFloor, TitleFloor, AgentFloor, DbFloor}

ASSUME ScanAssumption ==
    /\ Lane \in [Sources -> {"sessions", "titles", "agents", "db", "quiet"}]
    /\ AgentOf \in [Sources -> Agents]
    /\ None \notin Sources \cup Agents
    /\ Floors \subseteq Nat \ {0}
    /\ TickInterval \in Nat \ {0}
    /\ {MaxChanges, MaxEvents} \subseteq Nat

-----------------------------------------------------------------------------
(* The values of the variables.  None is no number, no trigger and no record.     *)

WatchBurst == [paths : SUBSET Sources, overflowed : BOOLEAN]

ScopedWork == [sessions : SUBSET Sources, titles : SUBSET Agents, agents : SUBSET Agents,
               db : SUBSET Agents, quiet : SUBSET Agents]

Trigger == {"routine", "history"}

Pass == [by : {"scheduler", "command"}, scope : SUBSET Sources, whole : BOOLEAN,
         read : BOOLEAN, covers : SUBSET Agents]

ASSUME NoneAssumption == None \notin Nat \cup Trigger \cup WatchBurst \cup Pass

VARIABLES
    dirty,        \* the sources whose last change no pass has described
    gathered,     \* the burst the watcher's debouncer gathers, or None
    controller,   \* the state the tasks share (ScanController)
    pass,         \* the pass in the slot, or None
    sched,        \* where the loop of the scheduler is, and what it has in hand
    work,         \* pending_work and retry_work
    clock,        \* ages since the last runs, and the time to next_tick and deferred_due
    outstanding,  \* the agents in the ledger of anonymous activity
    reader,       \* discovery_paused, and the commands of the reader under way
    used,         \* how much of the bounds is used
    adrift,       \* history: the dirty sources that were left to the tick
    told,         \* history: the dirty sources reported as anonymous activity
    owed          \* history: a historical pass was requested and has not started

scanVars == <<work, clock, outstanding>>
vars == <<dirty, gathered, controller, pass, sched, work, clock, outstanding,
          reader, used, adrift, told, owed>>

-----------------------------------------------------------------------------
(* Scoped work.                                                                   *)

NoWork == [sessions |-> {}, titles |-> {}, agents |-> {}, db |-> {}, quiet |-> {}]

MergeWork(a, b) == [lane \in DOMAIN NoWork |-> a[lane] \cup b[lane]]

(* classify_burst: an agent that is rediscovered on stronger evidence needs no    *)
(* weaker entry.                                                                  *)
ClassifyBurst(paths) ==
    LET owners(lane) == {AgentOf[s] : s \in {p \in paths : Lane[p] = lane}}
        agents == owners("agents")
        db == owners("db") \ agents
    IN [sessions |-> {p \in paths : Lane[p] = "sessions"},
        titles |-> owners("titles") \ (agents \cup db),
        agents |-> agents,
        db |-> db,
        quiet |-> owners("quiet") \ (agents \cup db)]

Rediscovered(w) == w.agents \cup w.db \cup w.quiet

(* The sources that running the work describes. *)
ScopeOf(w) ==
    {s \in Sources : \/ s \in w.sessions
                     \/ AgentOf[s] \in Rediscovered(w)
                     \/ Lane[s] = "titles" /\ AgentOf[s] \in w.titles}

(* A lane without work is skipped. *)
OneLane(job) == IF job = NoWork THEN <<>> ELSE <<job>>

(* The lanes of admitted work in the order run_admitted_work takes them. *)
LanesOf(w) ==
    OneLane([NoWork EXCEPT !.sessions = w.sessions])
        \o OneLane([NoWork EXCEPT !.titles = w.titles])
        \o OneLane([w EXCEPT !.sessions = {}, !.titles = {}])

-----------------------------------------------------------------------------
(* Floors.  An age counts the time since the last run, up to the longest floor.   *)

MaxAge == Max(Floors)

FloorOf(lane) ==
    CASE lane = "sessions" -> SessionFloor
      [] lane = "titles" -> TitleFloor
      [] lane = "db" -> DbFloor
      [] OTHER -> AgentFloor

AgeOf(lane, item) ==
    CASE lane = "sessions" -> clock.sessions[item]
      [] lane = "titles" -> clock.titles[item]
      [] OTHER -> clock.agents[item]

(* Floors::stamp. *)
Stamp(c, w) ==
    [c EXCEPT !.sessions = [s \in Sources |-> IF s \in w.sessions THEN 0 ELSE @[s]],
              !.titles = [a \in Agents |-> IF a \in w.titles THEN 0 ELSE @[a]],
              !.agents = [a \in Agents |-> IF a \in Rediscovered(w) THEN 0 ELSE @[a]]]

RunNow(w) == [lane \in DOMAIN w |-> {i \in w[lane] : AgeOf(lane, i) >= FloorOf(lane)}]
Deferred(w) == [lane \in DOMAIN w |-> {i \in w[lane] : AgeOf(lane, i) < FloorOf(lane)}]

EarliestDue(w) ==
    LET dues == UNION {{FloorOf(lane) - AgeOf(lane, i) : i \in w[lane]} : lane \in DOMAIN w}
    IN IF dues = {} THEN None ELSE Min(dues)

-----------------------------------------------------------------------------
(* Bursts and requests.                                                           *)

NoBurst == [paths |-> {}, overflowed |-> FALSE]

Burst(b) == IF b = None THEN NoBurst ELSE b

(* WatchBurst::merge. *)
MergeBurst(b, paths, overflowed) ==
    [paths |-> b.paths \cup paths, overflowed |-> b.overflowed \/ overflowed]

(* Mutant: the new burst replaces the one that waits. *)
PushBurstReplaces(c, b) == [c EXCEPT !.burst = b, !.kick = TRUE]

(* ScanController::push_burst. *)
PushBurst(c, b) ==
    [c EXCEPT !.burst = MergeBurst(Burst(@), b.paths, b.overflowed), !.kick = TRUE]

(* Mutant: the historical trigger is coalesced like the others. *)
RequestKeepsFirst(c, t) == [c EXCEPT !.trigger = IF @ = None THEN t ELSE @, !.kick = TRUE]

(* ScanController::request: the first trigger stays, but history replaces it. *)
Request(c, t) ==
    [c EXCEPT !.trigger = IF @ = None \/ t = "history" THEN t ELSE @, !.kick = TRUE]

-----------------------------------------------------------------------------

Init ==
    /\ dirty = {} /\ adrift = {} /\ told = {} /\ owed = FALSE
    /\ gathered = None
    /\ controller = [burst |-> None, kick |-> FALSE, trigger |-> None, refreshes |-> {},
                     cancel |-> FALSE]
    /\ pass = None
    /\ sched = [at |-> "launch", tick |-> FALSE, over |-> FALSE, jobs |-> <<>>, blind |-> FALSE]
    /\ work = [pending |-> NoWork, retry |-> NoWork]
    /\ clock = [sessions |-> [s \in Sources |-> MaxAge],
                titles |-> [a \in Agents |-> MaxAge],
                agents |-> [a \in Agents |-> MaxAge],
                tickIn |-> TickInterval, due |-> None]
    /\ outstanding = {}
    /\ reader = [paused |-> FALSE, resuming |-> FALSE, cancelling |-> FALSE]
    /\ used = [changes |-> 0, events |-> 0]

-----------------------------------------------------------------------------
(* The watcher.                                                                   *)

(* A source changes on disk.  The event passes the channel into the burst that    *)
(* the debouncer gathers (EventIngress::submit, run_debounce_loop); or the event  *)
(* finds the channel, or the path budget of the burst, full and only the overflow *)
(* stays of it; or the change is one the watcher does not see.                    *)
Change(s) ==
    /\ used.changes < MaxChanges
    /\ used' = [used EXCEPT !.changes = @ + 1]
    /\ dirty' = dirty \cup {s}
    /\ told' = told \ {s}
    /\ \/ gathered' = MergeBurst(Burst(gathered), {s}, FALSE) /\ UNCHANGED adrift
       \/ gathered' = MergeBurst(Burst(gathered), {}, TRUE) /\ UNCHANGED adrift
       \/ adrift' = adrift \cup {s} /\ UNCHANGED gathered
    /\ UNCHANGED <<controller, pass, sched, scanVars, reader, owed>>

(* A relevant event of a path that no lane wants (ClassifiedPath::Ignored). *)
IgnoredEvent ==
    /\ gathered = None
    /\ gathered' = NoBurst
    /\ UNCHANGED <<dirty, controller, pass, sched, scanVars, reader, used, adrift, told, owed>>

(* After the quiet window, or the longest wait, the burst is pushed. *)
DebouncePushes ==
    /\ gathered # None
    /\ controller' = PushBurst(controller, gathered)
    /\ gathered' = None
    /\ UNCHANGED <<dirty, pass, sched, scanVars, reader, used, adrift, told, owed>>

Polled == {s \in Sources : Lane[s] = "sessions"}

(* The live poll sees what the watcher may not: the transcripts of sessions that  *)
(* are active and whose stamp it has not seen, changed or new to it.  It pushes   *)
(* the burst itself; past the path budget only the overflow stays (build_burst).  *)
LivePoll ==
    /\ ~ reader.paused /\ used.changes < MaxChanges
    /\ used' = [used EXCEPT !.changes = @ + 1]
    /\ \E S \in (SUBSET Polled) \ {{}}, over \in BOOLEAN :
          /\ controller' = PushBurst(controller, [paths |-> IF over THEN {} ELSE S,
                                                  overflowed |-> over])
          /\ adrift' = adrift \ S
    /\ UNCHANGED <<dirty, gathered, pass, sched, scanVars, reader, told, owed>>

-----------------------------------------------------------------------------
(* Passes.  There is one slot (ScanController::running).                          *)

(* on_demand_start: the flag of an earlier cancel is cleared.  A pass that the    *)
(* scheduler runs for the ledger captures what is outstanding in its scope.       *)
StartPass(by, scope, history, whole) ==
    /\ pass = None
    /\ pass' = [by |-> by, scope |-> scope, whole |-> whole, read |-> FALSE,
                covers |-> {a \in outstanding : by = "scheduler" /\ whole
                                /\ \E s \in scope : AgentOf[s] = a}]
    /\ owed' = (owed /\ ~ history)

StartFullPass(by, history) == StartPass(by, Sources, history, TRUE)

Describe(S) ==
    /\ dirty' = dirty \ S
    /\ told' = told \ S

LiveHints ==
    IF controller.burst = None \/ reader.paused THEN {} ELSE {controller.burst.paths}

(* The owner of a pass reads its scope, and the sources of a burst that waits for *)
(* the scheduler (spawn_live_hints), which it leaves in the controller.           *)
PassReads ==
    /\ pass # None /\ ~ pass.read
    /\ \E hints \in {{}} \cup LiveHints :
          /\ Describe(pass.scope \cup hints)
          /\ adrift' = adrift \ (pass.scope \cup hints)
    /\ pass' = [pass EXCEPT !.read = TRUE]
    /\ UNCHANGED <<gathered, controller, sched, scanVars, reader, used, owed>>

(* ScanOwnership::release, after the owner asked for reconciliation: its live     *)
(* queue overflowed, or it left live work behind and no burst waits.              *)
Release(c, left) ==
    LET asked == IF left = "overflow" \/ (left = "work" /\ c.burst = None)
                 THEN Request(c, "routine") ELSE c
    IN [asked EXCEPT !.cancel = FALSE, !.kick = TRUE]

(* A full pass supersedes the scoped work, whatever became of it. *)
Superseded ==
    /\ work' = [pending |-> NoWork, retry |-> NoWork]
    /\ clock' = [Stamp(Stamp(clock, work.pending), work.retry)
                    EXCEPT !.due = None, !.tickIn = TickInterval]
    /\ sched' = [sched EXCEPT !.at = "wait", !.over = FALSE, !.tick = FALSE]

(* Where the loop goes on when its pass has ended. *)
SchedulerResumes ==
    CASE sched.at = "launch" -> sched' = [sched EXCEPT !.at = "wait"] /\ UNCHANGED <<work, clock>>
      [] sched.at = "source" -> sched' = [sched EXCEPT !.at = "decide"] /\ UNCHANGED <<work, clock>>
      [] sched.at = "full" -> Superseded
      [] OTHER -> sched' = [sched EXCEPT !.jobs = Tail(@)] /\ UNCHANGED <<work, clock>>

(* The changes that the scheduler's pass in hand was to describe. *)
Charge ==
    CASE sched.at \in {"decide", "full"} ->
            IF sched.over THEN dirty
            ELSE dirty \cap (ScopeOf(work.pending) \cup ScopeOf(work.retry))
      [] sched.at \in {"retrying", "admitted"} -> dirty \cap ScopeOf(Head(sched.jobs))
      [] OTHER -> {}

(* Mutant: only an error keeps a pass from covering. *)
PassCoversCancelled(outcome) == outcome # "failed"

(* pass_covers: a failed or cancelled pass covers nothing. *)
PassCovers(outcome) == outcome = "ok"

(* A pass ends.  The first one over the current window asks for the historical    *)
(* pass (maybe_start_automatic_pass); whether that is due is arbitrary here.      *)
PassEnds ==
    /\ pass # None
    /\ \E outcome \in {"ok", "failed", "cancelled"},
          left \in {"nothing", "work", "overflow"}, auto \in BOOLEAN :
          /\ CASE outcome = "ok" -> pass.read /\ ~ controller.cancel
               [] outcome = "failed" -> TRUE
               [] outcome = "cancelled" -> controller.cancel
          /\ auto => pass.whole
          /\ used' = [used EXCEPT !.events = @ + (IF auto THEN 1 ELSE 0)
                                                 + (IF outcome = "failed" THEN 1 ELSE 0)]
          /\ used'.events <= MaxEvents
          /\ \E part \in IF pass.read THEN {{}} ELSE SUBSET (pass.scope \cap dirty) :
                /\ Describe(part)
                /\ adrift' = (IF pass.by = "scheduler" /\ ~ pass.read
                              THEN adrift \cup Charge ELSE adrift) \ part
          /\ LET released == Release(controller, left)
             IN controller' = IF auto THEN Request(released, "history") ELSE released
          /\ owed' = (owed \/ auto)
          /\ outstanding' = IF PassCovers(outcome) THEN outstanding \ pass.covers ELSE outstanding
    /\ pass' = None
    /\ IF pass.by = "scheduler" THEN SchedulerResumes ELSE UNCHANGED <<sched, work, clock>>
    /\ UNCHANGED <<gathered, reader>>

-----------------------------------------------------------------------------
(* The loop of the scheduler.                                                     *)

Idle == ~ (pass # None /\ pass.by = "scheduler")

(* The launch pass.  Discovery may be paused, or its setting unreadable. *)
Launch ==
    /\ sched.at = "launch" /\ Idle
    /\ \/ /\ ~ reader.paused /\ StartFullPass("scheduler", FALSE)
          /\ controller' = [controller EXCEPT !.cancel = FALSE]
          /\ UNCHANGED <<sched, used>>
       \/ /\ reader.paused \/ pass # None \/ used.events < MaxEvents
          /\ used' = IF reader.paused \/ pass # None THEN used
                     ELSE [used EXCEPT !.events = @ + 1]
          /\ sched' = [sched EXCEPT !.at = "wait"]
          /\ UNCHANGED <<pass, controller, owed>>
    /\ UNCHANGED <<dirty, gathered, scanVars, reader, adrift, told>>

(* What the loop does after a wake.  While discovery is paused, or its setting    *)
(* cannot be read, the burst is dropped and the due time forgotten.  Otherwise    *)
(* the burst is classified, reported and merged, or remembered as an overflow.    *)
Woken(c, k, tick) ==
    LET burst == Burst(c.burst)
        classified == IF burst.overflowed THEN NoWork ELSE ClassifyBurst(burst.paths)
    IN /\ controller' = [c EXCEPT !.burst = None]
       /\ \/ /\ reader.paused \/ used.events < MaxEvents
             /\ used' = IF reader.paused THEN used ELSE [used EXCEPT !.events = @ + 1]
             /\ clock' = [k EXCEPT !.due = None]
             /\ sched' = [sched EXCEPT !.blind = ~ reader.paused]
             /\ adrift' = adrift \cup (IF burst.overflowed THEN dirty ELSE burst.paths \cap dirty)
             /\ UNCHANGED <<work, outstanding, told>>
          \/ /\ ~ reader.paused
             /\ clock' = k
             /\ work' = [work EXCEPT !.pending = MergeWork(@, classified)]
             /\ outstanding' = outstanding \cup classified.agents \cup classified.db
             /\ told' = told \cup {s \in burst.paths \cap dirty :
                                      AgentOf[s] \in classified.agents \cup classified.db}
             /\ sched' = [sched EXCEPT !.at = "refresh", !.tick = tick,
                                       !.over = burst.overflowed, !.blind = FALSE]
             /\ UNCHANGED <<used, adrift>>
       /\ UNCHANGED <<dirty, gathered, pass, reader, owed>>

(* Mutant: the tick is a sleep that every wake starts again. *)
WakeOnKickRestartsTick ==
    /\ sched.at = "wait" /\ controller.kick
    /\ Woken([controller EXCEPT !.kick = FALSE], [clock EXCEPT !.tickIn = TickInterval], FALSE)

WakeOnKick ==
    /\ sched.at = "wait" /\ controller.kick
    /\ Woken([controller EXCEPT !.kick = FALSE], clock, FALSE)

WakeOnTick ==
    /\ sched.at = "wait" /\ clock.tickIn = 0
    /\ Woken(controller, [clock EXCEPT !.tickIn = TickInterval], TRUE)

WakeOnDue ==
    /\ sched.at = "wait" /\ clock.due = 0
    /\ Woken(controller, clock, FALSE)

(* The source refreshes go first.  When the slot is taken they are put back and   *)
(* the loop starts over, without the overflow or the tick it had in hand.         *)
RefreshSources ==
    /\ sched.at = "refresh"
    /\ \/ /\ controller.refreshes = {}
          /\ sched' = [sched EXCEPT !.at = "decide"]
          /\ UNCHANGED <<controller, pass, adrift, owed>>
       \/ /\ controller.refreshes # {}
          /\ StartPass("scheduler", {s \in Sources : AgentOf[s] \in controller.refreshes},
                       FALSE, TRUE)
          /\ controller' = [controller EXCEPT !.refreshes = {}, !.cancel = FALSE]
          /\ sched' = [sched EXCEPT !.at = "source"]
          /\ UNCHANGED adrift
       \/ /\ controller.refreshes # {} /\ pass # None
          /\ controller' = [controller EXCEPT !.kick = TRUE]
          /\ sched' = [sched EXCEPT !.at = "wait", !.over = FALSE, !.tick = FALSE]
          /\ adrift' = IF sched.over THEN adrift \cup dirty ELSE adrift
          /\ UNCHANGED <<pass, owed>>
    /\ UNCHANGED <<dirty, gathered, scanVars, reader, used, told>>

(* A request, an overflow or the tick runs a full pass; a slot that is taken      *)
(* drops it, but a historical one is requested again.  Otherwise scoped work.     *)
Decide ==
    /\ sched.at = "decide" /\ Idle
    /\ LET history == controller.trigger = "history"
           full == controller.trigger # None \/ sched.over \/ sched.tick
           taken == [controller EXCEPT !.trigger = None]
       IN \/ /\ full /\ StartFullPass("scheduler", history)
             /\ controller' = [taken EXCEPT !.cancel = FALSE]
             /\ sched' = [sched EXCEPT !.at = "full"]
             /\ UNCHANGED <<work, clock, adrift>>
          \/ /\ full /\ pass # None
             /\ controller' = IF history THEN Request(taken, "history") ELSE taken
             /\ adrift' = adrift \cup Charge
             /\ Superseded
             /\ UNCHANGED <<pass, owed>>
          \/ /\ ~ full
             /\ sched' = [sched EXCEPT !.at = "retrying", !.jobs = LanesOf(work.retry)]
             /\ work' = [work EXCEPT !.retry = NoWork]
             /\ UNCHANGED <<controller, pass, clock, adrift, owed>>
    /\ UNCHANGED <<dirty, gathered, outstanding, reader, used, told>>

(* run_admitted_work, one lane: work that finds the slot taken is kept.  Only a   *)
(* rediscovery is a whole pass, which counts for the ledger.                      *)
RunLane ==
    /\ sched.at \in {"retrying", "admitted"} /\ Idle /\ sched.jobs # <<>>
    /\ LET job == Head(sched.jobs)
       IN \/ /\ StartPass("scheduler", ScopeOf(job), FALSE, Rediscovered(job) # {})
             /\ controller' = [controller EXCEPT !.cancel = FALSE]
             /\ UNCHANGED <<sched, work>>
          \/ /\ pass # None
             /\ sched' = [sched EXCEPT !.jobs = Tail(@)]
             /\ work' = [work EXCEPT !.retry = MergeWork(@, job)]
             /\ UNCHANGED <<controller, pass, owed>>
    /\ UNCHANGED <<dirty, gathered, clock, outstanding, reader, used, adrift, told>>

(* Floors::admit: what is past its floor runs now and is stamped. *)
AdmitWork ==
    /\ sched.at = "retrying" /\ Idle /\ sched.jobs = <<>>
    /\ LET now == RunNow(work.pending)
           later == Deferred(work.pending)
       IN /\ sched' = [sched EXCEPT !.at = "admitted", !.jobs = LanesOf(now)]
          /\ work' = [work EXCEPT !.pending = later]
          /\ clock' = [Stamp(clock, now) EXCEPT !.due = EarliestDue(later)]
    /\ UNCHANGED <<dirty, gathered, controller, pass, outstanding, reader, used,
                   adrift, told, owed>>

(* Mutant: only the floors give a due time. *)
ArmDeferredForgetsRetry ==
    /\ sched.at = "admitted" /\ Idle /\ sched.jobs = <<>>
    /\ sched' = [sched EXCEPT !.at = "wait"]
    /\ UNCHANGED <<dirty, gathered, controller, pass, scanVars, reader, used, adrift, told, owed>>

(* The due time of the next wake: the earliest floor, or the retry delay. *)
ArmDeferred ==
    /\ sched.at = "admitted" /\ Idle /\ sched.jobs = <<>>
    /\ sched' = [sched EXCEPT !.at = "wait"]
    /\ clock' = IF work.retry = NoWork THEN clock ELSE [clock EXCEPT !.due = 0]
    /\ UNCHANGED <<dirty, gathered, controller, pass, work, outstanding, reader, used,
                   adrift, told, owed>>

-----------------------------------------------------------------------------
(* The reader, the insights worker, and time.                                     *)

(* scan_now and scan_history run a pass themselves.  When the slot is taken the   *)
(* first is dropped and the second is left to the scheduler.                      *)
CommandScan(history) ==
    /\ used.events < MaxEvents
    /\ used' = [used EXCEPT !.events = @ + 1]
    /\ \/ /\ StartFullPass("command", history)
          /\ controller' = [controller EXCEPT !.cancel = FALSE]
       \/ /\ pass # None /\ history
          /\ controller' = Request(controller, "history")
          /\ owed' = TRUE
          /\ UNCHANGED pass
    /\ UNCHANGED <<dirty, gathered, sched, scanVars, reader, adrift, told>>

(* A command that changes what is scanned requests a pass of the scheduler. *)
RequestScan ==
    /\ used.events < MaxEvents
    /\ used' = [used EXCEPT !.events = @ + 1]
    /\ controller' = Request(controller, "routine")
    /\ UNCHANGED <<dirty, gathered, pass, sched, scanVars, reader, adrift, told, owed>>

(* The evidence backlog is drained and asks for the historical pass that a pass   *)
(* over the current window may have left (announce_backlog).                      *)
BacklogDrains ==
    /\ used.events < MaxEvents
    /\ used' = [used EXCEPT !.events = @ + 1]
    /\ controller' = Request(controller, "history")
    /\ owed' = TRUE
    /\ UNCHANGED <<dirty, gathered, pass, sched, scanVars, reader, adrift, told>>

(* An evidence reader rejected a stale claim (request_source_refresh). *)
RequestSourceRefresh(a) ==
    /\ used.changes < MaxChanges
    /\ used' = [used EXCEPT !.changes = @ + 1]
    /\ controller' = [controller EXCEPT !.refreshes = @ \cup {a}, !.kick = TRUE]
    /\ UNCHANGED <<dirty, gathered, pass, sched, scanVars, reader, adrift, told, owed>>

(* request_cancel reads the running flag and then stores the cancel: the pass it  *)
(* saw may have ended in between.                                                 *)
CancelChecks ==
    /\ used.events < MaxEvents /\ pass # None
    /\ used' = [used EXCEPT !.events = @ + 1]
    /\ reader' = [reader EXCEPT !.cancelling = TRUE]
    /\ UNCHANGED <<dirty, gathered, controller, pass, sched, scanVars, adrift, told, owed>>

CancelStores ==
    /\ reader.cancelling
    /\ reader' = [reader EXCEPT !.cancelling = FALSE]
    /\ controller' = [controller EXCEPT !.cancel = TRUE]
    /\ UNCHANGED <<dirty, gathered, pass, sched, scanVars, used, adrift, told, owed>>

Pause ==
    /\ used.events < MaxEvents /\ ~ reader.paused /\ ~ reader.resuming
    /\ used' = [used EXCEPT !.events = @ + 1]
    /\ reader' = [reader EXCEPT !.paused = TRUE]
    /\ UNCHANGED <<dirty, gathered, controller, pass, sched, scanVars, adrift, told, owed>>

(* The setting is saved before the pass is requested. *)
ResumeSaves ==
    /\ reader.paused
    /\ reader' = [reader EXCEPT !.paused = FALSE, !.resuming = TRUE]
    /\ UNCHANGED <<dirty, gathered, controller, pass, sched, scanVars, used, adrift, told, owed>>

ResumeRequests ==
    /\ reader.resuming
    /\ reader' = [reader EXCEPT !.resuming = FALSE]
    /\ controller' = Request(controller, "routine")
    /\ UNCHANGED <<dirty, gathered, pass, sched, scanVars, used, adrift, told, owed>>

Older(ages) == [x \in DOMAIN ages |-> Min({ages[x] + 1, MaxAge})]

(* A pass of the loop is short against the unit of time; one of a command need    *)
(* not be.                                                                        *)
TimePasses ==
    /\ sched.at = "wait"
    /\ clock' = [clock EXCEPT !.sessions = Older(@), !.titles = Older(@), !.agents = Older(@),
                              !.tickIn = Max({0, @ - 1}),
                              !.due = IF @ = None THEN None ELSE Max({0, @ - 1})]
    /\ clock' # clock
    /\ UNCHANGED <<dirty, gathered, controller, pass, sched, work, outstanding, reader, used,
                   adrift, told, owed>>

Next ==
    \/ \E s \in Sources : Change(s)
    \/ IgnoredEvent \/ DebouncePushes \/ LivePoll
    \/ PassReads \/ PassEnds
    \/ Launch \/ WakeOnKick \/ WakeOnTick \/ WakeOnDue
    \/ RefreshSources \/ Decide \/ RunLane \/ AdmitWork \/ ArmDeferred
    \/ \E history \in BOOLEAN : CommandScan(history)
    \/ RequestScan \/ BacklogDrains \/ (\E a \in Agents : RequestSourceRefresh(a))
    \/ CancelChecks \/ CancelStores \/ Pause \/ ResumeSaves \/ ResumeRequests
    \/ TimePasses

Spec == Init /\ [][Next]_vars

(* A pass that started gets to its end, the loop goes on after a wake, and time   *)
(* passes.  The loop's select picks among the ready arms at random, so the tick   *)
(* that is due again and again is taken; nothing is assumed of the watcher.       *)
Fairness ==
    /\ WF_vars(PassReads) /\ WF_vars(PassEnds)
    /\ WF_vars(Launch \/ RefreshSources \/ Decide \/ RunLane \/ AdmitWork \/ ArmDeferred)
    /\ SF_vars(WakeOnTick) /\ SF_vars(TimePasses)

FairSpec == Spec /\ Fairness

-----------------------------------------------------------------------------
(* Properties.                                                                    *)

(* Where a change waits that the watcher has seen. *)
Reading == pass # None /\ pass.by = "scheduler" /\ pass.read

Held(s) ==
    \/ \E b \in {gathered, controller.burst} \ {None} : s \in b.paths \/ b.overflowed
    \/ sched.over
    \/ s \in ScopeOf(work.pending) \cup ScopeOf(work.retry)
    \/ \E i \in DOMAIN sched.jobs : s \in ScopeOf(sched.jobs[i]) /\ ~ (i = 1 /\ Reading)

(* A change that the watcher delivered waits somewhere until a pass describes it: *)
(* in a queue, a burst, the scoped work, or as an overflow.  Bursts and work that *)
(* meet a taken slot, a floor, or each other are never forgotten; the cases in    *)
(* which the code leaves a change to the next tick are exactly those of adrift.   *)
NoSilentLoss == \A s \in dirty \ adrift : Held(s)

(* The loop never sleeps on work: a burst, a trigger or a refresh that waits has  *)
(* the permit of the kick, whoever took an earlier permit, and scoped work that   *)
(* was deferred or found the slot taken has a due time.  A wake on which the      *)
(* settings could not be read is the exception.                                   *)
NeverSleepsOnScan ==
    sched.at = "wait" /\ ~ sched.blind /\ ~ reader.paused /\ ~ reader.resuming =>
        /\ \/ controller.trigger # None \/ controller.burst # None \/ controller.refreshes # {}
           => controller.kick
        /\ work.pending # NoWork \/ work.retry # NoWork => clock.due # None \/ controller.kick

(* Anonymous activity is covered on the lifecycle bus only by a pass that         *)
(* described the change behind it: not by one that was busy, failed, cancelled or *)
(* run by a command (AnonymousLedger).                                            *)
CoverHonest == \A s \in told : AgentOf[s] \in outstanding

(* A historical pass that was requested stays the pending trigger until one       *)
(* starts, whatever other requests, pauses and passes come in between.            *)
HistoryKept == owed => controller.trigger = "history"

(* When the sources come to rest every change is described in the end, seen by    *)
(* the watcher or not, whatever was dropped, busy or failed, unless discovery is  *)
(* paused: bursts that never stop do not put the tick off for ever.               *)
EventuallyDescribed == dirty # {} ~> dirty = {} \/ reader.paused
=============================================================================
