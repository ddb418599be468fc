------------------------- MODULE SessionRegistry -------------------------
(***************************************************************************)
(* The canonical session registry of the desktop app, the struct Registry  *)
(* of session_lifecycle.rs: its state as one record and each of its        *)
(* methods as an operator from a record to a record.  A method runs under  *)
(* the registry lock, so an operator is one atomic change; the actor that  *)
(* calls them, and everything that runs beside it, is in SessionLifecycle. *)
(*                                                                         *)
(* Left out: the agent label of a session (it is a function of the key),   *)
(* the removal reason and the new/resumed flags (wording of an event), the *)
(* memory of recently idle keys (it only chooses that wording), and the    *)
(* model evidence, which SessionModels has.                                *)
(***************************************************************************)
EXTENDS Integers, FiniteSets, Sequences

CONSTANTS
    Keys,             \* session keys, naturals: the walk uses their order
    RemoteKeys,       \* the keys with a remote host id
    Agents,           \* the agents that can be active anonymously
    None,             \* no entry, no page, no requirement
    QuietWindow,      \* QUIET_WINDOW_SECS
    ActiveWindow,     \* ACTIVE_SESSION_WINDOW_SECS
    DeletionCap,      \* DELETION_MEMORY_CAP
    PendingCap,       \* ADMISSION_PENDING_CAP
    PageSize          \* RECONCILE_PAGE

\* Key 0 is no key: a walk whose cursor is 0 starts before every key.
ASSUME KeysAssumption == /\ Keys \subseteq Nat \ {0}
                         /\ IsFiniteSet(Keys)
                         /\ RemoteKeys \subseteq Keys

\* A session turns quiet strictly before it leaves the active window.
ASSUME WindowAssumption == /\ QuietWindow \in Nat \ {0}
                           /\ ActiveWindow \in Nat
                           /\ QuietWindow < ActiveWindow

ASSUME CapAssumption == /\ DeletionCap \in Nat \ {0}
                        /\ PendingCap \in Nat \ {0}
                        /\ PageSize \in Nat \ {0}

Max2(a, b) == IF a >= b THEN a ELSE b

----------------------------------------------------------------------------
(* Types.  A value None is not a record and not a number.                  *)

Time == Int
Incarnation == Nat
Revision == Nat

LiveEntry == [incarnation : Incarnation, exists_at : Revision,
              last_activity_at : Time, quiet_published : BOOLEAN]

AnonymousEntry == [generation : Nat, at : Time]

Deletion == [incarnation : Incarnation, absent_at : Revision]

\* Existence and PendingAdmission carry the same evidence.
Existence == [incarnation : Incarnation, at : Time, revision : Revision]

\* A row of the store as a presence page returns it.
Presence == [incarnation : Incarnation, epoch : Time]

Run == [cursor : Nat, through : Revision]

\* A row of a recovery page carries its key; ActiveCursor is its place in the
\* order of the pages.
ActiveRow == [key : Keys, incarnation : Incarnation, epoch : Time]
ActiveCursor == [epoch : Time, key : Keys]

RecoveryPage == [rows : Seq(ActiveRow), revision : Revision,
                 cursor : ActiveCursor \cup {None}, exhausted : BOOLEAN]
SeedRecovery == [since : Time, cursor : ActiveCursor \cup {None},
                 page : RecoveryPage \cup {None}]

PageClass == {"admission", "walk", "recovery"}

DeadlineKey == ({"session"} \X Keys) \cup ({"anonymous"} \X Agents)

\* view, anonymousView and gone are history: what the published lifecycle events
\* tell a client, and the highest incarnation whose absence was applied.
Registry ==
    [live : [Keys -> LiveEntry \cup {None}], working : Int,
     deadlines : SUBSET (Time \X DeadlineKey),
     deleted : [Keys -> Deletion \cup {None}],
     forgotten_through : Revision, broad_through : Revision,
     pending : [Keys -> Existence \cup {None}],
     anonymous : [Agents -> AnonymousEntry \cup {None}],
     needs : Revision \cup {None}, run : Run \cup {None}, turn : PageClass,
     recovery : SeedRecovery \cup {None},
     view : [Keys -> {"absent", "working", "quiet"}], anonymousView : SUBSET Agents,
     gone : [Keys -> Incarnation \cup {-1}]]

\* None is distinguishable from every value it stands in for.
ASSUME NoneAssumption ==
    /\ None \notin Nat
    /\ None \notin LiveEntry \cup AnonymousEntry \cup Deletion
    /\ None \notin Existence \cup Presence \cup Run
    /\ None \notin ActiveCursor \cup RecoveryPage \cup SeedRecovery

----------------------------------------------------------------------------
(* The live map with its deadline index and its working count.             *)

\* LiveEntry::deadline
Deadline(entry) ==
    entry.last_activity_at + (IF entry.quiet_published THEN ActiveWindow ELSE QuietWindow)

SessionDeadline(k, entry) == <<Deadline(entry), <<"session", k>>>>

AnonymousDeadline(a, entry) == <<entry.at + QuietWindow, <<"anonymous", a>>>>

Weight(entry) == IF entry = None \/ entry.quiet_published THEN 0 ELSE 1

\* insert_live.  The deadline of a replaced entry is not removed: callers
\* remove the entry first.
InsertLive(r, k, entry) ==
    IF k \in RemoteKeys THEN r
    ELSE [r EXCEPT !.live[k] = entry,
                   !.deadlines = @ \cup {SessionDeadline(k, entry)},
                   !.working = @ + Weight(entry) - Weight(r.live[k])]

\* remove_live
RemoveLive(r, k) ==
    LET entry == r.live[k] IN
    IF entry = None THEN r
    ELSE [r EXCEPT !.live[k] = None,
                   !.deadlines = @ \ {SessionDeadline(k, entry)},
                   !.working = @ - Weight(entry)]

\* The Idle event that ends a live session, with the removal of its entry.
EndLive(r, k) == [RemoveLive(r, k) EXCEPT !.view[k] = "absent"]

----------------------------------------------------------------------------
(* Deletion memory.                                                        *)

Remembered(deleted) == {k \in Keys : deleted[k] # None}

\* The first pair of deleted_by_revision, an index derived from the memory.
Oldest(deleted) ==
    CHOOSE k \in Remembered(deleted) : \A j \in Remembered(deleted) :
        \/ deleted[k].absent_at < deleted[j].absent_at
        \/ deleted[k].absent_at = deleted[j].absent_at /\ k <= j

\* Mutant of Evict: the evicted absence does not raise forgotten_through.
EvictForgets(r) == [r EXCEPT !.deleted[Oldest(r.deleted)] = None]

Evict(r) ==
    [r EXCEPT !.deleted[Oldest(r.deleted)] = None,
              !.forgotten_through = Max2(@, r.deleted[Oldest(r.deleted)].absent_at)]

\* remember.  The ghost field gone keeps what the bounded memory forgets.
Remember(r, k, incarnation, absent_at) ==
    LET old == r.deleted[k]
        new == IF old = None
               THEN [incarnation |-> incarnation, absent_at |-> absent_at]
               ELSE [incarnation |-> Max2(old.incarnation, incarnation),
                     absent_at |-> Max2(old.absent_at, absent_at)]
        s == [r EXCEPT !.deleted[k] = new, !.gone[k] = Max2(@, incarnation)]
    IN IF old = None /\ Cardinality(Remembered(s.deleted)) > DeletionCap THEN Evict(s) ELSE s

----------------------------------------------------------------------------
(* Admission.  An operator that reports a Touch returns it beside the      *)
(* registry.                                                               *)

Touched(r, touch) == [reg |-> r, touch |-> touch]

Waiting(r) == {k \in Keys : r.pending[k] # None}

DropPending(r, k) == [r EXCEPT !.pending[k] = None]

\* Mutant of Defer: the pending set grows past its cap.
DeferUncapped(r, k, fact) == Touched([r EXCEPT !.pending[k] = fact], "deferred")

\* defer
Defer(r, k, fact) ==
    LET held == r.pending[k]
        merged == [fact EXCEPT !.at = Max2(held.at, fact.at),
                               !.revision = Max2(held.revision, fact.revision)]
    IN IF held = None
       THEN IF Cardinality(Waiting(r)) >= PendingCap THEN Touched(r, "blocked")
            ELSE Touched([r EXCEPT !.pending[k] = fact], "deferred")
       ELSE IF held.incarnation = fact.incarnation
       THEN Touched([r EXCEPT !.pending[k] = merged], "deferred")
       ELSE IF held.incarnation < fact.incarnation
       THEN Touched([r EXCEPT !.pending[k] = fact], "deferred")
       ELSE Touched(r, "deferred")

NewEntry(fact) ==
    [incarnation |-> fact.incarnation, exists_at |-> fact.revision,
     last_activity_at |-> fact.at, quiet_published |-> FALSE]

\* Mutant of Refresh: the superseded deadline stays in the index.
RefreshKeepsDeadline(r, k, fact) ==
    LET entry == r.live[k]
        seen == [entry EXCEPT !.exists_at = Max2(@, fact.revision)]
        active == [seen EXCEPT !.last_activity_at = fact.at, !.quiet_published = FALSE]
    IN IF fact.at <= entry.last_activity_at
       THEN Touched([r EXCEPT !.live[k] = seen], "unchanged")
       ELSE Touched([r EXCEPT !.live[k] = active,
                              !.deadlines = @ \cup {SessionDeadline(k, active)},
                              !.working = @ + 1 - Weight(entry)],
                    "advanced")

\* establish, same incarnation: the entry keeps the highest revision and time.
Refresh(r, k, fact) ==
    LET entry == r.live[k]
        seen == [entry EXCEPT !.exists_at = Max2(@, fact.revision)]
        active == [seen EXCEPT !.last_activity_at = fact.at, !.quiet_published = FALSE]
    IN IF fact.at <= entry.last_activity_at
       THEN Touched([r EXCEPT !.live[k] = seen], "unchanged")
       ELSE Touched([r EXCEPT !.live[k] = active,
                              !.deadlines = (@ \ {SessionDeadline(k, entry)})
                                              \cup {SessionDeadline(k, active)},
                              !.working = @ + 1 - Weight(entry)],
                    "advanced")

\* Mutant of Admit: the settled pending evidence is not dropped.
AdmitKeepsPending(r, k, fact) == Touched(InsertLive(r, k, NewEntry(fact)), "added")

\* establish, the last part: the pending evidence of the key is settled.
Admit(r, k, fact) ==
    LET held == r.pending[k]
        merged == [fact EXCEPT !.at = Max2(@, held.at),
                               !.revision = Max2(@, held.revision)]
    IN IF held = None THEN Touched(InsertLive(r, k, NewEntry(fact)), "added")
       ELSE IF held.incarnation > fact.incarnation
       THEN Touched(Remember(r, k, fact.incarnation, held.revision), "stale")
       ELSE IF held.incarnation = fact.incarnation
       THEN Touched(InsertLive(DropPending(r, k), k, NewEntry(merged)), "added")
       ELSE Touched(InsertLive(Remember(DropPending(r, k), k, held.incarnation, fact.revision),
                               k, NewEntry(fact)), "added")

\* Mutant of Guarded: the deleted incarnation itself passes the deletion memory.
GuardedOffByOne(r, k, fact) ==
    IF r.deleted[k] # None /\ r.deleted[k].incarnation > fact.incarnation
    THEN Touched(r, "stale")
    ELSE IF fact.revision < r.forgotten_through \/ fact.revision < r.broad_through
    THEN Defer(r, k, fact)
    ELSE Admit(r, k, fact)

\* establish, the guards that precede it for a key that is not live.
Guarded(r, k, fact) ==
    IF r.deleted[k] # None /\ r.deleted[k].incarnation >= fact.incarnation
    THEN Touched(r, "stale")
    ELSE IF fact.revision < r.forgotten_through \/ fact.revision < r.broad_through
    THEN Defer(r, k, fact)
    ELSE Admit(r, k, fact)

OutOfWindow(at, now) == now - at >= ActiveWindow

\* establish.  A higher incarnation ends the live one (Idle, Removed) first.
Establish(r, k, fact, now) ==
    LET entry == r.live[k]
        replaced == Remember(EndLive(r, k), k, entry.incarnation, fact.revision)
    IN IF k \in RemoteKeys \/ OutOfWindow(fact.at, now) THEN Touched(r, "stale")
       ELSE IF entry = None THEN Guarded(r, k, fact)
       ELSE IF fact.incarnation < entry.incarnation THEN Touched(r, "stale")
       ELSE IF fact.incarnation = entry.incarnation THEN Refresh(r, k, fact)
       ELSE Guarded(replaced, k, fact)

\* narrate: Started or Activity tells the clients that the session works.
Narrate(t, k) ==
    IF t.touch \in {"added", "advanced"}
    THEN Touched([t.reg EXCEPT !.view[k] = "working"], t.touch) ELSE t

\* The existence arm of observe, and the end of apply_present_row.
Observe(r, k, fact, now) == Narrate(Establish(r, k, fact, now), k)

----------------------------------------------------------------------------
(* Removal.                                                                *)

\* remove.  Removed is published to list readers, who refetch; Idle ends the
\* session for lifecycle readers.
Remove(r, k, incarnation, revision) ==
    LET s == Remember(r, k, incarnation, revision) IN
    IF r.live[k] # None
    THEN IF r.live[k].incarnation > incarnation THEN s ELSE EndLive(s, k)
    ELSE IF r.pending[k] # None /\ r.pending[k].incarnation <= incarnation
    THEN DropPending(s, k)
    ELSE s

\* The merge of reconcile.needs with a newer requirement.
Require(needs, revision) ==
    IF needs # None /\ needs >= revision THEN needs ELSE revision

\* Mutant of Broad: a late report moves the guard back.
BroadOverwrites(r, revision) ==
    [r EXCEPT !.broad_through = revision, !.needs = Require(@, revision)]

\* broad
Broad(r, revision) ==
    [r EXCEPT !.broad_through = Max2(@, revision), !.needs = Require(@, revision)]

----------------------------------------------------------------------------
(* Anonymous activity.                                                     *)

\* anonymous
AnonymousTouch(r, a, at, generation, now) ==
    LET entry == r.anonymous[a]
        new == [generation |-> generation, at |-> at]
        kept == [entry EXCEPT !.generation = generation]
    IN IF now - at >= QuietWindow THEN r
       ELSE IF entry = None
       THEN [r EXCEPT !.anonymous[a] = new,
                      !.deadlines = @ \cup {AnonymousDeadline(a, new)},
                      !.anonymousView = @ \cup {a}]
       ELSE IF generation <= entry.generation THEN r
       ELSE IF at <= entry.at THEN [r EXCEPT !.anonymous[a] = kept]
       ELSE [r EXCEPT !.anonymous[a] = new,
                      !.deadlines = (@ \ {AnonymousDeadline(a, entry)})
                                      \cup {AnonymousDeadline(a, new)}]

\* remove_anonymous and the AnonymousCleared event of both its callers.
ClearAnonymous(r, a) ==
    [r EXCEPT !.anonymous[a] = None,
              !.deadlines = @ \ {AnonymousDeadline(a, r.anonymous[a])},
              !.anonymousView = @ \ {a}]

\* Mutant of Cover: a cover clears a touch made after it was captured.
CoverAll(r, a, through) == IF r.anonymous[a] # None THEN ClearAnonymous(r, a) ELSE r

\* cover, for one agent
Cover(r, a, through) ==
    IF r.anonymous[a] # None /\ r.anonymous[a].generation <= through
    THEN ClearAnonymous(r, a) ELSE r

----------------------------------------------------------------------------
(* Presence pages.                                                         *)

\* Mutant of ApplyPresentRow: the waiting time of another incarnation is merged.
PresentRowMergesAny(r, k, row, revision, now) ==
    LET held == r.pending[k]
        at == IF held = None THEN row.epoch ELSE Max2(held.at, row.epoch)
    IN Observe(DropPending(r, k), k,
               [incarnation |-> row.incarnation, at |-> at, revision |-> revision], now)

\* apply_present_row
ApplyPresentRow(r, k, row, revision, now) ==
    LET held == r.pending[k]
        fact(at) == [incarnation |-> row.incarnation, at |-> at, revision |-> revision]
    IN IF held = None THEN Observe(r, k, fact(row.epoch), now)
       ELSE IF held.incarnation = row.incarnation
       THEN Observe(DropPending(r, k), k, fact(Max2(held.at, row.epoch)), now)
       ELSE IF held.incarnation < row.incarnation
       THEN Observe(Remember(DropPending(r, k), k, held.incarnation, revision),
                    k, fact(row.epoch), now)
       ELSE Touched(Remember(r, k, row.incarnation, held.revision), "stale")

\* apply_absent_row
ApplyAbsentRow(r, k, revision) ==
    IF r.pending[k] # None
    THEN IF r.pending[k].revision <= revision
         THEN DropPending(Remember(r, k, r.pending[k].incarnation, revision), k)
         ELSE r
    ELSE IF r.live[k] # None /\ r.live[k].exists_at <= revision
    THEN Remove(r, k, r.live[k].incarnation, revision)
    ELSE r

\* One key of apply_page; rows[k] is None when the page does not hold the key.
ApplyRow(r, k, rows, revision, now) ==
    IF rows[k] = None THEN ApplyAbsentRow(r, k, revision)
    ELSE ApplyPresentRow(r, k, rows[k], revision, now).reg

\* The end of apply_page for a walk: the cursor moves behind the page.
AdvanceWalk(r, last) ==
    IF r.run = None THEN r ELSE [r EXCEPT !.run.cursor = last]

\* Mutant of HoldRecoveryPage: a full page counts as the last one.
HoldRecoveryPageOffByOne(r, rows, revision) ==
    IF r.recovery = None THEN r
    ELSE [r EXCEPT !.recovery.page =
            [rows |-> rows, revision |-> revision, cursor |-> None,
             exhausted |-> Len(rows) <= PageSize]]

\* apply_page for a recovery page: the whole page is held until it is applied.
HoldRecoveryPage(r, rows, revision) ==
    IF r.recovery = None THEN r
    ELSE [r EXCEPT !.recovery.page =
            [rows |-> rows, revision |-> revision,
             cursor |-> IF rows = <<>> THEN None
                        ELSE [epoch |-> rows[Len(rows)].epoch, key |-> rows[Len(rows)].key],
             exhausted |-> Len(rows) < PageSize]]

\* One turn of the loop of apply_recovery: a blocked row stays in front.
RecoverRow(r, now) ==
    LET held == r.recovery.page
        row == Head(held.rows)
        t == ApplyPresentRow(r, row.key, row, held.revision, now)
    IN IF t.touch = "blocked" THEN t
       ELSE Touched([t.reg EXCEPT !.recovery = [r.recovery EXCEPT !.page.rows = Tail(held.rows)]],
                    t.touch)

\* The end of apply_recovery once every row of the page is applied.
FinishRecoveryPage(r) ==
    IF r.recovery.page.exhausted THEN [r EXCEPT !.recovery = None]
    ELSE [r EXCEPT !.recovery.cursor = r.recovery.page.cursor, !.recovery.page = None]

\* recovery_ready
RecoveryReady(r) ==
    /\ Cardinality(Waiting(r)) < PendingCap
    /\ r.recovery # None /\ r.recovery.page # None

\* Mutant of WantsPage: a recovery that waits for its next page wakes nobody.
WantsPageNoRecovery(r) == Waiting(r) # {} \/ r.run # None \/ r.needs # None

\* wants_page
WantsPage(r) ==
    \/ Waiting(r) # {} \/ r.run # None \/ r.needs # None
    \/ r.recovery # None /\ r.recovery.page = None

----------------------------------------------------------------------------
(* The choice of the next page.                                            *)

\* The retain of next_page_request
PrunePending(r, now) ==
    [r EXCEPT !.pending =
        [k \in Keys |-> IF r.pending[k] # None /\ OutOfWindow(r.pending[k].at, now)
                        THEN None ELSE r.pending[k]]]

FirstKeys(S) == {k \in S : Cardinality({j \in S : j < k}) < PageSize}

\* A request names its class and its keys; a recovery page names no keys.
Request(class, keys) == [class |-> class, keys |-> keys]

Walkable(r, run) ==
    {k \in Keys : /\ r.live[k] # None
                  /\ k > run.cursor
                  /\ r.live[k].exists_at < run.through}

\* Mutant of OpenRun: the requirement of the new run is the guard of the old one.
OpenRunStale(r) ==
    [r EXCEPT !.run = [cursor |-> 0, through |-> r.needs - 1], !.needs = None]

OpenRun(r) == [r EXCEPT !.run = [cursor |-> 0, through |-> r.needs], !.needs = None]

\* next_walk_page.  Its loop turns at most twice: the second turn opens the
\* requirement that arrived during the first one's run.
NextWalk(r) ==
    LET first == IF r.run = None THEN OpenRun(r) ELSE r
        again == OpenRun([first EXCEPT !.run = None])
        ended == [r EXCEPT !.run = None, !.needs = None]
        page(s) == [reg |-> s, request |-> Request("walk", FirstKeys(Walkable(s, s.run)))]
        none == [reg |-> ended, request |-> None]
    IN IF r.run = None /\ r.needs = None THEN [reg |-> r, request |-> None]
       ELSE IF Walkable(first, first.run) # {} THEN page(first)
       ELSE IF first.needs # None /\ first.needs > first.run.through
       THEN IF Walkable(again, again.run) # {} THEN page(again) ELSE none
       ELSE none

NextOfClass(r, class) ==
    CASE class = "admission" ->
           [reg |-> r, request |-> IF Waiting(r) = {} THEN None
                                   ELSE Request(class, FirstKeys(Waiting(r)))]
      [] class = "walk" -> NextWalk(r)
      [] class = "recovery" ->
           [reg |-> r, request |-> IF r.recovery # None /\ r.recovery.page = None
                                   THEN Request(class, {}) ELSE None]

\* PageClass::successor
Successor(class) ==
    CASE class = "admission" -> "walk"
      [] class = "walk" -> "recovery"
      [] class = "recovery" -> "admission"

Turn(n, class) ==
    [reg |-> [n.reg EXCEPT !.turn = Successor(class)], request |-> n.request]

\* next_page_request
NextPage(r, now) ==
    LET s == PrunePending(r, now)
        c1 == s.turn
        c2 == Successor(c1)
        c3 == Successor(c2)
        n1 == NextOfClass(s, c1)
        n2 == NextOfClass(n1.reg, c2)
        n3 == NextOfClass(n2.reg, c3)
    IN IF RecoveryReady(s) THEN [reg |-> s, request |-> None]
       ELSE IF n1.request # None THEN Turn(n1, c1)
       ELSE IF n2.request # None THEN Turn(n2, c2)
       ELSE IF n3.request # None THEN Turn(n3, c3)
       ELSE n3

----------------------------------------------------------------------------
(* Expiry.                                                                 *)

Due(r, now) == {d \in r.deadlines : d[1] <= now}

\* Mutant of ExpireSession: the Quiet event is not published.
ExpireSessionSilent(r, d, now) ==
    LET k == d[2][2]
        quiet == [r.live[k] EXCEPT !.quiet_published = TRUE]
    IN IF r.live[k] = None THEN [r EXCEPT !.deadlines = @ \ {d}]
       ELSE IF OutOfWindow(r.live[k].last_activity_at, now) THEN EndLive(r, k)
       ELSE [r EXCEPT !.live[k] = quiet,
                      !.deadlines = (@ \ {d}) \cup {SessionDeadline(k, quiet)},
                      !.working = @ - Weight(r.live[k])]

\* One turn of the loop of expire for the deadline d, the earliest.  The
\* indexed deadline is checked against the entry: a deadline without an entry
\* is dropped, one that came early is computed again.
ExpireSession(r, d, now) ==
    LET k == d[2][2]
        entry == r.live[k]
        quiet == [entry EXCEPT !.quiet_published = TRUE]
    IN IF entry = None THEN [r EXCEPT !.deadlines = @ \ {d}]
       ELSE IF OutOfWindow(entry.last_activity_at, now) THEN EndLive(r, k)
       ELSE IF ~entry.quiet_published /\ now - entry.last_activity_at >= QuietWindow
       THEN [r EXCEPT !.live[k] = quiet,
                      !.deadlines = (@ \ {d}) \cup {SessionDeadline(k, quiet)},
                      !.working = @ - 1,
                      !.view[k] = "quiet"]
       ELSE [r EXCEPT !.deadlines = (@ \ {d}) \cup {SessionDeadline(k, entry)}]

ExpireAnonymous(r, d, now) ==
    LET a == d[2][2]
        entry == r.anonymous[a]
    IN IF entry = None THEN [r EXCEPT !.deadlines = @ \ {d}]
       ELSE IF now - entry.at < QuietWindow
       THEN [r EXCEPT !.deadlines = (@ \ {d}) \cup {AnonymousDeadline(a, entry)}]
       ELSE ClearAnonymous(r, a)

ExpireOne(r, d, now) ==
    IF d[2][1] = "session" THEN ExpireSession(r, d, now) ELSE ExpireAnonymous(r, d, now)

----------------------------------------------------------------------------
(* Startup.                                                                *)

Empty ==
    [live |-> [k \in Keys |-> None], working |-> 0, deadlines |-> {},
     deleted |-> [k \in Keys |-> None], forgotten_through |-> 0, broad_through |-> 0,
     pending |-> [k \in Keys |-> None], anonymous |-> [a \in Agents |-> None],
     needs |-> None, run |-> None, turn |-> "admission", recovery |-> None,
     view |-> [k \in Keys |-> "absent"], anonymousView |-> {},
     gone |-> [k \in Keys |-> -1]]

Seeded(row, revision, now) ==
    [incarnation |-> row.incarnation, exists_at |-> revision,
     last_activity_at |-> row.epoch, quiet_published |-> now - row.epoch >= QuietWindow]

----------------------------------------------------------------------------
(* What the registry may hold.  The history E holds <<k, i, q>> when the   *)
(* store had incarnation i of k at revision q; R is the latest revision.   *)

\* The incarnations of a key follow one another, each without a gap.
History(E, R) ==
    /\ R \in Revision
    /\ E \subseteq Keys \X Incarnation \X (0..R)
    /\ \A x, y \in E : x[1] = y[1] /\ x[2] < y[2] => x[3] < y[3]
    /\ \A x, y \in E : x[1] = y[1] /\ x[2] = y[2] =>
          \A q \in x[3]..y[3] : <<x[1], x[2], q>> \in E

\* Incarnation i of k or a newer one was there, and from revision q on i and
\* every older one is gone.
Gone(E, R, k, i, q) ==
    /\ i \in Incarnation /\ q \in 0..R
    /\ \E x \in E : x[1] = k /\ x[2] >= i
    /\ \A x \in E : x[1] = k /\ x[3] >= q => x[2] > i

\* What the admission of k rests on: its live entry and its waiting evidence
\* are true, its remembered deletion is true, and the highest incarnation that
\* was applied as absent is below the live one and held off by the deletion
\* memory or by forgotten_through.
KeyInv(r, E, R, k) ==
    /\ r.live[k] # None => /\ <<k, r.live[k].incarnation, r.live[k].exists_at>> \in E
                           /\ r.live[k].incarnation > r.gone[k]
                           /\ r.pending[k] = None
    /\ r.pending[k] # None => <<k, r.pending[k].incarnation, r.pending[k].revision>> \in E
    /\ r.deleted[k] # None => Gone(E, R, k, r.deleted[k].incarnation, r.deleted[k].absent_at)
    /\ \/ r.gone[k] = -1
       \/ r.deleted[k] # None /\ r.deleted[k].incarnation >= r.gone[k]
       \/ Gone(E, R, k, r.gone[k], r.forgotten_through)

RowsTrue(rows, E, q) ==
    \A n \in DOMAIN rows : <<rows[n].key, rows[n].incarnation, q>> \in E

RegistryInv(r, E, R) ==
    /\ r \in Registry
    /\ r.forgotten_through <= R
    /\ \A k \in Keys : KeyInv(r, E, R, k)
    /\ r.recovery # None /\ r.recovery.page # None =>
          RowsTrue(r.recovery.page.rows, E, r.recovery.page.revision)
=============================================================================
