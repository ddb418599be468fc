--------------------------- MODULE SessionWrite ---------------------------
(***************************************************************************)
(* The fences that guard the store's session rows against late writers     *)
(* (store/session_write.rs).  A scan pass captures the destructive-write   *)
(* epoch, opens a guard per candidate, reads the source for an unbounded   *)
(* time and then upserts, accepts or deletes the row if the guard is still *)
(* current.  Other threads delete, clear, purge and change the policy      *)
(* meanwhile; title lookups carry a lighter guard of their own.            *)
(*                                                                         *)
(* Every operation runs under the store mutex, so it is one step.  A call  *)
(* that is rejected changes nothing: it is the absence of a step.  The     *)
(* source kind is a part of the label here.                                *)
(***************************************************************************)
EXTENDS Integers, FiniteSets

CONSTANTS
    Keys,
    Labels, Paths,       \* a source has a label and a physical path
    Writers,             \* the guards that can be open at a time
    None,
    \* Bounds on the behaviours explored.
    MaxAttempt, MaxEpoch, MaxIncarnation, MaxTitles

ASSUME WriteBounds ==
    MaxAttempt \in Nat /\ MaxEpoch \in Nat /\ MaxIncarnation \in Nat /\ MaxTitles \in Nat

VARIABLES
    row,            \* row[k]: incarnation, label and title lookup of the session, or None
    incSeq,
    \* Of the Store object, in memory.
    epoch,          \* destructive_write_epoch
    attempts,       \* attempts[k]: the registered attempt, 0 when absent
    key_fences,     \* key_fences[k], 0 when absent
    next_attempt,
    physical,       \* physical_sources[k], or None
    \* The callers.
    write_fence,    \* write_fence[w]: the epoch that w's pass captured, or None
    guard,          \* guard[w]: the open guard of w, or None
    title,          \* the SessionTitleRefreshGuard under way, or None
    titles,         \* bound counter
    \* History: how often k was written, accepted, removed or fenced, the last
    \* attempt registered for k, and the path that last wrote or accepted the
    \* present row, if known.
    changes, newest, owner

rowVars == <<row, incSeq>>
stateVars == <<epoch, attempts, key_fences, next_attempt, physical>>
callerVars == <<write_fence, guard, title, titles>>
historyVars == <<changes, newest, owner>>
vars == <<rowVars, stateVars, callerVars, historyVars>>

----------------------------------------------------------------------------
\* session_source_binding_in and bind_session_source: the physical source
\* counts only for the row it was recorded for.
Binding(k) ==
    IF row[k] = None THEN None
    ELSE [incarnation |-> row[k].incarnation, label |-> row[k].label,
          physical |-> IF /\ physical[k] # None
                          /\ physical[k].incarnation = row[k].incarnation
                          /\ physical[k].label = row[k].label
                       THEN physical[k] ELSE None]

\* Mutants of Current: the epoch is not compared; a removed attempt counts as
\* the guard's own.
CurrentAnyEpoch(g) ==
    /\ key_fences[g.key] = g.key_fence
    /\ ~g.completed /\ attempts[g.key] = g.attempt
    /\ Binding(g.key) = g.stored_binding

CurrentUnlessReplaced(g) ==
    /\ epoch = g.global_fence /\ key_fences[g.key] = g.key_fence
    /\ ~g.completed /\ attempts[g.key] \in {0, g.attempt}
    /\ Binding(g.key) = g.stored_binding

\* session_write_rejection gives none.
Current(g) ==
    /\ epoch = g.global_fence
    /\ key_fences[g.key] = g.key_fence
    /\ ~g.completed /\ attempts[g.key] = g.attempt
    /\ Binding(g.key) = g.stored_binding

\* Mutant of OwnSource: the label decides alone.
OwnSourceByLabel(g) == g.stored_binding # None => g.stored_binding.label = g.label

\* The stored row is not bound to another source than the guard's.
OwnSource(g) ==
    g.stored_binding # None =>
        /\ g.stored_binding.label = g.label
        /\ g.stored_binding.physical # None => g.stored_binding.physical.path = g.path

\* Mutant of BumpFences: the fence also starts without an attempt.
BumpFencesAlways(S) ==
    key_fences' = [k \in Keys |-> IF k \in S THEN key_fences[k] + 1 ELSE key_fences[k]]

\* bump_session_key_fence, the fences.
BumpFences(S) ==
    key_fences' = [k \in Keys |-> IF k \in S /\ attempts[k] # 0 THEN key_fences[k] + 1
                                  ELSE key_fences[k]]

\* The rows of S are gone, with what is known of their sources.
RemoveRows(S) ==
    /\ row' = [k \in Keys |-> IF k \in S THEN None ELSE row[k]]
    /\ owner' = [k \in Keys |-> IF k \in S THEN None ELSE owner[k]]
    /\ physical' = [k \in Keys |-> IF k \in S THEN None ELSE physical[k]]
    /\ UNCHANGED incSeq

Note(S) == changes' = [k \in Keys |-> IF k \in S THEN changes[k] + 1 ELSE changes[k]]

AdvanceEpoch == epoch < MaxEpoch /\ epoch' = epoch + 1

----------------------------------------------------------------------------
(* The scan passes.                                                        *)

\* capture_destructive_write_epoch at the start of a pass.
StartPass(w) ==
    /\ guard[w] = None
    /\ write_fence[w] # epoch
    /\ write_fence' = [write_fence EXCEPT ![w] = epoch]
    /\ UNCHANGED <<rowVars, stateVars, guard, title, titles, historyVars>>

\* begin_session_write_for_source_at: a guard of an old epoch is not registered.
Begin(w, k, label, path) ==
    LET attempt == next_attempt + 1 IN
    /\ guard[w] = None /\ write_fence[w] # None
    /\ next_attempt < MaxAttempt
    /\ next_attempt' = attempt
    /\ IF epoch = write_fence[w]
       THEN /\ attempts' = [attempts EXCEPT ![k] = attempt]
            /\ newest' = [newest EXCEPT ![k] = attempt]
       ELSE UNCHANGED <<attempts, newest>>
    /\ guard' = [guard EXCEPT ![w] =
                    [key |-> k, label |-> label, path |-> path,
                     stored_binding |-> Binding(k), global_fence |-> write_fence[w],
                     key_fence |-> key_fences[k], attempt |-> attempt,
                     completed |-> FALSE, seen |-> changes[k]]]
    /\ UNCHANGED <<rowVars, epoch, key_fences, physical, write_fence, title, titles, changes,
                   owner>>

\* The publisher of the present row, as the Store remembers it.
Bind(w, incarnation) ==
    LET g == guard[w] IN
    /\ physical' = [physical EXCEPT ![g.key] =
                       [incarnation |-> incarnation, label |-> g.label, path |-> g.path,
                        attempt |-> g.attempt]]
    /\ owner' = [owner EXCEPT ![g.key] = g.path]
    /\ guard' = [guard EXCEPT ![w].completed = TRUE]

\* upsert_session_if_current
UpsertIfCurrent(w) ==
    LET g == guard[w]
        k == g.key
        incarnation == IF row[k] = None THEN incSeq + 1 ELSE row[k].incarnation
    IN
    /\ g # None
    /\ Current(g)
    /\ row[k] = None => incSeq < MaxIncarnation
    /\ incSeq' = IF row[k] = None THEN incSeq + 1 ELSE incSeq
    /\ row' = [row EXCEPT ![k] = [incarnation |-> incarnation, label |-> g.label,
                               title |-> 0]]
    /\ Bind(w, incarnation)
    /\ Note({k})
    /\ UNCHANGED <<epoch, attempts, key_fences, next_attempt, write_fence, title, titles,
                   newest>>

\* accept_session_if_current
AcceptIfCurrent(w) ==
    LET g == guard[w] IN
    /\ g # None
    /\ Current(g)
    /\ g.stored_binding # None
    /\ OwnSource(g)
    /\ Bind(w, g.stored_binding.incarnation)
    /\ Note({g.key})
    /\ UNCHANGED <<rowVars, epoch, attempts, key_fences, next_attempt, write_fence, title,
                   titles, newest>>

\* delete_session_if_current
DeleteIfCurrent(w) ==
    LET g == guard[w] IN
    /\ g # None
    /\ Current(g)
    /\ OwnSource(g)
    /\ RemoveRows({g.key})
    /\ BumpFences({g.key})
    /\ guard' = [guard EXCEPT ![w].completed = TRUE]
    /\ Note({g.key})
    /\ UNCHANGED <<epoch, attempts, next_attempt, write_fence, title, titles, newest>>

\* Mutant of Drop: the attempt goes, its key fence stays.
DropKeepsFence(w) ==
    LET k == guard[w].key IN
    /\ guard[w] # None
    /\ attempts' = IF attempts[k] = guard[w].attempt THEN [attempts EXCEPT ![k] = 0]
                   ELSE attempts
    /\ guard' = [guard EXCEPT ![w] = None]
    /\ UNCHANGED <<rowVars, epoch, key_fences, next_attempt, physical, write_fence, title,
                   titles, historyVars>>

\* Drop for SessionWriteGuard: only the registered attempt cleans up.
Drop(w) ==
    LET k == guard[w].key IN
    /\ guard[w] # None
    /\ IF attempts[k] = guard[w].attempt
       THEN /\ attempts' = [attempts EXCEPT ![k] = 0]
            /\ key_fences' = [key_fences EXCEPT ![k] = 0]
       ELSE UNCHANGED <<attempts, key_fences>>
    /\ guard' = [guard EXCEPT ![w] = None]
    /\ UNCHANGED <<rowVars, epoch, next_attempt, physical, write_fence, title, titles,
                   historyVars>>

----------------------------------------------------------------------------
(* The indexed titles of stored sessions.                                  *)

\* native_session_title_refresh_guards, one of its guards.
CaptureTitle(k) ==
    /\ title = None /\ titles < MaxTitles
    /\ row[k] # None
    /\ titles' = titles + 1
    /\ title' = [key |-> k, binding |-> Binding(k), global_fence |-> epoch,
                 key_fence |-> key_fences[k], lookup |-> titles + 1, seen |-> changes[k]]
    /\ UNCHANGED <<rowVars, stateVars, write_fence, guard, historyVars>>

\* Mutant of TitleCurrent: only the identity of the row is compared.
TitleCurrentByIdentity(t) ==
    /\ epoch = t.global_fence /\ key_fences[t.key] = t.key_fence
    /\ Binding(t.key) # None /\ Binding(t.key).incarnation = t.binding.incarnation

\* update_session_title_if_current accepts.
TitleCurrent(t) ==
    /\ epoch = t.global_fence
    /\ key_fences[t.key] = t.key_fence
    /\ Binding(t.key) = t.binding

\* The lookup ends: the title is written, or found to be out of date.
EndTitle ==
    /\ title # None
    /\ title' = None
    /\ row' = IF TitleCurrent(title) THEN [row EXCEPT ![title.key].title = title.lookup]
              ELSE row
    /\ UNCHANGED <<incSeq, stateVars, write_fence, guard, titles, historyVars>>

----------------------------------------------------------------------------
(* The other threads, and the end of the process.                          *)

\* delete_session and purge_ignored_sessions: keys named, epoch moved.
DeleteKeys(S) ==
    /\ S # {}
    /\ RemoveRows(S)
    /\ BumpFences(S)
    /\ AdvanceEpoch
    /\ Note(S)
    /\ UNCHANGED <<attempts, next_attempt, callerVars, newest>>

\* clear_local_session_data (S is every key) and the retention purge, which
\* counts at least one row: all key fences are reset, the attempts stay.
Purge(S) ==
    /\ S = Keys \/ \E k \in S : row[k] # None
    /\ RemoveRows(S)
    /\ key_fences' = [k \in Keys |-> 0]
    /\ AdvanceEpoch
    /\ Note(S)
    /\ UNCHANGED <<attempts, next_attempt, callerVars, newest>>

\* fence_folder_policy_change, a grant, a repository choice: what was read
\* under the old policy must not be published.
PolicyChange ==
    /\ AdvanceEpoch
    /\ Note(Keys)
    /\ UNCHANGED <<rowVars, attempts, key_fences, next_attempt, physical, callerVars, newest,
                   owner>>

\* The process ends with its guards and its Store; the rows stay.
Restart ==
    /\ epoch' = 0
    /\ attempts' = [k \in Keys |-> 0]
    /\ key_fences' = [k \in Keys |-> 0]
    /\ next_attempt' = 0
    /\ physical' = [k \in Keys |-> None]
    /\ write_fence' = [w \in Writers |-> None]
    /\ guard' = [w \in Writers |-> None]
    /\ title' = None
    /\ changes' = [k \in Keys |-> 0]
    /\ newest' = [k \in Keys |-> 0]
    /\ owner' = [k \in Keys |-> None]
    /\ UNCHANGED <<rowVars, titles>>

Init ==
    /\ row = [k \in Keys |-> None] /\ incSeq = 0
    /\ epoch = 0 /\ next_attempt = 0
    /\ attempts = [k \in Keys |-> 0] /\ key_fences = [k \in Keys |-> 0]
    /\ physical = [k \in Keys |-> None]
    /\ write_fence = [w \in Writers |-> None] /\ guard = [w \in Writers |-> None]
    /\ title = None /\ titles = 0
    /\ changes = [k \in Keys |-> 0] /\ newest = [k \in Keys |-> 0]
    /\ owner = [k \in Keys |-> None]

Write(w) ==
    \/ StartPass(w)
    \/ \E k \in Keys, label \in Labels, path \in Paths : Begin(w, k, label, path)
    \/ UpsertIfCurrent(w) \/ AcceptIfCurrent(w) \/ DeleteIfCurrent(w)
    \/ Drop(w)

Next ==
    \/ \E w \in Writers : Write(w)
    \/ \E k \in Keys : CaptureTitle(k)
    \/ EndTitle
    \/ \E S \in SUBSET Keys : DeleteKeys(S) \/ Purge(S)
    \/ PolicyChange
    \/ Restart

Spec == Init /\ [][Next]_vars

----------------------------------------------------------------------------
RowType == [incarnation : Nat, label : Labels, title : Nat]
Physical == [incarnation : Nat, label : Labels, path : Paths, attempt : Nat]
BindingType == [incarnation : Nat, label : Labels, physical : Physical \cup {None}]
Guard == [key : Keys, label : Labels, path : Paths, stored_binding : BindingType \cup {None},
          global_fence : Nat, key_fence : Nat, attempt : Nat, completed : BOOLEAN, seen : Nat]
TitleGuard == [key : Keys, binding : BindingType, global_fence : Nat, key_fence : Nat,
               lookup : Nat, seen : Nat]

ASSUME NoneIsNoRecord ==
    None \notin RowType \cup Physical \cup BindingType \cup Guard \cup TitleGuard \cup Nat
                 \cup Paths

TypeOK ==
    /\ row \in [Keys -> RowType \cup {None}] /\ incSeq \in Nat
    /\ epoch \in Nat /\ next_attempt \in Nat
    /\ attempts \in [Keys -> Nat] /\ key_fences \in [Keys -> Nat]
    /\ physical \in [Keys -> Physical \cup {None}]
    /\ write_fence \in [Writers -> Nat \cup {None}]
    /\ guard \in [Writers -> Guard \cup {None}]
    /\ title \in TitleGuard \cup {None} /\ titles \in Nat
    /\ changes \in [Keys -> Nat] /\ newest \in [Keys -> Nat]
    /\ owner \in [Keys -> Paths \cup {None}]

\* The guard of w spends itself on a write, an acceptance or a deletion.
Publishes(w) ==
    /\ guard[w] # None /\ guard'[w] # None
    /\ ~guard[w].completed /\ guard'[w].completed

\* A guard never publishes what it began to read before the key was written,
\* deleted, cleared, purged or put under another policy by anyone else: a
\* session the user removed does not come back from a read under way.
NoStaleWrite ==
    [][\A w \in Writers : Publishes(w) => guard[w].seen = changes[guard[w].key]]_vars

\* Of the guards of a key only the newest attempt can publish, also after that
\* attempt has been dropped and its registration removed.
NewestWins ==
    [][\A w \in Writers : Publishes(w) => guard[w].attempt = newest[guard[w].key]]_vars

\* A title looked up before its session was rewritten, accepted anew, removed
\* or replaced is not stored over the newer row.
NoStaleTitle ==
    [][\A k \in Keys :
          /\ row[k] # None /\ row'[k] # None
          /\ row'[k].title # row[k].title /\ row'[k].title # 0
          => title # None /\ title.key = k /\ title.seen = changes[k]]_vars

\* A candidate that a scan rejects deletes the row only if no other physical
\* source wrote or accepted it: two databases that share a label do not delete
\* each other's sessions.
SourceOwnsDelete ==
    [][\A w \in Writers :
          Publishes(w) /\ row[guard[w].key] # None /\ row'[guard[w].key] = None
          => owner[guard[w].key] \in {None, guard[w].path}]_vars

\* The write state does not grow with the keys ever scanned: a registered
\* attempt has an open guard, a key fence has a registered attempt.
NoOrphanFence ==
    \A k \in Keys :
        /\ attempts[k] # 0 => \E w \in Writers :
              guard[w] # None /\ guard[w].key = k /\ guard[w].attempt = attempts[k]
        /\ key_fences[k] # 0 => attempts[k] # 0

----------------------------------------------------------------------------
(* The inductive invariant of the proofs.                                  *)

\* What an open guard knows: no fence is ahead of the epoch, and a guard that
\* is registered, unspent and of this epoch has seen every change of its key.
GuardOK(w) ==
    /\ guard[w].attempt >= 1 /\ guard[w].attempt <= next_attempt
    /\ guard[w].global_fence <= epoch
    /\ (/\ guard[w].global_fence = epoch
        /\ attempts[guard[w].key] = guard[w].attempt
        /\ ~guard[w].completed)
          => changes[guard[w].key] = guard[w].seen

\* Every guard does, and attempts are unique.
GuardInv ==
    /\ \A w \in Writers : write_fence[w] # None => write_fence[w] <= epoch
    /\ \A w \in Writers : guard[w] # None => GuardOK(w)
    /\ \A v, w \in Writers :
          guard[v] # None /\ guard[w] # None /\ guard[v].attempt = guard[w].attempt => v = w
    /\ \A k \in Keys : attempts[k] # 0 => attempts[k] = newest[k]

\* The inductive invariant: the types, the guards, and the write state they own.
WriteInv == TypeOK /\ GuardInv /\ NoOrphanFence
==========================================================================
