------------------------ MODULE SessionWriteProofs ------------------------
(***************************************************************************)
(* Proofs about the write fences, for any number of keys, sources and open *)
(* guards.  WriteInv is inductive, and so is SourceInv beside it; the four *)
(* action properties follow from them and from what Current compares.      *)
(***************************************************************************)
EXTENDS SessionWrite, TLAPS

\* The binding of a key that begin_session_write captures has its type.
LEMMA BindingTyped ==
    ASSUME TypeOK, NEW k \in Keys
    PROVE Binding(k) \in BindingType \cup {None}
<1>1. row[k] \in RowType \cup {None} /\ physical[k] \in Physical \cup {None}
  BY DEF TypeOK
<1> QED
  BY <1>1 DEF Binding, BindingType, RowType

\* A guard is a record of its type.
LEMMA GuardTyped ==
    ASSUME TypeOK, NEW w \in Writers, guard[w] # None
    PROVE /\ guard[w] \in Guard
          /\ guard[w].key \in Keys /\ guard[w].label \in Labels /\ guard[w].path \in Paths
          /\ guard[w].attempt \in Nat /\ guard[w].global_fence \in Nat
          /\ guard[w].completed \in BOOLEAN /\ guard[w].seen \in Nat
          /\ guard[w].stored_binding \in BindingType \cup {None}
<1>1. guard[w] \in Guard
  BY DEF TypeOK
<1> QED
  BY <1>1 DEF Guard

\* The initial state has no guard and no fence.
LEMMA InitWrite == Init => WriteInv
  BY DEF Init, WriteInv, TypeOK, GuardInv, NoOrphanFence

\* What the invariant says of one guard.
LEMMA GuardKnows ==
    ASSUME WriteInv, NEW w \in Writers, guard[w] # None
    PROVE /\ GuardOK(w) /\ epoch \in Nat /\ next_attempt \in Nat
          /\ guard[w].key \in Keys /\ guard[w].attempt \in Nat
          /\ guard[w].global_fence \in Nat /\ guard[w].attempt # 0
          /\ guard[w].attempt <= next_attempt
<1>1. TypeOK /\ GuardInv
  BY DEF WriteInv
<1>2. GuardOK(w)
  BY <1>1 DEF GuardInv
<1>3. guard[w].key \in Keys /\ guard[w].attempt \in Nat /\ guard[w].global_fence \in Nat
  BY <1>1, GuardTyped
<1>4. epoch \in Nat /\ next_attempt \in Nat
  BY <1>1 DEF TypeOK
<1>5. guard[w].attempt >= 1 /\ guard[w].attempt <= next_attempt
  BY <1>2 DEF GuardOK
<1> QED
  BY <1>2, <1>3, <1>4, <1>5

\* A step that leaves a guard alone keeps what the guard knows, if it does not
\* register the guard's attempt and changes the guard's key only by taking the
\* registration or the epoch away from it.
LEMMA GuardKept ==
    ASSUME WriteInv, NEW w \in Writers, guard[w] # None, guard'[w] = guard[w],
           next_attempt' \in Nat, next_attempt' >= next_attempt,
           epoch' \in Nat, epoch' >= epoch,
           attempts'[guard[w].key] = guard[w].attempt
             => attempts[guard[w].key] = guard[w].attempt,
           \/ changes'[guard[w].key] = changes[guard[w].key]
           \/ epoch' > epoch
           \/ attempts'[guard[w].key] # guard[w].attempt
    PROVE GuardOK(w)'
<1>1. /\ GuardOK(w) /\ epoch \in Nat /\ next_attempt \in Nat
      /\ guard[w].attempt \in Nat /\ guard[w].global_fence \in Nat
  BY GuardKnows
<1>2. guard[w].attempt >= 1 /\ guard[w].attempt <= next_attempt'
  BY <1>1 DEF GuardOK
<1>3. guard[w].global_fence <= epoch'
  BY <1>1 DEF GuardOK
<1>4. ASSUME guard[w].global_fence = epoch', attempts'[guard[w].key] = guard[w].attempt,
             ~guard[w].completed
      PROVE changes'[guard[w].key] = guard[w].seen
  <2>1. guard[w].global_fence = epoch /\ epoch' = epoch
    BY <1>1, <1>4 DEF GuardOK
  <2>2. changes[guard[w].key] = guard[w].seen
    BY <1>1, <1>4, <2>1 DEF GuardOK
  <2> QED
    BY <1>1, <1>4, <2>1, <2>2
<1> QED
  BY <1>2, <1>3, <1>4 DEF GuardOK

\* capture_destructive_write_epoch keeps the invariant.
LEMMA StartPassStep ==
    ASSUME WriteInv, NEW w \in Writers, StartPass(w) PROVE WriteInv'
<1> USE DEF StartPass, rowVars, stateVars, historyVars
<1>1. TypeOK /\ GuardInv /\ NoOrphanFence /\ epoch \in Nat
  BY DEF WriteInv, TypeOK
<1>2. TypeOK'
  BY <1>1 DEF TypeOK
<1>3. \A v \in Writers : write_fence'[v] # None => write_fence'[v] <= epoch'
  BY <1>1 DEF GuardInv, TypeOK
<1>4. \A v \in Writers : guard'[v] # None => GuardOK(v)'
  BY <1>1 DEF GuardInv, GuardOK
<1>5. GuardInv'
  BY <1>1, <1>3, <1>4 DEF GuardInv
<1>6. NoOrphanFence'
  BY <1>1 DEF NoOrphanFence
<1> QED
  BY <1>2, <1>5, <1>6 DEF WriteInv

\* A new guard: its attempt is above every other, so it is the only one with it.
LEMMA BeginStep ==
    ASSUME WriteInv, NEW w \in Writers, NEW k \in Keys, NEW label \in Labels, NEW path \in Paths,
           Begin(w, k, label, path)
    PROVE WriteInv'
<1> DEFINE g == [key |-> k, label |-> label, path |-> path,
                 stored_binding |-> Binding(k), global_fence |-> write_fence[w],
                 key_fence |-> key_fences[k], attempt |-> next_attempt + 1,
                 completed |-> FALSE, seen |-> changes[k]]
<1>1. /\ guard[w] = None /\ write_fence[w] # None /\ next_attempt' = next_attempt + 1
      /\ guard' = [guard EXCEPT ![w] = g]
      /\ UNCHANGED <<row, incSeq, epoch, key_fences, physical, write_fence, title, titles,
                     changes, owner>>
  BY DEF Begin, rowVars
<1>2. \/ /\ epoch = write_fence[w]
         /\ attempts' = [attempts EXCEPT ![k] = next_attempt + 1]
         /\ newest' = [newest EXCEPT ![k] = next_attempt + 1]
      \/ epoch # write_fence[w] /\ attempts' = attempts /\ newest' = newest
  BY DEF Begin
<1>3. /\ TypeOK /\ GuardInv /\ NoOrphanFence
      /\ epoch \in Nat /\ next_attempt \in Nat /\ write_fence[w] \in Nat
      /\ write_fence[w] <= epoch
  BY <1>1 DEF WriteInv, TypeOK, GuardInv
<1>4. g \in Guard
  BY <1>1, <1>3, BindingTyped DEF TypeOK, Guard
<1>5. TypeOK'
  BY <1>1, <1>2, <1>3, <1>4 DEF TypeOK
<1>6. guard'[w] = g /\ \A v \in Writers : v # w => guard'[v] = guard[v]
  BY <1>1, <1>3 DEF TypeOK
<1>7. \A j \in Keys : \/ attempts'[j] = attempts[j] /\ newest'[j] = newest[j]
                      \/ /\ j = k
                         /\ attempts'[j] = next_attempt + 1 /\ newest'[j] = next_attempt + 1
  BY <1>2, <1>3 DEF TypeOK
<1>8. GuardOK(w)'
  <2>1. guard'[w].attempt = next_attempt + 1 /\ guard'[w].global_fence = write_fence[w]
    BY <1>6
  <2>2. guard'[w].seen = changes[k] /\ guard'[w].key = k
    BY <1>6
  <2> QED
    BY <2>1, <2>2, <1>1, <1>3 DEF GuardOK
<1>9. ASSUME NEW v \in Writers, v # w, guard'[v] # None PROVE GuardOK(v)'
  <2>1. guard[v] # None /\ guard'[v] = guard[v]
    BY <1>6, <1>9
  <2>2. /\ guard[v].key \in Keys /\ guard[v].attempt \in Nat
        /\ guard[v].attempt <= next_attempt
    BY <2>1, GuardKnows
  <2>3. attempts'[guard[v].key] = guard[v].attempt => attempts[guard[v].key] = guard[v].attempt
    BY <2>2, <1>3, <1>7
  <2> QED
    BY <2>1, <2>3, <1>1, <1>3, GuardKept
<1>10. \A u, v \in Writers :
         guard'[u] # None /\ guard'[v] # None /\ guard'[u].attempt = guard'[v].attempt => u = v
  <2>1. \A v \in Writers : v # w /\ guard'[v] # None =>
           guard[v] # None /\ guard'[v] = guard[v] /\ guard[v].attempt # next_attempt + 1
    BY <1>3, <1>6, GuardKnows
  <2>2. guard'[w].attempt = next_attempt + 1
    BY <1>6
  <2> QED
    BY <2>1, <2>2, <1>3 DEF GuardInv
<1>11. \A j \in Keys : attempts'[j] # 0 => attempts'[j] = newest'[j]
  BY <1>3, <1>7 DEF GuardInv
<1>12. GuardInv'
  BY <1>1, <1>3, <1>8, <1>9, <1>10, <1>11 DEF GuardInv
<1>13. ASSUME NEW j \in Keys, attempts'[j] # 0
       PROVE \E v \in Writers :
                guard'[v] # None /\ guard'[v].key = j /\ guard'[v].attempt = attempts'[j]
  <2>1. CASE attempts'[j] = attempts[j]
    BY <2>1, <1>1, <1>3, <1>6, <1>13 DEF NoOrphanFence
  <2>2. CASE j = k /\ attempts'[j] = next_attempt + 1
    <3>1. guard'[w].key = k /\ guard'[w].attempt = next_attempt + 1
      BY <1>6
    <3>2. g # None
      BY <1>4, NoneIsNoRecord
    <3>3. guard'[w] # None
      BY <3>2, <1>6
    <3> QED
      BY <3>1, <3>3, <2>2
  <2> QED
    BY <2>1, <2>2, <1>7
<1>14. \A j \in Keys : key_fences'[j] # 0 => attempts'[j] # 0
  BY <1>1, <1>3, <1>7 DEF NoOrphanFence
<1> QED
  BY <1>5, <1>12, <1>13, <1>14 DEF WriteInv, NoOrphanFence

\* A publication spends its guard.  Every other guard of the key is not the
\* registered one, so it loses nothing it knows.
LEMMA PublishStep ==
    ASSUME WriteInv, NEW w \in Writers, guard[w] # None, Current(guard[w]),
           guard' = [guard EXCEPT ![w].completed = TRUE],
           Note({guard[w].key}),
           UNCHANGED <<epoch, attempts, next_attempt, newest, write_fence>>
    PROVE /\ GuardInv'
          /\ guard' \in [Writers -> Guard \cup {None}]
          /\ changes' \in [Keys -> Nat]
          /\ \A v \in Writers : guard[v] # None =>
                /\ guard'[v] # None
                /\ guard'[v].key = guard[v].key /\ guard'[v].attempt = guard[v].attempt
<1>1. /\ TypeOK /\ GuardInv /\ guard[w] \in Guard /\ guard[w].key \in Keys
      /\ epoch \in Nat /\ next_attempt \in Nat
  BY GuardKnows, GuardTyped DEF WriteInv
<1> DEFINE g == [guard[w] EXCEPT !.completed = TRUE]
<1>2. /\ g \in Guard /\ g.key = guard[w].key /\ g.attempt = guard[w].attempt
      /\ g.global_fence = guard[w].global_fence /\ g.completed = TRUE
  BY <1>1 DEF Guard
<1>3. g # None
  BY <1>2, NoneIsNoRecord
<1>4. guard' = [guard EXCEPT ![w] = g]
  BY <1>1 DEF TypeOK
<1> HIDE DEF g
<1>5. /\ guard' \in [Writers -> Guard \cup {None}]
      /\ guard'[w] = g /\ \A v \in Writers : v # w => guard'[v] = guard[v]
  BY <1>1, <1>2, <1>4 DEF TypeOK
<1>6. /\ changes' \in [Keys -> Nat]
      /\ \A k \in Keys : k # guard[w].key => changes'[k] = changes[k]
  BY <1>1 DEF Note, TypeOK
<1>7. attempts[guard[w].key] = guard[w].attempt
  BY DEF Current
<1>8. GuardOK(w)'
  <2>1. GuardOK(w)
    BY GuardKnows
  <2> QED
    BY <2>1, <1>2, <1>5 DEF GuardOK
<1>9. ASSUME NEW v \in Writers, v # w, guard[v] # None PROVE GuardOK(v)'
  <2>1. guard[v].attempt # guard[w].attempt
    BY <1>1, <1>9 DEF GuardInv
  <2>2. guard[v].key \in Keys
    BY <1>9, GuardKnows
  <2>3. \/ changes'[guard[v].key] = changes[guard[v].key]
        \/ attempts'[guard[v].key] # guard[v].attempt
    BY <2>1, <2>2, <1>6, <1>7
  <2> QED
    BY <2>3, <1>1, <1>5, <1>9, GuardKept
<1>10. \A v \in Writers : guard'[v] # None => GuardOK(v)'
  BY <1>5, <1>8, <1>9
<1>11. \A v \in Writers : guard'[v] # None =>
          guard[v] # None /\ guard'[v].attempt = guard[v].attempt
  BY <1>2, <1>5
<1>12. \A u, v \in Writers :
         guard'[u] # None /\ guard'[v] # None /\ guard'[u].attempt = guard'[v].attempt => u = v
  BY <1>1, <1>11 DEF GuardInv
<1>13. GuardInv'
  BY <1>1, <1>10, <1>12 DEF GuardInv
<1>14. \A v \in Writers : guard[v] # None =>
          /\ guard'[v] # None
          /\ guard'[v].key = guard[v].key /\ guard'[v].attempt = guard[v].attempt
  BY <1>2, <1>3, <1>5
<1> QED
  BY <1>5, <1>6, <1>13, <1>14

\* What upsert_session_if_current and accept_session_if_current record of the
\* source has its type.
LEMMA BindTyped ==
    ASSUME TypeOK, NEW w \in Writers, guard[w] # None, NEW incarnation \in Nat,
           Bind(w, incarnation)
    PROVE /\ physical' \in [Keys -> Physical \cup {None}]
          /\ owner' \in [Keys -> Paths \cup {None}]
          /\ guard' = [guard EXCEPT ![w].completed = TRUE]
<1>1. /\ guard[w].key \in Keys /\ guard[w].label \in Labels /\ guard[w].path \in Paths
      /\ guard[w].attempt \in Nat
  BY GuardTyped
<1>2. [incarnation |-> incarnation, label |-> guard[w].label, path |-> guard[w].path,
       attempt |-> guard[w].attempt] \in Physical
  BY <1>1 DEF Physical
<1> QED
  BY <1>1, <1>2 DEF Bind, TypeOK

\* upsert_session_if_current keeps the invariant.
LEMMA UpsertStep ==
    ASSUME WriteInv, NEW w \in Writers, UpsertIfCurrent(w) PROVE WriteInv'
<1> DEFINE k == guard[w].key
           incarnation == IF row[k] = None THEN incSeq + 1 ELSE row[k].incarnation
<1>1. /\ guard[w] # None /\ Current(guard[w])
      /\ incSeq' = IF row[k] = None THEN incSeq + 1 ELSE incSeq
      /\ row' = [row EXCEPT ![k] = [incarnation |-> incarnation, label |-> guard[w].label,
                                    title |-> 0]]
      /\ Bind(w, incarnation) /\ Note({k})
      /\ UNCHANGED <<epoch, attempts, key_fences, next_attempt, write_fence, title, titles,
                     newest>>
  BY DEF UpsertIfCurrent
<1>2. TypeOK /\ NoOrphanFence
  BY DEF WriteInv
<1>3. k \in Keys /\ guard[w].label \in Labels
  BY <1>1, <1>2, GuardTyped
<1>4. incarnation \in Nat /\ incSeq' \in Nat
  BY <1>1, <1>2, <1>3 DEF TypeOK, RowType
<1> HIDE DEF incarnation
<1>5. row' \in [Keys -> RowType \cup {None}]
  <2>1. [incarnation |-> incarnation, label |-> guard[w].label, title |-> 0] \in RowType
    BY <1>3, <1>4 DEF RowType
  <2> QED
    BY <2>1, <1>1, <1>2, <1>3 DEF TypeOK
<1>6. /\ physical' \in [Keys -> Physical \cup {None}]
      /\ owner' \in [Keys -> Paths \cup {None}]
      /\ guard' = [guard EXCEPT ![w].completed = TRUE]
  BY <1>1, <1>2, <1>4, BindTyped
<1>7. /\ GuardInv'
      /\ guard' \in [Writers -> Guard \cup {None}] /\ changes' \in [Keys -> Nat]
      /\ \A v \in Writers : guard[v] # None =>
            /\ guard'[v] # None
            /\ guard'[v].key = guard[v].key /\ guard'[v].attempt = guard[v].attempt
  BY <1>1, <1>6, PublishStep
<1>8. TypeOK'
  BY <1>1, <1>2, <1>4, <1>5, <1>6, <1>7 DEF TypeOK
<1>9. NoOrphanFence'
  BY <1>1, <1>2, <1>7 DEF NoOrphanFence
<1> QED
  BY <1>7, <1>8, <1>9 DEF WriteInv

\* accept_session_if_current keeps the invariant.
LEMMA AcceptStep ==
    ASSUME WriteInv, NEW w \in Writers, AcceptIfCurrent(w) PROVE WriteInv'
<1>1. /\ guard[w] # None /\ Current(guard[w]) /\ guard[w].stored_binding # None
      /\ Bind(w, guard[w].stored_binding.incarnation) /\ Note({guard[w].key})
      /\ UNCHANGED <<row, incSeq, epoch, attempts, key_fences, next_attempt, write_fence, title,
                     titles, newest>>
  BY DEF AcceptIfCurrent, rowVars
<1>2. TypeOK /\ NoOrphanFence
  BY DEF WriteInv
<1>3. guard[w].stored_binding.incarnation \in Nat
  <2>1. guard[w].stored_binding \in BindingType
    BY <1>1, <1>2, GuardTyped
  <2> QED
    BY <2>1 DEF BindingType
<1>4. /\ physical' \in [Keys -> Physical \cup {None}]
      /\ owner' \in [Keys -> Paths \cup {None}]
      /\ guard' = [guard EXCEPT ![w].completed = TRUE]
  BY <1>1, <1>2, <1>3, BindTyped
<1>5. /\ GuardInv'
      /\ guard' \in [Writers -> Guard \cup {None}] /\ changes' \in [Keys -> Nat]
      /\ \A v \in Writers : guard[v] # None =>
            /\ guard'[v] # None
            /\ guard'[v].key = guard[v].key /\ guard'[v].attempt = guard[v].attempt
  BY <1>1, <1>4, PublishStep
<1>6. TypeOK'
  BY <1>1, <1>2, <1>4, <1>5 DEF TypeOK
<1>7. NoOrphanFence'
  BY <1>1, <1>2, <1>5 DEF NoOrphanFence
<1> QED
  BY <1>5, <1>6, <1>7 DEF WriteInv

\* Removed rows and raised fences have their types, and a fence is raised only
\* for a registered attempt.
LEMMA RemoveTyped ==
    ASSUME TypeOK, NEW S \in SUBSET Keys, RemoveRows(S)
    PROVE /\ row' \in [Keys -> RowType \cup {None}]
          /\ owner' \in [Keys -> Paths \cup {None}]
          /\ physical' \in [Keys -> Physical \cup {None}]
          /\ incSeq' \in Nat
  BY DEF TypeOK, RemoveRows

\* bump_session_key_fence.
LEMMA BumpTyped ==
    ASSUME TypeOK, NoOrphanFence, NEW S \in SUBSET Keys, BumpFences(S), attempts' = attempts
    PROVE /\ key_fences' \in [Keys -> Nat]
          /\ \A k \in Keys : key_fences'[k] # 0 => attempts'[k] # 0
  BY DEF TypeOK, NoOrphanFence, BumpFences

\* delete_session_if_current keeps the invariant.
LEMMA DeleteStep ==
    ASSUME WriteInv, NEW w \in Writers, DeleteIfCurrent(w) PROVE WriteInv'
<1>1. /\ guard[w] # None /\ Current(guard[w])
      /\ RemoveRows({guard[w].key}) /\ BumpFences({guard[w].key})
      /\ guard' = [guard EXCEPT ![w].completed = TRUE]
      /\ Note({guard[w].key})
      /\ UNCHANGED <<epoch, attempts, next_attempt, write_fence, title, titles, newest>>
  BY DEF DeleteIfCurrent
<1>2. TypeOK /\ NoOrphanFence /\ {guard[w].key} \in SUBSET Keys
  BY <1>1, GuardTyped DEF WriteInv
<1>3. /\ GuardInv'
      /\ guard' \in [Writers -> Guard \cup {None}] /\ changes' \in [Keys -> Nat]
      /\ \A v \in Writers : guard[v] # None =>
            /\ guard'[v] # None
            /\ guard'[v].key = guard[v].key /\ guard'[v].attempt = guard[v].attempt
  BY <1>1, PublishStep
<1>4. /\ row' \in [Keys -> RowType \cup {None}]
      /\ owner' \in [Keys -> Paths \cup {None}]
      /\ physical' \in [Keys -> Physical \cup {None}]
      /\ incSeq' \in Nat
  BY <1>1, <1>2, RemoveTyped
<1>5. /\ key_fences' \in [Keys -> Nat]
      /\ \A k \in Keys : key_fences'[k] # 0 => attempts'[k] # 0
  BY <1>1, <1>2, BumpTyped
<1>6. TypeOK'
  BY <1>1, <1>2, <1>3, <1>4, <1>5 DEF TypeOK
<1>7. NoOrphanFence'
  BY <1>1, <1>2, <1>3, <1>5 DEF NoOrphanFence
<1> QED
  BY <1>3, <1>6, <1>7 DEF WriteInv

\* Dropping a guard: its registration goes with it, another one's stays.
LEMMA DropStep ==
    ASSUME WriteInv, NEW w \in Writers, Drop(w) PROVE WriteInv'
<1> DEFINE k == guard[w].key
<1>1. /\ guard[w] # None
      /\ guard' = [guard EXCEPT ![w] = None]
      /\ UNCHANGED <<row, incSeq, epoch, next_attempt, physical, write_fence, title, titles,
                     changes, newest, owner>>
  BY DEF Drop, rowVars, historyVars
<1>2. \/ /\ attempts[k] = guard[w].attempt
         /\ attempts' = [attempts EXCEPT ![k] = 0]
         /\ key_fences' = [key_fences EXCEPT ![k] = 0]
      \/ /\ attempts[k] # guard[w].attempt
         /\ attempts' = attempts /\ key_fences' = key_fences
  BY DEF Drop
<1>3. /\ TypeOK /\ GuardInv /\ NoOrphanFence /\ k \in Keys
      /\ epoch \in Nat /\ next_attempt \in Nat
  BY <1>1, GuardKnows DEF WriteInv
<1>4. TypeOK'
  BY <1>1, <1>2, <1>3 DEF TypeOK
<1>5. guard'[w] = None /\ \A v \in Writers : v # w => guard'[v] = guard[v]
  BY <1>1, <1>3 DEF TypeOK
<1>6. \A j \in Keys :
         \/ /\ attempts'[j] = attempts[j] /\ key_fences'[j] = key_fences[j]
            /\ j = k => attempts[j] # guard[w].attempt
         \/ j = k /\ attempts'[j] = 0 /\ key_fences'[j] = 0
  BY <1>2, <1>3 DEF TypeOK
<1>7. ASSUME NEW v \in Writers, guard'[v] # None PROVE GuardOK(v)'
  <2>1. v # w /\ guard[v] # None /\ guard'[v] = guard[v]
    BY <1>5, <1>7
  <2>2. guard[v].key \in Keys /\ guard[v].attempt # 0
    BY <2>1, GuardKnows
  <2>3. attempts'[guard[v].key] = guard[v].attempt => attempts[guard[v].key] = guard[v].attempt
    BY <2>2, <1>6
  <2> QED
    BY <2>1, <2>3, <1>1, <1>3, GuardKept
<1>8. \A u, v \in Writers :
         guard'[u] # None /\ guard'[v] # None /\ guard'[u].attempt = guard'[v].attempt => u = v
  BY <1>3, <1>5 DEF GuardInv
<1>9. \A j \in Keys : attempts'[j] # 0 => attempts'[j] = newest'[j]
  BY <1>1, <1>3, <1>6 DEF GuardInv
<1>10. GuardInv'
  BY <1>1, <1>3, <1>7, <1>8, <1>9 DEF GuardInv
<1>11. ASSUME NEW j \in Keys, attempts'[j] # 0
       PROVE \E v \in Writers :
                guard'[v] # None /\ guard'[v].key = j /\ guard'[v].attempt = attempts'[j]
  <2>1. attempts'[j] = attempts[j] /\ (j = k => attempts[j] # guard[w].attempt)
    BY <1>6, <1>11
  <2>2. PICK v \in Writers :
           guard[v] # None /\ guard[v].key = j /\ guard[v].attempt = attempts[j]
    BY <2>1, <1>3, <1>11 DEF NoOrphanFence
  <2>3. v # w
    BY <2>1, <2>2
  <2> QED
    BY <2>1, <2>2, <2>3, <1>5
<1>12. \A j \in Keys : key_fences'[j] # 0 => attempts'[j] # 0
  BY <1>3, <1>6 DEF NoOrphanFence
<1> QED
  BY <1>4, <1>10, <1>11, <1>12 DEF WriteInv, NoOrphanFence

\* The title lookups touch neither guards nor fences.
LEMMA CaptureTitleStep ==
    ASSUME WriteInv, NEW k \in Keys, CaptureTitle(k) PROVE WriteInv'
<1>1. /\ row[k] # None
      /\ titles' = titles + 1
      /\ title' = [key |-> k, binding |-> Binding(k), global_fence |-> epoch,
                   key_fence |-> key_fences[k], lookup |-> titles + 1, seen |-> changes[k]]
      /\ UNCHANGED <<row, incSeq, epoch, attempts, key_fences, next_attempt, physical,
                     write_fence, guard, changes, newest, owner>>
  BY DEF CaptureTitle, rowVars, stateVars, historyVars
<1>2. TypeOK /\ GuardInv /\ NoOrphanFence
  BY DEF WriteInv
<1>3. Binding(k) \in BindingType
  <2>1. Binding(k) # None
    BY <1>1, <1>2, NoneIsNoRecord DEF Binding, TypeOK, BindingType, RowType
  <2> QED
    BY <2>1, <1>2, BindingTyped
<1>4. title' \in TitleGuard /\ titles' \in Nat
  BY <1>1, <1>2, <1>3 DEF TypeOK, TitleGuard
<1>5. TypeOK'
  BY <1>1, <1>2, <1>4 DEF TypeOK
<1>6. GuardInv'
  BY <1>1, <1>2 DEF GuardInv, GuardOK
<1>7. NoOrphanFence'
  BY <1>1, <1>2 DEF NoOrphanFence
<1> QED
  BY <1>5, <1>6, <1>7 DEF WriteInv

\* update_session_title_if_current keeps the invariant.
LEMMA EndTitleStep ==
    ASSUME WriteInv, EndTitle PROVE WriteInv'
<1>1. /\ title # None /\ title' = None
      /\ row' = IF TitleCurrent(title) THEN [row EXCEPT ![title.key].title = title.lookup]
                ELSE row
      /\ UNCHANGED <<incSeq, epoch, attempts, key_fences, next_attempt, physical, write_fence,
                     guard, titles, changes, newest, owner>>
  BY DEF EndTitle, stateVars, historyVars
<1>2. TypeOK /\ GuardInv /\ NoOrphanFence
  BY DEF WriteInv
<1>3. title \in TitleGuard
  BY <1>1, <1>2 DEF TypeOK
<1>4. row' \in [Keys -> RowType \cup {None}]
  <2>1. CASE TitleCurrent(title)
    <3>1. title.key \in Keys /\ title.lookup \in Nat /\ title.binding \in BindingType
      BY <1>3 DEF TitleGuard
    <3>2. title.binding # None
      BY <3>1, NoneIsNoRecord
    <3>3. row[title.key] # None
      BY <2>1, <3>2 DEF TitleCurrent, Binding
    <3>4. row[title.key] \in RowType
      BY <3>1, <3>3, <1>2 DEF TypeOK
    <3>5. [row[title.key] EXCEPT !.title = title.lookup] \in RowType
      BY <3>1, <3>4 DEF RowType
    <3>6. row' = [row EXCEPT ![title.key] = [row[title.key] EXCEPT !.title = title.lookup]]
      BY <1>1, <2>1
    <3> QED
      BY <3>1, <3>5, <3>6, <1>2 DEF TypeOK
  <2>2. CASE ~TitleCurrent(title)
    BY <2>2, <1>1, <1>2 DEF TypeOK
  <2> QED
    BY <2>1, <2>2
<1>5. TypeOK'
  BY <1>1, <1>2, <1>4 DEF TypeOK
<1>6. GuardInv'
  BY <1>1, <1>2 DEF GuardInv, GuardOK
<1>7. NoOrphanFence'
  BY <1>1, <1>2 DEF NoOrphanFence
<1> QED
  BY <1>5, <1>6, <1>7 DEF WriteInv

\* A new epoch ends the currency of every open guard.
LEMMA EpochStep ==
    ASSUME WriteInv, epoch' = epoch + 1,
           UNCHANGED <<attempts, next_attempt, write_fence, guard, newest>>
    PROVE GuardInv'
<1>1. TypeOK /\ GuardInv /\ epoch \in Nat /\ next_attempt \in Nat
  BY DEF WriteInv, TypeOK
<1>2. \A w \in Writers : write_fence'[w] # None => write_fence'[w] <= epoch'
  BY <1>1 DEF GuardInv, TypeOK
<1>3. ASSUME NEW w \in Writers, guard[w] # None PROVE GuardOK(w)'
  BY <1>1, <1>3, GuardKept
<1> QED
  BY <1>1, <1>2, <1>3 DEF GuardInv

\* delete_session and purge_ignored_sessions keep the invariant.
LEMMA DeleteKeysStep ==
    ASSUME WriteInv, NEW S \in SUBSET Keys, DeleteKeys(S) PROVE WriteInv'
<1>1. /\ RemoveRows(S) /\ BumpFences(S) /\ epoch' = epoch + 1 /\ Note(S)
      /\ UNCHANGED <<attempts, next_attempt, write_fence, guard, title, titles, newest>>
  BY DEF DeleteKeys, AdvanceEpoch, callerVars
<1>2. TypeOK /\ NoOrphanFence
  BY DEF WriteInv
<1>3. GuardInv'
  BY <1>1, EpochStep
<1>4. changes' \in [Keys -> Nat]
  BY <1>1, <1>2 DEF Note, TypeOK
<1>5. /\ row' \in [Keys -> RowType \cup {None}]
      /\ owner' \in [Keys -> Paths \cup {None}]
      /\ physical' \in [Keys -> Physical \cup {None}]
      /\ incSeq' \in Nat
  BY <1>1, <1>2, RemoveTyped
<1>6. /\ key_fences' \in [Keys -> Nat]
      /\ \A k \in Keys : key_fences'[k] # 0 => attempts'[k] # 0
  BY <1>1, <1>2, BumpTyped
<1>7. TypeOK'
  BY <1>1, <1>2, <1>4, <1>5, <1>6 DEF TypeOK
<1>8. NoOrphanFence'
  BY <1>1, <1>2, <1>6 DEF NoOrphanFence
<1> QED
  BY <1>3, <1>7, <1>8 DEF WriteInv

\* clear_local_session_data and the retention purge keep the invariant.
LEMMA PurgeStep ==
    ASSUME WriteInv, NEW S \in SUBSET Keys, Purge(S) PROVE WriteInv'
<1>1. /\ RemoveRows(S) /\ key_fences' = [k \in Keys |-> 0] /\ epoch' = epoch + 1 /\ Note(S)
      /\ UNCHANGED <<attempts, next_attempt, write_fence, guard, title, titles, newest>>
  BY DEF Purge, AdvanceEpoch, callerVars
<1>2. TypeOK /\ NoOrphanFence
  BY DEF WriteInv
<1>3. GuardInv'
  BY <1>1, EpochStep
<1>4. changes' \in [Keys -> Nat]
  BY <1>1, <1>2 DEF Note, TypeOK
<1>5. /\ row' \in [Keys -> RowType \cup {None}]
      /\ owner' \in [Keys -> Paths \cup {None}]
      /\ physical' \in [Keys -> Physical \cup {None}]
      /\ incSeq' \in Nat
  BY <1>1, <1>2, RemoveTyped
<1>6. TypeOK'
  BY <1>1, <1>2, <1>4, <1>5 DEF TypeOK
<1>7. NoOrphanFence'
  BY <1>1, <1>2 DEF NoOrphanFence
<1> QED
  BY <1>3, <1>6, <1>7 DEF WriteInv

\* A policy change keeps the invariant.
LEMMA PolicyStep ==
    ASSUME WriteInv, PolicyChange PROVE WriteInv'
<1>1. /\ epoch' = epoch + 1 /\ Note(Keys)
      /\ UNCHANGED <<row, incSeq, attempts, key_fences, next_attempt, physical, write_fence,
                     guard, title, titles, newest, owner>>
  BY DEF PolicyChange, AdvanceEpoch, callerVars, rowVars
<1>2. TypeOK /\ NoOrphanFence
  BY DEF WriteInv
<1>3. GuardInv'
  BY <1>1, EpochStep
<1>4. changes' \in [Keys -> Nat]
  BY <1>1, <1>2 DEF Note, TypeOK
<1>5. TypeOK'
  BY <1>1, <1>2, <1>4 DEF TypeOK
<1>6. NoOrphanFence'
  BY <1>1, <1>2 DEF NoOrphanFence
<1> QED
  BY <1>3, <1>5, <1>6 DEF WriteInv

\* A restart leaves no guard and no fence.
LEMMA RestartStep ==
    ASSUME WriteInv, Restart PROVE WriteInv'
<1>1. TypeOK'
  BY DEF WriteInv, TypeOK, Restart, rowVars
<1>2. GuardInv' /\ NoOrphanFence'
  BY DEF GuardInv, NoOrphanFence, Restart
<1> QED
  BY <1>1, <1>2 DEF WriteInv

\* The inductive step.
LEMMA WriteInvStep == WriteInv /\ [Next]_vars => WriteInv'
<1> SUFFICES ASSUME WriteInv, [Next]_vars PROVE WriteInv'
  OBVIOUS
<1>1. CASE UNCHANGED vars
  BY <1>1 DEF WriteInv, TypeOK, GuardInv, GuardOK, NoOrphanFence, vars, rowVars, stateVars,
              callerVars, historyVars
<1>2. ASSUME NEW w \in Writers, Write(w) PROVE WriteInv'
  BY <1>2, StartPassStep, BeginStep, UpsertStep, AcceptStep, DeleteStep, DropStep DEF Write
<1>3. ASSUME NEW k \in Keys, CaptureTitle(k) PROVE WriteInv'
  BY <1>3, CaptureTitleStep
<1>4. CASE EndTitle
  BY <1>4, EndTitleStep
<1>5. ASSUME NEW S \in SUBSET Keys, DeleteKeys(S) \/ Purge(S) PROVE WriteInv'
  BY <1>5, DeleteKeysStep, PurgeStep
<1>6. CASE PolicyChange
  BY <1>6, PolicyStep
<1>7. CASE Restart
  BY <1>7, RestartStep
<1> QED
  BY <1>1, <1>2, <1>3, <1>4, <1>5, <1>6, <1>7 DEF Next

\* The write state of the Store is exact in every reachable state: guards have
\* unique attempts and a registered, unspent guard of this epoch has seen every
\* change of its key.
THEOREM WriteInvAlways == Spec => []WriteInv
<1>1. Init => WriteInv
  BY InitWrite
<1>2. WriteInv /\ [Next]_vars => WriteInv'
  BY WriteInvStep
<1> QED
  BY <1>1, <1>2, PTL DEF Spec

\* begin_session_write and Drop leave no registration behind.
THEOREM NoOrphanFenceAlways == Spec => []NoOrphanFence
<1>1. WriteInv => NoOrphanFence
  BY DEF WriteInv
<1> QED
  BY <1>1, WriteInvAlways, PTL

\* Only upsert, accept and delete spend a guard, and they ask Current first.
LEMMA PublishesCurrent ==
    ASSUME WriteInv, [Next]_vars, NEW w \in Writers, Publishes(w)
    PROVE Current(guard[w])
<1>1. guard[w] # None /\ guard'[w] # None /\ ~guard[w].completed /\ guard'[w].completed
  BY DEF Publishes
<1>2. guard \in [Writers -> Guard \cup {None}]
  BY DEF WriteInv, TypeOK
<1>3. guard'[w] # guard[w]
  BY <1>1
<1>4. guard' # guard
  BY <1>3
<1>5. ASSUME NEW v \in Writers, Write(v) PROVE Current(guard[w])
  <2>1. ASSUME StartPass(v) PROVE FALSE
    BY <2>1, <1>4 DEF StartPass
  <2>2. ASSUME NEW k \in Keys, NEW label \in Labels, NEW path \in Paths,
               Begin(v, k, label, path)
        PROVE FALSE
    <3>1. guard[v] = None /\ \A u \in Writers : u # v => guard'[u] = guard[u]
      BY <2>2, <1>2 DEF Begin
    <3> QED
      BY <3>1, <1>1, <1>3
  <2>3. ASSUME UpsertIfCurrent(v) \/ AcceptIfCurrent(v) \/ DeleteIfCurrent(v)
        PROVE Current(guard[w])
    <3>1. Current(guard[v]) /\ guard' = [guard EXCEPT ![v].completed = TRUE]
      BY <2>3 DEF UpsertIfCurrent, AcceptIfCurrent, DeleteIfCurrent, Bind
    <3>2. v = w
      BY <3>1, <1>2, <1>3
    <3> QED
      BY <3>1, <3>2
  <2>4. ASSUME Drop(v) PROVE FALSE
    <3>1. guard' = [guard EXCEPT ![v] = None]
      BY <2>4 DEF Drop
    <3> QED
      BY <3>1, <1>1, <1>2, <1>3
  <2> QED
    BY <1>5, <2>1, <2>2, <2>3, <2>4 DEF Write
<1>6. ASSUME NEW k \in Keys, CaptureTitle(k) PROVE FALSE
  BY <1>4, <1>6 DEF CaptureTitle
<1>7. ASSUME EndTitle PROVE FALSE
  BY <1>4, <1>7 DEF EndTitle
<1>8. ASSUME NEW S \in SUBSET Keys, DeleteKeys(S) \/ Purge(S) PROVE FALSE
  BY <1>4, <1>8 DEF DeleteKeys, Purge, callerVars
<1>9. ASSUME PolicyChange PROVE FALSE
  BY <1>4, <1>9 DEF PolicyChange, callerVars
<1>10. ASSUME Restart PROVE FALSE
  BY <1>1, <1>10 DEF Restart
<1>11. ASSUME UNCHANGED vars PROVE FALSE
  BY <1>4, <1>11 DEF vars, callerVars
<1> QED
  BY <1>5, <1>6, <1>7, <1>8, <1>9, <1>10, <1>11 DEF Next

\* session_write_rejection is enough: no guard publishes what it began to read
\* before another change of its key.
THEOREM NoStaleWriteAlways == Spec => NoStaleWrite
<1>1. WriteInv /\ [Next]_vars
        => [\A w \in Writers : Publishes(w) => guard[w].seen = changes[guard[w].key]]_vars
  <2> SUFFICES ASSUME WriteInv, [Next]_vars, NEW w \in Writers, Publishes(w)
               PROVE guard[w].seen = changes[guard[w].key]
    OBVIOUS
  <2>1. Current(guard[w]) /\ guard[w] # None /\ ~guard[w].completed
    BY PublishesCurrent DEF Publishes
  <2>2. GuardOK(w)
    BY <2>1, GuardKnows
  <2> QED
    BY <2>1, <2>2 DEF Current, GuardOK
<1> QED
  BY <1>1, WriteInvAlways, PTL DEF Spec, NoStaleWrite

\* Of the guards of a key only the newest registered attempt publishes.
THEOREM NewestWinsAlways == Spec => NewestWins
<1>1. WriteInv /\ [Next]_vars
        => [\A w \in Writers : Publishes(w) => guard[w].attempt = newest[guard[w].key]]_vars
  <2> SUFFICES ASSUME WriteInv, [Next]_vars, NEW w \in Writers, Publishes(w)
               PROVE guard[w].attempt = newest[guard[w].key]
    OBVIOUS
  <2>1. Current(guard[w]) /\ guard[w] # None
    BY PublishesCurrent DEF Publishes
  <2>2. guard[w].key \in Keys /\ guard[w].attempt # 0
    BY <2>1, GuardKnows
  <2>3. attempts[guard[w].key] = guard[w].attempt
    BY <2>1 DEF Current
  <2> QED
    BY <2>2, <2>3 DEF WriteInv, GuardInv
<1> QED
  BY <1>1, WriteInvAlways, PTL DEF Spec, NewestWins

----------------------------------------------------------------------------
(* The sources of the rows and the title lookups.                          *)

\* session_source_binding_in on values.
BindingIn(r, p) ==
    IF r = None THEN None
    ELSE [incarnation |-> r.incarnation, label |-> r.label,
          physical |-> IF p # None /\ p.incarnation = r.incarnation /\ p.label = r.label
                       THEN p ELSE None]

\* The source that last wrote or accepted a row is the one the Store has
\* recorded for that very row.
Owned(r, p, o) ==
    o # None => /\ r # None /\ p # None
                /\ p.incarnation = r.incarnation /\ p.label = r.label /\ p.path = o

Unspent(g) == g # None /\ ~g.completed

\* Attempt a has been given, and none of the guards can publish under it.
Used(a, last, guards) ==
    a <= last /\ \A w \in Writers : Unspent(guards[w]) => guards[w].attempt # a

OwnerInv == \A k \in Keys : Owned(row[k], physical[k], owner[k])

UsedInv ==
    \A k \in Keys : physical[k] # None => Used(physical[k].attempt, next_attempt, guard)

\* A title lookup that finds its binding again in its own epoch has missed no
\* change of the row.
TitleInv ==
    title # None =>
        /\ title.global_fence <= epoch
        /\ title.binding.physical # None =>
              Used(title.binding.physical.attempt, next_attempt, guard)
        /\ (/\ epoch = title.global_fence
            /\ BindingIn(row[title.key], physical[title.key]) = title.binding)
           => changes[title.key] = title.seen

SourceInv == OwnerInv /\ UsedInv /\ TitleInv

\* The binding is that of the row and of the source the Store remembers.
LEMMA BindingIs ==
    ASSUME NEW k
    PROVE Binding(k) = BindingIn(row[k], physical[k])
  BY DEF Binding, BindingIn

\* A stored row has a binding.
LEMMA BindingRow ==
    ASSUME TypeOK, NEW k \in Keys, row[k] # None
    PROVE Binding(k) \in BindingType
<1>1. row[k] \in RowType /\ physical[k] \in Physical \cup {None}
  BY DEF TypeOK
<1> QED
  BY <1>1 DEF Binding, BindingType, RowType

\* The lookup under way is a record of its type.
LEMMA TitleTyped ==
    ASSUME TypeOK, title # None
    PROVE /\ title \in TitleGuard /\ title.key \in Keys /\ title.binding \in BindingType
          /\ title.binding # None /\ title.global_fence \in Nat /\ title.lookup \in Nat
          /\ title.binding.physical # None => title.binding.physical.attempt \in Nat
<1>1. title \in TitleGuard
  BY DEF TypeOK
<1>2. title.key \in Keys /\ title.binding \in BindingType
      /\ title.global_fence \in Nat /\ title.lookup \in Nat
  BY <1>1 DEF TitleGuard
<1>3. title.binding.physical \in Physical \cup {None}
  BY <1>2 DEF BindingType
<1> QED
  BY <1>1, <1>2, <1>3, NoneIsNoRecord DEF Physical

\* Attempts age: no guard becomes able to publish under an old attempt.
Ages ==
    /\ next_attempt' >= next_attempt /\ next_attempt' \in Nat
    /\ \A w \in Writers : Unspent(guard'[w]) =>
          \/ Unspent(guard[w]) /\ guard'[w].attempt = guard[w].attempt
          \/ guard'[w].attempt > next_attempt

(* An attempt that no open guard holds is not taken up again. *)
LEMMA UsedKept ==
    ASSUME TypeOK, Ages, NEW a \in Nat, Used(a, next_attempt, guard)
    PROVE Used(a, next_attempt', guard')
<1>1. next_attempt \in Nat
  BY DEF TypeOK
<1> QED
  BY <1>1 DEF Ages, Used

(* The attempt of a binding that stays in place is not taken up again. *)
LEMMA UsedInvKept ==
    ASSUME TypeOK, UsedInv, Ages, NEW k \in Keys, physical'[k] \in {physical[k], None},
           physical'[k] # None
    PROVE Used(physical'[k].attempt, next_attempt', guard')
<1>1. physical'[k] = physical[k] /\ physical[k] \in Physical
  BY DEF TypeOK
<1>2. physical[k].attempt \in Nat /\ Used(physical[k].attempt, next_attempt, guard)
  BY <1>1 DEF UsedInv, Physical
<1> QED
  BY <1>1, <1>2, UsedKept

\* A lookup under way keeps what it knows when its row did not change, or lost
\* the binding, or the epoch moved on.
LEMMA TitleKept ==
    ASSUME TypeOK, TitleInv, Ages, title' = title, epoch' \in Nat, epoch' >= epoch,
           title # None =>
              \/ /\ row'[title.key] = row[title.key]
                 /\ physical'[title.key] = physical[title.key]
                 /\ changes'[title.key] = changes[title.key]
              \/ epoch' > epoch
              \/ BindingIn(row'[title.key], physical'[title.key]) # title.binding
    PROVE TitleInv'
<1> SUFFICES ASSUME title # None
    PROVE /\ title.global_fence <= epoch'
          /\ title.binding.physical # None =>
                Used(title.binding.physical.attempt, next_attempt', guard')
          /\ (/\ epoch' = title.global_fence
              /\ BindingIn(row'[title.key], physical'[title.key]) = title.binding)
             => changes'[title.key] = title.seen
  BY DEF TitleInv
<1>1. title.global_fence \in Nat /\ epoch \in Nat /\ title.global_fence <= epoch
  BY TitleTyped DEF TypeOK, TitleInv
<1>2. title.global_fence <= epoch' /\ (epoch' > epoch => epoch' # title.global_fence)
  BY <1>1
<1>3. title.binding.physical # None =>
         Used(title.binding.physical.attempt, next_attempt', guard')
  BY TitleTyped, UsedKept DEF TitleInv
<1>4. epoch' = title.global_fence => epoch' = epoch
  BY <1>1
<1> QED
  BY <1>2, <1>3, <1>4 DEF TitleInv

\* A step that leaves rows, sources, epoch and lookups alone.
LEMMA QuietSource ==
    ASSUME TypeOK, SourceInv, Ages, UNCHANGED <<row, physical, owner, epoch, title, changes>>
    PROVE SourceInv'
<1>1. OwnerInv'
  BY DEF SourceInv, OwnerInv, Owned
<1>2. UsedInv'
  BY UsedInvKept DEF SourceInv, UsedInv
<1>3. TitleInv'
  BY TitleKept DEF SourceInv, TypeOK
<1> QED
  BY <1>1, <1>2, <1>3 DEF SourceInv

\* Guards that open, are dropped or start a pass.
LEMMA GuardSource ==
    ASSUME WriteInv, SourceInv, NEW w \in Writers,
           \/ StartPass(w) \/ Drop(w)
           \/ \E k \in Keys, label \in Labels, path \in Paths : Begin(w, k, label, path)
    PROVE SourceInv'
<1>0. TypeOK /\ next_attempt \in Nat /\ guard \in [Writers -> Guard \cup {None}]
  BY DEF WriteInv, TypeOK
<1>1. UNCHANGED <<row, physical, owner, epoch, title, changes>>
  BY DEF StartPass, Drop, Begin, rowVars, stateVars, historyVars
<1>2. Ages
  <2>1. CASE StartPass(w)
    BY <1>0, <2>1 DEF StartPass, stateVars, Ages
  <2>2. CASE Drop(w)
    BY <1>0, <2>2 DEF Drop, Ages, Unspent
  <2>3. ASSUME NEW k \in Keys, NEW label \in Labels, NEW path \in Paths,
               Begin(w, k, label, path)
        PROVE Ages
    <3>1. /\ next_attempt' = next_attempt + 1 /\ guard'[w].attempt = next_attempt + 1
          /\ \A v \in Writers : v # w => guard'[v] = guard[v]
      BY <1>0, <2>3 DEF Begin
    <3> QED
      BY <1>0, <3>1 DEF Ages
  <2> QED
    BY <2>1, <2>2, <2>3
<1> QED
  BY <1>0, <1>1, <1>2, QuietSource

\* A publication spends its attempt and no other guard has it.
LEMMA SpentAges ==
    ASSUME WriteInv, NEW w \in Writers, guard[w] # None,
           guard' = [guard EXCEPT ![w].completed = TRUE], next_attempt' = next_attempt
    PROVE /\ Ages
          /\ Used(guard[w].attempt, next_attempt', guard')
<1>0. /\ TypeOK /\ next_attempt \in Nat /\ guard \in [Writers -> Guard \cup {None}]
      /\ guard[w] \in Guard /\ guard[w].attempt <= next_attempt
  BY GuardTyped, GuardKnows DEF WriteInv, TypeOK, GuardOK
<1>1. /\ guard'[w].completed = TRUE
      /\ \A v \in Writers : v # w => guard'[v] = guard[v]
  BY <1>0 DEF Guard
<1>2. Ages
  BY <1>0, <1>1 DEF Ages, Unspent
<1>3. \A v \in Writers : v # w /\ guard[v] # None => guard[v].attempt # guard[w].attempt
  BY DEF WriteInv, GuardInv
<1> QED
  BY <1>0, <1>1, <1>2, <1>3 DEF Used, Unspent

\* What upsert and accept leave: the row is there, and the source of the guard
\* is recorded for it under the guard's attempt.
Binds(w) ==
    LET g == guard[w]
        k == g.key
    IN  /\ row'[k] # None /\ row'[k] \in RowType
        /\ physical'[k] = [incarnation |-> row'[k].incarnation, label |-> row'[k].label,
                           path |-> g.path, attempt |-> g.attempt]
        /\ owner'[k] = g.path
        /\ \A j \in Keys : j # k => /\ row'[j] = row[j] /\ physical'[j] = physical[j]
                                    /\ owner'[j] = owner[j] /\ changes'[j] = changes[j]
        /\ UNCHANGED <<epoch, title, next_attempt>>

(* Completing a guard whose write is bound keeps the invariant of sources. *)
LEMMA BindsSource ==
    ASSUME WriteInv, SourceInv, NEW w \in Writers, guard[w] # None, ~guard[w].completed,
           guard' = [guard EXCEPT ![w].completed = TRUE], Binds(w)
    PROVE SourceInv'
<1> DEFINE g == guard[w]
           k == g.key
           p == [incarnation |-> row'[k].incarnation, label |-> row'[k].label,
                 path |-> g.path, attempt |-> g.attempt]
<1>0. TypeOK /\ k \in Keys /\ g.attempt \in Nat /\ g.path \in Paths /\ epoch \in Nat
  BY GuardTyped DEF WriteInv, TypeOK
<1>1. Ages /\ Used(g.attempt, next_attempt', guard')
  BY SpentAges DEF Binds
<1>2. /\ row'[k] # None /\ row'[k] \in RowType /\ physical'[k] = p /\ owner'[k] = g.path
      /\ \A j \in Keys : j # k => /\ row'[j] = row[j] /\ physical'[j] = physical[j]
                                  /\ owner'[j] = owner[j] /\ changes'[j] = changes[j]
      /\ UNCHANGED <<epoch, title, next_attempt>>
  BY DEF Binds
<1>3. /\ p.attempt = g.attempt /\ p.path = g.path
      /\ p.incarnation = row'[k].incarnation /\ p.label = row'[k].label
  OBVIOUS
<1> HIDE DEF p
<1>4. p # None
  <2>1. p \in Physical
    BY <1>0, <1>2 DEF p, Physical, RowType
  <2> QED
    BY <2>1, NoneIsNoRecord
<1>5. OwnerInv'
  BY <1>2, <1>3, <1>4 DEF SourceInv, OwnerInv, Owned
<1>6. UsedInv'
  <2> SUFFICES ASSUME NEW j \in Keys, physical'[j] # None
               PROVE Used(physical'[j].attempt, next_attempt', guard')
    BY DEF UsedInv
  <2>1. CASE j = k
    BY <1>1, <1>2, <1>3, <2>1
  <2>2. CASE j # k
    BY <1>0, <1>1, <1>2, <2>2, UsedInvKept DEF SourceInv
  <2> QED
    BY <2>1, <2>2
<1>7. TitleInv'
  <2>1. title # None /\ title.key = k =>
           BindingIn(row'[title.key], physical'[title.key]) # title.binding
    <3> SUFFICES ASSUME title # None, title.key = k, BindingIn(row'[k], p) = title.binding
                 PROVE FALSE
      BY <1>2
    <3>1. title.binding.physical = p
      BY <1>2, <1>3, <1>4 DEF BindingIn
    <3>2. Used(g.attempt, next_attempt, guard)
      BY <1>3, <1>4, <3>1 DEF SourceInv, TitleInv
    <3> QED
      BY <3>2 DEF Used, Unspent
  <2>2. title # None => title.key \in Keys
    BY <1>0, TitleTyped
  <2> QED
    BY <1>0, <1>1, <1>2, <2>1, <2>2, TitleKept DEF SourceInv
<1> QED
  BY <1>5, <1>6, <1>7 DEF SourceInv

\* upsert_session_if_current binds the row to its source.
LEMMA UpsertSource ==
    ASSUME WriteInv, SourceInv, NEW w \in Writers, UpsertIfCurrent(w) PROVE SourceInv'
<1> DEFINE g == guard[w]
           k == g.key
           incarnation == IF row[k] = None THEN incSeq + 1 ELSE row[k].incarnation
           r == [incarnation |-> incarnation, label |-> g.label, title |-> 0]
<1>0. /\ g # None /\ Current(g) /\ TypeOK
      /\ row' = [row EXCEPT ![k] = r] /\ Bind(w, incarnation) /\ Note({k})
      /\ UNCHANGED <<epoch, next_attempt, title>>
  BY DEF UpsertIfCurrent, WriteInv
<1>1. k \in Keys /\ g \in Guard /\ g.label \in Labels
  BY <1>0, GuardTyped
<1>2. incarnation \in Nat
  BY <1>0, <1>1 DEF TypeOK, RowType
<1> HIDE DEF incarnation
<1>3. r \in RowType /\ r # None /\ r.incarnation = incarnation /\ r.label = g.label
  BY <1>1, <1>2, NoneIsNoRecord DEF RowType
<1> HIDE DEF r
<1>4. /\ physical'[k] = [incarnation |-> incarnation, label |-> g.label, path |-> g.path,
                         attempt |-> g.attempt]
      /\ owner'[k] = g.path /\ guard' = [guard EXCEPT ![w].completed = TRUE]
      /\ \A j \in Keys : j # k => physical'[j] = physical[j] /\ owner'[j] = owner[j]
  BY <1>0, <1>1 DEF Bind, TypeOK
<1>5. /\ row'[k] = r
      /\ \A j \in Keys : j # k => row'[j] = row[j] /\ changes'[j] = changes[j]
  BY <1>0, <1>1 DEF Note, TypeOK
<1>6. Binds(w)
  BY <1>0, <1>3, <1>4, <1>5 DEF Binds
<1>7. ~g.completed
  BY <1>0 DEF Current
<1> QED
  BY <1>0, <1>4, <1>6, <1>7, BindsSource

\* accept_session_if_current does so for the row that is there.
LEMMA AcceptSource ==
    ASSUME WriteInv, SourceInv, NEW w \in Writers, AcceptIfCurrent(w) PROVE SourceInv'
<1> DEFINE g == guard[w]
           k == g.key
<1>0. /\ g # None /\ Current(g) /\ g.stored_binding # None /\ OwnSource(g) /\ TypeOK
      /\ Bind(w, g.stored_binding.incarnation) /\ Note({k})
      /\ UNCHANGED <<row, epoch, next_attempt, title>>
  BY DEF AcceptIfCurrent, WriteInv, rowVars
<1>1. k \in Keys /\ g \in Guard
  BY <1>0, GuardTyped
<1>2. Binding(k) = g.stored_binding /\ ~g.completed
  BY <1>0 DEF Current
<1>3. /\ row[k] # None /\ row[k] \in RowType
      /\ g.stored_binding.incarnation = row[k].incarnation
      /\ g.stored_binding.label = row[k].label /\ g.stored_binding.label = g.label
  BY <1>0, <1>1, <1>2 DEF Binding, OwnSource, TypeOK
<1>4. /\ physical'[k] = [incarnation |-> row[k].incarnation, label |-> row[k].label,
                         path |-> g.path, attempt |-> g.attempt]
      /\ owner'[k] = g.path /\ guard' = [guard EXCEPT ![w].completed = TRUE]
      /\ \A j \in Keys : j # k => physical'[j] = physical[j] /\ owner'[j] = owner[j]
  BY <1>0, <1>1, <1>3 DEF Bind, TypeOK
<1>5. \A j \in Keys : j # k => changes'[j] = changes[j]
  BY <1>0, <1>1 DEF Note, TypeOK
<1>6. Binds(w)
  BY <1>0, <1>3, <1>4, <1>5 DEF Binds
<1> QED
  BY <1>0, <1>2, <1>4, <1>6, BindsSource

\* Removed rows have no owner and no source; a lookup of one of them does not
\* find its binding again.
LEMMA RemovedSource ==
    ASSUME WriteInv, SourceInv, NEW S \in SUBSET Keys, RemoveRows(S), Note(S), Ages,
           title' = title, epoch' \in Nat, epoch' >= epoch
    PROVE SourceInv'
<1>0. TypeOK
  BY DEF WriteInv
<1>1. \A j \in Keys :
        IF j \in S THEN row'[j] = None /\ owner'[j] = None /\ physical'[j] = None
        ELSE /\ row'[j] = row[j] /\ owner'[j] = owner[j] /\ physical'[j] = physical[j]
             /\ changes'[j] = changes[j]
  BY <1>0 DEF RemoveRows, Note, TypeOK
<1>2. OwnerInv'
  BY <1>1 DEF SourceInv, OwnerInv, Owned
<1>3. UsedInv'
  BY <1>0, <1>1, UsedInvKept DEF SourceInv, UsedInv
<1>4. title # None => title.key \in Keys /\ title.binding # None
  BY <1>0, TitleTyped
<1>5. title # None /\ title.key \in S =>
         BindingIn(row'[title.key], physical'[title.key]) # title.binding
  BY <1>1, <1>4 DEF BindingIn
<1>6. TitleInv'
  BY <1>0, <1>1, <1>4, <1>5, TitleKept DEF SourceInv
<1> QED
  BY <1>2, <1>3, <1>6 DEF SourceInv

(* A fenced deletion keeps the invariant of sources. *)
LEMMA DeleteSource ==
    ASSUME WriteInv, SourceInv, NEW w \in Writers, DeleteIfCurrent(w) PROVE SourceInv'
<1>1. /\ guard[w] # None /\ RemoveRows({guard[w].key}) /\ Note({guard[w].key})
      /\ guard' = [guard EXCEPT ![w].completed = TRUE]
      /\ UNCHANGED <<epoch, next_attempt, title>>
  BY DEF DeleteIfCurrent
<1>2. {guard[w].key} \in SUBSET Keys /\ epoch \in Nat
  BY <1>1, GuardTyped DEF WriteInv, TypeOK
<1>3. Ages
  BY <1>1, SpentAges
<1> QED
  BY <1>1, <1>2, <1>3, RemovedSource

\* The lookups: a capture has seen every change, an end writes only a title.
LEMMA TitleSource ==
    ASSUME WriteInv, SourceInv, (\E k \in Keys : CaptureTitle(k)) \/ EndTitle
    PROVE SourceInv'
<1>0. TypeOK /\ next_attempt \in Nat /\ epoch \in Nat /\ row \in [Keys -> RowType \cup {None}]
  BY DEF WriteInv, TypeOK
<1>1. UNCHANGED <<physical, owner, epoch, changes, next_attempt, guard>>
  BY DEF CaptureTitle, EndTitle, stateVars, historyVars
<1>2. UsedInv'
  BY <1>1 DEF SourceInv, UsedInv
<1>3. ASSUME NEW k \in Keys, CaptureTitle(k) PROVE OwnerInv' /\ TitleInv'
  <2> DEFINE t == [key |-> k, binding |-> Binding(k), global_fence |-> epoch,
                   key_fence |-> key_fences[k], lookup |-> titles + 1, seen |-> changes[k]]
  <2>1. row' = row /\ title' = t /\ row[k] # None
    BY <1>3 DEF CaptureTitle, rowVars
  <2>2. /\ t.key = k /\ t.global_fence = epoch /\ t.seen = changes[k]
        /\ t.binding = BindingIn(row[k], physical[k])
    BY BindingIs
  <2> HIDE DEF t
  <2>3. t.binding.physical \in {physical[k], None}
    BY <2>1, <2>2 DEF BindingIn
  <2>4. t.binding.physical # None => Used(t.binding.physical.attempt, next_attempt, guard)
    BY <2>3 DEF SourceInv, UsedInv
  <2> QED
    BY <1>0, <1>1, <2>1, <2>2, <2>4 DEF SourceInv, OwnerInv, Owned, TitleInv
<1>4. CASE EndTitle
  <2>1. title' = None
    BY <1>4 DEF EndTitle
  <2>2. \A k \in Keys : row[k] # None =>
           /\ row'[k] # None
           /\ row'[k].incarnation = row[k].incarnation /\ row'[k].label = row[k].label
    <3>1. CASE row' = row
      BY <3>1
    <3>2. CASE TitleCurrent(title) /\ row' = [row EXCEPT ![title.key].title = title.lookup]
      <4> SUFFICES ASSUME NEW k \in Keys, row[k] # None
                   PROVE /\ row'[k] # None
                         /\ row'[k].incarnation = row[k].incarnation
                         /\ row'[k].label = row[k].label
        OBVIOUS
      <4>1. row[k] \in RowType
        BY <1>0
      <4>2. row'[k] \in {row[k], [row[k] EXCEPT !.title = title.lookup]}
        BY <1>0, <3>2
      <4>3. title.lookup \in Nat
        BY <1>0, <1>4, TitleTyped DEF EndTitle
      <4>4. LET r == [row[k] EXCEPT !.title = title.lookup]
            IN  r \in RowType /\ r.incarnation = row[k].incarnation /\ r.label = row[k].label
        BY <4>1, <4>3 DEF RowType
      <4> QED
        BY <4>1, <4>2, <4>4, NoneIsNoRecord
    <3> QED
      BY <1>4, <3>1, <3>2 DEF EndTitle
  <2>3. OwnerInv'
    BY <1>1, <2>2 DEF SourceInv, OwnerInv, Owned
  <2>4. TitleInv'
    BY <2>1 DEF TitleInv
  <2> QED
    BY <1>2, <2>3, <2>4 DEF SourceInv
<1> QED
  BY <1>2, <1>3, <1>4 DEF SourceInv

\* delete_session, purges and policy changes advance the epoch.
LEMMA EpochSource ==
    ASSUME WriteInv, SourceInv,
           PolicyChange \/ \E S \in SUBSET Keys : DeleteKeys(S) \/ Purge(S)
    PROVE SourceInv'
<1>0. TypeOK /\ epoch \in Nat /\ next_attempt \in Nat
  BY DEF WriteInv, TypeOK
<1>1. epoch' = epoch + 1 /\ UNCHANGED <<title, guard, next_attempt>>
  BY DEF PolicyChange, DeleteKeys, Purge, AdvanceEpoch, callerVars
<1>2. Ages /\ epoch' \in Nat /\ epoch' > epoch
  BY <1>0, <1>1 DEF Ages
<1>3. CASE PolicyChange
  <2>1. UNCHANGED <<row, physical, owner>>
    BY <1>3 DEF PolicyChange, rowVars
  <2>2. OwnerInv' /\ UsedInv'
    BY <1>0, <1>2, <2>1, UsedInvKept DEF SourceInv, OwnerInv, Owned, UsedInv
  <2>3. TitleInv'
    BY <1>0, <1>1, <1>2, TitleKept DEF SourceInv
  <2> QED
    BY <2>2, <2>3 DEF SourceInv
<1>4. ASSUME NEW S \in SUBSET Keys, DeleteKeys(S) \/ Purge(S) PROVE SourceInv'
  <2>1. RemoveRows(S) /\ Note(S)
    BY <1>4 DEF DeleteKeys, Purge
  <2> QED
    BY <1>0, <1>1, <1>2, <2>1, RemovedSource
<1> QED
  BY <1>3, <1>4

\* The invariant of the sources and lookups is inductive on top of WriteInv.
LEMMA SourceInvStep == WriteInv /\ SourceInv /\ [Next]_vars => SourceInv'
<1> SUFFICES ASSUME WriteInv, SourceInv, [Next]_vars PROVE SourceInv'
  OBVIOUS
<1>1. CASE UNCHANGED vars
  BY <1>1 DEF SourceInv, OwnerInv, Owned, UsedInv, TitleInv, vars, rowVars, stateVars,
              callerVars, historyVars
<1>2. ASSUME NEW w \in Writers, Write(w) PROVE SourceInv'
  BY <1>2, GuardSource, UpsertSource, AcceptSource, DeleteSource DEF Write
<1>3. CASE Restart
  BY <1>3 DEF Restart, SourceInv, OwnerInv, Owned, UsedInv, TitleInv
<1> QED
  BY <1>1, <1>2, <1>3, TitleSource, EpochSource DEF Next

\* Only delete_session_if_current takes the row of the guard it spends.
LEMMA PublishesDeletes ==
    ASSUME WriteInv, [Next]_vars, NEW w \in Writers, Publishes(w),
           row[guard[w].key] # None, row'[guard[w].key] = None
    PROVE OwnSource(guard[w])
<1>1. guard[w] # None /\ guard'[w] # None /\ ~guard[w].completed /\ guard'[w].completed
      /\ guard' # guard /\ row' # row
  BY DEF Publishes
<1>2. TypeOK /\ guard \in [Writers -> Guard \cup {None}] /\ guard[w].key \in Keys
      /\ row \in [Keys -> RowType \cup {None}]
  BY <1>1, GuardTyped DEF WriteInv, TypeOK
<1>3. ASSUME NEW v \in Writers, Write(v) PROVE OwnSource(guard[w])
  <2>1. ASSUME StartPass(v) \/ Drop(v) \/ AcceptIfCurrent(v)
               \/ \E k \in Keys, label \in Labels, path \in Paths : Begin(v, k, label, path)
        PROVE FALSE
    BY <1>1, <2>1 DEF StartPass, Drop, AcceptIfCurrent, Begin, rowVars
  <2>2. ASSUME UpsertIfCurrent(v) PROVE FALSE
    <3> DEFINE i == IF row[guard[v].key] = None THEN incSeq + 1 ELSE row[guard[v].key].incarnation
               r == [incarnation |-> i, label |-> guard[v].label, title |-> 0]
    <3>1. row' = [row EXCEPT ![guard[v].key] = r] /\ guard[v] # None
      BY <2>2 DEF UpsertIfCurrent
    <3>2. i \in Nat /\ guard[v].label \in Labels
      BY <1>2, <3>1, GuardTyped DEF TypeOK, RowType
    <3> HIDE DEF i
    <3>3. r \in RowType /\ r # None
      BY <3>2, NoneIsNoRecord DEF RowType
    <3> HIDE DEF r
    <3> QED
      BY <1>2, <3>1, <3>3
  <2>3. ASSUME DeleteIfCurrent(v) PROVE OwnSource(guard[w])
    <3>1. OwnSource(guard[v]) /\ guard' = [guard EXCEPT ![v].completed = TRUE]
      BY <2>3 DEF DeleteIfCurrent
    <3>2. v = w
      BY <1>1, <1>2, <3>1
    <3> QED
      BY <3>1, <3>2
  <2> QED
    BY <1>3, <2>1, <2>2, <2>3 DEF Write
<1>4. ASSUME \/ \E k \in Keys : CaptureTitle(k)
             \/ EndTitle \/ PolicyChange \/ UNCHANGED vars
             \/ \E S \in SUBSET Keys : DeleteKeys(S) \/ Purge(S)
      PROVE FALSE
  BY <1>1, <1>4
  DEF CaptureTitle, EndTitle, PolicyChange, DeleteKeys, Purge, callerVars, vars
<1>5. ASSUME Restart PROVE FALSE
  BY <1>1, <1>5 DEF Restart
<1> QED
  BY <1>3, <1>4, <1>5 DEF Next

\* Only update_session_title_if_current gives a row another title than none.
LEMMA TitlesEnd ==
    ASSUME WriteInv, [Next]_vars, NEW k \in Keys, row[k] # None, row'[k] # None,
           row'[k].title # row[k].title, row'[k].title # 0
    PROVE EndTitle
<1>1. row' # row /\ row \in [Keys -> RowType \cup {None}]
  BY DEF WriteInv, TypeOK
<1>2. ASSUME NEW v \in Writers, Write(v) PROVE FALSE
  <2>1. ASSUME StartPass(v) \/ Drop(v) \/ AcceptIfCurrent(v)
               \/ \E j \in Keys, label \in Labels, path \in Paths : Begin(v, j, label, path)
        PROVE FALSE
    BY <1>1, <2>1 DEF StartPass, Drop, AcceptIfCurrent, Begin, rowVars
  <2>2. ASSUME UpsertIfCurrent(v) PROVE FALSE
    <3> DEFINE i == IF row[guard[v].key] = None THEN incSeq + 1 ELSE row[guard[v].key].incarnation
               r == [incarnation |-> i, label |-> guard[v].label, title |-> 0]
    <3>1. row' = [row EXCEPT ![guard[v].key] = r]
      BY <2>2 DEF UpsertIfCurrent
    <3>2. r.title = 0
      OBVIOUS
    <3> HIDE DEF r
    <3> QED
      BY <1>1, <3>1, <3>2
  <2>3. ASSUME DeleteIfCurrent(v) PROVE FALSE
    BY <1>1, <2>3 DEF DeleteIfCurrent, RemoveRows
  <2> QED
    BY <1>2, <2>1, <2>2, <2>3 DEF Write
<1>3. ASSUME NEW S \in SUBSET Keys, DeleteKeys(S) \/ Purge(S) PROVE FALSE
  BY <1>1, <1>3 DEF DeleteKeys, Purge, RemoveRows
<1>4. ASSUME (\E j \in Keys : CaptureTitle(j)) \/ PolicyChange \/ Restart \/ UNCHANGED vars
      PROVE FALSE
  BY <1>1, <1>4 DEF CaptureTitle, PolicyChange, Restart, rowVars, vars
<1> QED
  BY <1>2, <1>3, <1>4 DEF Next

\* A row that a source wrote or accepted is bound to that source, an attempt
\* that was published under is spent for good, and a title lookup knows of every
\* change its binding does not show (bind_session_source, session_source_binding_in).
THEOREM SourceInvAlways == Spec => []SourceInv
<1>1. Init => SourceInv
  BY DEF Init, SourceInv, OwnerInv, Owned, UsedInv, TitleInv
<1> QED
  BY <1>1, SourceInvStep, WriteInvAlways, PTL DEF Spec

\* delete_session_if_current removes no row that another physical source wrote
\* or accepted, for any number of sources under one label.
THEOREM SourceOwnsDeleteAlways == Spec => SourceOwnsDelete
<1>1. WriteInv /\ SourceInv /\ [Next]_vars
        => [\A w \in Writers :
              Publishes(w) /\ row[guard[w].key] # None /\ row'[guard[w].key] = None
              => owner[guard[w].key] \in {None, guard[w].path}]_vars
  <2> SUFFICES ASSUME WriteInv, SourceInv, [Next]_vars, NEW w \in Writers, Publishes(w),
                      row[guard[w].key] # None, row'[guard[w].key] = None
               PROVE owner[guard[w].key] \in {None, guard[w].path}
    OBVIOUS
  <2> DEFINE g == guard[w]
             k == g.key
  <2>1. Current(g) /\ g # None /\ k \in Keys
    BY PublishesCurrent, GuardTyped DEF Publishes, WriteInv
  <2>2. OwnSource(g)
    BY PublishesDeletes
  <2>3. Owned(row[k], physical[k], owner[k])
    BY <2>1 DEF SourceInv, OwnerInv
  <2>4. CASE owner[k] # None
    <3>1. row[k] # None /\ physical[k] # None /\ physical[k].incarnation = row[k].incarnation
          /\ physical[k].label = row[k].label /\ physical[k].path = owner[k]
      BY <2>3, <2>4 DEF Owned
    <3>2. g.stored_binding = BindingIn(row[k], physical[k])
      BY <2>1, BindingIs DEF Current
    <3>3. g.stored_binding # None /\ g.stored_binding.physical = physical[k]
      <4>1. g.stored_binding = [incarnation |-> row[k].incarnation, label |-> row[k].label,
                                physical |-> physical[k]]
        BY <3>1, <3>2 DEF BindingIn
      <4>2. Binding(k) \in BindingType
        BY <2>1, <3>1, NoneIsNoRecord, BindingRow DEF WriteInv
      <4> QED
        BY <2>1, <4>1, <4>2, NoneIsNoRecord DEF Current
    <3> QED
      BY <2>2, <3>1, <3>3 DEF OwnSource
  <2> QED
    BY <2>4
<1> QED
  BY <1>1, WriteInvAlways, SourceInvAlways, PTL DEF Spec, SourceOwnsDelete

\* update_session_title_if_current stores no title that was looked up before
\* the last change of the row.
THEOREM NoStaleTitleAlways == Spec => NoStaleTitle
<1>1. WriteInv /\ SourceInv /\ [Next]_vars
        => [\A k \in Keys :
              /\ row[k] # None /\ row'[k] # None
              /\ row'[k].title # row[k].title /\ row'[k].title # 0
              => title # None /\ title.key = k /\ title.seen = changes[k]]_vars
  <2> SUFFICES ASSUME WriteInv, SourceInv, [Next]_vars, NEW k \in Keys,
                      row[k] # None, row'[k] # None,
                      row'[k].title # row[k].title, row'[k].title # 0
               PROVE title # None /\ title.key = k /\ title.seen = changes[k]
    OBVIOUS
  <2>1. EndTitle
    BY TitlesEnd
  <2>2. title # None /\ TitleCurrent(title) /\ title.key = k
    <3>1. TypeOK
      BY DEF WriteInv
    <3> QED
      BY <2>1, <3>1 DEF EndTitle, TypeOK
  <2> QED
    BY <2>2, BindingIs DEF SourceInv, TitleInv, TitleCurrent
<1> QED
  BY <1>1, WriteInvAlways, SourceInvAlways, PTL DEF Spec, NoStaleTitle
==========================================================================
