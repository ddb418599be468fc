---------------------- MODULE SessionLifecycleProofs ----------------------
(***************************************************************************)
(* The proof that Truthful is an inductive invariant of the session        *)
(* lifecycle, and what follows from it: the types, LiveOrPending and       *)
(* NoResurrection.  Then, relative to it, an invariant per property: the   *)
(* index, the view and the growing guards, the caps, the wake-ups of the   *)
(* actor (SleepInv), the row changes (AnnounceInv), the anonymous activity *)
(* (AnonInv), whose activity an entry holds (OwnInv), and the way of an    *)
(* absence and of activity to the registry (AbsentInv, ActiveInv), for     *)
(* every set of keys and every value of the caps.                          *)
(***************************************************************************)
EXTENDS SessionLifecycle, SessionRegistryProofs

\* A sequence over S is one over every set that contains S.
LEMMA SeqMonotone ==
  ASSUME NEW S, NEW T, S \subseteq T, NEW s \in Seq(S)
  PROVE  s \in Seq(T)
  OBVIOUS

\* What a report says stays true when the store commits.
LEMMA ExtendsTrueObs ==
  ASSUME NEW E, NEW R, History(E, R), NEW D, Extends(E, R, D)
  PROVE  TrueObs(E, R) \subseteq TrueObs(E \cup D, R + 1)
<1> SUFFICES ASSUME NEW o \in TrueObs(E, R) PROVE o \in TrueObs(E \cup D, R + 1)
  OBVIOUS
<1>1. o.type = "removed" => Gone(E \cup D, R + 1, o.key, o.incarnation, o.revision)
  BY ExtendsGone DEF TrueObs
<1> QED
  BY <1>1 DEF TrueObs

\* What a spilled removal says stays true when the store commits.
LEMMA ExtendsTrueSpill ==
  ASSUME NEW E, NEW R, History(E, R), NEW D, Extends(E, R, D), NEW s, TrueSpill(s, E, R)
  PROVE  TrueSpill(s, E \cup D, R + 1)
  BY ExtendsGone DEF TrueSpill

\* A snapshot stays the snapshot of its revision when the store commits.
LEMMA ExtendsSnapshot ==
  ASSUME NEW E, NEW R, History(E, R), NEW D, Extends(E, R, D), NEW S, NEW rows,
         NEW q \in Revision, Snapshot(S, rows, q, E, R)
  PROVE  Snapshot(S, rows, q, E \cup D, R + 1)
<1>1. R \in Nat /\ q <= R /\ q <= R + 1
  BY DEF History, Revision, Snapshot
<1>2. \A x \in D : x[3] # q
  BY <1>1 DEF Extends, Revision
<1> QED
  BY <1>1, <1>2 DEF Snapshot

----------------------------------------------------------------------------
\* A commit keeps the incarnation of a row or gives it the next one: the
\* history is extended, and ends with the rows of the store.
LEMMA CommitStore ==
  ASSUME StoreTypeOK, StoreInv, Commit, row' \in [Keys -> Presence \cup {None}],
         incSeq' \in Incarnation, incSeq <= incSeq',
         \A k \in Keys : row'[k] # None =>
            \/ row[k] # None /\ row'[k].incarnation = row[k].incarnation
            \/ row'[k].incarnation = incSeq + 1 /\ incSeq' = incSeq + 1
  PROVE  \E D : /\ existed' = existed \cup D /\ rev' = rev + 1
                /\ Extends(existed, rev, D) /\ StoreInv'
                /\ \A x \in D : row'[x[1]] # None
<1> DEFINE D == {<<k, row'[k].incarnation, rev + 1>> : k \in Stored'}
<1>1. existed' = existed \cup D /\ rev' = rev + 1
  BY DEF Commit
<1>2. /\ rev \in Nat /\ incSeq \in Nat /\ incSeq' \in Nat
      /\ History(existed, rev)
      /\ \A x \in existed : x[1] \in Keys /\ x[2] \in Nat /\ x[3] \in Nat /\ x[3] <= rev
      /\ \A x \in existed : x[2] <= incSeq
  BY DEF StoreTypeOK, StoreInv, History, Revision, Incarnation
<1>3. Stored' = {k \in Keys : row'[k] # None}
  BY DEF Stored
<1>4. ASSUME NEW x \in D
      PROVE  /\ x[1] \in Keys /\ row'[x[1]] # None /\ x[2] = row'[x[1]].incarnation
             /\ x[3] = rev + 1 /\ x = <<x[1], x[2], rev + 1>> /\ x[2] \in Incarnation
  <2>1. PICK k \in Stored' : x = <<k, row'[k].incarnation, rev + 1>>
    OBVIOUS
  <2>2. k \in Keys /\ row'[k] \in Presence
    BY <1>3
  <2> QED BY <1>3, <2>1, <2>2 DEF Presence
<1>5. \A k \in Keys : row'[k] # None => <<k, row'[k].incarnation, rev + 1>> \in D
  BY <1>3
<1> HIDE DEF D
<1>6. D \subseteq Keys \X Incarnation \X {rev + 1}
  BY <1>4
<1>7. \A x, y \in D : x[1] = y[1] => x[2] = y[2]
  BY <1>4
<1>8. ASSUME NEW x \in D
      PROVE  \/ <<x[1], x[2], rev>> \in existed
             \/ \A y \in existed : y[1] = x[1] => y[2] < x[2]
  <2>1. CASE row[x[1]] # None /\ row'[x[1]].incarnation = row[x[1]].incarnation
    BY <1>4, <2>1 DEF StoreInv
  <2>2. CASE row'[x[1]].incarnation = incSeq + 1
    BY <1>2, <1>4, <2>2
  <2> QED BY <1>4, <2>1, <2>2
<1>9. Extends(existed, rev, D)
  BY <1>6, <1>7, <1>8 DEF Extends
<1>10. History(existed', rev')
  BY <1>1, <1>2, <1>9, ExtendsHistory
<1>11. ASSUME NEW x \in existed'
       PROVE  /\ x[2] <= incSeq'
              /\ x[3] = rev' => row'[x[1]] # None /\ row'[x[1]].incarnation = x[2]
  <2>1. CASE x \in existed
    BY <1>1, <1>2, <2>1
  <2>2. CASE x \in D
    <3>1. x[2] <= incSeq'
      <4>1. CASE row[x[1]] # None /\ row'[x[1]].incarnation = row[x[1]].incarnation
        <5>1. <<x[1], x[2], rev>> \in existed
          BY <1>4, <2>2, <4>1 DEF StoreInv
        <5>2. x[2] <= incSeq /\ x[2] \in Nat
          BY <1>2, <5>1
        <5> QED BY <1>2, <5>2
      <4>2. CASE row'[x[1]].incarnation = incSeq + 1 /\ incSeq' = incSeq + 1
        BY <1>2, <1>4, <2>2, <4>2
      <4> QED BY <1>4, <2>2, <4>1, <4>2
    <3> QED BY <1>4, <2>2, <3>1
  <2> QED BY <1>1, <2>1, <2>2
<1>12. StoreInv'
  BY <1>1, <1>5, <1>10, <1>11 DEF StoreInv
<1> QED
  BY <1>1, <1>4, <1>9, <1>12

\* The part of the invariant that is not about the store's own producers.
ActorInv ==
    /\ carry \in Seq(TrueObs(existed, rev)) /\ inbox \in Seq(TrueObs(existed, rev))
    /\ TrueSpill(spill, existed, rev) /\ TrueSpill(taken, existed, rev)
    /\ ReadInv /\ RegistryInv(reg, existed, rev)

\* A commit leaves the reports, the pages under way and the registry true.
LEMMA CommitActor ==
  ASSUME Truthful, NEW D, existed' = existed \cup D, rev' = rev + 1, Extends(existed, rev, D),
         UNCHANGED <<channelVars, actorVars>>
  PROVE  /\ TrueObs(existed, rev) \subseteq TrueObs(existed', rev')
         /\ ActorInv'
<1>1. History(existed, rev)
  BY DEF Truthful, StoreInv
<1>2. TrueObs(existed, rev) \subseteq TrueObs(existed', rev')
  BY <1>1, ExtendsTrueObs
<1>3. TrueSpill(spill, existed', rev') /\ TrueSpill(taken, existed', rev')
  BY <1>1, ExtendsTrueSpill DEF Truthful, ReportInv
<1>4. RegistryInv(reg, existed', rev')
  BY <1>1, ExtendsInv DEF Truthful
<1>5. ASSUME inFlight # None, inFlight.status = "ok"
      PROVE  /\ Snapshot(inFlight.request.keys, inFlight.rows, inFlight.revision, existed', rev')
             /\ RowsTrue(inFlight.active, existed', inFlight.revision)
  <2>1. inFlight.revision \in Revision
    BY <1>5 DEF Truthful, ActorTypeOK, PageOutcome
  <2>2. /\ Snapshot(inFlight.request.keys, inFlight.rows, inFlight.revision, existed, rev)
        /\ RowsTrue(inFlight.active, existed, inFlight.revision)
    BY <1>5 DEF Truthful, ReadInv
  <2>3. Snapshot(inFlight.request.keys, inFlight.rows, inFlight.revision, existed', rev')
    BY <1>1, <2>1, <2>2, ExtendsSnapshot
  <2> QED BY <2>2, <2>3 DEF RowsTrue
<1>6. ASSUME page # None PROVE Snapshot(page.rest, page.rows, page.revision, existed', rev')
  <2>1. page.revision \in Revision
    BY <1>6 DEF Truthful, ActorTypeOK, PageInHand
  <2>2. Snapshot(page.rest, page.rows, page.revision, existed, rev)
    BY <1>6 DEF Truthful, ReadInv
  <2> QED BY <1>1, <2>1, <2>2, ExtendsSnapshot
<1>7. /\ carry' = carry /\ inbox' = inbox /\ spill' = spill /\ taken' = taken /\ reg' = reg
      /\ inFlight' = inFlight /\ page' = page /\ pc' = pc
  BY DEF channelVars, actorVars
<1>8. ReadInv'
  BY <1>5, <1>6, <1>7 DEF Truthful, ReadInv
<1>9. carry \in Seq(TrueObs(existed', rev')) /\ inbox \in Seq(TrueObs(existed', rev'))
  <2>1. carry \in Seq(TrueObs(existed, rev)) /\ inbox \in Seq(TrueObs(existed, rev))
    BY DEF Truthful, ReportInv
  <2> QED BY <1>2, <2>1, SeqMonotone
<1> QED
  BY <1>2, <1>3, <1>4, <1>7, <1>8, <1>9 DEF ActorInv

\* What a commit establishes for the producers: older reports stay true, and
\* so is the removal of a row that the commit deletes.
LEMMA CommitFacts ==
  ASSUME Truthful, Commit, row' \in [Keys -> Presence \cup {None}],
         incSeq' \in Incarnation, incSeq <= incSeq',
         \A k \in Keys : row'[k] # None =>
            \/ row[k] # None /\ row'[k].incarnation = row[k].incarnation
            \/ row'[k].incarnation = incSeq + 1 /\ incSeq' = incSeq + 1,
         UNCHANGED <<channelVars, actorVars>>
  PROVE  /\ StoreInv' /\ ActorInv' /\ rev' \in Revision
         /\ existed' \subseteq Keys \X Incarnation \X Revision
         /\ TrueObs(existed, rev) \subseteq TrueObs(existed', rev')
         /\ \A k \in Keys : row[k] # None /\ row'[k] = None =>
               Gone(existed', rev', k, row[k].incarnation, rev')
<1>1. PICK D : /\ existed' = existed \cup D /\ rev' = rev + 1
               /\ Extends(existed, rev, D) /\ StoreInv'
               /\ \A x \in D : row'[x[1]] # None
  BY CommitStore DEF Truthful
<1>2. TrueObs(existed, rev) \subseteq TrueObs(existed', rev') /\ ActorInv'
  BY <1>1, CommitActor
<1>3. /\ rev \in Nat /\ rev' \in Revision
      /\ \A x \in existed : x[3] \in Nat /\ x[3] <= rev
      /\ existed' \subseteq Keys \X Incarnation \X Revision
  BY <1>1 DEF Truthful, StoreInv, History, Revision
<1>4. ASSUME NEW k \in Keys, row[k] # None, row'[k] = None
      PROVE  Gone(existed', rev', k, row[k].incarnation, rev')
  <2> DEFINE i == row[k].incarnation
             z == <<k, i, rev>>
  <2>1. i \in Incarnation
    BY <1>4 DEF Truthful, StoreTypeOK, Presence
  <2>2. z \in existed' /\ z[1] = k /\ z[2] >= i
    BY <1>1, <1>4, <2>1 DEF Truthful, StoreInv, Incarnation
  <2>3. ASSUME NEW x \in existed', x[1] = k, x[3] >= rev' PROVE FALSE
    <3>1. x \notin D
      BY <1>1, <1>4, <2>3
    <3> QED BY <1>1, <1>3, <2>3, <3>1
  <2>4. rev' \in 0..rev'
    BY <1>1, <1>3
  <2> HIDE DEF i, z
  <2>5. Gone(existed', rev', k, i, rev')
    BY <2>1, <2>2, <2>3, <2>4 DEF Gone
  <2> QED BY <2>5 DEF i
<1> QED
  BY <1>1, <1>2, <1>3, <1>4

\* The invariant after a step of a producer.
LEMMA ProducerStep ==
  ASSUME Truthful, StoreInv', ActorInv', rev' \in Revision, incSeq' \in Incarnation, now' \in Nat,
         row' \in [Keys -> Presence \cup {None}],
         existed' \subseteq Keys \X Incarnation \X Revision,
         heard' \in [Keys -> Time], reached' \in [Keys -> Time], stale' \subseteq Keys,
         scanQ' \in Seq(TrueObs(existed', rev')), cmdQ' \subseteq TrueObs(existed', rev'),
         cmdQ' \subseteq SyncObservation,
         ledger' \in [next : Nat, outstanding : [Agents -> Nat], captured : [Agents -> Nat],
                      at : [Agents -> Time]],
         touches' \in Nat, UNCHANGED <<channelVars, actorVars, failures>>
  PROVE  Truthful'
<1>1. StoreTypeOK'
  BY DEF StoreTypeOK
<1>2. TrueObs(existed', rev') \subseteq Observation
  BY DEF TrueObs
<1>3. scanQ' \in Seq(Observation)
  BY <1>2, SeqMonotone
<1>4. /\ inbox' = inbox /\ spill' = spill /\ spillWake' = spillWake
      /\ reg' = reg /\ pc' = pc /\ roundNow' = roundNow /\ budget' = budget
      /\ carry' = carry /\ blocked' = blocked /\ inFlight' = inFlight /\ backoff' = backoff
      /\ page' = page /\ taken' = taken /\ failures' = failures
  BY DEF channelVars, actorVars
<1>5. ChannelTypeOK'
  BY <1>3, <1>4 DEF Truthful, ChannelTypeOK
<1>6. ActorTypeOK'
  BY <1>4 DEF Truthful, ActorTypeOK
<1>7. ReportInv' /\ ReadInv' /\ RegistryInv(reg', existed', rev')
  BY DEF ReportInv, ActorInv
<1> QED
  BY <1>1, <1>5, <1>6, <1>7 DEF Truthful

----------------------------------------------------------------------------
\* A report of one true observation, as the scan path makes it.
LEMMA OneReport ==
  ASSUME NEW T, NEW o \in T
  PROVE  <<o>> \in Seq(T) /\ <<>> \in Seq(T)
  OBVIOUS

\* The larger of two numbers is one of them.
LEMMA Max2Time ==
  ASSUME NEW a \in Time, NEW b \in Time
  PROVE  Max2(a, b) \in Time
  BY DEF Max2

\* A scan stores or updates a row and reports what it stored.
LEMMA ScanUpsertInv ==
  ASSUME Truthful, NEW k \in Keys, NEW at \in Epochs, ScanUpsert(k, at)
  PROVE  Truthful'
<1>1. PICK epoch \in Epochs : Upsert(k, at, epoch)
  BY DEF ScanUpsert
<1> DEFINE i == IF row[k] = None THEN incSeq + 1 ELSE row[k].incarnation
           o == Exists(k, row'[k].incarnation, at, rev')
<1>2. /\ at \in Time /\ epoch \in Time /\ incSeq \in Nat /\ now \in Nat
      /\ row \in [Keys -> Presence \cup {None}] /\ heard \in [Keys -> Time]
      /\ reached \in [Keys -> Time] /\ stale \subseteq Keys
  BY <1>1, BoundAssumption DEF Truthful, StoreTypeOK, Time, Incarnation
<1>3. i \in Incarnation
  BY <1>2 DEF Incarnation, Presence
<1>4. row' = [row EXCEPT ![k] = [incarnation |-> i, epoch |-> epoch]]
  BY <1>1 DEF Upsert
<1>5. [incarnation |-> i, epoch |-> epoch] \in Presence
  BY <1>2, <1>3 DEF Presence
<1>6. row' \in [Keys -> Presence \cup {None}]
  BY <1>2, <1>4, <1>5
<1>7. row'[k].incarnation = i /\ row'[k] # None /\ \A j \in Keys : j # k => row'[j] = row[j]
  BY <1>2, <1>4, <1>5, NoneAssumption
<1>8. /\ incSeq' = IF row[k] = None THEN incSeq + 1 ELSE incSeq
      /\ Commit /\ now' = now
  BY <1>1 DEF Upsert
<1>9. incSeq' \in Incarnation /\ incSeq <= incSeq'
  BY <1>2, <1>8 DEF Incarnation
<1>10. \A j \in Keys : row'[j] # None =>
            \/ row[j] # None /\ row'[j].incarnation = row[j].incarnation
            \/ row'[j].incarnation = incSeq + 1 /\ incSeq' = incSeq + 1
  BY <1>7, <1>8
<1>11. /\ UNCHANGED <<channelVars, actorVars, boundVars>>
       /\ cmdQ' = cmdQ /\ ledger' = ledger /\ stale' = stale
       /\ scanQ' = IF OutOfWindow(at, now) THEN <<>> ELSE <<o>>
  BY DEF ScanUpsert
<1>12. /\ StoreInv' /\ ActorInv' /\ rev' \in Revision
       /\ existed' \subseteq Keys \X Incarnation \X Revision
       /\ TrueObs(existed, rev) \subseteq TrueObs(existed', rev')
  BY <1>6, <1>8, <1>9, <1>10, <1>11, CommitFacts
<1>13. o \in TrueObs(existed', rev')
  <2>1. <<k, i, rev'>> \in existed'
    BY <1>7, <1>12 DEF StoreInv
  <2> HIDE DEF i
  <2>2. o = [type |-> "exists", key |-> k, incarnation |-> i, at |-> at, revision |-> rev']
    BY <1>7 DEF Exists
  <2> HIDE DEF o
  <2>3. o \in ExistsObs
    BY <1>2, <1>3, <1>12, <2>2 DEF ExistsObs
  <2> QED BY <2>1, <2>2, <2>3 DEF TrueObs, Observation
<1> HIDE DEF o
<1>14. scanQ' \in Seq(TrueObs(existed', rev'))
  BY <1>11, <1>13, OneReport
<1>15. cmdQ' \subseteq TrueObs(existed', rev') /\ cmdQ' \subseteq SyncObservation
  BY <1>11, <1>12 DEF Truthful, ReportInv, ChannelTypeOK
<1>16. heard' \in [Keys -> Time] /\ reached' \in [Keys -> Time]
  <2> DEFINE h == IF row[k] = None THEN at
                  ELSE IF OutOfWindow(at, now) THEN heard[k] ELSE Max2(heard[k], at)
             c == IF row[k] = None THEN at ELSE Max2(reached[k], at)
  <2>1. heard' = [heard EXCEPT ![k] = h] /\ reached' = [reached EXCEPT ![k] = c]
    BY <1>1 DEF Upsert
  <2>2. h \in Time /\ c \in Time
    <3>1. heard[k] \in Time /\ reached[k] \in Time
      BY <1>2
    <3> QED BY <1>2, <3>1, Max2Time
  <2> HIDE DEF h, c
  <2> QED BY <1>2, <2>1, <2>2
<1>17. touches' \in Nat /\ failures' = failures /\ ledger' \in [next : Nat,
          outstanding : [Agents -> Nat], captured : [Agents -> Nat], at : [Agents -> Time]]
  BY <1>11 DEF boundVars, Truthful, ActorTypeOK, ChannelTypeOK
<1>18. now' \in Nat /\ stale' \subseteq Keys
  BY <1>2, <1>8, <1>11
<1> QED
  BY <1>6, <1>9, <1>11, <1>12, <1>14, <1>15, <1>16, <1>17, <1>18, ProducerStep

\* The rows of S are deleted: the facts of the commit.
LEMMA DeleteFacts ==
  ASSUME Truthful, NEW S, Delete(S), UNCHANGED <<channelVars, actorVars>>
  PROVE  /\ StoreInv' /\ ActorInv' /\ rev' \in Revision
         /\ existed' \subseteq Keys \X Incarnation \X Revision
         /\ TrueObs(existed, rev) \subseteq TrueObs(existed', rev')
         /\ row' \in [Keys -> Presence \cup {None}] /\ incSeq' \in Incarnation /\ now' \in Nat
         /\ heard' \in [Keys -> Time] /\ reached' \in [Keys -> Time]
         /\ \A k \in Keys \cap S : row[k] # None =>
               Removed(k, row[k].incarnation, rev') \in TrueObs(existed', rev') \cap RemovedObs
<1>1. /\ incSeq \in Nat /\ now \in Nat /\ row \in [Keys -> Presence \cup {None}]
      /\ heard \in [Keys -> Time] /\ reached \in [Keys -> Time]
  BY DEF Truthful, StoreTypeOK, Incarnation
<1>2. /\ row' = [k \in Keys |-> IF k \in S THEN None ELSE row[k]] /\ Commit
      /\ incSeq' = incSeq /\ now' = now /\ heard' = heard /\ reached' = reached
  BY DEF Delete
<1>3. row' \in [Keys -> Presence \cup {None}] /\ \A k \in Keys : row'[k] \in {None, row[k]}
  BY <1>1, <1>2
<1>4. \A k \in Keys \cap S : row'[k] = None
  BY <1>2
<1>5. incSeq' \in Incarnation /\ incSeq <= incSeq'
  BY <1>1, <1>2 DEF Incarnation
<1>6. /\ StoreInv' /\ ActorInv' /\ rev' \in Revision
      /\ existed' \subseteq Keys \X Incarnation \X Revision
      /\ TrueObs(existed, rev) \subseteq TrueObs(existed', rev')
      /\ \A k \in Keys : row[k] # None /\ row'[k] = None =>
            Gone(existed', rev', k, row[k].incarnation, rev')
  BY <1>2, <1>3, <1>5, CommitFacts
<1>7. ASSUME NEW k \in Keys \cap S, row[k] # None
      PROVE  Removed(k, row[k].incarnation, rev') \in TrueObs(existed', rev') \cap RemovedObs
  <2> DEFINE i == row[k].incarnation
             o == Removed(k, i, rev')
  <2>1. i \in Incarnation
    BY <1>1, <1>7 DEF Presence
  <2>2. Gone(existed', rev', k, i, rev')
    BY <1>4, <1>6, <1>7
  <2> HIDE DEF i
  <2>3. o = [type |-> "removed", key |-> k, incarnation |-> i, revision |-> rev']
    BY DEF Removed
  <2> HIDE DEF o
  <2>4. o \in RemovedObs
    BY <1>6, <2>1, <2>3 DEF RemovedObs
  <2>5. o \in TrueObs(existed', rev')
    BY <2>2, <2>3, <2>4 DEF TrueObs, Observation, SyncObservation
  <2> QED BY <2>4, <2>5 DEF o, i
<1> QED
  BY <1>1, <1>2, <1>3, <1>5, <1>6, <1>7

\* The producer state that a step leaves alone keeps its type.
LEMMA ProducerTypes ==
  ASSUME Truthful
  PROVE  /\ touches \in Nat /\ stale \subseteq Keys
         /\ ledger \in [next : Nat, outstanding : [Agents -> Nat], captured : [Agents -> Nat],
                        at : [Agents -> Time]]
         /\ cmdQ \subseteq SyncObservation /\ cmdQ \subseteq TrueObs(existed, rev)
         /\ scanQ \in Seq(TrueObs(existed, rev))
  BY DEF Truthful, StoreTypeOK, ChannelTypeOK, ActorTypeOK, ReportInv

\* A scan deletes a rejected row and reports its removal.
LEMMA ScanRejectInv ==
  ASSUME Truthful, NEW k \in Keys, ScanReject(k)
  PROVE  Truthful'
<1> DEFINE o == Removed(k, row[k].incarnation, rev')
<1>1. /\ Delete({k}) /\ row[k] # None /\ scanQ' = <<o>>
      /\ UNCHANGED <<channelVars, actorVars, boundVars>>
      /\ cmdQ' = cmdQ /\ ledger' = ledger /\ stale' = stale
  BY DEF ScanReject
<1>2. /\ StoreInv' /\ ActorInv' /\ rev' \in Revision
      /\ existed' \subseteq Keys \X Incarnation \X Revision
      /\ TrueObs(existed, rev) \subseteq TrueObs(existed', rev')
      /\ row' \in [Keys -> Presence \cup {None}] /\ incSeq' \in Incarnation /\ now' \in Nat
      /\ heard' \in [Keys -> Time] /\ reached' \in [Keys -> Time]
      /\ o \in TrueObs(existed', rev')
  BY <1>1, DeleteFacts
<1> HIDE DEF o
<1>3. scanQ' \in Seq(TrueObs(existed', rev'))
  BY <1>1, <1>2, OneReport
<1>4. /\ cmdQ' \subseteq TrueObs(existed', rev') /\ cmdQ' \subseteq SyncObservation
      /\ touches' \in Nat /\ failures' = failures /\ stale' \subseteq Keys
      /\ ledger' \in [next : Nat, outstanding : [Agents -> Nat], captured : [Agents -> Nat],
                      at : [Agents -> Time]]
  BY <1>1, <1>2, ProducerTypes DEF boundVars
<1> QED
  BY <1>1, <1>2, <1>3, <1>4, ProducerStep

\* A command deletes rows of S; the report o it will make is true.
LEMMA CommandInv ==
  ASSUME Truthful, NEW S, Delete(S), UNCHANGED <<channelVars, actorVars, boundVars>>,
         scanQ' = scanQ, ledger' = ledger, stale' = stale, NEW o, cmdQ' = cmdQ \cup {o},
         o \in SyncObservation, o \in TrueObs(existed', rev')
  PROVE  Truthful'
<1>2. /\ StoreInv' /\ ActorInv' /\ rev' \in Revision
      /\ existed' \subseteq Keys \X Incarnation \X Revision
      /\ TrueObs(existed, rev) \subseteq TrueObs(existed', rev')
      /\ row' \in [Keys -> Presence \cup {None}] /\ incSeq' \in Incarnation /\ now' \in Nat
      /\ heard' \in [Keys -> Time] /\ reached' \in [Keys -> Time]
  BY DeleteFacts
<1>3. scanQ' \in Seq(TrueObs(existed', rev'))
  BY <1>2, ProducerTypes, SeqMonotone
<1>4. /\ cmdQ' \subseteq TrueObs(existed', rev') /\ cmdQ' \subseteq SyncObservation
      /\ touches' \in Nat /\ failures' = failures /\ stale' \subseteq Keys
      /\ ledger' \in [next : Nat, outstanding : [Agents -> Nat], captured : [Agents -> Nat],
                      at : [Agents -> Time]]
  BY <1>2, ProducerTypes DEF boundVars
<1> QED
  BY <1>2, <1>3, <1>4, ProducerStep

\* A command deletes one session.
LEMMA CommandDeleteInv ==
  ASSUME Truthful, NEW k \in Keys, CommandDelete(k)
  PROVE  Truthful'
<1> DEFINE o == Removed(k, row[k].incarnation, rev')
<1>1. /\ Delete({k}) /\ row[k] # None /\ cmdQ' = cmdQ \cup {o}
      /\ UNCHANGED <<channelVars, actorVars, boundVars>>
      /\ scanQ' = scanQ /\ ledger' = ledger /\ stale' = stale
  BY DEF CommandDelete
<1>2. o \in TrueObs(existed', rev') /\ o \in RemovedObs
  BY <1>1, DeleteFacts
<1>3. o \in SyncObservation
  BY <1>2 DEF SyncObservation
<1> HIDE DEF o
<1> QED
  BY <1>1, <1>2, <1>3, CommandInv

\* A command deletes many sessions and reports a broad removal.
LEMMA CommandBroadInv ==
  ASSUME Truthful, NEW S, CommandBroad(S)
  PROVE  Truthful'
<1> DEFINE o == BroadRemoval(rev')
<1>1. /\ Delete(S) /\ cmdQ' = cmdQ \cup {o}
      /\ UNCHANGED <<channelVars, actorVars, boundVars>>
      /\ scanQ' = scanQ /\ ledger' = ledger /\ stale' = stale
  BY DEF CommandBroad
<1>2. rev' \in Revision
  BY <1>1, DeleteFacts
<1>3. o \in BroadObs /\ o.type = "broad"
  BY <1>2 DEF BroadRemoval, BroadObs
<1> HIDE DEF o
<1>4. o \in SyncObservation /\ o \in TrueObs(existed', rev')
  BY <1>3 DEF SyncObservation, TrueObs, Observation
<1> QED
  BY <1>1, <1>4, CommandInv

\* A published analysis changes the row and neither its identity nor its activity.
LEMMA AnalysisPublishInv ==
  ASSUME Truthful, NEW k \in Keys, AnalysisPublish(k)
  PROVE  Truthful'
<1> DEFINE o == RowChanged(k)
<1>1. /\ Commit /\ row' = row /\ incSeq' = incSeq /\ now' = now /\ heard' = heard
      /\ reached' = reached /\ UNCHANGED <<channelVars, actorVars, boundVars>>
      /\ scanQ' = scanQ /\ ledger' = ledger /\ stale' = stale \cup {k} /\ cmdQ' = cmdQ \cup {o}
  BY DEF AnalysisPublish
<1>2. /\ row' \in [Keys -> Presence \cup {None}] /\ incSeq' \in Incarnation /\ incSeq <= incSeq'
      /\ now' \in Nat /\ heard' \in [Keys -> Time] /\ reached' \in [Keys -> Time]
  BY <1>1 DEF Truthful, StoreTypeOK, Incarnation
<1>3. /\ StoreInv' /\ ActorInv' /\ rev' \in Revision
      /\ existed' \subseteq Keys \X Incarnation \X Revision
      /\ TrueObs(existed, rev) \subseteq TrueObs(existed', rev')
  BY <1>1, <1>2, CommitFacts
<1>4. o \in RowObs /\ o.type = "rowChanged"
  BY DEF RowChanged, RowObs
<1> HIDE DEF o
<1>5. o \in SyncObservation /\ o \in TrueObs(existed', rev')
  BY <1>4 DEF SyncObservation, TrueObs, Observation
<1>6. scanQ' \in Seq(TrueObs(existed', rev'))
  BY <1>1, <1>3, ProducerTypes, SeqMonotone
<1>7. /\ cmdQ' \subseteq TrueObs(existed', rev') /\ cmdQ' \subseteq SyncObservation
      /\ touches' \in Nat /\ failures' = failures /\ stale' \subseteq Keys
      /\ ledger' \in [next : Nat, outstanding : [Agents -> Nat], captured : [Agents -> Nat],
                      at : [Agents -> Time]]
  BY <1>1, <1>3, <1>5, ProducerTypes DEF boundVars
<1> QED
  BY <1>1, <1>2, <1>3, <1>6, <1>7, ProducerStep

----------------------------------------------------------------------------
\* A step that commits nothing: the store and its history stay as they are.
LEMMA StoreFrame ==
  ASSUME Truthful, UNCHANGED <<row, rev, incSeq, existed>>
  PROVE  /\ StoreInv' /\ rev' = rev /\ existed' = existed /\ rev' \in Revision
         /\ incSeq' \in Incarnation /\ row' \in [Keys -> Presence \cup {None}]
         /\ existed' \subseteq Keys \X Incarnation \X Revision
  BY DEF Truthful, StoreTypeOK, StoreInv

\* The actor's part of the invariant when the actor does not move.
LEMMA ActorFrame ==
  ASSUME Truthful, UNCHANGED <<rev, existed, channelVars, actorVars>>
  PROVE  ActorInv'
  BY DEF Truthful, ReportInv, ReadInv, ActorInv, channelVars, actorVars

\* The hook path reports the activity of a stored row.
LEMMA ScanTouchInv ==
  ASSUME Truthful, NEW k \in Keys, ScanTouch(k)
  PROVE  Truthful'
<1> DEFINE o == Exists(k, row[k].incarnation, now, rev)
<1>1. /\ UNCHANGED <<storeVars, channelVars, actorVars>> /\ row[k] # None
      /\ scanQ' = <<o>> /\ cmdQ' = cmdQ /\ ledger' = ledger /\ stale' = stale
      /\ existed' = existed /\ failures' = failures /\ touches' = touches + 1
      /\ heard' = [heard EXCEPT ![k] = Max2(@, now)]
      /\ reached' = [reached EXCEPT ![k] = Max2(@, now)]
  BY DEF ScanTouch
<1>2. /\ row' = row /\ rev' = rev /\ incSeq' = incSeq /\ now' = now
  BY <1>1 DEF storeVars
<1>3. /\ StoreInv' /\ rev' \in Revision /\ incSeq' \in Incarnation
      /\ row' \in [Keys -> Presence \cup {None}]
      /\ existed' \subseteq Keys \X Incarnation \X Revision
  BY <1>1, <1>2, StoreFrame
<1>4. ActorInv'
  BY <1>1, <1>2, ActorFrame
<1>5. /\ now \in Nat /\ now \in Time /\ heard \in [Keys -> Time] /\ reached \in [Keys -> Time]
      /\ row[k] \in Presence
  BY <1>1 DEF Truthful, StoreTypeOK, Time
<1>6. o \in TrueObs(existed', rev')
  <2> DEFINE i == row[k].incarnation
  <2>1. i \in Incarnation /\ <<k, i, rev>> \in existed
    BY <1>1, <1>5 DEF Truthful, StoreInv, Presence
  <2> HIDE DEF i
  <2>2. o = [type |-> "exists", key |-> k, incarnation |-> i, at |-> now, revision |-> rev]
    BY DEF Exists, i
  <2> HIDE DEF o
  <2>3. o \in ExistsObs
    BY <1>2, <1>3, <1>5, <2>1, <2>2 DEF ExistsObs
  <2> QED BY <1>1, <1>2, <2>1, <2>2, <2>3 DEF TrueObs, Observation
<1> HIDE DEF o
<1>7. heard' \in [Keys -> Time] /\ reached' \in [Keys -> Time]
  <2>1. Max2(heard[k], now) \in Time /\ Max2(reached[k], now) \in Time
    BY <1>5, Max2Time
  <2> QED BY <1>1, <1>5, <2>1
<1>8. scanQ' \in Seq(TrueObs(existed', rev'))
  BY <1>1, <1>6, OneReport
<1>9. /\ cmdQ' \subseteq TrueObs(existed', rev') /\ cmdQ' \subseteq SyncObservation
      /\ touches' \in Nat /\ stale' \subseteq Keys
      /\ ledger' \in [next : Nat, outstanding : [Agents -> Nat], captured : [Agents -> Nat],
                      at : [Agents -> Time]]
  BY <1>1, <1>2, ProducerTypes
<1> QED
  BY <1>1, <1>2, <1>3, <1>4, <1>5, <1>7, <1>8, <1>9, ProducerStep

\* AnonymousLedger
Ledger == [next : Nat, outstanding : [Agents -> Nat], captured : [Agents -> Nat],
           at : [Agents -> Time]]

\* A step of the scan path on its ledger and its reports alone.
LEMMA LedgerStep ==
  ASSUME Truthful, UNCHANGED <<storeVars, cmdQ, channelVars, actorVars, boundVars, historyVars>>,
         ledger' \in Ledger, scanQ' \in Seq(TrueObs(existed, rev))
  PROVE  Truthful'
<1>1. /\ row' = row /\ rev' = rev /\ incSeq' = incSeq /\ now' = now /\ existed' = existed
      /\ heard' = heard /\ reached' = reached /\ stale' = stale /\ cmdQ' = cmdQ
      /\ touches' = touches /\ failures' = failures /\ UNCHANGED <<channelVars, actorVars>>
  BY DEF storeVars, historyVars, boundVars
<1>2. /\ StoreInv' /\ rev' \in Revision /\ incSeq' \in Incarnation
      /\ row' \in [Keys -> Presence \cup {None}]
      /\ existed' \subseteq Keys \X Incarnation \X Revision
  BY <1>1, StoreFrame
<1>3. ActorInv'
  BY <1>1, ActorFrame
<1>4. now' \in Nat /\ heard' \in [Keys -> Time] /\ reached' \in [Keys -> Time]
  BY <1>1 DEF Truthful, StoreTypeOK
<1>5. /\ cmdQ' \subseteq TrueObs(existed', rev') /\ cmdQ' \subseteq SyncObservation
      /\ touches' \in Nat /\ stale' \subseteq Keys
  BY <1>1, ProducerTypes
<1>6. scanQ' \in Seq(TrueObs(existed', rev'))
  BY <1>1
<1>7. ledger' \in [next : Nat, outstanding : [Agents -> Nat], captured : [Agents -> Nat],
                   at : [Agents -> Time]]
  BY DEF Ledger
<1> QED
  BY <1>1, <1>2, <1>3, <1>4, <1>5, <1>6, <1>7, ProducerStep

\* An anonymous touch takes the next generation.
LEMMA ScanAnonymousInv ==
  ASSUME Truthful, NEW a \in Agents, ScanAnonymous(a)
  PROVE  Truthful'
<1> DEFINE g == ledger.next + 1
           o == Anonymous(a, now, g)
<1>1. ledger \in Ledger /\ now \in Nat /\ now \in Time
  BY DEF Truthful, ChannelTypeOK, StoreTypeOK, Ledger, Time
<1>2. g \in Nat
  BY <1>1 DEF Ledger
<1>3. /\ UNCHANGED <<storeVars, cmdQ, channelVars, actorVars, boundVars, historyVars>>
      /\ ledger' = [ledger EXCEPT !.next = g, !.outstanding[a] = g, !.at[a] = now]
      /\ scanQ' = <<o>>
  BY DEF ScanAnonymous
<1> HIDE DEF g
<1>4. ledger' \in Ledger
  BY <1>1, <1>2, <1>3 DEF Ledger
<1>5. o = [type |-> "anonymous", agent |-> a, at |-> now, generation |-> g]
  BY DEF Anonymous
<1> HIDE DEF o
<1>6. o \in AnonymousObs
  BY <1>1, <1>2, <1>5 DEF AnonymousObs
<1>7. o \in TrueObs(existed, rev)
  BY <1>5, <1>6 DEF TrueObs, Observation
<1>8. scanQ' \in Seq(TrueObs(existed, rev))
  BY <1>3, <1>7, OneReport
<1> QED
  BY <1>3, <1>4, <1>8, LedgerStep

\* A pass captures the outstanding generation.
LEMMA PassStartInv ==
  ASSUME Truthful, NEW a \in Agents, PassStart(a)
  PROVE  Truthful'
<1>1. ledger \in Ledger
  BY DEF Truthful, ChannelTypeOK, Ledger
<1>2. /\ UNCHANGED <<storeVars, cmdQ, channelVars, actorVars, boundVars, historyVars>>
      /\ ledger' = [ledger EXCEPT !.captured[a] = ledger.outstanding[a]] /\ scanQ' = scanQ
  BY DEF PassStart
<1>3. ledger' \in Ledger
  BY <1>1, <1>2 DEF Ledger
<1>4. scanQ' \in Seq(TrueObs(existed, rev))
  BY <1>2, ProducerTypes
<1> QED
  BY <1>2, <1>3, <1>4, LedgerStep

\* A successful pass reports the captured generation as covered.
LEMMA PassEndInv ==
  ASSUME Truthful, NEW a \in Agents, NEW success \in BOOLEAN, PassEnd(a, success)
  PROVE  Truthful'
<1> DEFINE g == ledger.captured[a]
           left == IF success /\ ledger.outstanding[a] <= g THEN 0 ELSE ledger.outstanding[a]
           o == Covered(a, g)
<1>1. ledger \in Ledger
  BY DEF Truthful, ChannelTypeOK, Ledger
<1>2. g \in Nat /\ left \in Nat
  BY <1>1 DEF Ledger
<1>3. /\ UNCHANGED <<storeVars, cmdQ, channelVars, actorVars, boundVars, historyVars>>
      /\ ledger' = [ledger EXCEPT !.captured[a] = 0, !.outstanding[a] = left]
      /\ scanQ' = IF success THEN <<o>> ELSE <<>>
  BY DEF PassEnd
<1> HIDE DEF g, left
<1>4. ledger' \in Ledger
  BY <1>1, <1>2, <1>3 DEF Ledger
<1>5. o = [type |-> "covered", agent |-> a, through |-> g]
  BY DEF Covered
<1> HIDE DEF o
<1>6. o \in CoveredObs
  BY <1>2, <1>5 DEF CoveredObs
<1>7. o \in TrueObs(existed, rev)
  BY <1>5, <1>6 DEF TrueObs, Observation
<1>8. scanQ' \in Seq(TrueObs(existed, rev))
  BY <1>3, <1>7, OneReport
<1> QED
  BY <1>3, <1>4, <1>8, LedgerStep

\* The clock moves.
LEMMA TickInv ==
  ASSUME Truthful, Tick
  PROVE  Truthful'
<1>1. /\ row' = row /\ rev' = rev /\ incSeq' = incSeq /\ now' = now + 1
      /\ UNCHANGED <<producerVars, channelVars, actorVars, boundVars, historyVars>>
  BY DEF Tick
<1>2. /\ existed' = existed /\ heard' = heard /\ reached' = reached /\ stale' = stale
      /\ cmdQ' = cmdQ /\ scanQ' = scanQ /\ ledger' = ledger
      /\ touches' = touches /\ failures' = failures
  BY <1>1 DEF historyVars, boundVars, producerVars
<1>3. /\ StoreInv' /\ rev' \in Revision /\ incSeq' \in Incarnation
      /\ row' \in [Keys -> Presence \cup {None}]
      /\ existed' \subseteq Keys \X Incarnation \X Revision
  BY <1>1, <1>2, StoreFrame
<1>4. ActorInv'
  BY <1>1, <1>2, ActorFrame
<1>5. now' \in Nat /\ heard' \in [Keys -> Time] /\ reached' \in [Keys -> Time]
  BY <1>1, <1>2 DEF Truthful, StoreTypeOK
<1>6. /\ cmdQ' \subseteq TrueObs(existed', rev') /\ cmdQ' \subseteq SyncObservation
      /\ touches' \in Nat /\ stale' \subseteq Keys /\ scanQ' \in Seq(TrueObs(existed', rev'))
      /\ ledger' \in [next : Nat, outstanding : [Agents -> Nat], captured : [Agents -> Nat],
                      at : [Agents -> Time]]
  BY <1>1, <1>2, ProducerTypes
<1> QED
  BY <1>1, <1>2, <1>3, <1>4, <1>5, <1>6, ProducerStep

----------------------------------------------------------------------------
\* The invariant after a step that leaves the store alone, from its parts.
LEMMA FrameStep ==
  ASSUME Truthful, UNCHANGED <<storeVars, existed, heard, reached, ledger, touches>>,
         stale' \subseteq Keys, scanQ' \in Seq(TrueObs(existed, rev)), cmdQ' \subseteq cmdQ,
         inbox' \in Seq(TrueObs(existed, rev)), carry' \in Seq(TrueObs(existed, rev)),
         spill' \in Spill, TrueSpill(spill', existed, rev), spillWake' \in BOOLEAN,
         taken' \in Spill, TrueSpill(taken', existed, rev), ActorTypeOK', ReadInv',
         RegistryInv(reg', existed, rev)
  PROVE  Truthful'
<1>1. /\ row' = row /\ rev' = rev /\ incSeq' = incSeq /\ now' = now /\ existed' = existed
      /\ heard' = heard /\ reached' = reached /\ ledger' = ledger
  BY DEF storeVars
<1>2. StoreTypeOK' /\ StoreInv'
  BY <1>1 DEF Truthful, StoreTypeOK, StoreInv
<1>3. TrueObs(existed, rev) \subseteq Observation
  BY DEF TrueObs
<1>4. scanQ' \in Seq(Observation) /\ inbox' \in Seq(Observation)
  BY <1>3, SeqMonotone
<1>5. ChannelTypeOK'
  BY <1>1, <1>4 DEF Truthful, ChannelTypeOK
<1>6. ReportInv'
  BY <1>1, ProducerTypes DEF ReportInv
<1>7. RegistryInv(reg', existed', rev')
  BY <1>1
<1> QED
  BY <1>2, <1>5, <1>6, <1>7 DEF Truthful

\* The parts of the invariant that FrameStep asks for, before the step.
LEMMA TruthfulParts ==
  ASSUME Truthful
  PROVE  /\ stale \subseteq Keys /\ scanQ \in Seq(TrueObs(existed, rev))
         /\ inbox \in Seq(TrueObs(existed, rev)) /\ carry \in Seq(TrueObs(existed, rev))
         /\ spill \in Spill /\ TrueSpill(spill, existed, rev) /\ spillWake \in BOOLEAN
         /\ taken \in Spill /\ TrueSpill(taken, existed, rev)
         /\ RegistryInv(reg, existed, rev) /\ History(existed, rev)
  BY DEF Truthful, StoreTypeOK, StoreInv, ChannelTypeOK, ActorTypeOK, ReportInv

----------------------------------------------------------------------------
\* The scan path sends the report at the head of its queue.
LEMMA ScanSendInv ==
  ASSUME Truthful, ScanSend
  PROVE  Truthful'
<1> DEFINE T == TrueObs(existed, rev)
<1>1. /\ scanQ # <<>> /\ inbox' = Append(inbox, Head(scanQ)) /\ scanQ' = Tail(scanQ)
      /\ UNCHANGED <<storeVars, cmdQ, ledger, spill, spillWake, actorVars, boundVars, historyVars>>
  BY DEF ScanSend
<1>2. /\ existed' = existed /\ heard' = heard /\ reached' = reached /\ stale' = stale
      /\ touches' = touches /\ failures' = failures /\ rev' = rev
      /\ reg' = reg /\ pc' = pc /\ roundNow' = roundNow /\ budget' = budget
      /\ carry' = carry /\ blocked' = blocked /\ inFlight' = inFlight /\ backoff' = backoff
      /\ page' = page /\ taken' = taken
  BY <1>1 DEF historyVars, boundVars, actorVars, storeVars
<1>3. ActorTypeOK' /\ ReadInv'
  BY <1>2 DEF Truthful, ActorTypeOK, ReadInv
<1>4. scanQ \in Seq(T) /\ inbox \in Seq(T)
  BY TruthfulParts
<1> HIDE DEF T
<1>5. Head(scanQ) \in T /\ Tail(scanQ) \in Seq(T)
  BY <1>1, <1>4
<1>6. scanQ' \in Seq(T) /\ inbox' \in Seq(T)
  BY <1>1, <1>4, <1>5
<1> QED
  BY <1>1, <1>2, <1>3, <1>6, TruthfulParts, FrameStep DEF T

\* A sync report that does not fit is folded into the spill: a removal cell
\* joins two true removals of its key.
LEMMA FoldTrue ==
  ASSUME NEW E, NEW R, History(E, R), NEW s \in Spill, TrueSpill(s, E, R),
         NEW o \in SyncObservation, o \in TrueObs(E, R)
  PROVE  Fold(s, o) \in Spill /\ TrueSpill(Fold(s, o), E, R)
<1>1. ASSUME NEW q \in Revision
      PROVE  FoldBroad(s, q) \in Spill /\ TrueSpill(FoldBroad(s, q), E, R)
  <2>1. Require(s.broad, q) \in Revision \cup {None}
    BY DEF Require, Spill
  <2>2. FoldBroad(s, q) = [s EXCEPT !.broad = Require(s.broad, q)]
    BY DEF FoldBroad
  <2>3. FoldBroad(s, q) \in Spill /\ FoldBroad(s, q).removed = s.removed
    BY <2>1, <2>2 DEF Spill
  <2> QED BY <2>3 DEF TrueSpill
<1>2. CASE o.type = "broad"
  <2>1. o.revision \in Revision
    BY <1>2 DEF SyncObservation, RemovedObs, BroadObs, RowObs
  <2> QED BY <1>1, <1>2, <2>1 DEF Fold
<1>3. CASE o.type = "rowChanged"
  <2> DEFINE u == [s EXCEPT !.rows = @ \cup {o.key}]
             v == [s EXCEPT !.invalidated = TRUE]
  <2>1. o.key \in Keys
    BY <1>3 DEF SyncObservation, RemovedObs, BroadObs, RowObs
  <2>2. Fold(s, o) = u \/ Fold(s, o) = v
    BY <1>3, Zenon DEF Fold
  <2>3. u \in Spill /\ u.removed = s.removed /\ v \in Spill /\ v.removed = s.removed
    BY <2>1 DEF Spill
  <2> HIDE DEF u, v
  <2> QED BY <2>2, <2>3 DEF TrueSpill
<1>4. CASE o.type = "removed"
  <2> DEFINE k == o.key
             cell == s.removed[k]
             joined == [incarnation |-> Max2(cell.incarnation, o.incarnation),
                        absent_at |-> Max2(cell.absent_at, o.revision)]
             new == [incarnation |-> o.incarnation, absent_at |-> o.revision]
             put(c) == [s EXCEPT !.removed[k] = c]
  <2>1. k \in Keys /\ o.incarnation \in Incarnation /\ o.revision \in Revision
    BY <1>4 DEF SyncObservation, RemovedObs, BroadObs, RowObs
  <2>2. Gone(E, R, k, o.incarnation, o.revision)
    BY <1>4 DEF TrueObs
  <2>3. ASSUME NEW c \in Deletion, Gone(E, R, k, c.incarnation, c.absent_at)
        PROVE  put(c) \in Spill /\ TrueSpill(put(c), E, R)
    <3>1. put(c) \in Spill
      BY <2>1, <2>3 DEF Spill
    <3>2. put(c).removed[k] = c /\ \A j \in Keys : j # k => put(c).removed[j] = s.removed[j]
      BY <2>1 DEF Spill
    <3> HIDE DEF put
    <3> QED BY <2>3, <3>1, <3>2 DEF TrueSpill
  <2>4. new \in Deletion /\ new.incarnation = o.incarnation /\ new.absent_at = o.revision
    BY <2>1 DEF Deletion
  <2>5. ASSUME cell # None
        PROVE  joined \in Deletion /\ Gone(E, R, k, joined.incarnation, joined.absent_at)
    <3>1. cell \in Deletion
      BY <2>1, <2>5 DEF Spill
    <3>2. Gone(E, R, k, cell.incarnation, cell.absent_at)
      BY <2>1, <2>5 DEF TrueSpill
    <3>3. cell.incarnation \in Incarnation /\ cell.absent_at \in Revision
      BY <3>1 DEF Deletion
    <3>4. Gone(E, R, k, Max2(cell.incarnation, o.incarnation), Max2(cell.absent_at, o.revision))
      BY <2>1, <2>2, <3>2, <3>3, GoneMax
    <3>5. Max2(cell.incarnation, o.incarnation) \in Incarnation
          /\ Max2(cell.absent_at, o.revision) \in Revision
      BY <2>1, <3>3 DEF Max2
    <3> QED BY <3>4, <3>5 DEF Deletion
  <2>6. \/ cell # None /\ Fold(s, o) = put(joined)
        \/ Fold(s, o) = put(new)
        \/ Fold(s, o) = FoldBroad(s, o.revision)
    BY <1>4, Zenon DEF Fold
  <2> HIDE DEF cell, joined, new, put, k
  <2> QED BY <1>1, <2>1, <2>2, <2>3, <2>4, <2>5, <2>6
<1> QED
  BY <1>2, <1>3, <1>4 DEF SyncObservation, RemovedObs, BroadObs, RowObs

\* A command, retention or analysis thread makes its report.
LEMMA ReportStepInv ==
  ASSUME Truthful, NEW o \in cmdQ, Report(o)
  PROVE  Truthful'
<1> DEFINE T == TrueObs(existed, rev)
<1>1. /\ cmdQ' = cmdQ \ {o}
      /\ UNCHANGED <<storeVars, scanQ, ledger, actorVars, boundVars, historyVars>>
      /\ \/ inbox' = Append(inbox, o) /\ spill' = spill /\ spillWake' = spillWake
         \/ inbox' = inbox /\ spill' = Fold(spill, o) /\ spillWake' = TRUE
  BY DEF Report
<1>2. /\ existed' = existed /\ heard' = heard /\ reached' = reached /\ stale' = stale
      /\ touches' = touches /\ failures' = failures /\ rev' = rev
      /\ reg' = reg /\ pc' = pc /\ roundNow' = roundNow /\ budget' = budget
      /\ carry' = carry /\ blocked' = blocked /\ inFlight' = inFlight /\ backoff' = backoff
      /\ page' = page /\ taken' = taken
  BY <1>1 DEF historyVars, boundVars, actorVars, storeVars
<1>3. ActorTypeOK' /\ ReadInv'
  BY <1>2 DEF Truthful, ActorTypeOK, ReadInv
<1>4. o \in T /\ o \in SyncObservation
  BY ProducerTypes
<1>5. Fold(spill, o) \in Spill /\ TrueSpill(Fold(spill, o), existed, rev)
  BY <1>4, TruthfulParts, FoldTrue
<1>6. inbox \in Seq(T) /\ Append(inbox, o) \in Seq(T)
  <2>1. inbox \in Seq(T)
    BY TruthfulParts
  <2> HIDE DEF T
  <2> QED BY <1>4, <2>1
<1>7. /\ inbox' \in Seq(T) /\ spill' \in Spill /\ TrueSpill(spill', existed, rev)
      /\ spillWake' \in BOOLEAN /\ cmdQ' \subseteq cmdQ /\ scanQ' = scanQ
  <2> HIDE DEF T
  <2> QED BY <1>1, <1>5, <1>6, TruthfulParts
<1> QED
  BY <1>1, <1>2, <1>3, <1>7, TruthfulParts, FrameStep

----------------------------------------------------------------------------
\* A step of the reads or of the actor that touches no report.
LEMMA QuietStep ==
  ASSUME Truthful, UNCHANGED <<storeVars, producerVars, inbox, spill, touches, historyVars>>,
         UNCHANGED <<carry, taken>>, spillWake' \in BOOLEAN, ActorTypeOK', ReadInv',
         RegistryInv(reg', existed, rev)
  PROVE  Truthful'
<1>1. /\ existed' = existed /\ heard' = heard /\ reached' = reached /\ stale' = stale
      /\ scanQ' = scanQ /\ cmdQ' = cmdQ /\ ledger' = ledger
      /\ inbox' = inbox /\ spill' = spill
  BY DEF historyVars, producerVars
<1> QED
  BY <1>1, TruthfulParts, FrameStep

\* The rows of a page of active sessions are rows of the store.
LEMMA ActivePagesTrue ==
  ASSUME Truthful, NEW recovery, NEW active \in ActivePages(recovery)
  PROVE  /\ active \in Seq(ActiveRow) /\ RowsTrue(active, existed, rev)
         /\ \A n \in DOMAIN active : LET k == active[n].key IN
              /\ k \in Keys /\ row[k] # None /\ row[k].incarnation = active[n].incarnation
              /\ row[k].epoch = active[n].epoch
<1> DEFINE S == {k \in Stored : row[k].epoch >= recovery.since /\ AfterCursor(k, recovery.cursor)}
           size == IF Cardinality(S) < PageSize THEN Cardinality(S) ELSE PageSize
<1>1. PICK p \in [1..size -> S] :
        active = [n \in 1..size |-> [key |-> p[n], incarnation |-> row[p[n]].incarnation,
                                     epoch |-> row[p[n]].epoch]]
  BY DEF ActivePages
<1>2. S \subseteq Stored /\ Stored \subseteq Keys
  BY DEF Stored
<1>3. size \in Nat
  <2>1. IsFiniteSet(S)
    BY <1>2, KeysAssumption, FS_Subset
  <2>2. Cardinality(S) \in Nat
    BY <2>1, FS_CardinalityType
  <2> QED BY <2>2, CapAssumption
<1> HIDE DEF S, size
<1>4. ASSUME NEW n \in 1..size
      PROVE  /\ p[n] \in Keys /\ row[p[n]] \in Presence /\ row[p[n]] # None
             /\ <<p[n], row[p[n]].incarnation, rev>> \in existed
  <2>1. p[n] \in Keys /\ row[p[n]] # None
    BY <1>2 DEF Stored
  <2> QED BY <2>1 DEF Truthful, StoreTypeOK, StoreInv
<1>5. \A n \in 1..size : active[n] \in ActiveRow
  BY <1>1, <1>4 DEF ActiveRow, Presence
<1>6. active \in Seq(ActiveRow) /\ DOMAIN active = 1..size
  BY <1>1, <1>3, <1>5
<1>7. \A n \in 1..size : <<active[n].key, active[n].incarnation, rev>> \in existed
  BY <1>1, <1>4
<1>8. \A n \in 1..size : LET k == active[n].key IN
        /\ k \in Keys /\ row[k] # None /\ row[k].incarnation = active[n].incarnation
        /\ row[k].epoch = active[n].epoch
  BY <1>1, <1>4
<1> QED
  BY <1>6, <1>7, <1>8 DEF RowsTrue

\* A presence read returns rows and revision of one critical section.
LEMMA ReadPageInv ==
  ASSUME Truthful, ReadPage
  PROVE  Truthful'
<1> DEFINE keys == inFlight.request.keys
           rows == [k \in Keys |-> IF k \in keys THEN row[k] ELSE None]
<1>1. PICK active \in IF inFlight.request.class = "recovery"
                      THEN ActivePages(reg.recovery) ELSE {<<>>} :
        inFlight' = [inFlight EXCEPT !.status = "ok", !.revision = rev, !.rows = rows,
                                     !.active = active]
  BY DEF ReadPage
<1>2. /\ inFlight # None
      /\ UNCHANGED <<storeVars, producerVars, channelVars, reg, pc, roundNow, budget, carry,
                     blocked, backoff, page, taken, boundVars, historyVars>>
  BY DEF ReadPage
<1>3. active \in Seq(ActiveRow) /\ RowsTrue(active, existed, rev)
  <2>1. CASE active \in ActivePages(reg.recovery)
    BY <2>1, ActivePagesTrue
  <2>2. CASE active = <<>>
    BY <2>2 DEF RowsTrue
  <2> QED BY <1>1, <2>1, <2>2
<1>4. /\ rev \in Revision /\ row \in [Keys -> Presence \cup {None}]
      /\ inFlight \in PageOutcome /\ keys \subseteq Keys
  BY <1>2 DEF Truthful, StoreTypeOK, ActorTypeOK, PageOutcome, PageRequest
<1>5. rows \in [Keys -> Presence \cup {None}] /\ \A k \in keys : rows[k] = row[k]
  BY <1>4
<1> HIDE DEF rows
<1>6. /\ inFlight' \in PageOutcome /\ inFlight'.request = inFlight.request
      /\ inFlight'.rows = rows /\ inFlight'.revision = rev /\ inFlight'.active = active
      /\ inFlight'.status = "ok"
  BY <1>1, <1>3, <1>4, <1>5 DEF PageOutcome
<1>7. Snapshot(keys, rows, rev, existed, rev)
  <2>1. rev <= rev
    BY <1>4 DEF Revision
  <2>2. ASSUME NEW k \in keys
        PROVE  IF rows[k] = None THEN \A x \in existed : x[1] = k => x[3] # rev
               ELSE <<k, rows[k].incarnation, rev>> \in existed
    <3>1. k \in Keys /\ rows[k] = row[k]
      BY <1>4, <1>5
    <3> QED BY <3>1 DEF Truthful, StoreInv
  <2> QED BY <2>1, <2>2 DEF Snapshot
<1>8. /\ rev' = rev /\ existed' = existed /\ reg' = reg /\ pc' = pc /\ page' = page
      /\ roundNow' = roundNow /\ budget' = budget /\ carry' = carry /\ blocked' = blocked
      /\ backoff' = backoff /\ taken' = taken /\ touches' = touches /\ failures' = failures
      /\ inbox' = inbox /\ spill' = spill /\ spillWake' = spillWake
  BY <1>2 DEF storeVars, historyVars, boundVars, channelVars
<1>9. ReadInv'
  BY <1>3, <1>6, <1>7, <1>8 DEF Truthful, ReadInv
<1>10. ActorTypeOK'
  BY <1>6, <1>8 DEF Truthful, ActorTypeOK
<1> QED
  BY <1>2, <1>8, <1>9, <1>10, TruthfulParts, QuietStep

\* A presence read fails.
LEMMA FailPageInv ==
  ASSUME Truthful, FailPage
  PROVE  Truthful'
<1>1. /\ inFlight # None /\ inFlight' = [inFlight EXCEPT !.status = "failed"]
      /\ failures' = failures + 1
      /\ UNCHANGED <<storeVars, producerVars, channelVars, reg, pc, roundNow, budget, carry,
                     blocked, backoff, page, taken, touches, historyVars>>
  BY DEF FailPage
<1>2. /\ rev' = rev /\ existed' = existed /\ inbox' = inbox /\ spill' = spill
      /\ spillWake' = spillWake
  BY <1>1 DEF storeVars, historyVars, channelVars
<1>3. inFlight \in PageOutcome
  BY <1>1 DEF Truthful, ActorTypeOK
<1>4. inFlight' \in PageOutcome /\ inFlight'.status = "failed"
  BY <1>1, <1>3 DEF PageOutcome
<1>5. ReadInv'
  BY <1>1, <1>2, <1>4 DEF Truthful, ReadInv
<1>6. ActorTypeOK'
  BY <1>1, <1>4 DEF Truthful, ActorTypeOK
<1> QED
  BY <1>1, <1>2, <1>5, <1>6, TruthfulParts, QuietStep

\* The retry interval of a failed page ends.
LEMMA BackoffElapsesInv ==
  ASSUME Truthful, BackoffElapses
  PROVE  Truthful'
<1>1. /\ backoff' = "elapsed"
      /\ UNCHANGED <<storeVars, producerVars, channelVars, reg, pc, roundNow, budget, carry,
                     blocked, inFlight, page, taken, boundVars, historyVars>>
  BY DEF BackoffElapses
<1>2. /\ rev' = rev /\ existed' = existed /\ inbox' = inbox /\ spill' = spill
      /\ spillWake' = spillWake /\ touches' = touches /\ failures' = failures
  BY <1>1 DEF storeVars, historyVars, channelVars, boundVars
<1>3. ReadInv' /\ ActorTypeOK'
  BY <1>1, <1>2 DEF Truthful, ReadInv, ActorTypeOK
<1> QED
  BY <1>1, <1>2, <1>3, TruthfulParts, QuietStep

----------------------------------------------------------------------------
\* What a step of the actor finds unchanged when it touches no report.
Round == <<storeVars, producerVars, channelVars, roundNow, carry, taken, boundVars, historyVars>>

\* The unchanged part, variable by variable.
LEMMA RoundFrame ==
  ASSUME UNCHANGED Round
  PROVE  /\ rev' = rev /\ existed' = existed /\ inbox' = inbox /\ spill' = spill
         /\ spillWake' = spillWake /\ touches' = touches /\ failures' = failures
         /\ roundNow' = roundNow /\ carry' = carry /\ taken' = taken
         /\ UNCHANGED <<storeVars, producerVars, historyVars>>
  BY DEF Round, storeVars, historyVars, channelVars, boundVars

\* A step of the actor on its registry, its page and its control state.
LEMMA RoundStep ==
  ASSUME Truthful, UNCHANGED Round, RegistryInv(reg', existed, rev), ActorTypeOK', ReadInv'
  PROVE  Truthful'
  BY RoundFrame, TruthfulParts, QuietStep

\* The control state before a step of the actor.
LEMMA ControlTypes ==
  ASSUME Truthful
  PROVE  /\ budget \in Nat /\ blocked \in BOOLEAN /\ inFlight \in PageOutcome \cup {None}
         /\ backoff \in {"none", "waiting", "elapsed"} /\ page \in PageInHand \cup {None}
         /\ page # None => Snapshot(page.rest, page.rows, page.revision, existed, rev)
         /\ reg \in Registry /\ History(existed, rev) /\ roundNow \in Nat
  BY DEF Truthful, ActorTypeOK, ReadInv, StoreInv

\* The carry takes a batch of true reports.
LEMMA DrainTrue ==
  ASSUME Truthful, Drain \/ UNCHANGED <<carry, inbox>>
  PROVE  /\ carry' \in Seq(TrueObs(existed, rev)) /\ inbox' \in Seq(TrueObs(existed, rev))
         /\ carry' \in Seq(Observation)
<1> DEFINE T == TrueObs(existed, rev)
           n == IF Len(inbox) < DrainBatch THEN Len(inbox) ELSE DrainBatch
<1>1. \/ carry' = SubSeq(inbox, 1, n) /\ inbox' = SubSeq(inbox, n + 1, Len(inbox))
      \/ carry' = carry /\ inbox' = inbox
  BY DEF Drain
<1>2. inbox \in Seq(T) /\ carry \in Seq(T) /\ T \subseteq Observation
  BY TruthfulParts DEF TrueObs
<1> HIDE DEF T
<1>3. n \in Nat /\ n <= Len(inbox)
  BY <1>2, BoundAssumption
<1> HIDE DEF n
<1>4. SubSeq(inbox, 1, n) \in Seq(T) /\ SubSeq(inbox, n + 1, Len(inbox)) \in Seq(T)
  BY <1>2, <1>3
<1>5. inbox' \in Seq(T) /\ carry' \in Seq(T)
  BY <1>1, <1>2, <1>4
<1>6. carry' \in Seq(Observation)
  BY <1>2, <1>5, SeqMonotone
<1> QED
  BY <1>5, <1>6 DEF T

\* The actor wakes.
LEMMA SelectInv ==
  ASSUME Truthful, Select
  PROVE  Truthful'
<1>1. /\ Drain \/ UNCHANGED <<carry, inbox>>
      /\ pc' = "expire" /\ roundNow' = now /\ budget' = ExpireBatch /\ spillWake' = FALSE
      /\ UNCHANGED <<storeVars, producerVars, spill, reg, blocked, inFlight, backoff, page,
                     taken, boundVars, historyVars>>
  BY Zenon DEF Select
<1>2. /\ rev' = rev /\ existed' = existed /\ heard' = heard /\ reached' = reached
      /\ stale' = stale /\ scanQ' = scanQ /\ cmdQ' = cmdQ /\ ledger' = ledger
      /\ touches' = touches /\ failures' = failures
  BY <1>1 DEF storeVars, producerVars, boundVars, historyVars
<1>3. /\ carry' \in Seq(TrueObs(existed, rev)) /\ inbox' \in Seq(TrueObs(existed, rev))
      /\ carry' \in Seq(Observation)
  BY <1>1, DrainTrue
<1>4. ReadInv'
  BY <1>1, <1>2 DEF Truthful, ReadInv
<1>5. ActorTypeOK'
  BY <1>1, <1>2, <1>3, BoundAssumption DEF Truthful, ActorTypeOK, StoreTypeOK
<1> QED
  BY <1>1, <1>2, <1>3, <1>4, <1>5, TruthfulParts, FrameStep

\* One deadline expires.
LEMMA ExpireInv ==
  ASSUME Truthful, Expire
  PROVE  Truthful'
<1>1. PICK d \in Due(reg, roundNow) : reg' = ExpireOne(reg, d, roundNow)
  BY DEF Expire
<1>2. /\ budget' = budget - 1 /\ budget # 0 /\ pc' = pc /\ pc = "expire" /\ blocked' = blocked
      /\ inFlight' = inFlight /\ backoff' = backoff /\ page' = page /\ UNCHANGED Round
  BY DEF Expire, ExpiryOver, Round
<1>3. d \in reg.deadlines
  BY <1>1 DEF Due
<1>4. RegistryInv(reg', existed, rev) /\ reg' \in Registry
  BY <1>1, <1>3, TruthfulParts, ExpireOneInv DEF RegistryInv
<1>5. budget' \in Nat
  BY <1>2, ControlTypes
<1>6. ActorTypeOK'
  BY <1>2, <1>4, <1>5, RoundFrame DEF Truthful, ActorTypeOK
<1>7. ReadInv'
  BY <1>2, RoundFrame DEF Truthful, ReadInv
<1> QED
  BY <1>2, <1>4, <1>6, <1>7, RoundStep

\* A presence page arrives: its rows are those of its revision.
LEMMA PageArrivesInv ==
  ASSUME Truthful, PageArrives
  PROVE  Truthful'
<1>1. /\ inFlight # None /\ inFlight.status = "ok" /\ inFlight' = None /\ backoff' = "none"
      /\ pc' = "rows" /\ reg' = reg /\ budget' = budget /\ blocked' = blocked
      /\ page' = [class |-> inFlight.request.class, rest |-> inFlight.request.keys,
                  rows |-> inFlight.rows, revision |-> inFlight.revision]
      /\ UNCHANGED Round
  BY DEF PageArrives, Round
<1>2. inFlight \in PageOutcome
  BY <1>1, ControlTypes
<1>3. /\ page' \in PageInHand /\ page'.rest = inFlight.request.keys
      /\ page'.rows = inFlight.rows /\ page'.revision = inFlight.revision
  BY <1>1, <1>2 DEF PageOutcome, PageRequest, PageInHand
<1>4. Snapshot(page'.rest, page'.rows, page'.revision, existed, rev)
  BY <1>1, <1>3 DEF Truthful, ReadInv
<1>5. page' # None
  BY <1>3, NoneIsNoPage
<1>6. ActorTypeOK'
  BY <1>1, <1>3, RoundFrame DEF Truthful, ActorTypeOK
<1>7. ReadInv'
  BY <1>1, <1>4, <1>5, RoundFrame DEF ReadInv
<1> QED
  BY <1>1, <1>6, <1>7, TruthfulParts, RoundStep

\* A recovery page arrives and is held.
LEMMA RecoveryPageArrivesInv ==
  ASSUME Truthful, RecoveryPageArrives
  PROVE  Truthful'
<1> DEFINE a == inFlight.active
           q == inFlight.revision
<1>1. /\ inFlight # None /\ inFlight.status = "ok" /\ inFlight' = None /\ backoff' = "none"
      /\ reg' = HoldRecoveryPage(reg, a, q)
      /\ pc' = IF reg'.recovery = None THEN "spill" ELSE "recover"
      /\ budget' = budget /\ blocked' = blocked /\ page' = page /\ UNCHANGED Round
  BY DEF RecoveryPageArrives, Round
<1>2. inFlight \in PageOutcome
  BY <1>1, ControlTypes
<1>3. a \in Seq(ActiveRow) /\ q \in Revision
  BY <1>2 DEF PageOutcome
<1>4. RowsTrue(a, existed, q)
  BY <1>1 DEF Truthful, ReadInv
<1> HIDE DEF a, q
<1>5. RegistryInv(reg', existed, rev) /\ reg' \in Registry
  BY <1>1, <1>3, <1>4, TruthfulParts, HoldRecoveryPageInv DEF RegistryInv
<1>6. reg'.recovery # None => reg'.recovery.page # None
  BY <1>1, <1>3, <1>5, ControlTypes, HoldRecoveryPageHeld
<1>7. ActorTypeOK'
  BY <1>1, <1>5, RoundFrame DEF Truthful, ActorTypeOK
<1>8. ReadInv'
  BY <1>1, <1>6, RoundFrame DEF Truthful, ReadInv
<1> QED
  BY <1>1, <1>5, <1>7, <1>8, RoundStep

\* A page failed, or none is there.
LEMMA PageFailedInv ==
  ASSUME Truthful, PageFailed
  PROVE  Truthful'
<1>1. /\ inFlight' = None /\ backoff' = "waiting" /\ pc' = "spill" /\ reg' = reg
      /\ budget' = budget /\ blocked' = blocked /\ page' = page /\ UNCHANGED Round
  BY DEF PageFailed, Round
<1>2. ActorTypeOK' /\ ReadInv'
  BY <1>1, RoundFrame DEF Truthful, ActorTypeOK, ReadInv
<1> QED
  BY <1>1, <1>2, TruthfulParts, RoundStep

\* No page is there: a held recovery page goes on when the pending set has room.
LEMMA NoPageInv ==
  ASSUME Truthful, NoPage
  PROVE  Truthful'
<1>1. /\ inFlight' = inFlight /\ backoff' = backoff /\ reg' = reg
      /\ pc' = IF RecoveryReady(reg) THEN "recover" ELSE "spill"
      /\ budget' = budget /\ blocked' = blocked /\ page' = page /\ UNCHANGED Round
  BY DEF NoPage, Round
<1>2. ActorTypeOK' /\ ReadInv'
  BY <1>1, RoundFrame DEF Truthful, ActorTypeOK, ReadInv, RecoveryReady
<1> QED
  BY <1>1, <1>2, TruthfulParts, RoundStep

\* One key of a presence page is applied.
LEMMA PageRowInv ==
  ASSUME Truthful, PageRow
  PROVE  Truthful'
<1>1. pc = "rows" /\ page # None
  BY DEF PageRow, Truthful, ReadInv
<1>2. page \in PageInHand /\ Snapshot(page.rest, page.rows, page.revision, existed, rev)
  BY <1>1, ControlTypes
<1>3. PICK k \in page.rest :
        LET applied == ApplyRow(reg, k, page.rows, page.revision, roundNow)
            last == page.rest = {k}
        IN /\ reg' = IF last /\ page.class = "walk" THEN AdvanceWalk(applied, k) ELSE applied
           /\ page' = IF last THEN None ELSE [page EXCEPT !.rest = @ \ {k}]
           /\ pc' = IF last THEN "spill" ELSE "rows"
  BY DEF PageRow
<1>4. /\ budget' = budget /\ blocked' = blocked /\ inFlight' = inFlight /\ backoff' = backoff
      /\ UNCHANGED Round
  BY DEF PageRow, Round
<1> DEFINE applied == ApplyRow(reg, k, page.rows, page.revision, roundNow)
           rest == page.rest \ {k}
<1>5. /\ k \in Keys /\ page.rows[k] \in Presence \cup {None} /\ page.revision \in Revision
      /\ page.rest \subseteq Keys
  BY <1>2 DEF PageInHand
<1>6. /\ page.revision <= rev
      /\ page.rows[k] = None => \A x \in existed : x[1] = k => x[3] # page.revision
      /\ page.rows[k] # None => <<k, page.rows[k].incarnation, page.revision>> \in existed
  BY <1>2 DEF Snapshot
<1>7. page.rows[k] = None => \A j \in Incarnation : <<k, j, page.revision>> \notin existed
  <2>1. \A j : LET x == <<k, j, page.revision>> IN x[1] = k /\ x[3] = page.revision
    OBVIOUS
  <2> QED BY <1>6, <2>1
<1>8. RegistryInv(applied, existed, rev)
  <2>1. RegistryInv(reg, existed, rev) /\ History(existed, rev)
    BY TruthfulParts
  <2> QED BY <1>5, <1>6, <1>7, <2>1, ApplyRowInv
<1>9. reg' = applied \/ reg' = AdvanceWalk(applied, k)
  BY <1>3, Zenon
<1>10. RegistryInv(reg', existed, rev) /\ reg' \in Registry
  <2> HIDE DEF applied
  <2>1. RegistryInv(reg', existed, rev)
    BY <1>5, <1>8, <1>9, AdvanceWalkInv
  <2> QED BY <2>1 DEF RegistryInv
<1>11. \/ page' = None /\ pc' = "spill"
       \/ page' = [page EXCEPT !.rest = rest] /\ pc' = "rows"
  BY <1>3, Zenon
<1>12. /\ [page EXCEPT !.rest = rest] \in PageInHand
       /\ Snapshot(rest, page.rows, page.revision, existed, rev)
  <2>1. rest \subseteq Keys
    BY <1>5
  <2>2. Snapshot(rest, page.rows, page.revision, existed, rev)
    BY <1>2 DEF Snapshot
  <2> HIDE DEF rest
  <2> QED BY <1>2, <2>1, <2>2 DEF PageInHand
<1>13. page' # None =>
         /\ page' \in PageInHand
         /\ page'.rest = rest /\ page'.rows = page.rows /\ page'.revision = page.revision
  <2> HIDE DEF rest
  <2> QED BY <1>2, <1>11, <1>12 DEF PageInHand
<1>14. /\ pc' \in {"spill", "rows"}
       /\ pc' = "rows" => page' # None
  <2> HIDE DEF rest
  <2>1. [page EXCEPT !.rest = rest] # None
    BY <1>12, NoneIsNoPage
  <2> QED BY <1>11, <2>1
<1> HIDE DEF rest
<1>15. ActorTypeOK'
  BY <1>4, <1>10, <1>13, <1>14, RoundFrame DEF Truthful, ActorTypeOK
<1>16. page' # None => Snapshot(page'.rest, page'.rows, page'.revision, existed, rev)
  BY <1>12, <1>13
<1>17. ReadInv'
  BY <1>4, <1>14, <1>16, RoundFrame DEF Truthful, ReadInv
<1> QED
  BY <1>4, <1>10, <1>15, <1>17, RoundStep

\* One row of the held recovery page is applied.
LEMMA RecoveryRowInv ==
  ASSUME Truthful, RecoveryRow
  PROVE  Truthful'
<1> DEFINE t == RecoverRow(reg, roundNow)
<1>1. /\ pc = "recover" /\ reg.recovery # None /\ reg.recovery.page # None
      /\ reg.recovery.page.rows # <<>>
  BY DEF RecoveryRow, Truthful, ReadInv
<1>2. /\ reg' = t.reg /\ pc' = IF t.touch = "blocked" THEN "spill" ELSE "recover"
      /\ budget' = budget /\ blocked' = blocked /\ inFlight' = inFlight /\ backoff' = backoff
      /\ page' = page /\ UNCHANGED Round
  BY DEF RecoveryRow, Round
<1>3. RegistryInv(t.reg, existed, rev) /\ t.reg \in Registry
  <2>1. RegistryInv(t.reg, existed, rev)
    BY <1>1, TruthfulParts, RecoverRowInv
  <2> QED BY <2>1 DEF RegistryInv
<1>4. t.touch # "blocked" => t.reg.recovery # None /\ t.reg.recovery.page # None
  BY <1>1, <1>3, ControlTypes, RecoverRowHeld
<1> HIDE DEF t
<1>5. ActorTypeOK'
  BY <1>2, <1>3, RoundFrame DEF Truthful, ActorTypeOK
<1>6. ReadInv'
  BY <1>2, <1>4, RoundFrame DEF Truthful, ReadInv
<1> QED
  BY <1>2, <1>3, <1>5, <1>6, RoundStep

\* Every row of the recovery page is applied: the next page or the end.
LEMMA RecoveryPageEndsInv ==
  ASSUME Truthful, RecoveryPageEnds
  PROVE  Truthful'
<1>1. reg.recovery # None /\ reg.recovery.page # None
  BY DEF RecoveryPageEnds, Truthful, ReadInv
<1>2. /\ reg' = FinishRecoveryPage(reg) /\ pc' = "spill"
      /\ budget' = budget /\ blocked' = blocked /\ inFlight' = inFlight /\ backoff' = backoff
      /\ page' = page /\ UNCHANGED Round
  BY DEF RecoveryPageEnds, Round
<1>3. RegistryInv(reg', existed, rev) /\ reg' \in Registry
  <2>1. RegistryInv(reg', existed, rev)
    BY <1>1, <1>2, TruthfulParts, FinishRecoveryPageInv
  <2> QED BY <2>1 DEF RegistryInv
<1>4. ActorTypeOK' /\ ReadInv'
  BY <1>2, <1>3, RoundFrame DEF Truthful, ActorTypeOK, ReadInv
<1> QED
  BY <1>2, <1>3, <1>4, RoundStep

\* The page selection ends the round.
LEMMA IssueInv ==
  ASSUME Truthful, Issue
  PROVE  Truthful'
<1> DEFINE n == NextPage(reg, roundNow)
<1>1. /\ pc' = "select" /\ budget' = budget /\ backoff' = backoff /\ page' = page
      /\ UNCHANGED Round
  BY DEF Issue, Round
<1>2. \/ /\ reg' = n.reg
         /\ inFlight' = IF n.request = None THEN None ELSE Reading(n.request)
         /\ blocked' = StillBlocked(n.reg)
      \/ reg' = reg /\ inFlight' = inFlight /\ blocked' = blocked
  BY Zenon DEF Issue
<1>3. RegistryInv(n.reg, existed, rev) /\ RequestOK(n.request)
  BY TruthfulParts, NextPageInv DEF NextOK
<1> HIDE DEF n
<1>4. n.request # None => /\ Reading(n.request) \in PageOutcome
                          /\ Reading(n.request).status = "reading"
  <2> SUFFICES ASSUME n.request # None
               PROVE  /\ Reading(n.request) \in PageOutcome
                      /\ Reading(n.request).status = "reading"
    OBVIOUS
  <2>1. n.request \in PageRequest
    BY <1>3 DEF RequestOK, PageRequest
  <2>2. <<>> \in Seq(ActiveRow) /\ 0 \in Revision
    BY DEF Revision
  <2>3. [k \in Keys |-> None] \in [Keys -> Presence \cup {None}]
    OBVIOUS
  <2> QED BY <2>1, <2>2, <2>3 DEF Reading, PageOutcome
<1>5. StillBlocked(n.reg) \in BOOLEAN
  BY DEF StillBlocked
<1>6. RegistryInv(reg', existed, rev) /\ reg' \in Registry
  <2>1. RegistryInv(reg', existed, rev)
    BY <1>2, <1>3, TruthfulParts
  <2> QED BY <2>1 DEF RegistryInv
<1>7. /\ inFlight' \in PageOutcome \cup {None} /\ blocked' \in BOOLEAN
      /\ inFlight' = inFlight \/ inFlight' = None \/ inFlight'.status = "reading"
  BY <1>2, <1>4, <1>5, ControlTypes
<1>8. ActorTypeOK'
  BY <1>1, <1>6, <1>7, RoundFrame DEF Truthful, ActorTypeOK
<1>9. ReadInv'
  BY <1>1, <1>7, RoundFrame DEF Truthful, ReadInv
<1> QED
  BY <1>1, <1>6, <1>8, <1>9, RoundStep

----------------------------------------------------------------------------
\* The empty spill says nothing.
LEMMA EmptySpillTrue ==
  ASSUME NEW E, NEW R
  PROVE  EmptySpill \in Spill /\ TrueSpill(EmptySpill, E, R)
  BY DEF EmptySpill, Spill, TrueSpill

\* The actor takes the spill.
LEMMA TakeSpillInv ==
  ASSUME Truthful, TakeSpill
  PROVE  Truthful'
<1>1. /\ taken' = spill /\ spill' = EmptySpill /\ stale' = stale \ spill.rows
      /\ pc' = IF spill = EmptySpill THEN "receive" ELSE "cells"
      /\ UNCHANGED <<storeVars, producerVars, inbox, spillWake, reg, roundNow, budget, carry,
                     blocked, inFlight, backoff, page, boundVars, existed, heard, reached>>
  BY DEF TakeSpill
<1>2. /\ rev' = rev /\ scanQ' = scanQ /\ cmdQ' = cmdQ /\ ledger' = ledger
      /\ touches' = touches /\ failures' = failures
  BY <1>1 DEF storeVars, producerVars, boundVars
<1>3. taken' \in Spill /\ TrueSpill(taken', existed, rev)
  BY <1>1, TruthfulParts
<1>4. spill' \in Spill /\ TrueSpill(spill', existed, rev)
  BY <1>1, EmptySpillTrue
<1>5. ActorTypeOK'
  BY <1>1, <1>2, <1>3 DEF Truthful, ActorTypeOK
<1>6. ReadInv'
  BY <1>1, <1>2 DEF Truthful, ReadInv
<1>7. stale' \subseteq Keys
  BY <1>1, TruthfulParts
<1> QED
  BY <1>1, <1>2, <1>3, <1>4, <1>5, <1>6, <1>7, TruthfulParts, FrameStep

\* One spilled removal is applied.
LEMMA SpillRemovalInv ==
  ASSUME Truthful, SpillRemoval
  PROVE  Truthful'
<1>1. PICK k \in TakenKeys :
        /\ reg' = Remove(reg, k, taken.removed[k].incarnation, taken.removed[k].absent_at)
        /\ taken' = [taken EXCEPT !.removed[k] = None]
  BY DEF SpillRemoval
<1>2. /\ pc = "cells" /\ UNCHANGED <<storeVars, producerVars, channelVars, pc, roundNow, budget,
                     carry, blocked, inFlight, backoff, page, boundVars, historyVars>>
  BY DEF SpillRemoval
<1>3. /\ rev' = rev /\ existed' = existed /\ heard' = heard /\ reached' = reached
      /\ stale' = stale /\ scanQ' = scanQ /\ cmdQ' = cmdQ /\ ledger' = ledger
      /\ touches' = touches /\ failures' = failures
      /\ inbox' = inbox /\ spill' = spill /\ spillWake' = spillWake
  BY <1>2 DEF storeVars, producerVars, boundVars, historyVars, channelVars
<1>4. k \in Keys /\ taken.removed[k] # None
  BY DEF TakenKeys
<1>5. Gone(existed, rev, k, taken.removed[k].incarnation, taken.removed[k].absent_at)
  BY <1>4, TruthfulParts DEF TrueSpill
<1>6. RegistryInv(reg', existed, rev) /\ reg' \in Registry
  <2>1. RegistryInv(reg', existed, rev)
    BY <1>1, <1>4, <1>5, TruthfulParts, RemoveInv
  <2> QED BY <2>1 DEF RegistryInv
<1>7. taken' \in Spill /\ TrueSpill(taken', existed, rev)
  <2>1. taken \in Spill /\ TrueSpill(taken, existed, rev)
    BY TruthfulParts
  <2>2. taken' \in Spill /\ \A j \in Keys : taken'.removed[j] \in {None, taken.removed[j]}
    BY <1>1, <1>4, <2>1 DEF Spill
  <2> QED BY <2>1, <2>2 DEF TrueSpill
<1>8. ActorTypeOK'
  BY <1>2, <1>3, <1>6, <1>7 DEF Truthful, ActorTypeOK
<1>9. ReadInv'
  BY <1>2, <1>3 DEF Truthful, ReadInv
<1> QED
  BY <1>2, <1>3, <1>6, <1>7, <1>8, <1>9, TruthfulParts, FrameStep

\* The broad removal of the spill follows.
LEMMA SpillRestInv ==
  ASSUME Truthful, SpillRest
  PROVE  Truthful'
<1>1. /\ reg' = IF taken.broad = None THEN reg ELSE Broad(reg, taken.broad)
      /\ stale' = IF taken.invalidated THEN {} ELSE stale
      /\ taken' = EmptySpill /\ pc' = "receive"
      /\ UNCHANGED <<storeVars, producerVars, channelVars, roundNow, budget, carry, blocked,
                     inFlight, backoff, page, boundVars, existed, heard, reached>>
  BY DEF SpillRest
<1>2. /\ rev' = rev /\ scanQ' = scanQ /\ cmdQ' = cmdQ /\ ledger' = ledger
      /\ touches' = touches /\ failures' = failures
      /\ inbox' = inbox /\ spill' = spill /\ spillWake' = spillWake
  BY <1>1 DEF storeVars, producerVars, boundVars, channelVars
<1>3. taken.broad \in Revision \cup {None}
  BY TruthfulParts DEF Spill
<1>4. RegistryInv(reg', existed, rev) /\ reg' \in Registry
  <2>1. CASE taken.broad = None
    BY <1>1, <2>1, TruthfulParts DEF RegistryInv
  <2>2. CASE taken.broad # None
    <3>1. reg' = Broad(reg, taken.broad) /\ taken.broad \in Revision
      BY <1>1, <1>3, <2>2
    <3>2. RegistryInv(reg', existed, rev)
      BY <3>1, TruthfulParts, BroadInv
    <3> QED BY <3>2 DEF RegistryInv
  <2> QED BY <2>1, <2>2
<1>5. taken' \in Spill /\ TrueSpill(taken', existed, rev)
  BY <1>1, EmptySpillTrue
<1>6. ActorTypeOK'
  BY <1>1, <1>2, <1>4, <1>5 DEF Truthful, ActorTypeOK
<1>7. ReadInv'
  BY <1>1, <1>2 DEF Truthful, ReadInv
<1>8. stale' \subseteq Keys
  BY <1>1, TruthfulParts
<1> QED
  BY <1>1, <1>2, <1>4, <1>5, <1>6, <1>7, <1>8, TruthfulParts, FrameStep

\* An empty carry takes a batch of the inbox.
LEMMA ReceiveInv ==
  ASSUME Truthful, Receive
  PROVE  Truthful'
<1>1. /\ Drain \/ UNCHANGED <<carry, inbox>>
      /\ budget' = DrainWeight /\ pc' = "facts"
      /\ UNCHANGED <<storeVars, producerVars, spill, spillWake, reg, roundNow, blocked, inFlight,
                     backoff, page, taken, boundVars, historyVars>>
  BY Zenon DEF Receive
<1>2. /\ rev' = rev /\ existed' = existed /\ heard' = heard /\ reached' = reached
      /\ stale' = stale /\ scanQ' = scanQ /\ cmdQ' = cmdQ /\ ledger' = ledger
      /\ touches' = touches /\ failures' = failures
  BY <1>1 DEF storeVars, producerVars, boundVars, historyVars
<1>3. /\ carry' \in Seq(TrueObs(existed, rev)) /\ inbox' \in Seq(TrueObs(existed, rev))
      /\ carry' \in Seq(Observation)
  BY <1>1, DrainTrue
<1>4. ActorTypeOK'
  BY <1>1, <1>2, <1>3, BoundAssumption DEF Truthful, ActorTypeOK
<1>5. ReadInv'
  BY <1>1, <1>2 DEF Truthful, ReadInv
<1> QED
  BY <1>1, <1>2, <1>3, <1>4, <1>5, TruthfulParts, FrameStep

\* The batch is over.
LEMMA FactsEndInv ==
  ASSUME Truthful, FactsEnd
  PROVE  Truthful'
<1>1. /\ blocked' = FALSE /\ pc' = "issue" /\ reg' = reg /\ budget' = budget
      /\ inFlight' = inFlight /\ backoff' = backoff /\ page' = page /\ UNCHANGED Round
  BY DEF FactsEnd, Round
<1>2. ActorTypeOK' /\ ReadInv'
  BY <1>1, RoundFrame DEF Truthful, ActorTypeOK, ReadInv
<1> QED
  BY <1>1, <1>2, TruthfulParts, RoundStep

\* A true observation keeps the registry true.
LEMMA ObserveAnyInv ==
  ASSUME NEW E, NEW R, History(E, R), NEW r, RegistryInv(r, E, R), NEW o \in TrueObs(E, R),
         o.type # "exists"
  PROVE  RegistryInv(ObserveOther(r, o), E, R)
<1>1. CASE o.type = "removed"
  <2>1. o.key \in Keys /\ Gone(E, R, o.key, o.incarnation, o.revision)
    BY <1>1 DEF TrueObs, Observation, SyncObservation, ExistsObs, RemovedObs, BroadObs, RowObs,
                AnonymousObs, CoveredObs
  <2>2. ObserveOther(r, o) = Remove(r, o.key, o.incarnation, o.revision)
    BY <1>1 DEF ObserveOther
  <2> QED BY <2>1, <2>2, RemoveInv
<1>2. CASE o.type = "broad"
  <2>1. o.revision \in Revision
    BY <1>2 DEF TrueObs, Observation, SyncObservation, ExistsObs, RemovedObs, BroadObs, RowObs,
                AnonymousObs, CoveredObs
  <2>2. ObserveOther(r, o) = Broad(r, o.revision)
    BY <1>2 DEF ObserveOther
  <2> QED BY <2>1, <2>2, BroadInv
<1>3. CASE o.type = "anonymous"
  <2>1. o.agent \in Agents /\ o.at \in Time /\ o.generation \in Nat
    BY <1>3 DEF TrueObs, Observation, SyncObservation, ExistsObs, RemovedObs, BroadObs, RowObs,
                AnonymousObs, CoveredObs
  <2>2. ObserveOther(r, o) = AnonymousTouch(r, o.agent, o.at, o.generation, roundNow)
    BY <1>3 DEF ObserveOther
  <2> QED BY <2>1, <2>2, AnonymousTouchInv
<1>4. CASE o.type = "covered"
  <2>1. o.agent \in Agents
    BY <1>4 DEF TrueObs, Observation, SyncObservation, ExistsObs, RemovedObs, BroadObs, RowObs,
                AnonymousObs, CoveredObs
  <2>2. ObserveOther(r, o) = Cover(r, o.agent, o.through)
    BY <1>4 DEF ObserveOther
  <2> QED BY <2>1, <2>2, CoverInv
<1>5. CASE o.type = "rowChanged"
  BY <1>5 DEF ObserveOther
<1> QED
  BY <1>1, <1>2, <1>3, <1>4, <1>5
     DEF TrueObs, Observation, SyncObservation, ExistsObs, RemovedObs, BroadObs, RowObs,
         AnonymousObs, CoveredObs

\* One fact of the batch is applied, or stays in front of a full pending set.
LEMMA ApplyFactInv ==
  ASSUME Truthful, ApplyFact
  PROVE  Truthful'
<1> DEFINE T == TrueObs(existed, rev)
           o == Head(carry)
           fact == [incarnation |-> o.incarnation, at |-> o.at, revision |-> o.revision]
           seen == Observe(reg, o.key, fact, roundNow)
           other == ObserveOther(reg, o)
           t == IF o.type = "exists" THEN seen ELSE Touched(other, "unchanged")
           full == t.touch = "blocked"
<1>1. /\ budget > 0 /\ carry # <<>> /\ reg' = t.reg
      /\ carry' = IF full THEN carry ELSE Tail(carry)
      /\ budget' = IF full THEN budget ELSE budget - 1
      /\ blocked' = full
      /\ pc' = IF full THEN "issue" ELSE "facts"
      /\ stale' = IF o.type = "rowChanged" THEN stale \ {o.key} ELSE stale
      /\ UNCHANGED <<storeVars, producerVars, channelVars, roundNow, inFlight, backoff, page,
                     taken, boundVars, existed, heard, reached>>
  BY DEF ApplyFact
<1>2. /\ rev' = rev /\ scanQ' = scanQ /\ cmdQ' = cmdQ /\ ledger' = ledger
      /\ touches' = touches /\ failures' = failures
      /\ inbox' = inbox /\ spill' = spill /\ spillWake' = spillWake
  BY <1>1 DEF storeVars, producerVars, boundVars, channelVars
<1>3. carry \in Seq(T) /\ T \subseteq Observation
  BY TruthfulParts DEF TrueObs
<1> HIDE DEF T
<1>4. o \in T /\ Tail(carry) \in Seq(T)
  BY <1>1, <1>3
<1> HIDE DEF o
<1>5. RegistryInv(t.reg, existed, rev)
  <2>1. CASE o.type = "exists"
    <3>1. o \in ExistsObs /\ <<o.key, o.incarnation, o.revision>> \in existed
      BY <1>4, <2>1 DEF T, TrueObs, Observation, SyncObservation, ExistsObs, RemovedObs, BroadObs,
                        RowObs, AnonymousObs, CoveredObs
    <3>2. o.key \in Keys /\ TrueFact(existed, o.key, fact)
      BY <3>1 DEF ExistsObs, TrueFact, Existence
    <3>3. t = seen
      BY <2>1
    <3> HIDE DEF fact, t
    <3>4. RegistryInv(seen.reg, existed, rev)
      BY <3>2, TruthfulParts, ObserveInv
    <3> QED BY <3>3, <3>4
  <2>2. CASE o.type # "exists"
    <3>1. RegistryInv(other, existed, rev)
      BY <1>4, <2>2, TruthfulParts, ObserveAnyInv DEF T
    <3> HIDE DEF other, seen
    <3>2. t.reg = other
      BY <2>2 DEF Touched
    <3> HIDE DEF t
    <3> QED BY <3>1, <3>2
  <2> QED BY <2>1, <2>2
<1> HIDE DEF t
<1>6. RegistryInv(reg', existed, rev) /\ reg' \in Registry
  BY <1>1, <1>5 DEF RegistryInv
<1>7. carry' \in Seq(T) /\ carry' \in Seq(Observation)
  <2>1. carry' \in Seq(T)
    BY <1>1, <1>3, <1>4
  <2> QED BY <1>3, <2>1, SeqMonotone
<1>8. full \in BOOLEAN /\ budget' \in Nat /\ pc' \in {"issue", "facts"}
  BY <1>1, ControlTypes
<1>9. blocked' \in BOOLEAN
  BY <1>1, <1>8
<1>10. ActorTypeOK'
  BY <1>1, <1>2, <1>6, <1>7, <1>8, <1>9 DEF Truthful, ActorTypeOK
<1>11. ReadInv'
  BY <1>1, <1>2, <1>8 DEF Truthful, ReadInv
<1>12. stale' \subseteq Keys
  BY <1>1, TruthfulParts
<1> QED
  BY <1>1, <1>2, <1>6, <1>7, <1>10, <1>11, <1>12, TruthfulParts, FrameStep DEF T

----------------------------------------------------------------------------
\* The registry that starts empty is a registry.
LEMMA EmptyRegistry ==
  Empty \in Registry
<1>1. -1 \in Incarnation \cup {-1} /\ 0 \in Revision /\ 0 \in Int
  BY DEF Revision
<1> QED
  BY <1>1 DEF Empty, Registry, PageClass

\* The rows at startup.
LEMMA InitRows ==
  ASSUME Init
  PROVE  /\ row \in [Keys -> Presence \cup {None}]
         /\ \A k \in Keys : row[k] # None => /\ row[k] \in Presence /\ row[k].incarnation = 0
                                             /\ row[k].epoch \in Int
<1>1. row \in [Keys -> [incarnation : {0}, epoch : {e \in Epochs : e <= StartTime}] \cup {None}]
  BY DEF Init
<1>2. ASSUME NEW k \in Keys, row[k] # None
      PROVE  row[k] \in Presence /\ row[k].incarnation = 0
  <2>1. PICK p : p = row[k]
    OBVIOUS
  <2>2. p \in [incarnation : {0}, epoch : {e \in Epochs : e <= StartTime}]
    BY <1>1, <1>2, <2>1, Zenon
  <2>3. \A e \in Epochs : e \in Int
    BY BoundAssumption
  <2>4. p \in [incarnation : Nat, epoch : Int] /\ p.incarnation = 0
    BY <2>2, <2>3
  <2> QED BY <2>1, <2>4 DEF Presence, Incarnation, Time
<1>3. row \in [Keys -> Presence \cup {None}]
  BY <1>1, <1>2
<1>4. \A k \in Keys : row[k] # None => row[k].epoch \in Int
  BY <1>2 DEF Presence, Time
<1> QED BY <1>2, <1>3, <1>4

\* What the seed leaves of the registry: only live sessions, indexed, counted and shown.
Seeding(r) ==
  /\ \A k \in Keys : r.live[k] # None => /\ k \in SeedKeys /\ r.live[k] \in LiveEntry
                                         /\ r.live[k] = Seeded(row[k], 0, StartTime)
  /\ r.working = Cardinality(Busy(r.live)) /\ r.deadlines = SessionDeadlines(r.live)
  /\ \A k \in Keys : r.view[k] = Shown(r.live[k])
  /\ r.pending = Empty.pending /\ r.deleted = Empty.deleted /\ r.gone = Empty.gone
  /\ r.anonymous = Empty.anonymous /\ r.anonymousView = Empty.anonymousView
  /\ r.forgotten_through = 0 /\ r.broad_through = 0 /\ r.needs = None /\ r.run = None

\* The keys of a seed are live, whichever they are.
LEMMA SeededIs ==
  ASSUME Init, NEW S \in SUBSET SeedKeys, NEW s, s = SeededRegistry(S)
  PROVE  /\ s \in Registry /\ Seeding(s) /\ s.recovery = None
         /\ \A k \in S : s.live[k] # None
<1> DEFINE live == [k \in Keys |-> IF k \in S THEN Seeded(row[k], 0, StartTime) ELSE None]
           on == {k \in Keys : live[k] # None}
           busy == {k \in on : ~live[k].quiet_published}
           dl == {SessionDeadline(k, live[k]) : k \in on}
           view == [k \in Keys |-> IF live[k] = None THEN "absent"
                                   ELSE IF live[k].quiet_published THEN "quiet" ELSE "working"]
           n == Cardinality(busy)
<1>1. s = [Empty EXCEPT !.live = live, !.working = n, !.deadlines = dl, !.view = view]
  BY DEF SeededRegistry
<1>2. \A k \in S : k \in Keys /\ row[k] # None
  BY DEF SeedKeys, Stored
<1>3. ASSUME NEW k \in S PROVE live[k] = Seeded(row[k], 0, StartTime) /\ live[k] \in LiveEntry
  <2>1. k \in Keys /\ row[k] # None
    BY <1>2
  <2>2. row[k].incarnation \in Incarnation /\ row[k].epoch \in Time
    BY <2>1, InitRows DEF Presence
  <2>3. (StartTime - row[k].epoch >= QuietWindow) \in BOOLEAN
    OBVIOUS
  <2>4. live[k] = Seeded(row[k], 0, StartTime)
    BY <2>1
  <2> HIDE DEF live
  <2> QED BY <2>2, <2>3, <2>4 DEF Seeded, LiveEntry, Revision
<1>4. \A k \in Keys : k \notin S => live[k] = None
  OBVIOUS
<1>5. live = [k \in Keys |-> live[k]]
  OBVIOUS
<1> HIDE DEF live
<1>6. live \in [Keys -> LiveEntry \cup {None}] /\ \A k \in S : live[k] # None
  BY <1>3, <1>4, <1>5, NoneAssumption
<1>7. busy = Busy(live) /\ dl = SessionDeadlines(live) /\ \A k \in Keys : view[k] = Shown(live[k])
  BY DEF Busy, SessionDeadlines, Shown
<1>8. dl \in SUBSET (Time \X DeadlineKey)
  BY <1>6, DeadlineType
<1>9. view \in [Keys -> {"absent", "working", "quiet"}]
  OBVIOUS
<1>10. n \in Int
  <2>1. busy \subseteq Keys
    OBVIOUS
  <2> HIDE DEF busy
  <2>2. IsFiniteSet(busy)
    BY <2>1, KeysAssumption, FS_Subset
  <2> QED BY <2>2, FS_CardinalityType
<1>11. n = Cardinality(Busy(live))
  BY <1>7
<1> HIDE DEF busy, dl, view, on, n
<1>12. /\ Empty \in Registry /\ Empty.forgotten_through = 0 /\ Empty.broad_through = 0
       /\ Empty.needs = None /\ Empty.run = None /\ Empty.recovery = None
  BY EmptyRegistry DEF Empty
<1>13. /\ s \in Registry /\ s.live = live /\ s.working = n /\ s.deadlines = dl /\ s.view = view
       /\ s.pending = Empty.pending /\ s.deleted = Empty.deleted /\ s.gone = Empty.gone
       /\ s.anonymous = Empty.anonymous /\ s.anonymousView = Empty.anonymousView
       /\ s.forgotten_through = 0 /\ s.broad_through = 0 /\ s.needs = None /\ s.run = None
       /\ s.recovery = None
  <2> DEFINE e == [Empty EXCEPT !.live = live, !.deadlines = dl]
  <2>1. s = [e EXCEPT !.working = n, !.view = view]
    BY <1>1, <1>12 DEF Registry
  <2>2. /\ e \in Registry /\ e.live = live /\ e.deadlines = dl
        /\ e.pending = Empty.pending /\ e.deleted = Empty.deleted /\ e.gone = Empty.gone
        /\ e.anonymous = Empty.anonymous /\ e.anonymousView = Empty.anonymousView
        /\ e.forgotten_through = 0 /\ e.broad_through = 0 /\ e.needs = None /\ e.run = None
        /\ e.recovery = None
    BY <1>6, <1>8, <1>12 DEF Registry
  <2> HIDE DEF e
  <2> QED BY <1>9, <1>10, <2>1, <2>2 DEF Registry
<1>14. \A k \in Keys : s.live[k] # None => /\ k \in SeedKeys /\ s.live[k] \in LiveEntry
                                           /\ s.live[k] = Seeded(row[k], 0, StartTime)
  BY <1>3, <1>4, <1>13
<1> QED BY <1>6, <1>7, <1>11, <1>13, <1>14 DEF Seeding

\* The actor starts from the whole seed, or from what came before the page that
\* failed with a recovery of the rest.
LEMMA SeedIs ==
  ASSUME Init
  PROVE  /\ reg \in Registry /\ Seeding(reg)
         /\ \/ reg.recovery = None /\ \A k \in SeedKeys : reg.live[k] # None
            \/ /\ backoff = "waiting" /\ reg.recovery \in SeedRecovery
               /\ reg.recovery.since = StartTime - ActiveWindow /\ reg.recovery.page = None
               /\ \A k \in SeedKeys : reg.live[k] # None \/ AfterCursor(k, reg.recovery.cursor)
<1>1. CASE reg = SeededRegistry(SeedKeys)
  BY <1>1, SeededIs
<1>2. ASSUME NEW c \in SeedCursors, reg = UnseededRegistry(c), backoff = "waiting"
      PROVE  /\ reg \in Registry /\ Seeding(reg)
             /\ backoff = "waiting" /\ reg.recovery \in SeedRecovery
             /\ reg.recovery.since = StartTime - ActiveWindow /\ reg.recovery.page = None
             /\ \A k \in SeedKeys : reg.live[k] # None \/ AfterCursor(k, reg.recovery.cursor)
  <2> DEFINE S == {k \in SeedKeys : ~AfterCursor(k, c)}
             s == SeededRegistry(S)
             w == [since |-> StartTime - ActiveWindow, cursor |-> c, page |-> None]
  <2>1. c \in ActiveCursor \cup {None}
    <3>1. \A k \in Stored : k \in Keys /\ row[k].epoch \in Time
      BY InitRows DEF Stored, Time
    <3>2. \A k \in Stored : [epoch |-> row[k].epoch, key |-> k] \in ActiveCursor
      BY <3>1 DEF ActiveCursor
    <3>3. c = None \/ \E k \in Stored : c = [epoch |-> row[k].epoch, key |-> k]
      BY Zenon DEF SeedCursors
    <3> QED BY <3>2, <3>3
  <2>2. w \in SeedRecovery /\ w.cursor = c /\ w.page = None /\ w.since = StartTime - ActiveWindow
    BY <2>1, BoundAssumption, WindowAssumption DEF SeedRecovery, Time
  <2>3. reg = [s EXCEPT !.recovery = w]
    BY <1>2 DEF UnseededRegistry
  <2>4. s \in Registry /\ Seeding(s) /\ \A k \in S : s.live[k] # None
    BY SeededIs
  <2>5. \A k \in SeedKeys : k \in S \/ AfterCursor(k, c)
    OBVIOUS
  <2> HIDE DEF s, w, S
  <2>6. /\ reg \in Registry /\ reg.recovery = w /\ reg.live = s.live /\ reg.working = s.working
        /\ reg.deadlines = s.deadlines /\ reg.view = s.view
        /\ reg.pending = s.pending /\ reg.deleted = s.deleted /\ reg.gone = s.gone
        /\ reg.anonymous = s.anonymous /\ reg.anonymousView = s.anonymousView
        /\ reg.forgotten_through = s.forgotten_through /\ reg.broad_through = s.broad_through
        /\ reg.needs = s.needs /\ reg.run = s.run
    BY <2>2, <2>3, <2>4 DEF Registry
  <2>7. Seeding(reg)
    BY <2>4, <2>6 DEF Seeding
  <2> QED BY <1>2, <2>2, <2>4, <2>5, <2>6, <2>7
<1> QED
  BY <1>1, <1>2 DEF Init

\* The rows that exist at startup are the history of revision 0.
LEMMA InitStore ==
  ASSUME Init
  PROVE  StoreTypeOK /\ StoreInv
<1>1. /\ row \in [Keys -> [incarnation : {0}, epoch : {e \in Epochs : e <= StartTime}] \cup {None}]
      /\ rev = 0 /\ incSeq = 0 /\ now = StartTime /\ stale = {}
      /\ existed = {<<k, 0, 0>> : k \in Stored}
      /\ reached = [k \in Keys |-> IF row[k] = None THEN 0 ELSE row[k].epoch]
      /\ heard = [k \in Keys |-> IF reg.live[k] = None THEN StartTime - ActiveWindow
                                 ELSE row[k].epoch]
  BY DEF Init
<1>2. \A k \in Keys : row[k] # None => row[k] \in Presence /\ row[k].incarnation = 0
  BY InitRows
<1>3. row \in [Keys -> Presence \cup {None}]
  BY InitRows
<1>4. Stored = {k \in Keys : row[k] # None}
  BY DEF Stored
<1>5. \A x \in existed : x = <<x[1], 0, 0>> /\ x[1] \in Keys /\ x[2] = 0 /\ x[3] = 0
                         /\ row[x[1]] # None
  BY <1>1, <1>4
<1>6. \A k \in Keys : row[k] # None => <<k, 0, 0>> \in existed
  BY <1>1, <1>4
<1>7. existed \subseteq Keys \X Incarnation \X Revision
      /\ existed \subseteq Keys \X Incarnation \X (0..0)
  BY <1>1, <1>4 DEF Incarnation, Revision
<1>8. History(existed, 0)
  <2>1. \A x, y \in existed : ~(x[2] < y[2])
    BY <1>5
  <2>2. ASSUME NEW x \in existed, NEW y \in existed, NEW q \in x[3]..y[3]
        PROVE  <<x[1], x[2], q>> \in existed
    <3>1. x[3] = 0 /\ y[3] = 0 /\ x[2] = 0 /\ x = <<x[1], 0, 0>>
      BY <1>5
    <3>2. q = 0
      BY <3>1
    <3> QED BY <3>1, <3>2
  <2> QED BY <1>7, <2>1, <2>2 DEF History, Revision
<1>9. StoreInv
  BY <1>1, <1>2, <1>5, <1>6, <1>8 DEF StoreInv
<1>10. reached \in [Keys -> Time]
  BY <1>1, <1>2 DEF Presence, Time
<1>11. heard \in [Keys -> Time]
  <2>1. StartTime - ActiveWindow \in Time
    BY BoundAssumption, WindowAssumption DEF Time
  <2>2. ASSUME NEW k \in Keys
        PROVE  (IF reg.live[k] = None THEN StartTime - ActiveWindow ELSE row[k].epoch) \in Time
    <3>1. CASE reg.live[k] = None
      BY <2>1, <3>1
    <3>2. CASE reg.live[k] # None
      <4>1. row[k] # None
        BY <3>2, SeedIs DEF Seeding, SeedKeys, Stored
      <4> QED BY <1>2, <3>2, <4>1 DEF Presence
    <3> QED BY <3>1, <3>2
  <2> QED BY <1>1, <2>2
<1>12. now \in Nat /\ rev \in Revision /\ incSeq \in Incarnation
  BY <1>1, BoundAssumption DEF Revision, Incarnation
<1> QED
  BY <1>1, <1>3, <1>7, <1>9, <1>10, <1>11, <1>12 DEF StoreTypeOK

\* Seeding makes recent rows live, which are true of the history.
LEMMA InitRegistry ==
  ASSUME Init
  PROVE  RegistryInv(reg, existed, rev)
<1>1. /\ rev = 0 /\ \A k \in Keys : row[k] # None => <<k, row[k].incarnation, 0>> \in existed
  BY InitStore DEF Init, StoreInv
<1>2. \A k \in Keys : /\ reg.pending[k] = None /\ reg.deleted[k] = None /\ reg.gone[k] = -1
  BY SeedIs DEF Seeding, Empty
<1>3. ASSUME NEW k \in Keys PROVE KeyInv(reg, existed, 0, k)
  <2>1. ASSUME reg.live[k] # None
        PROVE  /\ <<k, reg.live[k].incarnation, reg.live[k].exists_at>> \in existed
               /\ reg.live[k].incarnation > -1
    <3>1. row[k] # None /\ reg.live[k] \in LiveEntry /\ reg.live[k] = Seeded(row[k], 0, StartTime)
      BY <2>1, SeedIs DEF Seeding, SeedKeys, Stored
    <3>2. reg.live[k].incarnation = row[k].incarnation /\ reg.live[k].exists_at = 0
      BY <3>1 DEF Seeded
    <3> QED BY <1>1, <3>1, <3>2 DEF LiveEntry, Incarnation
  <2> QED BY <1>2, <2>1 DEF KeyInv
<1>4. reg \in Registry /\ reg.forgotten_through <= 0
  BY SeedIs DEF Seeding
<1>5. reg.recovery = None \/ reg.recovery.page = None
  BY SeedIs
<1> QED BY <1>1, <1>3, <1>4, <1>5 DEF RegistryInv

\* The invariant holds at startup.
LEMMA InitTruthful ==
  ASSUME Init
  PROVE  Truthful
<1>1. /\ scanQ = <<>> /\ cmdQ = {} /\ inbox = <<>> /\ spill = EmptySpill /\ spillWake = FALSE
      /\ backoff \in {"none", "waiting"} /\ pc = "select" /\ roundNow = StartTime /\ budget = 0
      /\ carry = <<>> /\ blocked = FALSE /\ inFlight = None /\ page = None
      /\ taken = EmptySpill /\ touches = 0 /\ failures = 0
      /\ ledger = [next |-> 0, outstanding |-> [a \in Agents |-> 0],
                   captured |-> [a \in Agents |-> 0], at |-> [a \in Agents |-> 0]]
  BY DEF Init
<1>2. \A T : <<>> \in Seq(T)
  OBVIOUS
<1>3. EmptySpill \in Spill /\ TrueSpill(EmptySpill, existed, rev)
  BY EmptySpillTrue
<1>4. reg \in Registry /\ RegistryInv(reg, existed, rev)
  BY InitRegistry DEF RegistryInv
<1>5. ledger \in [next : Nat, outstanding : [Agents -> Nat], captured : [Agents -> Nat],
                  at : [Agents -> Time]]
  BY <1>1 DEF Time
<1>6. ChannelTypeOK
  BY <1>1, <1>2, <1>3, <1>5 DEF ChannelTypeOK
<1>7. ActorTypeOK
  BY <1>1, <1>2, <1>3, <1>4, BoundAssumption DEF ActorTypeOK
<1>8. ReportInv /\ ReadInv
  BY <1>1, <1>2, <1>3 DEF ReportInv, ReadInv
<1> QED
  BY <1>4, <1>6, <1>7, <1>8, InitStore DEF Truthful

----------------------------------------------------------------------------
\* Every step keeps the invariant.
LEMMA NextTruthful ==
  ASSUME Truthful, [Next]_vars
  PROVE  Truthful'
<1>1. CASE Scan
  <2>1. LocalKeys \subseteq Keys
    BY DEF LocalKeys
  <2> QED
    BY <1>1, <2>1, ScanRejectInv, ScanTouchInv, ScanUpsertInv, ScanAnonymousInv, PassStartInv,
       PassEndInv DEF Scan
<1>2. CASE Command
  BY <1>2, CommandDeleteInv, AnalysisPublishInv, CommandBroadInv DEF Command
<1>3. CASE ReportSome
  BY <1>3, ReportStepInv DEF ReportSome
<1>4. CASE ActorStep
  BY <1>4, SelectInv, ExpireInv, PageArrivesInv, RecoveryPageArrivesInv, PageFailedInv, NoPageInv,
     PageRowInv, RecoveryRowInv, RecoveryPageEndsInv, TakeSpillInv, SpillRemovalInv, SpillRestInv,
     ReceiveInv, ApplyFactInv, FactsEndInv, IssueInv DEF ActorStep
<1>5. CASE UNCHANGED vars
  <2>1. UNCHANGED Round /\ reg' = reg /\ pc' = pc /\ budget' = budget /\ blocked' = blocked
        /\ inFlight' = inFlight /\ backoff' = backoff /\ page' = page
    BY <1>5 DEF vars, Round, actorVars
  <2>2. ActorTypeOK' /\ ReadInv'
    BY <2>1, RoundFrame DEF Truthful, ActorTypeOK, ReadInv
  <2> QED BY <2>1, <2>2, TruthfulParts, RoundStep
<1> QED
  BY <1>1, <1>2, <1>3, <1>4, <1>5, ScanSendInv, ReadPageInv, FailPageInv, BackoffElapsesInv,
     TickInv DEF Next

\* What is under way between the store and the registry is always true of the
\* store's history, and every variable has its type.
THEOREM TruthfulAlways == Spec => []Truthful
<1>1. Init => Truthful
  BY InitTruthful
<1>2. Truthful /\ [Next]_vars => Truthful'
  BY NextTruthful
<1> QED
  BY <1>1, <1>2, PTL DEF Spec

\* The store, the channels and the actor keep their types.
THEOREM TypesAlways == Spec => [](StoreTypeOK /\ ChannelTypeOK /\ ActorTypeOK)
<1>1. Truthful => StoreTypeOK /\ ChannelTypeOK /\ ActorTypeOK
  BY DEF Truthful
<1> QED
  BY <1>1, TruthfulAlways, PTL

\* No late fact makes an incarnation live again whose absence the registry has
\* applied (establish, apply_present_row and remember), for every bound of the
\* deletion memory, the pending set and the pages.
THEOREM NoResurrectionAlways == Spec => []NoResurrection
<1>1. Truthful => NoResurrection
  BY DEF Truthful, RegistryInv, KeyInv, NoResurrection
<1> QED
  BY <1>1, TruthfulAlways, PTL

\* No key is live and waiting for admission at once.
THEOREM LiveOrPendingAlways == Spec => []LiveOrPending
<1>1. Truthful => LiveOrPending
  BY DEF Truthful, RegistryInv, KeyInv, LiveOrPending
<1> QED
  BY <1>1, TruthfulAlways, PTL

----------------------------------------------------------------------------
(* The index, the view and the memory along a step of the actor.           *)

\* What a step of the actor does to an exact registry.
Sound == Exact(reg') /\ Grows(reg, reg')

\* A step that leaves the registry alone.
LEMMA UnchangedSound ==
  ASSUME Truthful, Exact(reg), reg' = reg
  PROVE  Sound
<1>1. reg \in Registry /\ Aside(reg, reg)
  BY TruthfulParts, AsideSelf DEF RegistryInv
<1> QED
  BY <1>1, AsideSound DEF Sound

\* Expiring the due deadlines.
LEMMA ExpireSound ==
  ASSUME Truthful, Exact(reg), Expire
  PROVE  Sound
<1>1. PICK d \in Due(reg, roundNow) : reg' = ExpireOne(reg, d, roundNow)
  BY DEF Expire
<1>2. d \in reg.deadlines /\ reg \in Registry
  BY <1>1, TruthfulParts DEF Due, RegistryInv
<1>3. Exact(reg') /\ SameMemory(reg, reg')
  BY <1>1, <1>2, ExpireOneExact, ExpireOneMemory
<1> QED
  BY <1>2, <1>3, SameGrows DEF Sound

\* The arrival of a recovery page.
LEMMA RecoveryPageArrivesSound ==
  ASSUME Truthful, Exact(reg), RecoveryPageArrives
  PROVE  Sound
<1>1. reg' = HoldRecoveryPage(reg, inFlight.active, inFlight.revision) /\ reg \in Registry
  BY TruthfulParts DEF RecoveryPageArrives, RegistryInv
<1> QED
  BY <1>1, HoldRecoveryPageAside, AsideSound DEF Sound

\* A row of a broad page.
LEMMA PageRowSound ==
  ASSUME Truthful, Exact(reg), PageRow
  PROVE  Sound
<1>1. pc = "rows" /\ page # None
  BY DEF PageRow, Truthful, ReadInv
<1>2. page \in PageInHand /\ Snapshot(page.rest, page.rows, page.revision, existed, rev)
  BY <1>1, ControlTypes
<1>3. PICK k \in page.rest :
        LET applied == ApplyRow(reg, k, page.rows, page.revision, roundNow)
            last == page.rest = {k}
        IN /\ reg' = IF last /\ page.class = "walk" THEN AdvanceWalk(applied, k) ELSE applied
  BY DEF PageRow
<1> DEFINE applied == ApplyRow(reg, k, page.rows, page.revision, roundNow)
<1>4. /\ k \in Keys /\ page.rows[k] \in Presence \cup {None} /\ page.revision \in Revision
  BY <1>2 DEF PageInHand
<1>5. /\ page.revision <= rev
      /\ page.rows[k] = None => \A x \in existed : x[1] = k => x[3] # page.revision
      /\ page.rows[k] # None => <<k, page.rows[k].incarnation, page.revision>> \in existed
  BY <1>2 DEF Snapshot
<1>6. page.rows[k] = None => \A j \in Incarnation : <<k, j, page.revision>> \notin existed
  <2>1. \A j : LET x == <<k, j, page.revision>> IN x[1] = k /\ x[3] = page.revision
    OBVIOUS
  <2> QED BY <1>5, <2>1
<1>7. RegistryInv(reg, existed, rev) /\ History(existed, rev)
  BY TruthfulParts
<1>8. applied \in Registry /\ Exact(applied) /\ Grows(reg, applied)
  <2>1. RegistryInv(applied, existed, rev)
    BY <1>4, <1>5, <1>6, <1>7, ApplyRowInv
  <2>2. Exact(applied)
    BY <1>4, <1>5, <1>7, ApplyRowExact
  <2>3. Grows(reg, applied)
    BY <1>4, <1>5, <1>7, ApplyRowMemory
  <2> QED BY <2>1, <2>2, <2>3 DEF RegistryInv
<1>9. reg' = applied \/ reg' = AdvanceWalk(applied, k)
  BY <1>3, Zenon
<1> HIDE DEF applied
<1>10. Aside(applied, reg')
  BY <1>8, <1>9, AdvanceWalkAside, AsideSelf
<1> QED
  BY <1>8, <1>10, SameExact, GrowsFrame, SameMemorySelf DEF Aside, Sound

\* A row of a recovery page.
LEMMA RecoveryRowSound ==
  ASSUME Truthful, Exact(reg), RecoveryRow
  PROVE  Sound
<1>1. /\ reg.recovery # None /\ reg.recovery.page # None /\ reg.recovery.page.rows # <<>>
      /\ reg' = RecoverRow(reg, roundNow).reg
  BY DEF RecoveryRow, Truthful, ReadInv
<1> QED
  BY <1>1, TruthfulParts, RecoverRowSound DEF Sound

\* The end of a recovery page.
LEMMA RecoveryPageEndsSound ==
  ASSUME Truthful, Exact(reg), RecoveryPageEnds
  PROVE  Sound
<1>1. reg' = FinishRecoveryPage(reg) /\ reg \in Registry
  BY TruthfulParts DEF RecoveryPageEnds, RegistryInv
<1> QED
  BY <1>1, FinishRecoveryPageAside, AsideSound DEF Sound

\* Issuing the next page read.
LEMMA IssueSound ==
  ASSUME Truthful, Exact(reg), Issue
  PROVE  Sound
<1> DEFINE n == NextPage(reg, roundNow)
<1>1. reg' = n.reg \/ reg' = reg
  BY Zenon DEF Issue
<1>2. Aside(reg, n.reg) /\ reg \in Registry
  BY TruthfulParts, NextPageAside DEF RegistryInv
<1> HIDE DEF n
<1>3. Aside(reg, reg')
  BY <1>1, <1>2, AsideSelf
<1> QED
  BY <1>2, <1>3, AsideSound DEF Sound

\* Replaying a spilled removal.
LEMMA SpillRemovalSound ==
  ASSUME Truthful, Exact(reg), SpillRemoval
  PROVE  Sound
<1>1. PICK k \in TakenKeys :
        reg' = Remove(reg, k, taken.removed[k].incarnation, taken.removed[k].absent_at)
  BY DEF SpillRemoval
<1>2. /\ k \in Keys /\ taken.removed[k].incarnation \in Incarnation
      /\ taken.removed[k].absent_at \in Revision /\ reg \in Registry
  BY <1>1, TruthfulParts DEF TakenKeys, Spill, Deletion, RegistryInv
<1> QED
  BY <1>1, <1>2, RemoveExact, RemoveMemory DEF Sound

\* Replaying the rest of the spill.
LEMMA SpillRestSound ==
  ASSUME Truthful, Exact(reg), SpillRest
  PROVE  Sound
<1>1. reg' = IF taken.broad = None THEN reg ELSE Broad(reg, taken.broad)
  BY DEF SpillRest
<1>2. taken.broad \in Revision \cup {None} /\ reg \in Registry
  BY TruthfulParts DEF Spill, RegistryInv
<1>3. taken.broad # None => Exact(Broad(reg, taken.broad)) /\ Grows(reg, Broad(reg, taken.broad))
  BY <1>2, BroadSame, SameExact, BroadMemory
<1> QED
  BY <1>1, <1>3, UnchangedSound DEF Sound

\* Observing a report that is not about a row.
LEMMA ObserveOtherSound ==
  ASSUME NEW E, NEW R, NEW r \in Registry, Exact(r), NEW o \in TrueObs(E, R), o.type # "exists"
  PROVE  Exact(ObserveOther(r, o)) /\ Grows(r, ObserveOther(r, o))
<1>1. CASE o.type = "removed"
  <2>1. o.key \in Keys /\ o.incarnation \in Incarnation /\ o.revision \in Revision
    BY <1>1 DEF TrueObs, Observation, SyncObservation, ExistsObs, RemovedObs, BroadObs, RowObs,
                AnonymousObs, CoveredObs
  <2>2. ObserveOther(r, o) = Remove(r, o.key, o.incarnation, o.revision)
    BY <1>1 DEF ObserveOther
  <2> QED BY <2>1, <2>2, RemoveExact, RemoveMemory
<1>2. CASE o.type = "broad"
  <2>1. o.revision \in Revision
    BY <1>2 DEF TrueObs, Observation, SyncObservation, ExistsObs, RemovedObs, BroadObs, RowObs,
                AnonymousObs, CoveredObs
  <2>2. ObserveOther(r, o) = Broad(r, o.revision)
    BY <1>2 DEF ObserveOther
  <2> QED BY <2>1, <2>2, BroadSame, SameExact, BroadMemory
<1>3. CASE o.type = "anonymous"
  <2>1. o.agent \in Agents /\ o.at \in Time /\ o.generation \in Nat
    BY <1>3 DEF TrueObs, Observation, SyncObservation, ExistsObs, RemovedObs, BroadObs, RowObs,
                AnonymousObs, CoveredObs
  <2>2. ObserveOther(r, o) = AnonymousTouch(r, o.agent, o.at, o.generation, roundNow)
    BY <1>3 DEF ObserveOther
  <2> QED BY <2>1, <2>2, AnonymousTouchExact, AnonymousTouchMemory, SameGrows
<1>4. CASE o.type = "covered"
  <2>1. o.agent \in Agents
    BY <1>4 DEF TrueObs, Observation, SyncObservation, ExistsObs, RemovedObs, BroadObs, RowObs,
                AnonymousObs, CoveredObs
  <2>2. ObserveOther(r, o) = Cover(r, o.agent, o.through)
    BY <1>4 DEF ObserveOther
  <2> QED BY <2>1, <2>2, CoverExact, CoverMemory, SameGrows
<1>5. CASE o.type = "rowChanged"
  <2>1. ObserveOther(r, o) = r
    BY <1>5 DEF ObserveOther
  <2> QED BY <2>1, AsideSelf, AsideSound
<1> QED
  BY <1>1, <1>2, <1>3, <1>4, <1>5
     DEF TrueObs, Observation, SyncObservation, ExistsObs, RemovedObs, BroadObs, RowObs,
         AnonymousObs, CoveredObs

\* Applying a fact of the inbox.
LEMMA ApplyFactSound ==
  ASSUME Truthful, Exact(reg), ApplyFact
  PROVE  Sound
<1> DEFINE T == TrueObs(existed, rev)
           o == Head(carry)
           fact == [incarnation |-> o.incarnation, at |-> o.at, revision |-> o.revision]
           seen == Observe(reg, o.key, fact, roundNow)
           other == ObserveOther(reg, o)
           t == IF o.type = "exists" THEN seen ELSE Touched(other, "unchanged")
<1>1. carry # <<>> /\ reg' = t.reg
  BY DEF ApplyFact
<1>2. carry \in Seq(T)
  BY TruthfulParts DEF TrueObs
<1> HIDE DEF T
<1>3. o \in T
  BY <1>1, <1>2
<1> HIDE DEF o
<1>4. RegistryInv(reg, existed, rev) /\ History(existed, rev) /\ reg \in Registry
  BY TruthfulParts DEF RegistryInv
<1>5. CASE o.type = "exists"
  <2>1. o \in ExistsObs /\ <<o.key, o.incarnation, o.revision>> \in existed
    BY <1>3, <1>5 DEF T, TrueObs, Observation, SyncObservation, ExistsObs, RemovedObs, BroadObs,
                      RowObs, AnonymousObs, CoveredObs
  <2>2. o.key \in Keys /\ TrueFact(existed, o.key, fact)
    BY <2>1 DEF ExistsObs, TrueFact, Existence
  <2>3. t = seen
    BY <1>5
  <2> HIDE DEF fact, t
  <2>4. Exact(seen.reg) /\ Grows(reg, seen.reg)
    BY <1>4, <2>2, ObserveExact, ObserveMemory
  <2> QED BY <1>1, <2>3, <2>4 DEF Sound
<1>6. CASE o.type # "exists"
  <2>1. Exact(other) /\ Grows(reg, other)
    BY <1>3, <1>4, <1>6, ObserveOtherSound DEF T
  <2> HIDE DEF other, seen
  <2>2. t.reg = other
    BY <1>6 DEF Touched
  <2> HIDE DEF t
  <2> QED BY <1>1, <2>1, <2>2 DEF Sound
<1> QED
  BY <1>5, <1>6

\* Every step keeps the registry exact and grows its memory.
LEMMA NextSound ==
  ASSUME Truthful, Exact(reg), [Next]_vars
  PROVE  Sound
<1>1. \/ reg' = reg
      \/ Expire \/ RecoveryPageArrives \/ PageRow \/ RecoveryRow \/ RecoveryPageEnds
      \/ SpillRemoval \/ SpillRest \/ ApplyFact \/ Issue
  <2>1. CASE Scan
    BY <2>1 DEF Scan, ScanReject, ScanTouch, ScanUpsert, ScanAnonymous, PassStart, PassEnd,
                actorVars
  <2>2. CASE Command \/ ReportSome \/ ScanSend
    BY <2>2 DEF Command, CommandDelete, AnalysisPublish, CommandBroad, ReportSome, Report,
                ScanSend, actorVars
  <2>3. CASE ReadPage \/ FailPage \/ BackoffElapses \/ Tick
    BY <2>3 DEF ReadPage, FailPage, BackoffElapses, Tick, actorVars
  <2>4. CASE ActorStep
    BY <2>4 DEF ActorStep, Select, PageArrives, PageFailed, NoPage, TakeSpill, Receive, FactsEnd
  <2>5. CASE UNCHANGED vars
    BY <2>5 DEF vars, actorVars
  <2> QED BY <2>1, <2>2, <2>3, <2>4, <2>5 DEF Next
<1> QED
  BY <1>1, UnchangedSound, ExpireSound, RecoveryPageArrivesSound, PageRowSound, RecoveryRowSound,
     RecoveryPageEndsSound, SpillRemovalSound, SpillRestSound, ApplyFactSound, IssueSound

\* The seed is indexed and counted, and the clients start from it.
LEMMA InitExact ==
  ASSUME Init
  PROVE  Exact(reg)
<1>1. Empty.anonymous = [a \in Agents |-> None] /\ Empty.anonymousView = {}
  BY DEF Empty
<1>2. AnonymousDeadlines(Empty.anonymous) = {} /\ {a \in Agents : Empty.anonymous[a] # None} = {}
  BY <1>1 DEF AnonymousDeadlines
<1>3. Seeding(reg)
  BY SeedIs
<1> QED
  BY <1>1, <1>2, <1>3 DEF Seeding, Exact, IndexOK, ViewOK

\* The deadline index, the working count and the clients' view are always exact.
LEMMA ExactAlways == Spec => []Exact(reg)
<1>1. Init => Exact(reg)
  BY InitExact
<1>2. Truthful /\ Exact(reg) /\ [Next]_vars => Exact(reg)'
  BY NextSound DEF Sound
<1> QED
  BY <1>1, <1>2, TruthfulAlways, PTL DEF Spec

\* The deadline index holds exactly one deadline per live session and anonymous
\* agent, and the working count is exact (insert_live, remove_live, establish,
\* expire, anonymous and cover), for every set of keys and agents.
THEOREM IndexExactAlways == Spec => []IndexExact
<1>1. Exact(reg) => IndexExact
  BY DEF Exact, IndexOK, SessionDeadlines, AnonymousDeadlines, Busy, IndexExact
<1> QED
  BY <1>1, ExactAlways, PTL

\* A client that applies the published events has the registry's live set (every
\* Started, Activity, Quiet, Idle and AnonymousCleared that observe, remove,
\* apply_page and expire publish).
THEOREM ViewExactAlways == Spec => []ViewExact
<1>1. Exact(reg) => ViewExact
  BY DEF Exact, ViewOK, Shown, ViewExact
<1> QED
  BY <1>1, ExactAlways, PTL

\* No step moves the admission guards back, and a remembered deletion only grows
\* until remember() evicts it into forgotten_through.
THEOREM GuardsGrowAlways == Spec => GuardsGrow
<1> DEFINE G == /\ reg'.forgotten_through >= reg.forgotten_through
                /\ reg'.broad_through >= reg.broad_through
                /\ \A k \in Keys : reg.deleted[k] # None =>
                      IF reg'.deleted[k] = None
                      THEN reg'.forgotten_through >= reg.deleted[k].absent_at
                      ELSE /\ reg'.deleted[k].incarnation >= reg.deleted[k].incarnation
                           /\ reg'.deleted[k].absent_at >= reg.deleted[k].absent_at
<1>1. Truthful /\ Exact(reg) /\ [Next]_vars => [G]_vars
  BY NextSound DEF Sound, Grows, KeyGrows
<1> QED
  BY <1>1, TruthfulAlways, ExactAlways, PTL DEF Spec, GuardsGrow

----------------------------------------------------------------------------
(* The caps, and the wakeups of the actor.                                 *)

\* The actions that change the registry.
LEMMA RegistrySteps ==
  ASSUME [Next]_vars
  PROVE  \/ reg' = reg
         \/ Expire \/ RecoveryPageArrives \/ PageRow \/ RecoveryRow \/ RecoveryPageEnds
         \/ SpillRemoval \/ SpillRest \/ ApplyFact \/ Issue
<1>1. CASE Scan
  BY <1>1 DEF Scan, ScanReject, ScanTouch, ScanUpsert, ScanAnonymous, PassStart, PassEnd,
              actorVars
<1>2. CASE Command \/ ReportSome \/ ScanSend
  BY <1>2 DEF Command, CommandDelete, AnalysisPublish, CommandBroad, ReportSome, Report,
              ScanSend, actorVars
<1>3. CASE ReadPage \/ FailPage \/ BackoffElapses \/ Tick
  BY <1>3 DEF ReadPage, FailPage, BackoffElapses, Tick, actorVars
<1>4. CASE ActorStep
  BY <1>4 DEF ActorStep, Select, PageArrives, PageFailed, NoPage, TakeSpill, Receive, FactsEnd
<1>5. CASE UNCHANGED vars
  BY <1>5 DEF vars, actorVars
<1> QED BY <1>1, <1>2, <1>3, <1>4, <1>5 DEF Next

\* A row of a page keeps the caps.
LEMMA PageRowCapped ==
  ASSUME Truthful, Capped(reg), PageRow
  PROVE  Capped(reg')
<1>1. pc = "rows" /\ page # None
  BY DEF PageRow, Truthful, ReadInv
<1>2. page \in PageInHand /\ Snapshot(page.rest, page.rows, page.revision, existed, rev)
  BY <1>1, ControlTypes
<1>3. PICK k \in page.rest :
        LET applied == ApplyRow(reg, k, page.rows, page.revision, roundNow)
            last == page.rest = {k}
        IN /\ reg' = IF last /\ page.class = "walk" THEN AdvanceWalk(applied, k) ELSE applied
  BY DEF PageRow
<1> DEFINE applied == ApplyRow(reg, k, page.rows, page.revision, roundNow)
<1>4. /\ k \in Keys /\ page.rows[k] \in Presence \cup {None} /\ page.revision \in Revision
  BY <1>2 DEF PageInHand
<1>5. /\ page.revision <= rev
      /\ page.rows[k] = None => \A x \in existed : x[1] = k => x[3] # page.revision
      /\ page.rows[k] # None => <<k, page.rows[k].incarnation, page.revision>> \in existed
  BY <1>2 DEF Snapshot
<1>6. page.rows[k] = None => \A j \in Incarnation : <<k, j, page.revision>> \notin existed
  <2>1. \A j : LET x == <<k, j, page.revision>> IN x[1] = k /\ x[3] = page.revision
    OBVIOUS
  <2> QED BY <1>5, <2>1
<1>7. RegistryInv(reg, existed, rev) /\ History(existed, rev)
  BY TruthfulParts
<1>8. applied \in Registry /\ Capped(applied)
  <2>1. RegistryInv(applied, existed, rev)
    BY <1>4, <1>5, <1>6, <1>7, ApplyRowInv
  <2>2. Capped(applied)
    BY <1>4, <1>5, <1>7, ApplyRowCapped
  <2> QED BY <2>1, <2>2 DEF RegistryInv
<1>9. reg' = applied \/ reg' = AdvanceWalk(applied, k)
  BY <1>3, Zenon
<1> HIDE DEF applied
<1> QED
  BY <1>8, <1>9, AdvanceWalkRelieves, RelievesCapped

\* observe() of anything but an existence keeps the caps.
LEMMA ObserveOtherCapped ==
  ASSUME NEW E, NEW R, NEW r \in Registry, Capped(r), NEW o \in TrueObs(E, R), o.type # "exists"
  PROVE  Capped(ObserveOther(r, o))
<1>1. CASE o.type = "removed"
  <2>1. o.key \in Keys /\ o.incarnation \in Incarnation /\ o.revision \in Revision
    BY <1>1 DEF TrueObs, Observation, SyncObservation, ExistsObs, RemovedObs, BroadObs, RowObs,
                AnonymousObs, CoveredObs
  <2>2. ObserveOther(r, o) = Remove(r, o.key, o.incarnation, o.revision)
    BY <1>1 DEF ObserveOther
  <2> QED BY <2>1, <2>2, RemoveCapped
<1>2. CASE o.type = "broad"
  <2>1. ObserveOther(r, o) = Broad(r, o.revision)
    BY <1>2 DEF ObserveOther
  <2> QED BY <2>1, BroadRelieves, RelievesCapped
<1>3. CASE o.type = "anonymous"
  <2>1. ObserveOther(r, o) = AnonymousTouch(r, o.agent, o.at, o.generation, roundNow)
    BY <1>3 DEF ObserveOther
  <2> QED BY <2>1, AnonymousTouchRelieves, RelievesCapped
<1>4. CASE o.type = "covered"
  <2>1. ObserveOther(r, o) = Cover(r, o.agent, o.through)
    BY <1>4 DEF ObserveOther
  <2> QED BY <2>1, CoverRelieves, RelievesCapped
<1>5. CASE o.type = "rowChanged"
  <2>1. ObserveOther(r, o) = r
    BY <1>5 DEF ObserveOther
  <2> QED BY <2>1
<1> QED
  BY <1>1, <1>2, <1>3, <1>4, <1>5
     DEF TrueObs, Observation, SyncObservation, ExistsObs, RemovedObs, BroadObs, RowObs,
         AnonymousObs, CoveredObs

\* A fact keeps the caps, and only a full pending set blocks the carry.
LEMMA ApplyFactFits ==
  ASSUME Truthful, Capped(reg), ApplyFact
  PROVE  Capped(reg') /\ (blocked' => Full(reg'))
<1> DEFINE T == TrueObs(existed, rev)
           o == Head(carry)
           fact == [incarnation |-> o.incarnation, at |-> o.at, revision |-> o.revision]
           seen == Observe(reg, o.key, fact, roundNow)
           other == ObserveOther(reg, o)
           t == IF o.type = "exists" THEN seen ELSE Touched(other, "unchanged")
<1>1. carry # <<>> /\ reg' = t.reg /\ (blocked' => t.touch = "blocked")
  BY DEF ApplyFact
<1>2. carry \in Seq(T)
  BY TruthfulParts DEF TrueObs
<1> HIDE DEF T
<1>3. o \in T
  BY <1>1, <1>2
<1> HIDE DEF o
<1>4. RegistryInv(reg, existed, rev) /\ History(existed, rev) /\ reg \in Registry
  BY TruthfulParts DEF RegistryInv
<1>5. Fits(t)
  <2>1. CASE o.type = "exists"
    <3>1. o \in ExistsObs /\ <<o.key, o.incarnation, o.revision>> \in existed
      BY <1>3, <2>1 DEF T, TrueObs, Observation, SyncObservation, ExistsObs, RemovedObs, BroadObs,
                        RowObs, AnonymousObs, CoveredObs
    <3>2. o.key \in Keys /\ TrueFact(existed, o.key, fact)
      BY <3>1 DEF ExistsObs, TrueFact, Existence
    <3>3. t = seen
      BY <2>1
    <3> HIDE DEF fact, t
    <3> QED BY <1>4, <3>2, <3>3, ObserveFits
  <2>2. CASE o.type # "exists"
    <3>1. Capped(other)
      BY <1>3, <1>4, <2>2, ObserveOtherCapped DEF T
    <3> HIDE DEF other, seen
    <3>2. t = Touched(other, "unchanged")
      BY <2>2
    <3> HIDE DEF t
    <3> QED BY <3>1, <3>2, TouchedFits
  <2> QED BY <2>1, <2>2
<1> HIDE DEF t
<1> QED
  BY <1>1, <1>5 DEF Fits

\* None is no page request.
LEMMA RequestIsNotNone == RequestsDiffer
  BY NoneIsNoPage DEF RequestsDiffer, Request, PageRequest

\* Every step keeps the caps of the registry.
LEMMA NextCapped ==
  ASSUME Truthful, Capped(reg), [Next]_vars
  PROVE  Capped(reg')
<1>1. RegistryInv(reg, existed, rev) /\ History(existed, rev) /\ reg \in Registry
  BY TruthfulParts DEF RegistryInv
<1>2. CASE Expire
  <2>1. PICK d \in Due(reg, roundNow) : reg' = ExpireOne(reg, d, roundNow)
    BY <1>2 DEF Expire
  <2>2. d \in reg.deadlines
    BY <2>1 DEF Due
  <2> QED BY <1>1, <2>1, <2>2, ExpireOneRelieves, RelievesCapped
<1>3. CASE RecoveryPageArrives
  <2>1. reg' = HoldRecoveryPage(reg, inFlight.active, inFlight.revision)
    BY <1>3 DEF RecoveryPageArrives
  <2> QED BY <1>1, <2>1, HoldRecoveryPageRelieves, RelievesCapped
<1>4. CASE RecoveryRow
  <2>1. /\ reg.recovery # None /\ reg.recovery.page # None /\ reg.recovery.page.rows # <<>>
        /\ reg' = RecoverRow(reg, roundNow).reg
    BY <1>4 DEF RecoveryRow, Truthful, ReadInv
  <2> QED BY <1>1, <2>1, RecoverRowCapped
<1>5. CASE RecoveryPageEnds
  <2>1. reg' = FinishRecoveryPage(reg)
    BY <1>5 DEF RecoveryPageEnds
  <2> QED BY <1>1, <2>1, FinishRecoveryPageRelieves, RelievesCapped
<1>6. CASE SpillRemoval
  <2>1. PICK k \in TakenKeys :
          reg' = Remove(reg, k, taken.removed[k].incarnation, taken.removed[k].absent_at)
    BY <1>6 DEF SpillRemoval
  <2>2. /\ k \in Keys /\ taken.removed[k].incarnation \in Incarnation
        /\ taken.removed[k].absent_at \in Revision
    BY <2>1, TruthfulParts DEF TakenKeys, Spill, Deletion
  <2> QED BY <1>1, <2>1, <2>2, RemoveCapped
<1>7. CASE SpillRest
  <2>1. reg' = reg \/ reg' = Broad(reg, taken.broad)
    BY <1>7, Zenon DEF SpillRest
  <2> QED BY <1>1, <2>1, BroadRelieves, RelievesCapped
<1>8. CASE Issue
  <2> DEFINE n == NextPage(reg, roundNow)
  <2>1. reg' = n.reg \/ reg' = reg
    BY <1>8, Zenon DEF Issue
  <2>2. Relieves(reg, n.reg)
    BY <1>1, NextPageServed, RequestIsNotNone
  <2> HIDE DEF n
  <2> QED BY <2>1, <2>2, RelievesCapped
<1> QED
  BY <1>2, <1>3, <1>4, <1>5, <1>6, <1>7, <1>8, RegistrySteps, PageRowCapped, ApplyFactFits

\* The cells of the spill that hold a removal.
SpilledKeys(s) == {k \in Keys : s.removed[k] # None}

SpillCapped(s) ==
    /\ Cardinality(s.rows) <= SpillCap
    /\ Cardinality(SpilledKeys(s)) <= SpillCap

\* The cells of the spill are finitely many.
LEMMA SpillSets ==
  ASSUME NEW s \in Spill
  PROVE  /\ IsFiniteSet(s.rows) /\ Cardinality(s.rows) \in Nat
         /\ IsFiniteSet(SpilledKeys(s)) /\ Cardinality(SpilledKeys(s)) \in Nat
<1>1. s.rows \subseteq Keys /\ SpilledKeys(s) \subseteq Keys
  BY DEF Spill, SpilledKeys
<1> QED
  BY <1>1, KeysAssumption, FS_Subset, FS_CardinalityType

\* Spill::fold opens a cell only where one is free.
LEMMA FoldCapped ==
  ASSUME NEW s \in Spill, SpillCapped(s), NEW o \in SyncObservation
  PROVE  SpillCapped(Fold(s, o))
<1>1. ASSUME NEW q PROVE SpillCapped(FoldBroad(s, q))
  <2>1. FoldBroad(s, q).rows = s.rows /\ FoldBroad(s, q).removed = s.removed
    BY DEF FoldBroad, Spill
  <2> QED BY <2>1 DEF SpillCapped, SpilledKeys
<1>2. CASE o.type = "broad"
  BY <1>1, <1>2 DEF Fold
<1>3. CASE o.type = "rowChanged"
  <2> DEFINE more == s.rows \cup {o.key}
             u == [s EXCEPT !.rows = more]
             v == [s EXCEPT !.invalidated = TRUE]
  <2>1. \/ (o.key \in s.rows \/ Cardinality(s.rows) < SpillCap) /\ Fold(s, o) = u
        \/ Fold(s, o) = v
    BY <1>3, Zenon DEF Fold
  <2>2. /\ u.rows = more /\ u.removed = s.removed /\ v.rows = s.rows /\ v.removed = s.removed
    BY DEF Spill
  <2>3. /\ o.key \in s.rows => more = s.rows
        /\ Cardinality(more) \in Nat /\ Cardinality(more) <= Cardinality(s.rows) + 1
    BY SpillSets, AddAtMostOne
  <2>4. (o.key \in s.rows \/ Cardinality(s.rows) < SpillCap) => Cardinality(more) <= SpillCap
    <3> HIDE DEF more
    <3> QED BY <2>3, SpillSets, BoundAssumption DEF SpillCapped
  <2> HIDE DEF u, v, more
  <2> QED BY <2>1, <2>2, <2>4 DEF SpillCapped, SpilledKeys
<1>4. CASE o.type = "removed"
  <2> DEFINE k == o.key
             cell == s.removed[k]
             joined == [incarnation |-> Max2(cell.incarnation, o.incarnation),
                        absent_at |-> Max2(cell.absent_at, o.revision)]
             new == [incarnation |-> o.incarnation, absent_at |-> o.revision]
             put(c) == [s EXCEPT !.removed[k] = c]
             free == Cardinality(SpilledKeys(s)) < SpillCap
  <2>1. \/ cell # None /\ Fold(s, o) = put(joined)
        \/ free /\ Fold(s, o) = put(new)
        \/ Fold(s, o) = FoldBroad(s, o.revision)
    BY <1>4, Zenon DEF Fold, SpilledKeys
  <2>2. k \in Keys /\ DOMAIN s.removed = Keys
    BY <1>4 DEF SyncObservation, RemovedObs, BroadObs, RowObs, Spill
  <2> HIDE DEF joined, new
  <2>3. ASSUME NEW c PROVE put(c).rows = s.rows /\ put(c).removed = [s.removed EXCEPT ![k] = c]
    BY DEF Spill
  <2> HIDE DEF put, k
  <2>4. ASSUME NEW c, cell # None \/ free PROVE SpillCapped(put(c))
    <3>1. put(c).rows = s.rows /\ put(c).removed = [s.removed EXCEPT ![k] = c]
      BY <2>3
    <3>2. SpilledKeys(put(c)) \subseteq SpilledKeys(s) \cup {k}
      BY <2>2, <3>1 DEF SpilledKeys
    <3>3. /\ IsFiniteSet(SpilledKeys(s) \cup {k})
          /\ Cardinality(SpilledKeys(s) \cup {k}) \in Nat
          /\ Cardinality(SpilledKeys(s) \cup {k}) <= Cardinality(SpilledKeys(s)) + 1
      BY SpillSets, AddAtMostOne
    <3>4. cell # None => SpilledKeys(s) \cup {k} = SpilledKeys(s)
      BY <2>2 DEF SpilledKeys
    <3>5. /\ Cardinality(SpilledKeys(put(c))) <= Cardinality(SpilledKeys(s) \cup {k})
          /\ Cardinality(SpilledKeys(put(c))) \in Nat
      BY <3>2, <3>3, FS_Subset, FS_CardinalityType
    <3>6. Cardinality(SpilledKeys(s) \cup {k}) <= SpillCap
      <4>1. /\ Cardinality(SpilledKeys(s)) <= SpillCap /\ Cardinality(SpilledKeys(s)) \in Nat
            /\ SpillCap \in Nat
        BY SpillSets, BoundAssumption DEF SpillCapped
      <4>2. CASE cell # None
        BY <3>4, <4>1, <4>2
      <4>3. CASE free
        BY <3>3, <4>1, <4>3
      <4> QED BY <2>4, <4>2, <4>3
    <3> QED BY <3>1, <3>3, <3>5, <3>6, BoundAssumption DEF SpillCapped
  <2> HIDE DEF cell, free
  <2> QED BY <1>1, <2>1, <2>4
<1> QED
  BY <1>2, <1>3, <1>4 DEF SyncObservation, RemovedObs, BroadObs, RowObs

\* The bounded state of the channels and the registry.
CapInv == Capped(reg) /\ Len(inbox) <= InboxCap /\ SpillCapped(spill)

\* The empty spill is within its caps.
LEMMA EmptySpillCapped == SpillCapped(EmptySpill)
<1>1. EmptySpill.rows = {} /\ SpilledKeys(EmptySpill) = {}
  BY DEF EmptySpill, SpilledKeys
<1> QED
  BY <1>1, FS_EmptySet, BoundAssumption DEF SpillCapped

\* A drained inbox is no longer than before.
LEMMA DrainShortens ==
  ASSUME Truthful, Drain \/ UNCHANGED <<carry, inbox>>, Len(inbox) <= InboxCap
  PROVE  Len(inbox') <= InboxCap
<1> DEFINE T == TrueObs(existed, rev)
           n == IF Len(inbox) < DrainBatch THEN Len(inbox) ELSE DrainBatch
<1>1. inbox' = SubSeq(inbox, n + 1, Len(inbox)) \/ inbox' = inbox
  BY DEF Drain
<1>2. inbox \in Seq(T)
  BY TruthfulParts
<1> HIDE DEF T
<1>3. n \in Nat /\ n <= Len(inbox)
  BY <1>2, BoundAssumption
<1> HIDE DEF n
<1> DEFINE rest == SubSeq(inbox, n + 1, Len(inbox))
<1>4. Len(rest) <= Len(inbox) /\ Len(inbox) \in Nat /\ Len(rest) \in Nat
  BY <1>2, <1>3
<1>5. Len(inbox') = Len(rest) \/ Len(inbox') = Len(inbox)
  BY <1>1, Zenon
<1> HIDE DEF rest
<1> QED
  BY <1>4, <1>5, BoundAssumption

\* Every step keeps the caps of the inbox and of the spill.
LEMMA NextChannels ==
  ASSUME Truthful, CapInv, [Next]_vars
  PROVE  Len(inbox') <= InboxCap /\ SpillCapped(spill')
<1>1. \/ inbox' = inbox /\ spill' = spill
      \/ ScanSend \/ ReportSome \/ Select \/ TakeSpill \/ Receive
  <2>1. CASE Scan
    BY <2>1 DEF Scan, ScanReject, ScanTouch, ScanUpsert, ScanAnonymous, PassStart, PassEnd,
                channelVars
  <2>2. CASE Command
    BY <2>2 DEF Command, CommandDelete, AnalysisPublish, CommandBroad, channelVars
  <2>3. CASE ReadPage \/ FailPage \/ BackoffElapses \/ Tick
    BY <2>3 DEF ReadPage, FailPage, BackoffElapses, Tick, channelVars
  <2>4. CASE ActorStep
    BY <2>4 DEF ActorStep, Expire, PageArrives, RecoveryPageArrives, PageFailed, NoPage, PageRow,
                RecoveryRow, RecoveryPageEnds, SpillRemoval, SpillRest, ApplyFact, FactsEnd, Issue,
                channelVars
  <2>5. CASE UNCHANGED vars
    BY <2>5 DEF vars, channelVars
  <2> QED BY <2>1, <2>2, <2>3, <2>4, <2>5 DEF Next
<1>2. /\ inbox \in Seq(TrueObs(existed, rev)) /\ spill \in Spill /\ cmdQ \subseteq SyncObservation
  BY TruthfulParts, ProducerTypes
<1>3. ASSUME NEW o, Len(inbox) < InboxCap PROVE Len(Append(inbox, o)) <= InboxCap
  <2>1. Len(Append(inbox, o)) = Len(inbox) + 1 /\ Len(inbox) \in Nat
    BY <1>2
  <2> QED BY <1>3, <2>1, BoundAssumption
<1>4. CASE ScanSend
  BY <1>3, <1>4 DEF ScanSend, CapInv
<1>5. CASE ReportSome
  <2>1. PICK o \in cmdQ : Report(o)
    BY <1>5 DEF ReportSome
  <2>2. SpillCapped(Fold(spill, o))
    BY <1>2, <2>1, FoldCapped DEF CapInv
  <2> QED BY <1>3, <2>1, <2>2 DEF Report, CapInv
<1>6. CASE Select
  BY <1>6, DrainShortens DEF Select, CapInv
<1>7. CASE TakeSpill
  BY <1>7, EmptySpillCapped DEF TakeSpill, CapInv
<1>8. CASE Receive
  BY <1>8, DrainShortens DEF Receive, CapInv
<1> QED
  BY <1>1, <1>4, <1>5, <1>6, <1>7, <1>8 DEF CapInv

\* The seed fills neither the pending set nor the deletion memory.
LEMMA InitCaps ==
  ASSUME Init
  PROVE  CapInv
<1>1. \A k \in Keys : reg.pending[k] = None /\ reg.deleted[k] = None
  BY SeedIs DEF Seeding, Empty
<1>2. Waiting(reg) = {} /\ Remembered(reg.deleted) = {}
  BY <1>1 DEF Waiting, Remembered
<1>3. Capped(reg)
  BY <1>2, FS_EmptySet, CapAssumption DEF Capped
<1>4. inbox = <<>> /\ spill = EmptySpill
  BY DEF Init
<1> QED
  BY <1>3, <1>4, EmptySpillCapped, BoundAssumption DEF CapInv

\* The caps always hold.
LEMMA CapsAlways == Spec => []CapInv
<1>1. Init => CapInv
  BY InitCaps
<1>2. Truthful /\ CapInv /\ [Next]_vars => CapInv'
  BY NextCapped, NextChannels DEF CapInv
<1> QED
  BY <1>1, <1>2, TruthfulAlways, PTL DEF Spec

\* Every variable keeps its type, and the inbox, the spill, the pending set and
\* the deletion memory stay within INBOX_CAPACITY, SPILL_KEY_CAP,
\* ADMISSION_PENDING_CAP and DELETION_MEMORY_CAP (report, Spill::fold, defer,
\* remember), for every value of those caps.
THEOREM TypeOKAlways == Spec => []TypeOK
<1>1. Truthful /\ CapInv => TypeOK
  BY DEF Truthful, CapInv, Capped, SpillCapped, SpilledKeys, TypeOK
<1> QED
  BY <1>1, TruthfulAlways, CapsAlways, PTL

----------------------------------------------------------------------------
(* The wakeups of the actor.                                               *)

\* The wakeup of a spill is pending, or the actor takes the spill this round.
WakeInv == spill # EmptySpill => spillWake \/ pc \in {"expire", "rows", "recover", "spill"}

\* A blocked carry waits only for a full pending set.
BlockInv == blocked /\ pc \in {"issue", "select"} => Full(reg)

\* A round ends without a page read only when no page is wanted, a held recovery
\* page can go on, or the retry of a failed page waits.
IssuedInv ==
  pc = "select" /\ inFlight = None /\ backoff = "none" => ~WantsPage(reg) \/ RecoveryReady(reg)

SleepInv == WakeInv /\ BlockInv /\ IssuedInv

\* What a read returns.
LEMMA ReadPageResult ==
  ASSUME Truthful, ReadPage
  PROVE  /\ inFlight \in PageOutcome /\ inFlight' \in PageOutcome
         /\ inFlight'.request = inFlight.request /\ inFlight'.status = "ok"
         /\ inFlight'.revision = rev
         /\ \A k \in inFlight.request.keys : inFlight'.rows[k] = row[k]
         /\ inFlight'.active = <<>> \/ inFlight'.active \in ActivePages(reg.recovery)
<1> DEFINE keys == inFlight.request.keys
           rows == [k \in Keys |-> IF k \in keys THEN row[k] ELSE None]
<1>1. PICK active \in IF inFlight.request.class = "recovery"
                      THEN ActivePages(reg.recovery) ELSE {<<>>} :
        inFlight' = [inFlight EXCEPT !.status = "ok", !.revision = rev, !.rows = rows,
                                     !.active = active]
  BY DEF ReadPage
<1>2. inFlight # None
  BY DEF ReadPage
<1>3. active \in Seq(ActiveRow) /\ (active = <<>> \/ active \in ActivePages(reg.recovery))
  <2>1. CASE active \in ActivePages(reg.recovery)
    BY <2>1, ActivePagesTrue
  <2>2. CASE active = <<>>
    BY <2>2
  <2> QED BY <1>1, <2>1, <2>2
<1>4. /\ rev \in Revision /\ row \in [Keys -> Presence \cup {None}]
      /\ inFlight \in PageOutcome /\ keys \subseteq Keys
  BY <1>2 DEF Truthful, StoreTypeOK, ActorTypeOK, PageOutcome, PageRequest
<1>5. rows \in [Keys -> Presence \cup {None}] /\ \A k \in keys : rows[k] = row[k]
  BY <1>4
<1> HIDE DEF rows
<1> QED
  BY <1>1, <1>3, <1>4, <1>5 DEF PageOutcome

\* What the steps outside the actor leave alone.
LEMMA OutsideSteps ==
  ASSUME Scan \/ ScanSend \/ Command \/ ReportSome \/ Tick \/ UNCHANGED vars
  PROVE  /\ UNCHANGED <<reg, pc, blocked, inFlight, backoff>>
         /\ spillWake' \/ UNCHANGED <<spill, spillWake>>
<1>1. CASE Scan
  BY <1>1 DEF Scan, ScanReject, ScanTouch, ScanUpsert, ScanAnonymous, PassStart, PassEnd,
              actorVars, channelVars
<1>2. CASE Command
  BY <1>2 DEF Command, CommandDelete, AnalysisPublish, CommandBroad, actorVars, channelVars
<1>3. CASE ReportSome
  <2>1. PICK o \in cmdQ : Report(o)
    BY <1>3 DEF ReportSome
  <2> QED BY <2>1 DEF Report, actorVars
<1>4. CASE ScanSend \/ Tick
  BY <1>4 DEF ScanSend, Tick, actorVars, channelVars
<1>5. CASE UNCHANGED vars
  BY <1>5 DEF vars, actorVars, channelVars
<1> QED BY <1>1, <1>2, <1>3, <1>4, <1>5

\* The end of a round finds the page that is wanted, and unblocks the carry when
\* the pruning made room.
LEMMA IssueSleep ==
  ASSUME Truthful, SleepInv, Issue
  PROVE  SleepInv'
<1> DEFINE n == NextPage(reg, roundNow)
<1>1. pc = "issue" /\ pc' = "select" /\ backoff' = backoff /\ spill' = spill /\ spillWake' = spillWake
  BY DEF Issue, channelVars
<1>2. \/ /\ reg' = n.reg
         /\ inFlight' = IF n.request = None THEN None ELSE Reading(n.request)
         /\ blocked' = StillBlocked(n.reg)
      \/ /\ reg' = reg /\ inFlight' = inFlight /\ blocked' = blocked
         /\ inFlight # None \/ backoff = "waiting"
  BY Zenon DEF Issue
<1>3. n.request = None => RecoveryReady(n.reg) \/ ~WantsPage(n.reg)
  BY TruthfulParts, RequestIsNotNone, NextPageServed
<1>4. n.request # None => Reading(n.request) # None
  <2> SUFFICES ASSUME n.request # None PROVE Reading(n.request) # None
    OBVIOUS
  <2>1. RequestOK(n.request)
    BY TruthfulParts, NextPageInv DEF NextOK
  <2> HIDE DEF n
  <2>2. n.request \in PageRequest
    BY <2>1 DEF RequestOK, PageRequest
  <2>3. <<>> \in Seq(ActiveRow) /\ 0 \in Revision
    BY DEF Revision
  <2>4. [k \in Keys |-> None] \in [Keys -> Presence \cup {None}]
    OBVIOUS
  <2>5. Reading(n.request) \in PageOutcome
    BY <2>2, <2>3, <2>4 DEF Reading, PageOutcome
  <2> QED BY <2>5, NoneIsNoPage
<1> HIDE DEF n
<1>5. WakeInv'
  BY <1>1 DEF SleepInv, WakeInv
<1>6. StillBlocked(n.reg) => Full(n.reg)
  BY CappedSets, CapAssumption DEF StillBlocked, Full
<1>7. BlockInv'
  BY <1>1, <1>2, <1>6 DEF SleepInv, BlockInv
<1>8. IssuedInv'
  BY <1>1, <1>2, <1>3, <1>4 DEF IssuedInv
<1> QED BY <1>5, <1>7, <1>8 DEF SleepInv

\* Every step keeps the wakeups.
LEMMA NextSleep ==
  ASSUME Truthful, Capped(reg), SleepInv, [Next]_vars
  PROVE  SleepInv'
<1>1. CASE Scan \/ ScanSend \/ Command \/ ReportSome \/ Tick \/ UNCHANGED vars
  BY <1>1, OutsideSteps DEF SleepInv, WakeInv, BlockInv, IssuedInv
<1>2. CASE ReadPage
  <2>1. inFlight' # None
    BY <1>2, ReadPageResult, NoneIsNoPage
  <2> QED BY <1>2, <2>1 DEF ReadPage, channelVars, SleepInv, WakeInv, BlockInv, IssuedInv
<1>3. CASE FailPage
  <2>1. inFlight \in PageOutcome
    BY <1>3, ControlTypes DEF FailPage
  <2>2. inFlight' \in PageOutcome
    BY <1>3, <2>1 DEF FailPage, PageOutcome
  <2>3. inFlight' # None
    BY <2>2, NoneIsNoPage
  <2> QED BY <1>3, <2>3 DEF FailPage, channelVars, SleepInv, WakeInv, BlockInv, IssuedInv
<1>4. CASE BackoffElapses
  BY <1>4 DEF BackoffElapses, channelVars, SleepInv, WakeInv, BlockInv, IssuedInv
<1>5. CASE \/ Select \/ Expire \/ PageArrives \/ RecoveryPageArrives \/ PageFailed \/ NoPage
           \/ PageRow \/ RecoveryRow \/ RecoveryPageEnds
  <2>1. pc' \in {"expire", "rows", "recover", "spill"}
    BY <1>5 DEF Select, Expire, PageArrives, RecoveryPageArrives, PageFailed, NoPage, PageRow,
                RecoveryRow, RecoveryPageEnds
  <2> QED BY <2>1 DEF SleepInv, WakeInv, BlockInv, IssuedInv
<1>6. CASE TakeSpill
  BY <1>6 DEF TakeSpill, SleepInv, WakeInv, BlockInv, IssuedInv
<1>7. CASE SpillRemoval \/ SpillRest \/ Receive
  <2>1. pc \in {"cells", "receive"} /\ pc' \in {"cells", "receive", "facts"}
        /\ UNCHANGED <<spill, spillWake>>
    BY <1>7 DEF SpillRemoval, SpillRest, Receive, channelVars
  <2> QED BY <2>1 DEF SleepInv, WakeInv, BlockInv, IssuedInv
<1>8. CASE ApplyFact
  <2>1. blocked' => Full(reg')
    BY <1>8, ApplyFactFits
  <2>2. pc = "facts" /\ pc' \in {"issue", "facts"} /\ UNCHANGED <<spill, spillWake>>
    BY <1>8 DEF ApplyFact, channelVars
  <2> QED BY <2>1, <2>2 DEF SleepInv, WakeInv, BlockInv, IssuedInv
<1>9. CASE FactsEnd
  BY <1>9 DEF FactsEnd, channelVars, SleepInv, WakeInv, BlockInv, IssuedInv
<1>10. CASE Issue
  BY <1>10, IssueSleep
<1> QED
  BY <1>1, <1>2, <1>3, <1>4, <1>5, <1>6, <1>7, <1>8, <1>9, <1>10 DEF Next, ActorStep

\* A whole seed wants no page; one that failed waits for its retry.
LEMMA InitSleep ==
  ASSUME Init
  PROVE  SleepInv
<1>1. spill = EmptySpill /\ blocked = FALSE
  BY DEF Init
<1>2. \A k \in Keys : reg.pending[k] = None
  BY SeedIs DEF Seeding, Empty
<1>3. ~WantsPage(reg) \/ backoff = "waiting"
  BY <1>2, SeedIs DEF Seeding, WantsPage, Waiting
<1> QED BY <1>1, <1>3 DEF SleepInv, WakeInv, BlockInv, IssuedInv

\* The wakeups always hold.
LEMMA SleepAlways == Spec => []SleepInv
<1>1. Init => SleepInv
  BY InitSleep
<1>2. Truthful /\ CapInv /\ SleepInv /\ [Next]_vars => SleepInv'
  BY NextSleep DEF CapInv
<1> QED
  BY <1>1, <1>2, TruthfulAlways, CapsAlways, PTL DEF Spec

\* An actor that sleeps has nothing to do: no fact waits in a queue, in the spill
\* or in a blocked carry, and no page is wanted (the select of run_actor).
LEMMA AsleepQuiescent ==
  ASSUME Truthful, SleepInv, Asleep
  PROVE  Quiescent
<1>1. /\ pc = "select" /\ ~FirstArms /\ ~(carry = <<>> /\ inbox # <<>>) /\ backoff # "waiting"
      /\ cmdQ = {}
      /\ inFlight # None => inFlight.status # "reading"
      /\ scanQ # <<>> => Len(inbox) >= InboxCap
  BY DEF Asleep, Awake
<1>2. /\ ~spillWake /\ inFlight = None /\ ~RecoveryReady(reg)
      /\ carry = <<>> \/ blocked
      /\ ~(backoff = "elapsed" /\ WantsPage(reg))
  BY <1>1 DEF FirstArms
<1>3. backoff \in {"none", "waiting", "elapsed"} /\ blocked \in BOOLEAN
  BY ControlTypes
<1>4. ~WantsPage(reg)
  BY <1>1, <1>2, <1>3 DEF SleepInv, IssuedInv
<1>5. Waiting(reg) = {} /\ ~(reg.recovery # None /\ reg.recovery.page = None)
  BY <1>4 DEF WantsPage
<1>6. Cardinality(Waiting(reg)) = 0
  BY <1>5, FS_EmptySet
<1>7. ~Full(reg) /\ reg.recovery = None
  BY <1>2, <1>5, <1>6, CapAssumption DEF Full, RecoveryReady
<1>8. carry = <<>> /\ inbox = <<>>
  BY <1>1, <1>2, <1>7 DEF SleepInv, BlockInv
<1>9. scanQ = <<>>
  BY <1>1, <1>8, BoundAssumption
<1>10. spill = EmptySpill
  BY <1>1, <1>2 DEF SleepInv, WakeInv
<1>11. Due(reg, now) = {}
  BY <1>1 DEF FirstArms
<1> QED
  BY <1>1, <1>2, <1>4, <1>7, <1>8, <1>9, <1>10, <1>11 DEF Quiescent

\* No wakeup is lost: whenever the actor's select has no ready arm and nothing
\* outside it is under way, every queue, the spill and the carry are empty and no
\* page is wanted, for every capacity of the inbox, the spill and the pending set.
THEOREM NeverSleepsOnWorkAlways == Spec => []NeverSleepsOnWork
<1>1. Truthful /\ SleepInv => NeverSleepsOnWork
  BY AsleepQuiescent DEF NeverSleepsOnWork
<1> QED
  BY <1>1, TruthfulAlways, SleepAlways, PTL

----------------------------------------------------------------------------
(* The reports under way to the actor, whichever queue holds them.         *)

Elems(s) == {s[n] : n \in DOMAIN s}

UnderWay == Elems(scanQ) \cup Elems(inbox) \cup Elems(carry)

\* The elements of the empty sequence, and of a sequence of one.
LEMMA ElemsShort ==
  ASSUME NEW o
  PROVE  Elems(<<>>) = {} /\ Elems(<<o>>) = {o}
<1>1. DOMAIN <<o>> = {1} /\ <<o>>[1] = o
  OBVIOUS
<1> QED BY <1>1 DEF Elems

\* The elements of a longer sequence.
LEMMA ElemsAppend ==
  ASSUME NEW T, NEW s \in Seq(T), NEW o
  PROVE  Elems(Append(s, o)) = Elems(s) \cup {o}
<1>1. /\ Len(s) \in Nat /\ DOMAIN s = 1..Len(s)
      /\ DOMAIN Append(s, o) = 1..(Len(s) + 1)
      /\ Append(s, o)[Len(s) + 1] = o
      /\ \A n \in 1..Len(s) : Append(s, o)[n] = s[n]
  OBVIOUS
<1> DEFINE u == Append(s, o)
<1> HIDE DEF u
<1>2. /\ Len(s) \in Nat /\ DOMAIN s = 1..Len(s) /\ DOMAIN u = 1..(Len(s) + 1)
      /\ u[Len(s) + 1] = o /\ \A n \in 1..Len(s) : u[n] = s[n]
  BY <1>1 DEF u
<1>3. Elems(u) \subseteq Elems(s) \cup {o}
  BY <1>2 DEF Elems
<1>4. Elems(s) \cup {o} \subseteq Elems(u)
  BY <1>2 DEF Elems
<1> QED BY <1>3, <1>4 DEF u

\* The elements of a sequence are its head and those of its tail.
LEMMA ElemsTail ==
  ASSUME NEW T, NEW s \in Seq(T), s # <<>>
  PROVE  Elems(s) = Elems(Tail(s)) \cup {Head(s)} /\ Head(s) \in T
<1>1. /\ Len(s) \in Nat \ {0} /\ DOMAIN s = 1..Len(s) /\ Head(s) = s[1] /\ s[1] \in T
      /\ DOMAIN Tail(s) = 1..(Len(s) - 1)
      /\ \A n \in 1..(Len(s) - 1) : Tail(s)[n] = s[n + 1]
  OBVIOUS
<1> DEFINE u == Tail(s)
           m == Len(s)
<1> HIDE DEF u, m
<1>2. /\ m \in Nat \ {0} /\ DOMAIN s = 1..m /\ Head(s) = s[1] /\ s[1] \in T
      /\ DOMAIN u = 1..(m - 1) /\ \A n \in 1..(m - 1) : u[n] = s[n + 1]
  BY <1>1 DEF u, m
<1>3. Elems(u) \cup {s[1]} \subseteq Elems(s)
  BY <1>2 DEF Elems
<1>4. ASSUME NEW n \in 1..m, n # 1 PROVE n - 1 \in 1..(m - 1) /\ u[n - 1] = s[n]
  BY <1>2, <1>4
<1>5. ASSUME NEW n \in 1..m PROVE s[n] \in Elems(u) \cup {s[1]}
  BY <1>2, <1>4 DEF Elems
<1>6. Elems(s) \subseteq Elems(u) \cup {s[1]}
  BY <1>2, <1>5 DEF Elems
<1> QED BY <1>2, <1>3, <1>6 DEF u

\* A sequence and its two parts have the same elements.
LEMMA ElemsSplit ==
  ASSUME NEW T, NEW s \in Seq(T), NEW n \in Nat, n <= Len(s)
  PROVE  Elems(s) = Elems(SubSeq(s, 1, n)) \cup Elems(SubSeq(s, n + 1, Len(s)))
<1> DEFINE m == Len(s)
           u == SubSeq(s, 1, n)
           v == SubSeq(s, n + 1, m)
<1>1. m \in Nat /\ DOMAIN s = 1..m
  OBVIOUS
<1>2. DOMAIN u = 1..n /\ \A j \in 1..n : u[j] = s[j]
  OBVIOUS
<1>3. DOMAIN v = 1..(m - n) /\ \A j \in 1..(m - n) : v[j] = s[n + j]
  OBVIOUS
<1> HIDE DEF m, u, v
<1>4. n <= m
  BY DEF m
<1>5. Elems(u) \subseteq Elems(s)
  BY <1>1, <1>2, <1>4 DEF Elems
<1>6. Elems(v) \subseteq Elems(s)
  BY <1>1, <1>3, <1>4 DEF Elems
<1>7. ASSUME NEW j \in 1..m, j > n PROVE j - n \in 1..(m - n) /\ v[j - n] = s[j]
  BY <1>1, <1>3, <1>4, <1>7
<1>8. Elems(s) \subseteq Elems(u) \cup Elems(v)
  <2> SUFFICES ASSUME NEW j \in 1..m PROVE s[j] \in Elems(u) \cup Elems(v)
    BY <1>1 DEF Elems
  <2>1. CASE j <= n
    BY <1>2, <2>1 DEF Elems
  <2>2. CASE j > n
    BY <1>3, <1>7, <2>2 DEF Elems
  <2> QED BY <1>1, <2>1, <2>2
<1> QED BY <1>5, <1>6, <1>8 DEF u, v, m

\* What is under way is true.
LEMMA UnderWayTrue ==
  ASSUME Truthful
  PROVE  UnderWay \subseteq TrueObs(existed, rev)
<1>1. ASSUME NEW T, NEW s \in Seq(T) PROVE Elems(s) \subseteq T
  BY DEF Elems
<1> QED BY <1>1, TruthfulParts DEF UnderWay

\* A drained report stays under way.
LEMMA DrainUnderWay ==
  ASSUME Truthful, (Drain /\ carry = <<>>) \/ UNCHANGED <<carry, inbox>>
  PROVE  Elems(inbox') \cup Elems(carry') = Elems(inbox) \cup Elems(carry)
<1> DEFINE n == IF Len(inbox) < DrainBatch THEN Len(inbox) ELSE DrainBatch
<1>1. \/ /\ carry' = SubSeq(inbox, 1, n) /\ inbox' = SubSeq(inbox, n + 1, Len(inbox))
         /\ carry = <<>>
      \/ carry' = carry /\ inbox' = inbox
  BY DEF Drain
<1>2. inbox \in Seq(TrueObs(existed, rev))
  BY TruthfulParts
<1>3. n \in Nat /\ n <= Len(inbox)
  BY <1>2, BoundAssumption
<1> HIDE DEF n
<1>4. Elems(inbox) = Elems(SubSeq(inbox, 1, n)) \cup Elems(SubSeq(inbox, n + 1, Len(inbox)))
  BY <1>2, <1>3, ElemsSplit
<1> QED BY <1>1, <1>4, ElemsShort

\* The steps that keep what is under way.
LEMMA SameUnderWay ==
  ASSUME Truthful,
         \/ ScanSend \/ Command \/ ReadPage \/ FailPage \/ BackoffElapses \/ Tick \/ UNCHANGED vars
         \/ Select \/ Expire \/ PageArrives \/ RecoveryPageArrives \/ PageFailed \/ NoPage
         \/ PageRow \/ RecoveryRow \/ RecoveryPageEnds \/ TakeSpill \/ SpillRemoval \/ SpillRest
         \/ Receive \/ FactsEnd \/ Issue
  PROVE  UnderWay' = UnderWay
<1>1. CASE ScanSend
  <2>1. scanQ # <<>> /\ inbox' = Append(inbox, Head(scanQ)) /\ scanQ' = Tail(scanQ) /\ carry' = carry
    BY <1>1 DEF ScanSend, actorVars
  <2>2. Elems(inbox') = Elems(inbox) \cup {Head(scanQ)}
    BY <2>1, TruthfulParts, ElemsAppend
  <2>3. Elems(scanQ) = Elems(scanQ') \cup {Head(scanQ)}
    BY <2>1, TruthfulParts, ElemsTail
  <2> QED BY <2>1, <2>2, <2>3 DEF UnderWay
<1>2. CASE Command
  BY <1>2 DEF Command, CommandDelete, AnalysisPublish, CommandBroad, actorVars, channelVars,
              UnderWay
<1>3. CASE ReadPage \/ FailPage \/ BackoffElapses \/ Tick \/ UNCHANGED vars
  BY <1>3 DEF ReadPage, FailPage, BackoffElapses, Tick, vars, actorVars, channelVars, producerVars,
              UnderWay
<1>4. CASE Select \/ Receive
  <2>1. UNCHANGED scanQ /\ ((Drain /\ carry = <<>>) \/ UNCHANGED <<carry, inbox>>)
    BY <1>4 DEF Select, Receive, Awake, producerVars
  <2> QED BY <2>1, DrainUnderWay DEF UnderWay
<1>5. CASE \/ Expire \/ PageArrives \/ RecoveryPageArrives \/ PageFailed \/ NoPage
           \/ PageRow \/ RecoveryRow \/ RecoveryPageEnds \/ TakeSpill \/ SpillRemoval
           \/ SpillRest \/ FactsEnd \/ Issue
  <2>1. UNCHANGED <<scanQ, inbox, carry>>
    BY <1>5 DEF Expire, PageArrives, RecoveryPageArrives, PageFailed, NoPage, PageRow,
                RecoveryRow, RecoveryPageEnds, TakeSpill, SpillRemoval, SpillRest, FactsEnd, Issue,
                channelVars, producerVars
  <2> QED BY <2>1 DEF UnderWay
<1> QED BY <1>1, <1>2, <1>3, <1>4, <1>5

\* A fact that is applied leaves, a blocked one stays.
LEMMA ApplyFactUnderWay ==
  ASSUME Truthful, ApplyFact
  PROVE  /\ Head(carry) \in UnderWay /\ Head(carry) \in TrueObs(existed, rev)
         /\ UnderWay' \subseteq UnderWay /\ UnderWay \subseteq UnderWay' \cup {Head(carry)}
         /\ Head(carry).type # "exists" => ~blocked'
         /\ blocked' => UnderWay' = UnderWay
<1> DEFINE o == Head(carry)
           fact == [incarnation |-> o.incarnation, at |-> o.at, revision |-> o.revision]
           t == IF o.type = "exists" THEN Observe(reg, o.key, fact, roundNow)
                ELSE Touched(ObserveOther(reg, o), "unchanged")
           full == t.touch = "blocked"
<1>1. /\ carry # <<>> /\ carry' = IF full THEN carry ELSE Tail(carry)
      /\ blocked' = full /\ UNCHANGED <<scanQ, inbox>>
  BY DEF ApplyFact, producerVars, channelVars
<1>2. o.type # "exists" => ~full
  BY DEF Touched
<1> HIDE DEF full
<1>3. o \in TrueObs(existed, rev) /\ Elems(carry) = Elems(Tail(carry)) \cup {o}
  BY <1>1, TruthfulParts, ElemsTail
<1> QED BY <1>1, <1>2, <1>3 DEF UnderWay

\* A report joins what is under way, or folds into the spill.
LEMMA ReportUnderWay ==
  ASSUME Truthful, NEW o \in cmdQ, Report(o)
  PROVE  \/ UnderWay' = UnderWay \cup {o} /\ spill' = spill
         \/ UnderWay' = UnderWay /\ spill' = Fold(spill, o)
<1>1. UNCHANGED <<scanQ, carry>>
  BY DEF Report, actorVars
<1>2. CASE Len(inbox) < InboxCap
  <2>1. inbox' = Append(inbox, o) /\ spill' = spill
    BY <1>2 DEF Report
  <2>2. Elems(inbox') = Elems(inbox) \cup {o}
    BY <2>1, TruthfulParts, ElemsAppend
  <2> QED BY <1>1, <2>1, <2>2 DEF UnderWay
<1>3. CASE ~(Len(inbox) < InboxCap)
  BY <1>1, <1>3 DEF Report, UnderWay
<1> QED BY <1>2, <1>3

\* The scan path adds the report of its operation.
LEMMA ScanUnderWay ==
  ASSUME UNCHANGED <<inbox, carry>>, scanQ = <<>>, NEW o, scanQ' = <<o>>
  PROVE  UnderWay' = UnderWay \cup {o}
<1>1. Elems(scanQ) = {} /\ Elems(scanQ') = {o}
  BY ElemsShort
<1> QED BY <1>1 DEF UnderWay

----------------------------------------------------------------------------
(* Published row changes.                                                  *)

\* The report of a change of k, or the list invalidation that stands for it, is
\* on its way to the clients.
Announced(k) ==
  \/ RowChanged(k) \in cmdQ \cup UnderWay
  \/ k \in spill.rows \/ spill.invalidated
  \/ pc = "cells" /\ taken.invalidated

AnnounceInv == \A k \in stale : Announced(k)

\* Folding keeps a row change that waits in the spill and takes a new one in.
LEMMA FoldAnnounces ==
  ASSUME NEW s \in Spill, NEW o \in SyncObservation
  PROVE  /\ s.rows \subseteq Fold(s, o).rows /\ (s.invalidated => Fold(s, o).invalidated)
         /\ o.type = "rowChanged" => o.key \in Fold(s, o).rows \/ Fold(s, o).invalidated
<1>1. ASSUME NEW q
      PROVE  FoldBroad(s, q).rows = s.rows /\ FoldBroad(s, q).invalidated = s.invalidated
  BY DEF FoldBroad, Spill
<1>2. CASE o.type = "broad"
  BY <1>1, <1>2 DEF Fold
<1>3. CASE o.type = "rowChanged"
  <2> DEFINE u == [s EXCEPT !.rows = @ \cup {o.key}]
             v == [s EXCEPT !.invalidated = TRUE]
  <2>1. Fold(s, o) = u \/ Fold(s, o) = v
    BY <1>3, Zenon DEF Fold
  <2>2. /\ u.rows = s.rows \cup {o.key} /\ u.invalidated = s.invalidated
        /\ v.rows = s.rows /\ v.invalidated = TRUE
    BY DEF Spill
  <2> HIDE DEF u, v
  <2> QED BY <2>1, <2>2
<1>4. CASE o.type = "removed"
  <2> DEFINE put(c) == [s EXCEPT !.removed[o.key] = c]
  <2>1. \/ \E c : Fold(s, o) = put(c)
        \/ Fold(s, o) = FoldBroad(s, o.revision)
    BY <1>4, Zenon DEF Fold
  <2>2. ASSUME NEW c PROVE put(c).rows = s.rows /\ put(c).invalidated = s.invalidated
    BY DEF Spill
  <2> HIDE DEF put
  <2> QED BY <1>1, <1>4, <2>1, <2>2
<1> QED
  BY <1>2, <1>3, <1>4 DEF SyncObservation, RemovedObs, BroadObs, RowObs

\* Every step keeps the announcement of a change that is not told yet.
LEMMA NextAnnounces ==
  ASSUME Truthful, AnnounceInv, [Next]_vars
  PROVE  AnnounceInv'
<1> SUFFICES ASSUME NEW k \in stale' PROVE Announced(k)'
  BY DEF AnnounceInv
<1>1. spill \in Spill /\ taken \in Spill /\ cmdQ \subseteq SyncObservation
  BY TruthfulParts, ProducerTypes
<1>2. CASE \E j \in Keys : AnalysisPublish(j)
  <2>1. PICK j \in Keys : AnalysisPublish(j)
    BY <1>2
  <2>2. /\ stale' = stale \cup {j} /\ cmdQ' = cmdQ \cup {RowChanged(j)}
        /\ UNCHANGED <<scanQ, inbox, carry, spill, pc, taken>>
    BY <2>1 DEF AnalysisPublish, channelVars, actorVars
  <2> QED BY <2>2 DEF AnnounceInv, Announced, UnderWay
<1>3. CASE ReportSome
  <2>1. PICK o \in cmdQ : Report(o)
    BY <1>3 DEF ReportSome
  <2>2. cmdQ' = cmdQ \ {o} /\ UNCHANGED <<stale, pc, taken>>
    BY <2>1 DEF Report, actorVars, historyVars
  <2>3. Announced(k)
    BY <2>2 DEF AnnounceInv
  <2>4. CASE UnderWay' = UnderWay \cup {o} /\ spill' = spill
    BY <2>2, <2>3, <2>4 DEF Announced
  <2>5. CASE UnderWay' = UnderWay /\ spill' = Fold(spill, o)
    <3>1. /\ spill.rows \subseteq spill'.rows /\ (spill.invalidated => spill'.invalidated)
          /\ o.type = "rowChanged" => o.key \in spill'.rows \/ spill'.invalidated
      BY <1>1, <2>1, <2>5, FoldAnnounces
    <3>2. o = RowChanged(k) => o.type = "rowChanged" /\ o.key = k
      BY DEF RowChanged
    <3> QED BY <2>2, <2>3, <2>5, <3>1, <3>2 DEF Announced
  <2> QED BY <2>1, <2>4, <2>5, ReportUnderWay
<1>4. CASE ApplyFact
  <2> DEFINE o == Head(carry)
  <2>1. /\ stale' = IF o.type = "rowChanged" THEN stale \ {o.key} ELSE stale
        /\ pc = "facts" /\ UNCHANGED <<cmdQ, spill>>
    BY <1>4 DEF ApplyFact, producerVars, channelVars
  <2>2. UnderWay \subseteq UnderWay' \cup {o}
    BY <1>4, ApplyFactUnderWay
  <2> HIDE DEF o
  <2>3. Announced(k) /\ o # RowChanged(k)
    BY <2>1 DEF AnnounceInv, RowChanged
  <2> QED BY <2>1, <2>2, <2>3 DEF Announced
<1>5. CASE TakeSpill
  <2>1. /\ taken' = spill /\ pc' = (IF spill = EmptySpill THEN "receive" ELSE "cells")
        /\ stale' = stale \ spill.rows /\ pc = "spill" /\ UNCHANGED <<scanQ, cmdQ, inbox, carry>>
    BY <1>5 DEF TakeSpill, producerVars
  <2>2. Announced(k) /\ k \notin spill.rows
    BY <2>1 DEF AnnounceInv
  <2>3. ~EmptySpill.invalidated
    BY DEF EmptySpill
  <2> QED BY <2>1, <2>2, <2>3 DEF Announced, UnderWay
<1>6. CASE SpillRest
  <2>1. /\ stale' = IF taken.invalidated THEN {} ELSE stale
        /\ UNCHANGED <<scanQ, cmdQ, inbox, carry, spill>>
    BY <1>6 DEF SpillRest, producerVars, channelVars
  <2>2. k \in stale /\ ~taken.invalidated
    BY <2>1
  <2> QED BY <2>1, <2>2 DEF AnnounceInv, Announced, UnderWay
<1>7. CASE SpillRemoval
  <2>1. PICK j : taken' = [taken EXCEPT !.removed[j] = None]
    BY <1>7 DEF SpillRemoval
  <2>2. taken'.invalidated = taken.invalidated
    BY <1>1, <2>1 DEF Spill
  <2>3. pc' = pc /\ UNCHANGED <<stale, scanQ, cmdQ, inbox, carry, spill>>
    BY <1>7 DEF SpillRemoval, producerVars, channelVars, historyVars
  <2> QED BY <2>2, <2>3 DEF AnnounceInv, Announced, UnderWay
<1>8. CASE Scan
  <2>1. UNCHANGED <<stale, cmdQ, inbox, carry, spill, pc, taken>>
    BY <1>8 DEF Scan, ScanReject, ScanTouch, ScanUpsert, ScanAnonymous, PassStart, PassEnd,
                channelVars, actorVars, historyVars
  <2>2. scanQ' = scanQ \/ scanQ = <<>>
    BY <1>8 DEF Scan, ScanReject, ScanTouch, ScanUpsert, ScanAnonymous, PassStart, PassEnd
  <2>3. Elems(scanQ) \subseteq Elems(scanQ')
    BY <2>2, ElemsShort
  <2> QED BY <2>1, <2>3 DEF AnnounceInv, Announced, UnderWay
<1>9. CASE \/ \E j \in Keys : CommandDelete(j)
           \/ \E S \in SUBSET Stored : CommandBroad(S)
  <2>1. cmdQ \subseteq cmdQ' /\ UNCHANGED <<stale, scanQ, inbox, carry, spill, pc, taken>>
    BY <1>9 DEF CommandDelete, CommandBroad, channelVars, actorVars
  <2> QED BY <2>1 DEF AnnounceInv, Announced, UnderWay
<1>10. CASE \/ ScanSend \/ ReadPage \/ FailPage \/ BackoffElapses \/ Tick \/ UNCHANGED vars
            \/ Select \/ Expire \/ PageArrives \/ RecoveryPageArrives \/ PageFailed \/ NoPage
            \/ PageRow \/ RecoveryRow \/ RecoveryPageEnds \/ Receive \/ FactsEnd \/ Issue
  <2>1. UNCHANGED <<stale, cmdQ, spill>>
    BY <1>10 DEF ScanSend, ReadPage, FailPage, BackoffElapses, Tick, vars, Select, Expire,
                 PageArrives, RecoveryPageArrives, PageFailed, NoPage, PageRow, RecoveryRow,
                 RecoveryPageEnds, Receive, FactsEnd, Issue, producerVars, channelVars, historyVars
  <2>2. pc = "cells" => pc' = "cells" /\ taken' = taken
    BY <1>10 DEF ScanSend, ReadPage, FailPage, BackoffElapses, Tick, vars, Select, Expire,
                 PageArrives, RecoveryPageArrives, PageFailed, NoPage, PageRow, RecoveryRow,
                 RecoveryPageEnds, Receive, FactsEnd, Issue, actorVars
  <2>3. UnderWay' = UnderWay
    BY <1>10, SameUnderWay
  <2> QED BY <2>1, <2>2, <2>3 DEF AnnounceInv, Announced
<1> QED
  BY <1>2, <1>3, <1>4, <1>5, <1>6, <1>7, <1>8, <1>9, <1>10 DEF Next, ActorStep, Command

\* A change that the clients have not seen is always announced.
LEMMA AnnounceAlways == Spec => []AnnounceInv
<1>1. Init => AnnounceInv
  BY DEF Init, AnnounceInv
<1>2. Truthful /\ AnnounceInv /\ [Next]_vars => AnnounceInv'
  BY NextAnnounces
<1> QED
  BY <1>1, <1>2, TruthfulAlways, PTL DEF Spec

\* A row change that the analysis published is never lost between report(), the
\* inbox, Spill::fold and apply_spill: when nothing is under way any more the
\* clients were told of it, or that their list is out of date.
THEOREM NoLostRowChangeAlways == Spec => []NoLostRowChange
<1>1. AnnounceInv => NoLostRowChange
  <2> SUFFICES ASSUME AnnounceInv, Quiescent, NEW k \in stale PROVE FALSE
    BY DEF NoLostRowChange
  <2>1. /\ scanQ = <<>> /\ cmdQ = {} /\ inbox = <<>> /\ carry = <<>>
        /\ spill = EmptySpill /\ pc = "select"
    BY DEF Quiescent
  <2>2. UnderWay = {}
    BY <2>1, ElemsShort DEF UnderWay
  <2>3. EmptySpill.rows = {} /\ ~EmptySpill.invalidated
    BY DEF EmptySpill
  <2> QED BY <2>1, <2>2, <2>3 DEF AnnounceInv, Announced
<1> QED
  BY <1>1, AnnounceAlways, PTL

----------------------------------------------------------------------------
(* Anonymous activity.                                                     *)

\* A touch of the ledger: not newer than the outstanding one of its agent, which
\* is the only one of its generation.
Issued(a, g, t) ==
  /\ g <= ledger.next /\ t <= now
  /\ ledger.outstanding[a] # 0 =>
       /\ g <= ledger.outstanding[a] /\ t <= ledger.at[a]
       /\ g = ledger.outstanding[a] => t = ledger.at[a]

\* A cover was captured before the outstanding touch of its agent.
Captured(a, g) ==
  /\ g <= ledger.next
  /\ ledger.outstanding[a] # 0 => g < ledger.outstanding[a]

\* The outstanding touch of a has expired, is under way, or is registered.
Tracked(a) ==
  \/ now - ledger.at[a] >= QuietWindow
  \/ Anonymous(a, ledger.at[a], ledger.outstanding[a]) \in UnderWay
  \/ reg.anonymous[a] # None /\ reg.anonymous[a].generation = ledger.outstanding[a]

LedgerInv ==
  \A a \in Agents : /\ ledger.at[a] <= now /\ ledger.outstanding[a] <= ledger.next
                    /\ ledger.captured[a] <= ledger.next

TouchInv ==
  /\ \A o \in UnderWay : /\ o.type = "anonymous" => Issued(o.agent, o.generation, o.at)
                         /\ o.type = "covered" => Captured(o.agent, o.through)
  /\ \A a \in Agents : reg.anonymous[a] # None =>
                          Issued(a, reg.anonymous[a].generation, reg.anonymous[a].at)

TrackInv == \A a \in Agents : ledger.outstanding[a] # 0 => Tracked(a)

AnonInv == roundNow <= now /\ LedgerInv /\ TouchInv /\ TrackInv

\* The types that the argument uses.
LEMMA AnonTypes ==
  ASSUME Truthful
  PROVE  /\ now \in Nat /\ roundNow \in Nat
         /\ ledger \in [next : Nat, outstanding : [Agents -> Nat], captured : [Agents -> Nat],
                        at : [Agents -> Time]]
         /\ reg \in Registry /\ UnderWay \subseteq Observation
         /\ \A a \in Agents : /\ ledger.at[a] \in Int /\ ledger.outstanding[a] \in Nat
                              /\ ledger.captured[a] \in Nat
                              /\ reg.anonymous[a] # None =>
                                    /\ reg.anonymous[a].generation \in Nat
                                    /\ reg.anonymous[a].at \in Int
         /\ ledger.next \in Nat
         /\ \A o \in UnderWay :
              /\ o.type = "anonymous" => o.agent \in Agents /\ o.generation \in Nat /\ o.at \in Int
              /\ o.type = "covered" => o.agent \in Agents /\ o.through \in Nat
<1>1. /\ now \in Nat /\ roundNow \in Nat
      /\ ledger \in [next : Nat, outstanding : [Agents -> Nat], captured : [Agents -> Nat],
                     at : [Agents -> Time]]
      /\ reg \in Registry
  BY DEF Truthful, StoreTypeOK, ChannelTypeOK, ActorTypeOK
<1>2. UnderWay \subseteq Observation
  BY UnderWayTrue DEF TrueObs
<1>3. \A o \in UnderWay :
        /\ o.type = "anonymous" => o.agent \in Agents /\ o.generation \in Nat /\ o.at \in Int
        /\ o.type = "covered" => o.agent \in Agents /\ o.through \in Nat
  BY <1>2 DEF Observation, SyncObservation, ExistsObs, RemovedObs, BroadObs, RowObs,
              AnonymousObs, CoveredObs, Time
<1>4. \A a \in Agents : reg.anonymous[a] # None =>
                           reg.anonymous[a].generation \in Nat /\ reg.anonymous[a].at \in Int
  BY <1>1 DEF Registry, AnonymousEntry, Time
<1>5. \A a \in Agents : /\ ledger.at[a] \in Int /\ ledger.outstanding[a] \in Nat
                        /\ ledger.captured[a] \in Nat
  BY <1>1 DEF Time
<1> QED BY <1>1, <1>2, <1>3, <1>4, <1>5

\* A step that leaves the ledger and the anonymous activity alone.
LEMMA AnonFrame ==
  ASSUME Truthful, Truthful', AnonInv, ledger' = ledger, now <= now', roundNow' <= now',
         \A a \in Agents : reg'.anonymous[a] = reg.anonymous[a],
         \A o \in UnderWay' : o \in UnderWay \/ o.type \notin {"anonymous", "covered"},
         \A o \in UnderWay : o.type = "anonymous" => o \in UnderWay'
  PROVE  AnonInv'
<1>1. now \in Nat /\ now' \in Nat /\ \A a \in Agents : ledger.at[a] \in Int
  BY AnonTypes DEF Truthful, StoreTypeOK
<1>2. /\ \A o \in UnderWay : o.type = "anonymous" => o.at \in Int
      /\ \A a \in Agents : reg.anonymous[a] # None => reg.anonymous[a].at \in Int
  BY AnonTypes
<1>3. \A a, g : \A t \in Int : Issued(a, g, t) => Issued(a, g, t)'
  BY <1>1 DEF Issued
<1>4. \A a, g : Captured(a, g) => Captured(a, g)'
  BY DEF Captured
<1>5. LedgerInv'
  BY <1>1 DEF AnonInv, LedgerInv
<1>6. TouchInv'
  BY <1>2, <1>3, <1>4 DEF AnonInv, TouchInv
<1>7. ASSUME NEW a \in Agents, ledger'.outstanding[a] # 0 PROVE Tracked(a)'
  <2>1. Tracked(a)
    BY <1>7 DEF AnonInv, TrackInv
  <2>2. Anonymous(a, ledger.at[a], ledger.outstanding[a]).type = "anonymous"
    BY DEF Anonymous
  <2>3. now - ledger.at[a] >= QuietWindow => now' - ledger.at[a] >= QuietWindow
    BY <1>1, WindowAssumption
  <2> QED BY <2>1, <2>2, <2>3 DEF Tracked
<1> QED BY <1>5, <1>6, <1>7 DEF AnonInv, TrackInv

\* observe() of anything but an anonymous touch or a cover leaves them alone.
LEMMA ApplyFactAnonymous ==
  ASSUME Truthful, ApplyFact, Head(carry).type \notin {"anonymous", "covered"}
  PROVE  reg'.anonymous = reg.anonymous
<1> DEFINE T == TrueObs(existed, rev)
           o == Head(carry)
           fact == [incarnation |-> o.incarnation, at |-> o.at, revision |-> o.revision]
           seen == Observe(reg, o.key, fact, roundNow)
           other == ObserveOther(reg, o)
           t == IF o.type = "exists" THEN seen ELSE Touched(other, "unchanged")
<1>1. reg' = t.reg
  BY DEF ApplyFact
<1>2. o \in T
  BY ApplyFactUnderWay
<1>3. o.type \notin {"anonymous", "covered"}
  OBVIOUS
<1> HIDE DEF o
<1>4. RegistryInv(reg, existed, rev) /\ History(existed, rev) /\ reg \in Registry
  BY TruthfulParts DEF RegistryInv
<1>5. CASE o.type = "exists"
  <2>1. o \in ExistsObs /\ <<o.key, o.incarnation, o.revision>> \in existed
    BY <1>2, <1>5 DEF T, TrueObs, Observation, SyncObservation, ExistsObs, RemovedObs, BroadObs,
                      RowObs, AnonymousObs, CoveredObs
  <2>2. o.key \in Keys /\ TrueFact(existed, o.key, fact)
    BY <2>1 DEF ExistsObs, TrueFact, Existence
  <2>3. t = seen
    BY <1>5
  <2> HIDE DEF fact, t
  <2>4. OneKey(reg, seen.reg, o.key)
    BY <1>4, <2>2, ObserveOneKey
  <2> QED BY <1>1, <2>3, <2>4 DEF OneKey
<1>6. CASE o.type # "exists"
  <2>1. t.reg = other
    <3> HIDE DEF other, seen
    <3> QED BY <1>6 DEF Touched
  <2>2. CASE o.type = "removed"
    <3>1. o.key \in Keys /\ o.incarnation \in Incarnation /\ o.revision \in Revision
      BY <1>2, <2>2 DEF T, TrueObs, Observation, SyncObservation, ExistsObs, RemovedObs, BroadObs,
                        RowObs, AnonymousObs, CoveredObs
    <3>2. other = Remove(reg, o.key, o.incarnation, o.revision)
      BY <2>2, Zenon DEF ObserveOther
    <3> HIDE DEF t
    <3> QED BY <1>1, <1>4, <2>1, <3>1, <3>2, RemoveOneKey DEF OneKey
  <2>3. CASE o.type = "broad"
    <3>1. other = Broad(reg, o.revision)
      BY <2>3 DEF ObserveOther
    <3> HIDE DEF t, other
    <3> QED BY <1>1, <1>4, <2>1, <3>1, BroadSame DEF SameIndex
  <2>4. CASE o.type = "rowChanged"
    <3>1. other = reg
      BY <2>4 DEF ObserveOther
    <3> HIDE DEF t, other
    <3> QED BY <1>1, <2>1, <3>1
  <2> QED BY <1>2, <1>3, <1>6, <2>2, <2>3, <2>4 DEF T, TrueObs, Observation, SyncObservation,
            ExistsObs, RemovedObs, BroadObs, RowObs, AnonymousObs, CoveredObs
<1> QED BY <1>5, <1>6

\* The key of a page that PageRow applies, and what it applies to it.
LEMMA PageRowEffect ==
  ASSUME Truthful, PageRow
  PROVE  \E k \in Keys :
           LET s == ApplyRow(reg, k, page.rows, page.revision, roundNow) IN
           /\ k \in page.rest /\ page.rows[k] \in Presence \cup {None}
           /\ page.revision \in Revision /\ page.revision <= rev
           /\ IF page.rows[k] = None THEN \A x \in existed : x[1] = k => x[3] # page.revision
              ELSE <<k, page.rows[k].incarnation, page.revision>> \in existed
           /\ RegistryInv(s, existed, rev) /\ OneKey(reg, s, k)
           /\ reg' = s \/ reg' = AdvanceWalk(s, k)
<1>1. pc = "rows" /\ page # None
  BY DEF PageRow, Truthful, ReadInv
<1>2. page \in PageInHand /\ Snapshot(page.rest, page.rows, page.revision, existed, rev)
  BY <1>1, ControlTypes
<1>3. PICK k \in page.rest :
        LET applied == ApplyRow(reg, k, page.rows, page.revision, roundNow)
            last == page.rest = {k}
        IN /\ reg' = IF last /\ page.class = "walk" THEN AdvanceWalk(applied, k) ELSE applied
  BY DEF PageRow
<1> DEFINE applied == ApplyRow(reg, k, page.rows, page.revision, roundNow)
<1>4. /\ k \in Keys /\ page.rows[k] \in Presence \cup {None} /\ page.revision \in Revision
  BY <1>2 DEF PageInHand
<1>5. /\ page.revision <= rev
      /\ page.rows[k] = None => \A x \in existed : x[1] = k => x[3] # page.revision
      /\ page.rows[k] # None => <<k, page.rows[k].incarnation, page.revision>> \in existed
  BY <1>2 DEF Snapshot
<1>6. page.rows[k] = None => \A j \in Incarnation : <<k, j, page.revision>> \notin existed
  <2>1. \A j : LET x == <<k, j, page.revision>> IN x[1] = k /\ x[3] = page.revision
    OBVIOUS
  <2> QED BY <1>5, <2>1
<1>7. RegistryInv(reg, existed, rev) /\ History(existed, rev)
  BY TruthfulParts
<1>8. RegistryInv(applied, existed, rev)
  BY <1>4, <1>5, <1>6, <1>7, ApplyRowInv
<1>9. OneKey(reg, applied, k)
  BY <1>4, <1>5, <1>7, ApplyRowOneKey
<1>10. reg' = applied \/ reg' = AdvanceWalk(applied, k)
  BY <1>3, Zenon
<1> HIDE DEF applied
<1> QED
  BY <1>3, <1>4, <1>5, <1>8, <1>9, <1>10 DEF applied

\* What RecoveryRow does: it takes the first row x of the held page, which t admits.
Recovered(held, x, t) ==
    /\ reg.recovery # None /\ held = reg.recovery.page /\ held # None
    /\ held.rows # <<>> /\ held.rows \in Seq(ActiveRow) /\ held.revision \in Revision
    /\ x = Head(held.rows) /\ x \in ActiveRow
    /\ x.key \in Keys /\ x.incarnation \in Incarnation /\ x.epoch \in Time
    /\ <<x.key, x.incarnation, held.revision>> \in existed
    /\ t = ApplyPresentRow(reg, x.key, x, held.revision, roundNow)
    /\ RegistryInv(t.reg, existed, rev) /\ t.reg \in Registry /\ OneKey(reg, t.reg, x.key)
    /\ Aside(t.reg, reg') /\ SameWalk(t.reg, reg')
    /\ reg'.live = t.reg.live /\ reg'.pending = t.reg.pending
    /\ t.touch = "blocked" => reg'.recovery = reg.recovery
    /\ t.touch # "blocked" => HeadTaken(reg, reg')

\* The row of the held recovery page that RecoveryRow applies.
LEMMA RecoveryRowEffect ==
  ASSUME Truthful, RecoveryRow
  PROVE  \E held, x, t : Recovered(held, x, t)
<1>1. PICK held : held = reg.recovery.page
  OBVIOUS
<1>2. PICK x : x = Head(held.rows)
  OBVIOUS
<1>3. PICK t : t = ApplyPresentRow(reg, x.key, x, held.revision, roundNow)
  OBVIOUS
<1>4. /\ reg.recovery # None /\ held # None /\ held.rows # <<>>
      /\ reg' = RecoverRow(reg, roundNow).reg
  BY <1>1 DEF RecoveryRow, Truthful, ReadInv
<1>5. RegistryInv(reg, existed, rev) /\ History(existed, rev) /\ reg \in Registry
  BY TruthfulParts DEF RegistryInv
<1>6. held \in RecoveryPage /\ RowsTrue(held.rows, existed, held.revision)
  BY <1>1, <1>4, <1>5 DEF RegistryInv, Registry, SeedRecovery
<1>7. /\ held.rows \in Seq(ActiveRow) /\ x \in ActiveRow /\ x = held.rows[1]
      /\ 1 \in DOMAIN held.rows /\ held.revision \in Revision
  BY <1>2, <1>4, <1>6 DEF RecoveryPage
<1>8. /\ x.key \in Keys /\ x.incarnation \in Incarnation /\ x.epoch \in Time
      /\ <<x.key, x.incarnation, held.revision>> \in existed
  BY <1>6, <1>7 DEF RowsTrue, ActiveRow
<1>9. RegistryInv(t.reg, existed, rev) /\ t.reg \in Registry
  <2>1. RegistryInv(t.reg, existed, rev)
    BY <1>3, <1>5, <1>7, <1>8, ApplyPresentRowInv
  <2> QED BY <2>1 DEF RegistryInv
<1>10. OneKey(reg, t.reg, x.key)
  BY <1>3, <1>5, <1>7, <1>8, ApplyPresentRowOneKey
<1>11. t = ApplyPresentRow(reg, Head(reg.recovery.page.rows).key,
                           Head(reg.recovery.page.rows), reg.recovery.page.revision, roundNow)
  BY <1>1, <1>2, <1>3, Zenon
<1>12. t.reg.recovery = reg.recovery
  BY <1>10 DEF OneKey
<1>13. PICK u : u = RecoverRow(reg, roundNow)
  OBVIOUS
<1>14. reg.recovery # None /\ reg.recovery.page # None /\ reg.recovery.page.rows # <<>>
  BY <1>1, <1>4, Zenon
<1>15. /\ u.reg.live = t.reg.live /\ u.reg.pending = t.reg.pending
       /\ t.touch = "blocked" => u.reg.recovery = reg.recovery
       /\ t.touch # "blocked" => HeadTaken(reg, u.reg)
  <2>1. reg \in Registry /\ t.reg \in Registry
    BY <1>5, <1>9, Zenon
  <2> QED BY <1>11, <1>12, <1>13, <1>14, <2>1, RecoverRowTakes
<1>16. SameWalk(t.reg, u.reg)
  BY <1>5, <1>9, <1>11, <1>13, RecoverRowWalk, Zenon
<1>17. Aside(t.reg, u.reg)
  BY <1>5, <1>9, <1>11, <1>13, RecoverRowAside, Zenon
<1>18. reg' = u.reg
  BY <1>4, <1>13, Zenon
<1>19. Recovered(held, x, t)
  BY <1>1, <1>2, <1>3, <1>4, <1>7, <1>8, <1>9, <1>10, <1>15, <1>16, <1>17, <1>18, Zenon
     DEF Recovered
<1> QED BY <1>19

\* The steps of the registry that leave the anonymous activity alone.
LEMMA SameAnonymous ==
  ASSUME Truthful,
         \/ reg' = reg
         \/ RecoveryPageArrives \/ PageRow \/ RecoveryRow \/ RecoveryPageEnds
         \/ SpillRemoval \/ SpillRest \/ Issue
  PROVE  reg'.anonymous = reg.anonymous
<1>1. RegistryInv(reg, existed, rev) /\ History(existed, rev) /\ reg \in Registry
  BY TruthfulParts DEF RegistryInv
<1>2. CASE RecoveryPageArrives
  <2>1. reg' = HoldRecoveryPage(reg, inFlight.active, inFlight.revision)
    BY <1>2 DEF RecoveryPageArrives
  <2> QED BY <1>1, <2>1, HoldRecoveryPageAside DEF Aside, SameIndex
<1>3. CASE RecoveryPageEnds
  <2>1. reg' = FinishRecoveryPage(reg)
    BY <1>3 DEF RecoveryPageEnds
  <2> QED BY <1>1, <2>1, FinishRecoveryPageAside DEF Aside, SameIndex
<1>4. CASE SpillRemoval
  <2>1. PICK k \in TakenKeys :
          reg' = Remove(reg, k, taken.removed[k].incarnation, taken.removed[k].absent_at)
    BY <1>4 DEF SpillRemoval
  <2>2. /\ k \in Keys /\ taken.removed[k].incarnation \in Incarnation
        /\ taken.removed[k].absent_at \in Revision
    BY <2>1, TruthfulParts DEF TakenKeys, Spill, Deletion
  <2> QED BY <1>1, <2>1, <2>2, RemoveOneKey DEF OneKey
<1>5. CASE SpillRest
  <2>1. reg' = reg \/ reg' = Broad(reg, taken.broad)
    BY <1>5, Zenon DEF SpillRest
  <2> QED BY <1>1, <2>1, BroadSame DEF SameIndex
<1>6. CASE Issue
  <2> DEFINE n == NextPage(reg, roundNow)
  <2>1. reg' = n.reg \/ reg' = reg
    BY <1>6, Zenon DEF Issue
  <2>2. Aside(reg, n.reg)
    BY <1>1, NextPageAside
  <2> HIDE DEF n
  <2> QED BY <2>1, <2>2 DEF Aside, SameIndex
<1>7. CASE PageRow
  <2>1. PICK k \in Keys :
          LET s == ApplyRow(reg, k, page.rows, page.revision, roundNow) IN
          /\ RegistryInv(s, existed, rev) /\ OneKey(reg, s, k)
          /\ reg' = s \/ reg' = AdvanceWalk(s, k)
    BY <1>7, PageRowEffect
  <2>2. PICK s : s = ApplyRow(reg, k, page.rows, page.revision, roundNow)
    OBVIOUS
  <2>3. s \in Registry /\ OneKey(reg, s, k) /\ (reg' = s \/ reg' = AdvanceWalk(s, k))
    BY <2>1, <2>2 DEF RegistryInv
  <2> QED BY <2>3, AdvanceWalkAside DEF OneKey, Aside, SameIndex
<1>8. CASE RecoveryRow
  <2>1. PICK held, x, t : Recovered(held, x, t)
    BY <1>8, RecoveryRowEffect
  <2>2. OneKey(reg, t.reg, x.key) /\ Aside(t.reg, reg')
    BY <2>1, Zenon DEF Recovered
  <2> QED BY <2>2 DEF OneKey, Aside, SameIndex
<1> QED
  BY <1>2, <1>3, <1>4, <1>5, <1>6, <1>7, <1>8

\* A new touch is newer than everything that was issued before it.
LEMMA ScanAnonymousAnon ==
  ASSUME Truthful, AnonInv, NEW a \in Agents, ScanAnonymous(a)
  PROVE  AnonInv'
<1> DEFINE g == ledger.next + 1
           o == Anonymous(a, now, g)
<1>1. /\ scanQ = <<>> /\ scanQ' = <<o>> /\ UNCHANGED <<now, roundNow, reg, inbox, carry>>
      /\ ledger' = [ledger EXCEPT !.next = g, !.outstanding[a] = g, !.at[a] = now]
  BY DEF ScanAnonymous, storeVars, channelVars, actorVars
<1>2. UnderWay' = UnderWay \cup {o}
  BY <1>1, ScanUnderWay
<1>3. /\ ledger'.next = g /\ ledger'.captured = ledger.captured
      /\ ledger'.outstanding[a] = g /\ ledger'.at[a] = now
      /\ \A b \in Agents : b # a => /\ ledger'.outstanding[b] = ledger.outstanding[b]
                                    /\ ledger'.at[b] = ledger.at[b]
  BY <1>1, AnonTypes
<1>4. /\ now \in Nat /\ ledger.next \in Nat /\ g \in Nat /\ g > ledger.next
      /\ o.type = "anonymous" /\ o.agent = a /\ o.at = now /\ o.generation = g
  BY AnonTypes DEF Anonymous
<1>5. LedgerInv'
  BY <1>1, <1>3, <1>4, AnonTypes DEF AnonInv, LedgerInv
<1> HIDE DEF g, o
<1>a. now' = now /\ reg' = reg
  BY <1>1
<1>6. ASSUME NEW b \in Agents, NEW h \in Nat, NEW t \in Int, Issued(b, h, t)
      PROVE  Issued(b, h, t)'
  <2>1. CASE b = a
    BY <1>a, <1>3, <1>4, <1>6, <2>1 DEF Issued
  <2>2. CASE b # a
    BY <1>a, <1>3, <1>4, <1>6, <2>2 DEF Issued
  <2> QED BY <2>1, <2>2
<1>7. ASSUME NEW b \in Agents, NEW h \in Nat, Captured(b, h) PROVE Captured(b, h)'
  <2>1. CASE b = a
    BY <1>3, <1>4, <1>7, <2>1 DEF Captured
  <2>2. CASE b # a
    BY <1>3, <1>4, <1>7, <2>2 DEF Captured
  <2> QED BY <2>1, <2>2
<1>8. \A h, t : h = g /\ t = now => Issued(a, h, t)'
  BY <1>a, <1>3, <1>4 DEF Issued
<1>9. TouchInv'
  <2>1. ASSUME NEW x \in UnderWay'
        PROVE  /\ x.type = "anonymous" => Issued(x.agent, x.generation, x.at)'
               /\ x.type = "covered" => Captured(x.agent, x.through)'
    <3>1. CASE x = o
      BY <1>4, <1>8, <3>1
    <3>2. CASE x \in UnderWay
      BY <1>6, <1>7, <3>2, AnonTypes DEF AnonInv, TouchInv
    <3> QED BY <1>2, <3>1, <3>2
  <2>2. ASSUME NEW b \in Agents, reg'.anonymous[b] # None
        PROVE  Issued(b, reg.anonymous[b].generation, reg.anonymous[b].at)'
    <3>1. PICK e : e = reg.anonymous[b]
      OBVIOUS
    <3>2. Issued(b, e.generation, e.at)'
      BY <1>a, <1>6, <2>2, <3>1, AnonTypes DEF AnonInv, TouchInv
    <3> QED BY <1>a, <3>1, <3>2
  <2> QED BY <2>1, <2>2 DEF TouchInv
<1>10. TrackInv'
  <2>1. ASSUME NEW b \in Agents, ledger'.outstanding[b] # 0 PROVE Tracked(b)'
    <3>1. CASE b = a
      BY <1>2, <1>3, <3>1 DEF Tracked, o
    <3>2. CASE b # a
      BY <1>1, <1>2, <1>3, <2>1, <3>2 DEF AnonInv, TrackInv, Tracked
    <3> QED BY <3>1, <3>2
  <2> QED BY <2>1 DEF TrackInv
<1> QED BY <1>1, <1>5, <1>9, <1>10 DEF AnonInv

\* A pass captures the outstanding touch.
LEMMA PassStartAnon ==
  ASSUME Truthful, AnonInv, NEW a \in Agents, PassStart(a)
  PROVE  AnonInv'
<1>1. /\ UNCHANGED <<now, roundNow, reg, scanQ, inbox, carry>>
      /\ ledger' = [ledger EXCEPT !.captured[a] = ledger.outstanding[a]]
  BY DEF PassStart, storeVars, channelVars, actorVars
<1>2. UnderWay' = UnderWay
  BY <1>1 DEF UnderWay
<1>3. /\ ledger'.next = ledger.next /\ ledger'.outstanding = ledger.outstanding
      /\ ledger'.at = ledger.at
      /\ \A b \in Agents : ledger'.captured[b] \in {ledger.captured[b], ledger.outstanding[b]}
  BY <1>1, AnonTypes
<1> QED
  BY <1>1, <1>2, <1>3 DEF AnonInv, LedgerInv, TouchInv, TrackInv, Tracked, Issued, Captured

\* A pass that succeeds covers what it captured: nothing newer.
LEMMA PassEndAnon ==
  ASSUME Truthful, AnonInv, NEW a \in Agents, NEW success \in BOOLEAN, PassEnd(a, success)
  PROVE  AnonInv'
<1> DEFINE through == ledger.captured[a]
           left == IF success /\ ledger.outstanding[a] <= through THEN 0
                   ELSE ledger.outstanding[a]
           o == Covered(a, through)
<1>1. /\ scanQ = <<>> /\ scanQ' = (IF success THEN <<o>> ELSE <<>>)
      /\ UNCHANGED <<now, roundNow, reg, inbox, carry>>
      /\ ledger' = [ledger EXCEPT !.captured[a] = 0, !.outstanding[a] = left]
  BY DEF PassEnd, storeVars, channelVars, actorVars
<1>2. UnderWay' = IF success THEN UnderWay \cup {o} ELSE UnderWay
  <2>1. CASE success
    BY <1>1, <2>1, ScanUnderWay
  <2>2. CASE ~success
    BY <1>1, <2>2 DEF UnderWay
  <2> QED BY <2>1, <2>2
<1>3. /\ through \in Nat /\ through <= ledger.next /\ ledger.outstanding[a] \in Nat
      /\ left \in {0, ledger.outstanding[a]}
      /\ success => (left # 0 => through < left)
  BY AnonTypes DEF AnonInv, LedgerInv
<1>4. o.type = "covered" /\ o.agent = a /\ o.through = through
  BY DEF Covered
<1> HIDE DEF left, o
<1>5. /\ ledger'.next = ledger.next /\ ledger'.at = ledger.at
      /\ ledger'.captured[a] = 0 /\ ledger'.outstanding[a] = left
      /\ \A b \in Agents : b # a => /\ ledger'.outstanding[b] = ledger.outstanding[b]
                                    /\ ledger'.captured[b] = ledger.captured[b]
  BY <1>1, AnonTypes
<1>6. LedgerInv'
  BY <1>1, <1>3, <1>5, AnonTypes DEF AnonInv, LedgerInv
<1>a. now' = now /\ reg' = reg
  BY <1>1
<1>7. \A b \in Agents : \A h, t : Issued(b, h, t) => Issued(b, h, t)'
  BY <1>a, <1>3, <1>5 DEF Issued
<1>8. \A b \in Agents : \A h : Captured(b, h) => Captured(b, h)'
  BY <1>3, <1>5 DEF Captured
<1>9. success => \A h : h = through => Captured(a, h)'
  BY <1>3, <1>5 DEF Captured
<1>10. TouchInv'
  <2>1. ASSUME NEW x \in UnderWay'
        PROVE  /\ x.type = "anonymous" => Issued(x.agent, x.generation, x.at)'
               /\ x.type = "covered" => Captured(x.agent, x.through)'
    <3>1. CASE success /\ x = o
      BY <1>4, <1>9, <3>1
    <3>2. CASE x \in UnderWay
      BY <1>7, <1>8, <3>2, AnonTypes DEF AnonInv, TouchInv
    <3> QED BY <1>2, <3>1, <3>2
  <2>2. ASSUME NEW b \in Agents, reg'.anonymous[b] # None
        PROVE  Issued(b, reg.anonymous[b].generation, reg.anonymous[b].at)'
    <3>1. PICK e : e = reg.anonymous[b]
      OBVIOUS
    <3>2. Issued(b, e.generation, e.at)'
      BY <1>a, <1>7, <2>2, <3>1 DEF AnonInv, TouchInv
    <3> QED BY <1>a, <3>1, <3>2
  <2> QED BY <2>1, <2>2 DEF TouchInv
<1>11. TrackInv'
  <2>1. ASSUME NEW b \in Agents, ledger'.outstanding[b] # 0 PROVE Tracked(b)'
    <3>1. ledger'.outstanding[b] = ledger.outstanding[b] /\ ledger'.at[b] = ledger.at[b]
      BY <1>3, <1>5, <2>1
    <3>2. UnderWay \subseteq UnderWay'
      BY <1>2
    <3> QED BY <1>1, <2>1, <3>1, <3>2 DEF AnonInv, TrackInv, Tracked
  <2> QED BY <2>1 DEF TrackInv
<1> QED BY <1>1, <1>6, <1>10, <1>11 DEF AnonInv

\* A step of the actor that may change the anonymous activity, one agent at a time.
LEMMA AnonStep ==
  ASSUME Truthful, AnonInv, UNCHANGED <<ledger, now, roundNow>>, UnderWay' \subseteq UnderWay,
         \A b \in Agents : reg'.anonymous[b] # None =>
            Issued(b, reg'.anonymous[b].generation, reg'.anonymous[b].at),
         \A b \in Agents : ledger.outstanding[b] # 0 => Tracked(b)'
  PROVE  AnonInv'
<1>1. ledger' = ledger /\ now' = now /\ roundNow' = roundNow
  OBVIOUS
<1>2. \A b, h, t : Issued(b, h, t) => Issued(b, h, t)'
  BY <1>1 DEF Issued
<1>3. \A b, h : Captured(b, h) => Captured(b, h)'
  BY <1>1 DEF Captured
<1>4. TouchInv'
  BY <1>2, <1>3 DEF AnonInv, TouchInv
<1>5. LedgerInv' /\ TrackInv'
  BY <1>1 DEF AnonInv, LedgerInv, TrackInv
<1> QED BY <1>1, <1>4, <1>5 DEF AnonInv

\* Only a touch whose deadline has come expires.
LEMMA ExpireAnon ==
  ASSUME Truthful, AnonInv, Expire
  PROVE  AnonInv'
<1>1. PICK d \in Due(reg, roundNow) : reg' = ExpireOne(reg, d, roundNow)
  BY DEF Expire
<1>2. UNCHANGED <<ledger, now, roundNow>> /\ UnderWay' = UnderWay
  BY SameUnderWay DEF Expire, storeVars, producerVars
<1>3. d \in reg.deadlines /\ reg \in Registry
  BY AnonTypes DEF Due
<1>4. ASSUME NEW b \in Agents
      PROVE  LET e == reg.anonymous[b]
             IN \/ reg'.anonymous[b] = e
                \/ reg'.anonymous[b] = None /\ e # None /\ ~(roundNow - e.at < QuietWindow)
  BY <1>1, <1>3, ExpireEffect
<1>5. ASSUME NEW b \in Agents, reg'.anonymous[b] # None
      PROVE  Issued(b, reg'.anonymous[b].generation, reg'.anonymous[b].at)
  BY <1>4, <1>5 DEF AnonInv, TouchInv
<1>6. ASSUME NEW b \in Agents, ledger.outstanding[b] # 0 PROVE Tracked(b)'
  <2> DEFINE e == reg.anonymous[b]
  <2>1. Tracked(b) /\ (e # None => Issued(b, e.generation, e.at))
    BY <1>6 DEF AnonInv, TrackInv, TouchInv
  <2>2. CASE reg'.anonymous[b] = e
    BY <1>2, <2>1, <2>2 DEF Tracked
  <2>3. CASE e # None /\ ~(roundNow - e.at < QuietWindow)
    <3>1. CASE e.generation = ledger.outstanding[b]
      <4>1. e.at = ledger.at[b]
        BY <1>6, <2>1, <2>3, <3>1 DEF Issued
      <4>2. now - ledger.at[b] >= QuietWindow
        BY <2>3, <4>1, AnonTypes, WindowAssumption DEF AnonInv
      <4> QED BY <1>2, <4>2 DEF Tracked
    <3>2. CASE e.generation # ledger.outstanding[b]
      BY <1>2, <2>1, <3>2 DEF Tracked
    <3> QED BY <3>1, <3>2
  <2> QED BY <1>4, <2>2, <2>3
<1> QED BY <1>2, <1>5, <1>6, AnonStep

\* An anonymous touch that is applied is registered, or an equal or newer one is,
\* or it has expired.
LEMMA TouchAnon ==
  ASSUME Truthful, AnonInv, ApplyFact, Head(carry).type = "anonymous"
  PROVE  AnonInv'
<1>1. PICK o : o = Head(carry)
  OBVIOUS
<1>2. /\ o \in UnderWay /\ UnderWay' \subseteq UnderWay /\ UnderWay \subseteq UnderWay' \cup {o}
      /\ o.type = "anonymous"
  BY <1>1, ApplyFactUnderWay
<1>3. PICK a, t, g : a = o.agent /\ t = o.at /\ g = o.generation
  OBVIOUS
<1>4. a \in Agents /\ t \in Int /\ g \in Nat /\ Issued(a, g, t)
  BY <1>2, <1>3, AnonTypes DEF AnonInv, TouchInv
<1>5. reg' = AnonymousTouch(reg, a, t, g, roundNow) /\ UNCHANGED <<ledger, now, roundNow>>
  <2>1. reg' = Touched(ObserveOther(reg, o), "unchanged").reg
    BY <1>1, <1>2 DEF ApplyFact
  <2>2. ObserveOther(reg, o) = AnonymousTouch(reg, a, t, g, roundNow)
    BY <1>2, <1>3 DEF ObserveOther
  <2>3. UNCHANGED <<ledger, now, roundNow>>
    BY DEF ApplyFact, storeVars, producerVars
  <2> QED BY <2>1, <2>2, <2>3 DEF Touched
<1>6. PICK e : e = reg.anonymous[a]
  OBVIOUS
<1>7. PICK f : f = reg'.anonymous[a]
  OBVIOUS
<1>8. /\ \A b \in Agents : b # a => reg'.anonymous[b] = reg.anonymous[b]
      /\ \/ f = e /\ (roundNow - t >= QuietWindow \/ (e # None /\ g <= e.generation))
         \/ f = [generation |-> g, at |-> t] /\ (e = None \/ ~(g <= e.generation))
         \/ /\ f = [generation |-> g, at |-> e.at]
            /\ e # None /\ ~(g <= e.generation) /\ t <= e.at
  <2>1. reg \in Registry /\ t \in Time /\ roundNow \in Nat
    BY <1>4, AnonTypes DEF Time
  <2>2. PICK n : n = roundNow
    OBVIOUS
  <2> DEFINE s == AnonymousTouch(reg, a, t, g, n)
  <2>3. /\ \A b \in Agents : b # a => s.anonymous[b] = reg.anonymous[b]
        /\ \/ s.anonymous[a] = e /\ (n - t >= QuietWindow \/ (e # None /\ g <= e.generation))
           \/ /\ s.anonymous[a] = [generation |-> g, at |-> t]
              /\ e = None \/ ~(g <= e.generation)
           \/ /\ s.anonymous[a] = [generation |-> g, at |-> e.at]
              /\ e # None /\ ~(g <= e.generation) /\ t <= e.at
    BY <1>4, <1>6, <2>1, AnonymousTouchEffect
  <2> HIDE DEF s
  <2>4. s = reg'
    BY <1>5, <2>2 DEF s
  <2> QED BY <1>7, <2>2, <2>3, <2>4
<1>9. e # None => Issued(a, e.generation, e.at) /\ e.generation \in Nat /\ e.at \in Int
  BY <1>4, <1>6, AnonTypes DEF AnonInv, TouchInv
<1>10. ledger.outstanding[a] \in Nat /\ ledger.at[a] \in Int /\ now \in Nat /\ roundNow \in Nat
       /\ roundNow <= now
  BY <1>4, AnonTypes DEF AnonInv
<1>11. f # None => Issued(a, f.generation, f.at)
  <2>1. CASE f = e
    BY <1>9, <2>1
  <2>2. CASE f = [generation |-> g, at |-> t]
    BY <1>4, <2>2
  <2>3. CASE f = [generation |-> g, at |-> e.at] /\ e # None /\ t <= e.at
    <3>1. Issued(a, g, e.at)
      BY <1>4, <1>9, <1>10, <2>3 DEF Issued
    <3> QED BY <2>3, <3>1
  <2> QED BY <1>8, <2>1, <2>2, <2>3
<1>12. ASSUME NEW b \in Agents, reg'.anonymous[b] # None
       PROVE  Issued(b, reg'.anonymous[b].generation, reg'.anonymous[b].at)
  BY <1>7, <1>8, <1>11, <1>12 DEF AnonInv, TouchInv
<1>13. ASSUME NEW b \in Agents, ledger.outstanding[b] # 0 PROVE Tracked(b)'
  <2>1. Tracked(b)
    BY <1>13 DEF AnonInv, TrackInv
  <2>2. CASE b # a
    <3>1. Anonymous(b, ledger.at[b], ledger.outstanding[b]) # o
      BY <1>3, <2>2 DEF Anonymous
    <3> QED BY <1>2, <1>5, <1>8, <2>1, <2>2, <3>1 DEF Tracked
  <2>3. CASE b = a
    <3>1. CASE now - ledger.at[a] >= QuietWindow
      BY <1>5, <2>3, <3>1 DEF Tracked
    <3>2. CASE Anonymous(a, ledger.at[a], ledger.outstanding[a]) \in UnderWay'
      BY <1>5, <2>3, <3>2 DEF Tracked
    <3>3. CASE e # None /\ e.generation = ledger.outstanding[a]
      <4>1. g <= e.generation
        BY <1>4, <1>13, <2>3, <3>3 DEF Issued
      <4>2. f = e
        BY <1>8, <3>3, <4>1
      <4> QED BY <1>5, <1>6, <1>7, <2>3, <3>3, <4>2 DEF Tracked
    <3>4. CASE o = Anonymous(a, ledger.at[a], ledger.outstanding[a])
      <4>1. g = ledger.outstanding[a] /\ t = ledger.at[a]
        BY <1>3, <3>4 DEF Anonymous
      <4>2. CASE f = e /\ roundNow - t >= QuietWindow
        <5>1. now - ledger.at[a] >= QuietWindow
          BY <1>10, <4>1, <4>2, WindowAssumption
        <5> QED BY <3>1, <5>1
      <4>3. CASE f = e /\ e # None /\ g <= e.generation
        <5>1. e.generation = g
          BY <1>4, <1>9, <1>13, <2>3, <4>1, <4>3 DEF Issued
        <5> QED BY <3>3, <4>1, <4>3, <5>1
      <4>4. CASE \/ f = [generation |-> g, at |-> t]
                 \/ e # None /\ f = [generation |-> g, at |-> e.at]
        <5>1. f.generation = g
          BY <4>4
        <5>2. f # None
          <6>1. /\ [generation |-> g, at |-> t] \in AnonymousEntry
                /\ e # None => [generation |-> g, at |-> e.at] \in AnonymousEntry
            BY <1>4, <1>9 DEF AnonymousEntry, Time
          <6> QED BY <4>4, <6>1, NoneAssumption
        <5> QED BY <1>5, <1>7, <2>3, <4>1, <5>1, <5>2 DEF Tracked
      <4> QED BY <1>8, <4>2, <4>3, <4>4
    <3> QED BY <1>2, <1>6, <2>1, <2>3, <3>1, <3>2, <3>3, <3>4 DEF Tracked
  <2> QED BY <2>2, <2>3
<1> QED BY <1>2, <1>5, <1>12, <1>13, AnonStep

\* A cover clears no touch that was made after its capture.
LEMMA CoverAnon ==
  ASSUME Truthful, AnonInv, ApplyFact, Head(carry).type = "covered"
  PROVE  AnonInv'
<1>1. PICK o : o = Head(carry)
  OBVIOUS
<1>2. /\ o \in UnderWay /\ UnderWay' \subseteq UnderWay /\ UnderWay \subseteq UnderWay' \cup {o}
      /\ o.type = "covered"
  BY <1>1, ApplyFactUnderWay
<1>3. PICK a, g : a = o.agent /\ g = o.through
  OBVIOUS
<1>4. a \in Agents /\ g \in Nat /\ Captured(a, g)
  BY <1>2, <1>3, AnonTypes DEF AnonInv, TouchInv
<1>5. reg' = Cover(reg, a, g) /\ UNCHANGED <<ledger, now, roundNow>>
  <2>1. reg' = Touched(ObserveOther(reg, o), "unchanged").reg
    BY <1>1, <1>2 DEF ApplyFact
  <2>2. ObserveOther(reg, o) = Cover(reg, a, g)
    BY <1>2, <1>3 DEF ObserveOther
  <2>3. UNCHANGED <<ledger, now, roundNow>>
    BY DEF ApplyFact, storeVars, producerVars
  <2> QED BY <2>1, <2>2, <2>3 DEF Touched
<1>6. /\ \A b \in Agents : b # a => reg'.anonymous[b] = reg.anonymous[b]
      /\ \/ reg'.anonymous[a] = reg.anonymous[a]
         \/ reg'.anonymous[a] = None /\ reg.anonymous[a].generation <= g
  BY <1>4, <1>5, AnonTypes, CoverEffect
<1>7. ASSUME NEW b \in Agents, reg'.anonymous[b] # None
      PROVE  Issued(b, reg'.anonymous[b].generation, reg'.anonymous[b].at)
  BY <1>6, <1>7 DEF AnonInv, TouchInv
<1>8. ASSUME NEW b \in Agents, ledger.outstanding[b] # 0 PROVE Tracked(b)'
  <2>1. Tracked(b)
    BY <1>8 DEF AnonInv, TrackInv
  <2>2. Anonymous(b, ledger.at[b], ledger.outstanding[b]) # o
    BY <1>2 DEF Anonymous
  <2>3. CASE reg'.anonymous[b] = reg.anonymous[b]
    BY <1>2, <1>5, <2>1, <2>2, <2>3 DEF Tracked
  <2>4. CASE b = a /\ reg.anonymous[a].generation <= g
    <3>1. reg.anonymous[a].generation # ledger.outstanding[a]
      BY <1>4, <1>8, <2>4, AnonTypes DEF Captured
    <3> QED BY <1>2, <1>5, <2>1, <2>2, <2>4, <3>1 DEF Tracked
  <2> QED BY <1>6, <2>3, <2>4
<1> QED BY <1>2, <1>5, <1>7, <1>8, AnonStep

\* A report of the commands is about rows.
LEMMA ReportAnon ==
  ASSUME Truthful, Truthful', AnonInv, ReportSome
  PROVE  AnonInv'
<1>1. PICK o \in cmdQ : Report(o)
  BY DEF ReportSome
<1>2. UNCHANGED <<ledger, now, roundNow, reg>>
  BY <1>1 DEF Report, storeVars, actorVars
<1>3. o.type \notin {"anonymous", "covered"}
  BY <1>1, ProducerTypes DEF SyncObservation, RemovedObs, BroadObs, RowObs
<1>4. UnderWay' = UnderWay \cup {o} \/ UnderWay' = UnderWay
  BY <1>1, ReportUnderWay
<1>5. now <= now' /\ roundNow' <= now' /\ \A a \in Agents : reg'.anonymous[a] = reg.anonymous[a]
  BY <1>2, AnonTypes DEF AnonInv
<1> QED BY <1>2, <1>3, <1>4, <1>5, AnonFrame

\* The scan path reports its rows.
LEMMA ScanRowAnon ==
  ASSUME Truthful, Truthful', AnonInv,
         \E k \in LocalKeys : ScanReject(k) \/ ScanTouch(k) \/ \E e \in Epochs : ScanUpsert(k, e)
  PROVE  AnonInv'
<1>1. PICK k \in LocalKeys : ScanReject(k) \/ ScanTouch(k) \/ \E e \in Epochs : ScanUpsert(k, e)
  OBVIOUS
<1>2. UNCHANGED <<ledger, now, roundNow, reg, inbox, carry>> /\ scanQ = <<>>
  BY <1>1 DEF ScanReject, ScanTouch, ScanUpsert, Delete, Upsert, storeVars, actorVars, channelVars
<1>3. \/ scanQ' = <<>>
      \/ \E o : scanQ' = <<o>> /\ o.type \notin {"anonymous", "covered"}
  <2>1. \A i, t, q : /\ Exists(k, i, t, q).type \notin {"anonymous", "covered"}
                     /\ Removed(k, i, q).type \notin {"anonymous", "covered"}
    BY DEF Exists, Removed
  <2>2. CASE ScanReject(k)
    BY <2>1, <2>2 DEF ScanReject
  <2>3. CASE ScanTouch(k)
    BY <2>1, <2>3 DEF ScanTouch
  <2>4. CASE \E e \in Epochs : ScanUpsert(k, e)
    <3>1. PICK e \in Epochs : ScanUpsert(k, e)
      BY <2>4
    <3>2. scanQ' = <<>> \/ scanQ' = <<Exists(k, row'[k].incarnation, e, rev')>>
      BY <3>1, Zenon DEF ScanUpsert
    <3> QED BY <2>1, <3>2
  <2> QED BY <1>1, <2>2, <2>3, <2>4
<1>4. /\ \A o \in UnderWay' : o \in UnderWay \/ o.type \notin {"anonymous", "covered"}
      /\ UnderWay \subseteq UnderWay'
  <2>1. CASE scanQ' = <<>>
    BY <1>2, <2>1 DEF UnderWay
  <2>2. ASSUME NEW o, scanQ' = <<o>>, o.type \notin {"anonymous", "covered"}
        PROVE  /\ \A x \in UnderWay' : x \in UnderWay \/ x.type \notin {"anonymous", "covered"}
               /\ UnderWay \subseteq UnderWay'
    BY <1>2, <2>2, ScanUnderWay
  <2> QED BY <1>3, <2>1, <2>2
<1>5. now <= now' /\ roundNow' <= now' /\ \A a \in Agents : reg'.anonymous[a] = reg.anonymous[a]
  BY <1>2, AnonTypes DEF AnonInv
<1> QED BY <1>2, <1>4, <1>5, AnonFrame

\* Every step keeps an uncovered touch on its way, registered or expired.
LEMMA NextAnon ==
  ASSUME Truthful, Truthful', AnonInv, [Next]_vars
  PROVE  AnonInv'
<1>1. CASE \E a \in Agents : ScanAnonymous(a) \/ PassStart(a) \/ \E s \in BOOLEAN : PassEnd(a, s)
  BY <1>1, ScanAnonymousAnon, PassStartAnon, PassEndAnon
<1>2. CASE Expire
  BY <1>2, ExpireAnon
<1>3. CASE ApplyFact
  <2>1. CASE Head(carry).type \notin {"anonymous", "covered"}
    <3>1. UNCHANGED <<ledger, now, roundNow>>
      BY <1>3 DEF ApplyFact, storeVars, producerVars
    <3>2. reg'.anonymous = reg.anonymous
      BY <1>3, <2>1, ApplyFactAnonymous
    <3>3. UnderWay' \subseteq UnderWay /\ UnderWay \subseteq UnderWay' \cup {Head(carry)}
      BY <1>3, ApplyFactUnderWay
    <3>4. now <= now' /\ roundNow' <= now'
      BY <3>1, AnonTypes DEF AnonInv
    <3> QED BY <2>1, <3>1, <3>2, <3>3, <3>4, AnonFrame
  <2> QED BY <1>3, <2>1, TouchAnon, CoverAnon
<1>4. CASE \/ ScanSend \/ Command \/ ReadPage \/ FailPage \/ BackoffElapses \/ Tick
           \/ UNCHANGED vars
           \/ Select \/ PageArrives \/ RecoveryPageArrives \/ PageFailed \/ NoPage
           \/ PageRow \/ RecoveryRow \/ RecoveryPageEnds \/ TakeSpill \/ SpillRemoval \/ SpillRest
           \/ Receive \/ FactsEnd \/ Issue
  <2>1. UnderWay' = UnderWay
    BY <1>4, SameUnderWay
  <2>2. CASE \/ RecoveryPageArrives \/ PageRow \/ RecoveryRow \/ RecoveryPageEnds
             \/ SpillRemoval \/ SpillRest \/ Issue
    <3>1. reg'.anonymous = reg.anonymous
      BY <2>2, SameAnonymous
    <3>2. UNCHANGED <<ledger, now, roundNow>>
      BY <2>2 DEF RecoveryPageArrives, PageRow, RecoveryRow, RecoveryPageEnds, SpillRemoval,
                  SpillRest, Issue, storeVars, producerVars
    <3>3. now <= now' /\ roundNow' <= now'
      BY <3>2, AnonTypes DEF AnonInv
    <3> QED BY <2>1, <3>1, <3>2, <3>3, AnonFrame
  <2>3. CASE \/ ScanSend \/ Command \/ ReadPage \/ FailPage \/ BackoffElapses
             \/ UNCHANGED vars \/ PageArrives \/ PageFailed \/ NoPage \/ TakeSpill
             \/ Receive \/ FactsEnd
    <3>1. UNCHANGED <<ledger, now, roundNow, reg>>
      BY <2>3 DEF ScanSend, Command, CommandDelete, CommandBroad, AnalysisPublish, Delete,
                  ReadPage, FailPage, BackoffElapses, vars, PageArrives, PageFailed, NoPage,
                  TakeSpill, Receive, FactsEnd, storeVars, producerVars, actorVars
    <3>2. now <= now' /\ roundNow' <= now'
      BY <3>1, AnonTypes DEF AnonInv
    <3> QED BY <2>1, <3>1, <3>2, AnonFrame
  <2>4. CASE Select \/ Tick
    <3>1. /\ UNCHANGED <<ledger, reg>> /\ now' \in {now, now + 1}
          /\ roundNow' \in {roundNow, now}
      BY <2>4 DEF Select, Tick, storeVars, producerVars, actorVars
    <3>2. now <= now' /\ roundNow' <= now'
      BY <3>1, AnonTypes DEF AnonInv
    <3> QED BY <2>1, <3>1, <3>2, AnonFrame
  <2> QED BY <1>4, <2>2, <2>3, <2>4
<1>5. CASE ReportSome
  BY <1>5, ReportAnon
<1>6. CASE \E k \in LocalKeys : ScanReject(k) \/ ScanTouch(k) \/ \E e \in Epochs : ScanUpsert(k, e)
  BY <1>6, ScanRowAnon
<1> QED
  BY <1>1, <1>2, <1>3, <1>4, <1>5, <1>6 DEF Next, ActorStep, Scan

\* No agent is active at the start.
LEMMA InitAnon == Init => AnonInv
<1> SUFFICES ASSUME Init PROVE AnonInv
  OBVIOUS
<1>1. /\ now = StartTime /\ roundNow = StartTime /\ StartTime \in Nat
      /\ ledger = [next |-> 0, outstanding |-> [a \in Agents |-> 0],
                   captured |-> [a \in Agents |-> 0], at |-> [a \in Agents |-> 0]]
      /\ scanQ = <<>> /\ inbox = <<>> /\ carry = <<>>
  BY BoundAssumption DEF Init
<1>2. UnderWay = {}
  BY <1>1, ElemsShort DEF UnderWay
<1>3. ledger.next = 0 /\ \A a \in Agents : /\ ledger.outstanding[a] = 0 /\ ledger.captured[a] = 0
                                           /\ ledger.at[a] = 0
  BY <1>1
<1>4. \A a \in Agents : reg.anonymous[a] = None
  BY SeedIs DEF Seeding, Empty
<1> HIDE DEF Init
<1>5. LedgerInv
  BY <1>1, <1>3 DEF LedgerInv
<1>6. TouchInv /\ TrackInv
  BY <1>2, <1>3, <1>4 DEF TouchInv, TrackInv
<1> QED BY <1>1, <1>5, <1>6 DEF AnonInv

\* The ledger of the scan scheduler and the registry agree on every touch.
LEMMA AnonAlways == Spec => []AnonInv
<1>1. Truthful /\ Truthful' /\ AnonInv /\ [Next]_vars => AnonInv'
  BY NextAnon
<1> QED
  BY <1>1, InitAnon, TruthfulAlways, PTL DEF Spec

\* An anonymous touch that no successful pass has covered stays visible until its
\* deadline: a cover that AnonymousLedger captured before the touch cannot clear it,
\* and a touch that arrives late never replaces a newer one.
THEOREM AnonymousTrackedAlways == Spec => []AnonymousTracked
<1>1. Truthful /\ AnonInv => AnonymousTracked
  <2> SUFFICES ASSUME Truthful, AnonInv, Quiescent, NEW a \in Agents,
                      ledger.outstanding[a] # 0, now - ledger.at[a] < QuietWindow
               PROVE  /\ reg.anonymous[a] # None
                      /\ reg.anonymous[a].generation = ledger.outstanding[a]
                      /\ reg.anonymous[a].at = ledger.at[a]
    BY DEF AnonymousTracked
  <2>1. UnderWay = {}
    BY ElemsShort DEF Quiescent, UnderWay
  <2>2. ~(now - ledger.at[a] >= QuietWindow)
    BY AnonTypes, WindowAssumption
  <2>3. reg.anonymous[a] # None /\ reg.anonymous[a].generation = ledger.outstanding[a]
    BY <2>1, <2>2 DEF AnonInv, TrackInv, Tracked
  <2>4. Issued(a, reg.anonymous[a].generation, reg.anonymous[a].at)
    BY <2>3 DEF AnonInv, TouchInv
  <2> QED BY <2>3, <2>4 DEF Issued
<1> QED
  BY <1>1, AnonAlways, TruthfulAlways, PTL

----------------------------------------------------------------------------
(* Own activity.                                                           *)

\* Activity t of incarnation i of k is not newer than what was written or
\* reported for i, when i is the stored incarnation.
Within(k, i, t) == row[k] # None /\ row[k].incarnation = i => t <= reached[k]

PageOwn(S, rows) ==
  \A k \in S : rows[k] # None => Within(k, rows[k].incarnation, rows[k].epoch)

ListOwn(rows) ==
  \A n \in DOMAIN rows : Within(rows[n].key, rows[n].incarnation, rows[n].epoch)

RowsOwn == \A k \in Keys : row[k] # None => row[k].epoch <= reached[k]

ReportsOwn ==
  \A o \in UnderWay : o.type = "exists" => Within(o.key, o.incarnation, o.at)

OutcomeOwn ==
  inFlight # None /\ inFlight.status = "ok" =>
      PageOwn(inFlight.request.keys, inFlight.rows) /\ ListOwn(inFlight.active)

HandOwn == page # None => PageOwn(page.rest, page.rows)

SessionsOwn ==
  \A k \in Keys : row[k] # None => KeyWithin(reg, k, row[k].incarnation, reached[k])

HeldOwn ==
  reg.recovery # None /\ reg.recovery.page # None => ListOwn(reg.recovery.page.rows)

\* Wherever a time of the stored incarnation is kept, it is not newer than what was
\* written or reported for that incarnation.
OwnInv == RowsOwn /\ ReportsOwn /\ OutcomeOwn /\ HandOwn /\ SessionsOwn /\ HeldOwn

\* A row keeps its incarnation and loses no activity, or its incarnation is new.
StoreGrows ==
  \A k \in Keys : row'[k] # None =>
      \/ row[k] # None /\ row'[k].incarnation = row[k].incarnation /\ reached[k] <= reached'[k]
      \/ row'[k].incarnation > incSeq

\* The types that the argument uses.
LEMMA OwnTypes ==
  ASSUME Truthful
  PROVE  /\ incSeq \in Int /\ \A k \in Keys : reached[k] \in Int
         /\ \A k \in Keys : row[k] # None => row[k].incarnation \in Nat /\ row[k].epoch \in Int
         /\ \A x \in existed : x[2] <= incSeq
  BY DEF Truthful, StoreTypeOK, StoreInv, Presence, Incarnation, Time

\* What is known of an incarnation that was allocated before stays within its reach.
LEMMA GrowsWithin ==
  ASSUME Truthful, Truthful', StoreGrows, NEW k \in Keys, NEW i \in Int, i <= incSeq,
         NEW t \in Int, Within(k, i, t)
  PROVE  Within(k, i, t)'
<1>1. /\ incSeq \in Int /\ reached[k] \in Int /\ reached'[k] \in Int
      /\ row'[k] # None => row'[k].incarnation \in Int
  BY DEF Truthful, StoreTypeOK, Incarnation, Time, Presence
<1> QED
  BY <1>1 DEF StoreGrows, Within

\* Every time that is kept belongs to an incarnation that was allocated.
LEMMA OwnEvidence ==
  ASSUME Truthful
  PROVE  /\ \A o \in UnderWay : o.type = "exists" =>
              /\ o.key \in Keys /\ o.incarnation \in Int /\ o.at \in Int
              /\ o.incarnation <= incSeq
         /\ \A k \in Keys :
              /\ reg.live[k] # None => /\ reg.live[k].incarnation \in Int
                                       /\ reg.live[k].last_activity_at \in Int
                                       /\ reg.live[k].incarnation <= incSeq
              /\ reg.pending[k] # None => /\ reg.pending[k].incarnation \in Int
                                          /\ reg.pending[k].at \in Int
                                          /\ reg.pending[k].incarnation <= incSeq
<1>1. \A k, i, q : <<k, i, q>> \in existed => i <= incSeq
  <2>1. \A k, i, q : <<k, i, q>>[2] = i
    OBVIOUS
  <2> QED BY <2>1, OwnTypes
<1>2. \A o \in UnderWay : o.type = "exists" =>
         o \in ExistsObs /\ <<o.key, o.incarnation, o.revision>> \in existed
  BY UnderWayTrue DEF TrueObs, Observation, SyncObservation, ExistsObs, RemovedObs, BroadObs,
                      RowObs, AnonymousObs, CoveredObs
<1>3. ASSUME NEW o \in UnderWay, o.type = "exists"
      PROVE  /\ o.key \in Keys /\ o.incarnation \in Int /\ o.at \in Int
             /\ o.incarnation <= incSeq
  <2>1. o \in ExistsObs /\ <<o.key, o.incarnation, o.revision>> \in existed
    BY <1>2, <1>3
  <2> QED BY <1>1, <2>1 DEF ExistsObs, Incarnation, Time
<1>4. reg \in Registry /\ \A k \in Keys : KeyInv(reg, existed, rev, k)
  BY TruthfulParts DEF RegistryInv
<1>5. ASSUME NEW k \in Keys
      PROVE  /\ reg.live[k] # None => /\ reg.live[k].incarnation \in Int
                                      /\ reg.live[k].last_activity_at \in Int
                                      /\ reg.live[k].incarnation <= incSeq
             /\ reg.pending[k] # None => /\ reg.pending[k].incarnation \in Int
                                         /\ reg.pending[k].at \in Int
                                         /\ reg.pending[k].incarnation <= incSeq
  <2>1. /\ reg.live[k] \in LiveEntry \cup {None}
        /\ reg.pending[k] \in Existence \cup {None}
    BY <1>4 DEF Registry
  <2>2. /\ reg.live[k] # None => <<k, reg.live[k].incarnation, reg.live[k].exists_at>> \in existed
        /\ reg.pending[k] # None =>
              <<k, reg.pending[k].incarnation, reg.pending[k].revision>> \in existed
    BY <1>4 DEF KeyInv
  <2> QED BY <1>1, <2>1, <2>2 DEF LiveEntry, Existence, Incarnation, Time
<1> QED BY <1>3, <1>5

\* The store changes, the actor stands still.
LEMMA StoreStepOwn ==
  ASSUME Truthful, Truthful', OwnInv, StoreGrows, UNCHANGED actorVars, RowsOwn',
         \A o \in UnderWay' : \/ o \in UnderWay
                              \/ o.type = "exists" => Within(o.key, o.incarnation, o.at)'
  PROVE  OwnInv'
<1>1. reg' = reg /\ inFlight' = inFlight /\ page' = page
  BY DEF actorVars
<1>2. \A k \in Keys : \A i, t \in Int : i <= incSeq /\ Within(k, i, t) => Within(k, i, t)'
  BY GrowsWithin
<1>3. ReportsOwn'
  BY <1>2, OwnEvidence DEF OwnInv, ReportsOwn
<1>4. \A k, i, q : <<k, i, q>> \in existed => i <= incSeq
  <2>1. \A k, i, q : <<k, i, q>>[2] = i
    OBVIOUS
  <2> QED BY <2>1, OwnTypes
<1>5. ASSUME NEW S, NEW rows \in [Keys -> Presence \cup {None}], NEW q, S \subseteq Keys,
             Snapshot(S, rows, q, existed, rev), PageOwn(S, rows)
      PROVE  PageOwn(S, rows)'
  <2>1. ASSUME NEW k \in S, rows[k] # None
        PROVE  /\ rows[k].incarnation \in Int /\ rows[k].epoch \in Int
               /\ rows[k].incarnation <= incSeq
    <3>1. rows[k] \in Presence
      BY <1>5, <2>1
    <3>2. <<k, rows[k].incarnation, q>> \in existed
      BY <1>5, <2>1 DEF Snapshot
    <3> QED BY <1>4, <3>1, <3>2 DEF Presence, Incarnation, Time
  <2> QED BY <1>2, <1>5, <2>1 DEF PageOwn
<1>6. ASSUME NEW rows \in Seq(ActiveRow), NEW q, RowsTrue(rows, existed, q), ListOwn(rows)
      PROVE  ListOwn(rows)'
  <2>1. ASSUME NEW n \in DOMAIN rows
        PROVE  /\ rows[n].key \in Keys /\ rows[n].incarnation \in Int
               /\ rows[n].epoch \in Int /\ rows[n].incarnation <= incSeq
    <3>1. rows[n] \in ActiveRow
      BY <1>6
    <3>2. <<rows[n].key, rows[n].incarnation, q>> \in existed
      BY <1>6 DEF RowsTrue
    <3> QED BY <1>4, <3>1, <3>2 DEF ActiveRow, Incarnation, Time
  <2> QED BY <1>2, <1>6, <2>1 DEF ListOwn
<1>7. OutcomeOwn'
  <2> SUFFICES ASSUME inFlight # None, inFlight.status = "ok"
               PROVE  (PageOwn(inFlight.request.keys, inFlight.rows) /\ ListOwn(inFlight.active))'
    BY <1>1 DEF OutcomeOwn
  <2>1. PICK S, rows, q, active : /\ S = inFlight.request.keys /\ rows = inFlight.rows
                                  /\ q = inFlight.revision /\ active = inFlight.active
    OBVIOUS
  <2>2. /\ S \subseteq Keys /\ rows \in [Keys -> Presence \cup {None}]
        /\ active \in Seq(ActiveRow)
    BY <2>1, ControlTypes DEF PageOutcome, PageRequest
  <2>3. Snapshot(S, rows, q, existed, rev) /\ RowsTrue(active, existed, q)
    BY <2>1 DEF Truthful, ReadInv
  <2>4. PageOwn(S, rows) /\ ListOwn(active)
    BY <2>1 DEF OwnInv, OutcomeOwn
  <2>5. PageOwn(S, rows)' /\ ListOwn(active)'
    BY <1>5, <1>6, <2>2, <2>3, <2>4
  <2> QED BY <1>1, <2>1, <2>5 DEF PageOwn, ListOwn
<1>8. HandOwn'
  <2> SUFFICES ASSUME page # None PROVE PageOwn(page.rest, page.rows)'
    BY <1>1 DEF HandOwn
  <2>1. PICK S, rows, q : S = page.rest /\ rows = page.rows /\ q = page.revision
    OBVIOUS
  <2>2. S \subseteq Keys /\ rows \in [Keys -> Presence \cup {None}]
    BY <2>1, ControlTypes DEF PageInHand
  <2>3. Snapshot(S, rows, q, existed, rev)
    BY <2>1 DEF Truthful, ReadInv
  <2>4. PageOwn(S, rows)
    BY <2>1 DEF OwnInv, HandOwn
  <2>5. PageOwn(S, rows)'
    BY <1>5, <2>2, <2>3, <2>4
  <2> QED BY <1>1, <2>1, <2>5 DEF PageOwn
<1>9. SessionsOwn'
  <2> SUFFICES ASSUME NEW k \in Keys, row'[k] # None
               PROVE  KeyWithin(reg', k, row'[k].incarnation, reached'[k])
    BY DEF SessionsOwn
  <2>1. /\ incSeq \in Int /\ reached[k] \in Int /\ reached'[k] \in Int
        /\ row'[k].incarnation \in Int
    BY DEF Truthful, StoreTypeOK, Incarnation, Time, Presence
  <2>2. CASE /\ row[k] # None /\ row'[k].incarnation = row[k].incarnation
             /\ reached[k] <= reached'[k]
    <3>1. KeyWithin(reg, k, row[k].incarnation, reached[k])
      BY <2>2 DEF OwnInv, SessionsOwn
    <3> QED BY <1>1, <2>1, <2>2, <3>1, OwnEvidence DEF KeyWithin, EntryWithin, FactWithin
  <2>3. CASE row'[k].incarnation > incSeq
    BY <1>1, <2>1, <2>3, OwnEvidence DEF KeyWithin, EntryWithin, FactWithin
  <2> QED BY <2>2, <2>3 DEF StoreGrows
<1>10. HeldOwn'
  <2> SUFFICES ASSUME reg.recovery # None, reg.recovery.page # None
               PROVE  ListOwn(reg.recovery.page.rows)'
    BY <1>1 DEF HeldOwn
  <2>1. PICK held : held = reg.recovery.page
    OBVIOUS
  <2>2. PICK rows, q : rows = held.rows /\ q = held.revision
    OBVIOUS
  <2>3. RegistryInv(reg, existed, rev) /\ reg \in Registry
    BY TruthfulParts DEF RegistryInv
  <2>4. held \in RecoveryPage /\ RowsTrue(rows, existed, q)
    BY <2>1, <2>2, <2>3 DEF RegistryInv, Registry, SeedRecovery
  <2>5. rows \in Seq(ActiveRow)
    BY <2>2, <2>4 DEF RecoveryPage
  <2>6. ListOwn(rows)
    BY <2>1, <2>2 DEF OwnInv, HeldOwn
  <2>7. ListOwn(rows)'
    BY <1>6, <2>4, <2>5, <2>6
  <2> QED BY <1>1, <2>1, <2>2, <2>7 DEF ListOwn
<1> QED
  BY <1>3, <1>7, <1>8, <1>9, <1>10 DEF OwnInv

\* The rows change with their activity.
LEMMA ScanUpsertOwn ==
  ASSUME Truthful, Truthful', OwnInv, NEW k \in Keys, NEW at \in Epochs, ScanUpsert(k, at)
  PROVE  OwnInv'
<1>1. PICK epoch \in Epochs : Upsert(k, at, epoch)
  BY DEF ScanUpsert
<1> DEFINE i == IF row[k] = None THEN incSeq + 1 ELSE row[k].incarnation
           o == Exists(k, row'[k].incarnation, at, rev')
           c == IF row[k] = None THEN at ELSE Max2(reached[k], at)
<1>2. /\ at \in Int /\ epoch \in Int /\ incSeq \in Int
      /\ DOMAIN row = Keys /\ DOMAIN reached = Keys /\ reached[k] \in Int
      /\ row[k] # None => row[k].epoch \in Int
      /\ \A j \in Keys : reached[j] \in Int
  BY <1>1, BoundAssumption DEF Truthful, StoreTypeOK, Time, Incarnation, Presence
<1>3. /\ row' = [row EXCEPT ![k] = [incarnation |-> i, epoch |-> epoch]]
      /\ reached' = [reached EXCEPT ![k] = c]
      /\ epoch = at \/ (row[k] # None /\ epoch = row[k].epoch)
  BY <1>1 DEF Upsert
<1>4. /\ row'[k].incarnation = i /\ row'[k].epoch = epoch /\ reached'[k] = c
      /\ \A j \in Keys : j # k => row'[j] = row[j] /\ reached'[j] = reached[j]
  BY <1>2, <1>3
<1>5. /\ i = incSeq + 1 \/ (row[k] # None /\ i = row[k].incarnation /\ reached[k] <= c)
      /\ at <= c
  BY <1>2 DEF Max2
<1>6. row[k] # None /\ epoch = row[k].epoch => epoch <= c
  <2>1. row[k] # None => row[k].epoch <= reached[k]
    BY DEF OwnInv, RowsOwn
  <2> QED BY <1>2, <2>1 DEF Max2
<1>7. c \in Int
  BY <1>2 DEF Max2
<1> HIDE DEF i, c
<1>8. StoreGrows
  <2> SUFFICES ASSUME NEW j \in Keys, row'[j] # None
               PROVE  \/ /\ row[j] # None /\ row'[j].incarnation = row[j].incarnation
                         /\ reached[j] <= reached'[j]
                      \/ row'[j].incarnation > incSeq
    BY DEF StoreGrows
  <2>1. CASE j = k
    BY <1>2, <1>4, <1>5, <2>1
  <2>2. CASE j # k
    BY <1>2, <1>4, <2>2
  <2> QED BY <2>1, <2>2
<1>9. RowsOwn'
  <2>1. epoch <= c
    BY <1>3, <1>5, <1>6
  <2> QED BY <1>4, <2>1 DEF OwnInv, RowsOwn
<1>10. UNCHANGED actorVars /\ UNCHANGED <<inbox, carry>> /\ scanQ = <<>>
       /\ (scanQ' = <<>> \/ scanQ' = <<o>>)
  <2>1. scanQ' = <<>> \/ scanQ' = <<o>>
    BY Zenon DEF ScanUpsert
  <2> QED BY <2>1 DEF ScanUpsert, actorVars, channelVars
<1>11. o.key = k /\ o.incarnation = row'[k].incarnation /\ o.at = at
  BY DEF Exists
<1> HIDE DEF o
<1>12. \A x \in UnderWay' : x \in UnderWay \/ x = o
  <2>1. CASE scanQ' = <<>>
    BY <1>10, <2>1 DEF UnderWay
  <2>2. CASE scanQ' = <<o>>
    BY <1>10, <2>2, ScanUnderWay
  <2> QED BY <1>10, <2>1, <2>2
<1>13. ASSUME NEW x \in UnderWay'
       PROVE  x \in UnderWay \/ (x.type = "exists" => Within(x.key, x.incarnation, x.at)')
  BY <1>4, <1>5, <1>11, <1>12 DEF Within
<1> QED BY <1>8, <1>9, <1>10, <1>13, StoreStepOwn

\* report_touched: the activity is of the stored row.
LEMMA ScanTouchOwn ==
  ASSUME Truthful, Truthful', OwnInv, NEW k \in Keys, ScanTouch(k)
  PROVE  OwnInv'
<1> DEFINE o == Exists(k, row[k].incarnation, now, rev)
           c == Max2(reached[k], now)
<1>1. /\ now \in Int /\ DOMAIN reached = Keys
      /\ \A j \in Keys : reached[j] \in Int /\ (row[j] # None => row[j].epoch \in Int)
  BY DEF Truthful, StoreTypeOK, Time, Presence
<1>2. /\ scanQ = <<>> /\ scanQ' = <<o>> /\ row' = row /\ reached' = [reached EXCEPT ![k] = c]
      /\ UNCHANGED actorVars /\ UNCHANGED <<inbox, carry>>
  BY DEF ScanTouch, storeVars, channelVars, actorVars
<1>3. c \in Int /\ now <= c /\ reached[k] <= c
  BY <1>1 DEF Max2
<1> HIDE DEF c
<1>4. reached'[k] = c /\ \A j \in Keys : j # k => reached'[j] = reached[j]
  BY <1>1, <1>2
<1>5. StoreGrows
  BY <1>1, <1>2, <1>3, <1>4 DEF StoreGrows
<1>6. RowsOwn'
  BY <1>1, <1>2, <1>3, <1>4 DEF OwnInv, RowsOwn
<1>7. o.key = k /\ o.at = now
  BY DEF Exists
<1> HIDE DEF o
<1>8. UnderWay' = UnderWay \cup {o}
  BY <1>2, ScanUnderWay
<1>9. ASSUME NEW x \in UnderWay'
      PROVE  x \in UnderWay \/ (x.type = "exists" => Within(x.key, x.incarnation, x.at)')
  BY <1>3, <1>4, <1>7, <1>8 DEF Within
<1> QED BY <1>2, <1>5, <1>6, <1>9, StoreStepOwn

\* A deletion leaves the other rows as they were.
LEMMA DeleteOwn ==
  ASSUME Truthful, Truthful', OwnInv, NEW S, Delete(S), UNCHANGED actorVars,
         \A o \in UnderWay' : o \in UnderWay \/ o.type # "exists"
  PROVE  OwnInv'
<1>1. /\ row' = [k \in Keys |-> IF k \in S THEN None ELSE row[k]] /\ reached' = reached
  BY DEF Delete
<1>2. \A k \in Keys : row'[k] = None \/ row'[k] = row[k]
  BY <1>1
<1>3. \A k \in Keys : reached[k] \in Int
  BY OwnTypes
<1>4. StoreGrows
  BY <1>1, <1>2, <1>3 DEF StoreGrows
<1>5. RowsOwn'
  BY <1>1, <1>2 DEF OwnInv, RowsOwn
<1> QED BY <1>4, <1>5, StoreStepOwn

\* The scan path reports a deleted row.
LEMMA ScanRejectOwn ==
  ASSUME Truthful, Truthful', OwnInv, NEW k \in Keys, ScanReject(k)
  PROVE  OwnInv'
<1>1. PICK o : /\ scanQ' = <<o>> /\ o = Removed(k, row[k].incarnation, rev')
  BY DEF ScanReject
<1>2. scanQ = <<>> /\ Delete({k}) /\ UNCHANGED actorVars /\ UNCHANGED <<inbox, carry>>
  BY DEF ScanReject, channelVars, actorVars
<1>3. o.type # "exists"
  BY <1>1 DEF Removed
<1>4. UnderWay' = UnderWay \cup {o}
  BY <1>1, <1>2, ScanUnderWay
<1> QED BY <1>2, <1>3, <1>4, DeleteOwn

\* The sessions of the registry are untouched.
LEMMA SameSessionsOwn ==
  ASSUME OwnInv, UNCHANGED <<row, reached>>, reg'.live = reg.live,
         \A k \in Keys : reg'.pending[k] # None => reg'.pending[k] = reg.pending[k]
  PROVE  SessionsOwn'
<1> SUFFICES ASSUME NEW k \in Keys, row[k] # None
             PROVE  KeyWithin(reg', k, row[k].incarnation, reached[k])
  BY DEF SessionsOwn
<1>1. KeyWithin(reg, k, row[k].incarnation, reached[k])
  BY DEF OwnInv, SessionsOwn
<1> QED BY <1>1 DEF KeyWithin

\* A step on one key of the registry.
LEMMA OneKeyOwn ==
  ASSUME OwnInv, UNCHANGED <<row, reached>>, NEW k \in Keys, NEW s, OneKey(reg, s, k),
         row[k] # None => KeyWithin(s, k, row[k].incarnation, reached[k]),
         reg'.live = s.live, reg'.pending = s.pending
  PROVE  SessionsOwn'
<1> SUFFICES ASSUME NEW j \in Keys, row[j] # None
             PROVE  KeyWithin(reg', j, row[j].incarnation, reached[j])
  BY DEF SessionsOwn
<1>1. KeyWithin(reg, j, row[j].incarnation, reached[j])
  BY DEF OwnInv, SessionsOwn
<1> QED BY <1>1 DEF KeyWithin, OneKey

\* The store stands still, nothing new is reported or read.
LEMMA OwnFrame ==
  ASSUME OwnInv, UNCHANGED <<row, reached>>,
         \A o \in UnderWay' : o \in UnderWay \/ o.type # "exists",
         SessionsOwn', HeldOwn', HandOwn', OutcomeOwn'
  PROVE  OwnInv'
<1>1. RowsOwn'
  BY DEF OwnInv, RowsOwn
<1>2. ReportsOwn'
  BY DEF OwnInv, ReportsOwn, Within
<1> QED BY <1>1, <1>2 DEF OwnInv

\* What is read is unchanged, failed or dropped.
LEMMA SameReadsOwn ==
  ASSUME OwnInv, UNCHANGED <<row, reached>>
  PROVE  /\ inFlight' = inFlight \/ inFlight' = None \/ inFlight'.status # "ok" => OutcomeOwn'
         /\ page' = page \/ page' = None => HandOwn'
         /\ reg'.recovery = reg.recovery => HeldOwn'
<1>1. inFlight' = inFlight \/ inFlight' = None \/ inFlight'.status # "ok" => OutcomeOwn'
  BY DEF OwnInv, OutcomeOwn, PageOwn, ListOwn, Within
<1>2. page' = page \/ page' = None => HandOwn'
  BY DEF OwnInv, HandOwn, PageOwn, Within
<1>3. reg'.recovery = reg.recovery => HeldOwn'
  BY DEF OwnInv, HeldOwn, ListOwn, Within
<1> QED BY <1>1, <1>2, <1>3

\* A read returns rows of the store.
LEMMA ReadPageOwn ==
  ASSUME Truthful, OwnInv, ReadPage
  PROVE  OwnInv'
<1>1. UNCHANGED <<row, reached, reg, page>>
  BY DEF ReadPage, storeVars, historyVars
<1>2. UnderWay' = UnderWay
  BY SameUnderWay
<1>3. SessionsOwn' /\ HeldOwn' /\ HandOwn'
  BY <1>1, SameSessionsOwn, SameReadsOwn
<1>4. RowsOwn
  BY DEF OwnInv
<1>5. /\ \A k \in inFlight'.request.keys : inFlight'.rows[k] = row[k]
      /\ inFlight'.active = <<>> \/ inFlight'.active \in ActivePages(reg.recovery)
      /\ inFlight'.request.keys \subseteq Keys
  BY ReadPageResult DEF PageOutcome, PageRequest
<1>6. \A rows, S : S \subseteq Keys /\ (\A k \in S : rows[k] = row[k]) => PageOwn(S, rows)
  BY <1>4 DEF PageOwn, Within, RowsOwn
<1>7. \A active \in ActivePages(reg.recovery) : ListOwn(active)
  <2> SUFFICES ASSUME NEW active \in ActivePages(reg.recovery), NEW n \in DOMAIN active
               PROVE  Within(active[n].key, active[n].incarnation, active[n].epoch)
    BY DEF ListOwn
  <2>1. LET k == active[n].key IN k \in Keys /\ row[k] # None /\ row[k].epoch = active[n].epoch
    BY ActivePagesTrue
  <2> QED BY <1>4, <2>1 DEF Within, RowsOwn
<1>8. ListOwn(<<>>)
  BY DEF ListOwn
<1>9. PICK S, rows, active : /\ S = inFlight'.request.keys /\ rows = inFlight'.rows
                             /\ active = inFlight'.active
  OBVIOUS
<1>10. PageOwn(S, rows) /\ ListOwn(active)
  BY <1>5, <1>6, <1>7, <1>8, <1>9
<1>11. PageOwn(S, rows)' /\ ListOwn(active)'
  BY <1>1, <1>10 DEF PageOwn, ListOwn, Within
<1>12. OutcomeOwn'
  BY <1>9, <1>11 DEF OutcomeOwn, PageOwn, ListOwn
<1> QED BY <1>1, <1>2, <1>3, <1>12, OwnFrame

\* A page that was read comes to hand.
LEMMA PageArrivesOwn ==
  ASSUME Truthful, OwnInv, PageArrives
  PROVE  OwnInv'
<1>1. /\ UNCHANGED <<row, reached, reg>> /\ inFlight # None /\ inFlight.status = "ok"
      /\ inFlight' = None /\ page'.rest = inFlight.request.keys /\ page'.rows = inFlight.rows
  BY DEF PageArrives, storeVars, historyVars
<1>2. UnderWay' = UnderWay
  BY SameUnderWay
<1>3. SessionsOwn' /\ HeldOwn' /\ OutcomeOwn'
  BY <1>1, SameSessionsOwn, SameReadsOwn
<1>4. HandOwn'
  <2>1. PICK S, rows : S = inFlight.request.keys /\ rows = inFlight.rows
    OBVIOUS
  <2>2. PageOwn(S, rows)
    BY <1>1, <2>1 DEF OwnInv, OutcomeOwn
  <2>3. PageOwn(S, rows)'
    BY <1>1, <2>2 DEF PageOwn, Within
  <2> QED BY <1>1, <2>1, <2>3 DEF HandOwn, PageOwn
<1> QED BY <1>1, <1>2, <1>3, <1>4, OwnFrame

\* A recovery page that was read is held.
LEMMA RecoveryPageArrivesOwn ==
  ASSUME Truthful, OwnInv, RecoveryPageArrives
  PROVE  OwnInv'
<1>1. /\ UNCHANGED <<row, reached, page>> /\ inFlight # None /\ inFlight.status = "ok"
      /\ inFlight' = None
      /\ reg' = HoldRecoveryPage(reg, inFlight.active, inFlight.revision)
  BY DEF RecoveryPageArrives, storeVars, historyVars
<1>2. UnderWay' = UnderWay
  BY SameUnderWay
<1>3. PICK rows, q : rows = inFlight.active /\ q = inFlight.revision
  OBVIOUS
<1>4. /\ reg'.live = reg.live /\ reg'.pending = reg.pending
      /\ reg'.recovery # None => reg'.recovery.page.rows = rows
  BY <1>1, <1>3, ControlTypes, HoldRecoveryPageRows
<1>5. ListOwn(rows)
  BY <1>1, <1>3 DEF OwnInv, OutcomeOwn
<1>6. ListOwn(rows)'
  BY <1>1, <1>5 DEF ListOwn, Within
<1>7. HeldOwn'
  BY <1>4, <1>6 DEF HeldOwn, ListOwn
<1>8. SessionsOwn' /\ HandOwn' /\ OutcomeOwn'
  BY <1>1, <1>4, SameSessionsOwn, SameReadsOwn
<1> QED BY <1>1, <1>2, <1>7, <1>8, OwnFrame

\* expire() imports no time.
LEMMA ExpireOwn ==
  ASSUME Truthful, OwnInv, Expire
  PROVE  OwnInv'
<1>1. PICK d \in Due(reg, roundNow) : reg' = ExpireOne(reg, d, roundNow)
  BY DEF Expire
<1>2. UNCHANGED <<row, reached, page, inFlight>>
  BY DEF Expire, storeVars, historyVars
<1>3. UnderWay' = UnderWay
  BY SameUnderWay
<1>4. d \in reg.deadlines /\ reg \in Registry
  BY ControlTypes DEF Due
<1>5. SessionsOwn'
  <2> SUFFICES ASSUME NEW k \in Keys, row[k] # None
               PROVE  KeyWithin(reg', k, row[k].incarnation, reached[k])
    BY <1>2 DEF SessionsOwn
  <2>1. KeyWithin(reg, k, row[k].incarnation, reached[k])
    BY DEF OwnInv, SessionsOwn
  <2> QED BY <1>1, <1>4, <2>1, ExpireOneWithin
<1>6. reg'.recovery = reg.recovery
  BY <1>1, <1>4, ExpireOneRecovery
<1> QED BY <1>2, <1>3, <1>5, <1>6, SameReadsOwn, OwnFrame

\* A page imports the time of the incarnation it read.
LEMMA PageRowOwn ==
  ASSUME Truthful, OwnInv, PageRow
  PROVE  OwnInv'
<1>1. PICK k \in Keys :
        LET s == ApplyRow(reg, k, page.rows, page.revision, roundNow) IN
        /\ k \in page.rest /\ page.rows[k] \in Presence \cup {None}
        /\ page.revision \in Revision /\ page.revision <= rev
        /\ IF page.rows[k] = None THEN \A x \in existed : x[1] = k => x[3] # page.revision
           ELSE <<k, page.rows[k].incarnation, page.revision>> \in existed
        /\ RegistryInv(s, existed, rev) /\ OneKey(reg, s, k)
        /\ reg' = s \/ reg' = AdvanceWalk(s, k)
  BY PageRowEffect
<1> DEFINE s == ApplyRow(reg, k, page.rows, page.revision, roundNow)
<1>2. pc = "rows" /\ page # None /\ UNCHANGED <<row, reached, inFlight>>
  BY DEF PageRow, Truthful, ReadInv, storeVars, historyVars
<1>3. UnderWay' = UnderWay
  BY SameUnderWay
<1>4. row[k] # None => KeyWithin(s, k, row[k].incarnation, reached[k])
  <2> SUFFICES ASSUME row[k] # None PROVE KeyWithin(s, k, row[k].incarnation, reached[k])
    OBVIOUS
  <2>1. KeyWithin(reg, k, row[k].incarnation, reached[k])
    BY DEF OwnInv, SessionsOwn
  <2>2. page.rows[k] # None =>
           (page.rows[k].incarnation = row[k].incarnation => page.rows[k].epoch <= reached[k])
    BY <1>1, <1>2 DEF OwnInv, HandOwn, PageOwn, Within
  <2>3. RegistryInv(reg, existed, rev) /\ History(existed, rev) /\ reached[k] \in Int
    BY TruthfulParts, OwnTypes
  <2>4. PICK i, m, rows, q : /\ i = row[k].incarnation /\ m = reached[k]
                             /\ rows = page.rows /\ q = page.revision
    OBVIOUS
  <2> QED BY <1>1, <2>1, <2>2, <2>3, <2>4, ApplyRowWithin
<1> HIDE DEF s
<1>5. s \in Registry /\ OneKey(reg, s, k) /\ (reg' = s \/ reg' = AdvanceWalk(s, k))
  BY <1>1 DEF s, RegistryInv
<1>6. reg'.live = s.live /\ reg'.pending = s.pending /\ reg'.recovery = s.recovery
  BY <1>5, OtherFields
<1>7. SessionsOwn'
  BY <1>2, <1>4, <1>5, <1>6, OneKeyOwn
<1>8. HeldOwn' /\ OutcomeOwn'
  BY <1>2, <1>5, <1>6, SameReadsOwn DEF OneKey
<1>9. HandOwn'
  <2>1. page' = None \/ \E j : page' = [page EXCEPT !.rest = @ \ {j}]
    BY DEF PageRow
  <2>2. page \in PageInHand
    BY <1>2, ControlTypes
  <2>3. page' = None \/ (page'.rest \subseteq page.rest /\ page'.rows = page.rows)
    BY <2>1, <2>2 DEF PageInHand
  <2> QED BY <1>2, <2>3 DEF OwnInv, HandOwn, PageOwn, Within
<1> QED BY <1>2, <1>3, <1>7, <1>8, <1>9, OwnFrame

\* A recovery page imports the time of the incarnation it read.
LEMMA RecoveryRowOwn ==
  ASSUME Truthful, OwnInv, RecoveryRow
  PROVE  OwnInv'
<1>1. PICK held, x, t : Recovered(held, x, t)
  BY RecoveryRowEffect
<1>2. UNCHANGED <<row, reached, inFlight, page>>
  BY DEF RecoveryRow, storeVars, historyVars
<1>3. UnderWay' = UnderWay
  BY SameUnderWay
<1>4. /\ held.rows \in Seq(ActiveRow) /\ held.rows # <<>>
      /\ x = Head(held.rows) /\ x.key \in Keys
      /\ reg.recovery # None /\ held = reg.recovery.page /\ held # None
  BY <1>1, Zenon DEF Recovered
<1>5. ListOwn(held.rows)
  BY <1>4 DEF OwnInv, HeldOwn
<1>6. Within(x.key, x.incarnation, x.epoch)
  <2>1. x = held.rows[1] /\ 1 \in DOMAIN held.rows
    BY <1>4
  <2> QED BY <1>5, <2>1 DEF ListOwn
<1>7. row[x.key] # None => KeyWithin(t.reg, x.key, row[x.key].incarnation, reached[x.key])
  <2> SUFFICES ASSUME row[x.key] # None
               PROVE  KeyWithin(t.reg, x.key, row[x.key].incarnation, reached[x.key])
    OBVIOUS
  <2>1. PICK k, q, i, m : /\ k = x.key /\ q = held.revision
                          /\ i = row[x.key].incarnation /\ m = reached[x.key]
    OBVIOUS
  <2>2. KeyWithin(reg, k, i, m)
    BY <1>4, <2>1 DEF OwnInv, SessionsOwn
  <2>3. x.incarnation = i => x.epoch <= m
    BY <1>6, <2>1 DEF Within
  <2>4. RegistryInv(reg, existed, rev) /\ History(existed, rev) /\ m \in Int
    BY <1>4, <2>1, TruthfulParts, OwnTypes
  <2>5. /\ x.key \in Keys /\ x.incarnation \in Incarnation /\ x.epoch \in Time
        /\ held.revision \in Revision /\ <<x.key, x.incarnation, held.revision>> \in existed
        /\ t = ApplyPresentRow(reg, x.key, x, held.revision, roundNow)
    BY <1>1, Zenon DEF Recovered
  <2>6. /\ k \in Keys /\ q \in Revision /\ <<k, x.incarnation, q>> \in existed
        /\ t = ApplyPresentRow(reg, k, x, q, roundNow)
    BY <2>1, <2>5
  <2>7. KeyWithin(t.reg, k, i, m)
    BY <2>2, <2>3, <2>4, <2>5, <2>6, ApplyPresentRowWithin
  <2> QED BY <2>1, <2>7
<1>8. PICK rest : rest = Tail(held.rows)
  OBVIOUS
<1>9. /\ reg'.live = t.reg.live /\ reg'.pending = t.reg.pending
      /\ t.touch = "blocked" => reg'.recovery = reg.recovery
      /\ t.touch # "blocked" => HeadTaken(reg, reg')
      /\ OneKey(reg, t.reg, x.key)
  BY <1>1, Zenon DEF Recovered
<1>10. ListOwn(rest)
  <2>1. ASSUME NEW n \in DOMAIN rest
        PROVE  rest[n] = held.rows[n + 1] /\ n + 1 \in DOMAIN held.rows
    <3>1. held.rows \in Seq(ActiveRow) /\ held.rows # <<>>
      BY <1>4
    <3> QED BY <1>8, <3>1
  <2> QED BY <1>5, <2>1 DEF ListOwn
<1>11. ListOwn(rest)'
  BY <1>2, <1>10 DEF ListOwn, Within
<1>12. HeldOwn'
  <2>1. CASE reg'.recovery = reg.recovery
    BY <1>2, <2>1, SameReadsOwn
  <2>2. CASE reg'.recovery.page.rows = rest
    BY <1>11, <2>2 DEF HeldOwn, ListOwn
  <2>3. HeadTaken(reg, reg') => reg'.recovery.page.rows = rest
    BY <1>4, <1>8, Zenon DEF HeadTaken
  <2> QED BY <1>9, <2>1, <2>2, <2>3
<1>13. SessionsOwn'
  <2>1. x.key \in Keys
    BY <1>4
  <2> QED BY <1>2, <1>7, <1>9, <2>1, OneKeyOwn
<1> QED BY <1>2, <1>3, <1>12, <1>13, SameReadsOwn, OwnFrame

\* The steps of the registry that import no time and read nothing.
LEMMA QuietRegistryOwn ==
  ASSUME Truthful, OwnInv, RecoveryPageEnds \/ SpillRemoval \/ SpillRest
  PROVE  OwnInv'
<1>1. UNCHANGED <<row, reached, inFlight, page>>
  BY DEF RecoveryPageEnds, SpillRemoval, SpillRest, storeVars, historyVars
<1>2. UnderWay' = UnderWay
  BY SameUnderWay
<1>3. reg \in Registry
  BY ControlTypes
<1>4. CASE RecoveryPageEnds
  <2>1. reg' = FinishRecoveryPage(reg) /\ reg.recovery # None
    BY <1>4 DEF RecoveryPageEnds, Truthful, ReadInv
  <2>2. /\ reg'.live = reg.live /\ reg'.pending = reg.pending
        /\ reg'.recovery = None \/ reg'.recovery.page = None
    BY <1>3, <2>1, FinishRecoveryPageRows
  <2>3. HeldOwn'
    BY <2>2 DEF HeldOwn
  <2> QED BY <1>1, <1>2, <2>2, <2>3, SameSessionsOwn, SameReadsOwn, OwnFrame
<1>5. CASE SpillRest
  <2>1. reg' = reg \/ reg' = Broad(reg, taken.broad)
    BY <1>5, Zenon DEF SpillRest
  <2>2. reg'.live = reg.live /\ reg'.pending = reg.pending /\ reg'.recovery = reg.recovery
    BY <1>3, <2>1, OtherFields
  <2> QED BY <1>1, <1>2, <2>2, SameSessionsOwn, SameReadsOwn, OwnFrame
<1>6. CASE SpillRemoval
  <2>1. PICK k \in TakenKeys :
          reg' = Remove(reg, k, taken.removed[k].incarnation, taken.removed[k].absent_at)
    BY <1>6 DEF SpillRemoval
  <2>2. /\ k \in Keys /\ taken.removed[k].incarnation \in Incarnation
        /\ taken.removed[k].absent_at \in Revision
    BY <2>1, TruthfulParts DEF TakenKeys, Spill, Deletion
  <2>3. OneKey(reg, reg', k) /\ Keeps(reg, reg', k)
    BY <1>3, <2>1, <2>2, RemoveOneKey, RemoveKeeps
  <2>4. row[k] # None => KeyWithin(reg', k, row[k].incarnation, reached[k])
    BY <2>2, <2>3, KeepsWithin DEF OwnInv, SessionsOwn
  <2>5. SessionsOwn'
    BY <1>1, <2>2, <2>3, <2>4, OneKeyOwn
  <2> QED BY <1>1, <1>2, <2>3, <2>5, SameReadsOwn, OwnFrame DEF OneKey
<1> QED BY <1>4, <1>5, <1>6

\* issue_page reads nothing yet.
LEMMA IssueOwn ==
  ASSUME Truthful, OwnInv, Issue
  PROVE  OwnInv'
<1> DEFINE n == NextPage(reg, roundNow)
<1>1. UNCHANGED <<row, reached, page>>
  BY DEF Issue, storeVars, historyVars
<1>2. UnderWay' = UnderWay
  BY SameUnderWay
<1>3. RegistryInv(reg, existed, rev) /\ reg \in Registry
  BY TruthfulParts DEF RegistryInv
<1>4. /\ reg' = reg \/ reg' = n.reg
      /\ inFlight' = inFlight \/ inFlight' = None \/ inFlight' = Reading(n.request)
  BY Zenon DEF Issue
<1>5. \A q : Reading(q).status # "ok"
  BY DEF Reading
<1>6. Aside(reg, n.reg) /\ Relieves(reg, n.reg) /\ n.reg.recovery = reg.recovery
  BY <1>3, NextPageAside, NextPageServed, RequestIsNotNone
<1> HIDE DEF n
<1>7. /\ reg'.live = reg.live /\ reg'.recovery = reg.recovery
      /\ \A k \in Keys : reg'.pending[k] # None => reg'.pending[k] = reg.pending[k]
  BY <1>4, <1>6 DEF Aside, SameIndex, Relieves
<1>8. SessionsOwn' /\ HeldOwn' /\ HandOwn'
  BY <1>1, <1>7, SameSessionsOwn, SameReadsOwn
<1>9. OutcomeOwn'
  BY <1>1, <1>4, <1>5, SameReadsOwn
<1> QED BY <1>1, <1>2, <1>8, <1>9, OwnFrame

\* An existence brings the time of its own incarnation.
LEMMA ApplyFactOwn ==
  ASSUME Truthful, OwnInv, ApplyFact
  PROVE  OwnInv'
<1> DEFINE T == TrueObs(existed, rev)
           o == Head(carry)
           fact == [incarnation |-> o.incarnation, at |-> o.at, revision |-> o.revision]
           seen == Observe(reg, o.key, fact, roundNow)
           other == ObserveOther(reg, o)
           t == IF o.type = "exists" THEN seen ELSE Touched(other, "unchanged")
<1>1. reg' = t.reg /\ UNCHANGED <<row, reached, inFlight, page>>
  BY DEF ApplyFact, storeVars
<1>2. o \in T /\ o \in UnderWay /\ UnderWay' \subseteq UnderWay
  BY ApplyFactUnderWay
<1> HIDE DEF o
<1>3. RegistryInv(reg, existed, rev) /\ History(existed, rev) /\ reg \in Registry
  BY TruthfulParts DEF RegistryInv
<1> SUFFICES SessionsOwn' /\ reg'.recovery = reg.recovery
  BY <1>1, <1>2, SameReadsOwn, OwnFrame
<1>4. CASE o.type = "exists"
  <2>1. o \in ExistsObs /\ <<o.key, o.incarnation, o.revision>> \in existed
    BY <1>2, <1>4 DEF T, TrueObs, Observation, SyncObservation, ExistsObs, RemovedObs, BroadObs,
                      RowObs, AnonymousObs, CoveredObs
  <2>2. o.key \in Keys /\ TrueFact(existed, o.key, fact)
    BY <2>1 DEF ExistsObs, TrueFact, Existence
  <2>3. fact.incarnation = o.incarnation /\ fact.at = o.at
    OBVIOUS
  <2>4. t = seen
    BY <1>4
  <2> HIDE DEF fact, t
  <2>5. OneKey(reg, seen.reg, o.key)
    BY <1>3, <2>2, ObserveOneKey
  <2>6. row[o.key] # None => KeyWithin(seen.reg, o.key, row[o.key].incarnation, reached[o.key])
    <3> SUFFICES ASSUME row[o.key] # None
                 PROVE  KeyWithin(seen.reg, o.key, row[o.key].incarnation, reached[o.key])
      OBVIOUS
    <3>1. PICK k, f, i, m : /\ k = o.key /\ f = fact /\ i = row[o.key].incarnation
                            /\ m = reached[o.key]
      OBVIOUS
    <3>2. KeyWithin(reg, k, i, m)
      BY <2>2, <3>1 DEF OwnInv, SessionsOwn
    <3>3. FactWithin(f, i, m)
      BY <1>2, <1>4, <2>3, <3>1 DEF OwnInv, ReportsOwn, Within, FactWithin
    <3>4. m \in Int
      BY <2>2, <3>1, OwnTypes
    <3> QED BY <1>3, <2>2, <3>1, <3>2, <3>3, <3>4, ObserveWithin
  <2> HIDE DEF seen
  <2> QED BY <1>1, <2>2, <2>4, <2>5, <2>6, OneKeyOwn DEF OneKey
<1>5. CASE o.type # "exists"
  <2>1. t.reg = other
    <3> HIDE DEF other, seen
    <3> QED BY <1>5 DEF Touched
  <2>2. CASE o.type = "removed"
    <3>1. o.key \in Keys /\ o.incarnation \in Incarnation /\ o.revision \in Revision
      BY <1>2, <2>2 DEF T, TrueObs, Observation, SyncObservation, ExistsObs, RemovedObs, BroadObs,
                        RowObs, AnonymousObs, CoveredObs
    <3>2. other = Remove(reg, o.key, o.incarnation, o.revision)
      BY <2>2, Zenon DEF ObserveOther
    <3> HIDE DEF t
    <3>3. OneKey(reg, reg', o.key) /\ Keeps(reg, reg', o.key)
      BY <1>1, <1>3, <2>1, <3>1, <3>2, RemoveOneKey, RemoveKeeps
    <3>4. row[o.key] # None => KeyWithin(reg', o.key, row[o.key].incarnation, reached[o.key])
      BY <3>1, <3>3, KeepsWithin DEF OwnInv, SessionsOwn
    <3> QED BY <1>1, <3>1, <3>3, <3>4, OneKeyOwn DEF OneKey
  <2>3. CASE o.type # "removed"
    <3>1. \/ other = Broad(reg, o.revision) \/ other = Cover(reg, o.agent, o.through)
          \/ other = AnonymousTouch(reg, o.agent, o.at, o.generation, roundNow) \/ other = reg
      <4>1. o.type \in {"broad", "anonymous", "covered", "rowChanged"}
        BY <1>2, <1>5, <2>3 DEF T, TrueObs, Observation, SyncObservation, ExistsObs, RemovedObs,
              BroadObs, RowObs, AnonymousObs, CoveredObs
      <4>2. o.type = "broad" => other = Broad(reg, o.revision)
        BY DEF ObserveOther
      <4>3. o.type = "covered" => other = Cover(reg, o.agent, o.through)
        BY DEF ObserveOther
      <4>4. o.type = "anonymous" =>
               other = AnonymousTouch(reg, o.agent, o.at, o.generation, roundNow)
        BY DEF ObserveOther
      <4>5. o.type = "rowChanged" => other = reg
        BY DEF ObserveOther
      <4> QED BY <4>1, <4>2, <4>3, <4>4, <4>5
    <3> HIDE DEF t, other
    <3>2. reg'.live = reg.live /\ reg'.pending = reg.pending /\ reg'.recovery = reg.recovery
      BY <1>1, <1>3, <2>1, <3>1, OtherFields
    <3> QED BY <1>1, <3>2, SameSessionsOwn
  <2> QED BY <2>2, <2>3
<1> QED BY <1>4, <1>5

\* A report of the scan path or the commands that brings no time of a session.
LEMMA ProducerOwn ==
  ASSUME Truthful, OwnInv,
         \/ ReportSome
         \/ \E a \in Agents : ScanAnonymous(a) \/ PassStart(a) \/ \E s \in BOOLEAN : PassEnd(a, s)
  PROVE  OwnInv'
<1>1. UNCHANGED <<row, reached, reg, page, inFlight>>
  BY DEF ReportSome, Report, ScanAnonymous, PassStart, PassEnd, storeVars, historyVars, actorVars
<1>2. \A x \in UnderWay' : x \in UnderWay \/ x.type # "exists"
  <2>1. CASE ReportSome
    <3>1. PICK o \in cmdQ : Report(o)
      BY <2>1 DEF ReportSome
    <3>2. o.type # "exists"
      BY <3>1, ProducerTypes DEF SyncObservation, RemovedObs, BroadObs, RowObs
    <3> QED BY <3>1, <3>2, ReportUnderWay
  <2>2. CASE \E a \in Agents : ScanAnonymous(a) \/ PassStart(a) \/ \E s \in BOOLEAN : PassEnd(a, s)
    <3>1. UNCHANGED <<inbox, carry>>
      BY <2>2 DEF ScanAnonymous, PassStart, PassEnd, channelVars, actorVars
    <3>2. \/ scanQ' = scanQ
          \/ scanQ = <<>> /\ scanQ' = <<>>
          \/ scanQ = <<>> /\ \E o : scanQ' = <<o>> /\ o.type # "exists"
      <4>1. \A a, i, j : Anonymous(a, i, j).type # "exists" /\ Covered(a, i).type # "exists"
        BY DEF Anonymous, Covered
      <4>2. ASSUME NEW a \in Agents, ScanAnonymous(a) PROVE <3>2
        BY <4>1, <4>2 DEF ScanAnonymous
      <4>3. ASSUME NEW a \in Agents, PassStart(a) PROVE <3>2
        BY <4>3 DEF PassStart
      <4>4. ASSUME NEW a \in Agents, NEW s \in BOOLEAN, PassEnd(a, s) PROVE <3>2
        <5>1. scanQ = <<>> /\ (scanQ' = <<>> \/ scanQ' = <<Covered(a, ledger.captured[a])>>)
          BY <4>4, Zenon DEF PassEnd
        <5> QED BY <4>1, <5>1
      <4> QED BY <2>2, <4>2, <4>3, <4>4
    <3>3. CASE scanQ' = scanQ
      BY <3>1, <3>3 DEF UnderWay
    <3>4. ASSUME scanQ = <<>>, NEW o, scanQ' = <<o>>, o.type # "exists"
          PROVE  \A x \in UnderWay' : x \in UnderWay \/ x.type # "exists"
      BY <3>1, <3>4, ScanUnderWay
    <3> QED BY <3>2, <3>3, <3>4
  <2> QED BY <2>1, <2>2
<1> QED BY <1>1, <1>2, SameSessionsOwn, SameReadsOwn, OwnFrame

\* The commands delete rows and publish analyses.
LEMMA CommandOwn ==
  ASSUME Truthful, Truthful', OwnInv, Command
  PROVE  OwnInv'
<1>1. UnderWay' = UnderWay
  BY SameUnderWay
<1>2. ASSUME NEW k \in Keys, CommandDelete(k) PROVE OwnInv'
  <2>1. Delete({k}) /\ UNCHANGED actorVars
    BY <1>2 DEF CommandDelete
  <2> QED BY <1>1, <2>1, DeleteOwn
<1>3. ASSUME NEW S, CommandBroad(S) PROVE OwnInv'
  <2>1. Delete(S) /\ UNCHANGED actorVars
    BY <1>3 DEF CommandBroad
  <2> QED BY <1>1, <2>1, DeleteOwn
<1>4. ASSUME NEW k \in Keys, AnalysisPublish(k) PROVE OwnInv'
  <2>1. UNCHANGED <<row, reached, reg, page, inFlight>>
    BY <1>4 DEF AnalysisPublish, actorVars
  <2> QED BY <1>1, <2>1, SameSessionsOwn, SameReadsOwn, OwnFrame
<1> QED BY <1>2, <1>3, <1>4 DEF Command

\* Every step imports the activity of an incarnation into that incarnation only.
LEMMA NextOwn ==
  ASSUME Truthful, Truthful', OwnInv, [Next]_vars
  PROVE  OwnInv'
<1>1. CASE \E k \in LocalKeys : ScanReject(k) \/ ScanTouch(k) \/ \E e \in Epochs : ScanUpsert(k, e)
  <2>1. LocalKeys \subseteq Keys
    BY DEF LocalKeys
  <2> QED BY <1>1, <2>1, ScanRejectOwn, ScanTouchOwn, ScanUpsertOwn
<1>2. CASE \/ ReportSome
           \/ \E a \in Agents : \/ ScanAnonymous(a) \/ PassStart(a)
                                \/ \E s \in BOOLEAN : PassEnd(a, s)
  BY <1>2, ProducerOwn
<1>3. CASE Command
  BY <1>3, CommandOwn
<1>4. CASE \/ ScanSend \/ FailPage \/ BackoffElapses \/ Tick \/ UNCHANGED vars
           \/ Select \/ PageFailed \/ NoPage \/ TakeSpill \/ Receive \/ FactsEnd
  <2>1. UnderWay' = UnderWay
    BY <1>4, SameUnderWay
  <2>2. UNCHANGED <<row, reached, reg, page>>
    BY <1>4 DEF ScanSend, FailPage, BackoffElapses, Tick, vars, Select, PageFailed, NoPage,
                TakeSpill, Receive, FactsEnd, storeVars, historyVars, actorVars
  <2>3. inFlight' = inFlight \/ inFlight' = None \/ inFlight'.status # "ok"
    <3>1. CASE FailPage
      <4>1. inFlight # None /\ inFlight' = [inFlight EXCEPT !.status = "failed"]
        BY <3>1 DEF FailPage
      <4>2. inFlight \in PageOutcome
        BY <4>1, ControlTypes
      <4>3. inFlight'.status = "failed"
        BY <4>1, <4>2 DEF PageOutcome
      <4> QED BY <4>3
    <3>2. CASE \/ ScanSend \/ BackoffElapses \/ Tick \/ UNCHANGED vars
               \/ Select \/ PageFailed \/ NoPage \/ TakeSpill \/ Receive \/ FactsEnd
      BY <3>2 DEF ScanSend, BackoffElapses, Tick, vars, Select, PageFailed, NoPage,
                  TakeSpill, Receive, FactsEnd, actorVars
    <3> QED BY <1>4, <3>1, <3>2
  <2> QED BY <2>1, <2>2, <2>3, SameSessionsOwn, SameReadsOwn, OwnFrame
<1>5. CASE ReadPage \/ PageArrives \/ RecoveryPageArrives \/ Expire \/ PageRow \/ RecoveryRow
  BY <1>5, ReadPageOwn, PageArrivesOwn, RecoveryPageArrivesOwn, ExpireOwn, PageRowOwn,
     RecoveryRowOwn
<1>6. CASE RecoveryPageEnds \/ SpillRemoval \/ SpillRest \/ Issue \/ ApplyFact
  BY <1>6, QuietRegistryOwn, IssueOwn, ApplyFactOwn
<1> QED
  BY <1>1, <1>2, <1>3, <1>4, <1>5, <1>6 DEF Next, ActorStep, Scan

\* A seeded session has the time of its row.
LEMMA InitOwn ==
  ASSUME Init
  PROVE  OwnInv
<1>1. /\ scanQ = <<>> /\ inbox = <<>> /\ carry = <<>> /\ inFlight = None /\ page = None
      /\ reached = [k \in Keys |-> IF row[k] = None THEN 0 ELSE row[k].epoch]
  BY DEF Init
<1>2. UnderWay = {}
  BY <1>1, ElemsShort DEF UnderWay
<1>3. \A k \in Keys : row[k] # None => reached[k] = row[k].epoch /\ row[k].epoch \in Int
  BY <1>1, InitRows
<1>4. RowsOwn
  BY <1>3 DEF RowsOwn
<1>5. reg.recovery = None \/ reg.recovery.page = None
  BY SeedIs
<1>6. ASSUME NEW k \in Keys, row[k] # None
      PROVE  KeyWithin(reg, k, row[k].incarnation, reached[k])
  <2>1. reg.live[k] # None => reg.live[k] = Seeded(row[k], 0, StartTime)
    BY SeedIs DEF Seeding
  <2>2. Seeded(row[k], 0, StartTime).last_activity_at = row[k].epoch
    BY DEF Seeded
  <2>3. reg.pending[k] = None
    BY SeedIs DEF Seeding, Empty
  <2> QED BY <1>3, <1>6, <2>1, <2>2, <2>3 DEF KeyWithin, EntryWithin
<1> HIDE DEF Init
<1>7. SessionsOwn
  BY <1>6 DEF SessionsOwn
<1>8. ReportsOwn /\ OutcomeOwn /\ HandOwn /\ HeldOwn
  BY <1>1, <1>2, <1>5 DEF ReportsOwn, OutcomeOwn, HandOwn, HeldOwn
<1> QED BY <1>4, <1>7, <1>8 DEF OwnInv

\* The times that are kept are those of their own incarnation.
LEMMA OwnAlways == Spec => []OwnInv
<1>1. Truthful /\ Truthful' /\ OwnInv /\ [Next]_vars => OwnInv'
  BY NextOwn
<1>2. Init => OwnInv
  BY InitOwn
<1> QED
  BY <1>1, <1>2, TruthfulAlways, PTL DEF Spec

\* establish() and apply_present_row() never import the activity of another
\* incarnation, in whatever order the reports and the page reads arrive: the entry of
\* the stored incarnation is never newer than what was written or reported for it.
THEOREM NoForeignActivityAlways == Spec => []NoForeignActivity
<1>1. OwnInv => NoForeignActivity
  BY DEF OwnInv, SessionsOwn, KeyWithin, EntryWithin, NoForeignActivity
<1> QED
  BY <1>1, OwnAlways, PTL

----------------------------------------------------------------------------
(* A key without a row: its removal is under way, or the registry holds it *)
(* off and a walk that removes it is required.                             *)

\* The reports of the producers that are not applied.
Reports == cmdQ \cup UnderWay

\* A report, and a spill, that removes every incarnation of k.
ReportTells(E, o, k) ==
    \/ o.type = "removed" /\ o.key = k /\ Covers(E, k, o.incarnation)
    \/ o.type = "broad" /\ Past(E, k, o.revision)

SpillTells(E, s, k) ==
    \/ s.removed[k] # None /\ Covers(E, k, s.removed[k].incarnation)
    \/ s.broad # None /\ Past(E, k, s.broad)

AbsenceUnderWay(k) ==
    \/ \E o \in Reports : ReportTells(existed, o, k)
    \/ SpillTells(existed, spill, k) \/ SpillTells(existed, taken, k)

\* No requirement is newer than the store.
BroadBound ==
    /\ \A o \in Reports : o.type = "broad" => o.revision <= rev
    /\ spill.broad # None => spill.broad <= rev
    /\ taken.broad # None => taken.broad <= rev
    /\ reg.broad_through <= rev
    /\ WalkBound(reg, reg.broad_through)

\* The taken spill and the page in hand are of their part of the round.
HandsEmpty == (pc = "cells" \/ taken = EmptySpill) /\ (pc = "rows" \/ page = None)

\* A walk page is read for the run, at a revision that it asks for.
WalkReads ==
    /\ inFlight # None /\ inFlight.request.class = "walk" =>
          reg.run # None /\ (inFlight.status = "ok" => reg.run.through <= inFlight.revision)
    /\ page # None /\ page.class = "walk" =>
          reg.run # None /\ reg.run.through <= page.revision

\* The walk has yet to come to k: behind its cursor, its request and its page.
Ahead(k) ==
    /\ k > reg.run.cursor
    /\ inFlight # None /\ inFlight.request.class = "walk" => Reaches(inFlight.request.keys, k)
    /\ page # None /\ page.class = "walk" => Reaches(page.rest, k)

FrontInv ==
    \A k \in Keys :
        reg.live[k] # None /\ reg.run # None /\ Past(existed, k, reg.run.through) => Ahead(k)

ToldInv ==
    \A k \in Keys : row[k] = None =>
        /\ AbsenceUnderWay(k) \/ Barred(reg, existed, k)
        /\ reg.live[k] # None => AbsenceUnderWay(k) \/ Walked(reg, existed, k)

AbsentInv == BroadBound /\ HandsEmpty /\ WalkReads /\ FrontInv /\ ToldInv

\* What stays told when the history grows by rows of other keys.
LEMMA TellsLater ==
  ASSUME NEW E, NEW F, E \subseteq F, NEW k, \A x \in F : x \in E \/ x[1] # k
  PROVE  /\ \A i : Covers(E, k, i) <=> Covers(F, k, i)
         /\ \A q : Past(E, k, q) <=> Past(F, k, q)
         /\ \A o : ReportTells(E, o, k) <=> ReportTells(F, o, k)
         /\ \A s : SpillTells(E, s, k) <=> SpillTells(F, s, k)
         /\ \A r : (Barred(r, E, k) <=> Barred(r, F, k)) /\ (Walked(r, E, k) <=> Walked(r, F, k))
<1>1. \A i : Covers(E, k, i) <=> Covers(F, k, i)
  BY DEF Covers
<1>2. \A q : Past(E, k, q) <=> Past(F, k, q)
  BY DEF Past
<1> QED BY <1>1, <1>2 DEF ReportTells, SpillTells, Barred, Walked

\* The types that the walk and the requirements have.
LEMMA WalkTypes ==
  ASSUME Truthful
  PROVE  /\ rev \in Int /\ reg.broad_through \in Int
         /\ reg.needs # None => reg.needs \in Int
         /\ reg.run # None => /\ reg.run.through \in Int /\ reg.run.cursor \in Int
                              /\ reg.run \in Run
         /\ spill.broad # None => spill.broad \in Int
         /\ taken.broad # None => taken.broad \in Int
         /\ \A o \in Reports : /\ o \in TrueObs(existed, rev)
                               /\ o.type = "broad" => o.revision \in Int
<1>1. rev \in Int
  BY DEF Truthful, StoreTypeOK, Revision
<1>2. reg \in Registry
  BY ControlTypes
<1>3. /\ reg.broad_through \in Int
      /\ reg.needs # None => reg.needs \in Int
      /\ reg.run # None => reg.run.through \in Int /\ reg.run.cursor \in Int /\ reg.run \in Run
  BY <1>2 DEF Registry, Run, Revision
<1>4. /\ spill.broad # None => spill.broad \in Int
      /\ taken.broad # None => taken.broad \in Int
  BY TruthfulParts DEF Spill, Revision
<1>5. ASSUME NEW o \in Reports
      PROVE  o \in TrueObs(existed, rev) /\ (o.type = "broad" => o.revision \in Int)
  <2>1. o \in TrueObs(existed, rev)
    BY UnderWayTrue, ProducerTypes DEF Reports
  <2>2. o \in Observation
    BY <2>1 DEF TrueObs
  <2>3. o.type = "broad" => o.revision \in Int
    BY <2>2 DEF Observation, SyncObservation, ExistsObs, RemovedObs, BroadObs, RowObs,
                AnonymousObs, CoveredObs, Revision
  <2> QED BY <2>1, <2>3
<1> QED BY <1>1, <1>3, <1>4, <1>5

\* The store's producers: a row that goes is reported with the step, and what
\* was told of the other keys stays told.
LEMMA StoreStepAbsent ==
  ASSUME Truthful, Truthful', AbsentInv, UNCHANGED <<channelVars, actorVars>>,
         existed \subseteq existed', rev <= rev', Reports \subseteq Reports',
         \A x \in existed' : x \in existed \/ row'[x[1]] # None,
         \A o \in Reports' : o \in Reports \/ (o.type = "broad" => o.revision <= rev'),
         \A k \in Keys : row[k] # None /\ row'[k] = None =>
            \E o \in Reports' : ReportTells(existed', o, k)
  PROVE  AbsentInv'
<1>1. /\ reg' = reg /\ spill' = spill /\ taken' = taken /\ pc' = pc /\ page' = page
      /\ inFlight' = inFlight
  BY DEF channelVars, actorVars
<1>2. rev' \in Int
  BY DEF Truthful, StoreTypeOK, Revision
<1>3. BroadBound'
  <2>1. \A o \in Reports' : o.type = "broad" => o.revision <= rev'
    BY <1>2, WalkTypes DEF AbsentInv, BroadBound
  <2>2. /\ spill'.broad # None => spill'.broad <= rev'
        /\ taken'.broad # None => taken'.broad <= rev'
        /\ reg'.broad_through <= rev'
    BY <1>1, <1>2, WalkTypes DEF AbsentInv, BroadBound
  <2>3. WalkBound(reg', reg'.broad_through)
    BY <1>1 DEF AbsentInv, BroadBound
  <2> QED BY <2>1, <2>2, <2>3 DEF BroadBound
<1>4. HandsEmpty' /\ WalkReads'
  BY <1>1 DEF AbsentInv, HandsEmpty, WalkReads, EmptySpill
<1>5. FrontInv'
  <2> SUFFICES ASSUME NEW k \in Keys, reg'.live[k] # None, reg'.run # None,
                      Past(existed', k, reg'.run.through)
               PROVE  Ahead(k)'
    BY DEF FrontInv
  <2>1. Past(existed, k, reg.run.through)
    BY <1>1 DEF Past
  <2>2. Ahead(k)
    BY <1>1, <2>1 DEF AbsentInv, FrontInv
  <2> QED BY <1>1, <2>2 DEF Ahead
<1>6. ToldInv'
  <2> SUFFICES ASSUME NEW k \in Keys, row'[k] = None
               PROVE  /\ AbsenceUnderWay(k)' \/ Barred(reg', existed', k)
                      /\ reg'.live[k] # None =>
                            AbsenceUnderWay(k)' \/ Walked(reg', existed', k)
    BY DEF ToldInv
  <2>1. CASE row[k] # None
    BY <2>1 DEF AbsenceUnderWay
  <2>2. CASE row[k] = None
    <3>1. \A x \in existed' : x \in existed \/ x[1] # k
      OBVIOUS
    <3>2. /\ \A o : ReportTells(existed, o, k) <=> ReportTells(existed', o, k)
          /\ \A s : SpillTells(existed, s, k) <=> SpillTells(existed', s, k)
          /\ \A r : /\ Barred(r, existed, k) <=> Barred(r, existed', k)
                    /\ Walked(r, existed, k) <=> Walked(r, existed', k)
      BY <3>1, TellsLater
    <3>3. AbsenceUnderWay(k) => AbsenceUnderWay(k)'
      BY <1>1, <3>2 DEF AbsenceUnderWay
    <3> QED BY <1>1, <2>2, <3>2, <3>3 DEF AbsentInv, ToldInv
  <2> QED BY <2>1, <2>2
<1> QED BY <1>3, <1>4, <1>5, <1>6 DEF AbsentInv

\* A commit adds the rows of the new revision to the history.
LEMMA CommitHistory ==
  ASSUME Truthful, Commit
  PROVE  /\ existed \subseteq existed' /\ rev' = rev + 1 /\ rev <= rev'
         /\ \A x \in existed' : x \in existed \/ row'[x[1]] # None
<1>1. rev \in Int
  BY DEF Truthful, StoreTypeOK, Revision
<1>2. rev' = rev + 1 /\ existed' = existed \cup {<<k, row'[k].incarnation, rev + 1>> : k \in Stored'}
  BY DEF Commit
<1>3. ASSUME NEW x \in {<<k, row'[k].incarnation, rev + 1>> : k \in Stored'}
      PROVE  row'[x[1]] # None
  <2>1. PICK k \in Stored' : x = <<k, row'[k].incarnation, rev + 1>>
    OBVIOUS
  <2>2. x[1] = k /\ row'[k] # None
    BY <2>1 DEF Stored
  <2> QED BY <2>2
<1> QED BY <1>1, <1>2, <1>3

\* The stored incarnation is the last one of its key.
LEMMA StoredIsLast ==
  ASSUME Truthful, NEW k \in Keys, row[k] # None
  PROVE  /\ row[k].incarnation \in Int
         /\ Covers(existed, k, row[k].incarnation)
         /\ \A q \in Int : q > rev => Past(existed, k, q)
         /\ \A q \in Int : Past(existed, k, q) => q > rev
<1> DEFINE i == row[k].incarnation
           z == <<k, i, rev>>
<1>1. i \in Int /\ rev \in Int /\ History(existed, rev) /\ z \in existed
  BY DEF Truthful, StoreTypeOK, StoreInv, Presence, Incarnation, Revision
<1>2. \A x \in existed : x[2] \in Int /\ x[3] \in Int /\ x[3] <= rev
  BY <1>1 DEF History, Incarnation, Revision
<1>3. z[1] = k /\ z[2] = i /\ z[3] = rev
  OBVIOUS
<1> HIDE DEF i, z
<1>4. \A x \in existed : x[1] = k => ~(i < x[2])
  BY <1>1, <1>2, <1>3 DEF History
<1>5. Covers(existed, k, i)
  BY <1>1, <1>2, <1>4 DEF Covers
<1>6. \A q \in Int : q > rev => Past(existed, k, q)
  BY <1>1, <1>2 DEF Past
<1>7. \A q \in Int : Past(existed, k, q) => q > rev
  BY <1>1, <1>3 DEF Past
<1> QED BY <1>1, <1>5, <1>6, <1>7 DEF i

\* The report of a deletion tells it.
LEMMA DeletionTells ==
  ASSUME Truthful, Commit, NEW k \in Keys, row[k] # None, row'[k] = None
  PROVE  /\ ReportTells(existed', Removed(k, row[k].incarnation, rev'), k)
         /\ ReportTells(existed', BroadRemoval(rev'), k)
<1>1. rev \in Int /\ rev' = rev + 1
  BY CommitHistory DEF Truthful, StoreTypeOK, Revision
<1>2. Covers(existed, k, row[k].incarnation) /\ Past(existed, k, rev')
  BY <1>1, StoredIsLast
<1>3. Covers(existed', k, row[k].incarnation) /\ Past(existed', k, rev')
  BY <1>2, CommitHistory DEF Covers, Past
<1> QED BY <1>3 DEF ReportTells, Removed, BroadRemoval

\* The scan path reports one thing at a time.
LEMMA ScanReports ==
  ASSUME UNCHANGED <<inbox, carry, cmdQ>>, scanQ = <<>>, NEW o, scanQ' = <<>> \/ scanQ' = <<o>>
  PROVE  /\ Reports \subseteq Reports' /\ Reports' \subseteq Reports \cup {o}
         /\ scanQ' = <<o>> => o \in Reports'
<1>1. CASE scanQ' = <<>>
  <2>1. <<o>> # <<>>
    OBVIOUS
  <2> QED BY <1>1, <2>1 DEF Reports, UnderWay
<1>2. CASE scanQ' = <<o>>
  BY <1>2, ScanUnderWay DEF Reports
<1> QED BY <1>1, <1>2

\* The scan path.
LEMMA ScanAbsent ==
  ASSUME Truthful, Truthful', AbsentInv, Scan
  PROVE  AbsentInv'
<1>1. rev \in Int /\ DOMAIN row = Keys
  BY DEF Truthful, StoreTypeOK, Revision
<1>2. CASE \E k \in LocalKeys, e \in Epochs : ScanUpsert(k, e)
  <2>1. PICK k \in LocalKeys, e \in Epochs : ScanUpsert(k, e)
    BY <1>2
  <2>2. PICK epoch \in Epochs : Upsert(k, e, epoch)
    BY <2>1 DEF ScanUpsert
  <2> DEFINE o == Exists(k, row'[k].incarnation, e, rev')
             i == IF row[k] = None THEN incSeq + 1 ELSE row[k].incarnation
             new == [incarnation |-> i, epoch |-> epoch]
  <2>3. /\ Commit /\ UNCHANGED <<channelVars, actorVars>> /\ UNCHANGED <<inbox, carry, cmdQ>>
        /\ scanQ = <<>> /\ (scanQ' = <<>> \/ scanQ' = <<o>>)
    <3>1. scanQ' = <<>> \/ scanQ' = <<o>>
      BY <2>1, Zenon DEF ScanUpsert
    <3> QED BY <2>1, <2>2, <3>1 DEF ScanUpsert, Upsert, channelVars, actorVars
  <2>4. o.type # "broad"
    BY DEF Exists
  <2> HIDE DEF o
  <2>5. Reports \subseteq Reports' /\ Reports' \subseteq Reports \cup {o}
    BY <2>3, ScanReports
  <2>6. \A j \in Keys : row'[j] = None => row[j] = None
    <3>1. row' = [row EXCEPT ![k] = new]
      BY <2>2 DEF Upsert
    <3>2. new # None
      <4>1. i \in Incarnation /\ epoch \in Time
        BY BoundAssumption DEF Truthful, StoreTypeOK, Presence, Incarnation, Time, LocalKeys
      <4> HIDE DEF i
      <4>2. new \in Presence
        BY <4>1 DEF Presence
      <4> QED BY <4>2, NoneAssumption
    <3> HIDE DEF new
    <3> QED BY <1>1, <3>1, <3>2
  <2> QED BY <2>3, <2>4, <2>5, <2>6, CommitHistory, StoreStepAbsent
<1>3. CASE \E k \in LocalKeys : ScanReject(k)
  <2>1. PICK k \in LocalKeys : ScanReject(k)
    BY <1>3
  <2> DEFINE o == Removed(k, row[k].incarnation, rev')
  <2>2. /\ Commit /\ UNCHANGED <<channelVars, actorVars>> /\ UNCHANGED <<inbox, carry, cmdQ>>
        /\ scanQ = <<>> /\ scanQ' = <<o>>
        /\ row' = [j \in Keys |-> IF j \in {k} THEN None ELSE row[j]]
    BY <2>1 DEF ScanReject, Delete, channelVars, actorVars
  <2>3. o.type # "broad"
    BY DEF Removed
  <2>4. row[k] # None /\ row'[k] = None => ReportTells(existed', o, k)
    BY <2>2, DeletionTells DEF LocalKeys
  <2> HIDE DEF o
  <2>5. Reports \subseteq Reports' /\ Reports' \subseteq Reports \cup {o} /\ o \in Reports'
    BY <2>2, ScanReports
  <2>6. \A j \in Keys : row[j] # None /\ row'[j] = None => j = k
    BY <2>2
  <2> QED BY <2>2, <2>3, <2>4, <2>5, <2>6, CommitHistory, StoreStepAbsent
<1>4. CASE \/ \E k \in LocalKeys : ScanTouch(k)
           \/ \E a \in Agents : ScanAnonymous(a) \/ PassStart(a) \/ \E s \in BOOLEAN : PassEnd(a, s)
  <2>1. /\ UNCHANGED <<row, rev, existed, cmdQ>> /\ UNCHANGED <<channelVars, actorVars>>
        /\ UNCHANGED <<inbox, carry>>
    BY <1>4 DEF ScanTouch, ScanAnonymous, PassStart, PassEnd, storeVars, historyVars, channelVars,
                actorVars
  <2>2. \/ scanQ' = scanQ
        \/ scanQ = <<>> /\ \E o : o.type # "broad" /\ (scanQ' = <<>> \/ scanQ' = <<o>>)
    <3>1. ASSUME NEW k \in LocalKeys, ScanTouch(k)
          PROVE  scanQ = <<>> /\ \E o : o.type # "broad" /\ (scanQ' = <<>> \/ scanQ' = <<o>>)
      <4>1. scanQ = <<>> /\ scanQ' = <<Exists(k, row[k].incarnation, now, rev)>>
        BY <3>1 DEF ScanTouch
      <4>2. Exists(k, row[k].incarnation, now, rev).type # "broad"
        BY DEF Exists
      <4> QED BY <4>1, <4>2
    <3>2. ASSUME NEW a \in Agents, ScanAnonymous(a)
          PROVE  scanQ = <<>> /\ \E o : o.type # "broad" /\ (scanQ' = <<>> \/ scanQ' = <<o>>)
      <4>1. scanQ = <<>> /\ scanQ' = <<Anonymous(a, now, ledger.next + 1)>>
        BY <3>2 DEF ScanAnonymous
      <4>2. Anonymous(a, now, ledger.next + 1).type # "broad"
        BY DEF Anonymous
      <4> QED BY <4>1, <4>2
    <3>3. ASSUME NEW a \in Agents, NEW s \in BOOLEAN, PassEnd(a, s)
          PROVE  scanQ = <<>> /\ \E o : o.type # "broad" /\ (scanQ' = <<>> \/ scanQ' = <<o>>)
      <4>1. /\ scanQ = <<>>
            /\ scanQ' = <<>> \/ scanQ' = <<Covered(a, ledger.captured[a])>>
        BY <3>3 DEF PassEnd
      <4>2. Covered(a, ledger.captured[a]).type # "broad"
        BY DEF Covered
      <4> QED BY <4>1, <4>2
    <3>4. ASSUME NEW a \in Agents, PassStart(a) PROVE scanQ' = scanQ
      BY <3>4 DEF PassStart
    <3> QED BY <1>4, <3>1, <3>2, <3>3, <3>4
  <2>3. Reports \subseteq Reports' /\ \A o \in Reports' : o \in Reports \/ o.type # "broad"
    <3>1. CASE scanQ' = scanQ
      BY <2>1, <3>1 DEF Reports, UnderWay
    <3>2. CASE scanQ = <<>> /\ \E o : o.type # "broad" /\ (scanQ' = <<>> \/ scanQ' = <<o>>)
      BY <2>1, <3>2, ScanReports
    <3> QED BY <2>2, <3>1, <3>2
  <2>4. rev <= rev'
    BY <1>1, <2>1
  <2> QED BY <2>1, <2>3, <2>4, StoreStepAbsent
<1> QED BY <1>2, <1>3, <1>4 DEF Scan

\* Commands, retention and analysis.
LEMMA CommandAbsent ==
  ASSUME Truthful, Truthful', AbsentInv, Command
  PROVE  AbsentInv'
<1>1. rev \in Int /\ rev' \in Int
  BY DEF Truthful, StoreTypeOK, Revision
<1>2. UnderWay' = UnderWay
  BY SameUnderWay
<1>3. CASE \E k \in Keys : CommandDelete(k)
  <2>1. PICK k \in Keys : CommandDelete(k)
    BY <1>3
  <2> DEFINE o == Removed(k, row[k].incarnation, rev')
  <2>2. /\ Commit /\ UNCHANGED <<channelVars, actorVars>> /\ cmdQ' = cmdQ \cup {o}
        /\ row' = [j \in Keys |-> IF j \in {k} THEN None ELSE row[j]]
    BY <2>1 DEF CommandDelete, Delete
  <2>3. o.type # "broad"
    BY DEF Removed
  <2>4. row[k] # None /\ row'[k] = None => ReportTells(existed', o, k)
    BY <2>2, DeletionTells
  <2> HIDE DEF o
  <2>5. Reports \subseteq Reports' /\ Reports' \subseteq Reports \cup {o} /\ o \in Reports'
    BY <1>2, <2>2 DEF Reports
  <2>6. \A j \in Keys : row[j] # None /\ row'[j] = None => j = k
    BY <2>2
  <2> QED BY <2>2, <2>3, <2>4, <2>5, <2>6, CommitHistory, StoreStepAbsent
<1>4. CASE \E S \in SUBSET Stored : CommandBroad(S)
  <2>1. PICK S \in SUBSET Stored : CommandBroad(S)
    BY <1>4
  <2> DEFINE o == BroadRemoval(rev')
  <2>2. /\ Commit /\ UNCHANGED <<channelVars, actorVars>> /\ cmdQ' = cmdQ \cup {o}
    BY <2>1 DEF CommandBroad, Delete
  <2>3. o.revision <= rev'
    BY <1>1 DEF BroadRemoval
  <2>4. \A k \in Keys : row[k] # None /\ row'[k] = None => ReportTells(existed', o, k)
    BY <2>2, DeletionTells
  <2> HIDE DEF o
  <2>5. Reports \subseteq Reports' /\ Reports' \subseteq Reports \cup {o} /\ o \in Reports'
    BY <1>2, <2>2 DEF Reports
  <2> QED BY <2>2, <2>3, <2>4, <2>5, CommitHistory, StoreStepAbsent
<1>5. CASE \E k \in Keys : AnalysisPublish(k)
  <2>1. PICK k \in Keys : AnalysisPublish(k)
    BY <1>5
  <2> DEFINE o == RowChanged(k)
  <2>2. Commit /\ UNCHANGED <<channelVars, actorVars>> /\ row' = row /\ cmdQ' = cmdQ \cup {o}
    BY <2>1 DEF AnalysisPublish
  <2>3. o.type # "broad"
    BY DEF RowChanged
  <2> HIDE DEF o
  <2>4. Reports \subseteq Reports' /\ Reports' \subseteq Reports \cup {o}
    BY <1>2, <2>2 DEF Reports
  <2> QED BY <2>2, <2>3, <2>4, CommitHistory, StoreStepAbsent
<1> QED BY <1>3, <1>4, <1>5 DEF Command

\* fold_broad() keeps the newest revision.
LEMMA FoldBroadFields ==
  ASSUME NEW s \in Spill, NEW q \in Revision
  PROVE  LET t == FoldBroad(s, q) IN
         /\ t.removed = s.removed /\ t.broad # None /\ t.broad \in Int /\ t.broad >= q
         /\ s.broad # None => s.broad \in Int /\ t.broad >= s.broad
         /\ t.broad = q \/ (s.broad # None /\ t.broad = s.broad)
<1> DEFINE b == s.broad
           n == Require(b, q)
           t == [s EXCEPT !.broad = n]
<1>1. FoldBroad(s, q) = t
  BY DEF FoldBroad
<1>2. b \in Nat \cup {None} /\ q \in Nat
  BY DEF Spill, Revision
<1> HIDE DEF b
<1>3. /\ n \in Nat /\ n >= q /\ (b # None => b \in Int /\ n >= b)
      /\ n = q \/ (b # None /\ n = b)
  BY <1>2 DEF Require
<1>4. n # None
  BY <1>3, NoneAssumption
<1> HIDE DEF n
<1>5. t.removed = s.removed /\ t.broad = n
  BY DEF Spill
<1> HIDE DEF t
<1> QED BY <1>1, <1>3, <1>4, <1>5 DEF b

\* The spill keeps the absences it holds and takes in the one it is given.
LEMMA FoldTells ==
  ASSUME NEW E, NEW R, History(E, R), NEW s \in Spill, TrueSpill(s, E, R),
         NEW o \in SyncObservation, o \in TrueObs(E, R), NEW k \in Keys
  PROVE  SpillTells(E, s, k) \/ ReportTells(E, o, k) => SpillTells(E, Fold(s, o), k)
<1>1. R \in Int
  BY DEF History, Revision
<1>2. ASSUME NEW q \in Revision, NEW t, t = FoldBroad(s, q),
             SpillTells(E, s, k) \/ Past(E, k, q)
      PROVE  SpillTells(E, t, k)
  <2>1. /\ t.removed = s.removed /\ t.broad # None /\ t.broad \in Int /\ t.broad >= q
        /\ s.broad # None => s.broad \in Int /\ t.broad >= s.broad
    BY <1>2, FoldBroadFields
  <2>2. q \in Int
    BY DEF Revision
  <2> QED BY <1>2, <2>1, <2>2, PastLater DEF SpillTells
<1>3. CASE o.type = "broad"
  <2>1. o.revision \in Revision
    BY <1>3 DEF SyncObservation, RemovedObs, BroadObs, RowObs
  <2>2. Fold(s, o) = FoldBroad(s, o.revision)
    BY <1>3 DEF Fold
  <2> QED BY <1>2, <1>3, <2>1, <2>2 DEF ReportTells
<1>4. CASE o.type = "rowChanged"
  <2> DEFINE t == [s EXCEPT !.rows = @ \cup {o.key}]
             u == [s EXCEPT !.invalidated = TRUE]
  <2>1. Fold(s, o) = t \/ Fold(s, o) = u
    BY <1>4 DEF Fold
  <2>2. t.removed = s.removed /\ t.broad = s.broad /\ u.removed = s.removed /\ u.broad = s.broad
    BY DEF Spill
  <2> HIDE DEF t, u
  <2> QED BY <1>4, <2>1, <2>2 DEF ReportTells, SpillTells
<1>5. CASE o.type # "broad" /\ o.type # "rowChanged"
  <2> DEFINE j == o.key
             i == o.incarnation
             cell == s.removed[j]
             merged == [incarnation |-> Max2(cell.incarnation, i),
                        absent_at |-> Max2(cell.absent_at, o.revision)]
             new == [incarnation |-> i, absent_at |-> o.revision]
             t(x) == [s EXCEPT !.removed[j] = x]
  <2>1. o.type = "removed" /\ j \in Keys /\ i \in Nat /\ o.revision \in Revision
    BY <1>5 DEF SyncObservation, RemovedObs, BroadObs, RowObs, Incarnation
  <2>2. Gone(E, R, j, i, o.revision)
    BY <2>1 DEF TrueObs
  <2>3. \/ cell # None /\ Fold(s, o) = t(merged)
        \/ cell = None /\ Fold(s, o) = t(new)
        \/ cell = None /\ Fold(s, o) = FoldBroad(s, o.revision)
    BY <1>5, Zenon DEF Fold
  <2>4. cell # None => cell.incarnation \in Nat
    BY <2>1 DEF Spill, Deletion, Incarnation
  <2>5. merged.incarnation = Max2(cell.incarnation, i) /\ new.incarnation = i
    OBVIOUS
  <2>6. ASSUME NEW x, x # None, SpillTells(E, s, k) \/ ReportTells(E, o, k),
               Covers(E, j, i) => Covers(E, j, x.incarnation),
               cell # None /\ Covers(E, j, cell.incarnation) => Covers(E, j, x.incarnation)
        PROVE  SpillTells(E, t(x), k)
    <3>1. t(x).broad = s.broad /\ t(x).removed = [s.removed EXCEPT ![j] = x]
      BY DEF Spill
    <3>2. DOMAIN s.removed = Keys
      BY DEF Spill
    <3>3. ReportTells(E, o, k) <=> k = j /\ Covers(E, j, i)
      BY <2>1 DEF ReportTells
    <3> HIDE DEF t, j, i
    <3>4. t(x).removed[k] = IF k = j THEN x ELSE s.removed[k]
      BY <3>1, <3>2
    <3> QED BY <2>6, <3>1, <3>3, <3>4 DEF SpillTells
  <2> HIDE DEF merged, new, t
  <2>7. CASE cell # None /\ Fold(s, o) = t(merged)
    <3>1. Max2(cell.incarnation, i) >= i /\ Max2(cell.incarnation, i) >= cell.incarnation
          /\ Max2(cell.incarnation, i) \in Int /\ cell.incarnation \in Int /\ i \in Int
      BY <2>1, <2>4, <2>7 DEF Max2
    <3>2. merged # None
      <4>1. Max2(cell.incarnation, i) \in Incarnation /\ Max2(cell.absent_at, o.revision) \in Revision
        BY <2>1, <2>4, <2>7 DEF Spill, Deletion, Incarnation, Revision, Max2
      <4>2. merged \in Deletion
        BY <4>1 DEF merged, Deletion
      <4> QED BY <4>2, NoneAssumption
    <3>3. Covers(E, j, i) \/ Covers(E, j, cell.incarnation) => Covers(E, j, merged.incarnation)
      BY <2>5, <3>1, CoversHigher
    <3> QED BY <2>6, <2>7, <3>2, <3>3
  <2>8. CASE cell = None /\ Fold(s, o) = t(new)
    <3>1. new # None
      <4>1. new \in Deletion
        BY <2>1 DEF new, Deletion, Incarnation
      <4> QED BY <4>1, NoneAssumption
    <3> QED BY <2>5, <2>6, <2>8, <3>1
  <2>9. CASE cell = None /\ Fold(s, o) = FoldBroad(s, o.revision)
    <3>1. ReportTells(E, o, k) => Past(E, k, o.revision)
      BY <2>1, <2>2, GonePast DEF ReportTells
    <3> QED BY <1>2, <2>1, <2>9, <3>1
  <2> QED BY <2>3, <2>7, <2>8, <2>9
<1> QED BY <1>3, <1>4, <1>5

\* The broad removal of the spill is no newer than the store.
LEMMA FoldBound ==
  ASSUME NEW E, NEW R, History(E, R), NEW s \in Spill, NEW o \in SyncObservation,
         o \in TrueObs(E, R), o.type = "broad" => o.revision <= R,
         s.broad # None => s.broad <= R, Fold(s, o).broad # None
  PROVE  Fold(s, o).broad <= R
<1>1. ASSUME NEW q \in Revision, NEW t, t = FoldBroad(s, q), q <= R
      PROVE  t.broad <= R
  <2>1. t.broad = q \/ (s.broad # None /\ t.broad = s.broad)
    BY <1>1, FoldBroadFields
  <2> QED BY <1>1, <2>1
<1>2. CASE o.type = "broad"
  <2>1. o.revision \in Revision
    BY <1>2 DEF SyncObservation, RemovedObs, BroadObs, RowObs
  <2>2. Fold(s, o) = FoldBroad(s, o.revision)
    BY <1>2 DEF Fold
  <2> QED BY <1>1, <1>2, <2>1, <2>2
<1>3. CASE o.type = "rowChanged"
  <2> DEFINE t == [s EXCEPT !.rows = @ \cup {o.key}]
             u == [s EXCEPT !.invalidated = TRUE]
  <2>1. Fold(s, o) = t \/ Fold(s, o) = u
    BY <1>3 DEF Fold
  <2>2. t.broad = s.broad /\ u.broad = s.broad
    BY DEF Spill
  <2> HIDE DEF t, u
  <2> QED BY <2>1, <2>2
<1>4. CASE o.type # "broad" /\ o.type # "rowChanged"
  <2> DEFINE cell == s.removed[o.key]
             merged == [incarnation |-> Max2(cell.incarnation, o.incarnation),
                        absent_at |-> Max2(cell.absent_at, o.revision)]
             new == [incarnation |-> o.incarnation, absent_at |-> o.revision]
             t(x) == [s EXCEPT !.removed[o.key] = x]
  <2>1. o.type = "removed" /\ o.revision \in Revision
    BY <1>4 DEF SyncObservation, RemovedObs, BroadObs, RowObs
  <2>2. o.revision <= R
    BY <2>1, GoneTypes DEF TrueObs
  <2>3. \/ Fold(s, o) = t(merged) \/ Fold(s, o) = t(new)
        \/ Fold(s, o) = FoldBroad(s, o.revision)
    BY <1>4, Zenon DEF Fold
  <2>4. \A x : t(x).broad = s.broad
    BY DEF Spill
  <2> HIDE DEF t, merged, new
  <2> QED BY <1>1, <2>1, <2>2, <2>3, <2>4
<1> QED BY <1>2, <1>3, <1>4

\* A step beside the registry.
LEMMA ChannelStepAbsent ==
  ASSUME Truthful, AbsentInv, UNCHANGED <<row, rev, existed, reg>>, HandsEmpty', WalkReads',
         \A o \in Reports' : o.type = "broad" => o.revision <= rev,
         spill'.broad # None => spill'.broad <= rev,
         taken'.broad # None => taken'.broad <= rev,
         \A k \in Keys : AbsenceUnderWay(k) => AbsenceUnderWay(k)',
         \A k \in Keys : reg.live[k] # None /\ reg.run # None /\ Past(existed, k, reg.run.through)
            /\ Ahead(k) => Ahead(k)'
  PROVE  AbsentInv'
<1>1. BroadBound'
  BY DEF AbsentInv, BroadBound
<1>2. FrontInv'
  BY DEF AbsentInv, FrontInv
<1>3. ToldInv'
  BY DEF AbsentInv, ToldInv
<1> QED BY <1>1, <1>2, <1>3 DEF AbsentInv

\* A step beside the registry and the reports.
LEMMA HandsStepAbsent ==
  ASSUME Truthful, AbsentInv, UNCHANGED <<row, rev, existed, reg, cmdQ, spill, taken>>,
         UnderWay' = UnderWay, HandsEmpty', WalkReads',
         \A k \in Keys : reg.live[k] # None /\ reg.run # None /\ Past(existed, k, reg.run.through)
            /\ Ahead(k) => Ahead(k)'
  PROVE  AbsentInv'
<1>1. Reports' = Reports
  BY DEF Reports
<1>2. \A k \in Keys : AbsenceUnderWay(k) => AbsenceUnderWay(k)'
  BY <1>1 DEF AbsenceUnderWay
<1>3. /\ \A o \in Reports' : o.type = "broad" => o.revision <= rev
      /\ spill'.broad # None => spill'.broad <= rev
      /\ taken'.broad # None => taken'.broad <= rev
  BY <1>1 DEF AbsentInv, BroadBound
<1> QED BY <1>2, <1>3, ChannelStepAbsent

\* Steps that leave the reads and the page in hand alone.
LEMMA WaitingAbsent ==
  ASSUME Truthful, AbsentInv,
         \/ ScanSend \/ BackoffElapses \/ Tick \/ UNCHANGED vars
         \/ Select \/ PageFailed \/ NoPage \/ Receive \/ FactsEnd
  PROVE  AbsentInv'
<1>1. UnderWay' = UnderWay
  BY SameUnderWay
<1>2. /\ UNCHANGED <<row, rev, existed, reg, cmdQ, spill, taken, page>>
      /\ inFlight' = inFlight \/ inFlight' = None
      /\ pc' = pc \/ pc \notin {"cells", "rows"}
  <2>1. CASE ScanSend \/ BackoffElapses \/ Tick \/ UNCHANGED vars
    BY <2>1 DEF ScanSend, BackoffElapses, Tick, vars, storeVars, producerVars, channelVars,
                actorVars, historyVars
  <2>2. CASE Select \/ Receive \/ FactsEnd
    BY <2>2 DEF Select, Receive, FactsEnd, storeVars, producerVars, channelVars, historyVars
  <2>3. CASE PageFailed \/ NoPage
    BY <2>3 DEF PageFailed, NoPage, storeVars, producerVars, channelVars, historyVars
  <2> QED BY <2>1, <2>2, <2>3
<1>3. HandsEmpty' /\ WalkReads'
  BY <1>2 DEF AbsentInv, HandsEmpty, WalkReads, EmptySpill
<1>4. \A k \in Keys : Ahead(k) => Ahead(k)'
  BY <1>2 DEF Ahead
<1> QED BY <1>1, <1>2, <1>3, <1>4, HandsStepAbsent

\* A read ends: its rows are of the present revision.
LEMMA ReadAbsent ==
  ASSUME Truthful, AbsentInv, ReadPage \/ FailPage
  PROVE  AbsentInv'
<1>1. UnderWay' = UnderWay
  BY SameUnderWay
<1>2. /\ UNCHANGED <<row, rev, existed, reg, cmdQ, spill, taken, page, pc>>
      /\ inFlight # None
      /\ inFlight'.request = inFlight.request
      /\ inFlight'.status = "failed" \/ inFlight'.revision = rev
  <2>1. CASE ReadPage
    <3>1. inFlight # None
      BY <2>1, Zenon DEF ReadPage
    <3>2. UNCHANGED <<row, rev, existed, reg, cmdQ, spill, taken, page, pc>>
      BY <2>1, Zenon DEF ReadPage, storeVars, producerVars, channelVars, historyVars
    <3>3. inFlight'.request = inFlight.request /\ inFlight'.revision = rev
      BY <2>1, ReadPageResult, Zenon
    <3> QED BY <3>1, <3>2, <3>3, Zenon
  <2>2. CASE FailPage
    <3>1. inFlight # None /\ inFlight' = [inFlight EXCEPT !.status = "failed"]
      BY <2>2 DEF FailPage
    <3>2. inFlight \in PageOutcome
      BY <3>1, ControlTypes
    <3>3. inFlight'.request = inFlight.request /\ inFlight'.status = "failed"
      BY <3>1, <3>2 DEF PageOutcome
    <3>4. UNCHANGED <<row, rev, existed, reg, cmdQ, spill, taken, page, pc>>
      BY <2>2 DEF FailPage, storeVars, producerVars, channelVars, historyVars
    <3> QED BY <3>1, <3>3, <3>4, Zenon
  <2> QED BY <2>1, <2>2
<1>3. reg.run # None => reg.run.through <= rev
  BY WalkTypes DEF AbsentInv, BroadBound, WalkBound
<1>4. HandsEmpty' /\ WalkReads'
  BY <1>2, <1>3 DEF AbsentInv, HandsEmpty, WalkReads, EmptySpill
<1>5. \A k \in Keys : Ahead(k) => Ahead(k)'
  BY <1>2 DEF Ahead
<1> QED BY <1>1, <1>2, <1>4, <1>5, HandsStepAbsent

\* A presence page comes in hand.
LEMMA PageArrivesAbsent ==
  ASSUME Truthful, AbsentInv, PageArrives
  PROVE  AbsentInv'
<1>1. UnderWay' = UnderWay
  BY SameUnderWay
<1>2. /\ UNCHANGED <<row, rev, existed, reg, cmdQ, spill, taken>>
      /\ inFlight # None /\ inFlight.status = "ok" /\ inFlight' = None
      /\ pc = "expire" /\ pc' = "rows"
      /\ page'.class = inFlight.request.class /\ page'.rest = inFlight.request.keys
      /\ page'.revision = inFlight.revision
  BY DEF PageArrives, storeVars, producerVars, channelVars, historyVars
<1>3. HandsEmpty' /\ WalkReads'
  BY <1>2 DEF AbsentInv, HandsEmpty, WalkReads, EmptySpill
<1>4. \A k \in Keys : Ahead(k) => Ahead(k)'
  BY <1>2 DEF Ahead
<1> QED BY <1>1, <1>2, <1>3, <1>4, HandsStepAbsent

\* A report reaches the inbox or the spill.
LEMMA ReportAbsent ==
  ASSUME Truthful, AbsentInv, ReportSome
  PROVE  AbsentInv'
<1>1. PICK o \in cmdQ : Report(o)
  BY DEF ReportSome
<1>2. /\ UNCHANGED <<row, rev, existed, reg, taken, page, inFlight, pc>>
      /\ cmdQ' = cmdQ \ {o}
  BY <1>1 DEF Report, storeVars, actorVars, historyVars
<1>3. /\ o \in Reports /\ o \in SyncObservation /\ o \in TrueObs(existed, rev)
      /\ spill \in Spill /\ TrueSpill(spill, existed, rev) /\ History(existed, rev)
  BY <1>1, TruthfulParts, ProducerTypes DEF Reports
<1>4. HandsEmpty' /\ WalkReads'
  BY <1>2 DEF AbsentInv, HandsEmpty, WalkReads, EmptySpill
<1>5. \A k \in Keys : Ahead(k) => Ahead(k)'
  BY <1>2 DEF Ahead
<1>6. /\ \A x \in Reports' : x \in Reports
      /\ \A k \in Keys : AbsenceUnderWay(k) => AbsenceUnderWay(k)'
      /\ spill'.broad # None => spill'.broad <= rev
  <2>1. CASE UnderWay' = UnderWay \cup {o} /\ spill' = spill
    <3>1. Reports' = Reports
      BY <1>2, <1>3, <2>1 DEF Reports
    <3> QED BY <1>2, <2>1, <3>1 DEF AbsenceUnderWay, AbsentInv, BroadBound
  <2>2. CASE UnderWay' = UnderWay /\ spill' = Fold(spill, o)
    <3>1. Reports' \subseteq Reports /\ Reports \subseteq Reports' \cup {o}
      BY <1>2, <2>2 DEF Reports
    <3>2. \A k \in Keys : SpillTells(existed, spill, k) \/ ReportTells(existed, o, k)
                            => SpillTells(existed, spill', k)
      BY <1>3, <2>2, FoldTells
    <3>3. spill'.broad # None => spill'.broad <= rev
      BY <1>3, <2>2, FoldBound DEF AbsentInv, BroadBound
    <3>4. ASSUME NEW k \in Keys, AbsenceUnderWay(k) PROVE AbsenceUnderWay(k)'
      BY <1>2, <3>1, <3>2, <3>4 DEF AbsenceUnderWay
    <3> QED BY <3>1, <3>3, <3>4
  <2> QED BY <1>1, <2>1, <2>2, ReportUnderWay
<1>7. /\ \A x \in Reports' : x.type = "broad" => x.revision <= rev
      /\ taken'.broad # None => taken'.broad <= rev
  BY <1>2, <1>6 DEF AbsentInv, BroadBound
<1> QED BY <1>2, <1>4, <1>5, <1>6, <1>7, ChannelStepAbsent

\* The actor takes the spill.
LEMMA TakeSpillAbsent ==
  ASSUME Truthful, AbsentInv, TakeSpill
  PROVE  AbsentInv'
<1>1. UnderWay' = UnderWay
  BY SameUnderWay
<1>2. /\ UNCHANGED <<row, rev, existed, reg, cmdQ, page, inFlight>>
      /\ taken' = spill /\ spill' = EmptySpill /\ pc = "spill"
      /\ pc' = IF spill = EmptySpill THEN "receive" ELSE "cells"
  BY DEF TakeSpill, storeVars, producerVars
<1>3. taken = EmptySpill
  BY <1>2 DEF AbsentInv, HandsEmpty
<1>4. HandsEmpty' /\ WalkReads'
  BY <1>2 DEF AbsentInv, HandsEmpty, WalkReads, EmptySpill
<1>5. \A k \in Keys : Ahead(k) => Ahead(k)'
  BY <1>2 DEF Ahead
<1>6. Reports' = Reports
  BY <1>1, <1>2 DEF Reports
<1>7. EmptySpill.broad = None /\ \A k \in Keys : ~SpillTells(existed, EmptySpill, k)
  BY DEF EmptySpill, SpillTells
<1>8. \A k \in Keys : AbsenceUnderWay(k) => AbsenceUnderWay(k)'
  BY <1>2, <1>3, <1>6, <1>7 DEF AbsenceUnderWay
<1>9. /\ \A x \in Reports' : x.type = "broad" => x.revision <= rev
      /\ taken'.broad # None => taken'.broad <= rev
      /\ spill'.broad # None => spill'.broad <= rev
  BY <1>2, <1>6, <1>7 DEF AbsentInv, BroadBound
<1> QED BY <1>2, <1>4, <1>5, <1>8, <1>9, ChannelStepAbsent

\* A step of the registry: what it settles of the reports it takes over.
LEMMA RegistryStepAbsent ==
  ASSUME Truthful, AbsentInv, Grows(reg, reg'), reg' \in Registry, UNCHANGED <<row, rev, existed>>,
         HandsEmpty', WalkReads', FrontInv', Reports' \subseteq Reports, spill' = spill,
         taken'.broad = None \/ taken'.broad = taken.broad,
         reg'.broad_through <= rev, WalkBound(reg', reg'.broad_through),
         \A k \in Keys : AbsenceUnderWay(k) =>
            \/ AbsenceUnderWay(k)'
            \/ /\ Barred(reg', existed, k)
               /\ reg'.live[k] # None => Walked(reg', existed, k),
         \A k \in Keys : reg.live[k] = None /\ Barred(reg, existed, k) => reg'.live[k] = None,
         \A k \in Keys : reg.live[k] # None /\ reg'.live[k] # None /\ Walked(reg, existed, k)
            => Walked(reg', existed, k)
  PROVE  AbsentInv'
<1>1. RegistryInv(reg, existed, rev) /\ History(existed, rev)
  BY TruthfulParts
<1>2. BroadBound'
  BY DEF AbsentInv, BroadBound
<1>3. \A k \in Keys : Barred(reg, existed, k) => Barred(reg', existed, k)
  BY <1>1, BarredGrows
<1>4. ToldInv'
  BY <1>3 DEF AbsentInv, ToldInv
<1> QED BY <1>2, <1>4 DEF AbsentInv

\* The requirements and the goal of the run stay.
SameGoal(r, s) ==
    /\ s.needs = r.needs /\ s.broad_through = r.broad_through
    /\ (s.run = None) <=> (r.run = None)
    /\ r.run # None => s.run.through = r.run.through

\* The same walk, which has the same way to go.
LEMMA SameWalkGoal ==
  ASSUME NEW r, NEW s, SameWalk(r, s)
  PROVE  SameGoal(r, s)
  BY DEF SameWalk, SameGoal

\* A barred key has nothing in front of the run: its row was gone before.
LEMMA GoalIsBarred ==
  ASSUME Truthful, AbsentInv, reg.run # None, NEW k \in Keys, Past(existed, k, reg.run.through)
  PROVE  Barred(reg, existed, k)
<1>1. reg.run.through <= reg.broad_through /\ reg.run.through \in Int /\ reg.broad_through \in Int
  BY WalkTypes DEF AbsentInv, BroadBound, WalkBound
<1>2. Past(existed, k, reg.broad_through)
  BY <1>1, TruthfulParts, PastLater
<1> QED BY <1>2 DEF Barred

\* A step that changes the live sessions but not the requirements.
LEMMA LiveStepAbsent ==
  ASSUME Truthful, AbsentInv, Grows(reg, reg'), reg' \in Registry, UNCHANGED <<row, rev, existed>>,
         SameGoal(reg, reg'), HandsEmpty', WalkReads', Reports' \subseteq Reports,
         spill' = spill, taken' = taken,
         \A k \in Keys : AbsenceUnderWay(k) => AbsenceUnderWay(k)',
         \A k \in Keys : reg.live[k] = None /\ Barred(reg, existed, k) => reg'.live[k] = None,
         \A k \in Keys : reg.live[k] # None /\ reg'.live[k] # None /\ reg.run # None
            /\ Past(existed, k, reg.run.through) /\ Ahead(k) => Ahead(k)'
  PROVE  AbsentInv'
<1>1. FrontInv'
  <2> SUFFICES ASSUME NEW k \in Keys, reg'.live[k] # None, reg'.run # None,
                      Past(existed', k, reg'.run.through)
               PROVE  Ahead(k)'
    BY DEF FrontInv
  <2>1. reg.run # None /\ Past(existed, k, reg.run.through)
    BY DEF SameGoal
  <2>2. reg.live[k] # None
    BY <2>1, GoalIsBarred
  <2>3. Ahead(k)
    BY <2>1, <2>2 DEF AbsentInv, FrontInv
  <2> QED BY <2>1, <2>2, <2>3
<1>2. \A k \in Keys : Walked(reg, existed, k) => Walked(reg', existed, k)
  BY DEF SameGoal, Walked
<1>3. reg'.broad_through <= rev /\ WalkBound(reg', reg'.broad_through)
  BY DEF AbsentInv, BroadBound, WalkBound, SameGoal
<1> QED BY <1>1, <1>2, <1>3, RegistryStepAbsent

\* Steps that end sessions only.
LEMMA EndStepAbsent ==
  ASSUME Truthful, Truthful', AbsentInv, Grows(reg, reg'),
         Expire \/ RecoveryPageArrives \/ RecoveryPageEnds
  PROVE  AbsentInv'
<1>1. UnderWay' = UnderWay
  BY SameUnderWay
<1>2. reg \in Registry /\ reg' \in Registry
  BY ControlTypes DEF Truthful, ActorTypeOK
<1>3. /\ UNCHANGED <<row, rev, existed, cmdQ, spill, taken, page>>
      /\ inFlight' = inFlight \/ inFlight' = None
      /\ pc' = pc \/ pc \notin {"cells", "rows"}
  <2>1. CASE Expire
    BY <2>1 DEF Expire, storeVars, producerVars, channelVars, historyVars
  <2>2. CASE RecoveryPageArrives \/ RecoveryPageEnds
    BY <2>2 DEF RecoveryPageArrives, RecoveryPageEnds, storeVars, producerVars, channelVars,
                historyVars
  <2> QED BY <2>1, <2>2
<1>4. SameWalk(reg, reg') /\ \A k \in Keys : reg.live[k] = None => reg'.live[k] = None
  <2>1. CASE Expire
    <3>1. PICK d \in Due(reg, roundNow) : reg' = ExpireOne(reg, d, roundNow)
      BY <2>1 DEF Expire
    <3>2. d \in reg.deadlines
      BY DEF Due
    <3>3. SameWalk(reg, reg') /\ \A k \in Keys : Outlived(reg, reg', k, roundNow)
      BY <1>2, <3>1, <3>2, ExpireOneOutlived
    <3> QED BY <3>3 DEF Outlived
  <2>2. CASE RecoveryPageArrives
    <3>1. reg' = HoldRecoveryPage(reg, inFlight.active, inFlight.revision)
      BY <2>2 DEF RecoveryPageArrives
    <3>2. Aside(reg, reg') /\ SameWalk(reg, reg')
      BY <1>2, <3>1, HoldRecoveryPageAside, OtherWalk
    <3> QED BY <3>2 DEF Aside, SameIndex
  <2>3. CASE RecoveryPageEnds
    <3>1. reg' = FinishRecoveryPage(reg)
      BY <2>3 DEF RecoveryPageEnds
    <3>2. Aside(reg, reg') /\ SameWalk(reg, reg')
      BY <1>2, <3>1, FinishRecoveryPageAside, OtherWalk
    <3> QED BY <3>2 DEF Aside, SameIndex
  <2> QED BY <2>1, <2>2, <2>3
<1>5. HandsEmpty' /\ WalkReads'
  BY <1>3, <1>4 DEF AbsentInv, HandsEmpty, WalkReads, EmptySpill, SameWalk
<1>6. \A k \in Keys : Ahead(k) => Ahead(k)'
  BY <1>3, <1>4 DEF Ahead, SameWalk
<1>7. Reports' = Reports
  BY <1>1, <1>3 DEF Reports
<1>8. \A k \in Keys : AbsenceUnderWay(k) => AbsenceUnderWay(k)'
  BY <1>3, <1>7 DEF AbsenceUnderWay
<1> QED BY <1>2, <1>3, <1>4, <1>5, <1>6, <1>7, <1>8, SameWalkGoal, LiveStepAbsent

\* A recovered row.
LEMMA RecoveryRowAbsent ==
  ASSUME Truthful, Truthful', AbsentInv, Grows(reg, reg'), RecoveryRow
  PROVE  AbsentInv'
<1>1. UnderWay' = UnderWay
  BY SameUnderWay
<1>2. reg \in Registry /\ reg' \in Registry /\ RegistryInv(reg, existed, rev) /\ History(existed, rev)
  BY ControlTypes, TruthfulParts DEF Truthful, ActorTypeOK
<1>3. /\ UNCHANGED <<row, rev, existed, cmdQ, spill, taken, page, inFlight>>
      /\ pc = "recover" /\ pc' \notin {"cells", "rows"}
  BY DEF RecoveryRow, storeVars, producerVars, channelVars, historyVars
<1>4. PICK held, x, t : Recovered(held, x, t)
  BY RecoveryRowEffect
<1>5. /\ t = ApplyPresentRow(reg, x.key, x, held.revision, roundNow)
      /\ x.incarnation \in Incarnation /\ x.epoch \in Time /\ held.revision \in Revision
      /\ <<x.key, x.incarnation, held.revision>> \in existed
  BY <1>4, Zenon DEF Recovered
<1>6. /\ OneKey(reg, t.reg, x.key) /\ SameWalk(t.reg, reg') /\ reg'.live = t.reg.live
  BY <1>4, Zenon DEF Recovered
<1>7. PICK s : s = t.reg
  OBVIOUS
<1>8. SameWalk(reg, reg') /\ reg'.live = s.live /\ OneKey(reg, s, x.key)
  BY <1>6, <1>7 DEF SameWalk, OneKey
<1>9. ASSUME NEW k \in Keys, reg.live[k] = None, Barred(reg, existed, k) PROVE reg'.live[k] = None
  <2>1. CASE k # x.key
    BY <1>8, <1>9, <2>1 DEF OneKey
  <2>2. CASE k = x.key
    <3>1. /\ <<k, x.incarnation, held.revision>> \in existed
          /\ s = ApplyPresentRow(reg, k, x, held.revision, roundNow).reg
      BY <1>5, <1>7, <2>2, Zenon
    <3>2. s.live[k] = None
      BY <1>2, <1>5, <1>9, <3>1, ApplyPresentRowBarred
    <3> QED BY <1>8, <3>2
  <2> QED BY <2>1, <2>2
<1>10. HandsEmpty' /\ WalkReads'
  BY <1>3, <1>8 DEF AbsentInv, HandsEmpty, WalkReads, EmptySpill, SameWalk
<1>11. \A k \in Keys : Ahead(k) => Ahead(k)'
  BY <1>3, <1>8 DEF Ahead, SameWalk
<1>12. Reports' = Reports
  BY <1>1, <1>3 DEF Reports
<1>13. \A k \in Keys : AbsenceUnderWay(k) => AbsenceUnderWay(k)'
  BY <1>3, <1>12 DEF AbsenceUnderWay
<1> QED BY <1>2, <1>3, <1>8, <1>9, <1>10, <1>11, <1>12, <1>13, SameWalkGoal, LiveStepAbsent

\* What PageRow does to the key that it applies and to the page in hand.
PageRowOf(k, s) ==
    /\ k \in Keys /\ k \in page.rest /\ page.rest \subseteq Keys
    /\ s = ApplyRow(reg, k, page.rows, page.revision, roundNow)
    /\ page.rows[k] \in Presence \cup {None} /\ page.revision \in Revision
    /\ page.rows[k] # None => <<k, page.rows[k].incarnation, page.revision>> \in existed
    /\ s \in Registry /\ OneKey(reg, s, k)
    /\ IF page.rest = {k}
       THEN /\ page' = None /\ pc' = "spill"
            /\ reg' = IF page.class = "walk" THEN AdvanceWalk(s, k) ELSE s
       ELSE /\ reg' = s /\ pc' = "rows" /\ page'.class = page.class
            /\ page'.rest = page.rest \ {k} /\ page'.revision = page.revision

\* The parts of what a row of a presence page does.
LEMMA PageRowParts ==
  ASSUME Truthful, PageRow
  PROVE  page # None /\ \E k, s : PageRowOf(k, s)
<1>1. pc = "rows" /\ page # None
  BY DEF PageRow, Truthful, ReadInv
<1>2. page \in PageInHand /\ Snapshot(page.rest, page.rows, page.revision, existed, rev)
  BY <1>1, ControlTypes
<1>3. PICK k \in page.rest :
        LET applied == ApplyRow(reg, k, page.rows, page.revision, roundNow)
            last == page.rest = {k}
        IN /\ reg' = IF last /\ page.class = "walk" THEN AdvanceWalk(applied, k) ELSE applied
           /\ page' = IF last THEN None ELSE [page EXCEPT !.rest = @ \ {k}]
           /\ pc' = IF last THEN "spill" ELSE "rows"
  BY DEF PageRow
<1> DEFINE applied == ApplyRow(reg, k, page.rows, page.revision, roundNow)
           left == page.rest \ {k}
           turned == [page EXCEPT !.rest = left]
<1>4. /\ k \in Keys /\ page.rows[k] \in Presence \cup {None} /\ page.revision \in Revision
      /\ page.rest \subseteq Keys
  BY <1>2 DEF PageInHand
<1>5. /\ page.revision <= rev
      /\ page.rows[k] = None => \A x \in existed : x[1] = k => x[3] # page.revision
      /\ page.rows[k] # None => <<k, page.rows[k].incarnation, page.revision>> \in existed
  BY <1>2 DEF Snapshot
<1>6. page.rows[k] = None => \A j \in Incarnation : <<k, j, page.revision>> \notin existed
  <2>1. \A j : LET x == <<k, j, page.revision>> IN x[1] = k /\ x[3] = page.revision
    OBVIOUS
  <2> QED BY <1>5, <2>1
<1>7. RegistryInv(reg, existed, rev) /\ History(existed, rev)
  BY TruthfulParts
<1>8. RegistryInv(applied, existed, rev) /\ applied \in Registry
  <2>1. RegistryInv(applied, existed, rev)
    BY <1>4, <1>5, <1>6, <1>7, ApplyRowInv
  <2> QED BY <2>1 DEF RegistryInv
<1>9. OneKey(reg, applied, k)
  BY <1>4, <1>5, <1>7, ApplyRowOneKey
<1>10. turned.class = page.class /\ turned.rest = left /\ turned.revision = page.revision
  <2> HIDE DEF left
  <2> QED BY <1>2 DEF PageInHand
<1>11. PICK s : s = applied
  OBVIOUS
<1>12. IF page.rest = {k}
       THEN /\ page' = None /\ pc' = "spill"
            /\ reg' = IF page.class = "walk" THEN AdvanceWalk(s, k) ELSE s
       ELSE reg' = s /\ pc' = "rows" /\ page' = turned
  <2>1. CASE page.rest = {k}
    BY <1>3, <1>11, <2>1, Zenon
  <2>2. CASE page.rest # {k}
    BY <1>3, <1>11, <2>2, Zenon
  <2> QED BY <2>1, <2>2
<1> HIDE DEF turned
<1>13. PageRowOf(k, s)
  BY <1>4, <1>5, <1>8, <1>9, <1>10, <1>11, <1>12 DEF PageRowOf
<1> QED BY <1>1, <1>13

\* A row of a page: what the walk comes to goes, the rest stays in front of it.
LEMMA PageRowAbsent ==
  ASSUME Truthful, Truthful', AbsentInv, Grows(reg, reg'), PageRow
  PROVE  AbsentInv'
<1>1. UnderWay' = UnderWay
  BY SameUnderWay
<1>2. /\ reg \in Registry /\ reg' \in Registry
      /\ RegistryInv(reg, existed, rev) /\ History(existed, rev)
  BY ControlTypes, TruthfulParts DEF Truthful, ActorTypeOK
<1>3. /\ UNCHANGED <<row, rev, existed, cmdQ, spill, taken, inFlight>>
      /\ pc = "rows" /\ page # None
  BY PageRowParts DEF PageRow, storeVars, producerVars, channelVars, historyVars
<1>4. PICK c, s : PageRowOf(c, s)
  BY PageRowParts
<1>5. /\ c \in Keys /\ c \in page.rest /\ s \in Registry /\ OneKey(reg, s, c)
      /\ s = ApplyRow(reg, c, page.rows, page.revision, roundNow)
  BY <1>4 DEF PageRowOf
<1>6. /\ reg'.live = s.live /\ SameGoal(reg, reg')
      /\ page.rest = {c} /\ page.class = "walk" /\ reg.run # None => reg'.run.cursor = c
      /\ ~(page.rest = {c} /\ page.class = "walk") => reg'.run = reg.run
  <2>1. CASE page.rest = {c} /\ page.class = "walk"
    <3>1. reg' = AdvanceWalk(s, c) /\ c \in Nat
      BY <1>4, <2>1, KeysAssumption DEF PageRowOf
    <3>2. /\ reg'.live = s.live /\ reg'.needs = s.needs
          /\ IF s.run = None THEN reg'.run = None
             ELSE reg'.run # None /\ reg'.run.through = s.run.through /\ reg'.run.cursor = c
      BY <1>5, <3>1, AdvanceWalkFields
    <3>3. reg'.broad_through = s.broad_through
      BY <1>5, <3>1, AdvanceWalkAside DEF Aside, SameMemory
    <3> QED BY <1>5, <2>1, <3>2, <3>3 DEF OneKey, SameGoal
  <2>2. CASE ~(page.rest = {c} /\ page.class = "walk")
    <3>1. reg' = s
      BY <1>4, <2>2 DEF PageRowOf
    <3> QED BY <1>5, <2>2, <3>1 DEF OneKey, SameGoal
  <2> QED BY <2>1, <2>2
<1>7. ASSUME NEW k \in Keys, reg.live[k] = None, Barred(reg, existed, k) PROVE reg'.live[k] = None
  <2>1. CASE k # c
    BY <1>5, <1>6, <1>7, <2>1 DEF OneKey
  <2>2. CASE k = c
    <3>1. /\ page.rows[k] # None => page.rows[k] \in Presence
          /\ page.revision \in Revision
          /\ page.rows[k] # None => <<k, page.rows[k].incarnation, page.revision>> \in existed
          /\ s = ApplyRow(reg, k, page.rows, page.revision, roundNow)
      BY <1>4, <2>2 DEF PageRowOf
    <3>2. s.live[k] = None
      BY <1>2, <1>7, <3>1, ApplyRowBarred
    <3> QED BY <1>6, <3>2
  <2> QED BY <2>1, <2>2
<1>8. page' # None => /\ pc' = "rows" /\ page'.class = page.class /\ page.rest # {c}
                      /\ page'.rest = page.rest \ {c} /\ page'.revision = page.revision
  BY <1>4 DEF PageRowOf
<1>9. HandsEmpty' /\ WalkReads'
  <2>1. HandsEmpty'
    BY <1>3, <1>8 DEF AbsentInv, HandsEmpty
  <2>2. WalkReads'
    BY <1>3, <1>6, <1>8 DEF AbsentInv, WalkReads, SameGoal
  <2> QED BY <2>1, <2>2
<1>10. ASSUME page.class = "walk", reg.run # None, Past(existed, c, reg.run.through)
       PROVE  reg'.live[c] = None
  <2>1. reg.run.through <= page.revision
    BY <1>3, <1>10 DEF AbsentInv, WalkReads
  <2>2. /\ page.revision \in Revision
        /\ page.rows[c] # None => <<c, page.rows[c].incarnation, page.revision>> \in existed
    BY <1>4 DEF PageRowOf
  <2>3. page.revision \in Int /\ reg.run.through \in Int
    BY <1>10, <2>2, WalkTypes DEF Revision
  <2>4. page.rows[c] = None
    <3>1. ASSUME page.rows[c] # None PROVE page.revision < reg.run.through
      <4>1. PICK i, q : i = page.rows[c].incarnation /\ q = page.revision
        OBVIOUS
      <4>2. <<c, i, q>> \in existed
        BY <2>2, <3>1, <4>1
      <4>3. q < reg.run.through
        BY <1>10, <4>2, SeenIsPast
      <4> QED BY <4>1, <4>3
    <3>2. PICK p, q : p = reg.run.through /\ q = page.revision
      OBVIOUS
    <3>3. p <= q /\ p \in Int /\ q \in Int
      BY <2>1, <2>3, <3>2
    <3>4. ~(q < p)
      BY <3>3
    <3> QED BY <3>1, <3>2, <3>4
  <2>5. reg.live[c] # None => reg.live[c].exists_at <= page.revision
    <3>1. reg.live[c] # None => /\ <<c, reg.live[c].incarnation, reg.live[c].exists_at>> \in existed
                                /\ reg.live[c].exists_at \in Int
      <4>1. KeyInv(reg, existed, rev, c)
        BY <1>2, <1>5 DEF RegistryInv
      <4>2. reg.live[c] # None => reg.live[c].exists_at \in Int
        BY <1>2, <1>5 DEF Registry, LiveEntry, Revision
      <4> QED BY <4>1, <4>2 DEF KeyInv
    <3>2. reg.live[c] # None => reg.live[c].exists_at < reg.run.through
      BY <1>10, <3>1, SeenIsPast
    <3> QED BY <2>1, <2>3, <3>1, <3>2
  <2>6. s.live[c] = None
    BY <1>2, <1>5, <2>2, <2>4, <2>5, ApplyRowAbsent
  <2> QED BY <1>6, <2>6
<1>11. ASSUME NEW k \in Keys, reg'.live[k] # None, reg.run # None,
              Past(existed, k, reg.run.through), Ahead(k)
       PROVE  Ahead(k)'
  <2>1. page.class = "walk" => k # c
    BY <1>10, <1>11
  <2>2. k > reg'.run.cursor
    <3>1. CASE page.rest = {c} /\ page.class = "walk"
      <4>1. Reaches(page.rest, k) /\ reg'.run.cursor = c
        BY <1>3, <1>6, <1>11, <3>1 DEF Ahead
      <4>2. c \in Int /\ k \in Int
        BY <1>5, KeysAssumption
      <4>3. c < k
        BY <2>1, <3>1, <4>1 DEF Reaches
      <4> QED BY <4>1, <4>2, <4>3
    <3>2. CASE ~(page.rest = {c} /\ page.class = "walk")
      BY <1>6, <1>11, <3>2 DEF Ahead
    <3> QED BY <3>1, <3>2
  <2>3. page' # None /\ page'.class = "walk" => Reaches(page'.rest, k)
    <3> SUFFICES ASSUME page' # None, page'.class = "walk" PROVE Reaches(page'.rest, k)
      OBVIOUS
    <3>1. page.class = "walk" /\ page'.rest = page.rest \ {c} /\ Reaches(page.rest, k)
      BY <1>3, <1>8, <1>11 DEF Ahead
    <3> QED BY <2>1, <3>1 DEF Reaches
  <2> QED BY <1>3, <1>11, <2>2, <2>3 DEF Ahead
<1>12. Reports' = Reports
  BY <1>1, <1>3 DEF Reports
<1>13. \A k \in Keys : AbsenceUnderWay(k) => AbsenceUnderWay(k)'
  BY <1>3, <1>12 DEF AbsenceUnderWay
<1> QED BY <1>2, <1>3, <1>6, <1>7, <1>9, <1>11, <1>12, <1>13, LiveStepAbsent

\* broad() holds off what is past its revision and requires its removal.
LEMMA BroadSettles ==
  ASSUME NEW E, NEW R \in Int, History(E, R), NEW r \in Registry, NEW q \in Revision, q <= R,
         r.broad_through <= R, WalkBound(r, r.broad_through),
         NEW s, s = Broad(r, q)
  PROVE  /\ s.live = r.live /\ s.run = r.run
         /\ s.broad_through <= R /\ WalkBound(s, s.broad_through)
         /\ \A k : Past(E, k, q) => Barred(s, E, k) /\ Walked(s, E, k)
         /\ \A k : Walked(r, E, k) => Walked(s, E, k)
<1>1. /\ s.live = r.live /\ s.run = r.run
      /\ s.needs \in Int /\ s.needs # None /\ s.needs >= q
      /\ s.needs = q \/ (r.needs # None /\ s.needs = r.needs)
      /\ r.needs # None => s.needs >= r.needs
      /\ s.broad_through = Max2(r.broad_through, q)
  BY BroadFields
<1>2. q \in Int /\ r.broad_through \in Int /\ (r.needs # None => r.needs \in Int)
      /\ (r.run # None => r.run.through \in Int)
  BY DEF Registry, Run, Revision
<1>3. /\ s.broad_through \in Int /\ s.broad_through >= q /\ s.broad_through >= r.broad_through
      /\ s.broad_through <= R
  BY <1>1, <1>2 DEF Max2
<1>4. WalkBound(s, s.broad_through)
  <2>1. s.needs <= s.broad_through
    <3>1. CASE s.needs = q
      BY <1>3, <3>1
    <3>2. CASE r.needs # None /\ s.needs = r.needs
      <4>1. r.needs <= r.broad_through
        BY <3>2 DEF WalkBound
      <4> QED BY <1>2, <1>3, <3>2, <4>1
    <3> QED BY <1>1, <3>1, <3>2
  <2>2. ASSUME s.run # None PROVE s.run.through <= s.broad_through
    <3>1. r.run # None /\ s.run.through = r.run.through
      BY <1>1, <2>2
    <3>2. r.run.through <= r.broad_through /\ r.run.through \in Int
      BY <1>2, <3>1 DEF WalkBound
    <3> QED BY <1>2, <1>3, <3>1, <3>2
  <2> QED BY <2>1, <2>2 DEF WalkBound
<1>5. ASSUME NEW k, Past(E, k, q) PROVE Barred(s, E, k) /\ Walked(s, E, k)
  <2>1. Past(E, k, s.broad_through) /\ Past(E, k, s.needs)
    BY <1>1, <1>2, <1>3, <1>5, PastLater
  <2> QED BY <1>1, <2>1 DEF Barred, Walked
<1>6. ASSUME NEW k, Walked(r, E, k) PROVE Walked(s, E, k)
  <2>1. CASE r.needs # None /\ Past(E, k, r.needs)
    <3>1. Past(E, k, s.needs)
      BY <1>1, <1>2, <2>1, PastLater
    <3> QED BY <1>1, <3>1 DEF Walked
  <2>2. CASE r.run # None /\ Past(E, k, r.run.through)
    BY <1>1, <2>2 DEF Walked
  <2> QED BY <1>6, <2>1, <2>2 DEF Walked
<1> QED BY <1>1, <1>3, <1>4, <1>5, <1>6

\* A step that applies a removal to the registry.
LEMMA RemoveStepAbsent ==
  ASSUME Truthful, NEW c \in Keys, NEW i, NEW q, Gone(existed, rev, c, i, q),
         reg' = Remove(reg, c, i, q)
  PROVE  /\ SameWalk(reg, reg')
         /\ \A k \in Keys : reg.live[k] = None => reg'.live[k] = None
         /\ Covers(existed, c, i) => reg'.live[c] = None /\ Barred(reg', existed, c)
<1>1. RegistryInv(reg, existed, rev) /\ History(existed, rev) /\ reg \in Registry
  BY TruthfulParts, ControlTypes
<1>2. i \in Incarnation /\ q \in Revision
  BY <1>1, GoneTypes
<1>3. OneKey(reg, reg', c) /\ Keeps(reg, reg', c)
  BY <1>1, <1>2, RemoveOneKey, RemoveKeeps
<1>4. \A k \in Keys : reg.live[k] = None => reg'.live[k] = None
  BY <1>3 DEF OneKey, Keeps
<1>5. Covers(existed, c, i) => reg'.live[c] = None /\ Barred(reg', existed, c)
  BY <1>1, RemoveBars
<1> QED BY <1>3, <1>4, <1>5 DEF OneKey, SameWalk

\* What a step of the registry that is no page leaves alone.
LEMMA SettleStepAbsent ==
  ASSUME Truthful, Truthful', AbsentInv, Grows(reg, reg'),
         UNCHANGED <<row, rev, existed, spill, inFlight, page>>,
         pc = "cells" \/ taken' = taken, taken' = EmptySpill \/ pc' = "cells",
         pc # "rows",
         reg'.run = reg.run,
         Reports' \subseteq Reports,
         taken'.broad = None \/ taken'.broad = taken.broad,
         reg'.broad_through <= rev, WalkBound(reg', reg'.broad_through),
         \A k \in Keys : AbsenceUnderWay(k) =>
            \/ AbsenceUnderWay(k)'
            \/ /\ Barred(reg', existed, k)
               /\ reg'.live[k] # None => Walked(reg', existed, k),
         \A k \in Keys : reg.live[k] = None => reg'.live[k] = None,
         \A k \in Keys : Walked(reg, existed, k) => Walked(reg', existed, k)
  PROVE  AbsentInv'
<1>1. reg' \in Registry
  BY DEF Truthful, ActorTypeOK
<1>2. HandsEmpty' /\ WalkReads'
  BY DEF AbsentInv, HandsEmpty, WalkReads, EmptySpill
<1>3. \A k \in Keys : Ahead(k) => Ahead(k)'
  BY DEF Ahead
<1>4. FrontInv'
  <2> SUFFICES ASSUME NEW k \in Keys, reg'.live[k] # None, reg'.run # None,
                      Past(existed', k, reg'.run.through)
               PROVE  Ahead(k)'
    BY DEF FrontInv
  <2>1. reg.live[k] # None /\ reg.run # None /\ Past(existed, k, reg.run.through)
    OBVIOUS
  <2> QED BY <1>3, <2>1 DEF AbsentInv, FrontInv
<1> QED BY <1>1, <1>2, <1>4, RegistryStepAbsent

\* Replaying a spilled removal.
LEMMA SpillRemovalAbsent ==
  ASSUME Truthful, Truthful', AbsentInv, Grows(reg, reg'), SpillRemoval
  PROVE  AbsentInv'
<1>1. UnderWay' = UnderWay
  BY SameUnderWay
<1>2. PICK c \in TakenKeys :
        /\ reg' = Remove(reg, c, taken.removed[c].incarnation, taken.removed[c].absent_at)
        /\ taken' = [taken EXCEPT !.removed[c] = None]
  BY DEF SpillRemoval
<1>3. /\ UNCHANGED <<row, rev, existed, cmdQ, spill, inFlight, page>>
      /\ pc = "cells" /\ pc' = "cells"
  BY DEF SpillRemoval, storeVars, producerVars, channelVars, historyVars
<1>4. c \in Keys /\ taken.removed[c] # None
  BY DEF TakenKeys
<1>5. PICK i, q : i = taken.removed[c].incarnation /\ q = taken.removed[c].absent_at
  OBVIOUS
<1>6. Gone(existed, rev, c, i, q) /\ reg' = Remove(reg, c, i, q)
  BY <1>2, <1>4, <1>5, TruthfulParts DEF TrueSpill
<1>7. /\ SameWalk(reg, reg')
      /\ \A k \in Keys : reg.live[k] = None => reg'.live[k] = None
      /\ Covers(existed, c, i) => reg'.live[c] = None /\ Barred(reg', existed, c)
  BY <1>4, <1>6, RemoveStepAbsent
<1>8. taken'.broad = taken.broad /\ \A k \in Keys : k # c => taken'.removed[k] = taken.removed[k]
  BY <1>2, <1>4, TruthfulParts DEF Spill
<1>9. Reports' = Reports
  BY <1>1, <1>3 DEF Reports
<1>10. ASSUME NEW k \in Keys, AbsenceUnderWay(k)
       PROVE  \/ AbsenceUnderWay(k)'
              \/ /\ Barred(reg', existed, k)
                 /\ reg'.live[k] # None => Walked(reg', existed, k)
  <2>1. CASE k # c
    BY <1>3, <1>8, <1>9, <1>10, <2>1 DEF AbsenceUnderWay, SpillTells
  <2>2. CASE k = c
    BY <1>3, <1>5, <1>7, <1>8, <1>9, <1>10, <2>2 DEF AbsenceUnderWay, SpillTells
  <2> QED BY <2>1, <2>2
<1>11. \A k \in Keys : Walked(reg, existed, k) => Walked(reg', existed, k)
  BY <1>7 DEF SameWalk, Walked
<1>12. reg'.broad_through <= rev /\ WalkBound(reg', reg'.broad_through)
  BY <1>7 DEF AbsentInv, BroadBound, WalkBound, SameWalk
<1> QED BY <1>3, <1>7, <1>8, <1>9, <1>10, <1>11, <1>12, SettleStepAbsent DEF SameWalk

\* Replaying the broad removal of the spill.
LEMMA SpillRestAbsent ==
  ASSUME Truthful, Truthful', AbsentInv, Grows(reg, reg'), SpillRest
  PROVE  AbsentInv'
<1>1. UnderWay' = UnderWay
  BY SameUnderWay
<1>2. /\ UNCHANGED <<row, rev, existed, cmdQ, spill, inFlight, page>>
      /\ pc = "cells" /\ taken' = EmptySpill /\ TakenKeys = {}
      /\ reg' = IF taken.broad = None THEN reg ELSE Broad(reg, taken.broad)
  BY DEF SpillRest, storeVars, producerVars, channelVars
<1>3. Reports' = Reports
  BY <1>1, <1>2 DEF Reports
<1>4. \A k \in Keys : SpillTells(existed, taken, k) =>
                         taken.broad # None /\ Past(existed, k, taken.broad)
  BY <1>2 DEF TakenKeys, SpillTells
<1>5. /\ reg \in Registry /\ rev \in Int /\ History(existed, rev)
      /\ taken.broad # None => taken.broad \in Revision /\ taken.broad <= rev
      /\ reg.broad_through <= rev /\ WalkBound(reg, reg.broad_through)
  BY ControlTypes, TruthfulParts, WalkTypes DEF Spill, AbsentInv, BroadBound
<1>6. /\ reg'.live = reg.live /\ reg'.run = reg.run
      /\ reg'.broad_through <= rev /\ WalkBound(reg', reg'.broad_through)
      /\ \A k : taken.broad # None /\ Past(existed, k, taken.broad) =>
            Barred(reg', existed, k) /\ Walked(reg', existed, k)
      /\ \A k : Walked(reg, existed, k) => Walked(reg', existed, k)
  <2>1. CASE taken.broad = None
    BY <1>2, <1>5, <2>1
  <2>2. CASE taken.broad # None
    <3>1. PICK q : q = taken.broad
      OBVIOUS
    <3>2. q \in Revision /\ q <= rev /\ reg' = Broad(reg, q)
      BY <1>2, <1>5, <2>2, <3>1
    <3> QED BY <1>5, <3>1, <3>2, BroadSettles
  <2> QED BY <2>1, <2>2
<1>7. ASSUME NEW k \in Keys, AbsenceUnderWay(k)
      PROVE  \/ AbsenceUnderWay(k)'
             \/ /\ Barred(reg', existed, k)
                /\ reg'.live[k] # None => Walked(reg', existed, k)
  BY <1>2, <1>3, <1>4, <1>6, <1>7 DEF AbsenceUnderWay
<1>8. taken'.broad = None
  BY <1>2 DEF EmptySpill
<1> QED BY <1>2, <1>3, <1>6, <1>7, <1>8, SettleStepAbsent

\* Applying a fact of the inbox.
LEMMA ApplyFactAbsent ==
  ASSUME Truthful, Truthful', AbsentInv, Grows(reg, reg'), ApplyFact
  PROVE  AbsentInv'
<1> DEFINE T == TrueObs(existed, rev)
           o == Head(carry)
           fact == [incarnation |-> o.incarnation, at |-> o.at, revision |-> o.revision]
           seen == Observe(reg, o.key, fact, roundNow)
           other == ObserveOther(reg, o)
           t == IF o.type = "exists" THEN seen ELSE Touched(other, "unchanged")
<1>1. /\ reg' = t.reg
      /\ UNCHANGED <<row, rev, existed, cmdQ, spill, taken, inFlight, page>>
      /\ pc = "facts"
  BY DEF ApplyFact, storeVars, producerVars, channelVars
<1>2. /\ o \in T /\ o \in UnderWay /\ UnderWay' \subseteq UnderWay
      /\ UnderWay \subseteq UnderWay' \cup {o}
  BY ApplyFactUnderWay
<1> HIDE DEF o
<1>3. /\ RegistryInv(reg, existed, rev) /\ History(existed, rev) /\ reg \in Registry
      /\ reg' \in Registry /\ rev \in Int
  BY TruthfulParts, WalkTypes DEF RegistryInv, Truthful, ActorTypeOK
<1>4. /\ o \in Reports /\ Reports' \subseteq Reports /\ Reports \subseteq Reports' \cup {o}
      /\ taken = EmptySpill
  BY <1>1, <1>2 DEF Reports, AbsentInv, HandsEmpty
<1>5. ASSUME NEW k \in Keys, AbsenceUnderWay(k)
      PROVE  AbsenceUnderWay(k)' \/ ReportTells(existed, o, k)
  BY <1>1, <1>4, <1>5 DEF AbsenceUnderWay
<1>6. CASE o.type = "exists"
  <2>1. o \in ExistsObs /\ <<o.key, o.incarnation, o.revision>> \in existed
    BY <1>2, <1>6 DEF T, TrueObs, Observation, SyncObservation, ExistsObs, RemovedObs, BroadObs,
                      RowObs, AnonymousObs, CoveredObs
  <2>2. o.key \in Keys /\ TrueFact(existed, o.key, fact)
    BY <2>1 DEF ExistsObs, TrueFact, Existence
  <2>3. t = seen
    BY <1>6
  <2>4. \A k \in Keys : ~ReportTells(existed, o, k)
    BY <1>6 DEF ReportTells
  <2> HIDE DEF fact, t
  <2>5. OneKey(reg, seen.reg, o.key)
    BY <1>3, <2>2, ObserveOneKey
  <2>6. reg.live[o.key] = None /\ Barred(reg, existed, o.key) => seen.reg.live[o.key] = None
    BY <1>3, <2>2, ObserveBarred
  <2> HIDE DEF seen
  <2>7. SameWalk(reg, reg')
    BY <1>1, <2>3, <2>5 DEF OneKey, SameWalk
  <2>8. \A k \in Keys : reg.live[k] = None /\ Barred(reg, existed, k) => reg'.live[k] = None
    BY <1>1, <2>2, <2>3, <2>5, <2>6 DEF OneKey
  <2>9. HandsEmpty' /\ WalkReads'
    <3>1. pc' \in {"facts", "issue"}
      BY DEF ApplyFact
    <3> QED BY <1>1, <1>4, <2>7, <3>1 DEF AbsentInv, HandsEmpty, WalkReads, EmptySpill, SameWalk
  <2>10. \A k \in Keys : Ahead(k) => Ahead(k)'
    BY <1>1, <2>7 DEF Ahead, SameWalk
  <2>11. \A k \in Keys : AbsenceUnderWay(k) => AbsenceUnderWay(k)'
    BY <1>5, <2>4
  <2> QED BY <1>1, <1>3, <1>4, <2>7, <2>8, <2>9, <2>10, <2>11, SameWalkGoal, LiveStepAbsent
<1>7. CASE o.type # "exists"
  <2>1. t.reg = other
    <3> HIDE DEF other, seen
    <3> QED BY <1>7 DEF Touched
  <2>2. reg' = other
    BY <1>1, <2>1
  <2> HIDE DEF t, other
  <2>3. /\ reg.broad_through <= rev /\ WalkBound(reg, reg.broad_through)
        /\ o.type = "broad" => o.revision <= rev
    BY <1>4 DEF AbsentInv, BroadBound
  <2> SUFFICES /\ reg'.run = reg.run
               /\ reg'.broad_through <= rev /\ WalkBound(reg', reg'.broad_through)
               /\ \A k \in Keys : ReportTells(existed, o, k) =>
                     /\ Barred(reg', existed, k)
                     /\ reg'.live[k] # None => Walked(reg', existed, k)
               /\ \A k \in Keys : reg.live[k] = None => reg'.live[k] = None
               /\ \A k \in Keys : Walked(reg, existed, k) => Walked(reg', existed, k)
    <3>1. taken'.broad = taken.broad
      BY <1>1
    <3> QED BY <1>1, <1>4, <1>5, <3>1, SettleStepAbsent
  <2>4. CASE o.type = "removed"
    <3>1. o.key \in Keys /\ Gone(existed, rev, o.key, o.incarnation, o.revision)
      BY <1>2, <2>4 DEF T, TrueObs, Observation, SyncObservation, ExistsObs, RemovedObs, BroadObs,
                        RowObs, AnonymousObs, CoveredObs
    <3>2. other = Remove(reg, o.key, o.incarnation, o.revision)
      BY <2>4, Zenon DEF other, ObserveOther
    <3>3. /\ SameWalk(reg, reg')
          /\ \A k \in Keys : reg.live[k] = None => reg'.live[k] = None
          /\ Covers(existed, o.key, o.incarnation) =>
                reg'.live[o.key] = None /\ Barred(reg', existed, o.key)
      BY <2>2, <3>1, <3>2, RemoveStepAbsent
    <3>4. \A k : ReportTells(existed, o, k) => k = o.key /\ Covers(existed, k, o.incarnation)
      BY <2>4 DEF ReportTells
    <3> QED BY <2>3, <3>3, <3>4 DEF SameWalk, WalkBound, Walked
  <2>5. CASE o.type = "broad"
    <3>1. o.revision \in Revision
      BY <1>2, <2>5 DEF T, TrueObs, Observation, SyncObservation, ExistsObs, RemovedObs, BroadObs,
                        RowObs, AnonymousObs, CoveredObs
    <3>2. reg' = Broad(reg, o.revision)
      BY <2>2, <2>5 DEF other, ObserveOther
    <3>3. \A k : ReportTells(existed, o, k) => Past(existed, k, o.revision)
      BY <2>5 DEF ReportTells
    <3>4. /\ reg'.live = reg.live /\ reg'.run = reg.run
          /\ reg'.broad_through <= rev /\ WalkBound(reg', reg'.broad_through)
          /\ \A k : Past(existed, k, o.revision) =>
                Barred(reg', existed, k) /\ Walked(reg', existed, k)
          /\ \A k : Walked(reg, existed, k) => Walked(reg', existed, k)
      BY <1>3, <2>3, <2>5, <3>1, <3>2, BroadSettles
    <3> QED BY <3>3, <3>4
  <2>6. CASE o.type \notin {"removed", "broad"}
    <3>1. \A k : ~ReportTells(existed, o, k)
      BY <2>6 DEF ReportTells
    <3>2. \/ reg' = Cover(reg, o.agent, o.through) \/ reg' = reg
          \/ reg' = AnonymousTouch(reg, o.agent, o.at, o.generation, roundNow)
      <4>1. o.type \in {"anonymous", "covered", "rowChanged"}
        BY <1>2, <1>7, <2>6 DEF T, TrueObs, Observation, SyncObservation, ExistsObs, RemovedObs,
              BroadObs, RowObs, AnonymousObs, CoveredObs
      <4>2. o.type = "covered" => other = Cover(reg, o.agent, o.through)
        BY DEF other, ObserveOther
      <4>3. o.type = "anonymous" =>
               other = AnonymousTouch(reg, o.agent, o.at, o.generation, roundNow)
        BY DEF other, ObserveOther
      <4>4. o.type = "rowChanged" => other = reg
        BY DEF other, ObserveOther
      <4> QED BY <2>2, <4>1, <4>2, <4>3, <4>4
    <3>3. SameWalk(reg, reg') /\ reg'.live = reg.live
      <4>1. SameWalk(reg, reg)
        BY DEF SameWalk
      <4> QED BY <1>3, <3>2, <4>1, OtherWalk, OtherFields
    <3> QED BY <2>3, <3>1, <3>3 DEF SameWalk, WalkBound, Walked
  <2> QED BY <2>4, <2>5, <2>6
<1> QED BY <1>6, <1>7

\* Issuing the next page read.
LEMMA IssueAbsent ==
  ASSUME Truthful, Truthful', AbsentInv, Grows(reg, reg'), Issue
  PROVE  AbsentInv'
<1> DEFINE n == NextPage(reg, roundNow)
<1>1. UnderWay' = UnderWay
  BY SameUnderWay
<1>2. /\ UNCHANGED <<row, rev, existed, cmdQ, spill, taken, page>>
      /\ pc = "issue" /\ pc' = "select"
      /\ \/ reg' = reg /\ inFlight' = inFlight
         \/ reg' = n.reg /\ inFlight' = IF n.request = None THEN None ELSE Reading(n.request)
  <2>1. /\ UNCHANGED <<row, rev, existed, cmdQ, spill, taken, page>>
        /\ pc = "issue" /\ pc' = "select"
    BY DEF Issue, storeVars, producerVars, channelVars, historyVars
  <2>2. \/ reg' = reg /\ inFlight' = inFlight
        \/ reg' = n.reg /\ inFlight' = IF n.request = None THEN None ELSE Reading(n.request)
    BY Zenon DEF Issue
  <2> QED BY <2>1, <2>2
<1>3. /\ RegistryInv(reg, existed, rev) /\ History(existed, rev)
      /\ reg \in Registry /\ reg' \in Registry
  BY TruthfulParts, ControlTypes DEF Truthful, ActorTypeOK
<1>4. taken = EmptySpill /\ page = None
  BY <1>2 DEF AbsentInv, HandsEmpty
<1>5. HandsEmpty'
  BY <1>2, <1>4 DEF HandsEmpty, EmptySpill
<1>6. Fronts(reg, existed)
  BY DEF AbsentInv, FrontInv, Fronts, InFront, Ahead
<1>7. Chosen(reg, n, existed) /\ Aside(reg, n.reg)
  BY <1>3, <1>6, NextPageChosen, NextPageAside
<1>8. Reports' = Reports
  BY <1>1, <1>2 DEF Reports
<1>9. \A k \in Keys : AbsenceUnderWay(k) => AbsenceUnderWay(k)'
  BY <1>2, <1>8 DEF AbsenceUnderWay
<1> HIDE DEF n
<1>10. CASE reg' = reg /\ inFlight' = inFlight
  <2>1. WalkReads' /\ \A k \in Keys : Ahead(k) => Ahead(k)'
    BY <1>2, <1>10 DEF AbsentInv, WalkReads, Ahead
  <2> QED BY <1>1, <1>2, <1>5, <1>10, <2>1, HandsStepAbsent
<1>11. CASE reg' = n.reg /\ inFlight' = IF n.request = None THEN None ELSE Reading(n.request)
  <2>1. inFlight' # None => /\ n.request # None /\ inFlight'.request = n.request
                            /\ inFlight'.status = "reading"
    BY <1>11 DEF Reading
  <2>2. /\ reg'.live = reg.live /\ Fronts(reg', existed)
        /\ \A k \in Keys : reg.live[k] # None /\ Walked(reg, existed, k)
                              => Walked(reg', existed, k)
    BY <1>7, <1>11 DEF Chosen
  <2>3. n.request # None /\ n.request.class = "walk" =>
          /\ reg'.run # None
          /\ \A k \in Keys : reg'.live[k] # None /\ Past(existed, k, reg'.run.through)
                                => Reaches(n.request.keys, k)
    BY <1>7, <1>11 DEF Chosen, Named
  <2>4. reg'.broad_through = reg.broad_through
    BY <1>7, <1>11 DEF Aside, SameMemory
  <2>5. reg'.broad_through <= rev /\ WalkBound(reg', reg'.broad_through)
    <3>1. reg.broad_through <= rev /\ WalkBound(reg, reg.broad_through) /\ reg.broad_through \in Int
      BY WalkTypes DEF AbsentInv, BroadBound
    <3> QED BY <1>7, <1>11, <2>4, <3>1 DEF Chosen
  <2>6. WalkReads'
    BY <1>2, <1>4, <2>1, <2>3 DEF WalkReads
  <2>7. FrontInv'
    <3> SUFFICES ASSUME NEW k \in Keys, reg'.live[k] # None, reg'.run # None,
                        Past(existed', k, reg'.run.through)
                 PROVE  Ahead(k)'
      BY DEF FrontInv
    <3>1. Past(existed, k, reg'.run.through)
      BY <1>2
    <3>2. k > reg'.run.cursor
      BY <2>2, <3>1 DEF Fronts, InFront
    <3> QED BY <1>2, <1>4, <2>1, <2>3, <3>1, <3>2 DEF Ahead
  <2> QED BY <1>2, <1>3, <1>5, <1>8, <1>9, <2>2, <2>5, <2>6, <2>7, RegistryStepAbsent
<1> QED BY <1>2, <1>10, <1>11

\* At the start every row is there, and the live sessions are those of the seed.
LEMMA InitAbsent ==
  ASSUME Init
  PROVE  AbsentInv
<1>1. /\ scanQ = <<>> /\ inbox = <<>> /\ carry = <<>> /\ cmdQ = {} /\ rev = 0
      /\ inFlight = None /\ page = None /\ spill = EmptySpill /\ taken = EmptySpill
      /\ existed = {<<k, 0, 0>> : k \in Stored}
  BY DEF Init
<1>2. Reports = {}
  BY <1>1, ElemsShort DEF Reports, UnderWay
<1>3. /\ reg.run = None /\ reg.needs = None /\ reg.broad_through = 0
  BY SeedIs DEF Seeding
<1>4. \A k \in Keys : row[k] = None => reg.live[k] = None
  BY SeedIs DEF Seeding, SeedKeys, Stored
<1>5. ASSUME NEW k \in Keys, row[k] = None PROVE Barred(reg, existed, k)
  <2>1. \A x \in existed : x[1] # k
    BY <1>1, <1>5 DEF Stored
  <2>2. Past(existed, k, reg.broad_through)
    BY <2>1 DEF Past
  <2> QED BY <2>2 DEF Barred
<1>6. EmptySpill.broad = None
  BY DEF EmptySpill
<1>7. BroadBound
  BY <1>1, <1>2, <1>3, <1>6 DEF BroadBound, WalkBound
<1>8. HandsEmpty /\ WalkReads
  BY <1>1 DEF HandsEmpty, WalkReads
<1>9. FrontInv /\ ToldInv
  BY <1>3, <1>4, <1>5 DEF FrontInv, ToldInv
<1> QED BY <1>7, <1>8, <1>9 DEF AbsentInv

\* Every step keeps the absences told.
LEMMA NextAbsent ==
  ASSUME Truthful, Truthful', Exact(reg), AbsentInv, [Next]_vars
  PROVE  AbsentInv'
<1>1. Grows(reg, reg')
  BY NextSound DEF Sound
<1>2. CASE Scan
  BY <1>2, ScanAbsent
<1>3. CASE Command
  BY <1>3, CommandAbsent
<1>4. CASE \/ ScanSend \/ BackoffElapses \/ Tick \/ UNCHANGED vars
           \/ Select \/ PageFailed \/ NoPage \/ Receive \/ FactsEnd
  BY <1>4, WaitingAbsent
<1>5. CASE ReportSome \/ ReadPage \/ FailPage \/ PageArrives \/ TakeSpill
  BY <1>5, ReportAbsent, ReadAbsent, PageArrivesAbsent, TakeSpillAbsent
<1>6. CASE Expire \/ RecoveryPageArrives \/ RecoveryPageEnds \/ RecoveryRow \/ PageRow
  BY <1>1, <1>6, EndStepAbsent, RecoveryRowAbsent, PageRowAbsent
<1>7. CASE SpillRemoval \/ SpillRest \/ ApplyFact \/ Issue
  BY <1>1, <1>7, SpillRemovalAbsent, SpillRestAbsent, ApplyFactAbsent, IssueAbsent
<1> QED BY <1>2, <1>3, <1>4, <1>5, <1>6, <1>7 DEF Next, ActorStep

\* A key without a row has its removal under way, or is barred and walked.
LEMMA AbsentAlways == Spec => []AbsentInv
<1>1. Truthful /\ Truthful' /\ Exact(reg) /\ AbsentInv /\ [Next]_vars => AbsentInv'
  BY NextAbsent
<1>2. Init => AbsentInv
  BY InitAbsent
<1> QED
  BY <1>1, <1>2, TruthfulAlways, ExactAlways, PTL DEF Spec

----------------------------------------------------------------------------
(* A stored row with recent activity: the registry holds that activity, it *)
(* is reported, or the recovery has yet to come to the row.                *)

\* A report of incarnation i of k, active at t or later, is under way.
Reported(k, i, t) ==
    \E o \in UnderWay : o.type = "exists" /\ o.key = k /\ o.incarnation = i /\ o.at >= t

Carried(k, t) == Holds(reg, k, row[k].incarnation, t) \/ Reported(k, row[k].incarnation, t)

\* k is in a list of active rows.
Listed(k, rows) ==
    \E n \in DOMAIN rows : /\ rows[n].key = k /\ rows[n].incarnation = row[k].incarnation
                           /\ rows[n].epoch >= row[k].epoch

RecoveryUnderWay == inFlight # None /\ inFlight.request.class = "recovery"

\* The rows of a recovery page have been read.
RecoveryRead == RecoveryUnderWay /\ inFlight.status = "ok"

\* The recovery has yet to admit k: its row is in the page in hand, in the page
\* that was read, or in a page that will be read.
Recovers(k) ==
    /\ reg.recovery # None
    /\ row[k].epoch >= reg.recovery.since
    /\ IF reg.recovery.page # None
       THEN \/ Listed(k, reg.recovery.page.rows)
            \/ ~reg.recovery.page.exhausted /\ AfterCursor(k, reg.recovery.page.cursor)
       ELSE IF RecoveryRead
       THEN \/ Listed(k, inFlight.active)
            \/ Len(inFlight.active) >= PageSize /\ AfterCursor(k, LastRow(inFlight.active))
       ELSE AfterCursor(k, reg.recovery.cursor)

KeyActive(k) ==
    row[k] # None =>
        /\ now - heard[k] < ActiveWindow => Carried(k, heard[k])
        /\ now - row[k].epoch < ActiveWindow /\ row[k].epoch > heard[k] =>
              Carried(k, row[k].epoch) \/ Recovers(k)

\* A recovery page is read for a recovery that holds none.
RecoveryReads == RecoveryUnderWay => reg.recovery # None /\ reg.recovery.page = None

ActiveInv == RecoveryReads /\ \A k \in LocalKeys : KeyActive(k)

\* What a step keeps of the recent activity of k.
CarriesOn(k) == \A t \in Int : now - t < ActiveWindow /\ Carried(k, t) => Carried(k, t)'

RecoversOn(k) ==
    now - row[k].epoch < ActiveWindow /\ Recovers(k) => Recovers(k)' \/ Carried(k, row[k].epoch)'

\* The types that the argument uses.
LEMMA ActiveTypes ==
  ASSUME Truthful, NEW k \in Keys
  PROVE  /\ now \in Int /\ roundNow \in Int /\ heard[k] \in Int /\ rev \in Nat
         /\ row[k] # None => /\ row[k] \in Presence /\ row[k].epoch \in Int
                             /\ row[k].incarnation \in Incarnation
                             /\ <<k, row[k].incarnation, rev>> \in existed
<1>1. /\ now \in Nat /\ rev \in Nat /\ heard \in [Keys -> Int]
      /\ row \in [Keys -> Presence \cup {None}]
  BY DEF Truthful, StoreTypeOK, Revision, Time
<1>2. roundNow \in Nat
  BY ControlTypes
<1>3. row[k] # None => <<k, row[k].incarnation, rev>> \in existed
  BY DEF Truthful, StoreInv
<1> QED BY <1>1, <1>2, <1>3 DEF Presence, Time, Incarnation

\* A step that leaves the row alone keeps what it keeps of the activity.
LEMMA KeepActive ==
  ASSUME Truthful, Truthful', NEW k \in Keys, KeyActive(k), row'[k] = row[k], heard'[k] = heard[k],
         now <= now', CarriesOn(k), RecoversOn(k)
  PROVE  KeyActive(k)'
<1> SUFFICES ASSUME row[k] # None
             PROVE  /\ now' - heard[k] < ActiveWindow => Carried(k, heard[k])'
                    /\ now' - row[k].epoch < ActiveWindow /\ row[k].epoch > heard[k] =>
                          Carried(k, row[k].epoch)' \/ Recovers(k)'
  BY DEF KeyActive
<1>1. heard[k] \in Int /\ row[k].epoch \in Int /\ now \in Int /\ now' \in Int
  <2>1. now' \in Nat
    BY DEF Truthful, StoreTypeOK
  <2>2. heard[k] \in Int /\ now \in Int
    BY ActiveTypes
  <2>3. row[k].epoch \in Int
    BY ActiveTypes
  <2> QED BY <2>1, <2>2, <2>3
<1>2. \A t \in Int : now' - t < ActiveWindow => now - t < ActiveWindow
  BY <1>1, WindowAssumption
<1>3. now' - heard[k] < ActiveWindow => Carried(k, heard[k])'
  BY <1>1, <1>2 DEF CarriesOn, KeyActive
<1>4. now' - row[k].epoch < ActiveWindow /\ row[k].epoch > heard[k] =>
         Carried(k, row[k].epoch)' \/ Recovers(k)'
  BY <1>1, <1>2 DEF CarriesOn, RecoversOn, KeyActive
<1> QED BY <1>3, <1>4

\* The same recovery, and the same rows read for it, recover the same keys.
LEMMA SameRecovers ==
  ASSUME NEW k, row'[k] = row[k], reg'.recovery = reg.recovery,
         reg.recovery # None /\ reg.recovery.page = None =>
            /\ RecoveryRead' <=> RecoveryRead
            /\ RecoveryRead => inFlight'.active = inFlight.active
  PROVE  RecoversOn(k)
<1> SUFFICES ASSUME Recovers(k) PROVE Recovers(k)'
  BY DEF RecoversOn
<1>1. \A rows : Listed(k, rows) => Listed(k, rows)'
  BY DEF Listed
<1>2. \A c : AfterCursor(k, c) => AfterCursor(k, c)'
  BY DEF AfterCursor
<1>3. reg'.recovery # None /\ row'[k].epoch >= reg'.recovery.since
  BY DEF Recovers
<1>4. CASE reg.recovery.page # None
  BY <1>1, <1>2, <1>3, <1>4 DEF Recovers
<1>5. CASE reg.recovery.page = None /\ RecoveryRead
  <2>1. /\ inFlight'.active = inFlight.active /\ RecoveryRead' /\ reg'.recovery.page = None
        /\ reg.recovery # None
    BY <1>3, <1>5
  <2>2. \/ Listed(k, inFlight.active)'
        \/ Len(inFlight'.active) >= PageSize /\ AfterCursor(k, LastRow(inFlight.active))'
    <3>1. \/ Listed(k, inFlight.active)
          \/ Len(inFlight.active) >= PageSize /\ AfterCursor(k, LastRow(inFlight.active))
      BY <1>5 DEF Recovers
    <3> QED BY <1>1, <1>2, <2>1, <3>1
  <2> QED BY <1>3, <2>1, <2>2 DEF Recovers
<1>6. CASE reg.recovery.page = None /\ ~RecoveryRead
  <2>1. ~RecoveryRead' /\ reg'.recovery.page = None /\ reg'.recovery.cursor = reg.recovery.cursor
    BY <1>3, <1>6
  <2>2. AfterCursor(k, reg.recovery.cursor)'
    BY <1>2, <1>6, <2>1 DEF Recovers
  <2> QED BY <1>3, <2>1, <2>2 DEF Recovers
<1> QED BY <1>4, <1>5, <1>6

\* What the registry keeps of the recent activity, with every report, is carried on.
LEMMA HoldsCarries ==
  ASSUME NEW k, row'[k] = row[k], UnderWay \subseteq UnderWay', now \in Int,
         NEW n \in Int, n <= now, HoldsRecent(reg, reg', k, row[k].incarnation, n)
  PROVE  CarriesOn(k)
<1> SUFFICES ASSUME NEW t \in Int, now - t < ActiveWindow, Carried(k, t)
             PROVE  Carried(k, t)'
  BY DEF CarriesOn
<1>1. ~OutOfWindow(t, n)
  BY WindowAssumption DEF OutOfWindow
<1>2. CASE Holds(reg, k, row[k].incarnation, t)
  <2>1. Holds(reg', k, row[k].incarnation, t)
    BY <1>1, <1>2 DEF HoldsRecent
  <2> QED BY <2>1 DEF Carried
<1>3. CASE Reported(k, row[k].incarnation, t)
  <2>1. Reported(k, row[k].incarnation, t)'
    BY <1>3 DEF Reported
  <2> QED BY <2>1 DEF Carried
<1> QED BY <1>2, <1>3 DEF Carried

\* What is held at every time is held at every recent one.
LEMMA HoldsOnRecent ==
  ASSUME NEW r, NEW s, NEW k, NEW i, HoldsOn(r, s, k, i), NEW n
  PROVE  HoldsRecent(r, s, k, i, n)
  BY DEF HoldsOn, HoldsRecent

\* The page read of a step that starts and ends no recovery page.
SameRead ==
    /\ RecoveryUnderWay' => RecoveryUnderWay
    /\ RecoveryRead' <=> RecoveryRead
    /\ RecoveryRead => inFlight'.active = inFlight.active

\* A step that leaves the row of k and its entries in the registry alone.
LEMMA SameKeyActive ==
  ASSUME Truthful, Truthful', NEW k \in Keys, KeyActive(k), row'[k] = row[k],
         heard'[k] = heard[k], now <= now', UnderWay \subseteq UnderWay', SameRead,
         reg'.recovery = reg.recovery,
         reg'.live[k] = reg.live[k], reg'.pending[k] = reg.pending[k]
  PROVE  KeyActive(k)'
<1>1. now \in Int
  BY ActiveTypes
<1>2. RecoversOn(k)
  BY SameRecovers DEF SameRead
<1>3. HoldsRecent(reg, reg', k, row[k].incarnation, now)
  BY SameHolds, HoldsOnRecent
<1>4. CarriesOn(k)
  BY <1>1, <1>3, HoldsCarries
<1> QED BY <1>2, <1>4, KeepActive

\* A step that leaves the rows, the sessions and the recovery alone.
LEMMA SameActive ==
  ASSUME Truthful, Truthful', ActiveInv, UNCHANGED <<row, heard>>, now <= now',
         UnderWay \subseteq UnderWay', SameRead,
         reg'.recovery = reg.recovery, reg'.live = reg.live, reg'.pending = reg.pending
  PROVE  ActiveInv'
<1>1. RecoveryReads'
  BY DEF SameRead, ActiveInv, RecoveryReads
<1>2. \A k \in LocalKeys : KeyActive(k)'
  BY SameKeyActive DEF ActiveInv, LocalKeys
<1> QED BY <1>1, <1>2 DEF ActiveInv

\* The steps of the clock, the channels and the actor that leave the rows, the
\* sessions and the recovery alone.
LEMMA WaitingActive ==
  ASSUME Truthful, Truthful', ActiveInv,
         \/ ScanSend \/ ReportSome \/ FailPage \/ BackoffElapses \/ Tick \/ UNCHANGED vars
         \/ Select \/ PageArrives \/ PageFailed \/ NoPage \/ TakeSpill \/ SpillRest
         \/ Receive \/ FactsEnd
  PROVE  ActiveInv'
<1>1. now \in Int /\ reg \in Registry
  BY ControlTypes DEF Truthful, StoreTypeOK
<1>2. UNCHANGED <<row, heard>>
  BY DEF ScanSend, ReportSome, Report, FailPage, BackoffElapses, Tick, Select, PageArrives,
         PageFailed, NoPage, TakeSpill, SpillRest, Receive, FactsEnd, vars, storeVars,
         historyVars
<1>3. now <= now'
  BY <1>1 DEF ScanSend, ReportSome, Report, FailPage, BackoffElapses, Tick, Select, PageArrives,
         PageFailed, NoPage, TakeSpill, SpillRest, Receive, FactsEnd, vars, storeVars
<1>4. UnderWay \subseteq UnderWay'
  <2>1. CASE ReportSome
    BY <2>1, ReportUnderWay DEF ReportSome
  <2> QED BY <2>1, SameUnderWay
<1>5. SameRead
  <2>1. CASE ScanSend \/ ReportSome \/ BackoffElapses \/ Tick \/ UNCHANGED vars \/ Select
             \/ NoPage \/ TakeSpill \/ SpillRest \/ Receive \/ FactsEnd
    <3>1. inFlight' = inFlight
      BY <2>1 DEF ScanSend, ReportSome, Report, BackoffElapses, Tick, Select, NoPage, TakeSpill,
             SpillRest, Receive, FactsEnd, vars, actorVars
    <3> QED BY <3>1 DEF SameRead, RecoveryUnderWay, RecoveryRead
  <2>2. CASE PageArrives \/ PageFailed
    <3>1. /\ inFlight' = None
          /\ inFlight.request.class # "recovery" \/ inFlight.status = "failed"
      BY <2>2 DEF PageArrives, PageFailed
    <3> QED BY <3>1 DEF SameRead, RecoveryUnderWay, RecoveryRead
  <2>3. CASE FailPage
    <3>1. /\ inFlight # None /\ inFlight.status = "reading"
          /\ inFlight' = [inFlight EXCEPT !.status = "failed"]
      BY <2>3 DEF FailPage
    <3>2. inFlight \in PageOutcome
      BY <3>1, ControlTypes
    <3>3. inFlight'.status = "failed" /\ inFlight'.request = inFlight.request
      BY <3>1, <3>2 DEF PageOutcome
    <3> QED BY <3>1, <3>3 DEF SameRead, RecoveryUnderWay, RecoveryRead
  <2> QED BY <2>1, <2>2, <2>3
<1>6. reg'.recovery = reg.recovery /\ reg'.live = reg.live /\ reg'.pending = reg.pending
  <2>1. CASE SpillRest
    <3>1. reg' = reg \/ reg' = Broad(reg, taken.broad)
      BY <2>1 DEF SpillRest
    <3> QED BY <1>1, <3>1, OtherFields
  <2>2. CASE ~SpillRest
    <3>1. reg' = reg
      BY <2>2 DEF ScanSend, ReportSome, Report, FailPage, BackoffElapses, Tick, Select, PageArrives,
           PageFailed, NoPage, TakeSpill, Receive, FactsEnd, vars, actorVars
    <3> QED BY <3>1
  <2> QED BY <2>1, <2>2
<1> QED BY <1>2, <1>3, <1>4, <1>5, <1>6, SameActive

\* Commands, retention and analysis: a row goes or stays as it is.
LEMMA CommandActive ==
  ASSUME Truthful, Truthful', ActiveInv, Command
  PROVE  ActiveInv'
<1>1. UNCHANGED <<channelVars, actorVars, scanQ, heard, now>>
  BY DEF Command, CommandDelete, AnalysisPublish, CommandBroad, Delete
<1>2. ASSUME NEW k \in Keys PROVE row'[k] = None \/ row'[k] = row[k]
  BY DEF Command, CommandDelete, AnalysisPublish, CommandBroad, Delete
<1>3. now \in Int
  BY DEF Truthful, StoreTypeOK
<1>4. UnderWay' = UnderWay /\ inFlight' = inFlight /\ reg' = reg
  BY <1>1 DEF UnderWay, channelVars, actorVars
<1>5. SameRead
  BY <1>4 DEF SameRead, RecoveryUnderWay, RecoveryRead
<1>6. ASSUME NEW k \in LocalKeys PROVE KeyActive(k)'
  <2>1. k \in Keys /\ KeyActive(k)
    BY DEF LocalKeys, ActiveInv
  <2>2. CASE row'[k] = None
    BY <2>2 DEF KeyActive
  <2>3. CASE row'[k] = row[k]
    BY <1>1, <1>3, <1>4, <1>5, <2>1, <2>3, SameKeyActive
  <2> QED BY <1>2, <2>1, <2>2, <2>3
<1>7. RecoveryReads'
  BY <1>4 DEF ActiveInv, RecoveryReads, RecoveryUnderWay
<1> QED BY <1>6, <1>7 DEF ActiveInv

\* A reported activity of k: the report carries it, and what was heard before stays.
LEMMA ReportedKeyActive ==
  ASSUME Truthful, Truthful', NEW k \in Keys, KeyActive(k),
         UNCHANGED <<reg, inFlight, now>>, UnderWay \subseteq UnderWay',
         NEW at \in Int, Reported(k, row[k].incarnation, at)', row'[k] # None,
         row[k] = None => heard'[k] = at /\ row'[k].epoch = at,
         row[k] # None => /\ heard'[k] = Max2(heard[k], at)
                          /\ row'[k].incarnation = row[k].incarnation
                          /\ row'[k] = row[k] \/ row'[k].epoch = at
  PROVE  KeyActive(k)'
<1>1. Carried(k, at)'
  BY DEF Carried
<1>2. /\ now \in Int /\ heard[k] \in Int
      /\ row[k] # None => row[k].epoch \in Int
  BY ActiveTypes
<1>3. CASE row[k] = None
  BY <1>1, <1>3 DEF KeyActive
<1>4. CASE row[k] # None
  <2>1. /\ heard[k] <= heard'[k] /\ at <= heard'[k]
        /\ heard'[k] = at \/ heard'[k] = heard[k]
    BY <1>2, <1>4 DEF Max2
  <2>2. ASSUME NEW t \in Int, Carried(k, t) PROVE Carried(k, t)'
    <3>1. Reported(k, row[k].incarnation, t) => Reported(k, row[k].incarnation, t)'
      BY <1>4 DEF Reported
    <3>2. CASE Reported(k, row[k].incarnation, t)
      BY <1>4, <3>1, <3>2 DEF Carried
    <3>3. CASE Holds(reg, k, row[k].incarnation, t)
      BY <1>4, <3>3 DEF Carried
    <3> QED BY <2>2, <3>2, <3>3 DEF Carried
  <2>3. now' - heard'[k] < ActiveWindow => (Carried(k, heard[k]))'
    <3>1. CASE heard'[k] = at
      BY <1>1, <3>1
    <3>2. CASE heard'[k] = heard[k]
      <4>1. now' - heard'[k] < ActiveWindow => Carried(k, heard[k])
        BY <1>4, <3>2 DEF KeyActive
      <4>2. PICK t \in Int : t = heard[k]
        BY <1>2
      <4>3. Carried(k, t) => Carried(k, t)'
        BY <2>2
      <4> QED BY <3>2, <4>1, <4>2, <4>3
    <3> QED BY <2>1, <3>1, <3>2
  <2>5. CASE row'[k].epoch = at
    <3>1. ~(row'[k].epoch > heard'[k])
      <4>1. heard'[k] \in Int
        BY <1>2, <2>1
      <4> QED BY <2>1, <2>5, <4>1
    <3> QED BY <2>3, <3>1 DEF KeyActive
  <2>6. CASE row'[k] = row[k]
    <3>1. RecoversOn(k)
      BY <2>6, SameRecovers DEF RecoveryRead, RecoveryUnderWay
    <3>2. row[k].epoch > heard'[k] => row[k].epoch > heard[k]
      BY <1>2, <1>4, <2>1
    <3>3. now' - row[k].epoch < ActiveWindow /\ row[k].epoch > heard'[k] =>
            Carried(k, row[k].epoch)' \/ Recovers(k)'
      <4>1. row[k].epoch \in Int
        BY <1>2, <1>4
      <4>2. now' - row[k].epoch < ActiveWindow /\ row[k].epoch > heard'[k] =>
               Carried(k, row[k].epoch) \/ Recovers(k)
        BY <1>4, <3>2 DEF KeyActive
      <4>3. Carried(k, row[k].epoch) => Carried(k, row[k].epoch)'
        <5>1. PICK t \in Int : t = row[k].epoch
          BY <4>1
        <5>2. Carried(k, t) => Carried(k, t)'
          BY <2>2
        <5> QED BY <2>6, <5>1, <5>2
      <4> QED BY <3>1, <4>2, <4>3 DEF RecoversOn
    <3> QED BY <2>3, <2>6, <3>3 DEF KeyActive
  <2> QED BY <1>4, <2>5, <2>6
<1> QED BY <1>3, <1>4

\* A step of the scan path leaves the actor and the reports under way alone.
LEMMA ScanFrame ==
  ASSUME UNCHANGED <<channelVars, actorVars>>, scanQ = <<>> \/ scanQ' = scanQ
  PROVE  /\ UnderWay \subseteq UnderWay' /\ SameRead
         /\ reg' = reg /\ inFlight' = inFlight
<1>1. reg' = reg /\ inFlight' = inFlight /\ inbox' = inbox /\ carry' = carry
  BY DEF channelVars, actorVars
<1>2. SameRead
  BY <1>1 DEF SameRead, RecoveryUnderWay, RecoveryRead
<1>3. UnderWay \subseteq UnderWay'
  <2>1. CASE scanQ = <<>>
    <3>1. Elems(scanQ) = {}
      BY <2>1, ElemsShort
    <3> QED BY <1>1, <3>1 DEF UnderWay
  <2>2. CASE scanQ' = scanQ
    BY <1>1, <2>2 DEF UnderWay
  <2> QED BY <2>1, <2>2
<1> QED BY <1>1, <1>2, <1>3

\* The report that the scan path makes carries the activity it names.
LEMMA ScanReported ==
  ASSUME UNCHANGED <<channelVars, actorVars>>, scanQ = <<>>, NEW k, NEW at \in Int, NEW q,
         scanQ' = <<Exists(k, row'[k].incarnation, at, q)>>
  PROVE  Reported(k, row[k].incarnation, at)'
<1> DEFINE o == Exists(k, row'[k].incarnation, at, q)
<1>1. /\ o.type = "exists" /\ o.key = k /\ o.incarnation = row'[k].incarnation /\ o.at = at
      /\ scanQ' = <<o>>
  BY DEF Exists
<1> HIDE DEF o
<1>2. UnderWay' = UnderWay \cup {o}
  BY <1>1, ScanUnderWay DEF channelVars, actorVars
<1> QED BY <1>1, <1>2 DEF Reported

\* An indexed row: within the window it is reported, out of it nothing is owed.
LEMMA ScanUpsertActive ==
  ASSUME Truthful, Truthful', ActiveInv, NEW k \in LocalKeys, NEW at \in Epochs, ScanUpsert(k, at)
  PROVE  ActiveInv'
<1>1. PICK epoch \in Epochs : Upsert(k, at, epoch)
  BY DEF ScanUpsert
<1> DEFINE i == IF row[k] = None THEN incSeq + 1 ELSE row[k].incarnation
           new == [incarnation |-> i, epoch |-> epoch]
           o == Exists(k, row'[k].incarnation, at, rev')
           h == IF row[k] = None THEN at
                ELSE IF OutOfWindow(at, now) THEN heard[k] ELSE Max2(heard[k], at)
<1>2. /\ k \in Keys /\ at \in Int /\ epoch \in Int /\ i \in Incarnation
      /\ DOMAIN row = Keys /\ DOMAIN heard = Keys /\ now \in Int
      /\ row[k] # None => row[k] \in Presence
  BY <1>1, BoundAssumption DEF Truthful, StoreTypeOK, Presence, Incarnation, LocalKeys
<1>3. /\ UNCHANGED <<channelVars, actorVars>> /\ scanQ = <<>> /\ now' = now
      /\ row' = [row EXCEPT ![k] = new]
      /\ heard' = [heard EXCEPT ![k] = h]
      /\ epoch = at \/ (row[k] # None /\ epoch = row[k].epoch)
      /\ scanQ' = IF OutOfWindow(at, now) THEN <<>> ELSE <<o>>
  <2>1. scanQ' = IF OutOfWindow(at, now) THEN <<>> ELSE <<o>>
    BY Zenon DEF ScanUpsert
  <2>2. epoch = at \/ (row[k] # None /\ epoch = row[k].epoch)
    BY <1>1 DEF Upsert
  <2> QED BY <1>1, <2>1, <2>2 DEF ScanUpsert, Upsert
<1>4. UnderWay \subseteq UnderWay' /\ SameRead /\ reg' = reg /\ inFlight' = inFlight
  BY <1>3, ScanFrame
<1>5. new \in Presence /\ new # None /\ new.incarnation = i /\ new.epoch = epoch
  <2> HIDE DEF i
  <2>1. new \in Presence /\ new.incarnation = i /\ new.epoch = epoch
    BY <1>2 DEF Presence, Time
  <2> QED BY <2>1, NoneAssumption
<1>6. row[k] # None /\ epoch = row[k].epoch => new = row[k]
  <2>1. SUFFICES ASSUME row[k] # None, epoch = row[k].epoch PROVE new = row[k]
    OBVIOUS
  <2>2. row[k] = [incarnation |-> row[k].incarnation, epoch |-> row[k].epoch]
    BY <1>2, <2>1 DEF Presence
  <2> QED BY <2>1, <2>2
<1>7. row[k] # None => i = row[k].incarnation
  OBVIOUS
<1> HIDE DEF i, new
<1>8. row'[k] = new /\ heard'[k] = h
  BY <1>2, <1>3
<1>9. KeyActive(k)
  BY DEF ActiveInv
<1>10. KeyActive(k)'
  <2>1. CASE ~OutOfWindow(at, now)
    <3>1. Reported(k, row[k].incarnation, at)'
      BY <1>2, <1>3, <2>1, ScanReported
    <3>2. row[k] = None => heard'[k] = at /\ row'[k].epoch = at
      BY <1>3, <1>5, <1>8
    <3>3. row[k] # None => /\ heard'[k] = Max2(heard[k], at)
                           /\ row'[k].incarnation = row[k].incarnation
                           /\ row'[k] = row[k] \/ row'[k].epoch = at
      BY <1>3, <1>5, <1>6, <1>7, <1>8, <2>1
    <3>4. row'[k] # None
      BY <1>5, <1>8
    <3> HIDE DEF h, o
    <3> QED BY <1>2, <1>3, <1>4, <1>9, <3>1, <3>2, <3>3, <3>4, ReportedKeyActive
  <2>2. CASE OutOfWindow(at, now) /\ epoch = at
    <3>1. ~(now' - row'[k].epoch < ActiveWindow)
      BY <1>2, <1>3, <1>5, <1>8, <2>2, WindowAssumption DEF OutOfWindow
    <3>2. CASE row[k] = None
      <4>1. heard'[k] = row'[k].epoch
        BY <1>5, <1>8, <2>2, <3>2
      <4> QED BY <3>1, <4>1 DEF KeyActive
    <3>3. CASE row[k] # None
      <4>1. heard'[k] = heard[k] /\ row'[k].incarnation = row[k].incarnation
        BY <1>5, <1>7, <1>8, <2>2, <3>3
      <4>2. now' - heard[k] < ActiveWindow => Carried(k, heard[k])
        BY <1>3, <1>9, <3>3 DEF KeyActive
      <4>3. PICK t : t = heard[k]
        OBVIOUS
      <4>4. Carried(k, t) => Carried(k, t)'
        BY <1>4, <4>1 DEF Carried, Reported
      <4>5. now' - heard'[k] < ActiveWindow => Carried(k, heard[k])'
        BY <4>1, <4>2, <4>3, <4>4
      <4> QED BY <3>1, <4>5 DEF KeyActive
    <3> QED BY <3>2, <3>3
  <2>3. CASE OutOfWindow(at, now) /\ row[k] # None /\ epoch = row[k].epoch
    <3>1. row'[k] = row[k] /\ heard'[k] = heard[k] /\ now <= now'
      BY <1>2, <1>3, <1>6, <1>8, <2>3
    <3> QED BY <1>2, <1>4, <1>9, <3>1, SameKeyActive
  <2> QED BY <1>3, <2>1, <2>2, <2>3
<1>11. ASSUME NEW j \in LocalKeys, j # k PROVE KeyActive(j)'
  <2>1. row'[j] = row[j] /\ heard'[j] = heard[j] /\ now <= now'
    BY <1>2, <1>3, <1>11
  <2> QED BY <1>4, <2>1, SameKeyActive DEF ActiveInv, LocalKeys
<1>12. RecoveryReads'
  BY <1>4 DEF ActiveInv, RecoveryReads, RecoveryUnderWay
<1> QED BY <1>10, <1>11, <1>12 DEF ActiveInv

\* A touched row reports the activity of this moment.
LEMMA ScanTouchActive ==
  ASSUME Truthful, Truthful', ActiveInv, NEW k \in LocalKeys, ScanTouch(k)
  PROVE  ActiveInv'
<1>1. /\ k \in Keys /\ DOMAIN heard = Keys /\ now \in Int
  BY DEF Truthful, StoreTypeOK, LocalKeys
<1>2. /\ UNCHANGED <<channelVars, actorVars>> /\ scanQ = <<>> /\ now' = now /\ row' = row
      /\ row[k] # None
      /\ heard' = [heard EXCEPT ![k] = Max2(heard[k], now)]
      /\ scanQ' = <<Exists(k, row'[k].incarnation, now, rev)>>
  BY DEF ScanTouch, actorVars, channelVars, storeVars
<1>3. UnderWay \subseteq UnderWay' /\ SameRead /\ reg' = reg /\ inFlight' = inFlight
  BY <1>2, ScanFrame
<1>4. KeyActive(k)'
  <2>1. Reported(k, row[k].incarnation, now)'
    <3>1. PICK t \in Int : t = now
      BY <1>1
    <3>2. Reported(k, row[k].incarnation, t)'
      BY <1>2, <3>1, ScanReported
    <3> QED BY <1>2, <3>1, <3>2 DEF Reported
  <2>2. heard'[k] = Max2(heard[k], now) /\ row'[k] = row[k]
    BY <1>1, <1>2
  <2>3. PICK t \in Int : t = now /\ Reported(k, row[k].incarnation, t)'
    BY <1>1, <1>2, <2>1 DEF Reported
  <2>4. KeyActive(k)
    BY DEF ActiveInv
  <2> QED BY <1>1, <1>2, <1>3, <2>2, <2>3, <2>4, ReportedKeyActive
<1>5. ASSUME NEW j \in LocalKeys, j # k PROVE KeyActive(j)'
  <2>1. row'[j] = row[j] /\ heard'[j] = heard[j] /\ now <= now'
    BY <1>1, <1>2, <1>5
  <2> QED BY <1>3, <2>1, SameKeyActive DEF ActiveInv, LocalKeys
<1>6. RecoveryReads'
  BY <1>3 DEF ActiveInv, RecoveryReads, RecoveryUnderWay
<1> QED BY <1>4, <1>5, <1>6 DEF ActiveInv

\* The scan path.
LEMMA ScanActive ==
  ASSUME Truthful, Truthful', ActiveInv, Scan
  PROVE  ActiveInv'
<1>1. now \in Int
  BY DEF Truthful, StoreTypeOK
<1>2. CASE \E k \in LocalKeys : ScanReject(k)
  <2>1. PICK k \in LocalKeys : ScanReject(k)
    BY <1>2
  <2>2. /\ UNCHANGED <<channelVars, actorVars, heard, now>> /\ scanQ = <<>>
        /\ row' = [j \in Keys |-> IF j \in {k} THEN None ELSE row[j]]
    BY <2>1 DEF ScanReject, Delete
  <2>3. UnderWay \subseteq UnderWay' /\ SameRead /\ reg' = reg /\ inFlight' = inFlight
    BY <2>2, ScanFrame
  <2>4. ASSUME NEW j \in LocalKeys PROVE KeyActive(j)'
    <3>1. j \in Keys /\ KeyActive(j)
      BY DEF LocalKeys, ActiveInv
    <3>2. CASE j = k
      BY <2>2, <3>1, <3>2 DEF KeyActive
    <3>3. CASE j # k
      <4>1. row'[j] = row[j] /\ heard'[j] = heard[j] /\ now <= now'
        BY <1>1, <2>2, <3>1, <3>3
      <4> QED BY <2>3, <3>1, <4>1, SameKeyActive
    <3> QED BY <3>2, <3>3
  <2>5. RecoveryReads'
    BY <2>3 DEF ActiveInv, RecoveryReads, RecoveryUnderWay
  <2> QED BY <2>4, <2>5 DEF ActiveInv
<1>3. CASE \E a \in Agents : ScanAnonymous(a) \/ PassStart(a) \/ \E s \in BOOLEAN : PassEnd(a, s)
  <2>1. /\ UNCHANGED <<channelVars, actorVars, row, heard, now>>
        /\ scanQ = <<>> \/ scanQ' = scanQ
    BY <1>3 DEF ScanAnonymous, PassStart, PassEnd, storeVars, historyVars
  <2>2. UnderWay \subseteq UnderWay' /\ SameRead /\ reg' = reg
    BY <2>1, ScanFrame
  <2> QED BY <1>1, <2>1, <2>2, SameActive
<1> QED BY <1>2, <1>3, ScanTouchActive, ScanUpsertActive DEF Scan

\* More places than things to put there: one is put twice.
LEMMA Pigeons ==
  ASSUME NEW n \in Nat, NEW T, IsFiniteSet(T), Cardinality(T) < n, NEW p \in [1..n -> T]
  PROVE  \E x, y \in 1..n : x # y /\ p[x] = p[y]
<1>1. /\ IsFiniteSet(1..n)
      /\ Cardinality(1..n) = IF 1 > n THEN 0 ELSE n - 1 + 1
  BY FS_Interval
<1>2. Cardinality(1..n) = n
  BY <1>1
<1>3. Cardinality(T) < Cardinality(1..n)
  BY <1>2, Zenon
<1> QED BY <1>1, <1>3, FS_PigeonHole, Zenon

\* sessions_active_since_page(): a row that the page should hold is in it, or the page
\* is full and the row comes after its last one.
LEMMA ActivePagesComplete ==
  ASSUME Truthful, NEW recovery, NEW active \in ActivePages(recovery), NEW k \in Keys,
         row[k] # None, row[k].epoch >= recovery.since, AfterCursor(k, recovery.cursor)
  PROVE  \/ Listed(k, active)
         \/ Len(active) >= PageSize /\ AfterCursor(k, LastRow(active))
<1> DEFINE S == {j \in Stored : row[j].epoch >= recovery.since /\ AfterCursor(j, recovery.cursor)}
           size == IF Cardinality(S) < PageSize THEN Cardinality(S) ELSE PageSize
<1>1. PICK p \in [1..size -> S] :
        /\ \A m, n \in 1..size : m < n => Precedes(p[m], p[n])
        /\ \A n \in 1..size, j \in S : Precedes(j, p[n]) => \E m \in 1..size : p[m] = j
        /\ active = [n \in 1..size |-> [key |-> p[n], incarnation |-> row[p[n]].incarnation,
                                        epoch |-> row[p[n]].epoch]]
  BY DEF ActivePages
<1>2. k \in S /\ S \subseteq Keys /\ \A j \in S : row[j] # None
  BY DEF Stored
<1>3. IsFiniteSet(S) /\ Cardinality(S) \in Nat
  BY <1>2, KeysAssumption, FS_Subset, FS_CardinalityType
<1>4. /\ size \in Nat /\ PageSize \in Nat /\ PageSize > 0
      /\ Cardinality(S) < PageSize => size = Cardinality(S)
      /\ ~(Cardinality(S) < PageSize) => size = PageSize
  BY <1>3, CapAssumption
<1> HIDE DEF S, size
<1>5. \A j \in S : row[j].epoch \in Int /\ j \in Int
  BY <1>2, KeysAssumption DEF Truthful, StoreTypeOK, Presence, Time
<1>6. DOMAIN active = 1..size /\ Len(active) = size
  BY <1>1, <1>4
<1>7. CASE \E n \in 1..size : p[n] = k
  <2>1. PICK n \in 1..size : p[n] = k
    BY <1>7
  <2>2. active[n].key = k /\ active[n].incarnation = row[k].incarnation
        /\ active[n].epoch = row[k].epoch
    BY <1>1, <2>1
  <2>3. active[n].epoch >= row[k].epoch
    BY <1>2, <1>5, <2>2
  <2> QED BY <1>6, <2>2, <2>3 DEF Listed
<1>8. CASE \A n \in 1..size : p[n] # k
  <2>1. ASSUME NEW n \in 1..size PROVE Precedes(p[n], k)
    <3>1. ~Precedes(k, p[n])
      BY <1>1, <1>2, <1>8
    <3>2. p[n] \in S /\ p[n] # k
      BY <1>1, <1>8
    <3> QED BY <1>2, <1>5, <3>1, <3>2 DEF Precedes
  <2>2. ~(Cardinality(S) < PageSize)
    <3> SUFFICES ASSUME size = Cardinality(S) PROVE FALSE
      BY <1>4
    <3> DEFINE T == S \ {k}
    <3>1. IsFiniteSet(T) /\ Cardinality(T) = Cardinality(S) - 1
      BY <1>2, <1>3, FS_RemoveElement
    <3>2. p \in [1..size -> T] /\ size \in Nat
      BY <1>1, <1>4, <1>8
    <3>3. Cardinality(T) < size
      BY <1>3, <1>4, <3>1
    <3> HIDE DEF T
    <3>4. PICK x, y \in 1..size : x # y /\ p[x] = p[y]
      <4>1. \A n \in Nat : \A f \in [1..n -> T] :
              Cardinality(T) < n => \E x, y \in 1..n : x # y /\ f[x] = f[y]
        BY <3>1, Pigeons, Zenon
      <4> QED BY <3>2, <3>3, <4>1, Zenon
    <3>5. \A n \in 1..size : ~Precedes(p[n], p[n])
      <4>1. \A n \in 1..size : p[n] \in S
        BY <1>1
      <4> QED BY <1>5, <4>1 DEF Precedes
    <3>6. x \in Int /\ y \in Int
      OBVIOUS
    <3> QED BY <1>1, <3>4, <3>5, <3>6
  <2>3. size = PageSize /\ size \in 1..size
    BY <1>4, <2>2
  <2>4. Precedes(p[size], k) /\ p[size] \in S
    BY <1>1, <2>1, <2>3
  <2>5. active[size].epoch = row[p[size]].epoch /\ active[size].key = p[size]
    BY <1>1, <2>3
  <2>6. LastRow(active).epoch = row[p[size]].epoch /\ LastRow(active).key = p[size]
    BY <1>6, <2>5 DEF LastRow
  <2>7. AfterCursor(k, LastRow(active))
    BY <1>2, <1>5, <2>4, <2>6 DEF AfterCursor, Precedes
  <2> QED BY <1>4, <1>6, <2>3, <2>7
<1> QED BY <1>7, <1>8

\* A presence read, and the read of a recovery page.
LEMMA ReadActive ==
  ASSUME Truthful, Truthful', ActiveInv, ReadPage
  PROVE  ActiveInv'
<1> DEFINE rows == [k \in Keys |-> IF k \in inFlight.request.keys THEN row[k] ELSE None]
<1>1. PICK active \in IF inFlight.request.class = "recovery"
                      THEN ActivePages(reg.recovery) ELSE {<<>>} :
        inFlight' = [inFlight EXCEPT !.status = "ok", !.revision = rev, !.rows = rows,
                                     !.active = active]
  BY Zenon DEF ReadPage
<1>2. /\ inFlight # None /\ inFlight.status = "reading"
      /\ UNCHANGED <<row, heard, now, reg>>
  BY DEF ReadPage, storeVars, historyVars
<1>3. inFlight \in PageOutcome
  BY <1>2, ControlTypes
<1> HIDE DEF rows
<1>4. /\ inFlight'.status = "ok" /\ inFlight'.request = inFlight.request
      /\ inFlight'.active = active /\ inFlight' # None
  <2>1. /\ inFlight'.status = "ok" /\ inFlight'.request = inFlight.request
        /\ inFlight'.active = active
    BY <1>1, <1>3 DEF PageOutcome
  <2>2. inFlight' # None
    BY ReadPageResult, NoneIsNoPage
  <2> QED BY <2>1, <2>2
<1>5. UnderWay' = UnderWay
  BY SameUnderWay
<1>6. now \in Int
  BY DEF Truthful, StoreTypeOK
<1>7. RecoveryUnderWay' <=> RecoveryUnderWay
  BY <1>2, <1>4 DEF RecoveryUnderWay
<1>8. RecoveryReads'
  BY <1>2, <1>7 DEF ActiveInv, RecoveryReads
<1>9. ASSUME NEW k \in LocalKeys PROVE KeyActive(k)'
  <2>1. k \in Keys /\ KeyActive(k)
    BY DEF ActiveInv, LocalKeys
  <2>2. CASE row[k] = None
    BY <1>2, <2>2 DEF KeyActive
  <2>3. CASE row[k] # None
    <3>1. HoldsRecent(reg, reg', k, row[k].incarnation, now)
      BY <1>2, SameHolds, HoldsOnRecent
    <3>2. CarriesOn(k)
      BY <1>2, <1>5, <1>6, <3>1, HoldsCarries
    <3>3. RecoversOn(k)
      <4>1. CASE ~RecoveryUnderWay
        BY <1>2, <1>7, <4>1, SameRecovers DEF RecoveryRead
      <4>2. CASE RecoveryUnderWay
        <5> SUFFICES ASSUME Recovers(k) PROVE Recovers(k)'
          BY DEF RecoversOn
        <5>1. reg.recovery # None /\ reg.recovery.page = None /\ ~RecoveryRead
          BY <1>2, <4>2 DEF ActiveInv, RecoveryReads, RecoveryRead
        <5>2. row[k].epoch >= reg.recovery.since /\ AfterCursor(k, reg.recovery.cursor)
          BY <5>1 DEF Recovers
        <5>3. active \in ActivePages(reg.recovery)
          BY <4>2 DEF RecoveryUnderWay
        <5>4. \/ Listed(k, active)
              \/ Len(active) >= PageSize /\ AfterCursor(k, LastRow(active))
          BY <2>1, <2>3, <5>2, <5>3, ActivePagesComplete
        <5>5. RecoveryRead'
          BY <1>4, <1>7, <4>2 DEF RecoveryRead
        <5>6. /\ \A l : Listed(k, l) => Listed(k, l)'
              /\ \A c : AfterCursor(k, c) => AfterCursor(k, c)'
          BY <1>2 DEF Listed, AfterCursor
        <5>7. Listed(k, active)' \/ (Len(active) >= PageSize /\ AfterCursor(k, LastRow(active))')
          BY <5>4, <5>6
        <5> QED BY <1>2, <1>4, <5>1, <5>2, <5>5, <5>7 DEF Recovers
      <4> QED BY <4>1, <4>2
    <3> QED BY <1>2, <1>6, <2>1, <3>2, <3>3, KeepActive
  <2> QED BY <2>2, <2>3
<1> QED BY <1>8, <1>9, Zenon DEF ActiveInv

\* A step of the registry that keeps the recent activity of the stored incarnations.
LEMMA HoldsActive ==
  ASSUME Truthful, Truthful', ActiveInv, UNCHANGED <<row, heard, now>>, roundNow <= now,
         UnderWay \subseteq UnderWay', RecoveryReads', RecoveryRead' <=> RecoveryRead,
         RecoveryRead => inFlight'.active = inFlight.active, reg'.recovery = reg.recovery,
         \A k \in LocalKeys : row[k] # None =>
            HoldsRecent(reg, reg', k, row[k].incarnation, roundNow)
  PROVE  ActiveInv'
<1>1. now \in Int /\ roundNow \in Int
  BY ControlTypes DEF Truthful, StoreTypeOK
<1>2. ASSUME NEW k \in LocalKeys PROVE KeyActive(k)'
  <2>1. k \in Keys /\ KeyActive(k)
    BY DEF ActiveInv, LocalKeys
  <2>2. CASE row[k] = None
    BY <2>2 DEF KeyActive
  <2>3. CASE row[k] # None
    <3>1. CarriesOn(k)
      BY <1>1, <2>3, HoldsCarries
    <3>2. RecoversOn(k)
      BY SameRecovers
    <3> QED BY <1>1, <2>1, <3>1, <3>2, KeepActive
  <2> QED BY <2>2, <2>3
<1> QED BY <1>2 DEF ActiveInv

\* A session is expired when its activity is out of the window.
LEMMA ExpireActive ==
  ASSUME Truthful, Truthful', ActiveInv, roundNow <= now, Expire
  PROVE  ActiveInv'
<1>1. UnderWay' = UnderWay
  BY SameUnderWay
<1>2. reg \in Registry /\ roundNow \in Int
  BY ControlTypes
<1>3. PICK d \in Due(reg, roundNow) : reg' = ExpireOne(reg, d, roundNow)
  BY DEF Expire
<1>4. d \in reg.deadlines
  BY DEF Due
<1>5. UNCHANGED <<row, heard, now, inFlight>>
  BY DEF Expire, storeVars, historyVars
<1>6. reg'.recovery = reg.recovery
  BY <1>2, <1>3, <1>4, ExpireOneRecovery
<1>7. \A k \in Keys : \A i : HoldsRecent(reg, reg', k, i, roundNow)
  BY <1>2, <1>3, <1>4, ExpireOneHolds
<1>8. RecoveryReads' /\ (RecoveryRead' <=> RecoveryRead)
  BY <1>5, <1>6 DEF ActiveInv, RecoveryReads, RecoveryRead, RecoveryUnderWay
<1> QED BY <1>1, <1>5, <1>6, <1>7, <1>8, HoldsActive DEF LocalKeys

\* A spilled removal.
LEMMA SpillRemovalActive ==
  ASSUME Truthful, Truthful', ActiveInv, roundNow <= now, SpillRemoval
  PROVE  ActiveInv'
<1>1. UnderWay' = UnderWay
  BY SameUnderWay
<1>2. PICK c \in TakenKeys :
        reg' = Remove(reg, c, taken.removed[c].incarnation, taken.removed[c].absent_at)
  BY DEF SpillRemoval
<1> DEFINE j == taken.removed[c].incarnation
           q == taken.removed[c].absent_at
<1>3. /\ c \in Keys /\ Gone(existed, rev, c, j, q)
      /\ RegistryInv(reg, existed, rev) /\ History(existed, rev) /\ reg \in Registry
  BY TruthfulParts, ControlTypes DEF TakenKeys, TrueSpill
<1> HIDE DEF j, q
<1>4. j \in Incarnation /\ q \in Revision
  BY <1>3 DEF Gone, Revision
<1>5. reg' = Remove(reg, c, j, q)
  BY <1>2 DEF j, q
<1>6. OneKey(reg, reg', c)
  BY <1>3, <1>4, <1>5, RemoveOneKey
<1>7. UNCHANGED <<row, heard, now, inFlight>>
  BY DEF SpillRemoval, storeVars, historyVars
<1>8. RecoveryReads' /\ (RecoveryRead' <=> RecoveryRead)
  BY <1>6, <1>7 DEF ActiveInv, RecoveryReads, RecoveryRead, RecoveryUnderWay, OneKey
<1>9. ASSUME NEW k \in Keys, row[k] # None
      PROVE  HoldsRecent(reg, reg', k, row[k].incarnation, roundNow)
  <2>1. CASE k = c
    <3>1. <<k, row[k].incarnation, rev>> \in existed
      BY <1>9, ActiveTypes
    <3>2. PICK i : i = row[k].incarnation
      OBVIOUS
    <3>3. HoldsOn(reg, reg', k, i)
      BY <1>3, <1>5, <2>1, <3>1, <3>2, RemoveHolds
    <3> QED BY <3>2, <3>3, HoldsOnRecent
  <2>2. CASE k # c
    BY <1>6, <2>2, SameHolds, HoldsOnRecent DEF OneKey
  <2> QED BY <2>1, <2>2
<1>10. reg'.recovery = reg.recovery
  BY <1>6 DEF OneKey
<1> QED BY <1>1, <1>7, <1>8, <1>9, <1>10, HoldsActive DEF LocalKeys

\* A row of a presence page.
LEMMA PageRowActive ==
  ASSUME Truthful, Truthful', CapInv, ActiveInv, roundNow <= now, PageRow
  PROVE  ActiveInv'
<1>1. UnderWay' = UnderWay
  BY SameUnderWay
<1>2. /\ reg \in Registry /\ roundNow \in Int
      /\ RegistryInv(reg, existed, rev) /\ History(existed, rev) /\ Capped(reg)
  BY ControlTypes, TruthfulParts DEF CapInv
<1>3. PICK c \in Keys :
           LET s == ApplyRow(reg, c, page.rows, page.revision, roundNow) IN
           /\ c \in page.rest /\ page.rows[c] \in Presence \cup {None}
           /\ page.revision \in Revision /\ page.revision <= rev
           /\ IF page.rows[c] = None THEN \A x \in existed : x[1] = c => x[3] # page.revision
              ELSE <<c, page.rows[c].incarnation, page.revision>> \in existed
           /\ RegistryInv(s, existed, rev) /\ OneKey(reg, s, c)
           /\ reg' = s \/ reg' = AdvanceWalk(s, c)
  BY PageRowEffect
<1>4. PICK s : s = ApplyRow(reg, c, page.rows, page.revision, roundNow)
  OBVIOUS
<1>5. /\ page.rows[c] \in Presence \cup {None}
      /\ page.revision \in Revision /\ page.revision <= rev
      /\ IF page.rows[c] = None THEN \A x \in existed : x[1] = c => x[3] # page.revision
         ELSE <<c, page.rows[c].incarnation, page.revision>> \in existed
      /\ RegistryInv(s, existed, rev) /\ OneKey(reg, s, c)
      /\ reg' = s \/ reg' = AdvanceWalk(s, c)
  BY <1>3, <1>4
<1>6. reg'.live = s.live /\ reg'.pending = s.pending /\ reg'.recovery = s.recovery
  <2>1. s \in Registry
    BY <1>5 DEF RegistryInv
  <2> QED BY <1>5, <2>1, OtherFields
<1>7. reg'.recovery = reg.recovery
  BY <1>5, <1>6 DEF OneKey
<1>8. UNCHANGED <<row, heard, now, inFlight>>
  BY DEF PageRow, storeVars, historyVars
<1>9. RecoveryReads' /\ (RecoveryRead' <=> RecoveryRead)
  BY <1>7, <1>8 DEF ActiveInv, RecoveryReads, RecoveryRead, RecoveryUnderWay
<1>10. ASSUME NEW k \in LocalKeys, row[k] # None
       PROVE  HoldsRecent(reg, reg', k, row[k].incarnation, roundNow)
  <2>1. k \in Keys \ RemoteKeys
    BY DEF LocalKeys
  <2>2. HoldsRecent(reg, s, k, row[k].incarnation, roundNow)
    <3>1. CASE k = c
      <4>1. <<k, row[k].incarnation, rev>> \in existed
        BY <1>10, <2>1, ActiveTypes
      <4>2. PICK i : i = row[k].incarnation
        OBVIOUS
      <4>3. HoldsRecent(reg, s, k, i, roundNow)
        BY <1>2, <1>4, <1>5, <2>1, <3>1, <4>1, <4>2, ApplyRowHolds
      <4> QED BY <4>2, <4>3
    <3>2. CASE k # c
      BY <1>5, <2>1, <3>2, SameHolds, HoldsOnRecent DEF OneKey
    <3> QED BY <3>1, <3>2
  <2> QED BY <1>6, <2>2 DEF HoldsRecent, Holds
<1> QED BY <1>1, <1>7, <1>8, <1>9, <1>10, HoldsActive

\* A recovery page that arrives is held: what it recovers is what was read.
LEMMA RecoveryPageArrivesActive ==
  ASSUME Truthful, Truthful', ActiveInv, RecoveryPageArrives
  PROVE  ActiveInv'
<1>1. UnderWay' = UnderWay
  BY SameUnderWay
<1>2. /\ inFlight # None /\ inFlight.status = "ok" /\ inFlight.request.class = "recovery"
      /\ reg' = HoldRecoveryPage(reg, inFlight.active, inFlight.revision) /\ inFlight' = None
      /\ UNCHANGED <<row, heard, now>>
  BY DEF RecoveryPageArrives, storeVars, historyVars
<1>3. /\ inFlight.active \in Seq(ActiveRow) /\ inFlight.revision \in Revision
      /\ reg \in Registry /\ now \in Int
  <2>1. inFlight \in PageOutcome
    BY <1>2, ControlTypes
  <2> QED BY <2>1, ControlTypes DEF PageOutcome, Truthful, StoreTypeOK
<1>4. RecoveryUnderWay /\ RecoveryRead /\ reg.recovery # None /\ reg.recovery.page = None
  BY <1>2 DEF ActiveInv, RecoveryReads, RecoveryUnderWay, RecoveryRead
<1>5. PICK rows \in Seq(ActiveRow) : rows = inFlight.active
  BY <1>3
<1>6. PageHeld(reg, reg', rows) /\ reg'.live = reg.live /\ reg'.pending = reg.pending
  BY <1>2, <1>3, <1>4, <1>5, HoldRecoveryPageHolds, HoldRecoveryPageRows
<1>7. RecoveryReads'
  BY <1>2 DEF RecoveryReads, RecoveryUnderWay
<1>8. ASSUME NEW k \in LocalKeys PROVE KeyActive(k)'
  <2>1. k \in Keys /\ KeyActive(k)
    BY DEF ActiveInv, LocalKeys
  <2>2. HoldsRecent(reg, reg', k, row[k].incarnation, now)
    BY <1>6, SameHolds, HoldsOnRecent
  <2>3. CarriesOn(k)
    BY <1>1, <1>2, <1>3, <2>2, HoldsCarries
  <2>4. RecoversOn(k)
    <3> SUFFICES ASSUME Recovers(k) PROVE Recovers(k)'
      BY DEF RecoversOn
    <3>1. /\ row[k].epoch >= reg.recovery.since
          /\ \/ Listed(k, rows)
             \/ Len(rows) >= PageSize /\ AfterCursor(k, LastRow(rows))
      BY <1>4, <1>5 DEF Recovers
    <3>2. /\ Listed(k, rows) => Listed(k, rows)'
          /\ AfterCursor(k, LastRow(rows)) => AfterCursor(k, LastRow(rows))'
      BY <1>2 DEF Listed, AfterCursor
    <3>3. reg'.recovery # None /\ row'[k].epoch >= reg'.recovery.since
      BY <1>2, <1>6, <3>1 DEF PageHeld
    <3>4. CASE Listed(k, rows)
      <4>1. Listed(k, reg.recovery.page.rows)'
        BY <1>6, <3>2, <3>4 DEF PageHeld
      <4> QED BY <1>6, <3>3, <4>1 DEF Recovers, PageHeld
    <3>5. CASE Len(rows) >= PageSize /\ AfterCursor(k, LastRow(rows))
      <4>1. rows # <<>>
        BY <3>5, CapAssumption
      <4>2. reg'.recovery.page.cursor = LastRow(rows) /\ ~reg'.recovery.page.exhausted
        BY <1>6, <3>5, <4>1 DEF PageHeld
      <4>3. AfterCursor(k, reg.recovery.page.cursor)'
        BY <3>2, <3>5, <4>2
      <4> QED BY <1>6, <3>3, <4>2, <4>3 DEF Recovers, PageHeld
    <3> QED BY <3>1, <3>4, <3>5
  <2> QED BY <1>2, <1>3, <2>1, <2>3, <2>4, KeepActive
<1> QED BY <1>7, <1>8 DEF ActiveInv

\* A recovery page that is applied: the rows it did not bring are behind its cursor.
LEMMA RecoveryPageEndsActive ==
  ASSUME Truthful, Truthful', ActiveInv, RecoveryPageEnds
  PROVE  ActiveInv'
<1>1. UnderWay' = UnderWay
  BY SameUnderWay
<1>2. /\ reg.recovery # None /\ reg.recovery.page # None /\ reg.recovery.page.rows = <<>>
      /\ reg' = FinishRecoveryPage(reg)
      /\ UNCHANGED <<row, heard, now, inFlight>>
  BY DEF RecoveryPageEnds, storeVars, historyVars, Truthful, ReadInv
<1>3. reg \in Registry /\ now \in Int
  BY ControlTypes DEF Truthful, StoreTypeOK
<1>4. reg'.live = reg.live /\ reg'.pending = reg.pending
  BY <1>2, <1>3, FinishRecoveryPageRows
<1>5. ~RecoveryUnderWay /\ ~RecoveryUnderWay'
  BY <1>2 DEF ActiveInv, RecoveryReads, RecoveryUnderWay
<1>6. ASSUME NEW k \in LocalKeys PROVE KeyActive(k)'
  <2>1. k \in Keys /\ KeyActive(k)
    BY DEF ActiveInv, LocalKeys
  <2>2. HoldsRecent(reg, reg', k, row[k].incarnation, now)
    BY <1>4, SameHolds, HoldsOnRecent
  <2>3. CarriesOn(k)
    BY <1>1, <1>2, <1>3, <2>2, HoldsCarries
  <2>4. RecoversOn(k)
    <3> SUFFICES ASSUME Recovers(k) PROVE Recovers(k)'
      BY DEF RecoversOn
    <3>1. ~Listed(k, reg.recovery.page.rows)
      <4>1. DOMAIN reg.recovery.page.rows = {}
        BY <1>2
      <4> QED BY <4>1 DEF Listed
    <3>2. /\ row[k].epoch >= reg.recovery.since
          /\ ~reg.recovery.page.exhausted /\ AfterCursor(k, reg.recovery.page.cursor)
      BY <1>2, <3>1 DEF Recovers
    <3>3. /\ reg'.recovery # None /\ reg'.recovery.since = reg.recovery.since
          /\ reg'.recovery.page = None /\ reg'.recovery.cursor = reg.recovery.page.cursor
      BY <1>2, <1>3, <3>2, FinishRecoveryPageHolds
    <3>4. PICK c : c = reg.recovery.page.cursor
      OBVIOUS
    <3>5. AfterCursor(k, c) /\ AfterCursor(k, c)'
      BY <1>2, <3>2, <3>4 DEF AfterCursor
    <3>6. AfterCursor(k, reg.recovery.cursor)'
      BY <3>3, <3>4, <3>5
    <3> QED BY <1>2, <1>5, <3>2, <3>3, <3>6 DEF Recovers, RecoveryRead
  <2> QED BY <1>2, <1>3, <2>1, <2>3, <2>4, KeepActive
<1> QED BY <1>5, <1>6 DEF ActiveInv, RecoveryReads

\* A listed row is the head of the list or in the rest of it.
LEMMA ListedTail ==
  ASSUME NEW rows \in Seq(ActiveRow), rows # <<>>, NEW k, Listed(k, rows)
  PROVE  \/ /\ Head(rows).key = k /\ Head(rows).incarnation = row[k].incarnation
            /\ Head(rows).epoch >= row[k].epoch
         \/ Listed(k, Tail(rows))
<1>1. PICK n \in DOMAIN rows : /\ rows[n].key = k /\ rows[n].incarnation = row[k].incarnation
                               /\ rows[n].epoch >= row[k].epoch
  BY DEF Listed
<1>2. /\ n \in 1..Len(rows) /\ Len(rows) \in Nat /\ DOMAIN Tail(rows) = 1..(Len(rows) - 1)
      /\ Head(rows) = rows[1]
      /\ \A m \in 1..(Len(rows) - 1) : Tail(rows)[m] = rows[m + 1]
  BY <1>1
<1>3. CASE n = 1
  BY <1>1, <1>2, <1>3
<1>4. CASE n # 1
  <2>1. n - 1 \in 1..(Len(rows) - 1) /\ (n - 1) + 1 = n
    BY <1>2, <1>4
  <2>2. n - 1 \in DOMAIN Tail(rows) /\ Tail(rows)[n - 1] = rows[n]
    BY <1>2, <2>1
  <2> QED BY <1>1, <2>2 DEF Listed
<1> QED BY <1>3, <1>4

\* A recovered row: the session is live or waits, or the row stays in front.
LEMMA RecoveryRowActive ==
  ASSUME Truthful, Truthful', CapInv, ActiveInv, roundNow <= now, RecoveryRow
  PROVE  ActiveInv'
<1>1. UnderWay' = UnderWay
  BY SameUnderWay
<1>2. /\ reg \in Registry /\ reg' \in Registry /\ roundNow \in Int /\ now \in Int
      /\ RegistryInv(reg, existed, rev) /\ History(existed, rev) /\ Capped(reg)
  BY ControlTypes, TruthfulParts DEF CapInv, Truthful, ActorTypeOK, StoreTypeOK
<1>3. PICK held, x, t : Recovered(held, x, t)
  BY RecoveryRowEffect
<1>4. /\ reg.recovery # None /\ held = reg.recovery.page /\ held # None
      /\ held.rows \in Seq(ActiveRow) /\ held.rows # <<>> /\ x = Head(held.rows)
      /\ x.incarnation \in Incarnation /\ x.epoch \in Time /\ held.revision \in Revision
      /\ <<x.key, x.incarnation, held.revision>> \in existed
  BY <1>3, Zenon DEF Recovered
<1>5. /\ t = ApplyPresentRow(reg, x.key, x, held.revision, roundNow)
      /\ t.reg \in Registry /\ OneKey(reg, t.reg, x.key)
  BY <1>3, Zenon DEF Recovered
<1>6. /\ reg'.live = t.reg.live /\ reg'.pending = t.reg.pending
      /\ t.touch = "blocked" => reg'.recovery = reg.recovery
      /\ t.touch # "blocked" => HeadTaken(reg, reg')
  BY <1>3, Zenon DEF Recovered
<1>7. UNCHANGED <<row, heard, now, inFlight>>
  BY DEF RecoveryRow, storeVars, historyVars
<1>8. ~RecoveryUnderWay /\ ~RecoveryUnderWay'
  BY <1>4, <1>7 DEF ActiveInv, RecoveryReads, RecoveryUnderWay
<1>9. ASSUME NEW k \in LocalKeys, row[k] # None PROVE KeyActive(k)'
  <2>1. k \in Keys /\ KeyActive(k) /\ k \in Keys \ RemoteKeys
    BY DEF ActiveInv, LocalKeys
  <2>2. PICK i : i = row[k].incarnation
    OBVIOUS
  <2>3. <<k, i, rev>> \in existed /\ row[k].epoch \in Int
    BY <1>9, <2>1, <2>2, ActiveTypes
  <2>4. k = x.key =>
          /\ HoldsRecent(reg, t.reg, k, i, roundNow)
          /\ x.incarnation = i /\ ~OutOfWindow(x.epoch, roundNow) /\ t.touch # "blocked" =>
                Holds(t.reg, k, i, x.epoch)
    <3> SUFFICES ASSUME k = x.key
                 PROVE  /\ HoldsRecent(reg, t.reg, k, i, roundNow)
                        /\ x.incarnation = i /\ ~OutOfWindow(x.epoch, roundNow)
                              /\ t.touch # "blocked" => Holds(t.reg, k, i, x.epoch)
      BY Zenon
    <3>1. /\ <<k, x.incarnation, held.revision>> \in existed
          /\ t = ApplyPresentRow(reg, k, x, held.revision, roundNow)
      BY <1>4, <1>5
    <3>2. /\ x.incarnation \in Incarnation /\ x.epoch \in Time /\ held.revision \in Revision
      BY <1>4
    <3> QED BY <1>2, <2>1, <2>3, <3>1, <3>2, ApplyPresentRowHolds
  <2>5. HoldsRecent(reg, reg', k, row[k].incarnation, roundNow)
    <3>1. HoldsRecent(reg, t.reg, k, i, roundNow)
      <4>1. CASE k # x.key
        BY <1>5, <2>1, <4>1, SameHolds, HoldsOnRecent DEF OneKey
      <4> QED BY <2>4, <4>1
    <3> QED BY <1>6, <2>2, <3>1 DEF HoldsRecent, Holds
  <2>6. CarriesOn(k)
    BY <1>1, <1>2, <1>7, <2>5, HoldsCarries
  <2>7. RecoversOn(k)
    <3>1. CASE t.touch = "blocked"
      BY <1>6, <1>7, <1>8, <3>1, SameRecovers DEF RecoveryRead
    <3>2. CASE t.touch # "blocked"
      <4> SUFFICES ASSUME now - row[k].epoch < ActiveWindow, Recovers(k)
                   PROVE  Recovers(k)' \/ Carried(k, row[k].epoch)'
        BY DEF RecoversOn
      <4>1. HeadTaken(reg, reg')
        BY <1>6, <3>2
      <4>2. /\ row[k].epoch >= reg.recovery.since
            /\ \/ Listed(k, held.rows)
               \/ ~held.exhausted /\ AfterCursor(k, held.cursor)
        BY <1>4 DEF Recovers
      <4>3. /\ reg'.recovery # None /\ reg'.recovery.page # None
            /\ row'[k].epoch >= reg'.recovery.since
        BY <1>7, <4>1, <4>2 DEF HeadTaken
      <4>4. CASE Listed(k, Tail(held.rows))
        <5>1. PICK rows : rows = Tail(held.rows)
          OBVIOUS
        <5>2. Listed(k, rows) /\ Listed(k, rows)'
          BY <1>7, <4>4, <5>1 DEF Listed
        <5>3. reg'.recovery.page.rows = rows
          BY <1>4, <4>1, <5>1 DEF HeadTaken
        <5>4. Listed(k, reg.recovery.page.rows)'
          BY <5>2, <5>3
        <5> QED BY <4>3, <5>4 DEF Recovers
      <4>5. CASE ~held.exhausted /\ AfterCursor(k, held.cursor)
        <5>1. PICK c : c = held.cursor
          OBVIOUS
        <5>2. AfterCursor(k, c) /\ AfterCursor(k, c)'
          BY <1>7, <4>5, <5>1 DEF AfterCursor
        <5>3. reg'.recovery.page.cursor = c /\ ~reg'.recovery.page.exhausted
          BY <1>4, <4>1, <4>5, <5>1 DEF HeadTaken
        <5>4. AfterCursor(k, reg.recovery.page.cursor)'
          BY <5>2, <5>3
        <5> QED BY <4>3, <5>3, <5>4 DEF Recovers
      <4>6. CASE x.key = k /\ x.incarnation = row[k].incarnation /\ x.epoch >= row[k].epoch
        <5>1. x.epoch \in Int
          BY <1>4 DEF Time
        <5>2. ~OutOfWindow(x.epoch, roundNow)
          BY <1>2, <2>3, <4>6, <5>1, WindowAssumption DEF OutOfWindow
        <5>3. Holds(t.reg, k, i, x.epoch)
          BY <2>2, <2>4, <3>2, <4>6, <5>2
        <5>4. Holds(t.reg, k, i, row[k].epoch)
          BY <1>5, <2>1, <2>3, <4>6, <5>1, <5>3, HoldsEarlier
        <5>5. Holds(reg', k, row'[k].incarnation, row'[k].epoch)
          BY <1>6, <1>7, <2>2, <5>4 DEF Holds
        <5>6. Carried(k, row[k].epoch)'
          BY <5>5 DEF Carried
        <5> QED BY <5>6
      <4> QED BY <1>4, <4>2, <4>4, <4>5, <4>6, ListedTail
    <3> QED BY <3>1, <3>2
  <2> QED BY <1>2, <1>7, <2>1, <2>6, <2>7, KeepActive
<1>10. ASSUME NEW k \in LocalKeys, row[k] = None PROVE KeyActive(k)'
  BY <1>7, <1>10 DEF KeyActive
<1> QED BY <1>8, <1>9, <1>10 DEF ActiveInv, RecoveryReads

\* What a fact does to the sessions: an existence or a removal changes one key.
FactApplied(o, fact, t) ==
    \/ /\ o.type = "exists" /\ o.key \in Keys /\ TrueFact(existed, o.key, fact)
       /\ fact.incarnation = o.incarnation /\ fact.at = o.at
       /\ t = Observe(reg, o.key, fact, roundNow) /\ OneKey(reg, t.reg, o.key)
       /\ reg' = t.reg /\ blocked' = (t.touch = "blocked")
    \/ /\ o.type = "removed" /\ o.key \in Keys
       /\ Gone(existed, rev, o.key, o.incarnation, o.revision)
       /\ reg' = Remove(reg, o.key, o.incarnation, o.revision) /\ OneKey(reg, reg', o.key)
    \/ /\ o.type \notin {"exists", "removed"}
       /\ reg'.live = reg.live /\ reg'.pending = reg.pending /\ reg'.recovery = reg.recovery

\* Applying a fact is one of the three.
LEMMA ApplyFactEffect ==
  ASSUME Truthful, ApplyFact
  PROVE  \E fact, t : FactApplied(Head(carry), fact, t)
<1> DEFINE T == TrueObs(existed, rev)
           o == Head(carry)
           fact == [incarnation |-> o.incarnation, at |-> o.at, revision |-> o.revision]
           seen == Observe(reg, o.key, fact, roundNow)
           other == ObserveOther(reg, o)
           t == IF o.type = "exists" THEN seen ELSE Touched(other, "unchanged")
<1>1. reg' = t.reg /\ blocked' = (t.touch = "blocked")
  BY DEF ApplyFact
<1>2. o \in T
  BY ApplyFactUnderWay
<1> SUFFICES \E f, u : FactApplied(o, f, u)
  OBVIOUS
<1> HIDE DEF o
<1>3. /\ RegistryInv(reg, existed, rev) /\ History(existed, rev) /\ reg \in Registry
  BY TruthfulParts, ControlTypes
<1>4. CASE o.type = "exists"
  <2>1. o \in ExistsObs /\ <<o.key, o.incarnation, o.revision>> \in existed
    BY <1>2, <1>4 DEF T, TrueObs, Observation, SyncObservation, ExistsObs, RemovedObs, BroadObs,
                      RowObs, AnonymousObs, CoveredObs
  <2>2. o.key \in Keys /\ TrueFact(existed, o.key, fact)
    BY <2>1 DEF ExistsObs, TrueFact, Existence
  <2>3. t = seen
    BY <1>4
  <2>4. fact.incarnation = o.incarnation /\ fact.at = o.at
    OBVIOUS
  <2> HIDE DEF fact, t
  <2>5. OneKey(reg, seen.reg, o.key)
    BY <1>3, <2>2, ObserveOneKey
  <2>6. seen = Observe(reg, o.key, fact, roundNow)
    OBVIOUS
  <2> HIDE DEF seen
  <2>7. FactApplied(o, fact, seen)
    BY <1>1, <1>4, <2>2, <2>3, <2>4, <2>5, <2>6 DEF FactApplied
  <2> QED BY <2>7
<1>5. CASE o.type # "exists"
  <2>1. t.reg = other
    <3> HIDE DEF other, seen
    <3> QED BY <1>5 DEF Touched
  <2>2. reg' = other
    BY <1>1, <2>1
  <2> HIDE DEF t, other
  <2>3. CASE o.type = "removed"
    <3>1. o.key \in Keys /\ Gone(existed, rev, o.key, o.incarnation, o.revision)
      BY <1>2, <2>3 DEF T, TrueObs, Observation, SyncObservation, ExistsObs, RemovedObs, BroadObs,
                        RowObs, AnonymousObs, CoveredObs
    <3>2. reg' = Remove(reg, o.key, o.incarnation, o.revision)
      BY <2>2, <2>3, Zenon DEF other, ObserveOther
    <3>3. o.incarnation \in Incarnation /\ o.revision \in Revision
      BY <3>1 DEF Gone, Revision
    <3>4. OneKey(reg, reg', o.key)
      BY <1>3, <3>1, <3>2, <3>3, RemoveOneKey
    <3> QED BY <2>3, <3>1, <3>2, <3>4 DEF FactApplied
  <2>4. CASE o.type # "removed"
    <3>1. \/ reg' = Cover(reg, o.agent, o.through) \/ reg' = reg \/ reg' = Broad(reg, o.revision)
          \/ reg' = AnonymousTouch(reg, o.agent, o.at, o.generation, roundNow)
      <4>1. o.type \in {"broad", "anonymous", "covered", "rowChanged"}
        BY <1>2, <1>5, <2>4 DEF T, TrueObs, Observation, SyncObservation, ExistsObs, RemovedObs,
              BroadObs, RowObs, AnonymousObs, CoveredObs
      <4>2. o.type = "covered" => other = Cover(reg, o.agent, o.through)
        BY DEF other, ObserveOther
      <4>3. o.type = "anonymous" =>
               other = AnonymousTouch(reg, o.agent, o.at, o.generation, roundNow)
        BY DEF other, ObserveOther
      <4>4. o.type = "rowChanged" => other = reg
        BY DEF other, ObserveOther
      <4>5. o.type = "broad" => other = Broad(reg, o.revision)
        BY DEF other, ObserveOther
      <4> QED BY <2>2, <4>1, <4>2, <4>3, <4>4, <4>5
    <3>2. /\ reg'.live = reg.live /\ reg'.pending = reg.pending
          /\ reg'.recovery = reg.recovery
      BY <1>3, <3>1, OtherFields
    <3> QED BY <1>5, <2>4, <3>2 DEF FactApplied
  <2> QED BY <2>3, <2>4
<1> QED BY <1>4, <1>5

\* A fact about the stored incarnation of k is taken, unless the full pending set
\* keeps it at the head of the carry; any other fact keeps what is held.
LEMMA ApplyFactTakes ==
  ASSUME Truthful, ApplyFact, NEW k \in LocalKeys, NEW i, <<k, i, rev>> \in existed,
         NEW o, o = Head(carry)
  PROVE  /\ HoldsOn(reg, reg', k, i)
         /\ o.type = "exists" /\ o.key = k /\ o.incarnation = i
               /\ ~OutOfWindow(o.at, roundNow) /\ ~blocked'
            => Holds(reg', k, i, o.at)
<1>1. /\ RegistryInv(reg, existed, rev) /\ History(existed, rev) /\ reg \in Registry
      /\ k \in Keys \ RemoteKeys
  BY TruthfulParts, ControlTypes DEF LocalKeys
<1>2. PICK fact, t : FactApplied(o, fact, t)
  BY ApplyFactEffect
<1>3. CASE o.type = "exists"
  <2>1. /\ TrueFact(existed, o.key, fact) /\ fact.incarnation = o.incarnation /\ fact.at = o.at
        /\ t = Observe(reg, o.key, fact, roundNow) /\ OneKey(reg, t.reg, o.key)
        /\ reg' = t.reg /\ blocked' = (t.touch = "blocked")
    BY <1>2, <1>3 DEF FactApplied
  <2>2. CASE o.key # k
    BY <1>1, <2>1, <2>2, SameHolds DEF OneKey
  <2>3. CASE o.key = k
    <3>1. TrueFact(existed, k, fact) /\ t = Observe(reg, k, fact, roundNow)
      BY <2>1, <2>3
    <3>2. /\ HoldsOn(reg, t.reg, k, i)
          /\ ~OutOfWindow(fact.at, roundNow) => Takes(reg, t, k, fact, i)
      BY <1>1, <3>1, ObserveTakes
    <3> QED BY <2>1, <3>2 DEF Takes
  <2> QED BY <2>2, <2>3
<1>4. CASE o.type = "removed"
  <2>1. /\ Gone(existed, rev, o.key, o.incarnation, o.revision) /\ OneKey(reg, reg', o.key)
        /\ reg' = Remove(reg, o.key, o.incarnation, o.revision)
    BY <1>2, <1>4 DEF FactApplied
  <2>2. CASE o.key # k
    BY <1>1, <1>4, <2>1, <2>2, SameHolds DEF OneKey
  <2>3. CASE o.key = k
    BY <1>1, <1>4, <2>1, <2>3, RemoveHolds
  <2> QED BY <2>2, <2>3
<1>5. CASE o.type \notin {"exists", "removed"}
  BY <1>2, <1>5, SameHolds DEF FactApplied
<1> QED BY <1>3, <1>4, <1>5

\* Applying a fact of the inbox.
LEMMA ApplyFactActive ==
  ASSUME Truthful, Truthful', ActiveInv, roundNow <= now, ApplyFact
  PROVE  ActiveInv'
<1>1. /\ UNCHANGED <<row, heard, now, inFlight>>
      /\ now \in Int /\ roundNow \in Int /\ reg' \in Registry
  BY ControlTypes DEF ApplyFact, storeVars, historyVars, Truthful, StoreTypeOK, ActorTypeOK
<1>2. PICK o : o = Head(carry)
  OBVIOUS
<1>3. /\ o \in TrueObs(existed, rev) /\ UnderWay \subseteq UnderWay' \cup {o}
      /\ blocked' => UnderWay' = UnderWay
  BY <1>2, ApplyFactUnderWay
<1>4. reg'.recovery = reg.recovery
  <2>1. PICK fact, t : FactApplied(o, fact, t)
    BY <1>2, ApplyFactEffect
  <2> QED BY <2>1 DEF FactApplied, OneKey
<1>5. ASSUME NEW k \in LocalKeys, row[k] # None
      PROVE  KeyActive(k)'
  <2>1. k \in Keys /\ KeyActive(k)
    BY DEF ActiveInv, LocalKeys
  <2>2. PICK i : i = row[k].incarnation
    OBVIOUS
  <2>3. <<k, i, rev>> \in existed
    BY <1>5, <2>1, <2>2, ActiveTypes
  <2>4. /\ HoldsOn(reg, reg', k, i)
        /\ o.type = "exists" /\ o.key = k /\ o.incarnation = i
              /\ ~OutOfWindow(o.at, roundNow) /\ ~blocked'
           => Holds(reg', k, i, o.at)
    BY <1>2, <2>3, ApplyFactTakes
  <2>5. CarriesOn(k)
    <3> SUFFICES ASSUME NEW t \in Int, now - t < ActiveWindow, Carried(k, t)
                 PROVE  Carried(k, t)'
      BY DEF CarriesOn
    <3>1. CASE Holds(reg, k, i, t)
      <4>1. Holds(reg', k, row'[k].incarnation, t)
        BY <1>1, <2>2, <2>4, <3>1 DEF HoldsOn
      <4> QED BY <4>1 DEF Carried
    <3>2. CASE Reported(k, i, t)
      <4>1. PICK x \in UnderWay : /\ x.type = "exists" /\ x.key = k /\ x.incarnation = i
                                  /\ x.at >= t
        BY <3>2 DEF Reported
      <4>2. CASE x \in UnderWay'
        <5>1. Reported(k, row[k].incarnation, t)'
          BY <1>1, <2>2, <4>1, <4>2 DEF Reported
        <5> QED BY <5>1 DEF Carried
      <4>3. CASE x \notin UnderWay'
        <5>1. x = o /\ ~blocked'
          BY <1>3, <4>3
        <5>2. o.at \in Int
          BY <1>3, <4>1, <5>1 DEF TrueObs, Observation, SyncObservation, ExistsObs, RemovedObs,
                                  BroadObs, RowObs, AnonymousObs, CoveredObs, Time
        <5>3. ~OutOfWindow(o.at, roundNow)
          BY <1>1, <4>1, <5>1, <5>2, WindowAssumption DEF OutOfWindow
        <5>4. Holds(reg', k, i, o.at)
          BY <2>4, <4>1, <5>1, <5>3
        <5>5. Holds(reg', k, i, t)
          BY <1>1, <2>1, <4>1, <5>1, <5>2, <5>4, HoldsEarlier
        <5>6. Holds(reg', k, row'[k].incarnation, t)
          BY <1>1, <2>2, <5>5
        <5> QED BY <5>6 DEF Carried
      <4> QED BY <4>2, <4>3
    <3> QED BY <2>2, <3>1, <3>2 DEF Carried
  <2>6. RecoversOn(k)
    BY <1>1, <1>4, SameRecovers DEF RecoveryRead, RecoveryUnderWay
  <2> QED BY <1>1, <2>1, <2>4, <2>5, <2>6, KeepActive
<1>6. ASSUME NEW k \in LocalKeys, row[k] = None PROVE KeyActive(k)'
  BY <1>1, <1>6 DEF KeyActive
<1>7. RecoveryReads'
  BY <1>1, <1>4 DEF ActiveInv, RecoveryReads, RecoveryUnderWay
<1> QED BY <1>5, <1>6, <1>7 DEF ActiveInv

\* Issuing the next page read.
LEMMA IssueActive ==
  ASSUME Truthful, Truthful', ActiveInv, roundNow <= now, Issue
  PROVE  ActiveInv'
<1> DEFINE n == NextPage(reg, roundNow)
<1>1. UnderWay' = UnderWay
  BY SameUnderWay
<1>2. UNCHANGED <<row, heard, now>>
  BY DEF Issue, storeVars, historyVars
<1>3. \/ reg' = reg /\ inFlight' = inFlight
      \/ /\ inFlight = None /\ reg' = n.reg
         /\ inFlight' = IF n.request = None THEN None ELSE Reading(n.request)
  BY Zenon DEF Issue
<1>4. RegistryInv(reg, existed, rev) /\ roundNow \in Int
  BY TruthfulParts, ControlTypes
<1>5. /\ n.reg.recovery = reg.recovery
      /\ n.request # None /\ n.request.class = "recovery" =>
            reg.recovery # None /\ reg.recovery.page = None
      /\ \A k \in Keys : \A i : HoldsRecent(reg, n.reg, k, i, roundNow)
  BY <1>4, NextPageHolds, RequestIsNotNone
<1> HIDE DEF n
<1>6. CASE reg' = reg /\ inFlight' = inFlight
  <2>1. SameRead
    BY <1>6 DEF SameRead, RecoveryUnderWay, RecoveryRead
  <2>2. now \in Int
    BY DEF Truthful, StoreTypeOK
  <2> QED BY <1>1, <1>2, <1>6, <2>1, <2>2, SameActive
<1>7. CASE /\ inFlight = None /\ reg' = n.reg
           /\ inFlight' = IF n.request = None THEN None ELSE Reading(n.request)
  <2>1. inFlight' # None => /\ n.request # None /\ inFlight'.request = n.request
                            /\ inFlight'.status = "reading"
    BY <1>7 DEF Reading
  <2>2. ~RecoveryRead /\ ~RecoveryRead'
    BY <1>7, <2>1 DEF RecoveryRead, RecoveryUnderWay
  <2>3. reg'.recovery = reg.recovery
    BY <1>5, <1>7
  <2>4. RecoveryReads'
    BY <1>5, <2>1, <2>3 DEF RecoveryReads, RecoveryUnderWay
  <2>5. \A k \in Keys : \A i : HoldsRecent(reg, reg', k, i, roundNow)
    BY <1>5, <1>7
  <2> QED BY <1>1, <1>2, <2>2, <2>3, <2>4, <2>5, HoldsActive DEF LocalKeys
<1> QED BY <1>3, <1>6, <1>7

\* At the start a local row is seeded, out of the window, or to be recovered.
LEMMA InitActive ==
  ASSUME Init
  PROVE  ActiveInv
<1>1. /\ inFlight = None /\ now = StartTime
      /\ heard = [k \in Keys |-> IF reg.live[k] = None THEN StartTime - ActiveWindow
                                 ELSE row[k].epoch]
  BY DEF Init
<1>2. StartTime \in Int /\ ActiveWindow \in Int
  BY BoundAssumption, WindowAssumption
<1>3. RecoveryReads /\ ~RecoveryRead
  BY <1>1 DEF RecoveryReads, RecoveryRead, RecoveryUnderWay
<1>4. ASSUME NEW k \in LocalKeys, row[k] # None
      PROVE  KeyActive(k)
  <2>1. k \in Keys /\ k \notin RemoteKeys
    BY <1>4 DEF LocalKeys
  <2>2. PICK t \in Int : t = row[k].epoch
    BY <1>4, <2>1, InitRows
  <2>3. CASE reg.live[k] # None
    <3>1. reg.live[k] = Seeded(row[k], 0, StartTime)
      BY <2>1, <2>3, SeedIs DEF Seeding
    <3>2. reg.live[k].incarnation = row[k].incarnation /\ reg.live[k].last_activity_at = t
      BY <2>2, <3>1 DEF Seeded
    <3>3. heard[k] = t
      BY <1>1, <2>1, <2>2, <2>3
    <3>4. Holds(reg, k, row[k].incarnation, t)
      BY <2>2, <2>3, <3>2 DEF Holds
    <3>5. Carried(k, heard[k]) /\ ~(t > heard[k])
      BY <2>2, <3>3, <3>4 DEF Carried
    <3> QED BY <2>2, <3>5 DEF KeyActive
  <2>4. CASE reg.live[k] = None
    <3>1. now - heard[k] >= ActiveWindow /\ now \in Int /\ heard[k] \in Int
      BY <1>1, <1>2, <2>1, <2>4
    <3>2. ASSUME now - t < ActiveWindow PROVE Recovers(k)
      <4>1. k \in SeedKeys
        <5>1. k \in Stored
          BY <1>4, <2>1 DEF Stored
        <5>2. ~(StartTime - t >= ActiveWindow)
          BY <1>1, <1>2, <2>2, <3>2
        <5>3. ~OutOfWindow(row[k].epoch, StartTime)
          BY <2>2, <5>2 DEF OutOfWindow
        <5> QED BY <2>1, <5>1, <5>3 DEF SeedKeys
      <4>2. /\ reg.recovery \in SeedRecovery /\ reg.recovery.since = StartTime - ActiveWindow
            /\ reg.recovery.page = None /\ AfterCursor(k, reg.recovery.cursor)
        BY <2>4, <4>1, SeedIs
      <4>3. reg.recovery # None /\ t >= reg.recovery.since
        BY <1>1, <1>2, <2>2, <3>2, <4>2, NoneAssumption
      <4> QED BY <1>3, <2>2, <4>2, <4>3 DEF Recovers
    <3>3. ~(now - heard[k] < ActiveWindow)
      BY <1>2, <3>1
    <3>4. now - row[k].epoch < ActiveWindow => Recovers(k)
      BY <2>2, <3>2
    <3> QED BY <3>3, <3>4 DEF KeyActive
  <2> QED BY <2>3, <2>4
<1>5. \A k \in LocalKeys : KeyActive(k)
  BY <1>4 DEF KeyActive
<1> QED BY <1>3, <1>5 DEF ActiveInv

\* Every step keeps the recent activity.
LEMMA NextActive ==
  ASSUME Truthful, Truthful', CapInv, ActiveInv, roundNow <= now, [Next]_vars
  PROVE  ActiveInv'
<1>1. CASE Scan \/ Command
  BY <1>1, ScanActive, CommandActive
<1>2. CASE \/ ScanSend \/ ReportSome \/ FailPage \/ BackoffElapses \/ Tick \/ UNCHANGED vars
           \/ Select \/ PageArrives \/ PageFailed \/ NoPage \/ TakeSpill \/ SpillRest
           \/ Receive \/ FactsEnd
  BY <1>2, WaitingActive
<1>3. CASE ReadPage \/ Expire \/ RecoveryPageArrives \/ RecoveryPageEnds
  BY <1>3, ReadActive, ExpireActive, RecoveryPageArrivesActive, RecoveryPageEndsActive
<1>4. CASE RecoveryRow \/ PageRow
  BY <1>4, RecoveryRowActive, PageRowActive
<1>5. CASE SpillRemoval \/ ApplyFact \/ Issue
  BY <1>5, SpillRemovalActive, ApplyFactActive, IssueActive
<1> QED BY <1>1, <1>2, <1>3, <1>4, <1>5 DEF Next, ActorStep

\* Recent activity of a stored row is carried, or the recovery brings it.
LEMMA ActiveAlways == Spec => []ActiveInv
<1>1. /\ Truthful /\ Truthful' /\ CapInv /\ AnonInv /\ ActiveInv
      /\ [Next]_vars
      => ActiveInv'
  BY NextActive DEF AnonInv
<1>2. Init => ActiveInv
  BY InitActive
<1> QED
  BY <1>1, <1>2, TruthfulAlways, CapsAlways, AnonAlways, PTL DEF Spec

----------------------------------------------------------------------------
\* A quiescent registry: nothing is reported, and no reconciliation is due.
LEMMA QuiescentParts ==
  ASSUME Truthful, HandsEmpty, Quiescent
  PROVE  /\ Reports = {} /\ UnderWay = {} /\ spill = EmptySpill /\ taken = EmptySpill
         /\ reg.needs = None /\ reg.run = None /\ reg.recovery = None
         /\ \A k \in Keys : reg.pending[k] = None
<1>1. UnderWay = {}
  BY ElemsShort DEF Quiescent, UnderWay
<1>2. Reports = {}
  BY <1>1 DEF Quiescent, Reports
<1>3. taken = EmptySpill
  BY DEF Quiescent, HandsEmpty
<1>4. reg.needs = None /\ reg.run = None /\ Waiting(reg) = {}
  BY DEF Quiescent, WantsPage
<1> QED BY <1>1, <1>2, <1>3, <1>4 DEF Quiescent, Waiting

\* SessionLifecycle::run() converges: once the inbox, the spill and the pages that
\* wants_page() asks for are done, every live session has a row and no later
\* incarnation than that row, and a row with recent activity is live with all of it,
\* however reports, spills, failed reads, deletions and recovery pages interleaved.
THEOREM ConvergedAlways == Spec => []Converged
<1>1. ASSUME Truthful, AbsentInv, ActiveInv PROVE Converged
  <2> SUFFICES ASSUME Quiescent, NEW k \in LocalKeys
               PROVE  /\ reg.live[k] # None =>
                            /\ row[k] # None
                            /\ reg.live[k].incarnation <= row[k].incarnation
                      /\ Recent(k) => /\ reg.live[k] # None
                                      /\ reg.live[k].incarnation = row[k].incarnation
                                      /\ reg.live[k].last_activity_at >= Owed(k)
    BY DEF Converged
  <2>1. k \in Keys
    BY DEF LocalKeys
  <2>2. /\ Reports = {} /\ UnderWay = {} /\ spill = EmptySpill /\ taken = EmptySpill
        /\ reg.needs = None /\ reg.run = None /\ reg.recovery = None
        /\ \A j \in Keys : reg.pending[j] = None
    BY <1>1, QuiescentParts DEF AbsentInv
  <2>3. reg.live[k] # None => row[k] # None
    <3>1. ~SpillTells(existed, EmptySpill, k)
      BY <2>1 DEF SpillTells, EmptySpill
    <3>2. ~AbsenceUnderWay(k)
      BY <2>2, <3>1 DEF AbsenceUnderWay
    <3>3. ~Walked(reg, existed, k)
      BY <2>2 DEF Walked
    <3> QED BY <1>1, <2>1, <3>2, <3>3 DEF AbsentInv, ToldInv
  <2>4. reg.live[k] # None => reg.live[k].incarnation <= row[k].incarnation
    <3> SUFFICES ASSUME reg.live[k] # None
                 PROVE  reg.live[k].incarnation <= row[k].incarnation
      OBVIOUS
    <3>1. KeyInv(reg, existed, rev, k)
      BY <1>1, <2>1, TruthfulParts DEF RegistryInv
    <3>2. PICK z : z = <<k, reg.live[k].incarnation, reg.live[k].exists_at>>
      OBVIOUS
    <3>3. z \in existed /\ z[1] = k /\ z[2] = reg.live[k].incarnation
      BY <3>1, <3>2 DEF KeyInv
    <3>4. Covers(existed, k, row[k].incarnation)
      BY <1>1, <2>1, <2>3, StoredIsLast
    <3> QED BY <3>3, <3>4 DEF Covers
  <2>5. ASSUME Recent(k)
        PROVE  /\ reg.live[k] # None
               /\ reg.live[k].incarnation = row[k].incarnation
               /\ reg.live[k].last_activity_at >= Owed(k)
    <3>1. row[k] # None /\ now - Owed(k) < ActiveWindow
      BY <2>5 DEF Recent
    <3>2. heard[k] \in Int /\ now \in Int
      BY <1>1, <2>1, ActiveTypes
    <3>3. row[k].epoch \in Int
      BY <1>1, <2>1, <3>1, ActiveTypes
    <3>4. KeyActive(k)
      BY <1>1 DEF ActiveInv
    <3>5. ~Recovers(k)
      BY <2>2 DEF Recovers
    <3>6. Carried(k, Owed(k))
      <4>1. CASE row[k].epoch > heard[k]
        <5>1. Owed(k) = row[k].epoch
          BY <3>2, <3>3, <4>1 DEF Owed, Max2
        <5> QED BY <3>1, <3>4, <3>5, <4>1, <5>1 DEF KeyActive
      <4>2. CASE ~(row[k].epoch > heard[k])
        <5>1. Owed(k) = heard[k]
          BY <3>2, <3>3, <4>2 DEF Owed, Max2
        <5> QED BY <3>1, <3>4, <5>1 DEF KeyActive
      <4> QED BY <4>1, <4>2
    <3>7. Holds(reg, k, row[k].incarnation, Owed(k))
      BY <2>2, <3>6 DEF Carried, Reported
    <3> QED BY <2>1, <2>2, <3>7 DEF Holds
  <2> QED BY <2>3, <2>4, <2>5
<1> QED
  BY <1>1, TruthfulAlways, AbsentAlways, ActiveAlways, PTL
==========================================================================
