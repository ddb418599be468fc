------------------------ MODULE SessionProjectionProofs ------------------------
(* Proofs about the projection worker, for any number of sessions and facets and  *)
(* for every cap.  ProjectionInv is inductive; the four invariants of             *)
(* SessionProjection follow from it in one step.                                  *)
EXTENDS SessionProjection, FiniteSetTheorems, TLAPS

-----------------------------------------------------------------------------
(* The types.                                                                     *)

Ver == [Facets -> Nat]

Message == [type : {"updated", "idle", "live", "removed", "broad"}, keys : SUBSET Keys,
            facets : SUBSET Facets, seq : Nat, ver : [Keys -> Ver]]

Recovery == [open : BOOLEAN, watermark : Nat, followUp : Nat]

Projector == [rows : [Keys -> SUBSET Facets], refresh : BOOLEAN, retry : BOOLEAN,
              batch : Batch, recovery : Recovery]

LoadTask == [status : {"none", "reading", "ok", "failed"}, rows : [Keys -> Entry],
             left : SUBSET Keys]

Types ==
    /\ row \in [Keys -> Entry]
    /\ seq \in Nat /\ lives \in 0..MaxLives /\ seq - lives <= MaxChanges
    /\ life \in [Keys -> Nat] /\ seen \in [Keys -> Nat]
    /\ sending \in Seq(Message) /\ bus \in Seq(Message) /\ Len(bus) <= BusCap
    /\ lagged \in BOOLEAN
    /\ proj \in Projector /\ load \in LoadTask
    /\ timer \in {"off", "armed", "due"}
    /\ pc \in {"select", "drain", "finish", "tail"} /\ drained \in 0..ReceiveBatch
    /\ failures \in Nat
    /\ sent \in [Keys -> Ver] /\ told \in [Keys -> Ver]

-----------------------------------------------------------------------------
(* The inductive invariant.                                                       *)

(* A set of rows within the cap.                                                  *)
Some(rows) == {k \in Keys : rows[k] # {}}
Capped(rows) == IsFiniteSet(Some(rows)) /\ Cardinality(Some(rows)) <= RowCap

(* The pending and the loading rows; a recovery is open as long as its refresh    *)
(* waits.                                                                         *)
ProjInv(p) ==
    /\ Capped(p.rows) /\ Capped(p.batch.rows)
    /\ p.refresh => p.rows = NoRows
    /\ p.recovery.open => p.refresh

(* The loop: the batch belongs to the load, a load is done exactly when its rows  *)
(* are, and the loop sleeps without a timer only without work.                    *)
LoopInv ==
    /\ proj.batch.open <=> load.status # "none"
    /\ load.status = "ok" => load.left = {}
    /\ load.status = "reading" => load.left # {}
    /\ pc \in {"drain", "finish"} => Finished
    /\ pc = "select" /\ timer = "off" => ~ HasWork(proj)

(* An event is about a facet of a row, it withdraws a loading row, it carries the *)
(* lifecycle state of a session.                                                  *)
Names(e, k, f) == k \in e.keys /\ (e.type \in {"removed", "broad"} \/ f \in e.facets)
Retires(e, k) == k \in e.keys /\ e.type # "live"
Relays(e, k) == k \in e.keys /\ e.type \in {"live", "idle"}

(* The shape of an event.                                                         *)
Formed(e) ==
    /\ e.type \in {"updated", "idle"} => \E k \in Keys : e.keys = {k}
    /\ e.type = "broad" => e.keys = Keys
    /\ e.type = "live" => e.facets = {}

(* An event says how a row changed since the event before it.                     *)
Follows(v, e) == \A k \in Keys, f \in Facets : Names(e, k, f) \/ e.ver[k][f] = v[k][f]

Alike(u, v) == \A k \in Keys, f \in Facets : u[k][f] = v[k][f]

Chain(v, es) ==
    \A i \in 1..Len(es) : Follows(IF i = 1 THEN v ELSE es[i - 1].ver, es[i])

Newest(v, es) == IF es = <<>> THEN v ELSE es[Len(es)].ver

(* The events with a sequence tell all changes since the last one on the bus.     *)
SendingInv ==
    /\ \A i \in 1..Len(sending) : Formed(sending[i])
    /\ Chain(sent, sending)
    /\ \A k \in Keys, f \in Facets :
            /\ Newest(sent, sending)[k][f] = row[k].ver[f]
            /\ sent[k][f] <= row[k].ver[f]
            /\ \A i \in 1..Len(sending) : sending[i].ver[k][f] <= row[k].ver[f]

BusInv == \A i \in 1..Len(bus) : Formed(bus[i])

(* The rows of a load that would be emitted.                                      *)
Loaded(k) ==
    /\ load.status \in {"reading", "ok"} /\ ~ proj.batch.invalidated
    /\ k \notin load.left /\ proj.batch.rows[k] # {}

(* A loaded row is as new as the last event on the bus, or what withdraws it is   *)
(* still to be received.                                                          *)
FreshInv ==
    \A k \in Keys : Loaded(k) =>
        \/ lagged
        \/ \E i \in 1..Len(bus) : Retires(bus[i], k)
        \/ \A f \in Facets : sent[k][f] <= load.rows[k].ver[f]

Under(k, f) ==
    \/ \E i \in 1..Len(bus) : Names(bus[i], k, f)
    \/ \E i \in 1..Len(sending) : Names(sending[i], k, f)

(* A loaded row is as new as the stored one, or an event about the difference is  *)
(* under way.                                                                     *)
LoadedInv ==
    \A k \in Keys : Loaded(k) => \A f \in proj.batch.rows[k] :
        lagged \/ Under(k, f) \/ load.rows[k].ver[f] = row[k].ver[f]

(* What the windows have not been told is pending, loading or under way.          *)
ToldInv ==
    \A k \in Keys, f \in Facets :
        \/ told[k][f] = row[k].ver[f]
        \/ proj.refresh \/ f \in proj.rows[k]
        \/ proj.batch.open /\ ~ proj.batch.invalidated /\ f \in proj.batch.rows[k]
        \/ lagged \/ Under(k, f)

(* The same of the lifecycle states: what an open recovery has lost again it will *)
(* mark when it ends.                                                             *)
Carries(es, k, n) == \E i \in 1..Len(es) : Relays(es[i], k) /\ es[i].seq = n
Past(es, states) == \A i \in 1..Len(es) : \A k \in Keys :
                        Relays(es[i], k) => es[i].seq <= states[k]

LifeInv ==
    /\ \A k \in Keys : seen[k] <= life[k] /\ life[k] <= seq
    /\ Past(bus, life) /\ Past(sending, life)
    /\ proj.recovery.followUp <= seq
    /\ proj.recovery.open =>
            /\ proj.recovery.watermark <= seq
            /\ \A k \in Keys : life[k] <= proj.recovery.watermark => seen[k] = life[k]
    /\ \A k \in Keys :
        \/ seen[k] = life[k] \/ lagged
        \/ proj.recovery.open /\ proj.recovery.followUp # 0
        \/ Carries(bus, k, life[k]) \/ Carries(sending, k, life[k])

ProjectionInv ==
    /\ Types /\ ProjInv(proj) /\ LoopInv
    /\ SendingInv /\ BusInv /\ FreshInv /\ LoadedInv /\ ToldInv /\ LifeInv
-----------------------------------------------------------------------------
(* Capped sets of rows.                                                           *)

(* No rows are under the cap. *)
LEMMA NoneCapped == NoRows \in [Keys -> SUBSET Facets] /\ Capped(NoRows)
<1>1. Some(NoRows) = {}
  BY DEF Some, NoRows
<1> QED
  BY <1>1, FS_EmptySet, ProjectionAssumption DEF Capped, NoRows

(* Fewer rows stay under the cap. *)
LEMMA FewerCapped ==
    ASSUME NEW r, NEW q, Capped(r), Some(q) \subseteq Some(r)
    PROVE  Capped(q)
<1>1. IsFiniteSet(Some(q)) /\ Cardinality(Some(q)) <= Cardinality(Some(r))
  BY FS_Subset DEF Capped
<1>2. Cardinality(Some(q)) \in Nat /\ Cardinality(Some(r)) \in Nat
  BY <1>1, FS_CardinalityType DEF Capped
<1> QED
  BY <1>1, <1>2, ProjectionAssumption DEF Capped

(* One more row fits while there is room. *)
LEMMA OneMoreCapped ==
    ASSUME NEW r, NEW q, NEW k, Capped(r), Some(q) \subseteq Some(r) \cup {k},
           Cardinality(Some(r)) < RowCap
    PROVE  Capped(q)
<1> DEFINE R == Some(r)
<1>0. IsFiniteSet(R) /\ Cardinality(R) \in Nat
  BY FS_CardinalityType DEF Capped
<1>1. IsFiniteSet(R \cup {k}) /\ Cardinality(R \cup {k}) <= Cardinality(R) + 1
  <2> HIDE DEF R
  <2> QED
    BY <1>0, FS_AddElement
<1>2. IsFiniteSet(Some(q)) /\ Cardinality(Some(q)) <= Cardinality(Some(r) \cup {k})
  BY <1>1, FS_Subset
<1>3. /\ Cardinality(Some(q)) \in Nat /\ Cardinality(Some(r)) \in Nat
      /\ Cardinality(Some(r) \cup {k}) \in Nat
  BY <1>1, <1>2, FS_CardinalityType DEF Capped
<1> QED
  BY <1>1, <1>2, <1>3, ProjectionAssumption DEF Capped

-----------------------------------------------------------------------------
(* The operations of the projector.                                               *)

(* The fields of a projector. *)
LEMMA ProjectorIs ==
    ASSUME NEW p \in Projector
    PROVE  /\ p.rows \in [Keys -> SUBSET Facets] /\ p.refresh \in BOOLEAN /\ p.retry \in BOOLEAN
           /\ p.batch \in Batch /\ p.recovery \in Recovery
           /\ p.batch.open \in BOOLEAN /\ p.batch.rows \in [Keys -> SUBSET Facets]
           /\ p.batch.invalidated \in BOOLEAN /\ p.batch.retried \in BOOLEAN
           /\ p.recovery.open \in BOOLEAN /\ p.recovery.watermark \in Nat
           /\ p.recovery.followUp \in Nat
BY DEF Projector, Batch, Recovery

(* A row that is noted is pending, or a refresh stands for it.                    *)
LEMMA NoteRowFacts ==
    ASSUME NEW p \in Projector, ProjInv(p), NEW k \in Keys, NEW F \in SUBSET Facets
    PROVE  LET q == NoteRow(p, k, F)
           IN  /\ q \in Projector /\ ProjInv(q)
               /\ q.batch = p.batch /\ q.recovery = p.recovery
               /\ p.refresh => q.refresh
               /\ F \subseteq q.rows[k] \/ q.refresh
               /\ \A j \in Keys : p.rows[j] \subseteq q.rows[j] \/ q.refresh
<1> DEFINE q == NoteRow(p, k, F)
           some == {j \in Keys : p.rows[j] # {}}
<1>0. some = Some(p.rows)
  BY DEF Some
<1>1. CASE p.refresh
  BY <1>1 DEF NoteRow
<1>2. CASE ~ p.refresh /\ (p.rows[k] # {} \/ Cardinality(some) < RowCap)
  <2>1. q = [p EXCEPT !.rows[k] = @ \cup F]
    BY <1>2 DEF NoteRow
  <2>2. /\ q \in Projector /\ q.batch = p.batch /\ q.recovery = p.recovery
        /\ q.refresh = p.refresh
        /\ q.rows = [p.rows EXCEPT ![k] = @ \cup F]
    BY <2>1 DEF Projector
  <2>3. p.rows \in [Keys -> SUBSET Facets]
    BY DEF Projector
  <2>4. Capped(q.rows)
    <3>1. CASE p.rows[k] # {}
      <4>1. Some(q.rows) \subseteq Some(p.rows)
        BY <2>2, <2>3, <3>1 DEF Some
      <4> QED
        BY <4>1, FewerCapped DEF ProjInv
    <3>2. CASE Cardinality(some) < RowCap
      <4>1. Some(q.rows) \subseteq Some(p.rows) \cup {k}
        BY <2>2, <2>3 DEF Some
      <4> QED
        BY <4>1, <3>2, <1>0, OneMoreCapped DEF ProjInv
    <3> QED
      BY <3>1, <3>2, <1>2
  <2> QED
    BY <1>2, <2>2, <2>3, <2>4 DEF ProjInv
<1>3. CASE ~ p.refresh /\ ~ (p.rows[k] # {} \/ Cardinality(some) < RowCap)
  <2>1. q = [p EXCEPT !.rows = NoRows, !.refresh = TRUE]
    BY <1>3 DEF NoteRow
  <2>2. /\ q \in Projector /\ q.batch = p.batch /\ q.recovery = p.recovery
        /\ q.refresh = TRUE /\ q.rows = NoRows
    BY <2>1, NoneCapped DEF Projector
  <2> QED
    BY <2>2, NoneCapped DEF ProjInv
<1> QED
  BY <1>1, <1>2, <1>3
(* Invalidating the load in flight changes that mark alone. *)
LEMMA InvalidateFacts ==
    ASSUME NEW p \in Projector, ProjInv(p)
    PROVE  LET q == InvalidateInFlight(p)
           IN  /\ q \in Projector /\ ProjInv(q)
               /\ q.rows = p.rows /\ q.refresh = p.refresh /\ q.recovery = p.recovery
               /\ q.batch.rows = p.batch.rows /\ q.batch.open = p.batch.open
               /\ q.batch.invalidated = p.batch.open
BY DEF InvalidateInFlight, Projector, Batch, ProjInv

(* Invalidating the rows also forgets the ones collected so far. *)
LEMMA InvalidateRowsFacts ==
    ASSUME NEW p \in Projector, ProjInv(p)
    PROVE  LET q == InvalidateRows(p)
           IN  /\ q \in Projector /\ ProjInv(q)
               /\ q.rows = NoRows /\ q.refresh = p.refresh /\ q.recovery = p.recovery
               /\ q.batch.rows = p.batch.rows /\ q.batch.open = p.batch.open
               /\ q.batch.invalidated = p.batch.open
<1> DEFINE r == [p EXCEPT !.rows = NoRows, !.retry = FALSE]
<1>1. /\ r \in Projector /\ r.rows = NoRows /\ r.refresh = p.refresh
      /\ r.recovery = p.recovery /\ r.batch = p.batch
  BY NoneCapped DEF Projector
<1>2. ProjInv(r)
  BY <1>1, NoneCapped DEF ProjInv
<1>3. InvalidateRows(p) = InvalidateInFlight(r)
  BY DEF InvalidateRows
<1> HIDE DEF r
<1> QED
  BY <1>1, <1>2, <1>3, InvalidateFacts

(* A lost event leaves a refresh behind. *)
LEMMA LoseFacts ==
    ASSUME NEW p \in Projector, ProjInv(p)
    PROVE  LET q == Lose(p)
           IN  /\ q \in Projector /\ ProjInv(q)
               /\ q.rows = NoRows /\ q.refresh = TRUE /\ q.recovery = p.recovery
               /\ q.batch.rows = p.batch.rows /\ q.batch.open = p.batch.open
               /\ q.batch.invalidated = p.batch.open
<1> DEFINE r == [p EXCEPT !.refresh = TRUE]
           s == [r EXCEPT !.rows = NoRows, !.retry = FALSE]
<1>1. /\ s \in Projector /\ s.rows = NoRows /\ s.refresh = TRUE
      /\ s.recovery = p.recovery /\ s.batch = p.batch
  BY NoneCapped DEF Projector
<1>2. ProjInv(s)
  BY <1>1, NoneCapped DEF ProjInv
<1>3. Lose(p) = InvalidateInFlight(s)
  BY DEF InvalidateRows, Lose
<1> HIDE DEF s
<1> QED
  BY <1>1, <1>2, <1>3, InvalidateFacts

(* The recovery a gap leaves: it is open, and a gap during a recovery is part of  *)
(* it or waits for its end.                                                       *)
LEMMA AbsorbLagFacts ==
    ASSUME NEW p \in Projector, ProjInv(p), NEW w \in Nat,
           p.recovery.open => p.recovery.watermark <= w
    PROVE  LET q == AbsorbLag(p, w)
           IN  /\ q \in Projector /\ ProjInv(q)
               /\ q.rows = NoRows /\ q.refresh = TRUE
               /\ q.batch.rows = p.batch.rows /\ q.batch.open = p.batch.open
               /\ q.batch.invalidated = p.batch.open
               /\ q.recovery.open
               /\ p.recovery.followUp <= w => q.recovery.followUp <= w
               /\ ~ p.recovery.open => q.recovery.watermark = w
               /\ p.recovery.open =>
                      /\ q.recovery.watermark = p.recovery.watermark
                      /\ w > p.recovery.watermark => q.recovery.followUp # 0
                      /\ p.recovery.followUp # 0 => q.recovery.followUp # 0
<1> DEFINE l == Lose(p)
           rec == IF ~ l.recovery.open THEN [open |-> TRUE, watermark |-> w, followUp |-> 0]
                  ELSE IF w > l.recovery.watermark /\ w > l.recovery.followUp
                       THEN [l.recovery EXCEPT !.followUp = w]
                       ELSE l.recovery
           q == AbsorbLag(p, w)
<1>1. /\ l \in Projector /\ ProjInv(l)
      /\ l.rows = NoRows /\ l.refresh = TRUE /\ l.recovery = p.recovery
      /\ l.batch.rows = p.batch.rows /\ l.batch.open = p.batch.open
      /\ l.batch.invalidated = p.batch.open
  BY LoseFacts
<1>2. l.recovery \in Recovery
  BY <1>1, ProjectorIs
<1>3. q = [l EXCEPT !.recovery = rec]
  BY DEF AbsorbLag
<1>4. /\ rec \in Recovery /\ rec.open
      /\ p.recovery.followUp <= w => rec.followUp <= w
      /\ ~ p.recovery.open => rec.watermark = w
      /\ p.recovery.open =>
             /\ rec.watermark = p.recovery.watermark
             /\ w > p.recovery.watermark => rec.followUp # 0
             /\ p.recovery.followUp # 0 => rec.followUp # 0
  <2> HIDE DEF l
  <2> QED
    BY <1>1, <1>2 DEF Recovery
<1> HIDE DEF l, rec
<1>5. /\ q \in Projector /\ q.rows = l.rows /\ q.refresh = l.refresh /\ q.batch = l.batch
      /\ q.recovery = rec
  BY <1>1, <1>3, <1>4 DEF Projector
<1> QED
  BY <1>1, <1>4, <1>5 DEF ProjInv

(* A newer change withdraws the loading row; its facets are pending again.        *)
LEMMA RetireFacts ==
    ASSUME NEW p \in Projector, ProjInv(p), NEW k \in Keys
    PROVE  LET q == Retire(p, k)
           IN  /\ q \in Projector /\ ProjInv(q)
               /\ q.recovery = p.recovery
               /\ q.batch.open = p.batch.open /\ q.batch.invalidated = p.batch.invalidated
               /\ q.batch.rows = [p.batch.rows EXCEPT ![k] = {}]
               /\ p.refresh => q.refresh
               /\ p.batch.rows[k] \subseteq q.rows[k] \/ q.refresh
               /\ \A j \in Keys : p.rows[j] \subseteq q.rows[j] \/ q.refresh
<1>1. CASE p.batch.rows[k] = {}
  <2>1. p.batch.rows = [p.batch.rows EXCEPT ![k] = {}]
    BY <1>1, ProjectorIs
  <2>2. Retire(p, k) = p
    BY <1>1 DEF Retire
  <2> QED
    BY <1>1, <2>1, <2>2
<1>2. CASE p.batch.rows[k] # {}
  <2> DEFINE r == [p EXCEPT !.batch.rows[k] = {}]
             F == p.batch.rows[k]
  <2>1. Retire(p, k) = NoteRow(r, k, F)
    BY <1>2 DEF Retire
  <2>2. /\ r \in Projector /\ r.rows = p.rows /\ r.refresh = p.refresh
        /\ r.recovery = p.recovery
        /\ r.batch.open = p.batch.open /\ r.batch.invalidated = p.batch.invalidated
        /\ r.batch.rows = [p.batch.rows EXCEPT ![k] = {}]
    BY DEF Projector, Batch
  <2>3. F \in SUBSET Facets
    BY ProjectorIs
  <2>4. Some(r.batch.rows) \subseteq Some(p.batch.rows)
    BY <2>2, ProjectorIs DEF Some
  <2>5. ProjInv(r)
    BY <2>2, <2>4, FewerCapped DEF ProjInv
  <2> HIDE DEF r, F
  <2>6. LET q == NoteRow(r, k, F)
        IN  /\ q \in Projector /\ ProjInv(q)
            /\ q.batch = r.batch /\ q.recovery = r.recovery
            /\ r.refresh => q.refresh
            /\ F \subseteq q.rows[k] \/ q.refresh
            /\ \A j \in Keys : r.rows[j] \subseteq q.rows[j] \/ q.refresh
    BY <2>2, <2>3, <2>5, NoteRowFacts
  <2> QED
    BY <2>1, <2>2, <2>6 DEF F
<1> QED
  BY <1>1, <1>2

(* An update is pending afterwards, with the facets of the row it withdraws, or a *)
(* refresh stands for both and the load is invalid.                               *)
LEMMA NotedFacts ==
    ASSUME NEW p \in Projector, ProjInv(p), NEW k \in Keys, NEW F \in SUBSET Facets
    PROVE  LET q == Noted(p, k, F)
           IN  /\ q \in Projector /\ ProjInv(q)
               /\ q.recovery = p.recovery
               /\ q.batch.open = p.batch.open
               /\ \/ q.batch.invalidated = p.batch.invalidated
                  \/ q.refresh /\ q.batch.invalidated = p.batch.open
               /\ q.batch.rows = [p.batch.rows EXCEPT ![k] = {}]
               /\ p.refresh => q.refresh
               /\ F \cup p.batch.rows[k] \subseteq q.rows[k] \/ q.refresh
               /\ \A j \in Keys : p.rows[j] \subseteq q.rows[j] \/ q.refresh
<1> DEFINE r == Retire(p, k)
           n == NoteRow(r, k, F)
<1>1. /\ r \in Projector /\ ProjInv(r)
      /\ r.recovery = p.recovery
      /\ r.batch.open = p.batch.open /\ r.batch.invalidated = p.batch.invalidated
      /\ r.batch.rows = [p.batch.rows EXCEPT ![k] = {}]
      /\ p.refresh => r.refresh
      /\ p.batch.rows[k] \subseteq r.rows[k] \/ r.refresh
      /\ \A j \in Keys : p.rows[j] \subseteq r.rows[j] \/ r.refresh
  BY RetireFacts
<1> HIDE DEF r
<1>2. /\ n \in Projector /\ ProjInv(n)
      /\ n.batch = r.batch /\ n.recovery = r.recovery
      /\ r.refresh => n.refresh
      /\ F \subseteq n.rows[k] \/ n.refresh
      /\ \A j \in Keys : r.rows[j] \subseteq n.rows[j] \/ n.refresh
  BY <1>1, NoteRowFacts
<1>3. Noted(p, k, F) = IF n.refresh THEN InvalidateInFlight(n) ELSE n
  BY DEF Noted, r
<1> HIDE DEF n
<1>4. CASE n.refresh
  BY <1>1, <1>2, <1>3, <1>4, InvalidateFacts
<1>5. CASE ~ n.refresh
  <2>1. Noted(p, k, F) = n
    BY <1>3, <1>5
  <2> QED
    BY <1>1, <1>2, <1>5, <2>1
<1> QED
  BY <1>4, <1>5
(* What the receipt of an event keeps: a change it names is pending or stands     *)
(* under a refresh unless the event itself tells the row, a row it withdraws is   *)
(* not emitted, and no other obligation is dropped.                               *)
Settles(e, k) == k \in e.keys /\ e.type \in {"removed", "broad"}

Receipt(p, e, q) ==
    /\ q \in Projector /\ ProjInv(q)
    /\ q.recovery = p.recovery /\ q.batch.open = p.batch.open
    /\ p.refresh => q.refresh
    /\ q.batch.invalidated # p.batch.invalidated =>
           /\ q.batch.invalidated = p.batch.open
           /\ q.refresh \/ \A k \in Keys : Settles(e, k)
    /\ \A k \in Keys : q.batch.rows[k] = {} \/ q.batch.rows[k] = p.batch.rows[k]
    /\ \A k \in Keys : Retires(e, k) =>
           q.batch.rows[k] = {} \/ q.batch.invalidated = p.batch.open
    /\ \A k \in Keys, f \in Facets :
           /\ Names(e, k, f) \/ f \in p.rows[k] =>
                 f \in q.rows[k] \/ q.refresh \/ Settles(e, k)
           /\ f \in p.batch.rows[k] =>
                 f \in q.batch.rows[k] \/ f \in q.rows[k] \/ q.refresh \/ Settles(e, k)

(* The fields of an event. *)
LEMMA MessageIs ==
    ASSUME NEW e \in Message
    PROVE  /\ e.type \in {"updated", "idle", "live", "removed", "broad"}
           /\ e.keys \in SUBSET Keys /\ e.facets \in SUBSET Facets /\ e.seq \in Nat
           /\ e.ver \in [Keys -> Ver]
           /\ \A k \in Keys, f \in Facets : e.ver[k][f] \in Nat
BY DEF Message, Ver

(* An update or an idle event is received, *)
LEMMA AbsorbedUpdate ==
    ASSUME NEW p \in Projector, ProjInv(p), NEW e \in Message, Formed(e),
           e.type \in {"updated", "idle"}
    PROVE  Receipt(p, e, Absorbed(p, e))
<1>1. PICK k \in Keys : e.keys = {k}
  BY DEF Formed
<1>2. (CHOOSE j \in e.keys : TRUE) = k
  BY <1>1
<1> DEFINE F == e.facets
           q == Noted(p, k, F)
<1>3. Absorbed(p, e) = q
  BY <1>2 DEF Absorbed
<1>4. F \in SUBSET Facets
  BY MessageIs
<1> HIDE DEF F
<1>5. /\ q \in Projector /\ ProjInv(q)
      /\ q.recovery = p.recovery
      /\ q.batch.open = p.batch.open
      /\ \/ q.batch.invalidated = p.batch.invalidated
         \/ q.refresh /\ q.batch.invalidated = p.batch.open
      /\ q.batch.rows = [p.batch.rows EXCEPT ![k] = {}]
      /\ p.refresh => q.refresh
      /\ F \cup p.batch.rows[k] \subseteq q.rows[k] \/ q.refresh
      /\ \A j \in Keys : p.rows[j] \subseteq q.rows[j] \/ q.refresh
  BY <1>4, NotedFacts
<1> HIDE DEF q
<1>6. p.batch.rows \in [Keys -> SUBSET Facets]
  BY ProjectorIs
<1>7. q.batch.rows[k] = {} /\ \A j \in Keys : j # k => q.batch.rows[j] = p.batch.rows[j]
  BY <1>5, <1>6
<1>8. \A j \in Keys, f \in Facets : Names(e, j, f) => j = k /\ f \in F
  BY <1>1 DEF Names, F
<1>9. \A j \in Keys : Retires(e, j) => j = k
  BY <1>1 DEF Retires
<1> QED
  BY <1>3, <1>5, <1>7, <1>8, <1>9 DEF Receipt

(* and so is a broad event, *)
LEMMA AbsorbedBroad ==
    ASSUME NEW p \in Projector, ProjInv(p), NEW e \in Message, Formed(e), e.type = "broad"
    PROVE  Receipt(p, e, Absorbed(p, e))
<1> DEFINE q == InvalidateRows(p)
<1>1. Absorbed(p, e) = q
  BY DEF Absorbed
<1>2. /\ q \in Projector /\ ProjInv(q)
      /\ q.rows = NoRows /\ q.refresh = p.refresh /\ q.recovery = p.recovery
      /\ q.batch.rows = p.batch.rows /\ q.batch.open = p.batch.open
      /\ q.batch.invalidated = p.batch.open
  BY InvalidateRowsFacts
<1>3. \A k \in Keys : Settles(e, k)
  BY DEF Formed, Settles
<1> HIDE DEF q
<1> QED
  BY <1>1, <1>2, <1>3 DEF Receipt

(* and a removal, *)
LEMMA AbsorbedRemoved ==
    ASSUME NEW p \in Projector, ProjInv(p), NEW e \in Message, Formed(e), e.type = "removed"
    PROVE  Receipt(p, e, Absorbed(p, e))
<1> SUFFICES ASSUME NEW q, q = Absorbed(p, e)
             PROVE  Receipt(p, e, q)
  OBVIOUS
<1> DEFINE rows == [k \in Keys |-> IF k \in e.keys THEN {} ELSE p.rows[k]]
           loading == [k \in Keys |-> IF k \in e.keys THEN {} ELSE p.batch.rows[k]]
<1>0. rows \in [Keys -> SUBSET Facets] /\ loading \in [Keys -> SUBSET Facets]
  BY ProjectorIs
<1>1. q = [p EXCEPT !.rows = rows, !.batch.rows = loading]
  BY DEF Absorbed
<1> HIDE DEF rows, loading
<1>2. /\ q.rows = rows /\ q.batch.rows = loading
      /\ q.refresh = p.refresh /\ q.recovery = p.recovery /\ q.batch.open = p.batch.open
      /\ q.batch.invalidated = p.batch.invalidated /\ q \in Projector
  <2> DEFINE r == [p EXCEPT !.rows = rows]
  <2>1. /\ r \in Projector /\ r.rows = rows /\ r.refresh = p.refresh
        /\ r.recovery = p.recovery /\ r.batch = p.batch
    BY <1>0 DEF Projector
  <2>2. q = [r EXCEPT !.batch.rows = loading]
    BY <1>1
  <2> HIDE DEF r
  <2>3. /\ q.rows = r.rows /\ q.refresh = r.refresh /\ q.recovery = r.recovery
        /\ q.batch = [r.batch EXCEPT !.rows = loading] /\ q.retry = r.retry
        /\ q = [r EXCEPT !.batch = q.batch]
    BY <2>1, <2>2 DEF Projector
  <2>4. /\ q.batch \in Batch /\ q.batch.rows = loading /\ q.batch.open = p.batch.open
        /\ q.batch.invalidated = p.batch.invalidated
    BY <1>0, <2>1, <2>3, ProjectorIs DEF Batch
  <2>5. q \in Projector
    BY <2>1, <2>3, <2>4 DEF Projector
  <2> QED
    BY <2>1, <2>3, <2>4, <2>5
<1>3. p.rows \in [Keys -> SUBSET Facets] /\ p.batch.rows \in [Keys -> SUBSET Facets]
  BY ProjectorIs
<1>4. Some(q.rows) \subseteq Some(p.rows) /\ Some(q.batch.rows) \subseteq Some(p.batch.rows)
  BY <1>2, <1>3 DEF Some, rows, loading
<1>5. Capped(q.rows) /\ Capped(q.batch.rows)
  BY <1>4, FewerCapped DEF ProjInv
<1>6. p.refresh => q.rows = NoRows
  BY <1>2 DEF ProjInv, NoRows, rows
<1>7. ProjInv(q)
  BY <1>2, <1>5, <1>6 DEF ProjInv
<1>8. \A k \in Keys, f \in Facets : Names(e, k, f) => Settles(e, k)
  BY DEF Names, Settles
<1>9. \A k \in Keys : /\ Settles(e, k) => q.batch.rows[k] = {}
                      /\ ~ Settles(e, k) => /\ q.rows[k] = p.rows[k]
                                            /\ q.batch.rows[k] = p.batch.rows[k]
  BY <1>2, <1>3 DEF Settles, rows, loading
<1>10. \A k \in Keys : Retires(e, k) => Settles(e, k)
  BY DEF Settles, Retires
<1> QED
  BY <1>2, <1>7, <1>8, <1>9, <1>10 DEF Receipt

(* and so every event is received. *)
LEMMA AbsorbedFacts ==
    ASSUME NEW p \in Projector, ProjInv(p), NEW e \in Message, Formed(e)
    PROVE  Receipt(p, e, Absorbed(p, e))
<1>1. CASE e.type = "live"
  <2>1. Absorbed(p, e) = p
    BY <1>1 DEF Absorbed
  <2>2. \A k \in Keys : ~ Retires(e, k)
    BY <1>1 DEF Retires
  <2>3. \A k \in Keys, f \in Facets : ~ Names(e, k, f)
    BY <1>1 DEF Names, Formed
  <2>4. \A k \in Keys, f \in Facets :
            Names(e, k, f) \/ f \in p.rows[k] =>
                 f \in p.rows[k] \/ p.refresh \/ Settles(e, k)
    BY <2>3, Zenon
  <2>5. \A k \in Keys, f \in Facets : f \in p.batch.rows[k] =>
                 f \in p.batch.rows[k] \/ f \in p.rows[k] \/ p.refresh \/ Settles(e, k)
    BY Zenon
  <2>6. Receipt(p, e, p)
    BY <2>2, <2>4, <2>5 DEF Receipt
  <2> QED
    BY <2>1, <2>6
<1> QED
  BY <1>1, AbsorbedUpdate, AbsorbedBroad, AbsorbedRemoved, MessageIs
(* The end of a refresh: nothing is pending, or the recovery that waited is open. *)
LEMMA RefreshedFacts ==
    ASSUME NEW p \in Projector, ProjInv(p)
    PROVE  LET q == Refreshed(p)
           IN  /\ q \in Projector /\ ProjInv(q)
               /\ q.rows = NoRows /\ q.batch = p.batch /\ q.recovery.followUp = 0
               /\ p.recovery.followUp = 0 => ~ q.recovery.open /\ ~ q.refresh
               /\ p.recovery.followUp # 0 =>
                      q.refresh /\ q.recovery.watermark = p.recovery.followUp
<1> DEFINE rec == IF p.recovery.followUp = 0 THEN NoRecovery
                  ELSE [open |-> TRUE, watermark |-> p.recovery.followUp, followUp |-> 0]
           more == p.recovery.followUp # 0
           q == Refreshed(p)
<1>1. /\ rec \in Recovery /\ more \in BOOLEAN
      /\ rec.open <=> more
      /\ rec.followUp = 0
      /\ more => rec.watermark = p.recovery.followUp
  BY ProjectorIs DEF Recovery, NoRecovery
<1>2. q = [p EXCEPT !.rows = NoRows, !.retry = FALSE, !.refresh = more, !.recovery = rec]
  BY DEF Refreshed
<1> HIDE DEF rec
<1>3. /\ q \in Projector /\ q.rows = NoRows /\ q.batch = p.batch /\ q.refresh = more
      /\ q.recovery = rec
  BY <1>1, <1>2, NoneCapped DEF Projector
<1> QED
  BY <1>1, <1>3, NoneCapped DEF ProjInv

(* Opening a batch moves the collected rows into it. *)
LEMMA OpenedFacts ==
    ASSUME NEW p \in Projector, ProjInv(p)
    PROVE  LET q == Opened(p)
           IN  /\ q \in Projector /\ ProjInv(q)
               /\ q.rows = NoRows /\ q.refresh = p.refresh /\ q.recovery = p.recovery
               /\ q.batch.open = TRUE /\ q.batch.rows = p.rows /\ q.batch.invalidated = FALSE
<1> DEFINE b == [open |-> TRUE, rows |-> p.rows, invalidated |-> FALSE, retried |-> p.retry]
           q == Opened(p)
<1>1. b \in Batch
  BY ProjectorIs DEF Batch
<1>2. q = [p EXCEPT !.rows = NoRows, !.retry = FALSE, !.batch = b]
  BY DEF Opened
<1>3. /\ q \in Projector /\ q.rows = NoRows /\ q.refresh = p.refresh
      /\ q.recovery = p.recovery /\ q.batch = b
  <2> HIDE DEF b
  <2> QED
    BY <1>1, <1>2, NoneCapped DEF Projector
<1> QED
  BY <1>3, NoneCapped DEF ProjInv

(* Closing a batch leaves the collected rows alone. *)
LEMMA ClosedFacts ==
    ASSUME NEW p \in Projector, ProjInv(p)
    PROVE  LET q == [p EXCEPT !.batch = NoBatch]
           IN  /\ q \in Projector /\ ProjInv(q) /\ q.batch = NoBatch
               /\ q.rows = p.rows /\ q.refresh = p.refresh /\ q.recovery = p.recovery
<1>1. NoBatch \in Batch /\ NoBatch.rows = NoRows
  BY NoneCapped DEF NoBatch, Batch
<1> QED
  BY <1>1, NoneCapped DEF Projector, ProjInv

(* The rows of a failed load are pending again, or a refresh stands for them.     *)
LEMMA ReturnedFacts ==
    ASSUME NEW p \in Projector, ProjInv(p), NEW rows \in [Keys -> SUBSET Facets], Capped(rows)
    PROVE  LET q == Returned(p, rows)
           IN  /\ q \in Projector /\ ProjInv(q)
               /\ q.batch = p.batch /\ q.recovery = p.recovery
               /\ p.refresh => q.refresh
               /\ \A k \in Keys : p.rows[k] \cup rows[k] \subseteq q.rows[k] \/ q.refresh
<1> DEFINE all == [k \in Keys |-> p.rows[k] \cup rows[k]]
           some == {k \in Keys : all[k] # {}}
           q == Returned(p, rows)
<1>1. p.rows \in [Keys -> SUBSET Facets] /\ all \in [Keys -> SUBSET Facets]
  BY ProjectorIs
<1>2. CASE p.refresh \/ rows = NoRows
  <2>1. q = p
    BY <1>2 DEF Returned
  <2>2. p.refresh \/ \A k \in Keys : p.rows[k] \cup rows[k] \subseteq p.rows[k]
    BY <1>2 DEF NoRows
  <2> QED
    BY <2>1, <2>2
<1>3. CASE ~ (p.refresh \/ rows = NoRows) /\ Cardinality(some) <= RowCap
  <2>1. q = [p EXCEPT !.rows = all]
    BY <1>3 DEF Returned
  <2>2. /\ q \in Projector /\ q.rows = all /\ q.refresh = p.refresh /\ q.batch = p.batch
        /\ q.recovery = p.recovery
    <3> HIDE DEF all
    <3> QED
      BY <1>1, <2>1 DEF Projector
  <2>3. Some(q.rows) = some /\ Some(q.rows) \subseteq Some(p.rows) \cup Some(rows)
    BY <2>2 DEF Some
  <2>4. IsFiniteSet(Some(p.rows) \cup Some(rows))
    BY FS_Union DEF ProjInv, Capped
  <2>5. Capped(q.rows)
    BY <1>3, <2>3, <2>4, FS_Subset DEF Capped
  <2> QED
    BY <1>3, <2>2, <2>5 DEF ProjInv
<1>4. CASE ~ (p.refresh \/ rows = NoRows) /\ ~ (Cardinality(some) <= RowCap)
  <2>1. q = [p EXCEPT !.rows = NoRows, !.refresh = TRUE]
    BY <1>4 DEF Returned
  <2>2. /\ q \in Projector /\ q.batch = p.batch /\ q.recovery = p.recovery
        /\ q.refresh = TRUE /\ q.rows = NoRows
    BY <2>1, NoneCapped DEF Projector
  <2> QED
    BY <2>2, NoneCapped DEF ProjInv
<1> QED
  BY <1>2, <1>3, <1>4

(* A completed load leaves no batch; the rows it did not load come back, unless   *)
(* it was withdrawn or gives up.                                                  *)
LEMMA CompletedFacts ==
    ASSUME NEW p \in Projector, ProjInv(p)
    PROVE  LET q == Completed(p)
           IN  /\ q \in Projector /\ ProjInv(q)
               /\ q.batch = NoBatch /\ q.recovery = p.recovery
               /\ p.refresh => q.refresh
               /\ \A k \in Keys : p.rows[k] \subseteq q.rows[k] \/ q.refresh
               /\ load.status = "failed" /\ ~ p.batch.invalidated /\ ~ GivesUp(p) =>
                     \A k \in Keys : p.batch.rows[k] \subseteq q.rows[k] \/ q.refresh
<1> DEFINE c == [p EXCEPT !.batch = NoBatch]
           back == load.status = "failed" /\ ~ p.batch.invalidated /\ ~ p.batch.retried
           r == Returned(c, p.batch.rows)
           s == [r EXCEPT !.retry = TRUE]
<1>1. /\ c \in Projector /\ ProjInv(c) /\ c.batch = NoBatch
      /\ c.rows = p.rows /\ c.refresh = p.refresh /\ c.recovery = p.recovery
  BY ClosedFacts
<1>2. Completed(p) = IF back THEN s ELSE c
  BY DEF Completed
<1> HIDE DEF c
<1>3. p.batch.rows \in [Keys -> SUBSET Facets] /\ Capped(p.batch.rows)
  BY ProjectorIs DEF ProjInv
<1>4. /\ r \in Projector /\ ProjInv(r)
      /\ r.batch = c.batch /\ r.recovery = c.recovery
      /\ c.refresh => r.refresh
      /\ \A k \in Keys : c.rows[k] \cup p.batch.rows[k] \subseteq r.rows[k] \/ r.refresh
  BY <1>1, <1>3, ReturnedFacts
<1> HIDE DEF r
<1>5. /\ s \in Projector /\ s.rows = r.rows /\ s.refresh = r.refresh /\ s.batch = r.batch
      /\ s.recovery = r.recovery
  BY <1>4 DEF Projector
<1> HIDE DEF s
<1>6. ProjInv(s)
  BY <1>4, <1>5 DEF ProjInv
<1>7. load.status = "failed" /\ ~ p.batch.invalidated /\ ~ GivesUp(p) => back
  BY DEF GivesUp
<1> HIDE DEF back
<1>8. CASE back
  BY <1>1, <1>2, <1>4, <1>5, <1>6, <1>8
<1>9. CASE ~ back
  BY <1>1, <1>2, <1>7, <1>9
<1> QED
  BY <1>8, <1>9
-----------------------------------------------------------------------------
(* Sequences of events.                                                           *)

(* The elements of a sequence with one more at its end. *)
LEMMA AppendIs ==
    ASSUME NEW S, NEW s \in Seq(S), NEW e \in S, NEW t, t = Append(s, e)
    PROVE  /\ t \in Seq(S) /\ Len(s) \in Nat /\ Len(t) = Len(s) + 1 /\ t # <<>>
           /\ \A i \in 1..Len(s) : t[i] = s[i]
           /\ t[Len(s) + 1] = e
OBVIOUS

(* The elements of a sequence without its head. *)
LEMMA TailIs ==
    ASSUME NEW S, NEW s \in Seq(S), s # <<>>, NEW t, t = Tail(s)
    PROVE  /\ t \in Seq(S) /\ Len(s) \in Nat \ {0} /\ Len(t) = Len(s) - 1
           /\ \A i \in 1..Len(t) : t[i] = s[i + 1] /\ i + 1 \in 1..Len(s)
           /\ Head(s) = s[1] /\ s[1] \in S /\ 1 \in 1..Len(s)
           /\ \A i \in 1..Len(s) : i = 1 \/ (i - 1 \in 1..Len(t) /\ t[i - 1] = s[i])
OBVIOUS

(* What waits to be sent and what is on the bus are events. *)
LEMMA EventsAre ==
    ASSUME Types
    PROVE  /\ Len(sending) \in Nat /\ Len(bus) \in Nat
           /\ \A i \in 1..Len(sending) : sending[i] \in Message
           /\ \A i \in 1..Len(bus) : bus[i] \in Message
BY DEF Types

(* The versions of a row are numbers. *)
LEMMA VersionsAre ==
    ASSUME NEW r \in [Keys -> Entry], NEW v \in [Keys -> Ver], NEW k \in Keys, NEW f \in Facets
    PROVE  r[k].there \in BOOLEAN /\ r[k].ver \in Ver /\ r[k].ver[f] \in Nat /\ v[k][f] \in Nat
BY DEF Entry, Ver

-----------------------------------------------------------------------------
(* The initial state.                                                             *)

(* The invariant holds at the start. *)
LEMMA InitHolds == Init => ProjectionInv
<1> SUFFICES ASSUME Init PROVE ProjectionInv
  OBVIOUS
<1>1. Zero \in Ver /\ \A k \in Keys : row[k].ver = Zero /\ row[k].there = TRUE
  BY DEF Init, Zero, Ver
<1>2. row \in [Keys -> Entry]
  BY <1>1 DEF Init, Entry, Ver, Zero
<1>3. NoBatch \in Batch /\ NoBatch.rows = NoRows /\ NoBatch.open = FALSE
  BY NoneCapped DEF NoBatch, Batch
<1>4. NoRecovery \in Recovery /\ NoRecovery.open = FALSE /\ NoRecovery.followUp = 0
  BY DEF NoRecovery, Recovery
<1>5. /\ proj \in Projector /\ proj.rows = NoRows /\ proj.refresh = FALSE
      /\ proj.batch = NoBatch /\ proj.recovery = NoRecovery
  BY <1>3, <1>4, NoneCapped DEF Init, Projector
<1>6. load \in LoadTask /\ load.status = "none"
  BY <1>1 DEF Init, NoLoad, LoadTask, Entry, Ver
<1>7. /\ told \in [Keys -> Ver] /\ sent \in [Keys -> Ver]
      /\ \A k \in Keys : told[k] = row[k].ver /\ sent[k] = row[k].ver
  BY <1>1 DEF Init
<1>8. sending = <<>> /\ bus = <<>> /\ Len(bus) = 0 /\ Len(sending) = 0
  BY DEF Init
<1>9. Types
  <2>1. seq \in Nat /\ lives \in 0..MaxLives /\ seq - lives <= MaxChanges
    BY ProjectionAssumption DEF Init
  <2>2. life \in [Keys -> Nat] /\ seen \in [Keys -> Nat]
    BY DEF Init
  <2>3. sending \in Seq(Message) /\ bus \in Seq(Message) /\ Len(bus) <= BusCap
    BY <1>8, ProjectionAssumption
  <2>4. lagged \in BOOLEAN
    BY DEF Init
  <2>5. /\ timer \in {"off", "armed", "due"} /\ failures \in Nat
        /\ pc \in {"select", "drain", "finish", "tail"}
    BY DEF Init
  <2>6. drained \in 0..ReceiveBatch
    BY ProjectionAssumption DEF Init
  <2> QED
    BY <1>2, <1>5, <1>6, <1>7, <2>1, <2>2, <2>3, <2>4, <2>5, <2>6 DEF Types
<1>10. ProjInv(proj)
  BY <1>3, <1>4, <1>5, NoneCapped DEF ProjInv
<1>11. LoopInv
  BY <1>3, <1>5, <1>6 DEF LoopInv, HasWork, Init
<1>12. SendingInv /\ BusInv
  BY <1>7, <1>8, <1>2, VersionsAre DEF SendingInv, Chain, BusInv, Newest
<1>13. FreshInv /\ LoadedInv
  BY <1>6 DEF FreshInv, LoadedInv, Loaded
<1>14. ToldInv
  BY <1>7 DEF ToldInv
<1>15. LifeInv
  BY <1>4, <1>5, <1>8 DEF LifeInv, Init, Past
<1> QED
  BY <1>9, <1>10, <1>11, <1>12, <1>13, <1>14, <1>15 DEF ProjectionInv

-----------------------------------------------------------------------------
(* A change in the registry: a new event, which names every difference.           *)

(* An event that raises the versions it names keeps the invariant. *)
LEMMA EventHolds ==
    ASSUME ProjectionInv, NEW e \in Message, Formed(e), e.seq = seq + 1,
           row' \in [Keys -> Entry], e.ver = [k \in Keys |-> row'[k].ver],
           \A k \in Keys, f \in Facets :
               /\ row[k].ver[f] <= row'[k].ver[f]
               /\ Names(e, k, f) \/ row'[k].ver[f] = row[k].ver[f],
           seq' = seq + 1, lives' \in 0..MaxLives, seq' - lives' <= MaxChanges,
           life' = [k \in Keys |-> IF Relays(e, k) THEN seq + 1 ELSE life[k]],
           sending' = Append(sending, e),
           UNCHANGED <<busVars, proj, load, timer, pc, drained, failures, sent, told, seen>>
    PROVE  ProjectionInv'
<1> USE DEF ProjectionInv
<1>1. /\ bus' = bus /\ lagged' = lagged /\ proj' = proj /\ load' = load /\ timer' = timer
      /\ pc' = pc /\ drained' = drained /\ failures' = failures /\ sent' = sent
      /\ told' = told /\ seen' = seen
  BY DEF busVars
<1>2. /\ sending' \in Seq(Message) /\ Len(sending) \in Nat /\ Len(sending') = Len(sending) + 1
      /\ sending' # <<>>
      /\ \A i \in 1..Len(sending) : sending'[i] = sending[i]
      /\ sending'[Len(sending) + 1] = e
  BY AppendIs DEF Types
<1>3. Types'
  BY <1>1, <1>2 DEF Types
<1>4. ProjInv(proj)' /\ LoopInv' /\ BusInv'
  BY <1>1 DEF LoopInv, BusInv, Finished
<1>5. SendingInv'
  <2>1. \A i \in 1..Len(sending') : Formed(sending'[i])
    BY <1>2 DEF SendingInv
  <2>2. \A k \in Keys, f \in Facets : e.ver[k][f] = row'[k].ver[f]
    OBVIOUS
  <2>3. Follows(Newest(sent, sending), e)
    BY <2>2 DEF SendingInv, Follows
  <2>4. ASSUME NEW i \in 1..Len(sending')
        PROVE  Follows(IF i = 1 THEN sent' ELSE sending'[i - 1].ver, sending'[i])
    <3>1. CASE i \in 1..Len(sending)
      BY <1>1, <1>2, <3>1 DEF SendingInv, Chain
    <3>2. CASE i = Len(sending) + 1
      <4>1. CASE sending = <<>>
        BY <1>1, <1>2, <2>3, <3>2, <4>1 DEF Newest
      <4>2. CASE sending # <<>>
        <5>1. i # 1 /\ i - 1 = Len(sending) /\ Len(sending) \in 1..Len(sending)
          BY <1>2, <3>2, <4>2 DEF Types
        <5>2. sending'[i - 1] = sending[Len(sending)]
          BY <1>2, <5>1
        <5> QED
          BY <1>2, <2>3, <3>2, <4>2, <5>1, <5>2 DEF Newest
      <4> QED
        BY <4>1, <4>2
    <3> QED
      BY <1>2, <3>1, <3>2
  <2>5. Newest(sent, sending)' = e.ver
    BY <1>2 DEF Newest
  <2>6. ASSUME NEW k \in Keys, NEW f \in Facets
        PROVE  /\ sent'[k][f] <= row'[k].ver[f]
               /\ \A i \in 1..Len(sending') : sending'[i].ver[k][f] <= row'[k].ver[f]
    <3>1. row[k].ver[f] \in Nat /\ row'[k].ver[f] \in Nat /\ sent[k][f] \in Nat
      BY VersionsAre DEF Types
    <3>2. sent[k][f] <= row[k].ver[f] /\ row[k].ver[f] <= row'[k].ver[f]
      BY DEF SendingInv
    <3>3. ASSUME NEW i \in 1..Len(sending)
          PROVE  sending[i].ver[k][f] <= row'[k].ver[f]
      <4>1. sending[i].ver[k][f] \in Nat
        BY EventsAre, MessageIs
      <4>2. sending[i].ver[k][f] <= row[k].ver[f]
        BY DEF SendingInv
      <4> QED
        BY <3>1, <3>2, <4>1, <4>2
    <3> QED
      BY <1>1, <1>2, <2>2, <3>1, <3>2, <3>3
  <2>7. \A k \in Keys, f \in Facets : Newest(sent, sending)'[k][f] = row'[k].ver[f]
    BY <2>2, <2>5
  <2> QED
    BY <2>1, <2>4, <2>6, <2>7 DEF SendingInv, Chain
<1>6. FreshInv'
  BY <1>1 DEF FreshInv, Loaded
<1>7. \A k \in Keys, f \in Facets : Under(k, f) => Under(k, f)'
  BY <1>1, <1>2 DEF Under
<1>8. \A k \in Keys, f \in Facets : Names(e, k, f) => Under(k, f)'
  BY <1>2 DEF Under
<1>9. LoadedInv'
  <2>1. \A k \in Keys : proj.batch.rows[k] \subseteq Facets
    BY ProjectorIs DEF Types
  <2> QED
    BY <1>1, <1>7, <1>8, <2>1 DEF LoadedInv, Loaded
<1>10. ToldInv'
  BY <1>1, <1>7, <1>8 DEF ToldInv
<1>11. LifeInv'
  <2>1. ASSUME NEW k \in Keys
        PROVE  /\ life[k] \in Nat /\ seen[k] \in Nat /\ life'[k] \in Nat
               /\ seen[k] <= life[k] /\ life[k] <= life'[k] /\ life'[k] <= seq'
               /\ \/ life'[k] = life[k]
                  \/ Relays(e, k) /\ life'[k] = e.seq /\ life'[k] > seq
               /\ Relays(e, k) => e.seq <= life'[k]
    <3>1. life[k] \in Nat /\ seen[k] \in Nat /\ seq \in Nat
      BY DEF Types
    <3>2. life'[k] = IF Relays(e, k) THEN seq + 1 ELSE life[k]
      OBVIOUS
    <3>3. seen[k] <= life[k] /\ life[k] <= seq
      BY DEF LifeInv
    <3>4. CASE Relays(e, k)
      BY <3>1, <3>2, <3>3, <3>4
    <3>5. CASE ~ Relays(e, k)
      BY <3>1, <3>2, <3>3, <3>5
    <3> QED
      BY <3>4, <3>5
  <2>2. \A k \in Keys : seen'[k] <= life'[k] /\ life'[k] <= seq'
    BY <1>1, <2>1
  <2>3. Past(bus, life)'
    <3>1. \A i \in 1..Len(bus) : bus[i].seq \in Nat
      BY EventsAre, MessageIs
    <3>2. Past(bus, life)
      BY DEF LifeInv
    <3> QED
      BY <1>1, <2>1, <3>1, <3>2 DEF Past
  <2>4. Past(sending, life)'
    <3>1. \A i \in 1..Len(sending) : sending[i].seq \in Nat
      BY EventsAre, MessageIs
    <3>2. ASSUME NEW i \in 1..Len(sending), NEW k \in Keys, Relays(sending[i], k)
          PROVE  sending[i].seq <= life'[k]
      BY <2>1, <3>1, <3>2 DEF LifeInv, Past
    <3> QED
      BY <1>2, <2>1, <3>2 DEF Past
  <2>5. /\ proj.recovery.followUp <= seq'
        /\ proj.recovery.open =>
            /\ proj.recovery.watermark <= seq'
            /\ \A k \in Keys : life'[k] <= proj.recovery.watermark => seen[k] = life'[k]
    <3>1. /\ proj.recovery.watermark \in Nat /\ proj.recovery.followUp \in Nat
          /\ seq \in Nat
      BY ProjectorIs DEF Types
    <3> QED
      BY <2>1, <3>1 DEF LifeInv
  <2>6. ASSUME NEW k \in Keys
        PROVE  \/ seen'[k] = life'[k] \/ lagged'
               \/ proj'.recovery.open /\ proj'.recovery.followUp # 0
               \/ Carries(bus', k, life'[k]) \/ Carries(sending', k, life'[k])
    <3>1. CASE life'[k] = life[k]
      <4>1. Carries(sending, k, life[k]) => Carries(sending', k, life[k])
        BY <1>2 DEF Carries
      <4>2. \/ seen[k] = life[k] \/ lagged
            \/ proj.recovery.open /\ proj.recovery.followUp # 0
            \/ Carries(bus, k, life[k]) \/ Carries(sending, k, life[k])
        BY DEF LifeInv
      <4>3. \/ seen[k] = life'[k] \/ lagged
            \/ proj.recovery.open /\ proj.recovery.followUp # 0
            \/ Carries(bus, k, life'[k]) \/ Carries(sending', k, life'[k])
        BY <3>1, <4>1, <4>2
      <4> QED
        BY <1>1, <4>3, Zenon
    <3>2. CASE Relays(e, k) /\ life'[k] = e.seq
      <4>1. Len(sending) + 1 \in 1..Len(sending')
        BY <1>2
      <4>2. Carries(sending', k, life'[k])
        BY <1>2, <3>2, <4>1 DEF Carries
      <4> QED
        BY <4>2
    <3> QED
      BY <2>1, <3>1, <3>2
  <2> QED
    BY <1>1, <2>2, <2>3, <2>4, <2>5, <2>6 DEF LifeInv
<1> QED
  BY <1>3, <1>4, <1>5, <1>6, <1>9, <1>10, <1>11
(* The events of the model are of that kind. *)
LEMMA EventKeeps ==
    ASSUME ProjectionInv, NEW type \in {"updated", "idle", "live", "removed", "broad"},
           NEW keys \in SUBSET Keys, NEW F \in SUBSET Facets, NEW rows \in [Keys -> Entry],
           NEW live \in SUBSET Keys,
           Event(type, keys, F, rows, live),
           type \in {"updated", "idle"} => \E k \in Keys : keys = {k},
           type = "broad" => keys = Keys,
           type = "live" => F = {},
           live = IF type \in {"live", "idle"} THEN keys ELSE {},
           \A k \in Keys, f \in Facets :
               /\ row[k].ver[f] <= rows[k].ver[f]
               /\ \/ k \in keys /\ (type \in {"removed", "broad"} \/ f \in F)
                  \/ rows[k].ver[f] = row[k].ver[f],
           lives' \in 0..MaxLives, seq' - lives' <= MaxChanges
    PROVE  ProjectionInv'
<1> DEFINE e == [type |-> type, keys |-> keys, facets |-> F, seq |-> seq + 1,
                 ver |-> [k \in Keys |-> rows[k].ver]]
<1>1. /\ row' = rows /\ seq' = seq + 1 /\ sending' = Append(sending, e)
      /\ life' = [k \in Keys |-> IF k \in live THEN seq + 1 ELSE life[k]]
      /\ UNCHANGED <<busVars, proj, load, timer, pc, drained, failures, sent, told, seen>>
  BY DEF Event
<1>2. seq \in Nat
  BY DEF ProjectionInv, Types
<1>3. [k \in Keys |-> rows[k].ver] \in [Keys -> Ver]
  BY DEF Entry, Ver
<1>4. e \in Message
  <2>1. seq + 1 \in Nat
    BY <1>2
  <2> QED
    BY <1>3, <2>1 DEF Message
<1>5. /\ e.type = type /\ e.keys = keys /\ e.facets = F /\ e.seq = seq + 1
      /\ e.ver = [k \in Keys |-> row'[k].ver]
  BY <1>1
<1> HIDE DEF e
<1>6. Formed(e)
  BY <1>5 DEF Formed
<1>7. \A k \in Keys, f \in Facets :
          /\ row[k].ver[f] <= row'[k].ver[f]
          /\ Names(e, k, f) \/ row'[k].ver[f] = row[k].ver[f]
  BY <1>1, <1>5 DEF Names
<1>8. \A k \in Keys : k \in live <=> Relays(e, k)
  BY <1>5 DEF Relays
<1>9. life' = [k \in Keys |-> IF Relays(e, k) THEN seq + 1 ELSE life[k]]
  <2>1. \A k \in Keys : (IF k \in live THEN seq + 1 ELSE life[k])
                        = (IF Relays(e, k) THEN seq + 1 ELSE life[k])
    BY <1>8
  <2> QED
    BY <1>1, <2>1
<1>11. row' \in [Keys -> Entry]
  BY <1>1
<1> QED
  BY <1>1, <1>4, <1>5, <1>6, <1>7, <1>9, <1>11, EventHolds

(* A commit raises the versions of the facets it changes and no other. *)
LEMMA BumpedIs ==
    ASSUME NEW r \in Entry, NEW F \in SUBSET Facets
    PROVE  /\ Bumped(r, F) \in Entry /\ Bumped(r, F).there = r.there
           /\ \A b \in BOOLEAN :
                 /\ [Bumped(r, F) EXCEPT !.there = b] \in Entry
                 /\ [Bumped(r, F) EXCEPT !.there = b].ver = Bumped(r, F).ver
           /\ \A f \in Facets :
                 /\ r.ver[f] \in Nat
                 /\ Bumped(r, F).ver[f] = IF f \in F THEN r.ver[f] + 1 ELSE r.ver[f]
<1> DEFINE v == [f \in Facets |-> IF f \in F THEN r.ver[f] + 1 ELSE r.ver[f]]
           q == Bumped(r, F)
<1>1. r.ver \in Ver /\ r.there \in BOOLEAN /\ \A f \in Facets : r.ver[f] \in Nat
  BY DEF Entry, Ver
<1>2. v \in [Facets -> Nat]
  BY <1>1
<1>3. q = [r EXCEPT !.ver = v]
  BY DEF Bumped
<1>4. \A f \in Facets : v[f] = IF f \in F THEN r.ver[f] + 1 ELSE r.ver[f]
  OBVIOUS
<1> HIDE DEF v
<1>5. q \in Entry /\ q.there = r.there /\ q.ver = v
  BY <1>2, <1>3 DEF Entry
<1> HIDE DEF q
<1>6. \A b \in BOOLEAN : [q EXCEPT !.there = b] \in Entry /\ [q EXCEPT !.there = b].ver = q.ver
  BY <1>5 DEF Entry
<1> QED
  BY <1>1, <1>4, <1>5, <1>6 DEF q

(* An update of a row keeps the invariant, *)
LEMMA UpdatedHolds ==
    ASSUME ProjectionInv, NEW k \in Keys, NEW F \in SUBSET Facets, Updated(k, F),
           lives' = lives, seq - lives < MaxChanges
    PROVE  ProjectionInv'
<1>0. PICK G \in SUBSET Facets : G = IF row[k].there THEN F ELSE Facets
  OBVIOUS
<1>1. row \in [Keys -> Entry] /\ row[k] \in Entry
  BY DEF ProjectionInv, Types
<1>2. PICK rows : rows = [row EXCEPT ![k] = [Bumped(row[k], G) EXCEPT !.there = TRUE]]
  OBVIOUS
<1>3. Event("updated", {k}, G, rows, {})
  BY <1>0, <1>2, Zenon DEF Updated
<1>4. rows \in [Keys -> Entry]
  BY <1>1, <1>2, BumpedIs
<1>5. \A j \in Keys, f \in Facets :
          /\ row[j].ver[f] <= rows[j].ver[f]
          /\ (j \in {k} /\ f \in G) \/ rows[j].ver[f] = row[j].ver[f]
  <2> SUFFICES ASSUME NEW j \in Keys, NEW f \in Facets
               PROVE  /\ row[j].ver[f] <= rows[j].ver[f]
                      /\ (j \in {k} /\ f \in G) \/ rows[j].ver[f] = row[j].ver[f]
    OBVIOUS
  <2>1. row[j].ver[f] \in Nat
    BY <1>1, VersionsAre DEF ProjectionInv, Types
  <2>2. CASE j = k
    <3>1. rows[j].ver = Bumped(row[k], G).ver
      BY <1>1, <1>2, <2>2, BumpedIs
    <3>2. rows[j].ver[f] = IF f \in G THEN row[j].ver[f] + 1 ELSE row[j].ver[f]
      BY <1>1, <2>2, <3>1, BumpedIs
    <3> QED
      BY <2>1, <2>2, <3>2
  <2>3. CASE j # k
    BY <1>1, <1>2, <2>1, <2>3
  <2> QED
    BY <2>2, <2>3
<1>6. lives' \in 0..MaxLives /\ seq' - lives' <= MaxChanges
  <2>1. seq' = seq + 1
    BY <1>3 DEF Event
  <2> QED
    BY <2>1, ProjectionAssumption DEF ProjectionInv, Types
<1> QED
  BY <1>3, <1>4, <1>5, <1>6, EventKeeps

(* and so does activity on a session, *)
LEMMA ActivityHolds ==
    ASSUME ProjectionInv, NEW k \in Keys, Activity(k)
    PROVE  ProjectionInv'
<1>1. row \in [Keys -> Entry] /\ lives \in 0..MaxLives /\ seq \in Nat /\ seq - lives <= MaxChanges
  BY DEF ProjectionInv, Types
<1>2. PICK rows \in [Keys -> Entry] : rows = row
  BY <1>1
<1>3. Event("live", {k}, {}, rows, {k})
  BY <1>2 DEF Activity
<1>4. \A j \in Keys, f \in Facets : row[j].ver[f] <= rows[j].ver[f]
                                   /\ rows[j].ver[f] = row[j].ver[f]
  BY <1>1, <1>2, VersionsAre DEF Entry, Ver
<1>5. lives' \in 0..MaxLives /\ seq' - lives' <= MaxChanges
  <2>1. seq' = seq + 1 /\ lives' = lives + 1 /\ lives < MaxLives
    BY <1>3 DEF Event, Activity
  <2> QED
    BY <1>1, <2>1, ProjectionAssumption
<1> QED
  BY <1>3, <1>4, <1>5, EventKeeps

(* a session that falls idle, *)
LEMMA IdleHolds ==
    ASSUME ProjectionInv, NEW k \in Keys, Idle(k), lives' = lives, seq - lives < MaxChanges
    PROVE  ProjectionInv'
<1>0. {"metadata"} \in SUBSET Facets
  BY ProjectionAssumption
<1>1. row \in [Keys -> Entry] /\ row[k] \in Entry
  BY DEF ProjectionInv, Types
<1>2. PICK rows : rows = [row EXCEPT ![k] = IF row[k].there THEN Bumped(row[k], {"metadata"})
                                            ELSE row[k]]
  OBVIOUS
<1>3. Event("idle", {k}, {"metadata"}, rows, {k})
  BY <1>2, Zenon DEF Idle
<1>4. rows \in [Keys -> Entry]
  BY <1>0, <1>1, <1>2, BumpedIs
<1>5. \A j \in Keys, f \in Facets :
          /\ row[j].ver[f] <= rows[j].ver[f]
          /\ (j \in {k} /\ f \in {"metadata"}) \/ rows[j].ver[f] = row[j].ver[f]
  <2> SUFFICES ASSUME NEW j \in Keys, NEW f \in Facets
               PROVE  /\ row[j].ver[f] <= rows[j].ver[f]
                      /\ (j \in {k} /\ f \in {"metadata"}) \/ rows[j].ver[f] = row[j].ver[f]
    OBVIOUS
  <2>1. row[j].ver[f] \in Nat
    BY <1>1, VersionsAre DEF ProjectionInv, Types
  <2>2. CASE j = k /\ row[k].there
    <3>1. rows[j] = Bumped(row[k], {"metadata"})
      BY <1>1, <1>2, <2>2
    <3>2. PICK G \in SUBSET Facets : G = {"metadata"}
      BY <1>0
    <3>3. rows[j].ver[f] = IF f \in G THEN row[j].ver[f] + 1 ELSE row[j].ver[f]
      BY <1>1, <2>2, <3>1, <3>2, BumpedIs
    <3> QED
      BY <2>1, <2>2, <3>2, <3>3
  <2>3. CASE ~ (j = k /\ row[k].there)
    BY <1>1, <1>2, <2>1, <2>3
  <2> QED
    BY <2>2, <2>3
<1>6. lives' \in 0..MaxLives /\ seq' - lives' <= MaxChanges
  <2>1. seq' = seq + 1
    BY <1>3 DEF Event
  <2> QED
    BY <2>1, ProjectionAssumption DEF ProjectionInv, Types
<1> QED
  BY <1>0, <1>3, <1>4, <1>5, <1>6, EventKeeps

(* A row with its versions replaced. *)
LEMMA VersionSet ==
    ASSUME NEW r \in Entry, NEW v \in Ver
    PROVE  [r EXCEPT !.ver = v] = [there |-> r.there, ver |-> v]
BY DEF Entry

(* a removed row, *)
LEMMA RemovedHolds ==
    ASSUME ProjectionInv, NEW k \in Keys, Removed(k), lives' = lives, seq - lives < MaxChanges
    PROVE  ProjectionInv'
<1>1. row \in [Keys -> Entry] /\ row[k] \in Entry
  BY DEF ProjectionInv, Types
<1>2. PICK rows : rows = [row EXCEPT ![k].there = FALSE,
                                     ![k].ver = [f \in Facets |-> @[f] + 1]]
  OBVIOUS
<1>3. Event("removed", {k}, {}, rows, {})
  BY <1>2 DEF Removed
<1>4. rows = [row EXCEPT ![k] = [there |-> FALSE, ver |-> [f \in Facets |-> row[k].ver[f] + 1]]]
  <2> DEFINE r == [row EXCEPT ![k].there = FALSE]
  <2>1. /\ r \in [Keys -> Entry] /\ r[k].there = FALSE /\ r[k].ver = row[k].ver
        /\ \A j \in Keys : j # k => r[j] = row[j]
    BY <1>1 DEF Entry
  <2>2. rows = [r EXCEPT ![k].ver = [f \in Facets |-> @[f] + 1]]
    BY <1>2
  <2> HIDE DEF r
  <2>0. PICK v : v = [f \in Facets |-> row[k].ver[f] + 1]
    OBVIOUS
  <2>3. rows = [r EXCEPT ![k].ver = v]
    BY <2>0, <2>1, <2>2
  <2>4. v \in Ver
    BY <1>1, <2>0 DEF Entry, Ver
  <2>5. rows = [r EXCEPT ![k] = [r[k] EXCEPT !.ver = v]]
    BY <2>1, <2>3
  <2>6. [r[k] EXCEPT !.ver = v] = [there |-> FALSE, ver |-> v]
    <3>1. r[k] \in Entry
      BY <2>1
    <3>2. [r[k] EXCEPT !.ver = v] = [there |-> r[k].there, ver |-> v]
      BY <2>4, <3>1, VersionSet
    <3>3. r[k].there = FALSE
      BY <2>1, Zenon
    <3> QED
      BY <3>2, <3>3, Zenon
  <2>7. rows = [row EXCEPT ![k] = [there |-> FALSE, ver |-> v]]
    BY <1>1, <2>1, <2>5, <2>6
  <2> QED
    BY <2>0, <2>7
<1>5. rows \in [Keys -> Entry]
  BY <1>1, <1>4 DEF Entry, Ver
<1>6. \A j \in Keys, f \in Facets :
          /\ row[j].ver[f] <= rows[j].ver[f]
          /\ j \in {k} \/ rows[j].ver[f] = row[j].ver[f]
  <2> SUFFICES ASSUME NEW j \in Keys, NEW f \in Facets
               PROVE  /\ row[j].ver[f] <= rows[j].ver[f]
                      /\ j \in {k} \/ rows[j].ver[f] = row[j].ver[f]
    OBVIOUS
  <2>1. row[j].ver[f] \in Nat
    BY <1>1, VersionsAre DEF ProjectionInv, Types
  <2> QED
    BY <1>1, <1>4, <2>1
<1>7. lives' \in 0..MaxLives /\ seq' - lives' <= MaxChanges
  <2>1. seq' = seq + 1
    BY <1>3 DEF Event
  <2> QED
    BY <2>1, ProjectionAssumption DEF ProjectionInv, Types
<1> QED
  BY <1>3, <1>5, <1>6, <1>7, EventKeeps

(* and a change of all the rows. *)
LEMMA BroadHolds ==
    ASSUME ProjectionInv, NEW there \in BOOLEAN, Broad(there), lives' = lives,
           seq - lives < MaxChanges
    PROVE  ProjectionInv'
<1>1. row \in [Keys -> Entry]
  BY DEF ProjectionInv, Types
<1>2. PICK rows : rows = [k \in Keys |-> IF row[k].there
                                         THEN [Bumped(row[k], Facets) EXCEPT !.there = there]
                                         ELSE row[k]]
  OBVIOUS
<1>3. Event("broad", Keys, {}, rows, {})
  BY <1>2 DEF Broad
<1>4. rows \in [Keys -> Entry]
  BY <1>1, <1>2, BumpedIs
<1>5. \A k \in Keys, f \in Facets : row[k].ver[f] <= rows[k].ver[f]
  <2> SUFFICES ASSUME NEW k \in Keys, NEW f \in Facets
               PROVE  row[k].ver[f] <= rows[k].ver[f]
    OBVIOUS
  <2>1. row[k].ver[f] \in Nat /\ row[k] \in Entry
    BY <1>1, VersionsAre DEF ProjectionInv, Types
  <2>2. CASE row[k].there
    <3>1. PICK G \in SUBSET Facets : G = Facets
      OBVIOUS
    <3>2. rows[k].ver = Bumped(row[k], G).ver
      BY <1>2, <2>1, <2>2, <3>1, BumpedIs
    <3>3. rows[k].ver[f] = row[k].ver[f] + 1
      BY <2>1, <3>1, <3>2, BumpedIs
    <3> QED
      BY <2>1, <3>3
  <2>3. CASE ~ row[k].there
    BY <1>2, <2>1, <2>3
  <2> QED
    BY <2>2, <2>3
<1>6. lives' \in 0..MaxLives /\ seq' - lives' <= MaxChanges
  <2>1. seq' = seq + 1
    BY <1>3 DEF Event
  <2> QED
    BY <2>1, ProjectionAssumption DEF ProjectionInv, Types
<1> QED
  BY <1>3, <1>4, <1>5, <1>6, EventKeeps

(* Every change that the registry announces.                                      *)
LEMMA RegistryHolds == ProjectionInv /\ Registry => ProjectionInv'
BY ActivityHolds, UpdatedHolds, IdleHolds, RemovedHolds, BroadHolds DEF Registry
-----------------------------------------------------------------------------
(* The bus.                                                                       *)

(* A sequence with a length is not empty. *)
LEMMA NotEmpty ==
    ASSUME NEW S, NEW s \in Seq(S), Len(s) # 0
    PROVE  s # <<>>
OBVIOUS

(* Events that follow a state still do after the first has been taken. *)
LEMMA TailFollows ==
    ASSUME NEW es \in Seq(Message), es # <<>>, NEW v, NEW u, NEW es2, es2 = Tail(es),
           Alike(u, es[1].ver), Chain(v, es)
    PROVE  Chain(u, es2) /\ Alike(Newest(u, es2), Newest(v, es))
<1>1. /\ es2 \in Seq(Message) /\ Len(es) \in Nat \ {0} /\ Len(es2) = Len(es) - 1
      /\ \A i \in 1..Len(es2) : es2[i] = es[i + 1] /\ i + 1 \in 1..Len(es)
  BY TailIs
<1>2. ASSUME NEW i \in 1..Len(es2)
      PROVE  Follows(IF i = 1 THEN u ELSE es2[i - 1].ver, es2[i])
  <2>1. es2[i] = es[i + 1] /\ i + 1 \in 1..Len(es) /\ i + 1 # 1 /\ i + 1 - 1 = i
    BY <1>1
  <2>2. Follows(es[i].ver, es[i + 1])
    BY <2>1 DEF Chain
  <2>3. CASE i = 1
    BY <2>1, <2>2, <2>3 DEF Follows, Alike
  <2>4. CASE i # 1
    <3>1. i - 1 \in 1..Len(es2) /\ i - 1 + 1 = i
      BY <1>1, <2>4
    <3>2. es2[i - 1] = es[i]
      BY <1>1, <3>1
    <3> QED
      BY <2>1, <2>2, <2>4, <3>2
  <2> QED
    BY <2>3, <2>4
<1>3. ASSUME NEW k \in Keys, NEW f \in Facets
      PROVE  Newest(u, es2)[k][f] = Newest(v, es)[k][f]
  <2>1. CASE Len(es) = 1
    BY <1>1, <2>1 DEF Newest, Alike
  <2>2. CASE Len(es) # 1
    <3>0. PICK n \in Nat : n = Len(es) /\ n # 0
      BY <1>1
    <3>1. Len(es2) \in 1..Len(es2) /\ Len(es2) + 1 = Len(es)
      <4>1. Len(es2) = n - 1 /\ n # 1
        BY <1>1, <2>2, <3>0
      <4> QED
        BY <3>0, <4>1
    <3>3. es2 # <<>>
      <4>1. Len(es2) # 0
        BY <1>1, <2>2, <3>0
      <4> QED
        BY <1>1, <4>1, NotEmpty
    <3>2. es2[Len(es2)] = es[Len(es)]
      BY <1>1, <3>1
    <3> QED
      BY <3>2, <3>3 DEF Newest
  <2> QED
    BY <2>1, <2>2
<1> QED
  BY <1>2, <1>3 DEF Chain, Alike

(* A send to a full bus pushes its oldest event out, *)
LEMMA OnFullBus ==
    ASSUME NEW b \in Seq(Message), Len(b) = BusCap, NEW e \in Message, NEW c,
           c = Append(Tail(b), e)
    PROVE  /\ c \in Seq(Message) /\ Len(c) \in Nat \ {0} /\ Len(c) <= BusCap
           /\ c[Len(c)] = e
           /\ \A i \in 1..Len(c) : c[i] = e \/ \E j \in 1..Len(b) : c[i] = b[j]
<1>1. BusCap \in Nat \ {0} /\ Len(b) \in Nat
  BY ProjectionAssumption
<1>2. b # <<>>
  BY <1>1
<1>3. PICK t : t = Tail(b)
  OBVIOUS
<1>4. /\ t \in Seq(Message) /\ Len(t) = Len(b) - 1
      /\ \A i \in 1..Len(t) : t[i] = b[i + 1] /\ i + 1 \in 1..Len(b)
  BY <1>2, <1>3, TailIs
<1>5. c = Append(t, e)
  BY <1>3
<1>6. /\ c \in Seq(Message) /\ Len(c) = Len(t) + 1 /\ c[Len(t) + 1] = e
      /\ \A i \in 1..Len(t) : c[i] = t[i]
  BY <1>4, <1>5, AppendIs
<1> QED
  BY <1>1, <1>4, <1>6

(* and one to a bus with room loses nothing. *)
LEMMA OnRoomyBus ==
    ASSUME NEW b \in Seq(Message), Len(b) <= BusCap, Len(b) # BusCap, NEW e \in Message, NEW c,
           c = Append(b, e)
    PROVE  /\ c \in Seq(Message) /\ Len(c) \in Nat \ {0} /\ Len(c) <= BusCap
           /\ c[Len(c)] = e
           /\ \A i \in 1..Len(c) : c[i] = e \/ \E j \in 1..Len(b) : c[i] = b[j]
           /\ \A j \in 1..Len(b) : j \in 1..Len(c) /\ c[j] = b[j]
<1>1. BusCap \in Nat \ {0} /\ Len(b) \in Nat
  BY ProjectionAssumption
<1>2. /\ c \in Seq(Message) /\ Len(c) = Len(b) + 1 /\ c[Len(b) + 1] = e
      /\ \A i \in 1..Len(b) : c[i] = b[i]
  BY AppendIs
<1> QED
  BY <1>1, <1>2

(* What the bus holds after a message: the message is the last one, and a message *)
(* that fell out has left the mark of a lag.                                      *)
LEMMA OnBus ==
    ASSUME NEW b \in Seq(Message), Len(b) <= BusCap, NEW e \in Message, NEW c,
           c = Append(IF Len(b) = BusCap THEN Tail(b) ELSE b, e)
    PROVE  /\ c \in Seq(Message) /\ Len(c) \in Nat \ {0} /\ Len(c) <= BusCap
           /\ c[Len(c)] = e
           /\ \A i \in 1..Len(c) : c[i] = e \/ \E j \in 1..Len(b) : c[i] = b[j]
           /\ Len(b) # BusCap => \A j \in 1..Len(b) : j \in 1..Len(c) /\ c[j] = b[j]
<1>1. CASE Len(b) = BusCap
  <2>1. c = Append(Tail(b), e)
    BY <1>1
  <2> QED
    BY <1>1, <2>1, OnFullBus
<1>2. CASE Len(b) # BusCap
  <2>1. c = Append(b, e)
    BY <1>2
  <2> QED
    BY <1>2, <2>1, OnRoomyBus
<1> QED
  BY <1>1, <1>2

(* A send, with or without a loss, keeps the invariant. *)
LEMMA SendHolds == ProjectionInv /\ Send => ProjectionInv'
<1> SUFFICES ASSUME ProjectionInv, Send PROVE ProjectionInv'
  OBVIOUS
<1> USE DEF ProjectionInv
<1> DEFINE e == sending[1]
<1>1. /\ row' = row /\ seq' = seq /\ lives' = lives /\ life' = life /\ proj' = proj
      /\ load' = load /\ timer' = timer /\ pc' = pc /\ drained' = drained
      /\ failures' = failures /\ told' = told /\ seen' = seen
      /\ lagged' = (lagged \/ Len(bus) = BusCap)
  BY DEF Send
<1>2. /\ sending \in Seq(Message) /\ sending # <<>> /\ sending' = Tail(sending)
      /\ bus \in Seq(Message) /\ Len(bus) <= BusCap
  BY DEF Types, Send
<1>3. /\ sending' \in Seq(Message) /\ Len(sending) \in Nat \ {0}
      /\ Len(sending') = Len(sending) - 1
      /\ \A i \in 1..Len(sending') : sending'[i] = sending[i + 1] /\ i + 1 \in 1..Len(sending)
      /\ Head(sending) = sending[1] /\ sending[1] \in Message /\ 1 \in 1..Len(sending)
      /\ \A i \in 1..Len(sending) :
             i = 1 \/ (i - 1 \in 1..Len(sending') /\ sending'[i - 1] = sending[i])
  BY <1>2, TailIs
<1>4. bus' = Append(IF Len(bus) = BusCap THEN Tail(bus) ELSE bus, e)
  BY <1>3 DEF Send
<1>5. /\ bus' \in Seq(Message) /\ Len(bus') \in Nat \ {0} /\ Len(bus') <= BusCap
      /\ bus'[Len(bus')] = e
      /\ \A i \in 1..Len(bus') : bus'[i] = e \/ \E j \in 1..Len(bus) : bus'[i] = bus[j]
      /\ Len(bus) # BusCap => \A j \in 1..Len(bus) : j \in 1..Len(bus') /\ bus'[j] = bus[j]
  BY <1>2, <1>3, <1>4, OnBus
<1>6. /\ sent' \in [Keys -> Ver]
      /\ \A k \in Keys : sent'[k] = IF k \in e.keys THEN e.ver[k] ELSE sent[k]
  <2>1. sent' = [k \in Keys |-> IF k \in e.keys THEN e.ver[k] ELSE sent[k]]
    BY <1>3 DEF Send
  <2>2. \A k \in Keys : e.ver[k] \in Ver /\ sent[k] \in Ver
    BY <1>3, MessageIs DEF Types
  <2> QED
    BY <2>1, <2>2
<1> HIDE DEF e
<1>7. Types'
  <2>1. lagged' \in BOOLEAN
    BY <1>1
  <2> QED
    BY <1>1, <1>3, <1>5, <1>6, <2>1 DEF Types
<1>8. ProjInv(proj)' /\ LoopInv'
  BY <1>1 DEF LoopInv, Finished
<1>9. Formed(e) /\ e \in Message
  BY <1>3 DEF SendingInv, e
<1>10. BusInv'
  BY <1>5, <1>9 DEF BusInv
<1>11. Follows(sent, e)
  BY <1>3 DEF SendingInv, Chain, e
<1>12. \A k \in Keys, f \in Facets : sent'[k][f] = e.ver[k][f]
  BY <1>6, <1>11 DEF Follows, Names
<1>13. \A k \in Keys, f \in Facets : sent'[k][f] = sent[k][f] \/ Retires(e, k)
  BY <1>9, <1>11, <1>12 DEF Follows, Names, Retires, Formed
<1>14. SendingInv'
  <2>1. \A i \in 1..Len(sending') : Formed(sending'[i])
    BY <1>3 DEF SendingInv
  <2>2. PICK u \in [Keys -> Ver] : u = sent'
    BY <1>6
  <2>3. PICK es2 : es2 = sending'
    OBVIOUS
  <2>4. PICK es \in Seq(Message) : es = sending
    BY <1>2
  <2>9. PICK v : v = sent
    OBVIOUS
  <2>5. Chain(u, es2) /\ Alike(Newest(u, es2), Newest(v, es))
    <3>1. es # <<>> /\ es2 = Tail(es)
      BY <1>2, <2>3, <2>4
    <3>2. Chain(v, es)
      BY <2>4, <2>9 DEF SendingInv
    <3>3. Alike(u, es[1].ver)
      BY <1>12, <2>2, <2>4, <2>9 DEF e, Alike
    <3> QED
      BY <3>1, <3>2, <3>3, TailFollows
  <2>6. Chain(sent', sending')
    BY <2>2, <2>3, <2>5
  <2>7. \A k \in Keys, f \in Facets : Newest(sent', sending')[k][f] = row'[k].ver[f]
    BY <1>1, <2>2, <2>3, <2>4, <2>5, <2>9 DEF SendingInv, Alike
  <2>8. \A k \in Keys, f \in Facets :
            /\ sent'[k][f] <= row'[k].ver[f]
            /\ \A i \in 1..Len(sending') : sending'[i].ver[k][f] <= row'[k].ver[f]
    BY <1>1, <1>3, <1>12 DEF SendingInv, e
  <2> QED
    BY <2>1, <2>6, <2>7, <2>8 DEF SendingInv
<1>15. FreshInv'
  <2> SUFFICES ASSUME NEW k \in Keys, Loaded(k)
               PROVE  \/ lagged'
                      \/ \E i \in 1..Len(bus') : Retires(bus'[i], k)
                      \/ \A f \in Facets : sent'[k][f] <= load.rows[k].ver[f]
    BY <1>1 DEF FreshInv, Loaded
  <2>1. \/ lagged
        \/ \E i \in 1..Len(bus) : Retires(bus[i], k)
        \/ \A f \in Facets : sent[k][f] <= load.rows[k].ver[f]
    BY DEF FreshInv
  <2>2. CASE lagged \/ Len(bus) = BusCap
    BY <1>1, <2>2
  <2>3. CASE ~ lagged /\ Len(bus) # BusCap
    <3>1. CASE \E i \in 1..Len(bus) : Retires(bus[i], k)
      BY <1>5, <2>3, <3>1
    <3>2. CASE Retires(e, k)
      <4>1. Len(bus') \in 1..Len(bus')
        BY <1>5
      <4> QED
        BY <1>5, <3>2, <4>1
    <3>3. CASE ~ Retires(e, k) /\ \A f \in Facets : sent[k][f] <= load.rows[k].ver[f]
      BY <1>13, <3>3
    <3> QED
      BY <2>1, <2>3, <3>1, <3>2, <3>3
  <2> QED
    BY <2>2, <2>3
<1>16. \A k \in Keys, f \in Facets : Under(k, f) => lagged' \/ Under(k, f)'
  <2> SUFFICES ASSUME NEW k \in Keys, NEW f \in Facets, Under(k, f), Len(bus) # BusCap
               PROVE  Under(k, f)'
    BY <1>1
  <2>1. CASE \E i \in 1..Len(bus) : Names(bus[i], k, f)
    BY <1>5, <2>1 DEF Under
  <2>2. ASSUME NEW i \in 1..Len(sending), Names(sending[i], k, f)
        PROVE  Under(k, f)'
    <3>1. CASE i = 1
      <4>1. Len(bus') \in 1..Len(bus') /\ Names(bus'[Len(bus')], k, f)
        BY <1>5, <2>2, <3>1 DEF e
      <4> QED
        BY <4>1 DEF Under
    <3>2. CASE i # 1
      BY <1>3, <2>2, <3>2 DEF Under
    <3> QED
      BY <3>1, <3>2
  <2> QED
    BY <2>1, <2>2 DEF Under
<1>17. lagged => lagged'
  BY <1>1
<1>18. LoadedInv'
  <2>1. \A k \in Keys : proj.batch.rows[k] \subseteq Facets
    BY ProjectorIs DEF Types
  <2> QED
    BY <1>1, <1>16, <1>17, <2>1 DEF LoadedInv, Loaded
<1>19. ToldInv'
  BY <1>1, <1>16, <1>17 DEF ToldInv
<1>20. LifeInv'
  <2>1. Past(bus', life)
    <3>1. \A k \in Keys : Relays(e, k) => e.seq <= life[k]
      BY <1>3 DEF LifeInv, Past, e
    <3> QED
      BY <1>5, <3>1 DEF LifeInv, Past
  <2>2. Past(sending', life)
    BY <1>3 DEF LifeInv, Past
  <2>3. ASSUME NEW k \in Keys, Carries(bus, k, life[k])
        PROVE  lagged' \/ Carries(bus', k, life[k])
    BY <1>1, <1>5, <2>3 DEF Carries
  <2>4. ASSUME NEW k \in Keys, Carries(sending, k, life[k])
        PROVE  Carries(bus', k, life[k]) \/ Carries(sending', k, life[k])
    <3>1. PICK i \in 1..Len(sending) : Relays(sending[i], k) /\ sending[i].seq = life[k]
      BY <2>4 DEF Carries
    <3>2. CASE i = 1
      <4>1. Len(bus') \in 1..Len(bus') /\ Relays(bus'[Len(bus')], k)
            /\ bus'[Len(bus')].seq = life[k]
        BY <1>5, <3>1, <3>2 DEF e
      <4> QED
        BY <4>1 DEF Carries
    <3>3. CASE i # 1
      BY <1>3, <3>1, <3>3 DEF Carries
    <3> QED
      BY <3>2, <3>3
  <2>5. \A k \in Keys :
            \/ seen[k] = life[k] \/ lagged'
            \/ proj.recovery.open /\ proj.recovery.followUp # 0
            \/ Carries(bus', k, life[k]) \/ Carries(sending', k, life[k])
    BY <1>17, <2>3, <2>4 DEF LifeInv
  <2> QED
    BY <1>1, <2>1, <2>2, <2>5 DEF LifeInv
<1> QED
  BY <1>7, <1>8, <1>10, <1>14, <1>15, <1>18, <1>19, <1>20
-----------------------------------------------------------------------------
(* The receipt of one item, from the loop or in front of a finished load.         *)

(* Everything but the point of the loop.                                          *)
DataInv ==
    /\ ProjInv(proj) /\ SendingInv /\ BusInv /\ FreshInv /\ LoadedInv /\ ToldInv /\ LifeInv

(* A gap: the rows are lost to a refresh, and the recovery that is open then has  *)
(* marked what was lost or will mark it when it ends.                             *)
LEMMA GapLives ==
    ASSUME Types, LifeInv, seq' = seq, life' = life, bus' = bus, sending' = sending,
           proj'.recovery.open, proj'.recovery.followUp <= seq,
           ~ proj.recovery.open => proj'.recovery.watermark = seq /\ seen' = life,
           proj.recovery.open =>
               /\ seen' = seen
               /\ proj'.recovery.watermark = proj.recovery.watermark
               /\ seq > proj.recovery.watermark => proj'.recovery.followUp # 0
               /\ proj.recovery.followUp # 0 => proj'.recovery.followUp # 0
    PROVE  LifeInv'
<1>1. \A k \in Keys : life[k] \in Nat /\ seen[k] \in Nat
  BY DEF Types
<1>2. seq \in Nat /\ proj.recovery.watermark \in Nat
  BY ProjectorIs DEF Types
<1>3. CASE ~ proj.recovery.open
  BY <1>1, <1>2, <1>3 DEF LifeInv
<1>4. CASE proj.recovery.open
  <2>1. ASSUME NEW k \in Keys
        PROVE  seen[k] = life[k] \/ proj'.recovery.followUp # 0
    <3>1. CASE seq > proj.recovery.watermark
      BY <1>4, <3>1
    <3>2. CASE ~ (seq > proj.recovery.watermark)
      BY <1>1, <1>2, <1>4, <3>2 DEF LifeInv
    <3> QED
      BY <3>1, <3>2
  <2> QED
    BY <1>4, <2>1 DEF LifeInv
<1> QED
  BY <1>3, <1>4

(* A receiver that has lagged keeps the data invariant and asks for a refresh. *)
LEMMA LagReceived ==
    ASSUME ProjectionInv, Receive, lagged
    PROVE  /\ DataInv' /\ proj'.batch.open = proj.batch.open
           /\ proj' \in Projector /\ told' = told /\ bus' = bus /\ seen' \in [Keys -> Nat]
           /\ lagged' = FALSE
<1> USE DEF ProjectionInv
<1>1. /\ row' = row /\ seq' = seq /\ life' = life /\ sending' = sending /\ bus' = bus
      /\ lagged' = FALSE /\ load' = load /\ sent' = sent /\ told' = told
      /\ proj' = AbsorbLag(proj, seq)
      /\ proj.recovery.open => seen' = seen
      /\ ~ proj.recovery.open => seen' = life
  BY DEF Receive, storeVars, Mark
<1>2. proj \in Projector /\ seq \in Nat
  BY DEF Types
<1>3. /\ proj.recovery.open => proj.recovery.watermark <= seq
      /\ proj.recovery.followUp <= seq
  BY DEF LifeInv
<1>4. PICK w \in Nat : w = seq
  BY <1>2
<1>5. LET q == AbsorbLag(proj, w)
      IN  /\ q \in Projector /\ ProjInv(q)
          /\ q.rows = NoRows /\ q.refresh = TRUE
          /\ q.batch.rows = proj.batch.rows /\ q.batch.open = proj.batch.open
          /\ q.batch.invalidated = proj.batch.open
          /\ q.recovery.open /\ q.recovery.followUp <= w
          /\ ~ proj.recovery.open => q.recovery.watermark = w
          /\ proj.recovery.open =>
                 /\ q.recovery.watermark = proj.recovery.watermark
                 /\ w > proj.recovery.watermark => q.recovery.followUp # 0
                 /\ proj.recovery.followUp # 0 => q.recovery.followUp # 0
  BY <1>2, <1>3, <1>4, AbsorbLagFacts
<1>6. /\ proj' \in Projector /\ ProjInv(proj')
      /\ proj'.refresh = TRUE /\ proj'.batch.open = proj.batch.open
      /\ proj'.batch.invalidated = proj.batch.open
      /\ proj'.recovery.open /\ proj'.recovery.followUp <= seq
      /\ ~ proj.recovery.open => proj'.recovery.watermark = seq
      /\ proj.recovery.open =>
             /\ proj'.recovery.watermark = proj.recovery.watermark
             /\ seq > proj.recovery.watermark => proj'.recovery.followUp # 0
             /\ proj.recovery.followUp # 0 => proj'.recovery.followUp # 0
  BY <1>1, <1>4, <1>5
<1>7. SendingInv' /\ BusInv'
  BY <1>1 DEF SendingInv, BusInv
<1>8. \A k \in Keys : ~ Loaded(k)'
  BY <1>1, <1>6 DEF Loaded, LoopInv
<1>9. FreshInv' /\ LoadedInv'
  BY <1>8 DEF FreshInv, LoadedInv
<1>10. ToldInv'
  BY <1>6 DEF ToldInv
<1>11. LifeInv'
  BY <1>1, <1>6, GapLives
<1>12. seen' \in [Keys -> Nat]
  BY <1>1 DEF Types
<1> QED
  BY <1>1, <1>6, <1>7, <1>9, <1>10, <1>11, <1>12 DEF DataInv

(* A receiver that takes an event keeps the data invariant. *)
LEMMA EventReceived ==
    ASSUME ProjectionInv, Receive, ~ lagged
    PROVE  /\ DataInv' /\ proj'.batch.open = proj.batch.open
           /\ proj' \in Projector /\ told' \in [Keys -> Ver]
           /\ bus' \in Seq(Message) /\ Len(bus') <= BusCap /\ seen' \in [Keys -> Nat]
           /\ lagged' = lagged
<1> USE DEF ProjectionInv
<1> DEFINE e == bus[1]
<1>1. /\ row' = row /\ seq' = seq /\ life' = life /\ sending' = sending /\ lagged' = lagged
      /\ load' = load /\ sent' = sent
  BY DEF Receive, storeVars
<1>2. bus \in Seq(Message) /\ bus # <<>> /\ bus' = Tail(bus) /\ Len(bus) <= BusCap
  BY DEF Receive, BusReady, Types
<1>3. /\ bus' \in Seq(Message) /\ Len(bus) \in Nat \ {0} /\ Len(bus') = Len(bus) - 1
      /\ \A i \in 1..Len(bus') : bus'[i] = bus[i + 1] /\ i + 1 \in 1..Len(bus)
      /\ Head(bus) = bus[1] /\ bus[1] \in Message /\ 1 \in 1..Len(bus)
      /\ \A i \in 1..Len(bus) :
             i = 1 \/ (i - 1 \in 1..Len(bus') /\ bus'[i - 1] = bus[i])
  BY <1>2, TailIs
<1>4. /\ proj' = Absorbed(proj, e)
      /\ e.type \in {"removed", "broad"} => TellRows(e.keys)
      /\ e.type \notin {"removed", "broad"} => told' = told
      /\ seen' = [k \in Keys |-> IF Relayed(e, k) THEN e.seq ELSE seen[k]]
  BY <1>3 DEF Receive
<1>5. e \in Message /\ Formed(e) /\ proj \in Projector /\ ProjInv(proj)
  BY <1>3 DEF BusInv, Types
<1>6. PICK m \in Message : m = e /\ Formed(m)
  BY <1>5
<1>7. Receipt(proj, m, Absorbed(proj, m))
  BY <1>5, <1>6, AbsorbedFacts
<1>8. Receipt(proj, e, proj')
  BY <1>4, <1>6, <1>7
<1> HIDE DEF e
<1>9. \A k \in Keys : /\ Settles(e, k) => told'[k] = row[k].ver
                      /\ ~ Settles(e, k) => told'[k] = told[k]
  BY <1>4 DEF TellRows, Settles
<1>10. told' \in [Keys -> Ver]
  <2>1. \A k \in Keys : row[k].ver \in Ver /\ told[k] \in Ver
    BY DEF Types, Entry, Ver
  <2> QED
    BY <1>4, <2>1 DEF TellRows, Types
<1>11. \A k \in Keys : Relayed(e, k) <=> Relays(e, k) /\ e.seq > seen[k]
  BY DEF Relayed, Relays
<1>12. \A k \in Keys : seen'[k] = IF Relays(e, k) /\ e.seq > seen[k] THEN e.seq ELSE seen[k]
  BY <1>4, <1>11
<1>13. seen' \in [Keys -> Nat]
  <2>1. e.seq \in Nat
    BY <1>5, MessageIs
  <2>2. \A k \in Keys : seen[k] \in Nat
    BY DEF Types
  <2> QED
    BY <1>4, <2>1, <2>2
<1>14. Len(bus') <= BusCap
  BY <1>2, <1>3, ProjectionAssumption
<1>15. SendingInv'
  BY <1>1 DEF SendingInv
<1>16. BusInv'
  BY <1>3 DEF BusInv
<1>17. ASSUME NEW k \in Keys, Loaded(k)'
       PROVE  Loaded(k) /\ ~ Retires(e, k) /\ proj'.batch.rows[k] = proj.batch.rows[k]
  <2>1. proj.batch.open
    BY <1>1, <1>17 DEF Loaded, LoopInv
  <2> QED
    BY <1>1, <1>8, <1>17, <2>1 DEF Loaded, Receipt
<1>18. ASSUME NEW k \in Keys, NEW f \in Facets, Under(k, f)
       PROVE  Names(e, k, f) \/ Under(k, f)'
  <2>1. ASSUME NEW i \in 1..Len(bus), Names(bus[i], k, f), i # 1
        PROVE  Under(k, f)'
    BY <1>3, <2>1 DEF Under
  <2>2. (\E i \in 1..Len(sending) : Names(sending[i], k, f)) => Under(k, f)'
    BY <1>1 DEF Under
  <2> QED
    BY <1>18, <2>1, <2>2 DEF Under, e
<1>19. FreshInv'
  <2> SUFFICES ASSUME NEW k \in Keys, Loaded(k)'
               PROVE  \/ \E i \in 1..Len(bus') : Retires(bus'[i], k)
                      \/ \A f \in Facets : sent[k][f] <= load.rows[k].ver[f]
    BY <1>1 DEF FreshInv
  <2>1. Loaded(k) /\ ~ Retires(e, k)
    BY <1>17
  <2>2. CASE \E i \in 1..Len(bus) : Retires(bus[i], k)
    BY <1>3, <2>1, <2>2 DEF e
  <2> QED
    BY <2>1, <2>2 DEF FreshInv
<1>20. LoadedInv'
  <2> SUFFICES ASSUME NEW k \in Keys, Loaded(k)', NEW f \in proj.batch.rows[k]
               PROVE  Under(k, f)' \/ load.rows[k].ver[f] = row[k].ver[f]
    BY <1>1, <1>17 DEF LoadedInv
  <2>1. Loaded(k) /\ ~ Retires(e, k) /\ f \in Facets
    BY <1>17, ProjectorIs DEF Types
  <2>2. ~ Names(e, k, f)
    BY <1>5, <2>1 DEF Names, Retires, Formed
  <2> QED
    BY <1>18, <2>1, <2>2 DEF LoadedInv
<1>21. ToldInv'
  <2> SUFFICES ASSUME NEW k \in Keys, NEW f \in Facets
               PROVE  \/ told'[k][f] = row[k].ver[f]
                      \/ proj'.refresh \/ f \in proj'.rows[k]
                      \/ /\ proj'.batch.open /\ ~ proj'.batch.invalidated
                         /\ f \in proj'.batch.rows[k]
                      \/ Under(k, f)'
    BY <1>1 DEF ToldInv
  <2>1. CASE Settles(e, k)
    BY <1>9, <2>1
  <2>2. CASE ~ Settles(e, k)
    <3>1. CASE told[k][f] = row[k].ver[f]
      BY <1>9, <2>2, <3>1
    <3>2. CASE proj.refresh \/ f \in proj.rows[k] \/ Names(e, k, f)
      BY <1>8, <2>2, <3>2 DEF Receipt
    <3>3. CASE proj.batch.open /\ ~ proj.batch.invalidated /\ f \in proj.batch.rows[k]
      <4>1. CASE proj'.batch.invalidated # proj.batch.invalidated
        BY <1>8, <2>2, <4>1 DEF Receipt
      <4>2. CASE proj'.batch.invalidated = proj.batch.invalidated
        BY <1>8, <2>2, <3>3, <4>2 DEF Receipt
      <4> QED
        BY <4>1, <4>2
    <3>4. CASE Under(k, f)
      BY <1>8, <1>18, <2>2, <3>2, <3>4
    <3> QED
      BY <3>1, <3>2, <3>3, <3>4 DEF ToldInv
  <2> QED
    BY <2>1, <2>2
<1>22. LifeInv'
  <2>1. ASSUME NEW k \in Keys
        PROVE  /\ seen[k] \in Nat /\ life[k] \in Nat /\ e.seq \in Nat
               /\ seen[k] <= life[k]
               /\ Relays(e, k) => e.seq <= life[k]
    BY <1>3, <1>5, MessageIs DEF Types, LifeInv, Past, e
  <2>2. ASSUME NEW k \in Keys
        PROVE  /\ seen'[k] <= life[k]
               /\ seen[k] = life[k] => seen'[k] = life[k]
               /\ Relays(e, k) /\ e.seq = life[k] => seen'[k] = life[k]
    BY <1>12, <2>1
  <2>3. Past(bus', life)
    BY <1>3 DEF LifeInv, Past
  <2>4. ASSUME NEW k \in Keys, Carries(bus, k, life[k])
        PROVE  seen'[k] = life[k] \/ Carries(bus', k, life[k])
    <3>1. PICK i \in 1..Len(bus) : Relays(bus[i], k) /\ bus[i].seq = life[k]
      BY <2>4 DEF Carries
    <3>2. CASE i = 1
      BY <2>2, <3>1, <3>2 DEF e
    <3>3. CASE i # 1
      BY <1>3, <3>1, <3>3 DEF Carries
    <3> QED
      BY <3>2, <3>3
  <2>5. proj'.recovery = proj.recovery
    BY <1>8 DEF Receipt
  <2>6. \A k \in Keys :
            \/ seen'[k] = life[k]
            \/ proj'.recovery.open /\ proj'.recovery.followUp # 0
            \/ Carries(bus', k, life[k]) \/ Carries(sending, k, life[k])
    BY <2>2, <2>4, <2>5 DEF LifeInv
  <2> QED
    BY <1>1, <2>2, <2>3, <2>5, <2>6 DEF LifeInv
<1>23. /\ proj' \in Projector /\ ProjInv(proj') /\ proj'.batch.open = proj.batch.open
  BY <1>8 DEF Receipt
<1> QED
  BY <1>1, <1>3, <1>10, <1>13, <1>14, <1>15, <1>16, <1>19, <1>20, <1>21, <1>22, <1>23 DEF DataInv

(* A receive keeps the data invariant in either case. *)
LEMMA ReceiveHolds ==
    ASSUME ProjectionInv, Receive
    PROVE  /\ DataInv' /\ proj'.batch.open = proj.batch.open
           /\ proj' \in Projector /\ told' \in [Keys -> Ver]
           /\ bus' \in Seq(Message) /\ Len(bus') <= BusCap /\ seen' \in [Keys -> Nat]
           /\ lagged' \in BOOLEAN
<1>1. CASE lagged
  <2>1. /\ DataInv' /\ proj'.batch.open = proj.batch.open
        /\ proj' \in Projector /\ told' = told /\ bus' = bus /\ seen' \in [Keys -> Nat]
        /\ lagged' = FALSE
    BY <1>1, LagReceived
  <2>2. told \in [Keys -> Ver] /\ bus \in Seq(Message) /\ Len(bus) <= BusCap
    BY DEF ProjectionInv, Types
  <2>3. told' \in [Keys -> Ver] /\ bus' \in Seq(Message) /\ Len(bus') <= BusCap
    BY <2>1, <2>2
  <2> QED
    BY <2>1, <2>3, Zenon
<1>2. CASE ~ lagged
  <2>1. lagged' \in BOOLEAN
    BY <1>2, EventReceived DEF ProjectionInv, Types
  <2> QED
    BY <1>2, <2>1, EventReceived, Zenon
<1> QED
  BY <1>1, <1>2

-----------------------------------------------------------------------------
(* The steps of the loop.                                                         *)

(* A step that leaves the events, the rows and the projector alone.               *)
LEMMA DataKept ==
    ASSUME DataInv, UNCHANGED <<storeVars, busVars, proj, load, sent, told, seen>>
    PROVE  DataInv'
<1>1. /\ row' = row /\ seq' = seq /\ life' = life /\ sending' = sending
      /\ bus' = bus /\ lagged' = lagged /\ proj' = proj /\ load' = load
      /\ sent' = sent /\ told' = told /\ seen' = seen
  BY DEF storeVars, busVars
<1>2. ProjInv(proj)' /\ SendingInv' /\ BusInv'
  BY <1>1 DEF DataInv, SendingInv, BusInv
<1>3. FreshInv' /\ LoadedInv'
  <2>1. \A k \in Keys : Loaded(k)' <=> Loaded(k)
    BY <1>1 DEF Loaded
  <2>2. \A k \in Keys, f \in Facets : Under(k, f)' <=> Under(k, f)
    BY <1>1 DEF Under
  <2>3. FreshInv'
    BY <1>1, <2>1 DEF DataInv, FreshInv
  <2>4. LoadedInv'
    <3> SUFFICES ASSUME NEW k \in Keys, Loaded(k)', NEW f \in proj.batch.rows[k]
                 PROVE  lagged \/ Under(k, f)' \/ load.rows[k].ver[f] = row[k].ver[f]
      BY <1>1 DEF LoadedInv
    <3> QED
      BY <1>1, <2>1 DEF DataInv, LoadedInv, Under
  <2> QED
    BY <2>3, <2>4
<1>4. ToldInv'
  BY <1>1 DEF DataInv, ToldInv, Under
<1>5. LifeInv'
  BY <1>1 DEF DataInv, LifeInv
<1> QED
  BY <1>2, <1>3, <1>4, <1>5 DEF DataInv

(* Taking an event in the select loop keeps the invariant, *)
LEMMA SelectBusHolds == ProjectionInv /\ SelectBus => ProjectionInv'
<1> SUFFICES ASSUME ProjectionInv, SelectBus PROVE ProjectionInv'
  OBVIOUS
<1>1. Receive /\ pc' \in {"drain", "tail"} /\ (pc' = "drain" => Finished) /\ drained' = drained
  BY DEF SelectBus
<1>2. UNCHANGED <<storeVars, load, timer, failures, sent>>
  BY <1>1 DEF Receive
<1>3. LoopInv'
  BY <1>1, <1>2, ReceiveHolds DEF ProjectionInv, LoopInv, Finished
<1>4. Types'
  BY <1>1, <1>2, ReceiveHolds DEF ProjectionInv, Types, storeVars
<1> QED
  BY <1>1, <1>3, <1>4, ReceiveHolds DEF ProjectionInv, DataInv

(* and so does draining the bus before a load is completed. *)
LEMMA DrainHolds == ProjectionInv /\ Drain => ProjectionInv'
<1> SUFFICES ASSUME ProjectionInv, Drain PROVE ProjectionInv'
  OBVIOUS
<1>1. Receive /\ pc = "drain" /\ pc' = "drain"
  BY DEF Drain
<1>2. UNCHANGED <<storeVars, load, timer, failures, sent>>
  BY <1>1 DEF Receive
<1>3. drained' \in 0..ReceiveBatch
  BY ProjectionAssumption DEF Drain, ProjectionInv, Types
<1>4. LoopInv'
  BY <1>1, <1>2, ReceiveHolds DEF ProjectionInv, LoopInv, Finished
<1>5. Types'
  BY <1>1, <1>2, <1>3, ReceiveHolds DEF ProjectionInv, Types, storeVars
<1> QED
  BY <1>1, <1>4, <1>5, ReceiveHolds DEF ProjectionInv, DataInv

(* The arms of the select that receive nothing, the end of the receipts and the   *)
(* timer change only the point of the loop.                                       *)
LEMMA PointHolds ==
    ASSUME ProjectionInv, SelectLoad \/ SelectTimer \/ SelectModels \/ DrainEnds \/ TimerExpires
    PROVE  ProjectionInv'
<1>1. UNCHANGED <<storeVars, busVars, proj, load, failures, sent, told, seen>>
  BY DEF SelectLoad, SelectTimer, SelectModels, DrainEnds, TimerExpires
<1>2. /\ timer' \in {"off", "armed", "due"} /\ drained' \in 0..ReceiveBatch
      /\ pc' \in {"select", "drain", "finish", "tail"}
  BY ProjectionAssumption
     DEF SelectLoad, SelectTimer, SelectModels, DrainEnds, TimerExpires, ProjectionInv, Types
<1>3. /\ pc' \in {"drain", "finish"} => Finished
      /\ pc' = "select" /\ timer' = "off" => pc = "select" /\ timer = "off"
  BY DEF SelectLoad, SelectTimer, SelectModels, DrainEnds, TimerExpires, ProjectionInv, LoopInv
<1>4. LoopInv'
  BY <1>1, <1>3 DEF ProjectionInv, LoopInv, Finished, HasWork
<1>5. Types'
  BY <1>1, <1>2 DEF ProjectionInv, Types, storeVars, busVars
<1>6. DataInv'
  BY <1>1, DataKept DEF ProjectionInv, DataInv
<1> QED
  BY <1>4, <1>5, <1>6 DEF ProjectionInv, DataInv

(* The fields of a load. *)
LEMMA LoadIs ==
    ASSUME Types
    PROVE  /\ load.status \in {"none", "reading", "ok", "failed"}
           /\ load.rows \in [Keys -> Entry] /\ load.left \in SUBSET Keys
           /\ NoLoad \in LoadTask /\ NoLoad.rows \in [Keys -> Entry]
<1>1. load \in LoadTask
  BY DEF Types
<1>2. Zero \in [Facets -> Nat]
  BY DEF Zero
<1>3. [k \in Keys |-> [there |-> FALSE, ver |-> Zero]] \in [Keys -> Entry]
  BY <1>2 DEF Entry
<1>4. NoLoad \in LoadTask /\ NoLoad.rows \in [Keys -> Entry]
  BY <1>3 DEF NoLoad, LoadTask
<1> QED
  BY <1>1, <1>4 DEF LoadTask

-----------------------------------------------------------------------------
(* The load task.                                                                 *)

(* Reading one row of the batch keeps the invariant. *)
LEMMA ReadRowHolds ==
    ASSUME ProjectionInv, NEW k \in Keys, ReadRow(k)
    PROVE  ProjectionInv'
<1> USE DEF ProjectionInv
<1>1. /\ row' = row /\ seq' = seq /\ life' = life /\ sending' = sending
      /\ bus' = bus /\ lagged' = lagged /\ proj' = proj /\ timer' = timer /\ pc' = pc
      /\ drained' = drained /\ failures' = failures
      /\ sent' = sent /\ told' = told /\ seen' = seen /\ lives' = lives
  BY DEF ReadRow, storeVars, busVars
<1>2. load.status = "reading" /\ k \in load.left
  BY DEF ReadRow
<1>3. /\ load' \in LoadTask
      /\ load'.left = load.left \ {k}
      /\ load'.rows = [load.rows EXCEPT ![k] = row[k]]
      /\ load'.status = IF load.left = {k} THEN "ok" ELSE "reading"
  <2>1. load.rows \in [Keys -> Entry] /\ row[k] \in Entry /\ load.left \in SUBSET Keys
    BY LoadIs DEF Types
  <2>2. PICK rows \in [Keys -> Entry] : rows = [load.rows EXCEPT ![k] = row[k]]
    BY <2>1
  <2>3. load' = [load EXCEPT !.rows = rows, !.left = load.left \ {k},
                             !.status = IF load.left = {k} THEN "ok" ELSE "reading"]
    BY <1>2, <2>2 DEF ReadRow
  <2> QED
    BY <1>2, <2>1, <2>2, <2>3 DEF Types, LoadTask
<1>4. load.rows \in [Keys -> Entry]
  BY LoadIs
<1>5. \A j \in Keys : Loaded(j)' => j = k \/ Loaded(j)
  BY <1>1, <1>2, <1>3 DEF Loaded
<1>6. load'.rows[k] = row[k] /\ \A j \in Keys : j # k => load'.rows[j] = load.rows[j]
  BY <1>3, <1>4
<1>7. Types'
  BY <1>1, <1>3 DEF Types
<1>8. LoopInv'
  <2>1. ~ Finished
    BY <1>2 DEF Finished
  <2>2. /\ load'.status \in {"ok", "reading"}
        /\ load'.status = "ok" => load'.left = {}
        /\ load'.status = "reading" => load'.left # {}
    BY <1>2, <1>3
  <2> QED
    BY <1>1, <1>2, <2>1, <2>2 DEF LoopInv, HasWork
<1>9. ProjInv(proj)' /\ SendingInv' /\ BusInv' /\ LifeInv'
  BY <1>1 DEF SendingInv, BusInv, LifeInv
<1>10. ToldInv'
  BY <1>1 DEF ToldInv, Under
<1>11. FreshInv'
  <2> SUFFICES ASSUME NEW j \in Keys, Loaded(j)'
               PROVE  \/ lagged
                      \/ \E i \in 1..Len(bus) : Retires(bus[i], j)
                      \/ \A f \in Facets : sent[j][f] <= load'.rows[j].ver[f]
    BY <1>1 DEF FreshInv
  <2>1. CASE j = k
    BY <1>6, <2>1 DEF SendingInv
  <2>2. CASE j # k
    BY <1>5, <1>6, <2>2 DEF FreshInv
  <2> QED
    BY <2>1, <2>2
<1>12. LoadedInv'
  <2> SUFFICES ASSUME NEW j \in Keys, Loaded(j)', NEW f \in proj.batch.rows[j]
               PROVE  lagged \/ Under(j, f) \/ load'.rows[j].ver[f] = row[j].ver[f]
    BY <1>1 DEF LoadedInv, Under
  <2>1. CASE j = k
    BY <1>6, <2>1
  <2>2. CASE j # k
    BY <1>5, <1>6, <2>2 DEF LoadedInv
  <2> QED
    BY <2>1, <2>2
<1> QED
  BY <1>7, <1>8, <1>9, <1>10, <1>11, <1>12

(* A load that fails keeps the invariant. *)
LEMMA LoadFailsHolds == ProjectionInv /\ LoadFails => ProjectionInv'
<1> SUFFICES ASSUME ProjectionInv, LoadFails PROVE ProjectionInv'
  OBVIOUS
<1> USE DEF ProjectionInv
<1>1. /\ row' = row /\ seq' = seq /\ life' = life /\ sending' = sending
      /\ bus' = bus /\ lagged' = lagged /\ proj' = proj /\ timer' = timer /\ pc' = pc
      /\ drained' = drained /\ failures' = failures + 1
      /\ sent' = sent /\ told' = told /\ seen' = seen /\ lives' = lives
  BY DEF LoadFails, storeVars, busVars
<1>2. load.status = "reading" /\ load' = [NoLoad EXCEPT !.status = "failed"]
  BY DEF LoadFails
<1>3. load' \in LoadTask /\ load'.status = "failed"
  BY <1>2, LoadIs DEF LoadTask
<1>4. Types'
  BY <1>1, <1>3 DEF Types
<1>5. LoopInv'
  BY <1>1, <1>2, <1>3 DEF LoopInv, HasWork, Finished
<1>6. ProjInv(proj)' /\ SendingInv' /\ BusInv' /\ LifeInv'
  BY <1>1 DEF SendingInv, BusInv, LifeInv
<1>7. ToldInv'
  BY <1>1 DEF ToldInv, Under
<1>8. \A k \in Keys : ~ Loaded(k)'
  BY <1>3 DEF Loaded
<1>9. FreshInv' /\ LoadedInv'
  BY <1>8 DEF FreshInv, LoadedInv
<1> QED
  BY <1>4, <1>5, <1>6, <1>7, <1>9

-----------------------------------------------------------------------------
(* The end of an iteration.                                                       *)

(* A deadline met by a refresh of all the rows keeps the invariant. *)
LEMMA RefreshCloses ==
    ASSUME ProjectionInv, Close, CloseRefresh
    PROVE  ProjectionInv'
<1> USE DEF ProjectionInv
<1>1. /\ row' = row /\ seq' = seq /\ life' = life /\ sending' = sending /\ lives' = lives
      /\ bus' = bus /\ lagged' = lagged /\ load' = load /\ sent' = sent
      /\ drained' = drained /\ failures' = failures
      /\ pc' = "select" /\ told' = [k \in Keys |-> row[k].ver]
      /\ proj' = Refreshed(proj)
      /\ timer' = Rearmed(Refreshed(proj), "off")
      /\ proj.recovery.followUp # 0 => seen' = life
      /\ proj.recovery.followUp = 0 => seen' = seen
  BY DEF Close, CloseRefresh, storeVars, busVars, TellAll, Mark
<1>2. proj \in Projector /\ proj.recovery.followUp \in Nat
  BY ProjectorIs DEF Types
<1>3. LET q == Refreshed(proj)
      IN  /\ q \in Projector /\ ProjInv(q)
          /\ q.rows = NoRows /\ q.batch = proj.batch
          /\ proj.recovery.followUp = 0 =>
                 ~ q.recovery.open /\ ~ q.refresh /\ q.recovery.followUp = 0
          /\ proj.recovery.followUp # 0 =>
                 /\ q.refresh /\ q.recovery.watermark = proj.recovery.followUp
                 /\ q.recovery.followUp = 0
  BY <1>2, RefreshedFacts
<1>4. /\ proj' \in Projector /\ ProjInv(proj') /\ proj'.batch = proj.batch
      /\ proj'.recovery.followUp = 0
      /\ proj.recovery.followUp = 0 => ~ proj'.recovery.open
      /\ proj.recovery.followUp # 0 => proj'.recovery.watermark = proj.recovery.followUp
  BY <1>1, <1>3
<1>5. timer' \in {"off", "armed"} /\ (timer' = "off" => ~ HasWork(proj'))
  BY <1>1 DEF Rearmed
<1>6. told' \in [Keys -> Ver]
  BY <1>1 DEF Types, Entry, Ver
<1>7. Types'
  BY <1>1, <1>4, <1>5, <1>6 DEF Types
<1>8. LoopInv'
  BY <1>1, <1>4, <1>5 DEF LoopInv
<1>9. SendingInv' /\ BusInv'
  BY <1>1 DEF SendingInv, BusInv
<1>10. \A k \in Keys : ~ Loaded(k)'
  BY <1>1 DEF LoopInv, Loaded, CloseRefresh, Due
<1>11. FreshInv' /\ LoadedInv'
  BY <1>10 DEF FreshInv, LoadedInv
<1>12. ToldInv'
  BY <1>1 DEF ToldInv
<1>13. LifeInv'
  <2>1. \A k \in Keys : life[k] \in Nat /\ seen[k] \in Nat
    BY DEF Types
  <2>2. seq \in Nat
    BY DEF Types
  <2>3. CASE proj.recovery.followUp # 0
    BY <1>1, <1>2, <1>4, <2>1, <2>2, <2>3 DEF LifeInv
  <2>4. CASE proj.recovery.followUp = 0
    BY <1>1, <1>2, <1>4, <2>1, <2>2, <2>4 DEF LifeInv
  <2> QED
    BY <2>3, <2>4
<1> QED
  BY <1>4, <1>7, <1>8, <1>9, <1>11, <1>12, <1>13

(* A deadline that opens a batch and starts its load keeps the invariant. *)
LEMMA RowsClose ==
    ASSUME ProjectionInv, Close, CloseRows
    PROVE  ProjectionInv'
<1> USE DEF ProjectionInv
<1>1. /\ row' = row /\ seq' = seq /\ life' = life /\ sending' = sending /\ lives' = lives
      /\ bus' = bus /\ lagged' = lagged /\ sent' = sent /\ told' = told /\ seen' = seen
      /\ drained' = drained /\ failures' = failures
      /\ pc' = "select" /\ timer' = "off"
      /\ proj' = Opened(proj)
      /\ load' = [NoLoad EXCEPT !.status = "reading",
                                !.left = {k \in Keys : proj.rows[k] # {}}]
      /\ ~ proj.batch.open /\ ~ proj.refresh /\ proj.rows # NoRows
  BY DEF Close, CloseRows, Due, storeVars, busVars
<1>2. proj \in Projector
  BY DEF Types
<1>3. LET q == Opened(proj)
      IN  /\ q \in Projector /\ ProjInv(q)
          /\ q.rows = NoRows /\ q.refresh = proj.refresh /\ q.recovery = proj.recovery
          /\ q.batch.open = TRUE /\ q.batch.rows = proj.rows /\ q.batch.invalidated = FALSE
  BY <1>2, OpenedFacts
<1>4. /\ proj' \in Projector /\ ProjInv(proj')
      /\ proj'.rows = NoRows /\ ~ proj'.refresh /\ proj'.recovery = proj.recovery
      /\ proj'.batch.open = TRUE /\ proj'.batch.rows = proj.rows
      /\ proj'.batch.invalidated = FALSE
  BY <1>1, <1>3, Zenon
<1>5. /\ load' \in LoadTask /\ load'.status = "reading"
      /\ load'.left = {k \in Keys : proj.rows[k] # {}}
  <2>1. PICK S \in SUBSET Keys : S = {k \in Keys : proj.rows[k] # {}}
    OBVIOUS
  <2>2. load' = [NoLoad EXCEPT !.status = "reading", !.left = S]
    BY <1>1, <2>1
  <2>3. NoLoad \in LoadTask
    BY LoadIs
  <2>4. load' \in LoadTask /\ load'.status = "reading" /\ load'.left = S
    BY <2>2, <2>3 DEF LoadTask
  <2> QED
    BY <2>1, <2>4
<1>6. Types'
  BY <1>1, <1>4, <1>5 DEF Types
<1>7. LoopInv'
  <2>1. load'.left # {}
    <3>1. proj.rows \in [Keys -> SUBSET Facets]
      BY <1>2, ProjectorIs
    <3>2. \E k \in Keys : proj.rows[k] # {}
      BY <1>1, <3>1 DEF NoRows
    <3> QED
      BY <1>5, <3>2
  <2> QED
    BY <1>1, <1>4, <1>5, <2>1 DEF LoopInv, HasWork
<1>8. SendingInv' /\ BusInv' /\ LifeInv'
  BY <1>1, <1>4 DEF SendingInv, BusInv, LifeInv
<1>9. \A k \in Keys : ~ Loaded(k)'
  BY <1>4, <1>5 DEF Loaded
<1>10. FreshInv' /\ LoadedInv'
  BY <1>9 DEF FreshInv, LoadedInv
<1>11. ToldInv'
  <2> SUFFICES ASSUME NEW k \in Keys, NEW f \in Facets
               PROVE  \/ told[k][f] = row[k].ver[f]
                      \/ f \in proj'.batch.rows[k]
                      \/ lagged \/ Under(k, f)
    BY <1>1, <1>4 DEF ToldInv, Under
  <2> QED
    BY <1>1, <1>4 DEF ToldInv
<1> QED
  BY <1>4, <1>6, <1>7, <1>8, <1>10, <1>11

(* A deadline that finds nothing to load only forgets that a load had failed: the *)
(* worker rests, with nothing pending.                                            *)
LEMMA EmptyCloses ==
    ASSUME ProjectionInv, Close, CloseEmpty
    PROVE  ProjectionInv'
<1> USE DEF ProjectionInv
<1>1. /\ row' = row /\ seq' = seq /\ life' = life /\ sending' = sending /\ lives' = lives
      /\ bus' = bus /\ lagged' = lagged /\ sent' = sent /\ told' = told /\ seen' = seen
      /\ drained' = drained /\ failures' = failures /\ load' = load
      /\ pc' = "select" /\ timer' = "off"
      /\ proj' = [proj EXCEPT !.retry = FALSE] /\ ~ HasWork(proj)
  BY DEF Close, CloseEmpty, storeVars, busVars
<1>2. /\ proj' \in Projector
      /\ proj'.rows = proj.rows /\ proj'.refresh = proj.refresh
      /\ proj'.batch = proj.batch /\ proj'.recovery = proj.recovery
  BY <1>1 DEF Types, Projector
<1>3. ProjInv(proj')
  BY <1>2 DEF ProjInv
<1>4. Types'
  BY <1>1, <1>2 DEF Types
<1>5. LoopInv'
  BY <1>1, <1>2 DEF LoopInv, HasWork
<1>6. SendingInv' /\ BusInv' /\ LifeInv'
  BY <1>1, <1>2 DEF SendingInv, BusInv, LifeInv
<1>7. FreshInv' /\ LoadedInv'
  BY <1>1, <1>2 DEF FreshInv, LoadedInv, Loaded, Under
<1>8. ToldInv'
  BY <1>1, <1>2 DEF ToldInv, Under
<1> QED
  BY <1>3, <1>4, <1>5, <1>6, <1>7, <1>8

(* So the end of an iteration keeps the invariant in every case. *)
LEMMA CloseHolds == ProjectionInv /\ Close => ProjectionInv'
<1> SUFFICES ASSUME ProjectionInv, Close PROVE ProjectionInv'
  OBVIOUS
<1>1. CASE CloseEarly
  <2>1. UNCHANGED <<storeVars, busVars, proj, load, drained, failures, sent, told, seen>>
    BY <1>1 DEF Close, CloseEarly
  <2>2. pc' = "select" /\ timer' = Rearmed(proj, timer)
    BY <1>1 DEF Close, CloseEarly
  <2>3. /\ timer' \in {"off", "armed", "due"}
        /\ timer' = "off" => ~ HasWork(proj)
    BY <2>2 DEF Rearmed, ProjectionInv, Types
  <2>4. Types'
    BY <2>1, <2>2, <2>3 DEF ProjectionInv, Types, storeVars, busVars
  <2>5. LoopInv'
    BY <2>1, <2>2, <2>3 DEF ProjectionInv, LoopInv
  <2>6. DataInv'
    BY <2>1, DataKept DEF ProjectionInv, DataInv
  <2> QED
    BY <2>4, <2>5, <2>6 DEF ProjectionInv, DataInv
<1> QED
  BY <1>1, RefreshCloses, RowsClose, EmptyCloses DEF Close

-----------------------------------------------------------------------------
(* A finished load: the rows that nothing has withdrawn are emitted.              *)

(* What is still on the bus takes every row from the load and leaves a refresh.   *)
LEMMA BehindFacts ==
    ASSUME ProjectionInv
    PROVE  LET p == Behind(proj)
           IN  /\ p \in Projector /\ ProjInv(p)
               /\ ~ BusReady => p = proj
               /\ BusReady =>
                      /\ p.refresh /\ p.batch.invalidated = proj.batch.open
                      /\ p.recovery.open /\ p.recovery.followUp <= seq
                      /\ ~ proj.recovery.open => p.recovery.watermark = seq
                      /\ proj.recovery.open =>
                             /\ p.recovery.watermark = proj.recovery.watermark
                             /\ seq > proj.recovery.watermark => p.recovery.followUp # 0
                             /\ proj.recovery.followUp # 0 => p.recovery.followUp # 0
<1>1. proj \in Projector /\ ProjInv(proj) /\ seq \in Nat
  BY DEF ProjectionInv, Types
<1>2. /\ proj.recovery.open => proj.recovery.watermark <= seq
      /\ proj.recovery.followUp <= seq
  BY DEF ProjectionInv, LifeInv
<1>3. PICK w \in Nat : w = seq
  BY <1>1
<1>4. LET q == AbsorbLag(proj, w)
      IN  /\ q \in Projector /\ ProjInv(q)
          /\ q.refresh = TRUE /\ q.batch.invalidated = proj.batch.open
          /\ q.recovery.open /\ q.recovery.followUp <= w
          /\ ~ proj.recovery.open => q.recovery.watermark = w
          /\ proj.recovery.open =>
                 /\ q.recovery.watermark = proj.recovery.watermark
                 /\ w > proj.recovery.watermark => q.recovery.followUp # 0
                 /\ proj.recovery.followUp # 0 => q.recovery.followUp # 0
  BY <1>1, <1>2, <1>3, AbsorbLagFacts
<1>5. CASE BusReady
  <2>1. Behind(proj) = AbsorbLag(proj, w)
    BY <1>3, <1>5 DEF Behind
  <2> QED
    BY <1>3, <1>4, <1>5, <2>1
<1>6. CASE ~ BusReady
  BY <1>1, <1>6 DEF Behind
<1> QED
  BY <1>5, <1>6

(* What a finished load tells is stored, or an event about the difference is      *)
(* under way; and what it takes from the batch it tells or leaves pending.        *)
LEMMA FinishTells ==
    ASSUME ProjectionInv, Finish, ~ BusReady, NEW k \in Keys, NEW f \in Facets
    PROVE  \/ told'[k][f] = row[k].ver[f]
           \/ proj'.refresh \/ f \in proj'.rows[k]
           \/ lagged \/ Under(k, f)
<1> USE DEF ProjectionInv
<1>1. /\ proj' = Completed(proj) /\ pc = "finish"
      /\ Missing(proj) # {} \/ GivesUp(proj) => told'[k][f] = row[k].ver[f]
      /\ ~ (Missing(proj) # {} \/ GivesUp(proj)) =>
             told'[k][f] = IF k \in Emitted(proj) /\ f \in proj.batch.rows[k]
                           THEN load.rows[k].ver[f] ELSE told[k][f]
  BY BehindFacts DEF Finish, TellAll
<1>2. CASE Missing(proj) # {} \/ GivesUp(proj)
  BY <1>1, <1>2
<1>3. CASE /\ ~ (Missing(proj) # {} \/ GivesUp(proj))
           /\ k \in Emitted(proj) /\ f \in proj.batch.rows[k]
  <2>1. Loaded(k)
    BY <1>3 DEF Emitted, Loaded, LoopInv
  <2> QED
    BY <1>1, <1>3, <2>1 DEF LoadedInv
<1>4. CASE /\ ~ (Missing(proj) # {} \/ GivesUp(proj))
           /\ ~ (k \in Emitted(proj) /\ f \in proj.batch.rows[k])
  <2>1. told'[k][f] = told[k][f]
    BY <1>1, <1>4
  <2>2. LET q == Completed(proj)
        IN  /\ proj.refresh => q.refresh
            /\ proj.rows[k] \subseteq q.rows[k] \/ q.refresh
            /\ load.status = "failed" /\ ~ proj.batch.invalidated /\ ~ GivesUp(proj) =>
                  proj.batch.rows[k] \subseteq q.rows[k] \/ q.refresh
    BY CompletedFacts DEF Types
  <2>3. /\ proj.refresh => proj'.refresh
        /\ f \in proj.rows[k] => f \in proj'.rows[k] \/ proj'.refresh
        /\ load.status = "failed" /\ ~ proj.batch.invalidated /\ f \in proj.batch.rows[k] =>
              f \in proj'.rows[k] \/ proj'.refresh
    BY <1>1, <1>4, <2>2
  <2>4. load.status \in {"ok", "failed"}
    BY <1>1 DEF LoopInv, Finished
  <2>5. load.status = "ok" => proj.batch.invalidated \/ f \notin proj.batch.rows[k]
    BY <1>4 DEF Emitted, Missing
  <2> QED
    BY <2>1, <2>3, <2>4, <2>5 DEF ToldInv
<1> QED
  BY <1>2, <1>3, <1>4

(* The end of a load, told, retried or turned into a refresh, keeps the invariant. *)
LEMMA FinishHolds == ProjectionInv /\ Finish => ProjectionInv'
<1> SUFFICES ASSUME ProjectionInv, Finish PROVE ProjectionInv'
  OBVIOUS
<1> USE DEF ProjectionInv
<1>1. PICK p : p = Behind(proj)
  OBVIOUS
<1>2. /\ row' = row /\ seq' = seq /\ life' = life /\ sending' = sending /\ lives' = lives
      /\ bus' = bus /\ lagged' = lagged /\ sent' = sent /\ timer' = timer
      /\ drained' = drained /\ failures' = failures
      /\ pc = "finish" /\ pc' = "tail" /\ load' = NoLoad
      /\ proj' = Completed(p)
      /\ p.recovery.open /\ ~ proj.recovery.open => seen' = life
      /\ ~ (p.recovery.open /\ ~ proj.recovery.open) => seen' = seen
  BY <1>1 DEF Finish, storeVars, busVars, Mark
<1>3. /\ p \in Projector /\ ProjInv(p)
      /\ ~ BusReady => p = proj
      /\ BusReady =>
             /\ p.refresh /\ p.batch.invalidated = proj.batch.open
             /\ p.recovery.open /\ p.recovery.followUp <= seq
             /\ ~ proj.recovery.open => p.recovery.watermark = seq
             /\ proj.recovery.open =>
                    /\ p.recovery.watermark = proj.recovery.watermark
                    /\ seq > proj.recovery.watermark => p.recovery.followUp # 0
                    /\ proj.recovery.followUp # 0 => p.recovery.followUp # 0
  BY <1>1, BehindFacts
<1>4. LET q == Completed(p)
      IN  /\ q \in Projector /\ ProjInv(q)
          /\ q.batch = NoBatch /\ q.recovery = p.recovery
          /\ p.refresh => q.refresh
  BY <1>3, CompletedFacts
<1>5. /\ proj' \in Projector /\ ProjInv(proj')
      /\ proj'.batch = NoBatch /\ proj'.recovery = p.recovery
      /\ p.refresh => proj'.refresh
  BY <1>2, <1>4
<1>6. NoLoad \in LoadTask /\ NoLoad.status = "none" /\ NoBatch.open = FALSE
  BY LoadIs DEF NoLoad, NoBatch
<1>7. told' \in [Keys -> Ver]
  <2>1. \A k \in Keys : row[k].ver \in Ver /\ told[k] \in Ver /\ load.rows[k].ver \in Ver
    BY LoadIs DEF Types, Entry, Ver
  <2>2. CASE told' = [k \in Keys |-> row[k].ver]
    BY <2>1, <2>2
  <2>3. CASE told' = [k \in Keys |-> [f \in Facets |->
                            IF k \in Emitted(p) /\ f \in p.batch.rows[k]
                            THEN load.rows[k].ver[f] ELSE told[k][f]]]
    <3>1. ASSUME NEW k \in Keys
          PROVE  [f \in Facets |-> IF k \in Emitted(p) /\ f \in p.batch.rows[k]
                                   THEN load.rows[k].ver[f] ELSE told[k][f]] \in Ver
      BY <2>1 DEF Ver
    <3> QED
      BY <2>3, <3>1
  <2> QED
    BY <1>1, <2>2, <2>3 DEF Finish, TellAll
<1>8. seen' \in [Keys -> Nat]
  BY <1>2 DEF Types
<1>9. Types'
  BY <1>2, <1>5, <1>6, <1>7, <1>8 DEF Types
<1>10. LoopInv'
  BY <1>2, <1>5, <1>6 DEF LoopInv
<1>11. SendingInv' /\ BusInv'
  BY <1>2 DEF SendingInv, BusInv
<1>12. \A k \in Keys : ~ Loaded(k)'
  BY <1>2, <1>6 DEF Loaded
<1>13. FreshInv' /\ LoadedInv'
  BY <1>12 DEF FreshInv, LoadedInv
<1>14. ToldInv'
  <2>1. CASE BusReady
    BY <1>3, <1>5, <2>1 DEF ToldInv
  <2>2. CASE ~ BusReady
    <3> SUFFICES ASSUME NEW k \in Keys, NEW f \in Facets
                 PROVE  \/ told'[k][f] = row[k].ver[f]
                        \/ proj'.refresh \/ f \in proj'.rows[k]
                        \/ lagged \/ Under(k, f)
      BY <1>2 DEF ToldInv, Under
    <3> QED
      BY <2>2, FinishTells
  <2> QED
    BY <2>1, <2>2
<1>15. LifeInv'
  <2>1. CASE BusReady
    BY <1>2, <1>3, <1>5, <2>1, GapLives
  <2>2. CASE ~ BusReady
    <3>1. proj'.recovery = proj.recovery /\ seen' = seen
      BY <1>2, <1>3, <1>5, <2>2
    <3> QED
      BY <1>2, <3>1 DEF LifeInv
  <2> QED
    BY <2>1, <2>2
<1> QED
  BY <1>5, <1>9, <1>10, <1>11, <1>13, <1>14, <1>15

-----------------------------------------------------------------------------
(* The theorems.                                                                  *)

(* Every step keeps the invariant. *)
LEMMA NextHolds == ProjectionInv /\ [Next]_vars => ProjectionInv'
<1> SUFFICES ASSUME ProjectionInv, [Next]_vars PROVE ProjectionInv'
  OBVIOUS
<1>1. CASE Registry
  BY <1>1, RegistryHolds
<1>2. CASE Send
  BY <1>2, SendHolds
<1>3. CASE Loop
  BY <1>3, SelectBusHolds, DrainHolds, PointHolds, FinishHolds, CloseHolds DEF Loop
<1>4. CASE Load
  BY <1>4, ReadRowHolds, LoadFailsHolds DEF Load
<1>5. CASE TimerExpires
  BY <1>5, PointHolds
<1>6. CASE UNCHANGED vars
  <2>1. UNCHANGED <<storeVars, busVars, proj, load, timer, pc, drained, failures, sent, told, seen>>
    BY <1>6 DEF vars, storeVars, busVars
  <2>2. DataInv'
    BY <2>1, DataKept DEF ProjectionInv, DataInv
  <2>3. LoopInv'
    BY <2>1 DEF ProjectionInv, LoopInv, Finished, HasWork
  <2>4. Types'
    BY <2>1 DEF ProjectionInv, Types, storeVars, busVars
  <2> QED
    BY <2>2, <2>3, <2>4 DEF ProjectionInv, DataInv
<1> QED
  BY <1>1, <1>2, <1>3, <1>4, <1>5, <1>6 DEF Next

(* ProjectionInv holds in every reachable state: whatever a window has not been   *)
(* told is pending, loading, covered by the open recovery or on its way to the    *)
(* worker, through every receipt, gap, load and flush of run_with_models.         *)
THEOREM ProjectionInvAlways == Spec => []ProjectionInv
<1>1. Init => ProjectionInv
  BY InitHolds
<1>2. ProjectionInv /\ [Next]_vars => ProjectionInv'
  BY NextHolds
<1> QED
  BY <1>1, <1>2, PTL DEF Spec

(* The invariant gives the types, *)
LEMMA InvTypes == ProjectionInv => TypeOK
<1> SUFFICES ASSUME ProjectionInv PROVE TypeOK
  OBVIOUS
<1> USE DEF ProjectionInv
<1>1. seq \in 0..(MaxChanges + MaxLives)
  BY ProjectionAssumption DEF Types
<1>2. life \in [Keys -> 0..seq]
  <2>1. \A k \in Keys : life[k] \in 0..seq
    BY DEF Types, LifeInv
  <2> QED
    BY <2>1 DEF Types
<1>3. proj.rows \in [Keys -> SUBSET Facets] /\ proj.batch \in Batch
  BY ProjectorIs DEF Types
<1>4. \A rows \in {proj.rows, proj.batch.rows} : Cardinality({k \in Keys : rows[k] # {}}) <= RowCap
  BY DEF ProjInv, Capped, Some
<1>5. proj.refresh => proj.rows = NoRows
  BY DEF ProjInv
<1>6. proj.batch.open <=> load.status # "none"
  BY DEF LoopInv
<1>7. load.rows \in [Keys -> Entry] /\ (load.status = "reading" => load.left # {})
  BY LoadIs DEF LoopInv
<1> QED
  BY <1>1, <1>2, <1>3, <1>4, <1>5, <1>6, <1>7 DEF TypeOK, Types

(* Type correctness of the projection worker: the pending and the loading rows    *)
(* stay within PENDING_ROW_CAP through retirements and returned batches, one      *)
(* batch loads at a time, and an index refresh leaves no pending row.             *)
THEOREM TypeOKAlways == Spec => []TypeOK
BY ProjectionInvAlways, InvTypes, PTL

(* that no row a window holds is stale, *)
LEMMA InvFresh == ProjectionInv => NoStaleRow
<1> SUFFICES ASSUME ProjectionInv, pc = "finish", NEW k \in Emitted(Behind(proj)),
                    NEW f \in Facets
             PROVE  load.rows[k].ver[f] >= sent[k][f]
  BY DEF NoStaleRow
<1>1. k \in Keys /\ load.status = "ok" /\ ~ Behind(proj).batch.invalidated
  BY DEF Emitted
<1>2. proj.batch.open
  BY <1>1 DEF ProjectionInv, LoopInv
<1>3. ~ BusReady /\ Behind(proj) = proj
  BY <1>1, <1>2, BehindFacts
<1>4. Loaded(k)
  BY <1>1, <1>3 DEF Emitted, Loaded, ProjectionInv, LoopInv
<1>5. ~ lagged /\ bus = <<>> /\ Len(bus) = 0
  BY <1>3 DEF BusReady
<1>6. sent[k][f] <= load.rows[k].ver[f]
  BY <1>1, <1>4, <1>5 DEF ProjectionInv, FreshInv
<1>7. sent[k][f] \in Nat /\ load.rows[k].ver[f] \in Nat
  BY <1>1, LoadIs DEF ProjectionInv, Types, Entry, Ver
<1> QED
  BY <1>6, <1>7

(* No stale row: a row that complete emits is at least as new as every event that *)
(* was on the bus before, for every bus capacity and receive batch.  retire and   *)
(* invalidate_rows withdraw what an event outdates, and a backlog that the last   *)
(* receipts leave turns the batch into a recovery.                                *)
THEOREM NoStaleRowAlways == Spec => []NoStaleRow
BY ProjectionInvAlways, InvFresh, PTL

(* The worker at rest has nothing pending, loading or under way.                  *)
LEMMA RestIsEmpty ==
    ASSUME ProjectionInv, AtRest
    PROVE  /\ ~ proj.refresh /\ ~ proj.batch.open /\ ~ proj.recovery.open /\ ~ lagged
           /\ proj.rows = NoRows /\ Len(bus) = 0 /\ Len(sending) = 0
<1>1. ~ HasWork(proj)
  BY DEF AtRest, ProjectionInv, LoopInv
<1>2. ~ proj.refresh /\ proj.rows = NoRows
  BY <1>1 DEF HasWork
<1> QED
  BY <1>2 DEF AtRest, BusReady, ProjectionInv, LoopInv, ProjInv

(* that every change of a row will be told, *)
LEMMA InvRows == ProjectionInv => RowsTold
<1> SUFFICES ASSUME ProjectionInv, AtRest, NEW k \in Keys
             PROVE  told[k] = row[k].ver
  BY DEF RowsTold
<1>1. ASSUME NEW f \in Facets
      PROVE  told[k][f] = row[k].ver[f]
  BY RestIsEmpty DEF ProjectionInv, ToldInv, Under, NoRows
<1>2. told[k] \in [Facets -> Nat] /\ row[k].ver \in [Facets -> Nat]
  BY DEF ProjectionInv, Types, Entry, Ver
<1> QED
  BY <1>1, <1>2

(* No row change is left out: when the loop sleeps with no timer armed, no load   *)
(* and an empty bus, the windows have been told the stored version of every facet *)
(* of every row, whatever was retired, returned, missing, given up or lost.       *)
THEOREM RowsToldAlways == Spec => []RowsTold
BY ProjectionInvAlways, InvRows, PTL

(* and that every live session will be. *)
LEMMA InvLives == ProjectionInv => LivesTold
<1> SUFFICES ASSUME ProjectionInv, AtRest PROVE seen = life
  BY DEF LivesTold
<1>1. ASSUME NEW k \in Keys
      PROVE  seen[k] = life[k]
  BY RestIsEmpty DEF ProjectionInv, LifeInv, Carries
<1>2. seen \in [Keys -> Nat] /\ life \in [Keys -> Nat]
  BY DEF ProjectionInv, Types
<1> QED
  BY <1>1, <1>2

(* No lifecycle state is left out: at rest every window has every state, by its   *)
(* event or by a recovery marker.  A gap during a recovery (absorb_lag above the  *)
(* watermark) is marked by the follow-up that open_batch starts.                  *)
THEOREM LivesToldAlways == Spec => []LivesTold
BY ProjectionInvAlways, InvLives, PTL
=============================================================================
