---------------------- MODULE SessionRegistryProofs ----------------------
(***************************************************************************)
(* What the operators of the registry keep, one family of lemmas per       *)
(* property: the invariant RegistryInv against a history of deletions, the *)
(* exactness of the deadline index, the working count and the clients'     *)
(* view, the growth of the deletion memory, the caps, the one key that an  *)
(* operator changes, the anonymous activity, whose activity an entry       *)
(* holds, the keys that a walk has in front of it, and the activity in the *)
(* window that is kept.                                                    *)
(***************************************************************************)
EXTENDS SessionRegistry, TLAPS, FiniteSetTheorems, WellFoundedInduction

\* A nonempty set of naturals has a least element.
LEMMA LeastNatural ==
  ASSUME NEW S \in SUBSET Nat, S # {}
  PROVE  \E x \in S : \A y \in S : x <= y
<1> DEFINE R == {ss \in Nat \X Nat : ss[1] < ss[2]}
<1>1. IsWellFoundedOn(R, Nat)
  BY NatLessThanWellFounded, Zenon DEF OpToRel
<1>2. \E x \in S : \A y \in S : ~(<<y, x>> \in R)
  <2> HIDE DEF R
  <2> QED BY <1>1, WFMin, Zenon
<1>3. PICK x \in S : \A y \in S : ~(<<y, x>> \in R)
  BY <1>2
<1>4. ASSUME NEW y \in S PROVE x <= y
  <2>1. x \in Nat /\ y \in Nat
    OBVIOUS
  <2>2. ~(y < x)
    BY <1>3, <2>1
  <2> QED BY <2>1, <2>2
<1>5. QED
  BY <1>4

\* The oldest remembered deletion is one of the remembered ones.
LEMMA OldestRemembered ==
  ASSUME NEW r \in Registry, Remembered(r.deleted) # {}
  PROVE  Oldest(r.deleted) \in Remembered(r.deleted)
<1> DEFINE at(k) == r.deleted[k].absent_at
           S == {at(k) : k \in Remembered(r.deleted)}
<1>1. \A k \in Remembered(r.deleted) : k \in Nat /\ at(k) \in Nat
  BY KeysAssumption DEF Registry, Remembered, Deletion, Revision
<1>2. PICK m \in S : \A n \in S : m <= n
  <2>1. S \subseteq Nat /\ S # {}
    BY <1>1
  <2> HIDE DEF S
  <2> QED BY <2>1, LeastNatural
<1> DEFINE T == {k \in Remembered(r.deleted) : at(k) = m}
<1>3. PICK k \in T : \A j \in T : k <= j
  <2>1. T \subseteq Nat /\ T # {}
    BY <1>1, <1>2
  <2> HIDE DEF T
  <2> QED BY <2>1, LeastNatural
<1>4. ASSUME NEW j \in Remembered(r.deleted)
      PROVE  at(k) < at(j) \/ (at(k) = at(j) /\ k <= j)
  <2>1. at(k) = m /\ m <= at(j) /\ m \in Nat /\ at(j) \in Nat
    BY <1>1, <1>2, <1>3
  <2>2. at(j) = m => k <= j
    BY <1>3
  <2> QED BY <2>1, <2>2
<1>5. k \in Remembered(r.deleted)
  OBVIOUS
<1>6. \E i \in Remembered(r.deleted) : \A j \in Remembered(r.deleted) :
        at(i) < at(j) \/ (at(i) = at(j) /\ i <= j)
  BY <1>4, <1>5
<1> QED
  BY <1>6 DEF Oldest

\* Evicting a remembered deletion leaves a registry and changes only the memory.
LEMMA EvictType ==
  ASSUME NEW r \in Registry, Remembered(r.deleted) # {}
  PROVE  Evict(r) \in Registry
<1> DEFINE k == Oldest(r.deleted)
           d == [r.deleted EXCEPT ![k] = None]
           f == Max2(r.forgotten_through, r.deleted[k].absent_at)
<1>1. k \in Keys /\ r.deleted[k] # None
  BY OldestRemembered DEF Remembered
<1> HIDE DEF k
<1>2. r.deleted \in [Keys -> Deletion \cup {None}] /\ r.forgotten_through \in Revision
  BY DEF Registry
<1>3. d \in [Keys -> Deletion \cup {None}]
  BY <1>1, <1>2
<1>4. f \in Revision
  BY <1>1, <1>2 DEF Deletion, Revision, Max2
<1>5. Evict(r) = [r EXCEPT !.deleted = d, !.forgotten_through = f]
  BY DEF Evict, k
<1> HIDE DEF d, f
<1> QED
  BY <1>3, <1>4, <1>5 DEF Registry

\* remember() leaves the live entries, the waiting evidence and the recovery alone.
LEMMA RememberFields ==
  ASSUME NEW r \in Registry, NEW k \in Keys, NEW i \in Incarnation, NEW q \in Revision
  PROVE  /\ Remember(r, k, i, q) \in Registry
         /\ Remember(r, k, i, q).live = r.live
         /\ Remember(r, k, i, q).pending = r.pending
         /\ Remember(r, k, i, q).recovery = r.recovery
         /\ Remember(r, k, i, q).gone[k] = Max2(r.gone[k], i)
<1> DEFINE old == r.deleted[k]
           new == IF old = None
                  THEN [incarnation |-> i, absent_at |-> q]
                  ELSE [incarnation |-> Max2(old.incarnation, i),
                        absent_at |-> Max2(old.absent_at, q)]
           t == [r EXCEPT !.deleted[k] = new, !.gone[k] = Max2(@, i)]
<1>1. new \in Deletion
  BY DEF Registry, Deletion, Revision, Incarnation, Max2
<1>2. t \in Registry
  <2> HIDE DEF new
  <2>1. Max2(r.gone[k], i) \in Incarnation
    BY DEF Registry, Max2, Incarnation
  <2> QED BY <1>1, <2>1 DEF Registry
<1>3. new # None
  BY <1>1, NoneAssumption
<1>4. k \in Remembered(t.deleted)
  BY <1>3 DEF Registry, Remembered
<1>5. Remember(r, k, i, q) = t \/ Remember(r, k, i, q) = Evict(t)
  BY DEF Remember
<1>6. Evict(t) \in Registry
  BY <1>2, <1>4, EvictType
<1>7. /\ t.live = r.live /\ t.pending = r.pending /\ t.recovery = r.recovery
      /\ t.gone[k] = Max2(r.gone[k], i)
  <2> HIDE DEF new
  <2> QED BY DEF Registry
<1> HIDE DEF t
<1>8. /\ Evict(t).live = t.live /\ Evict(t).pending = t.pending
      /\ Evict(t).recovery = t.recovery /\ Evict(t).gone = t.gone
  BY <1>2 DEF Registry, Evict
<1> QED
  BY <1>2, <1>5, <1>6, <1>7, <1>8

\* The deletion memory after Remember depends on the memory alone.
LEMMA RememberMemory ==
  ASSUME NEW r \in Registry, NEW u \in Registry, NEW k \in Keys, NEW i \in Incarnation,
         NEW q \in Revision, u.deleted = r.deleted, u.gone = r.gone,
         u.forgotten_through = r.forgotten_through
  PROVE  LET s == Remember(r, k, i, q)
             f == Remember(u, k, i, q)
         IN /\ f.deleted = s.deleted /\ f.gone = s.gone
            /\ f.forgotten_through = s.forgotten_through
<1> DEFINE old == r.deleted[k]
           new == IF old = None
                  THEN [incarnation |-> i, absent_at |-> q]
                  ELSE [incarnation |-> Max2(old.incarnation, i),
                        absent_at |-> Max2(old.absent_at, q)]
           oldU == u.deleted[k]
           newU == IF oldU = None
                   THEN [incarnation |-> i, absent_at |-> q]
                   ELSE [incarnation |-> Max2(oldU.incarnation, i),
                         absent_at |-> Max2(oldU.absent_at, q)]
           t == [r EXCEPT !.deleted[k] = new, !.gone[k] = Max2(@, i)]
           v == [u EXCEPT !.deleted[k] = newU, !.gone[k] = Max2(@, i)]
           full == old = None /\ Cardinality(Remembered(t.deleted)) > DeletionCap
<1>1. /\ v.deleted = t.deleted /\ v.gone = t.gone
      /\ v.forgotten_through = t.forgotten_through
  <2>1. newU = new
    OBVIOUS
  <2> HIDE DEF new, newU
  <2> QED BY <2>1 DEF Registry
<1>2. Remember(r, k, i, q) = IF full THEN Evict(t) ELSE t
  BY Zenon DEF Remember
<1>3. Remember(u, k, i, q) = IF full THEN Evict(v) ELSE v
  <2>1. Remember(u, k, i, q) =
          IF oldU = None /\ Cardinality(Remembered(v.deleted)) > DeletionCap
          THEN Evict(v) ELSE v
    BY Zenon DEF Remember
  <2>2. oldU = old
    OBVIOUS
  <2> HIDE DEF v, t, old, oldU
  <2> QED BY <1>1, <2>1, <2>2
<1>4. /\ Evict(v).deleted = Evict(t).deleted /\ Evict(v).gone = Evict(t).gone
      /\ Evict(v).forgotten_through = Evict(t).forgotten_through
  <2> HIDE DEF new, newU
  <2> QED BY <1>1 DEF Evict, Registry
<1> HIDE DEF t, v, full
<1> QED
  BY <1>1, <1>2, <1>3, <1>4

----------------------------------------------------------------------------
\* The history holds keys, incarnations and revisions up to the latest.
LEMMA HistoryElement ==
  ASSUME NEW E, NEW R, History(E, R), NEW k, NEW i, NEW q, <<k, i, q>> \in E
  PROVE  k \in Keys /\ i \in Incarnation /\ q \in Revision /\ q <= R
  BY DEF History, Incarnation, Revision

\* An absence names an incarnation and a revision up to the latest.
LEMMA GoneTypes ==
  ASSUME NEW E, NEW R, History(E, R), NEW k, NEW i, NEW q, Gone(E, R, k, i, q)
  PROVE  i \in Incarnation /\ q \in Revision /\ q <= R
  BY DEF History, Gone, Incarnation, Revision

\* What is gone from a revision on is gone from every later one on.
LEMMA GoneLater ==
  ASSUME NEW E, NEW R, History(E, R), NEW k, NEW i, NEW q, Gone(E, R, k, i, q),
         NEW p \in Revision, q <= p, p <= R
  PROVE  Gone(E, R, k, i, p)
<1>1. q \in Nat /\ p \in 0..R
  BY DEF Gone, History, Revision
<1>2. \A x \in E : x[3] \in Nat
  BY DEF History
<1> QED
  BY <1>1, <1>2 DEF Gone

\* When an incarnation is gone, so is every older one.
LEMMA GoneOlder ==
  ASSUME NEW E, NEW R, History(E, R), NEW k, NEW i, NEW q, Gone(E, R, k, i, q),
         NEW j \in Incarnation, j <= i
  PROVE  Gone(E, R, k, j, q)
<1>1. \A x \in E : x[2] \in Nat
  BY DEF History, Incarnation
<1> QED
  BY <1>1 DEF Gone, Incarnation

\* Two absences of a key join to the higher incarnation and the later revision.
LEMMA GoneMax ==
  ASSUME NEW E, NEW R, History(E, R), NEW k,
         NEW i, NEW q, Gone(E, R, k, i, q), NEW j, NEW p, Gone(E, R, k, j, p)
  PROVE  Gone(E, R, k, Max2(i, j), Max2(q, p))
<1>1. i \in Nat /\ j \in Nat /\ q \in 0..R /\ p \in 0..R
  <2>1. i \in Nat /\ j \in Nat
    BY GoneTypes DEF Incarnation
  <2> QED BY <2>1 DEF Gone
<1>2. \A x \in E : x[3] \in Nat /\ x[2] \in Nat
  BY DEF History, Incarnation
<1>3. Max2(q, p) \in 0..R /\ Max2(q, p) >= q /\ Max2(q, p) >= p
  BY <1>1 DEF Max2, History
<1>4. Max2(i, j) = i \/ Max2(i, j) = j
  BY DEF Max2
<1>5. ASSUME NEW x \in E, x[1] = k, x[3] >= Max2(q, p)
      PROVE  x[2] > i /\ x[2] > j
  BY <1>1, <1>2, <1>3, <1>5 DEF Gone, History, Revision
<1> QED
  BY <1>3, <1>4, <1>5 DEF Gone

\* When a revision held a newer incarnation, the older one is gone from there on.
LEMMA GoneBelow ==
  ASSUME NEW E, NEW R, History(E, R), NEW k, NEW i, NEW p, <<k, i, p>> \in E,
         NEW j, NEW q, <<k, j, q>> \in E, i < j
  PROVE  Gone(E, R, k, i, q)
<1>1. i \in Nat /\ j \in Nat /\ q \in 0..R
  BY HistoryElement DEF Incarnation, Revision
<1>2. ASSUME NEW x \in E, x[1] = k, x[3] >= q
      PROVE  x[2] > i
  <2>1. x[2] \in Nat /\ x[3] \in Nat
    BY DEF History, Incarnation
  <2>2. x[2] < j => x[3] < q
    BY <1>2 DEF History
  <2> QED BY <1>1, <1>2, <2>1, <2>2
<1>3. \E x \in E : x[1] = k /\ x[2] >= i
  <2>1. <<k, i, p>>[1] = k /\ <<k, i, p>>[2] >= i
    BY <1>1
  <2> QED BY <2>1
<1> QED
  BY <1>1, <1>2, <1>3 DEF Gone, Incarnation

\* An incarnation seen at a revision is gone once a later revision holds no row.
LEMMA GoneAbsent ==
  ASSUME NEW E, NEW R, History(E, R), NEW k, NEW i, NEW p, <<k, i, p>> \in E,
         NEW q \in 0..R, p <= q, \A j \in Incarnation : <<k, j, q>> \notin E
  PROVE  Gone(E, R, k, i, q)
<1>1. i \in Nat /\ p \in Nat /\ q \in Nat
  BY HistoryElement DEF Incarnation, Revision, History
<1>2. ASSUME NEW x \in E, x[1] = k, x[3] >= q
      PROVE  x[2] > i
  <2>1. x[2] \in Nat /\ x[3] \in Nat
    BY DEF History, Incarnation
  <2>2. x[2] < i => x[3] < p
    BY <1>2 DEF History
  <2>3. x[2] # i
    <3>1. SUFFICES ASSUME x[2] = i PROVE FALSE
      OBVIOUS
    <3>2. q \in p..x[3]
      BY <1>1, <1>2, <2>1
    <3>3. <<k, i, q>> \in E
      BY <1>2, <3>1, <3>2 DEF History
    <3> QED BY <1>1, <3>3 DEF Incarnation
  <2> QED BY <1>1, <1>2, <2>1, <2>2, <2>3
<1>3. \E x \in E : x[1] = k /\ x[2] >= i
  <2>1. <<k, i, p>>[1] = k /\ <<k, i, p>>[2] >= i
    BY <1>1
  <2> QED BY <2>1
<1> QED
  BY <1>1, <1>2, <1>3 DEF Gone, Incarnation

----------------------------------------------------------------------------
\* An evicted deletion is still held off, by forgotten_through.
LEMMA EvictInv ==
  ASSUME NEW E, NEW R, History(E, R), NEW r, RegistryInv(r, E, R), Remembered(r.deleted) # {}
  PROVE  RegistryInv(Evict(r), E, R)
<1> DEFINE o == Oldest(r.deleted)
           s == Evict(r)
<1>1. r \in Registry /\ o \in Remembered(r.deleted)
  BY OldestRemembered DEF RegistryInv
<1>2. o \in Keys /\ r.deleted[o] # None /\ r.deleted[o] \in Deletion
  BY <1>1 DEF Remembered, Registry
<1>3. Gone(E, R, o, r.deleted[o].incarnation, r.deleted[o].absent_at)
  BY <1>2 DEF RegistryInv, KeyInv
<1>4. /\ r.forgotten_through \in Revision /\ r.deleted[o].absent_at \in Revision
      /\ r.deleted[o].absent_at <= R /\ r.forgotten_through <= R
  BY <1>1, <1>2, <1>3, GoneTypes DEF RegistryInv, Registry
<1>5. /\ s \in Registry
      /\ s.live = r.live /\ s.pending = r.pending /\ s.gone = r.gone
      /\ s.recovery = r.recovery
      /\ s.deleted = [r.deleted EXCEPT ![o] = None]
      /\ s.forgotten_through = Max2(r.forgotten_through, r.deleted[o].absent_at)
  <2>1. s \in Registry
    BY <1>1, EvictType
  <2> QED BY <1>1, <2>1 DEF Registry, Evict
<1> HIDE DEF s
<1>6. /\ s.forgotten_through \in Revision /\ s.forgotten_through <= R
      /\ s.forgotten_through >= r.forgotten_through
      /\ s.forgotten_through >= r.deleted[o].absent_at
  BY <1>4, <1>5 DEF Max2, Revision
<1>7. ASSUME NEW k \in Keys PROVE KeyInv(s, E, R, k)
  <2>1. KeyInv(r, E, R, k)
    BY DEF RegistryInv
  <2>2. \/ s.gone[k] = -1
        \/ s.deleted[k] # None /\ s.deleted[k].incarnation >= s.gone[k]
        \/ Gone(E, R, k, s.gone[k], s.forgotten_through)
    <3>1. CASE r.gone[k] = -1
      BY <1>5, <3>1
    <3>2. CASE r.deleted[k] # None /\ r.deleted[k].incarnation >= r.gone[k] /\ k # o
      BY <1>1, <1>5, <3>2 DEF Registry
    <3>3. CASE /\ r.gone[k] # -1
               /\ r.deleted[k] # None /\ r.deleted[k].incarnation >= r.gone[k] /\ k = o
      <4>1. r.gone[k] \in Incarnation
        BY <1>1, <3>3 DEF Registry
      <4>2. Gone(E, R, k, r.gone[k], r.deleted[k].absent_at)
        BY <1>3, <3>3, <4>1, GoneOlder
      <4>3. Gone(E, R, k, r.gone[k], s.forgotten_through)
        BY <1>6, <3>3, <4>2, GoneLater
      <4> QED BY <1>5, <4>3
    <3>4. CASE Gone(E, R, k, r.gone[k], r.forgotten_through)
      <4>1. Gone(E, R, k, r.gone[k], s.forgotten_through)
        BY <1>6, <3>4, GoneLater
      <4> QED BY <1>5, <4>1
    <3> QED BY <2>1, <3>1, <3>2, <3>3, <3>4 DEF KeyInv
  <2>3. s.deleted[k] # None =>
          Gone(E, R, k, s.deleted[k].incarnation, s.deleted[k].absent_at)
    BY <1>1, <1>5, <2>1 DEF KeyInv, Registry
  <2> QED BY <1>5, <2>1, <2>2, <2>3 DEF KeyInv
<1> QED
  BY <1>5, <1>6, <1>7 DEF RegistryInv, s

\* remember() of a true absence that no live entry contradicts keeps the registry true.
LEMMA RememberInv ==
  ASSUME NEW E, NEW R, History(E, R), NEW r, RegistryInv(r, E, R), NEW k \in Keys,
         NEW i, NEW q, Gone(E, R, k, i, q),
         r.live[k] # None => r.live[k].incarnation > i
  PROVE  RegistryInv(Remember(r, k, i, q), E, R)
<1> DEFINE old == r.deleted[k]
           new == IF old = None
                  THEN [incarnation |-> i, absent_at |-> q]
                  ELSE [incarnation |-> Max2(old.incarnation, i),
                        absent_at |-> Max2(old.absent_at, q)]
           t == [r EXCEPT !.deleted[k] = new, !.gone[k] = Max2(@, i)]
<1>1. r \in Registry /\ i \in Incarnation /\ q \in Revision /\ q <= R
  BY GoneTypes DEF RegistryInv
<1>2. old # None => /\ old \in Deletion
                    /\ Gone(E, R, k, old.incarnation, old.absent_at)
  BY <1>1 DEF RegistryInv, KeyInv, Registry
<1>3. /\ new \in Deletion /\ new # None
      /\ Gone(E, R, k, new.incarnation, new.absent_at)
      /\ new.incarnation >= i
      /\ old # None => new.incarnation >= old.incarnation
  <2>1. CASE old = None
    BY <1>1, <2>1, NoneAssumption DEF Deletion, Incarnation
  <2>2. CASE old # None
    <3>1. Gone(E, R, k, Max2(old.incarnation, i), Max2(old.absent_at, q))
      BY <1>2, <2>2, GoneMax
    <3>2. new = [incarnation |-> Max2(old.incarnation, i),
                 absent_at |-> Max2(old.absent_at, q)]
      BY <2>2
    <3>3. new \in Deletion
      BY <1>1, <1>2, <2>2, <3>2 DEF Deletion, Incarnation, Revision, Max2
    <3>4. new.incarnation >= i /\ new.incarnation >= old.incarnation
      BY <1>1, <1>2, <2>2, <3>2 DEF Deletion, Incarnation, Max2
    <3>5. Gone(E, R, k, new.incarnation, new.absent_at)
      BY <3>1, <3>2
    <3> QED BY <3>3, <3>4, <3>5, NoneAssumption
  <2> QED BY <2>1, <2>2
<1> HIDE DEF new
<1> DEFINE g == Max2(r.gone[k], i)
<1>4. g \in Incarnation /\ (g = i \/ g = r.gone[k])
  BY <1>1 DEF Registry, Max2, Incarnation
<1>5. /\ t \in Registry
      /\ t.live = r.live /\ t.pending = r.pending /\ t.recovery = r.recovery
      /\ t.forgotten_through = r.forgotten_through
      /\ t.deleted = [r.deleted EXCEPT ![k] = new]
      /\ t.gone = [r.gone EXCEPT ![k] = g]
  <2>1. Max2(r.gone[k], i) \in Incarnation
    BY <1>4
  <2>2. new \in Deletion
    BY <1>3
  <2>3. t \in Registry
    BY <1>1, <2>1, <2>2 DEF Registry
  <2> QED BY <1>1, <2>3 DEF Registry
<1>6. k \in Remembered(t.deleted)
  BY <1>1, <1>3, <1>5 DEF Registry, Remembered
<1>7. Remember(r, k, i, q) = t \/ Remember(r, k, i, q) = Evict(t)
  BY DEF Remember, new
<1> HIDE DEF t
<1>8. ASSUME NEW j \in Keys PROVE KeyInv(t, E, R, j)
  <2>1. KeyInv(r, E, R, j)
    BY DEF RegistryInv
  <2>2. CASE j # k
    <3>1. t.deleted[j] = r.deleted[j] /\ t.gone[j] = r.gone[j]
      BY <1>1, <1>5, <2>2 DEF Registry
    <3> QED BY <1>5, <2>1, <3>1 DEF KeyInv
  <2>3. CASE j = k
    <3>1. t.deleted[j] = new /\ t.gone[j] = g
      BY <1>1, <1>5, <2>3 DEF Registry
    <3>2. r.live[j] # None => r.live[j].incarnation > g
      BY <1>4, <2>1, <2>3 DEF KeyInv
    <3>3. new.incarnation >= g \/ Gone(E, R, j, g, r.forgotten_through)
      <4>1. CASE g = i
        BY <1>3, <4>1
      <4>2. CASE g = r.gone[k] /\ old # None /\ old.incarnation >= r.gone[k]
        BY <1>1, <1>2, <1>3, <1>4, <4>2 DEF Deletion, Incarnation
      <4>3. CASE g = r.gone[k] /\ Gone(E, R, k, r.gone[k], r.forgotten_through)
        BY <2>3, <4>3
      <4>4. CASE g = r.gone[k] /\ r.gone[k] = -1
        BY <1>4, <4>4 DEF Incarnation
      <4> QED BY <1>4, <2>1, <2>3, <4>1, <4>2, <4>3, <4>4 DEF KeyInv
    <3> HIDE DEF g
    <3> QED BY <1>3, <1>5, <2>1, <2>3, <3>1, <3>2, <3>3 DEF KeyInv
  <2> QED BY <2>2, <2>3
<1>9. RegistryInv(t, E, R)
  BY <1>5, <1>8 DEF RegistryInv
<1>10. RegistryInv(Evict(t), E, R)
  BY <1>6, <1>9, EvictInv
<1> QED
  BY <1>7, <1>9, <1>10

\* An operator that leaves the admission state of every key alone.
LEMMA FrameInv ==
  ASSUME NEW E, NEW R, NEW r, RegistryInv(r, E, R), NEW s \in Registry,
         s.live = r.live, s.pending = r.pending, s.deleted = r.deleted, s.gone = r.gone,
         s.forgotten_through = r.forgotten_through, s.recovery = r.recovery
  PROVE  RegistryInv(s, E, R)
  BY DEF RegistryInv, KeyInv

\* An operator that changes the live entry or the waiting evidence of one key.
LEMMA KeyFrameInv ==
  ASSUME NEW E, NEW R, NEW r, RegistryInv(r, E, R), NEW s \in Registry, NEW k \in Keys,
         \A j \in Keys : j # k => s.live[j] = r.live[j] /\ s.pending[j] = r.pending[j],
         s.deleted = r.deleted, s.gone = r.gone,
         s.forgotten_through = r.forgotten_through, s.recovery = r.recovery,
         s.live[k] # None =>
            /\ <<k, s.live[k].incarnation, s.live[k].exists_at>> \in E
            /\ s.live[k].incarnation > s.gone[k]
            /\ s.pending[k] = None,
         s.pending[k] # None => <<k, s.pending[k].incarnation, s.pending[k].revision>> \in E
  PROVE  RegistryInv(s, E, R)
<1>1. ASSUME NEW j \in Keys PROVE KeyInv(s, E, R, j)
  <2>1. KeyInv(r, E, R, j)
    BY DEF RegistryInv
  <2> QED BY <2>1 DEF KeyInv
<1> QED
  BY <1>1 DEF RegistryInv

----------------------------------------------------------------------------
\* The weight of an entry in the working count is an integer.
LEMMA WeightType ==
  ASSUME NEW entry \in LiveEntry \cup {None}
  PROVE  Weight(entry) \in Int
  BY DEF Weight

\* The deadline of a live entry is an element of the deadline index.
LEMMA DeadlineType ==
  ASSUME NEW k \in Keys, NEW entry \in LiveEntry
  PROVE  SessionDeadline(k, entry) \in Time \X DeadlineKey
<1>1. Deadline(entry) \in Time
  BY WindowAssumption DEF Deadline, LiveEntry, Time
<1>2. <<"session", k>> \in DeadlineKey
  BY DEF DeadlineKey
<1> QED
  BY <1>1, <1>2 DEF SessionDeadline

\* insert_live() changes one live entry, the deadline index and the working count.
LEMMA InsertLiveFields ==
  ASSUME NEW r \in Registry, NEW k \in Keys \ RemoteKeys, NEW entry \in LiveEntry
  PROVE  LET s == InsertLive(r, k, entry) IN
         /\ s \in Registry
         /\ s.live = [r.live EXCEPT ![k] = entry]
         /\ s.pending = r.pending /\ s.deleted = r.deleted /\ s.gone = r.gone
         /\ s.forgotten_through = r.forgotten_through /\ s.recovery = r.recovery
<1> DEFINE d == r.deadlines \cup {SessionDeadline(k, entry)}
           w == r.working + Weight(entry) - Weight(r.live[k])
<1>1. d \in SUBSET (Time \X DeadlineKey)
  BY DeadlineType DEF Registry
<1>2. w \in Int
  <2>1. Weight(entry) \in Int /\ Weight(r.live[k]) \in Int
    BY WeightType DEF Registry
  <2> QED BY <2>1 DEF Registry
<1> DEFINE s == InsertLive(r, k, entry)
<1>3. s = [r EXCEPT !.live[k] = entry, !.deadlines = d, !.working = w]
  BY DEF InsertLive
<1> HIDE DEF d, w, s
<1>4. s \in Registry
  BY <1>1, <1>2, <1>3 DEF Registry
<1>5. /\ s.live = [r.live EXCEPT ![k] = entry]
      /\ s.pending = r.pending /\ s.deleted = r.deleted /\ s.gone = r.gone
      /\ s.forgotten_through = r.forgotten_through /\ s.recovery = r.recovery
  BY <1>3 DEF Registry
<1> QED
  BY <1>4, <1>5 DEF s

\* Ending a live session changes its entry, the index, the count and the view.
LEMMA EndLiveFields ==
  ASSUME NEW r \in Registry, NEW k \in Keys
  PROVE  LET s == EndLive(r, k) IN
         /\ s \in Registry
         /\ s.live = [r.live EXCEPT ![k] = None]
         /\ s.pending = r.pending /\ s.deleted = r.deleted /\ s.gone = r.gone
         /\ s.forgotten_through = r.forgotten_through /\ s.recovery = r.recovery
<1> DEFINE t == RemoveLive(r, k)
<1>1. /\ t \in Registry
      /\ t.live = [r.live EXCEPT ![k] = None]
      /\ t.pending = r.pending /\ t.deleted = r.deleted /\ t.gone = r.gone
      /\ t.forgotten_through = r.forgotten_through /\ t.recovery = r.recovery
  <2>1. CASE r.live[k] = None
    <3>1. t = r
      BY <2>1 DEF RemoveLive
    <3>2. r.live = [r.live EXCEPT ![k] = None]
      BY <2>1 DEF Registry
    <3> HIDE DEF t
    <3> QED BY <3>1, <3>2
  <2>2. CASE r.live[k] # None
    <3> DEFINE d == r.deadlines \ {SessionDeadline(k, r.live[k])}
               w == r.working - Weight(r.live[k])
    <3>1. d \in SUBSET (Time \X DeadlineKey)
      BY DEF Registry
    <3>2. w \in Int
      <4>1. Weight(r.live[k]) \in Int
        BY WeightType DEF Registry
      <4> QED BY <4>1 DEF Registry
    <3>3. t = [r EXCEPT !.live[k] = None, !.deadlines = d, !.working = w]
      BY <2>2 DEF RemoveLive
    <3> HIDE DEF d, w, t
    <3> QED BY <3>1, <3>2, <3>3 DEF Registry
  <2> QED BY <2>1, <2>2
<1> DEFINE v == [t.view EXCEPT ![k] = "absent"]
<1>2. EndLive(r, k) = [t EXCEPT !.view = v]
  BY DEF EndLive
<1>3. v \in [Keys -> {"absent", "working", "quiet"}]
  <2>1. t.view \in [Keys -> {"absent", "working", "quiet"}]
    BY <1>1 DEF Registry
  <2> HIDE DEF t
  <2> QED BY <2>1
<1> DEFINE s == EndLive(r, k)
<1>4. s = [t EXCEPT !.view = v]
  BY <1>2
<1> HIDE DEF t, v, s
<1>5. s \in Registry
  BY <1>1, <1>3, <1>4 DEF Registry
<1>6. /\ s.live = t.live /\ s.pending = t.pending /\ s.deleted = t.deleted /\ s.gone = t.gone
      /\ s.forgotten_through = t.forgotten_through /\ s.recovery = t.recovery
  BY <1>1, <1>4 DEF Registry
<1> QED
  BY <1>1, <1>5, <1>6 DEF s

\* Ending a live session keeps the registry true.
LEMMA EndLiveInv ==
  ASSUME NEW E, NEW R, NEW r, RegistryInv(r, E, R), NEW k \in Keys
  PROVE  RegistryInv(EndLive(r, k), E, R)
<1> DEFINE s == EndLive(r, k)
<1>1. r \in Registry
  BY DEF RegistryInv
<1>2. /\ s \in Registry
      /\ s.live = [r.live EXCEPT ![k] = None]
      /\ s.pending = r.pending /\ s.deleted = r.deleted /\ s.gone = r.gone
      /\ s.forgotten_through = r.forgotten_through /\ s.recovery = r.recovery
  BY <1>1, EndLiveFields
<1>3. s.live[k] = None /\ \A j \in Keys : j # k => s.live[j] = r.live[j]
  BY <1>1, <1>2 DEF Registry
<1>4. s.pending[k] # None => <<k, s.pending[k].incarnation, s.pending[k].revision>> \in E
  BY <1>2 DEF RegistryInv, KeyInv
<1> HIDE DEF s
<1>5. RegistryInv(s, E, R)
  BY <1>2, <1>3, <1>4, KeyFrameInv
<1> QED
  BY <1>5 DEF s

----------------------------------------------------------------------------
\* The evidence of a fact: the store held its incarnation at its revision.
TrueFact(E, k, fact) ==
    fact \in Existence /\ <<k, fact.incarnation, fact.revision>> \in E

\* A true fact above the gone incarnation can become the live entry.
LEMMA InsertLiveInv ==
  ASSUME NEW E, NEW R, NEW r, RegistryInv(r, E, R), NEW k \in Keys \ RemoteKeys, NEW fact,
         TrueFact(E, k, fact), r.pending[k] = None, fact.incarnation > r.gone[k]
  PROVE  RegistryInv(InsertLive(r, k, NewEntry(fact)), E, R)
<1> DEFINE entry == NewEntry(fact)
           s == InsertLive(r, k, entry)
<1>1. r \in Registry /\ k \in Keys
  BY DEF RegistryInv
<1>2. /\ entry \in LiveEntry /\ entry.incarnation = fact.incarnation
      /\ entry.exists_at = fact.revision
  BY DEF NewEntry, TrueFact, Existence, LiveEntry
<1> HIDE DEF entry
<1>3. /\ s \in Registry
      /\ s.live = [r.live EXCEPT ![k] = entry]
      /\ s.pending = r.pending /\ s.deleted = r.deleted /\ s.gone = r.gone
      /\ s.forgotten_through = r.forgotten_through /\ s.recovery = r.recovery
  BY <1>1, <1>2, InsertLiveFields
<1>4. s.live[k] = entry /\ \A j \in Keys : j # k => s.live[j] = r.live[j]
  BY <1>1, <1>3 DEF Registry
<1> HIDE DEF s
<1>5. RegistryInv(s, E, R)
  BY <1>1, <1>2, <1>3, <1>4, KeyFrameInv DEF TrueFact
<1> QED
  BY <1>5 DEF s, entry

\* Setting the waiting evidence of a key changes nothing else.
LEMMA PendingFields ==
  ASSUME NEW r \in Registry, NEW k \in Keys, NEW v \in Existence \cup {None}
  PROVE  LET s == [r EXCEPT !.pending[k] = v] IN
         /\ s \in Registry
         /\ s.pending = [r.pending EXCEPT ![k] = v]
         /\ s.live = r.live /\ s.deleted = r.deleted /\ s.gone = r.gone
         /\ s.forgotten_through = r.forgotten_through /\ s.recovery = r.recovery
  BY DEF Registry

\* True evidence may wait for a key that is not live.
LEMMA PendingInv ==
  ASSUME NEW E, NEW R, NEW r, RegistryInv(r, E, R), NEW k \in Keys,
         NEW v, v = None \/ (TrueFact(E, k, v) /\ r.live[k] = None)
  PROVE  RegistryInv([r EXCEPT !.pending[k] = v], E, R)
<1> DEFINE s == [r EXCEPT !.pending[k] = v]
<1>1. r \in Registry /\ v \in Existence \cup {None}
  BY DEF RegistryInv, TrueFact
<1>2. /\ s \in Registry
      /\ s.pending = [r.pending EXCEPT ![k] = v]
      /\ s.live = r.live /\ s.deleted = r.deleted /\ s.gone = r.gone
      /\ s.forgotten_through = r.forgotten_through /\ s.recovery = r.recovery
  BY <1>1, PendingFields
<1>3. s.pending[k] = v /\ \A j \in Keys : j # k => s.pending[j] = r.pending[j]
  BY <1>1, <1>2 DEF Registry
<1>4. KeyInv(r, E, R, k)
  BY DEF RegistryInv
<1> HIDE DEF s
<1>5. s.live[k] # None =>
        /\ <<k, s.live[k].incarnation, s.live[k].exists_at>> \in E
        /\ s.live[k].incarnation > s.gone[k]
        /\ s.pending[k] = None
  BY <1>2, <1>3, <1>4 DEF KeyInv
<1>6. s.pending[k] # None => <<k, s.pending[k].incarnation, s.pending[k].revision>> \in E
  BY <1>3 DEF TrueFact
<1>7. RegistryInv(s, E, R)
  BY <1>2, <1>3, <1>5, <1>6, KeyFrameInv
<1> QED
  BY <1>7 DEF s

\* The merge of two true facts of one incarnation is true.
LEMMA MergedFact ==
  ASSUME NEW E, NEW k, NEW held, NEW fact, TrueFact(E, k, held), TrueFact(E, k, fact),
         held.incarnation = fact.incarnation
  PROVE  /\ TrueFact(E, k, [fact EXCEPT !.at = Max2(held.at, fact.at),
                                        !.revision = Max2(held.revision, fact.revision)])
         /\ TrueFact(E, k, [fact EXCEPT !.at = Max2(@, held.at),
                                        !.revision = Max2(@, held.revision)])
  BY DEF TrueFact, Existence, Max2

\* The waiting evidence of a key is true, and the key is not live.
LEMMA HeldFact ==
  ASSUME NEW E, NEW R, NEW r, RegistryInv(r, E, R), NEW k \in Keys, r.pending[k] # None
  PROVE  TrueFact(E, k, r.pending[k]) /\ r.live[k] = None
  BY DEF RegistryInv, KeyInv, TrueFact, Registry

\* defer() of a true fact for a key that is not live keeps the registry true.
LEMMA DeferInv ==
  ASSUME NEW E, NEW R, NEW r, RegistryInv(r, E, R), NEW k \in Keys, NEW fact,
         TrueFact(E, k, fact), r.live[k] = None
  PROVE  RegistryInv(Defer(r, k, fact).reg, E, R)
<1> DEFINE held == r.pending[k]
           merged == [fact EXCEPT !.at = Max2(held.at, fact.at),
                                  !.revision = Max2(held.revision, fact.revision)]
<1>1. \/ Defer(r, k, fact).reg = r
      \/ Defer(r, k, fact).reg = [r EXCEPT !.pending[k] = fact]
      \/ /\ held # None /\ held.incarnation = fact.incarnation
         /\ Defer(r, k, fact).reg = [r EXCEPT !.pending[k] = merged]
  BY DEF Defer, Touched
<1>2. RegistryInv([r EXCEPT !.pending[k] = fact], E, R)
  BY PendingInv
<1>3. held # None /\ held.incarnation = fact.incarnation =>
        RegistryInv([r EXCEPT !.pending[k] = merged], E, R)
  <2>1. SUFFICES ASSUME held # None, held.incarnation = fact.incarnation
                 PROVE  RegistryInv([r EXCEPT !.pending[k] = merged], E, R)
    OBVIOUS
  <2>2. TrueFact(E, k, held)
    BY <2>1, HeldFact
  <2>3. TrueFact(E, k, merged)
    BY <2>1, <2>2, MergedFact
  <2> HIDE DEF merged
  <2> QED BY <2>3, PendingInv
<1> QED
  BY <1>1, <1>2, <1>3

\* A true fact about the live incarnation keeps the registry true.
LEMMA RefreshInv ==
  ASSUME NEW E, NEW R, NEW r, RegistryInv(r, E, R), NEW k \in Keys, NEW fact,
         TrueFact(E, k, fact), r.live[k] # None,
         fact.incarnation = r.live[k].incarnation
  PROVE  RegistryInv(Refresh(r, k, fact).reg, E, R)
<1> DEFINE entry == r.live[k]
           seen == [entry EXCEPT !.exists_at = Max2(@, fact.revision)]
           active == [seen EXCEPT !.last_activity_at = fact.at, !.quiet_published = FALSE]
           d == (r.deadlines \ {SessionDeadline(k, entry)}) \cup {SessionDeadline(k, active)}
           w == r.working + 1 - Weight(entry)
           s == [r EXCEPT !.live[k] = seen]
           t == [r EXCEPT !.live[k] = active, !.deadlines = d, !.working = w]
<1>1. r \in Registry /\ entry \in LiveEntry
  BY DEF RegistryInv, Registry
<1>2. /\ <<k, entry.incarnation, entry.exists_at>> \in E
      /\ entry.incarnation > r.gone[k] /\ r.pending[k] = None
  BY DEF RegistryInv, KeyInv
<1>3. /\ seen \in LiveEntry /\ active \in LiveEntry
      /\ seen.incarnation = entry.incarnation /\ active.incarnation = entry.incarnation
      /\ seen.exists_at \in {entry.exists_at, fact.revision}
      /\ active.exists_at = seen.exists_at
  BY <1>1 DEF LiveEntry, TrueFact, Existence, Max2
<1>4. Refresh(r, k, fact).reg = s \/ Refresh(r, k, fact).reg = t
  BY DEF Refresh, Touched
<1>5. d \in SUBSET (Time \X DeadlineKey) /\ w \in Int
  <2>1. SessionDeadline(k, active) \in Time \X DeadlineKey
    BY <1>3, DeadlineType
  <2>2. Weight(entry) \in Int
    BY <1>1, WeightType
  <2> QED BY <1>1, <2>1, <2>2 DEF Registry
<1> HIDE DEF d, w, seen, active
<1>6. RegistryInv(s, E, R)
  <2>1. s \in Registry
    BY <1>1, <1>3 DEF Registry
  <2>2. /\ s.live = [r.live EXCEPT ![k] = seen]
        /\ s.pending = r.pending /\ s.deleted = r.deleted /\ s.gone = r.gone
        /\ s.forgotten_through = r.forgotten_through /\ s.recovery = r.recovery
    BY <1>1 DEF Registry
  <2>3. s.live[k] = seen /\ \A j \in Keys : j # k => s.live[j] = r.live[j]
    BY <1>1, <2>2 DEF Registry
  <2>4. <<k, seen.incarnation, seen.exists_at>> \in E
    BY <1>2, <1>3 DEF TrueFact
  <2>5. /\ <<k, s.live[k].incarnation, s.live[k].exists_at>> \in E
        /\ s.live[k].incarnation > s.gone[k] /\ s.pending[k] = None
    BY <1>2, <1>3, <2>2, <2>3, <2>4
  <2>6. \A j \in Keys : j # k => s.live[j] = r.live[j] /\ s.pending[j] = r.pending[j]
    BY <2>2, <2>3
  <2> HIDE DEF s, t, entry
  <2> QED BY <2>1, <2>2, <2>5, <2>6, KeyFrameInv
<1>7. RegistryInv(t, E, R)
  <2>1. t \in Registry
    BY <1>1, <1>3, <1>5 DEF Registry
  <2>2. /\ t.live = [r.live EXCEPT ![k] = active]
        /\ t.pending = r.pending /\ t.deleted = r.deleted /\ t.gone = r.gone
        /\ t.forgotten_through = r.forgotten_through /\ t.recovery = r.recovery
    BY <1>1 DEF Registry
  <2>3. t.live[k] = active /\ \A j \in Keys : j # k => t.live[j] = r.live[j]
    BY <1>1, <2>2 DEF Registry
  <2>4. <<k, active.incarnation, active.exists_at>> \in E
    BY <1>2, <1>3 DEF TrueFact
  <2>5. /\ <<k, t.live[k].incarnation, t.live[k].exists_at>> \in E
        /\ t.live[k].incarnation > t.gone[k] /\ t.pending[k] = None
    BY <1>2, <1>3, <2>2, <2>3, <2>4
  <2>6. \A j \in Keys : j # k => t.live[j] = r.live[j] /\ t.pending[j] = r.pending[j]
    BY <2>2, <2>3
  <2> HIDE DEF s, t, entry
  <2> QED BY <2>1, <2>2, <2>5, <2>6, KeyFrameInv
<1> QED
  BY <1>4, <1>6, <1>7

\* The admission of a true fact that passes the guards keeps the registry true.
LEMMA AdmitInv ==
  ASSUME NEW E, NEW R, History(E, R), NEW r, RegistryInv(r, E, R),
         NEW k \in Keys \ RemoteKeys, NEW fact, TrueFact(E, k, fact),
         r.live[k] = None, fact.incarnation > r.gone[k]
  PROVE  RegistryInv(Admit(r, k, fact).reg, E, R)
<1> DEFINE held == r.pending[k]
           merged == [fact EXCEPT !.at = Max2(@, held.at),
                                  !.revision = Max2(@, held.revision)]
           cleared == DropPending(r, k)
<1>1. r \in Registry
  BY DEF RegistryInv
<1>2. /\ fact.incarnation \in Incarnation /\ fact.revision \in Revision
      /\ <<k, fact.incarnation, fact.revision>> \in E
  BY DEF TrueFact, Existence
<1>3. /\ RegistryInv(cleared, E, R) /\ cleared.pending[k] = None
      /\ cleared.gone = r.gone /\ cleared.live = r.live
  <2>1. RegistryInv(cleared, E, R)
    BY PendingInv DEF DropPending
  <2> QED BY <1>1, <2>1 DEF DropPending, Registry
<1>4. held # None => /\ TrueFact(E, k, held) /\ held.incarnation \in Incarnation
                     /\ held.revision \in Revision
                     /\ <<k, held.incarnation, held.revision>> \in E
  BY HeldFact DEF TrueFact, Existence
<1> HIDE DEF cleared
<1>5. CASE held = None
  <2>1. Admit(r, k, fact).reg = InsertLive(r, k, NewEntry(fact))
    BY <1>5 DEF Admit, Touched
  <2> QED BY <1>5, <2>1, InsertLiveInv
<1>6. CASE held # None /\ held.incarnation > fact.incarnation
  <2>1. Admit(r, k, fact).reg = Remember(r, k, fact.incarnation, held.revision)
    BY <1>6 DEF Admit, Touched
  <2>2. Gone(E, R, k, fact.incarnation, held.revision)
    BY <1>2, <1>4, <1>6, GoneBelow DEF Incarnation
  <2> QED BY <2>1, <2>2, RememberInv
<1>7. CASE held # None /\ held.incarnation = fact.incarnation
  <2>1. Admit(r, k, fact).reg = InsertLive(cleared, k, NewEntry(merged))
    <3>1. ~(held.incarnation > fact.incarnation)
      BY <1>2, <1>7 DEF Incarnation
    <3>2. Admit(r, k, fact) = Touched(InsertLive(cleared, k, NewEntry(merged)), "added")
      BY <1>7, <3>1, Zenon DEF Admit, cleared
    <3> HIDE DEF merged
    <3> QED BY <3>2 DEF Touched
  <2>2. TrueFact(E, k, merged)
    BY <1>4, <1>7, MergedFact
  <2>3. merged.incarnation = fact.incarnation
    BY DEF TrueFact, Existence
  <2> HIDE DEF merged
  <2> QED BY <1>3, <2>1, <2>2, <2>3, InsertLiveInv
<1>8. CASE held # None /\ held.incarnation < fact.incarnation
  <2> DEFINE s == Remember(cleared, k, held.incarnation, fact.revision)
  <2>1. Admit(r, k, fact).reg = InsertLive(s, k, NewEntry(fact))
    BY <1>2, <1>4, <1>8 DEF Admit, Touched, cleared, Incarnation
  <2>2. Gone(E, R, k, held.incarnation, fact.revision)
    BY <1>2, <1>4, <1>8, GoneBelow
  <2>3. RegistryInv(s, E, R)
    BY <1>3, <2>2, RememberInv
  <2>4. /\ s.pending = cleared.pending
        /\ s.gone[k] = Max2(cleared.gone[k], held.incarnation)
    <3>1. cleared \in Registry
      BY <1>3 DEF RegistryInv
    <3> QED BY <1>2, <1>4, <1>8, <3>1, RememberFields
  <2>5. fact.incarnation > s.gone[k]
    BY <1>1, <1>2, <1>3, <1>4, <1>8, <2>4 DEF Registry, Max2, Incarnation
  <2>6. s.pending[k] = None
    BY <1>3, <2>4
  <2> HIDE DEF s
  <2> QED BY <2>1, <2>3, <2>5, <2>6, InsertLiveInv
<1> QED
  BY <1>2, <1>4, <1>5, <1>6, <1>7, <1>8 DEF Incarnation

\* The guards of establish() admit only what no applied absence forbids.
LEMMA GuardedInv ==
  ASSUME NEW E, NEW R, History(E, R), NEW r, RegistryInv(r, E, R),
         NEW k \in Keys \ RemoteKeys, NEW fact, TrueFact(E, k, fact), r.live[k] = None
  PROVE  RegistryInv(Guarded(r, k, fact).reg, E, R)
<1>1. /\ r \in Registry /\ KeyInv(r, E, R, k)
      /\ fact.incarnation \in Incarnation /\ fact.revision \in Revision
      /\ <<k, fact.incarnation, fact.revision>> \in E
  BY DEF RegistryInv, TrueFact, Existence
<1>2. CASE r.deleted[k] # None /\ r.deleted[k].incarnation >= fact.incarnation
  <2>1. Guarded(r, k, fact).reg = r
    BY <1>2 DEF Guarded, Touched
  <2> QED BY <2>1
<1>3. CASE /\ ~(r.deleted[k] # None /\ r.deleted[k].incarnation >= fact.incarnation)
           /\ fact.revision < r.forgotten_through \/ fact.revision < r.broad_through
  <2>1. Guarded(r, k, fact) = Defer(r, k, fact)
    BY <1>3, Zenon DEF Guarded
  <2> QED BY <2>1, DeferInv
<1>4. CASE /\ ~(r.deleted[k] # None /\ r.deleted[k].incarnation >= fact.incarnation)
           /\ ~(fact.revision < r.forgotten_through \/ fact.revision < r.broad_through)
  <2>1. Guarded(r, k, fact) = Admit(r, k, fact)
    BY <1>4, Zenon DEF Guarded
  <2>2. fact.incarnation > r.gone[k]
    <3>1. CASE r.gone[k] = -1
      BY <1>1, <3>1 DEF Incarnation
    <3>2. CASE r.deleted[k] # None /\ r.deleted[k].incarnation >= r.gone[k]
      BY <1>1, <1>4, <3>2 DEF Registry, Deletion, Incarnation
    <3>3. CASE Gone(E, R, k, r.gone[k], r.forgotten_through)
      <4>1. fact.revision >= r.forgotten_through
        BY <1>1, <1>4 DEF Registry, Revision
      <4> DEFINE x == <<k, fact.incarnation, fact.revision>>
      <4>2. x \in E /\ x[1] = k /\ x[2] = fact.incarnation /\ x[3] = fact.revision
        BY <1>1
      <4> HIDE DEF x
      <4> QED BY <3>3, <4>1, <4>2 DEF Gone
    <3> QED BY <1>1, <3>1, <3>2, <3>3 DEF KeyInv
  <2> QED BY <2>1, <2>2, AdmitInv
<1> QED
  BY <1>2, <1>3, <1>4

\* establish() of a true fact keeps the registry true, a replacement included.
LEMMA EstablishInv ==
  ASSUME NEW E, NEW R, History(E, R), NEW r, RegistryInv(r, E, R), NEW k \in Keys,
         NEW fact, TrueFact(E, k, fact), NEW now
  PROVE  RegistryInv(Establish(r, k, fact, now).reg, E, R)
<1> DEFINE entry == r.live[k]
           ended == EndLive(r, k)
           replaced == Remember(ended, k, entry.incarnation, fact.revision)
<1>1. /\ r \in Registry /\ KeyInv(r, E, R, k)
      /\ fact.incarnation \in Incarnation /\ fact.revision \in Revision
      /\ <<k, fact.incarnation, fact.revision>> \in E
  BY DEF RegistryInv, TrueFact, Existence
<1>2. entry # None => entry.incarnation \in Incarnation
  BY <1>1 DEF Registry, LiveEntry
<1>3. CASE k \in RemoteKeys \/ OutOfWindow(fact.at, now)
  <2>1. Establish(r, k, fact, now) = Touched(r, "stale")
    BY <1>3, Zenon DEF Establish
  <2> QED BY <2>1 DEF Touched
<1>4. CASE ~(k \in RemoteKeys \/ OutOfWindow(fact.at, now)) /\ entry = None
  <2>1. Establish(r, k, fact, now) = Guarded(r, k, fact)
    BY <1>4, Zenon DEF Establish
  <2> QED BY <1>4, <2>1, GuardedInv
<1>5. CASE /\ ~(k \in RemoteKeys \/ OutOfWindow(fact.at, now)) /\ entry # None
           /\ fact.incarnation < entry.incarnation
  <2>1. Establish(r, k, fact, now) = Touched(r, "stale")
    BY <1>5, Zenon DEF Establish
  <2> QED BY <2>1 DEF Touched
<1>6. CASE /\ ~(k \in RemoteKeys \/ OutOfWindow(fact.at, now)) /\ entry # None
           /\ fact.incarnation = entry.incarnation
  <2>1. ~(fact.incarnation < entry.incarnation)
    BY <1>1, <1>6 DEF Incarnation
  <2>2. Establish(r, k, fact, now) = Refresh(r, k, fact)
    BY <1>6, <2>1, Zenon DEF Establish
  <2> QED BY <1>6, <2>2, RefreshInv
<1>7. CASE /\ ~(k \in RemoteKeys \/ OutOfWindow(fact.at, now)) /\ entry # None
           /\ fact.incarnation > entry.incarnation
  <2>1. ~(fact.incarnation < entry.incarnation) /\ fact.incarnation # entry.incarnation
    BY <1>1, <1>2, <1>7 DEF Incarnation
  <2>2. Establish(r, k, fact, now) = Guarded(replaced, k, fact)
    BY <1>7, <2>1, Zenon DEF Establish
  <2>3. RegistryInv(ended, E, R)
    BY EndLiveInv
  <2>4. ended \in Registry /\ ended.live[k] = None
    <3>1. ended \in Registry /\ ended.live = [r.live EXCEPT ![k] = None]
      BY <1>1, EndLiveFields
    <3> QED BY <1>1, <3>1 DEF Registry
  <2>5. Gone(E, R, k, entry.incarnation, fact.revision)
    <3>1. <<k, entry.incarnation, entry.exists_at>> \in E
      BY <1>1, <1>7 DEF KeyInv
    <3>2. entry.incarnation < fact.incarnation
      BY <1>1, <1>2, <1>7 DEF Incarnation
    <3> QED BY <1>1, <3>1, <3>2, GoneBelow
  <2> HIDE DEF ended
  <2>6. RegistryInv(replaced, E, R)
    BY <2>3, <2>4, <2>5, RememberInv
  <2>7. replaced.live[k] = None
    <3>1. entry.incarnation \in Incarnation /\ fact.revision \in Revision
      BY <1>1, <1>2, <1>7
    <3>2. replaced.live = ended.live
      BY <2>4, <3>1, RememberFields
    <3> QED BY <2>4, <3>2
  <2> HIDE DEF replaced
  <2> QED BY <1>7, <2>2, <2>6, <2>7, GuardedInv
<1> QED
  BY <1>1, <1>2, <1>3, <1>4, <1>5, <1>6, <1>7 DEF Incarnation

\* Telling the clients changes the view alone.
LEMMA ViewFields ==
  ASSUME NEW r \in Registry, NEW k \in Keys, NEW v \in {"absent", "working", "quiet"}
  PROVE  LET s == [r EXCEPT !.view[k] = v] IN
         /\ s \in Registry
         /\ s.live = r.live /\ s.pending = r.pending /\ s.deleted = r.deleted
         /\ s.gone = r.gone /\ s.forgotten_through = r.forgotten_through
         /\ s.recovery = r.recovery
  BY DEF Registry

\* The existence arm of observe() keeps the registry true.
LEMMA ObserveInv ==
  ASSUME NEW E, NEW R, History(E, R), NEW r, RegistryInv(r, E, R), NEW k \in Keys,
         NEW fact, TrueFact(E, k, fact), NEW now
  PROVE  RegistryInv(Observe(r, k, fact, now).reg, E, R)
<1> DEFINE t == Establish(r, k, fact, now)
<1>1. RegistryInv(t.reg, E, R) /\ t.reg \in Registry
  BY EstablishInv DEF RegistryInv
<1> HIDE DEF t
<1> DEFINE s == [t.reg EXCEPT !.view[k] = "working"]
<1>3. Observe(r, k, fact, now).reg = t.reg \/ Observe(r, k, fact, now).reg = s
  <2>1. Observe(r, k, fact, now) = t \/ Observe(r, k, fact, now) = Touched(s, t.touch)
    BY Zenon DEF Observe, Narrate, t
  <2> HIDE DEF s
  <2> QED BY <2>1 DEF Touched
<1>4. RegistryInv(s, E, R)
  <2>1. /\ s \in Registry
        /\ s.live = t.reg.live /\ s.pending = t.reg.pending /\ s.deleted = t.reg.deleted
        /\ s.gone = t.reg.gone /\ s.forgotten_through = t.reg.forgotten_through
        /\ s.recovery = t.reg.recovery
    BY <1>1, ViewFields
  <2> HIDE DEF s
  <2> QED BY <1>1, <2>1, FrameInv
<1> QED
  BY <1>1, <1>3, <1>4

\* remove() of a true absence keeps the registry true.
LEMMA RemoveInv ==
  ASSUME NEW E, NEW R, History(E, R), NEW r, RegistryInv(r, E, R), NEW k \in Keys,
         NEW i, NEW q, Gone(E, R, k, i, q)
  PROVE  RegistryInv(Remove(r, k, i, q), E, R)
<1> DEFINE s == Remember(r, k, i, q)
           e == EndLive(r, k)
<1>1. r \in Registry /\ i \in Incarnation /\ q \in Revision
  BY GoneTypes DEF RegistryInv
<1>2. r.live[k] # None => r.live[k].incarnation \in Incarnation
  BY <1>1 DEF Registry, LiveEntry
<1>3. CASE r.live[k] # None => r.live[k].incarnation > i
  <2>1. RegistryInv(s, E, R)
    BY <1>3, RememberInv
  <2>2. RegistryInv(DropPending(s, k), E, R)
    BY <2>1, PendingInv DEF DropPending
  <2>3. Remove(r, k, i, q) = s \/ Remove(r, k, i, q) = DropPending(s, k)
    BY <1>3, Zenon DEF Remove
  <2> QED BY <2>1, <2>2, <2>3
<1>4. CASE r.live[k] # None /\ ~(r.live[k].incarnation > i)
  <2>1. Remove(r, k, i, q) = EndLive(s, k)
    BY <1>4, Zenon DEF Remove
  <2>2. RegistryInv(e, E, R)
    BY EndLiveInv
  <2>3. /\ e \in Registry /\ e.live = [r.live EXCEPT ![k] = None]
        /\ e.pending = r.pending /\ e.deleted = r.deleted /\ e.gone = r.gone
        /\ e.forgotten_through = r.forgotten_through /\ e.recovery = r.recovery
    BY <1>1, EndLiveFields
  <2> DEFINE f == Remember(e, k, i, q)
             z == EndLive(s, k)
  <2> HIDE DEF e
  <2>4. RegistryInv(f, E, R)
    <3>1. e.live[k] = None
      BY <1>1, <2>3 DEF Registry
    <3> QED BY <2>2, <3>1, RememberInv
  <2>5. /\ s \in Registry /\ s.live = r.live /\ s.pending = r.pending
        /\ s.recovery = r.recovery /\ f.live = e.live /\ f.pending = e.pending
        /\ f.recovery = e.recovery
    <3>1. /\ s \in Registry /\ s.live = r.live /\ s.pending = r.pending
          /\ s.recovery = r.recovery
      BY <1>1, RememberFields
    <3>2. f.live = e.live /\ f.pending = e.pending /\ f.recovery = e.recovery
      BY <1>1, <2>3, RememberFields
    <3> QED BY <3>1, <3>2
  <2>6. /\ f.deleted = s.deleted /\ f.gone = s.gone
        /\ f.forgotten_through = s.forgotten_through
    BY <1>1, <2>3, RememberMemory
  <2> HIDE DEF s, f
  <2>7. /\ z \in Registry /\ z.live = [s.live EXCEPT ![k] = None]
        /\ z.pending = s.pending /\ z.deleted = s.deleted /\ z.gone = s.gone
        /\ z.forgotten_through = s.forgotten_through /\ z.recovery = s.recovery
    BY <2>5, EndLiveFields
  <2> HIDE DEF z
  <2>8. RegistryInv(z, E, R)
    BY <2>3, <2>4, <2>5, <2>6, <2>7, FrameInv
  <2> QED BY <2>1, <2>8 DEF z
<1> QED
  BY <1>3, <1>4

----------------------------------------------------------------------------
\* broad() keeps the registry true.
LEMMA BroadInv ==
  ASSUME NEW E, NEW R, NEW r, RegistryInv(r, E, R), NEW q \in Revision
  PROVE  RegistryInv(Broad(r, q), E, R)
<1> DEFINE s == Broad(r, q)
<1>1. r \in Registry
  BY DEF RegistryInv
<1>2. Max2(r.broad_through, q) \in Revision /\ Require(r.needs, q) \in Revision \cup {None}
  BY <1>1 DEF Registry, Max2, Require
<1>3. s \in Registry
  BY <1>1, <1>2 DEF Broad, Registry
<1>4. /\ s.live = r.live /\ s.pending = r.pending /\ s.deleted = r.deleted
      /\ s.gone = r.gone /\ s.forgotten_through = r.forgotten_through
      /\ s.recovery = r.recovery
  BY <1>1 DEF Broad, Registry
<1> HIDE DEF s
<1>5. RegistryInv(s, E, R)
  BY <1>3, <1>4, FrameInv
<1> QED
  BY <1>5 DEF s

\* The deadline of an anonymous agent is an element of the deadline index.
LEMMA AnonymousDeadlineType ==
  ASSUME NEW a \in Agents, NEW entry \in AnonymousEntry
  PROVE  AnonymousDeadline(a, entry) \in Time \X DeadlineKey
<1>1. entry.at + QuietWindow \in Time
  BY WindowAssumption DEF AnonymousEntry, Time
<1>2. <<"anonymous", a>> \in DeadlineKey
  BY DEF DeadlineKey
<1> QED
  BY <1>1, <1>2 DEF AnonymousDeadline

\* The operators on the anonymous agents change only these three fields.
LEMMA AnonymousInv ==
  ASSUME NEW E, NEW R, NEW r, RegistryInv(r, E, R),
         NEW an \in [Agents -> AnonymousEntry \cup {None}],
         NEW d \in SUBSET (Time \X DeadlineKey), NEW v \in SUBSET Agents,
         NEW s, s = [r EXCEPT !.anonymous = an, !.deadlines = d, !.anonymousView = v]
  PROVE  RegistryInv(s, E, R)
<1>1. r \in Registry
  BY DEF RegistryInv
<1>2. s \in Registry
  BY <1>1 DEF Registry
<1>3. /\ s.live = r.live /\ s.pending = r.pending /\ s.deleted = r.deleted
      /\ s.gone = r.gone /\ s.forgotten_through = r.forgotten_through
      /\ s.recovery = r.recovery
  BY <1>1 DEF Registry
<1> QED
  BY <1>2, <1>3, FrameInv

\* Clearing an anonymous agent keeps the registry true.
LEMMA ClearAnonymousInv ==
  ASSUME NEW E, NEW R, NEW r, RegistryInv(r, E, R), NEW a \in Agents
  PROVE  RegistryInv(ClearAnonymous(r, a), E, R)
<1> DEFINE an == [r.anonymous EXCEPT ![a] = None]
           d == r.deadlines \ {AnonymousDeadline(a, r.anonymous[a])}
           v == r.anonymousView \ {a}
<1>1. r \in Registry
  BY DEF RegistryInv
<1>2. /\ an \in [Agents -> AnonymousEntry \cup {None}]
      /\ d \in SUBSET (Time \X DeadlineKey) /\ v \in SUBSET Agents
  BY <1>1 DEF Registry
<1>3. ClearAnonymous(r, a) = [r EXCEPT !.anonymous = an, !.deadlines = d, !.anonymousView = v]
  BY <1>1 DEF ClearAnonymous, Registry
<1> HIDE DEF an, d, v
<1> QED
  BY <1>2, <1>3, AnonymousInv

\* cover() keeps the registry true.
LEMMA CoverInv ==
  ASSUME NEW E, NEW R, NEW r, RegistryInv(r, E, R), NEW a \in Agents, NEW through
  PROVE  RegistryInv(Cover(r, a, through), E, R)
  BY ClearAnonymousInv DEF Cover

\* anonymous() keeps the registry true.
LEMMA AnonymousTouchInv ==
  ASSUME NEW E, NEW R, NEW r, RegistryInv(r, E, R), NEW a \in Agents,
         NEW at \in Time, NEW generation \in Nat, NEW now
  PROVE  RegistryInv(AnonymousTouch(r, a, at, generation, now), E, R)
<1> DEFINE entry == r.anonymous[a]
           new == [generation |-> generation, at |-> at]
           kept == [entry EXCEPT !.generation = generation]
           an(e) == [r.anonymous EXCEPT ![a] = e]
           plus == r.deadlines \cup {AnonymousDeadline(a, new)}
           moved == (r.deadlines \ {AnonymousDeadline(a, entry)})
                      \cup {AnonymousDeadline(a, new)}
           s == AnonymousTouch(r, a, at, generation, now)
<1>1. /\ r \in Registry /\ new \in AnonymousEntry
      /\ entry # None => kept \in AnonymousEntry
  BY DEF RegistryInv, AnonymousEntry, Registry
<1>2. /\ an(new) \in [Agents -> AnonymousEntry \cup {None}]
      /\ entry # None => an(kept) \in [Agents -> AnonymousEntry \cup {None}]
  <2> HIDE DEF new, kept
  <2> QED BY <1>1 DEF Registry
<1>3. AnonymousDeadline(a, new) \in Time \X DeadlineKey
  BY <1>1, AnonymousDeadlineType
<1>4. /\ plus \in SUBSET (Time \X DeadlineKey) /\ moved \in SUBSET (Time \X DeadlineKey)
      /\ r.deadlines \in SUBSET (Time \X DeadlineKey)
      /\ r.anonymousView \in SUBSET Agents /\ r.anonymousView \cup {a} \in SUBSET Agents
  <2> HIDE DEF new, entry
  <2> QED BY <1>1, <1>3 DEF Registry
<1>5. \/ s = r
      \/ s = [r EXCEPT !.anonymous = an(new), !.deadlines = plus,
                       !.anonymousView = r.anonymousView \cup {a}]
      \/ entry # None /\ s = [r EXCEPT !.anonymous = an(kept), !.deadlines = r.deadlines,
                                       !.anonymousView = r.anonymousView]
      \/ s = [r EXCEPT !.anonymous = an(new), !.deadlines = moved,
                       !.anonymousView = r.anonymousView]
  BY <1>1 DEF AnonymousTouch, Registry
<1> HIDE DEF an, plus, moved, s
<1>6. RegistryInv(s, E, R)
  <2>1. CASE s = r
    BY <2>1
  <2>2. CASE s = [r EXCEPT !.anonymous = an(new), !.deadlines = plus,
                           !.anonymousView = r.anonymousView \cup {a}]
    BY <1>2, <1>4, <2>2, AnonymousInv, Zenon
  <2>3. CASE entry # None /\ s = [r EXCEPT !.anonymous = an(kept), !.deadlines = r.deadlines,
                                           !.anonymousView = r.anonymousView]
    BY <1>2, <1>4, <2>3, AnonymousInv, Zenon
  <2>4. CASE s = [r EXCEPT !.anonymous = an(new), !.deadlines = moved,
                           !.anonymousView = r.anonymousView]
    BY <1>2, <1>4, <2>4, AnonymousInv, Zenon
  <2> QED BY <1>5, <2>1, <2>2, <2>3, <2>4
<1> QED
  BY <1>6 DEF s

----------------------------------------------------------------------------
\* apply_present_row() of a row the store held keeps the registry true.
LEMMA ApplyPresentRowInv ==
  ASSUME NEW E, NEW R, History(E, R), NEW r, RegistryInv(r, E, R), NEW k \in Keys,
         NEW row, row.incarnation \in Incarnation, row.epoch \in Time,
         NEW q \in Revision, <<k, row.incarnation, q>> \in E, NEW now
  PROVE  RegistryInv(ApplyPresentRow(r, k, row, q, now).reg, E, R)
<1> DEFINE held == r.pending[k]
           fact(at) == [incarnation |-> row.incarnation, at |-> at, revision |-> q]
           s == DropPending(r, k)
           t == ApplyPresentRow(r, k, row, q, now)
<1>1. \A at \in Time : TrueFact(E, k, fact(at))
  BY DEF TrueFact, Existence
<1>2. held # None => /\ <<k, held.incarnation, held.revision>> \in E
                     /\ held.incarnation \in Incarnation /\ held.revision \in Revision
                     /\ held.at \in Time /\ r.live[k] = None
  BY HeldFact DEF TrueFact, Existence
<1>3. r \in Registry /\ RegistryInv(s, E, R) /\ s.live = r.live
  BY PendingInv DEF RegistryInv, DropPending, Registry
<1> HIDE DEF s, fact
<1>4. CASE held = None
  <2>1. t = Observe(r, k, fact(row.epoch), now)
    BY <1>4, Zenon DEF ApplyPresentRow, fact
  <2> QED BY <1>1, <2>1, ObserveInv
<1>5. CASE held # None /\ held.incarnation = row.incarnation
  <2>1. t = Observe(s, k, fact(Max2(held.at, row.epoch)), now)
    BY <1>5, Zenon DEF ApplyPresentRow, fact, s
  <2>2. Max2(held.at, row.epoch) \in Time
    BY <1>2, <1>5 DEF Max2
  <2> QED BY <1>1, <1>3, <2>1, <2>2, ObserveInv
<1>6. CASE held # None /\ held.incarnation < row.incarnation
  <2> DEFINE u == Remember(s, k, held.incarnation, q)
  <2>1. t = Observe(u, k, fact(row.epoch), now)
    <3>1. held.incarnation # row.incarnation
      BY <1>2, <1>6 DEF Incarnation
    <3> QED BY <1>6, <3>1, Zenon DEF ApplyPresentRow, fact, s
  <2>2. Gone(E, R, k, held.incarnation, q)
    BY <1>2, <1>6, GoneBelow
  <2>3. RegistryInv(u, E, R)
    BY <1>2, <1>3, <1>6, <2>2, RememberInv
  <2> HIDE DEF u
  <2> QED BY <1>1, <2>1, <2>3, ObserveInv
<1>7. CASE held # None /\ held.incarnation > row.incarnation
  <2> DEFINE u == Remember(r, k, row.incarnation, held.revision)
  <2>1. t = Touched(u, "stale")
    <3>1. held.incarnation # row.incarnation /\ ~(held.incarnation < row.incarnation)
      BY <1>2, <1>7 DEF Incarnation
    <3> QED BY <1>7, <3>1, Zenon DEF ApplyPresentRow
  <2>2. Gone(E, R, k, row.incarnation, held.revision)
    <3>1. row.incarnation < held.incarnation
      BY <1>2, <1>7 DEF Incarnation
    <3> QED BY <1>2, <1>7, <3>1, GoneBelow
  <2>3. RegistryInv(u, E, R)
    BY <1>2, <1>7, <2>2, RememberInv
  <2> HIDE DEF u
  <2> QED BY <2>1, <2>3 DEF Touched
<1> QED
  BY <1>2, <1>4, <1>5, <1>6, <1>7 DEF Incarnation

\* apply_absent_row() of a key the store did not hold keeps the registry true.
LEMMA ApplyAbsentRowInv ==
  ASSUME NEW E, NEW R, History(E, R), NEW r, RegistryInv(r, E, R), NEW k \in Keys,
         NEW q \in 0..R, \A j \in Incarnation : <<k, j, q>> \notin E
  PROVE  RegistryInv(ApplyAbsentRow(r, k, q), E, R)
<1> DEFINE held == r.pending[k]
           entry == r.live[k]
           u == Remember(r, k, held.incarnation, q)
<1>1. CASE held # None /\ held.revision <= q
  <2>1. ApplyAbsentRow(r, k, q) = DropPending(u, k)
    BY <1>1, Zenon DEF ApplyAbsentRow
  <2>2. <<k, held.incarnation, held.revision>> \in E /\ r.live[k] = None
    BY <1>1, HeldFact DEF TrueFact
  <2>3. Gone(E, R, k, held.incarnation, q)
    BY <1>1, <2>2, GoneAbsent
  <2>4. RegistryInv(u, E, R)
    BY <2>2, <2>3, RememberInv
  <2> HIDE DEF u
  <2> QED BY <2>1, <2>4, PendingInv DEF DropPending
<1>2. CASE held = None /\ entry # None /\ entry.exists_at <= q
  <2>1. ApplyAbsentRow(r, k, q) = Remove(r, k, entry.incarnation, q)
    BY <1>2, Zenon DEF ApplyAbsentRow
  <2>2. <<k, entry.incarnation, entry.exists_at>> \in E
    BY <1>2 DEF RegistryInv, KeyInv
  <2>3. Gone(E, R, k, entry.incarnation, q)
    BY <1>2, <2>2, GoneAbsent
  <2> QED BY <2>1, <2>3, RemoveInv
<1>3. CASE ~(held # None /\ held.revision <= q)
           /\ ~(held = None /\ entry # None /\ entry.exists_at <= q)
  <2>1. ApplyAbsentRow(r, k, q) = r
    BY <1>3, Zenon DEF ApplyAbsentRow
  <2> QED BY <2>1
<1> QED
  BY <1>1, <1>2, <1>3

----------------------------------------------------------------------------
\* A recovery whose held rows are true may be set.
LEMMA RecoveryInv ==
  ASSUME NEW E, NEW R, NEW r, RegistryInv(r, E, R), NEW w \in SeedRecovery \cup {None},
         w # None /\ w.page # None => RowsTrue(w.page.rows, E, w.page.revision),
         NEW s, s = [r EXCEPT !.recovery = w]
  PROVE  RegistryInv(s, E, R)
<1>1. r \in Registry
  BY DEF RegistryInv
<1>2. /\ s \in Registry /\ s.recovery = w
      /\ s.live = r.live /\ s.pending = r.pending /\ s.deleted = r.deleted
      /\ s.gone = r.gone /\ s.forgotten_through = r.forgotten_through
  BY <1>1 DEF Registry
<1>3. \A k \in Keys : KeyInv(s, E, R, k)
  BY <1>2 DEF RegistryInv, KeyInv
<1> QED
  BY <1>2, <1>3 DEF RegistryInv

\* Holding a recovery page of true rows keeps the registry true.
LEMMA HoldRecoveryPageInv ==
  ASSUME NEW E, NEW R, NEW r, RegistryInv(r, E, R), NEW rows \in Seq(ActiveRow),
         NEW q \in Revision, RowsTrue(rows, E, q)
  PROVE  RegistryInv(HoldRecoveryPage(r, rows, q), E, R)
<1>1. CASE r.recovery = None
  BY <1>1 DEF HoldRecoveryPage
<1>2. CASE r.recovery # None
  <2> DEFINE last == rows[Len(rows)]
             cursor == IF rows = <<>> THEN None ELSE [epoch |-> last.epoch, key |-> last.key]
             page == [rows |-> rows, revision |-> q, cursor |-> cursor,
                      exhausted |-> Len(rows) < PageSize]
             w == [r.recovery EXCEPT !.page = page]
  <2>1. cursor \in ActiveCursor \cup {None}
    <3>1. rows # <<>> => last \in ActiveRow
      OBVIOUS
    <3> QED BY <3>1 DEF ActiveRow, ActiveCursor
  <2>2. page \in RecoveryPage
    <3>1. (Len(rows) < PageSize) \in BOOLEAN
      OBVIOUS
    <3> HIDE DEF cursor
    <3> QED BY <2>1, <3>1 DEF RecoveryPage
  <2>3. page # None /\ page.rows = rows /\ page.revision = q
    BY <2>2, NoneAssumption
  <2> HIDE DEF page
  <2>4. r.recovery \in SeedRecovery
    BY <1>2 DEF RegistryInv, Registry
  <2>5. w \in SeedRecovery /\ w.page = page
    BY <2>2, <2>4 DEF SeedRecovery
  <2>6. HoldRecoveryPage(r, rows, q) = [r EXCEPT !.recovery = w]
    BY <1>2 DEF HoldRecoveryPage, page
  <2> HIDE DEF w
  <2>7. RowsTrue(w.page.rows, E, w.page.revision)
    BY <2>3, <2>5
  <2> QED BY <2>5, <2>6, <2>7, RecoveryInv
<1> QED
  BY <1>1, <1>2

\* The end of a recovery page keeps the registry true.
LEMMA FinishRecoveryPageInv ==
  ASSUME NEW E, NEW R, NEW r, RegistryInv(r, E, R), r.recovery # None,
         r.recovery.page # None
  PROVE  RegistryInv(FinishRecoveryPage(r), E, R)
<1> DEFINE w == [r.recovery EXCEPT !.cursor = r.recovery.page.cursor, !.page = None]
<1>1. r \in Registry /\ r.recovery \in SeedRecovery /\ r.recovery.page \in RecoveryPage
  BY DEF RegistryInv, Registry, SeedRecovery
<1>2. w \in SeedRecovery /\ w.page = None
  BY <1>1 DEF SeedRecovery, RecoveryPage
<1>3. \/ FinishRecoveryPage(r) = [r EXCEPT !.recovery = None]
      \/ FinishRecoveryPage(r) = [r EXCEPT !.recovery = w]
  BY <1>1 DEF FinishRecoveryPage, Registry, SeedRecovery
<1> HIDE DEF w
<1> QED
  BY <1>2, <1>3, RecoveryInv

\* One row of the held recovery page keeps the registry true.
LEMMA RecoverRowInv ==
  ASSUME NEW E, NEW R, History(E, R), NEW r, RegistryInv(r, E, R), r.recovery # None,
         r.recovery.page # None, r.recovery.page.rows # <<>>, NEW now
  PROVE  RegistryInv(RecoverRow(r, now).reg, E, R)
<1> DEFINE held == r.recovery.page
           row == Head(held.rows)
           t == ApplyPresentRow(r, row.key, row, held.revision, now)
           w == [r.recovery EXCEPT !.page.rows = Tail(held.rows)]
<1>1. r.recovery \in SeedRecovery /\ held \in RecoveryPage
  BY DEF RegistryInv, Registry, SeedRecovery
<1>2. /\ held.rows \in Seq(ActiveRow) /\ row \in ActiveRow /\ row = held.rows[1]
      /\ 1 \in DOMAIN held.rows /\ held.revision \in Revision
  BY <1>1 DEF RecoveryPage
<1>3. RowsTrue(held.rows, E, held.revision)
  BY DEF RegistryInv
<1>4. /\ row.key \in Keys /\ row.incarnation \in Incarnation /\ row.epoch \in Time
      /\ <<row.key, row.incarnation, held.revision>> \in E
  BY <1>2, <1>3 DEF RowsTrue, ActiveRow
<1>5. RegistryInv(t.reg, E, R)
  BY <1>2, <1>4, ApplyPresentRowInv
<1>6. w \in SeedRecovery /\ w.page \in RecoveryPage
      /\ w.page.rows = Tail(held.rows) /\ w.page.revision = held.revision
  <2> DEFINE rest == Tail(held.rows)
             p == [held EXCEPT !.rows = rest]
  <2>1. rest \in Seq(ActiveRow)
    BY <1>2
  <2> HIDE DEF rest
  <2>2. p \in RecoveryPage /\ p.rows = rest /\ p.revision = held.revision
    BY <1>1, <2>1 DEF RecoveryPage
  <2>3. w = [r.recovery EXCEPT !.page = p]
    BY <1>1 DEF SeedRecovery, rest
  <2> HIDE DEF p, w
  <2> QED BY <1>1, <2>2, <2>3 DEF SeedRecovery, rest
<1>7. RowsTrue(w.page.rows, E, w.page.revision)
  <2>1. ASSUME NEW n \in DOMAIN Tail(held.rows)
        PROVE  Tail(held.rows)[n] = held.rows[n + 1] /\ n + 1 \in DOMAIN held.rows
    BY <1>2
  <2> HIDE DEF w
  <2> QED BY <1>3, <1>6, <2>1 DEF RowsTrue
<1> DEFINE u == [t.reg EXCEPT !.recovery = w]
<1>8. RecoverRow(r, now).reg = t.reg \/ RecoverRow(r, now).reg = u
  <2>1. RecoverRow(r, now) = t \/ RecoverRow(r, now) = Touched(u, t.touch)
    BY Zenon DEF RecoverRow
  <2> HIDE DEF u, t
  <2> QED BY <2>1 DEF Touched
<1> HIDE DEF t, w
<1>9. RegistryInv(u, E, R)
  BY <1>5, <1>6, <1>7, RecoveryInv
<1> QED
  BY <1>5, <1>8, <1>9

----------------------------------------------------------------------------
\* The page selection changes the walk and the turn, and prunes waiting evidence.
LEMMA WalkInv ==
  ASSUME NEW E, NEW R, NEW r, RegistryInv(r, E, R), NEW x \in Run \cup {None},
         NEW y \in Revision \cup {None}, NEW c \in PageClass,
         NEW s, s = [r EXCEPT !.run = x, !.needs = y, !.turn = c]
  PROVE  RegistryInv(s, E, R)
<1>1. r \in Registry
  BY DEF RegistryInv
<1>2. s \in Registry
  BY <1>1 DEF Registry
<1>3. /\ s.live = r.live /\ s.pending = r.pending /\ s.deleted = r.deleted
      /\ s.gone = r.gone /\ s.forgotten_through = r.forgotten_through
      /\ s.recovery = r.recovery
  BY <1>1 DEF Registry
<1> QED
  BY <1>2, <1>3, FrameInv

\* The walk cursor advances.
LEMMA AdvanceWalkInv ==
  ASSUME NEW E, NEW R, NEW r, RegistryInv(r, E, R), NEW k \in Keys
  PROVE  RegistryInv(AdvanceWalk(r, k), E, R)
<1> DEFINE x == [r.run EXCEPT !.cursor = k]
<1>1. r \in Registry /\ k \in Nat
  BY KeysAssumption DEF RegistryInv
<1>2. CASE r.run = None
  BY <1>2 DEF AdvanceWalk
<1>3. CASE r.run # None
  <2>1. x \in Run
    BY <1>1, <1>3 DEF Registry, Run
  <2>2. AdvanceWalk(r, k) = [r EXCEPT !.run = x, !.needs = r.needs, !.turn = r.turn]
    BY <1>1, <1>3 DEF AdvanceWalk, Registry
  <2>3. r.needs \in Revision \cup {None} /\ r.turn \in PageClass
    BY <1>1 DEF Registry
  <2>4. x \in Run \cup {None}
    BY <2>1
  <2> HIDE DEF x
  <2> QED BY <2>2, <2>3, <2>4, WalkInv, Zenon
<1> QED
  BY <1>2, <1>3

\* Opening a run takes the requirement.
LEMMA OpenRunInv ==
  ASSUME NEW E, NEW R, NEW r, RegistryInv(r, E, R), r.needs # None
  PROVE  /\ RegistryInv(OpenRun(r), E, R)
         /\ OpenRun(r).needs = None /\ OpenRun(r).run # None
<1> DEFINE x == [cursor |-> 0, through |-> r.needs]
<1>1. r \in Registry
  BY DEF RegistryInv
<1>2. x \in Run
  BY <1>1 DEF Registry, Run
<1>3. OpenRun(r) = [r EXCEPT !.run = x, !.needs = None, !.turn = r.turn]
  BY <1>1 DEF OpenRun, Registry
<1>4. r.turn \in PageClass
  BY <1>1 DEF Registry
<1>5. x # None
  BY <1>2, NoneAssumption
<1> HIDE DEF x
<1>6. RegistryInv(OpenRun(r), E, R)
  BY <1>2, <1>3, <1>4, WalkInv
<1> QED
  BY <1>1, <1>3, <1>5, <1>6 DEF Registry

\* A request names keys of the store.
RequestOK(request) ==
    request = None \/ request \in [class : PageClass, keys : SUBSET Keys]

\* A page selection leaves a true registry and a request of the store's keys.
NextOK(n, E, R) == RegistryInv(n.reg, E, R) /\ RequestOK(n.request)

\* next_walk_page() keeps the registry true and asks for keys of the store.
LEMMA NextWalkInv ==
  ASSUME NEW E, NEW R, NEW r, RegistryInv(r, E, R)
  PROVE  NextOK(NextWalk(r), E, R)
<1> DEFINE first == IF r.run = None THEN OpenRun(r) ELSE r
           closed == [first EXCEPT !.run = None]
           again == OpenRun(closed)
           ended == [r EXCEPT !.run = None, !.needs = None]
           page(s) == [reg |-> s, request |-> Request("walk", FirstKeys(Walkable(s, s.run)))]
           none == [reg |-> ended, request |-> None]
           n == NextWalk(r)
<1>1. r \in Registry /\ r.turn \in PageClass
  BY DEF RegistryInv, Registry
<1>2. RegistryInv(ended, E, R)
  <2>1. ended = [r EXCEPT !.run = None, !.needs = None, !.turn = r.turn]
    BY <1>1 DEF Registry
  <2>2. None \in Run \cup {None} /\ None \in Revision \cup {None}
    OBVIOUS
  <2> HIDE DEF ended
  <2> QED BY <1>1, <2>1, <2>2, WalkInv, Zenon
<1>3. ~(r.run = None /\ r.needs = None) => RegistryInv(first, E, R)
  BY OpenRunInv
<1>4. ASSUME ~(r.run = None /\ r.needs = None), first.needs # None
      PROVE  RegistryInv(again, E, R)
  <2>1. first \in Registry /\ RegistryInv(first, E, R)
    BY <1>3, <1>4 DEF RegistryInv
  <2> HIDE DEF first
  <2>2. closed = [first EXCEPT !.run = None, !.needs = first.needs, !.turn = first.turn]
    BY <2>1 DEF Registry
  <2>3. first.needs \in Revision \cup {None} /\ first.turn \in PageClass
    BY <2>1 DEF Registry
  <2>4. RegistryInv(closed, E, R)
    <3>1. None \in Run \cup {None}
      OBVIOUS
    <3> HIDE DEF closed
    <3> QED BY <2>1, <2>2, <2>3, <3>1, WalkInv, Zenon
  <2>5. closed.needs # None
    BY <1>4, <2>1 DEF Registry
  <2> HIDE DEF closed
  <2> QED BY <2>4, <2>5, OpenRunInv
<1>5. ASSUME NEW s, RegistryInv(s, E, R) PROVE NextOK(page(s), E, R)
  <2>1. FirstKeys(Walkable(s, s.run)) \in SUBSET Keys
    BY DEF FirstKeys, Walkable
  <2>2. Request("walk", FirstKeys(Walkable(s, s.run))) \in [class : PageClass, keys : SUBSET Keys]
    BY <2>1 DEF Request, PageClass
  <2> QED BY <1>5, <2>2 DEF NextOK, RequestOK
<1>6. NextOK(none, E, R) /\ NextOK([reg |-> r, request |-> None], E, R)
  <2> HIDE DEF ended
  <2> QED BY <1>2 DEF NextOK, RequestOK
<1>7. \/ r.run = None /\ r.needs = None /\ n = [reg |-> r, request |-> None]
      \/ ~(r.run = None /\ r.needs = None) /\ n = page(first)
      \/ ~(r.run = None /\ r.needs = None) /\ first.needs # None /\ n = page(again)
      \/ n = none
  BY Zenon DEF NextWalk
<1> HIDE DEF first, again, page, none, n
<1>8. NextOK(n, E, R)
  BY <1>3, <1>4, <1>5, <1>6, <1>7
<1> QED
  BY <1>8 DEF n

\* Each class of page keeps the registry true and asks for keys of the store.
LEMMA NextOfClassInv ==
  ASSUME NEW E, NEW R, NEW r, RegistryInv(r, E, R), NEW c \in PageClass
  PROVE  NextOK(NextOfClass(r, c), E, R)
<1>1. CASE c = "admission"
  <2> DEFINE q == IF Waiting(r) = {} THEN None ELSE Request(c, FirstKeys(Waiting(r)))
  <2>1. NextOfClass(r, c) = [reg |-> r, request |-> q]
    BY <1>1 DEF NextOfClass
  <2>2. FirstKeys(Waiting(r)) \in SUBSET Keys
    BY DEF FirstKeys, Waiting
  <2>3. RequestOK(q)
    BY <2>2 DEF RequestOK, Request
  <2> HIDE DEF q
  <2> QED BY <2>1, <2>3 DEF NextOK
<1>2. CASE c = "walk"
  <2>1. NextOfClass(r, c) = NextWalk(r)
    BY <1>2 DEF NextOfClass
  <2> QED BY <2>1, NextWalkInv
<1>3. CASE c = "recovery"
  <2> DEFINE q == IF r.recovery # None /\ r.recovery.page = None
                  THEN Request(c, {}) ELSE None
  <2>1. NextOfClass(r, c) = [reg |-> r, request |-> q]
    BY <1>3 DEF NextOfClass
  <2>2. RequestOK(q)
    BY DEF RequestOK, Request
  <2> HIDE DEF q
  <2> QED BY <2>1, <2>2 DEF NextOK
<1> QED
  BY <1>1, <1>2, <1>3 DEF PageClass

\* Dropping waiting evidence outside the window keeps the registry true.
LEMMA PrunePendingInv ==
  ASSUME NEW E, NEW R, NEW r, RegistryInv(r, E, R), NEW now
  PROVE  RegistryInv(PrunePending(r, now), E, R)
<1> DEFINE f == [k \in Keys |-> IF r.pending[k] # None /\ OutOfWindow(r.pending[k].at, now)
                                THEN None ELSE r.pending[k]]
           s == PrunePending(r, now)
<1>1. r \in Registry
  BY DEF RegistryInv
<1>2. f \in [Keys -> Existence \cup {None}]
  BY <1>1 DEF Registry
<1>3. s = [r EXCEPT !.pending = f]
  BY DEF PrunePending
<1>4. \A k \in Keys : f[k] = None \/ f[k] = r.pending[k]
  OBVIOUS
<1> HIDE DEF f, s
<1>5. s \in Registry
  BY <1>1, <1>2, <1>3 DEF Registry
<1>6. /\ s.pending = f /\ s.live = r.live /\ s.deleted = r.deleted /\ s.gone = r.gone
      /\ s.forgotten_through = r.forgotten_through /\ s.recovery = r.recovery
  BY <1>1, <1>3 DEF Registry
<1>7. ASSUME NEW k \in Keys PROVE KeyInv(s, E, R, k)
  <2>1. KeyInv(r, E, R, k)
    BY DEF RegistryInv
  <2> QED BY <1>4, <1>6, <2>1 DEF KeyInv
<1>8. RegistryInv(s, E, R)
  BY <1>5, <1>6, <1>7 DEF RegistryInv
<1> QED
  BY <1>8 DEF s

\* The turn passes to the next class.
LEMMA TurnInv ==
  ASSUME NEW E, NEW R, NEW n, NEW c \in PageClass, NextOK(n, E, R)
  PROVE  NextOK(Turn(n, c), E, R)
<1> DEFINE s == [n.reg EXCEPT !.turn = Successor(c)]
<1>1. n.reg \in Registry /\ RegistryInv(n.reg, E, R)
  BY DEF NextOK, RegistryInv
<1>2. Successor(c) \in PageClass
  BY DEF Successor, PageClass
<1>3. s = [n.reg EXCEPT !.run = n.reg.run, !.needs = n.reg.needs, !.turn = Successor(c)]
  BY <1>1 DEF Registry
<1>4. n.reg.run \in Run \cup {None} /\ n.reg.needs \in Revision \cup {None}
  BY <1>1 DEF Registry
<1>5. RegistryInv(s, E, R)
  <2> DEFINE q == n.reg
             next == Successor(c)
  <2>1. ASSUME NEW u, u = [q EXCEPT !.run = q.run, !.needs = q.needs, !.turn = next]
        PROVE  RegistryInv(u, E, R)
    <3> HIDE DEF q, next
    <3> QED BY <1>1, <1>2, <1>4, <2>1, WalkInv DEF q, next
  <2> HIDE DEF s
  <2> QED BY <1>3, <2>1
<1>6. Turn(n, c) = [reg |-> s, request |-> n.request]
  BY Zenon DEF Turn
<1> HIDE DEF s
<1> QED
  BY <1>5, <1>6 DEF NextOK

\* next_page_request() keeps the registry true and asks for keys of the store.
LEMMA NextPageInv ==
  ASSUME NEW E, NEW R, NEW r, RegistryInv(r, E, R), NEW now
  PROVE  NextOK(NextPage(r, now), E, R)
<1> DEFINE s == PrunePending(r, now)
           c1 == s.turn
           c2 == Successor(c1)
           c3 == Successor(c2)
           n1 == NextOfClass(s, c1)
           n2 == NextOfClass(n1.reg, c2)
           n3 == NextOfClass(n2.reg, c3)
           n == NextPage(r, now)
<1>1. RegistryInv(s, E, R)
  BY PrunePendingInv
<1>2. c1 \in PageClass /\ c2 \in PageClass /\ c3 \in PageClass
  <2>1. c1 \in PageClass
    BY <1>1 DEF RegistryInv, Registry
  <2> HIDE DEF c1
  <2>2. c2 \in PageClass
    BY <2>1 DEF Successor, PageClass
  <2> HIDE DEF c2
  <2>3. c3 \in PageClass
    BY <2>2 DEF Successor, PageClass
  <2> QED BY <2>1, <2>2, <2>3
<1> HIDE DEF s, c1, c2, c3
<1>3. NextOK(n1, E, R)
  BY <1>1, <1>2, NextOfClassInv
<1> HIDE DEF n1
<1>4. NextOK(n2, E, R)
  BY <1>2, <1>3, NextOfClassInv DEF NextOK
<1> HIDE DEF n2
<1>5. NextOK(n3, E, R)
  BY <1>2, <1>4, NextOfClassInv DEF NextOK
<1>6. NextOK([reg |-> s, request |-> None], E, R)
  BY <1>1 DEF NextOK, RequestOK
<1>7. \/ n = [reg |-> s, request |-> None]
      \/ n = Turn(n1, c1) \/ n = Turn(n2, c2) \/ n = Turn(n3, c3) \/ n = n3
  BY Zenon DEF NextPage, s, c1, c2, c3, n1, n2
<1> HIDE DEF n3, n
<1>8. NextOK(n, E, R)
  BY <1>2, <1>3, <1>4, <1>5, <1>6, <1>7, TurnInv
<1> QED
  BY <1>8 DEF n

----------------------------------------------------------------------------
\* One key of a presence page: a present row was in the store at the page's
\* revision, an absent one was not.
LEMMA ApplyRowInv ==
  ASSUME NEW E, NEW R, History(E, R), NEW r, RegistryInv(r, E, R), NEW k \in Keys,
         NEW rows, rows[k] \in Presence \cup {None}, NEW q \in Revision, q <= R,
         rows[k] = None => \A j \in Incarnation : <<k, j, q>> \notin E,
         rows[k] # None => <<k, rows[k].incarnation, q>> \in E, NEW now
  PROVE  RegistryInv(ApplyRow(r, k, rows, q, now), E, R)
<1>1. CASE rows[k] = None
  <2>1. q \in 0..R
    BY DEF Revision, History
  <2>2. ApplyRow(r, k, rows, q, now) = ApplyAbsentRow(r, k, q)
    BY <1>1, Zenon DEF ApplyRow
  <2> QED BY <1>1, <2>1, <2>2, ApplyAbsentRowInv
<1>2. CASE rows[k] # None
  <2> DEFINE x == rows[k]
  <2>1. x.incarnation \in Incarnation /\ x.epoch \in Time
    BY <1>2 DEF Presence
  <2>2. ApplyRow(r, k, rows, q, now) = ApplyPresentRow(r, k, x, q, now).reg
    BY <1>2, Zenon DEF ApplyRow
  <2>3. <<k, x.incarnation, q>> \in E
    BY <1>2
  <2> HIDE DEF x
  <2> QED BY <2>1, <2>2, <2>3, ApplyPresentRowInv
<1> QED
  BY <1>1, <1>2

----------------------------------------------------------------------------
\* A change of the deadline index alone.
LEMMA DeadlinesInv ==
  ASSUME NEW E, NEW R, NEW r, RegistryInv(r, E, R),
         NEW D \in SUBSET (Time \X DeadlineKey), NEW s, s = [r EXCEPT !.deadlines = D]
  PROVE  RegistryInv(s, E, R)
<1>1. r \in Registry
  BY DEF RegistryInv
<1>2. s \in Registry
  BY <1>1 DEF Registry
<1>3. /\ s.live = r.live /\ s.pending = r.pending /\ s.deleted = r.deleted
      /\ s.gone = r.gone /\ s.forgotten_through = r.forgotten_through
      /\ s.recovery = r.recovery
  BY <1>1 DEF Registry
<1> QED
  BY <1>2, <1>3, FrameInv

\* A session that crosses the quiet deadline keeps its identity.
LEMMA ExpireSessionInv ==
  ASSUME NEW E, NEW R, NEW r, RegistryInv(r, E, R), NEW d, NEW k \in Keys, d[2][2] = k, NEW now
  PROVE  RegistryInv(ExpireSession(r, d, now), E, R)
<1> DEFINE entry == r.live[k]
           quiet == [entry EXCEPT !.quiet_published = TRUE]
           minus == r.deadlines \ {d}
           toQuiet == minus \cup {SessionDeadline(k, quiet)}
           again == minus \cup {SessionDeadline(k, entry)}
           s == [r EXCEPT !.live[k] = quiet, !.deadlines = toQuiet, !.working = @ - 1,
                          !.view[k] = "quiet"]
<1>1. r \in Registry
  BY DEF RegistryInv
<1>2. minus \in SUBSET (Time \X DeadlineKey)
  BY <1>1 DEF Registry
<1>3. \/ ExpireSession(r, d, now) = [r EXCEPT !.deadlines = minus]
      \/ ExpireSession(r, d, now) = EndLive(r, k)
      \/ entry # None /\ ExpireSession(r, d, now) = s
      \/ entry # None /\ ExpireSession(r, d, now) = [r EXCEPT !.deadlines = again]
  BY Zenon DEF ExpireSession
<1>4. entry # None => again \in SUBSET (Time \X DeadlineKey)
  <2>1. SUFFICES ASSUME entry # None PROVE again \in SUBSET (Time \X DeadlineKey)
    OBVIOUS
  <2>2. entry \in LiveEntry
    BY <1>1, <2>1 DEF Registry
  <2> HIDE DEF entry, minus
  <2> QED BY <1>2, <2>2, DeadlineType
<1>5. ASSUME entry # None PROVE RegistryInv(s, E, R)
  <2>1. entry \in LiveEntry
    BY <1>1, <1>5 DEF Registry
  <2>2. /\ quiet \in LiveEntry /\ quiet.incarnation = entry.incarnation
        /\ quiet.exists_at = entry.exists_at
    BY <2>1 DEF LiveEntry
  <2> HIDE DEF quiet
  <2>3. toQuiet \in SUBSET (Time \X DeadlineKey)
    <3> HIDE DEF minus
    <3> QED BY <1>2, <2>2, DeadlineType
  <2> HIDE DEF toQuiet
  <2>4. s \in Registry
    <3> DEFINE lv == [r.live EXCEPT ![k] = quiet]
               vw == [r.view EXCEPT ![k] = "quiet"]
               wk == r.working - 1
    <3>1. /\ lv \in [Keys -> LiveEntry \cup {None}]
          /\ vw \in [Keys -> {"absent", "working", "quiet"}] /\ wk \in Int
      BY <1>1, <2>2 DEF Registry
    <3>2. s = [r EXCEPT !.live = lv, !.deadlines = toQuiet, !.working = wk, !.view = vw]
      BY <1>1 DEF Registry
    <3> HIDE DEF lv, vw, wk, s
    <3> QED BY <1>1, <2>3, <3>1, <3>2 DEF Registry
  <2>5. /\ s.live[k] = quiet /\ \A j \in Keys : j # k => s.live[j] = r.live[j]
        /\ s.pending = r.pending /\ s.deleted = r.deleted /\ s.gone = r.gone
        /\ s.forgotten_through = r.forgotten_through /\ s.recovery = r.recovery
    BY <1>1 DEF Registry
  <2>6. KeyInv(r, E, R, k)
    BY DEF RegistryInv
  <2>7. /\ <<k, quiet.incarnation, quiet.exists_at>> \in E
        /\ quiet.incarnation > r.gone[k] /\ r.pending[k] = None
    BY <1>5, <2>2, <2>6 DEF KeyInv
  <2> HIDE DEF s, entry
  <2> QED BY <2>4, <2>5, <2>7, KeyFrameInv
<1> HIDE DEF entry, quiet, minus, again, s
<1>6. RegistryInv(EndLive(r, k), E, R)
  BY EndLiveInv
<1>7. CASE ExpireSession(r, d, now) = [r EXCEPT !.deadlines = minus]
  BY <1>2, <1>7, DeadlinesInv, Zenon
<1>8. CASE entry # None /\ ExpireSession(r, d, now) = [r EXCEPT !.deadlines = again]
  BY <1>4, <1>8, DeadlinesInv, Zenon
<1> QED
  BY <1>3, <1>5, <1>6, <1>7, <1>8

\* The deadline of an anonymous agent clears it or is computed again.
LEMMA ExpireAnonymousInv ==
  ASSUME NEW E, NEW R, NEW r, RegistryInv(r, E, R), NEW d, NEW a \in Agents, d[2][2] = a, NEW now
  PROVE  RegistryInv(ExpireAnonymous(r, d, now), E, R)
<1> DEFINE entry == r.anonymous[a]
           minus == r.deadlines \ {d}
           again == minus \cup {AnonymousDeadline(a, entry)}
<1>1. r \in Registry
  BY DEF RegistryInv
<1>2. minus \in SUBSET (Time \X DeadlineKey)
  BY <1>1 DEF Registry
<1>3. \/ ExpireAnonymous(r, d, now) = [r EXCEPT !.deadlines = minus]
      \/ ExpireAnonymous(r, d, now) = ClearAnonymous(r, a)
      \/ entry # None /\ ExpireAnonymous(r, d, now) = [r EXCEPT !.deadlines = again]
  BY Zenon DEF ExpireAnonymous
<1>4. entry # None => again \in SUBSET (Time \X DeadlineKey)
  <2>1. SUFFICES ASSUME entry # None PROVE again \in SUBSET (Time \X DeadlineKey)
    OBVIOUS
  <2>2. entry \in AnonymousEntry
    BY <1>1, <2>1 DEF Registry
  <2> HIDE DEF entry, minus
  <2> QED BY <1>2, <2>2, AnonymousDeadlineType
<1> HIDE DEF entry, minus, again
<1>5. RegistryInv(ClearAnonymous(r, a), E, R)
  BY ClearAnonymousInv
<1>6. CASE ExpireAnonymous(r, d, now) = [r EXCEPT !.deadlines = minus]
  BY <1>2, <1>6, DeadlinesInv, Zenon
<1>7. CASE entry # None /\ ExpireAnonymous(r, d, now) = [r EXCEPT !.deadlines = again]
  BY <1>4, <1>7, DeadlinesInv, Zenon
<1> QED
  BY <1>3, <1>5, <1>6, <1>7

\* One deadline of expire() keeps the registry true.
LEMMA ExpireOneInv ==
  ASSUME NEW E, NEW R, NEW r, RegistryInv(r, E, R), NEW d \in r.deadlines, NEW now
  PROVE  RegistryInv(ExpireOne(r, d, now), E, R)
<1>1. d[2] \in DeadlineKey
  BY DEF RegistryInv, Registry
<1>2. CASE d[2][1] = "session"
  <2>1. d[2][2] \in Keys
    BY <1>1, <1>2 DEF DeadlineKey
  <2>2. ExpireOne(r, d, now) = ExpireSession(r, d, now)
    BY <1>2, Zenon DEF ExpireOne
  <2> QED BY <2>1, <2>2, ExpireSessionInv
<1>3. CASE d[2][1] # "session"
  <2>1. d[2][2] \in Agents
    BY <1>1, <1>3 DEF DeadlineKey
  <2>2. ExpireOne(r, d, now) = ExpireAnonymous(r, d, now)
    BY <1>3, Zenon DEF ExpireOne
  <2> QED BY <2>1, <2>2, ExpireAnonymousInv
<1> QED
  BY <1>2, <1>3

----------------------------------------------------------------------------
\* A commit: the store moves from revision R to R + 1, at which it holds D.  A
\* key keeps the incarnation it had at R or gets one above all it ever had.
Extends(E, R, D) ==
    /\ D \subseteq Keys \X Incarnation \X {R + 1}
    /\ \A x, y \in D : x[1] = y[1] => x[2] = y[2]
    /\ \A x \in D : \/ <<x[1], x[2], R>> \in E
                    \/ \A y \in E : y[1] = x[1] => y[2] < x[2]

\* A commit extends a history to a history.
LEMMA ExtendsHistory ==
  ASSUME NEW E, NEW R, History(E, R), NEW D, Extends(E, R, D)
  PROVE  History(E \cup D, R + 1)
<1> DEFINE F == E \cup D
<1>1. R \in Nat /\ E \subseteq Keys \X Incarnation \X (0..R)
  BY DEF History, Revision
<1>2. D \subseteq Keys \X Incarnation \X {R + 1}
  BY DEF Extends
<1>3. F \subseteq Keys \X Incarnation \X (0..(R + 1))
  BY <1>1, <1>2
<1>4. \A x \in F : x[2] \in Nat /\ x[3] \in Nat /\ x[3] <= R + 1
  BY <1>1, <1>3 DEF Incarnation
<1>5. \A x \in E : x[3] <= R /\ x = <<x[1], x[2], x[3]>>
  BY <1>1
<1>6. \A x \in D : x[3] = R + 1 /\ x = <<x[1], x[2], R + 1>>
  BY <1>2
<1>7. ASSUME NEW x \in F, NEW y \in F, x[1] = y[1], x[2] < y[2] PROVE x[3] < y[3]
  <2>1. CASE x \in E /\ y \in E
    BY <1>7, <2>1 DEF History
  <2>2. CASE x \in E /\ y \in D
    BY <1>1, <1>4, <1>5, <1>6, <2>2
  <2>3. CASE x \in D /\ y \in E
    <3>1. CASE <<x[1], x[2], R>> \in E
      <4> DEFINE z == <<x[1], x[2], R>>
      <4>1. z \in E /\ z[1] = y[1] /\ z[2] < y[2] /\ z[3] = R
        BY <1>7, <3>1
      <4> HIDE DEF z
      <4>2. z[3] < y[3]
        BY <2>3, <4>1 DEF History
      <4> QED BY <1>1, <1>4, <1>5, <2>3, <4>1, <4>2
    <3>2. CASE \A w \in E : w[1] = x[1] => w[2] < x[2]
      BY <1>4, <1>7, <2>3, <3>2
    <3> QED BY <2>3, <3>1, <3>2 DEF Extends
  <2>4. CASE x \in D /\ y \in D
    BY <1>4, <1>7, <2>4 DEF Extends
  <2> QED BY <2>1, <2>2, <2>3, <2>4
<1>8. ASSUME NEW x \in F, NEW y \in F, x[1] = y[1], x[2] = y[2], NEW q \in x[3]..y[3]
      PROVE  <<x[1], x[2], q>> \in F
  <2>1. CASE x \in E /\ y \in E
    BY <1>8, <2>1 DEF History
  <2>2. CASE x \in E /\ y \in D
    <3>1. <<x[1], x[2], R>> \in E
      BY <1>4, <1>8, <2>2 DEF Extends
    <3>2. CASE q = R + 1
      BY <1>6, <1>8, <2>2, <3>2
    <3>3. CASE q # R + 1
      <4> DEFINE z == <<x[1], x[2], R>>
      <4>1. z \in E /\ z[1] = x[1] /\ z[2] = x[2] /\ z[3] = R
        BY <3>1
      <4>2. q \in x[3]..z[3]
        BY <1>1, <1>4, <1>6, <1>8, <2>2, <3>3, <4>1
      <4> HIDE DEF z
      <4> QED BY <2>2, <4>1, <4>2 DEF History
    <3> QED BY <3>2, <3>3
  <2>3. CASE x \in D
    <3>1. q = R + 1
      BY <1>1, <1>4, <1>6, <1>8, <2>3
    <3> QED BY <1>6, <2>3, <3>1
  <2> QED BY <2>1, <2>2, <2>3
<1> HIDE DEF F
<1>9. R + 1 \in Revision
  BY <1>1 DEF Revision
<1>10. History(F, R + 1)
  BY <1>3, <1>7, <1>8, <1>9 DEF History
<1> QED
  BY <1>10 DEF F

\* What was gone before a commit stays gone.
LEMMA ExtendsGone ==
  ASSUME NEW E, NEW R, History(E, R), NEW D, Extends(E, R, D), NEW k, NEW i, NEW q,
         Gone(E, R, k, i, q)
  PROVE  Gone(E \cup D, R + 1, k, i, q)
<1>1. R \in Nat /\ i \in Nat /\ q \in 0..R /\ q \in 0..(R + 1)
  BY DEF Gone, History, Revision, Incarnation
<1>2. \A x \in E : x[2] \in Nat
  BY DEF History, Incarnation
<1>3. \A x \in D : x[2] \in Nat
  BY DEF Extends, Incarnation
<1>4. ASSUME NEW x \in D, x[1] = k PROVE x[2] > i
  <2>1. CASE <<x[1], x[2], R>> \in E
    <3> DEFINE z == <<x[1], x[2], R>>
    <3>1. z \in E /\ z[1] = k /\ z[2] = x[2] /\ z[3] = R
      BY <1>4, <2>1
    <3> HIDE DEF z
    <3>2. z[3] >= q
      BY <1>1, <3>1
    <3>3. z[2] > i
      BY <3>1, <3>2 DEF Gone
    <3> QED BY <3>1, <3>3
  <2>2. CASE \A y \in E : y[1] = x[1] => y[2] < x[2]
    <3>1. PICK y \in E : y[1] = k /\ y[2] >= i
      BY DEF Gone
    <3>2. y[2] < x[2]
      BY <1>4, <2>2, <3>1
    <3> QED BY <1>1, <1>2, <1>3, <3>1, <3>2
  <2> QED BY <2>1, <2>2 DEF Extends
<1> QED
  BY <1>1, <1>4 DEF Gone

\* A commit changes nothing that the registry rests on.
LEMMA ExtendsInv ==
  ASSUME NEW E, NEW R, History(E, R), NEW D, Extends(E, R, D), NEW r, RegistryInv(r, E, R)
  PROVE  RegistryInv(r, E \cup D, R + 1)
<1> DEFINE F == E \cup D
<1>1. r \in Registry /\ r.forgotten_through <= R /\ R \in Nat
  BY DEF RegistryInv, History, Revision
<1>2. r.forgotten_through <= R + 1
  BY <1>1 DEF Registry, Revision
<1>3. ASSUME NEW k \in Keys PROVE KeyInv(r, F, R + 1, k)
  <2>1. KeyInv(r, E, R, k)
    BY DEF RegistryInv
  <2>2. \A i, q : Gone(E, R, k, i, q) => Gone(F, R + 1, k, i, q)
    BY ExtendsGone
  <2> QED BY <2>1, <2>2 DEF KeyInv
<1>4. \A rows, q : RowsTrue(rows, E, q) => RowsTrue(rows, F, q)
  BY DEF RowsTrue
<1> HIDE DEF F
<1>5. RegistryInv(r, F, R + 1)
  BY <1>1, <1>2, <1>3, <1>4 DEF RegistryInv
<1> QED
  BY <1>5 DEF F

----------------------------------------------------------------------------
\* A recovery page that is not blocked is still held.
LEMMA RecoverRowHeld ==
  ASSUME NEW r \in Registry, r.recovery # None, r.recovery.page # None,
         r.recovery.page.rows # <<>>, NEW now, RecoverRow(r, now).touch # "blocked",
         RecoverRow(r, now).reg \in Registry
  PROVE  /\ RecoverRow(r, now).reg.recovery # None
         /\ RecoverRow(r, now).reg.recovery.page # None
<1> DEFINE held == r.recovery.page
           x == Head(held.rows)
           t == ApplyPresentRow(r, x.key, x, held.revision, now)
           p == [held EXCEPT !.rows = Tail(held.rows)]
           w == [r.recovery EXCEPT !.page.rows = Tail(held.rows)]
           u == [t.reg EXCEPT !.recovery = w]
<1>1. r.recovery \in SeedRecovery /\ held \in RecoveryPage
  BY DEF Registry, SeedRecovery
<1>2. RecoverRow(r, now) = Touched(u, t.touch)
  <2>1. (RecoverRow(r, now) = t /\ t.touch = "blocked") \/ RecoverRow(r, now) = Touched(u, t.touch)
    BY Zenon DEF RecoverRow
  <2> HIDE DEF t, u
  <2> QED BY <2>1
<1>3. p \in RecoveryPage
  <2>1. Tail(held.rows) \in Seq(ActiveRow)
    BY <1>1 DEF RecoveryPage
  <2> DEFINE rest == Tail(held.rows)
  <2> HIDE DEF rest
  <2>2. [held EXCEPT !.rows = rest] \in RecoveryPage
    BY <1>1, <2>1 DEF RecoveryPage, rest
  <2> QED BY <2>2 DEF rest
<1>4. w \in SeedRecovery /\ w.page \in RecoveryPage
  <2>1. w = [r.recovery EXCEPT !.page = p]
    BY <1>1 DEF SeedRecovery
  <2> HIDE DEF p, w
  <2> QED BY <1>1, <1>3, <2>1 DEF SeedRecovery
<1>5. RecoverRow(r, now).reg = u
  <2> HIDE DEF u
  <2> QED BY <1>2 DEF Touched
<1> HIDE DEF w, t
<1>6. u.recovery = w
  <2>1. u \in Registry
    BY <1>5
  <2>2. "recovery" \in DOMAIN u
    BY <2>1 DEF Registry
  <2> QED BY <2>2
<1> QED
  BY <1>4, <1>5, <1>6, NoneAssumption

\* An accepted recovery page is held.
LEMMA HoldRecoveryPageHeld ==
  ASSUME NEW r \in Registry, NEW rows, NEW q, HoldRecoveryPage(r, rows, q).recovery # None,
         HoldRecoveryPage(r, rows, q) \in Registry, rows \in Seq(ActiveRow), q \in Revision
  PROVE  HoldRecoveryPage(r, rows, q).recovery.page # None
<1> DEFINE last == rows[Len(rows)]
           c == IF rows = <<>> THEN None ELSE [epoch |-> last.epoch, key |-> last.key]
           p == [rows |-> rows, revision |-> q, cursor |-> c, exhausted |-> Len(rows) < PageSize]
           w == [r.recovery EXCEPT !.page = p]
<1>1. r.recovery # None
  BY DEF HoldRecoveryPage
<1>2. HoldRecoveryPage(r, rows, q) = [r EXCEPT !.recovery = w]
  BY <1>1 DEF HoldRecoveryPage
<1>3. p # None
  <2>1. rows # <<>> => last \in ActiveRow
    OBVIOUS
  <2>2. c \in ActiveCursor \cup {None}
    BY <2>1 DEF ActiveRow, ActiveCursor
  <2>3. (Len(rows) < PageSize) \in BOOLEAN
    OBVIOUS
  <2> HIDE DEF c
  <2>4. p \in RecoveryPage
    BY <2>2, <2>3 DEF RecoveryPage
  <2> HIDE DEF p
  <2> QED BY <2>4, NoneAssumption
<1> HIDE DEF p
<1>4. r.recovery \in SeedRecovery
  BY <1>1 DEF Registry
<1>5. w.page = p
  BY <1>4 DEF SeedRecovery
<1> HIDE DEF w
<1>6. HoldRecoveryPage(r, rows, q).recovery = w
  BY <1>2 DEF Registry
<1> QED
  BY <1>3, <1>5, <1>6

----------------------------------------------------------------------------
(* The deadline index, the working count and the clients' view.            *)

SessionDeadlines(live) ==
    {SessionDeadline(k, live[k]) : k \in {j \in Keys : live[j] # None}}

AnonymousDeadlines(anonymous) ==
    {AnonymousDeadline(a, anonymous[a]) : a \in {b \in Agents : anonymous[b] # None}}

Busy(live) == {k \in Keys : live[k] # None /\ ~live[k].quiet_published}

\* What a client is told of an entry.
Shown(entry) ==
    IF entry = None THEN "absent" ELSE IF entry.quiet_published THEN "quiet" ELSE "working"

IndexOK(r) ==
    /\ r.deadlines = SessionDeadlines(r.live) \cup AnonymousDeadlines(r.anonymous)
    /\ r.working = Cardinality(Busy(r.live))

ViewOK(r) ==
    /\ \A k \in Keys : r.view[k] = Shown(r.live[k])
    /\ r.anonymousView = {a \in Agents : r.anonymous[a] # None}

Exact(r) == IndexOK(r) /\ ViewOK(r)

SameIndex(r, s) ==
    /\ s.live = r.live /\ s.working = r.working /\ s.deadlines = r.deadlines
    /\ s.anonymous = r.anonymous /\ s.view = r.view /\ s.anonymousView = r.anonymousView

\* An operator that leaves the live map, its index and the view alone.
LEMMA SameExact ==
  ASSUME NEW r, NEW s, SameIndex(r, s), Exact(r)
  PROVE  Exact(s)
  BY DEF SameIndex, Exact, IndexOK, ViewOK

\* Leaving the index alone composes.
LEMMA SameIndexTransitive ==
  ASSUME NEW r, NEW s, NEW t, SameIndex(r, s), SameIndex(s, t)
  PROVE  SameIndex(r, t)
  BY DEF SameIndex

\* The deadlines that an entry of k puts into the index.
Own(k, entry) == IF entry = None THEN {} ELSE {SessionDeadline(k, entry)}

\* Deadlines of two keys, and of a session and an agent, differ.
LEMMA DeadlinesDiffer ==
  ASSUME NEW k \in Keys, NEW e, NEW j, NEW f, SessionDeadline(k, e) = SessionDeadline(j, f)
  PROVE  k = j
  BY DEF SessionDeadline

\* The deadline of a session is never the deadline of an anonymous activity.
LEMMA SessionNotAnonymous ==
  ASSUME NEW k, NEW e, NEW a, NEW f
  PROVE  SessionDeadline(k, e) # AnonymousDeadline(a, f)
  BY DEF SessionDeadline, AnonymousDeadline

\* Changing one entry changes its own deadline.
LEMMA SessionDeadlinesSet ==
  ASSUME NEW live \in [Keys -> LiveEntry \cup {None}], NEW k \in Keys,
         NEW e \in LiveEntry \cup {None}
  PROVE  SessionDeadlines([live EXCEPT ![k] = e])
            = (SessionDeadlines(live) \ Own(k, live[k])) \cup Own(k, e)
<1> DEFINE new == [live EXCEPT ![k] = e]
<1>1. new[k] = e /\ \A j \in Keys : j # k => new[j] = live[j]
  OBVIOUS
<1> HIDE DEF new
<1>2. ASSUME NEW d \in SessionDeadlines(new)
      PROVE  d \in (SessionDeadlines(live) \ Own(k, live[k])) \cup Own(k, e)
  <2>1. PICK j \in Keys : new[j] # None /\ d = SessionDeadline(j, new[j])
    BY DEF SessionDeadlines
  <2>2. CASE j = k
    BY <1>1, <2>1, <2>2 DEF Own
  <2>3. CASE j # k
    <3>1. d \in SessionDeadlines(live)
      BY <1>1, <2>1, <2>3 DEF SessionDeadlines
    <3>2. d \notin Own(k, live[k])
      BY <2>1, <2>3, DeadlinesDiffer DEF Own
    <3> QED BY <3>1, <3>2
  <2> QED BY <2>2, <2>3
<1>3. ASSUME NEW d \in SessionDeadlines(live), d \notin Own(k, live[k])
      PROVE  d \in SessionDeadlines(new)
  <2>1. PICK j \in Keys : live[j] # None /\ d = SessionDeadline(j, live[j])
    BY DEF SessionDeadlines
  <2>2. j # k
    BY <1>3, <2>1 DEF Own
  <2> QED BY <1>1, <2>1, <2>2 DEF SessionDeadlines
<1>4. ASSUME NEW d \in Own(k, e) PROVE d \in SessionDeadlines(new)
  BY <1>1 DEF Own, SessionDeadlines
<1> QED
  BY <1>2, <1>3, <1>4 DEF new

\* Changing one entry changes the working count by the weights.
LEMMA BusySet ==
  ASSUME NEW live \in [Keys -> LiveEntry \cup {None}], NEW k \in Keys,
         NEW e \in LiveEntry \cup {None}
  PROVE  /\ Cardinality(Busy(live)) \in Nat
         /\ Cardinality(Busy([live EXCEPT ![k] = e]))
               = Cardinality(Busy(live)) + Weight(e) - Weight(live[k])
<1> DEFINE new == [live EXCEPT ![k] = e]
           B == Busy(live)
           C == Busy(new)
<1>1. new[k] = e /\ \A j \in Keys : j # k => new[j] = live[j]
  OBVIOUS
<1>2. B \subseteq Keys /\ C \subseteq Keys
  BY DEF Busy
<1> HIDE DEF new
<1>3. /\ k \in B <=> Weight(live[k]) = 1
      /\ k \notin B <=> Weight(live[k]) = 0
  BY DEF Busy, Weight
<1>4. /\ k \in C <=> Weight(e) = 1
      /\ k \notin C <=> Weight(e) = 0
  BY <1>1 DEF Busy, Weight
<1>5. C \ {k} = B \ {k}
  BY <1>1 DEF Busy
<1> HIDE DEF B, C
<1>6. /\ IsFiniteSet(B) /\ IsFiniteSet(C) /\ IsFiniteSet(B \ {k})
  BY <1>2, KeysAssumption, FS_Subset
<1>7. /\ Cardinality(B) \in Nat /\ Cardinality(C) \in Nat /\ Cardinality(B \ {k}) \in Nat
  BY <1>6, FS_CardinalityType
<1>8. /\ k \in B => Cardinality(B \ {k}) = Cardinality(B) - 1
      /\ k \notin B => Cardinality(B \ {k}) = Cardinality(B)
  <2>1. k \notin B => B \ {k} = B
    OBVIOUS
  <2> QED BY <1>6, <2>1, FS_RemoveElement
<1>9. /\ k \in C => Cardinality(C \ {k}) = Cardinality(C) - 1
      /\ k \notin C => Cardinality(C \ {k}) = Cardinality(C)
  <2>1. k \notin C => C \ {k} = C
    OBVIOUS
  <2> QED BY <1>6, <2>1, FS_RemoveElement
<1>10. Cardinality(C) = Cardinality(B) + Weight(e) - Weight(live[k])
  BY <1>3, <1>4, <1>5, <1>7, <1>8, <1>9
<1> QED
  BY <1>7, <1>10 DEF B, C, new

\* The index stays exact when an entry, its deadline and the count change together.
LEMMA IndexSet ==
  ASSUME NEW r \in Registry, IndexOK(r), NEW k \in Keys, NEW e \in LiveEntry \cup {None}, NEW s,
         s.live = [r.live EXCEPT ![k] = e], s.anonymous = r.anonymous,
         s.deadlines = (r.deadlines \ Own(k, r.live[k])) \cup Own(k, e),
         s.working = r.working + Weight(e) - Weight(r.live[k])
  PROVE  IndexOK(s)
<1>1. r.live \in [Keys -> LiveEntry \cup {None}]
  BY DEF Registry
<1>2. s.working = Cardinality(Busy(s.live))
  BY <1>1, BusySet DEF IndexOK
<1> DEFINE A == AnonymousDeadlines(r.anonymous)
           L == SessionDeadlines(r.live)
<1>3. A \cap Own(k, r.live[k]) = {}
  BY SessionNotAnonymous DEF AnonymousDeadlines, Own
<1>4. SessionDeadlines(s.live) = (L \ Own(k, r.live[k])) \cup Own(k, e)
  BY <1>1, SessionDeadlinesSet
<1>5. r.deadlines = L \cup A
  BY DEF IndexOK
<1> HIDE DEF A, L
<1>6. s.deadlines = SessionDeadlines(s.live) \cup A
  BY <1>3, <1>4, <1>5
<1> QED
  BY <1>2, <1>6 DEF IndexOK, A

----------------------------------------------------------------------------
\* remember() leaves the index and the view alone.
LEMMA RememberSame ==
  ASSUME NEW r \in Registry, NEW k \in Keys, NEW i \in Incarnation, NEW q \in Revision
  PROVE  SameIndex(r, Remember(r, k, i, q))
<1> DEFINE old == r.deleted[k]
           new == IF old = None
                  THEN [incarnation |-> i, absent_at |-> q]
                  ELSE [incarnation |-> Max2(old.incarnation, i),
                        absent_at |-> Max2(old.absent_at, q)]
           g == Max2(r.gone[k], i)
           t == [r EXCEPT !.deleted[k] = new, !.gone[k] = g]
<1>1. Remember(r, k, i, q) = t \/ Remember(r, k, i, q) = Evict(t)
  BY DEF Remember
<1> HIDE DEF new, g
<1>2. SameIndex(r, t)
  BY DEF Registry, SameIndex
<1>3. SameIndex(t, Evict(t))
  BY DEF Registry, SameIndex, Evict
<1> HIDE DEF t
<1> QED
  BY <1>1, <1>2, <1>3, SameIndexTransitive

\* Setting the waiting evidence of a key leaves the index and the view alone.
LEMMA PendingSame ==
  ASSUME NEW r \in Registry, NEW k \in Keys, NEW v
  PROVE  SameIndex(r, [r EXCEPT !.pending[k] = v])
  BY DEF Registry, SameIndex

\* Dropping a deferred observation leaves the index alone.
LEMMA DropPendingSame ==
  ASSUME NEW r \in Registry, NEW k \in Keys
  PROVE  DropPending(r, k) \in Registry /\ SameIndex(r, DropPending(r, k))
  BY DEF Registry, SameIndex, DropPending

\* Deferring an observation leaves the index alone.
LEMMA DeferSame ==
  ASSUME NEW r \in Registry, NEW k \in Keys, NEW fact
  PROVE  SameIndex(r, Defer(r, k, fact).reg) /\ Defer(r, k, fact).touch \in {"blocked", "deferred"}
<1> DEFINE held == r.pending[k]
           merged == [fact EXCEPT !.at = Max2(held.at, fact.at),
                                  !.revision = Max2(held.revision, fact.revision)]
<1>1. \/ Defer(r, k, fact) = Touched(r, "blocked")
      \/ Defer(r, k, fact) = Touched(r, "deferred")
      \/ Defer(r, k, fact) = Touched([r EXCEPT !.pending[k] = fact], "deferred")
      \/ Defer(r, k, fact) = Touched([r EXCEPT !.pending[k] = merged], "deferred")
  BY Zenon DEF Defer
<1> HIDE DEF merged
<1>2. SameIndex(r, r)
  BY DEF SameIndex
<1> QED
  BY <1>1, <1>2, PendingSame DEF Touched

\* A new entry of a key that is not live is indexed.
LEMMA InsertLiveExact ==
  ASSUME NEW r \in Registry, Exact(r), NEW k \in Keys \ RemoteKeys, NEW entry \in LiveEntry,
         r.live[k] = None
  PROVE  LET s == InsertLive(r, k, entry) IN
         /\ IndexOK(s) /\ s.live = [r.live EXCEPT ![k] = entry]
         /\ s.view = r.view /\ s.anonymous = r.anonymous /\ s.anonymousView = r.anonymousView
<1> DEFINE s == InsertLive(r, k, entry)
           d == r.deadlines \cup {SessionDeadline(k, entry)}
           w == r.working + Weight(entry) - Weight(r.live[k])
<1>1. s = [r EXCEPT !.live[k] = entry, !.deadlines = d, !.working = w]
  BY DEF InsertLive
<1>2. d = (r.deadlines \ Own(k, r.live[k])) \cup Own(k, entry)
  BY NoneAssumption DEF Own
<1> HIDE DEF s, d
<1>3. /\ s.live = [r.live EXCEPT ![k] = entry] /\ s.deadlines = d /\ s.working = w
      /\ s.view = r.view /\ s.anonymous = r.anonymous /\ s.anonymousView = r.anonymousView
  BY <1>1 DEF Registry
<1>4. IndexOK(s)
  BY <1>2, <1>3, IndexSet DEF Exact
<1> QED
  BY <1>3, <1>4 DEF s

\* Ending a session removes its deadline and its weight, and tells the clients.
LEMMA EndLiveExact ==
  ASSUME NEW r \in Registry, Exact(r), NEW k \in Keys
  PROVE  Exact(EndLive(r, k))
<1> DEFINE t == RemoveLive(r, k)
<1>1. /\ t \in Registry /\ IndexOK(t)
      /\ t.live = [r.live EXCEPT ![k] = None] /\ t.view = r.view
      /\ t.anonymous = r.anonymous /\ t.anonymousView = r.anonymousView
  <2>1. CASE r.live[k] = None
    <3>1. t = r
      BY <2>1 DEF RemoveLive
    <3>2. r.live = [r.live EXCEPT ![k] = None]
      BY <2>1 DEF Registry
    <3> HIDE DEF t
    <3> QED BY <3>1, <3>2 DEF Exact
  <2>2. CASE r.live[k] # None
    <3> DEFINE d == r.deadlines \ {SessionDeadline(k, r.live[k])}
               w == r.working - Weight(r.live[k])
    <3>1. d \in SUBSET (Time \X DeadlineKey)
      BY DEF Registry
    <3>2. w \in Int /\ w = r.working + Weight(None) - Weight(r.live[k])
      <4>1. Weight(r.live[k]) \in Int
        BY WeightType DEF Registry
      <4> QED BY <4>1 DEF Registry, Weight
    <3>3. t = [r EXCEPT !.live[k] = None, !.deadlines = d, !.working = w]
      BY <2>2 DEF RemoveLive
    <3>4. d = (r.deadlines \ Own(k, r.live[k])) \cup Own(k, None)
      BY <2>2 DEF Own
    <3> HIDE DEF d, w, t
    <3>5. t \in Registry
      BY <3>1, <3>2, <3>3 DEF Registry
    <3>6. /\ t.live = [r.live EXCEPT ![k] = None] /\ t.deadlines = d /\ t.working = w
          /\ t.view = r.view /\ t.anonymous = r.anonymous /\ t.anonymousView = r.anonymousView
      BY <3>3 DEF Registry
    <3>7. IndexOK(t)
      BY <3>2, <3>4, <3>6, IndexSet DEF Exact
    <3> QED BY <3>5, <3>6, <3>7
  <2> QED BY <2>1, <2>2
<1> DEFINE s == EndLive(r, k)
<1>2. s = [t EXCEPT !.view[k] = "absent"]
  BY DEF EndLive
<1> HIDE DEF t, s
<1>3. /\ s.live = t.live /\ s.deadlines = t.deadlines /\ s.working = t.working
      /\ s.anonymous = t.anonymous /\ s.anonymousView = t.anonymousView
      /\ s.view = [t.view EXCEPT ![k] = "absent"]
  BY <1>1, <1>2 DEF Registry
<1>4. IndexOK(s)
  BY <1>1, <1>3 DEF IndexOK
<1>5. ViewOK(s)
  <2>1. r.view \in [Keys -> {"absent", "working", "quiet"}] /\ r.live \in [Keys -> LiveEntry \cup {None}]
    BY DEF Registry
  <2>2. /\ s.live[k] = None /\ s.view[k] = "absent"
        /\ \A j \in Keys : j # k => s.live[j] = r.live[j] /\ s.view[j] = r.view[j]
    BY <1>1, <1>3, <2>1
  <2> QED BY <1>1, <1>3, <2>2 DEF ViewOK, Exact, Shown
<1> QED
  BY <1>4, <1>5 DEF Exact, s

\* The registry beside a touch is exact up to the event that the touch publishes.
Told(t, k) ==
    IF t.touch \in {"added", "advanced"}
    THEN /\ IndexOK(t.reg)
         /\ \A j \in Keys : j # k => t.reg.view[j] = Shown(t.reg.live[j])
         /\ Shown(t.reg.live[k]) = "working"
         /\ t.reg.anonymousView = {a \in Agents : t.reg.anonymous[a] # None}
    ELSE Exact(t.reg)

\* A new entry works: its Started event is due.
LEMMA InsertTold ==
  ASSUME NEW r \in Registry, Exact(r), NEW k \in Keys \ RemoteKeys, NEW fact \in Existence,
         r.live[k] = None
  PROVE  Told(Touched(InsertLive(r, k, NewEntry(fact)), "added"), k)
<1> DEFINE entry == NewEntry(fact)
           s == InsertLive(r, k, entry)
           t == Touched(s, "added")
<1>1. entry \in LiveEntry /\ ~entry.quiet_published
  BY DEF NewEntry, LiveEntry, Existence
<1> HIDE DEF entry
<1>2. /\ IndexOK(s) /\ s.live = [r.live EXCEPT ![k] = entry]
      /\ s.view = r.view /\ s.anonymous = r.anonymous /\ s.anonymousView = r.anonymousView
  BY <1>1, InsertLiveExact
<1>3. s.live[k] = entry /\ \A j \in Keys : j # k => s.live[j] = r.live[j]
  BY <1>2 DEF Registry
<1> HIDE DEF s
<1>4. t.reg = s /\ t.touch = "added"
  BY DEF Touched
<1>5. Shown(entry) = "working"
  BY <1>1, NoneAssumption DEF Shown
<1> HIDE DEF t
<1>6. /\ \A j \in Keys : j # k => s.view[j] = Shown(s.live[j])
      /\ s.anonymousView = {a \in Agents : s.anonymous[a] # None}
  BY <1>2, <1>3 DEF Exact, ViewOK
<1>7. Told(t, k)
  BY <1>2, <1>3, <1>4, <1>5, <1>6 DEF Told
<1> QED
  BY <1>7 DEF t, s, entry

\* A touch that publishes nothing leaves an exact registry.
LEMMA SilentTold ==
  ASSUME NEW r, Exact(r), NEW touch, touch \notin {"added", "advanced"}, NEW k
  PROVE  Told(Touched(r, touch), k)
  BY DEF Told, Touched

\* A fact about the live incarnation moves its deadline when it is newer.
LEMMA RefreshTold ==
  ASSUME NEW r \in Registry, Exact(r), NEW k \in Keys, NEW fact \in Existence, r.live[k] # None
  PROVE  Told(Refresh(r, k, fact), k)
<1> DEFINE entry == r.live[k]
           seen == [entry EXCEPT !.exists_at = Max2(@, fact.revision)]
           active == [seen EXCEPT !.last_activity_at = fact.at, !.quiet_published = FALSE]
           d == (r.deadlines \ {SessionDeadline(k, entry)}) \cup {SessionDeadline(k, active)}
           w == r.working + 1 - Weight(entry)
           s == [r EXCEPT !.live[k] = seen]
           t == [r EXCEPT !.live[k] = active, !.deadlines = d, !.working = w]
<1>1. entry \in LiveEntry
  BY DEF Registry
<1>2. /\ seen \in LiveEntry /\ active \in LiveEntry
      /\ seen.last_activity_at = entry.last_activity_at
      /\ seen.quiet_published = entry.quiet_published /\ active.quiet_published = FALSE
  BY <1>1 DEF LiveEntry, Existence, Max2, Incarnation, Revision
<1>3. entry # None /\ seen # None /\ active # None
  BY <1>1, <1>2, NoneAssumption
<1>4. Refresh(r, k, fact) = Touched(s, "unchanged") \/ Refresh(r, k, fact) = Touched(t, "advanced")
  BY Zenon DEF Refresh
<1>5. r.live \in [Keys -> LiveEntry \cup {None}] /\ r.working \in Int
  BY DEF Registry
<1> HIDE DEF seen, active
<1>6. Exact(s)
  <2>1. /\ s.live = [r.live EXCEPT ![k] = seen] /\ s.deadlines = r.deadlines
        /\ s.working = r.working /\ s.view = r.view /\ s.anonymous = r.anonymous
        /\ s.anonymousView = r.anonymousView
    BY DEF Registry
  <2>2. s.live[k] = seen /\ \A j \in Keys : j # k => s.live[j] = r.live[j]
    BY <1>5, <2>1
  <2>3. SessionDeadline(k, seen) = SessionDeadline(k, entry)
    BY <1>2 DEF SessionDeadline, Deadline
  <2>4. Weight(seen) = Weight(entry) /\ Shown(seen) = Shown(entry)
    BY <1>2, <1>3 DEF Weight, Shown
  <2>5. s.deadlines = (r.deadlines \ Own(k, r.live[k])) \cup Own(k, seen)
    <3>1. SessionDeadline(k, entry) \in r.deadlines
      BY <1>3 DEF Exact, IndexOK, SessionDeadlines
    <3> QED BY <1>3, <2>1, <2>3, <3>1 DEF Own
  <2>6. s.working = r.working + Weight(seen) - Weight(r.live[k])
    <3>1. Weight(entry) \in Int
      BY <1>1, WeightType
    <3> HIDE DEF s
    <3> QED BY <1>5, <2>1, <2>4, <3>1
  <2> HIDE DEF s
  <2>7. IndexOK(s)
    BY <1>2, <2>1, <2>5, <2>6, IndexSet DEF Exact
  <2>8. ViewOK(s)
    <3>1. \A j \in Keys : s.view[j] = Shown(s.live[j])
      BY <2>1, <2>2, <2>4 DEF Exact, ViewOK
    <3> QED BY <2>1, <3>1 DEF Exact, ViewOK
  <2> QED BY <2>7, <2>8 DEF Exact
<1>7. Told(Touched(t, "advanced"), k)
  <2> HIDE DEF d, w
  <2>1. /\ t.live = [r.live EXCEPT ![k] = active] /\ t.deadlines = d
        /\ t.working = w /\ t.view = r.view /\ t.anonymous = r.anonymous
        /\ t.anonymousView = r.anonymousView
    BY DEF Registry
  <2>2. t.live[k] = active /\ \A j \in Keys : j # k => t.live[j] = r.live[j]
    BY <1>5, <2>1
  <2>3. Weight(active) = 1 /\ Shown(active) = "working"
    BY <1>2, <1>3 DEF Weight, Shown
  <2> HIDE DEF t
  <2>4. t.deadlines = (r.deadlines \ Own(k, r.live[k])) \cup Own(k, active)
    BY <1>3, <2>1 DEF Own, d
  <2>5. t.working = r.working + Weight(active) - Weight(r.live[k])
    BY <2>1, <2>3 DEF w
  <2>6. IndexOK(t)
    BY <1>2, <2>1, <2>4, <2>5, IndexSet DEF Exact
  <2>7. /\ \A j \in Keys : j # k => t.view[j] = Shown(t.live[j])
        /\ t.anonymousView = {a \in Agents : t.anonymous[a] # None}
    BY <2>1, <2>2 DEF Exact, ViewOK
  <2> DEFINE u == Touched(t, "advanced")
  <2>8. u.reg = t /\ u.touch = "advanced"
    BY DEF Touched
  <2> HIDE DEF u
  <2>9. Told(u, k)
    BY <2>2, <2>3, <2>6, <2>7, <2>8 DEF Told
  <2> QED BY <2>9 DEF u
<1> HIDE DEF s, t
<1>8. Told(Touched(s, "unchanged"), k)
  BY <1>6, SilentTold
<1> QED
  BY <1>4, <1>7, <1>8

\* Admission settles the waiting evidence and indexes the new entry.
LEMMA AdmitTold ==
  ASSUME NEW r \in Registry, Exact(r), NEW k \in Keys \ RemoteKeys, NEW fact \in Existence,
         r.live[k] = None
  PROVE  Told(Admit(r, k, fact), k)
<1> DEFINE held == r.pending[k]
           merged == [fact EXCEPT !.at = Max2(@, held.at),
                                  !.revision = Max2(@, held.revision)]
           cleared == DropPending(r, k)
<1>1. /\ fact.incarnation \in Incarnation /\ fact.revision \in Revision
      /\ held \in Existence \cup {None}
  BY DEF Existence, Registry
<1>2. held # None => /\ held.incarnation \in Incarnation /\ held.revision \in Revision
                     /\ merged \in Existence
  BY <1>1 DEF Existence, Max2, Incarnation, Revision, Time
<1>3. cleared \in Registry /\ SameIndex(r, cleared)
  BY DropPendingSame
<1> HIDE DEF cleared
<1>4. Exact(cleared) /\ cleared.live[k] = None
  BY <1>3, SameExact DEF SameIndex
<1>5. CASE held = None
  <2>1. Admit(r, k, fact) = Touched(InsertLive(r, k, NewEntry(fact)), "added")
    BY <1>5, Zenon DEF Admit
  <2> QED BY <2>1, InsertTold
<1>6. CASE held # None /\ held.incarnation > fact.incarnation
  <2>1. Admit(r, k, fact) = Touched(Remember(r, k, fact.incarnation, held.revision), "stale")
    BY <1>6, Zenon DEF Admit
  <2>2. Exact(Remember(r, k, fact.incarnation, held.revision))
    BY <1>1, <1>2, <1>6, RememberSame, SameExact
  <2> QED BY <2>1, <2>2, SilentTold
<1>7. CASE held # None /\ held.incarnation = fact.incarnation
  <2>1. ~(held.incarnation > fact.incarnation)
    BY <1>1, <1>7 DEF Incarnation
  <2>2. Admit(r, k, fact) = Touched(InsertLive(cleared, k, NewEntry(merged)), "added")
    BY <1>7, <2>1, Zenon DEF Admit, cleared
  <2>3. merged \in Existence
    BY <1>2, <1>7
  <2> HIDE DEF merged
  <2> QED BY <1>3, <1>4, <2>2, <2>3, InsertTold
<1>8. CASE held # None /\ held.incarnation < fact.incarnation
  <2> DEFINE s == Remember(cleared, k, held.incarnation, fact.revision)
  <2>1. ~(held.incarnation > fact.incarnation) /\ held.incarnation # fact.incarnation
    BY <1>1, <1>2, <1>8 DEF Incarnation
  <2>2. Admit(r, k, fact) = Touched(InsertLive(s, k, NewEntry(fact)), "added")
    BY <1>8, <2>1, Zenon DEF Admit, cleared
  <2>3. s \in Registry /\ SameIndex(cleared, s)
    BY <1>1, <1>2, <1>3, <1>8, RememberSame, RememberFields
  <2> HIDE DEF s
  <2>4. Exact(s) /\ s.live[k] = None
    BY <1>4, <2>3, SameExact DEF SameIndex
  <2> QED BY <2>2, <2>3, <2>4, InsertTold
<1> QED
  BY <1>1, <1>2, <1>5, <1>6, <1>7, <1>8 DEF Incarnation

\* A guarded transition tells the clients of the keys it changes.
LEMMA GuardedTold ==
  ASSUME NEW r \in Registry, Exact(r), NEW k \in Keys \ RemoteKeys, NEW fact \in Existence,
         r.live[k] = None
  PROVE  Told(Guarded(r, k, fact), k)
<1>1. \/ Guarded(r, k, fact) = Touched(r, "stale")
      \/ Guarded(r, k, fact) = Defer(r, k, fact)
      \/ Guarded(r, k, fact) = Admit(r, k, fact)
  BY Zenon DEF Guarded
<1>2. Told(Touched(r, "stale"), k)
  BY SilentTold
<1>3. Told(Defer(r, k, fact), k)
  BY DeferSame, SameExact DEF Told
<1> QED
  BY <1>1, <1>2, <1>3, AdmitTold

\* establish(): also when a higher incarnation replaces the live one and is
\* itself deferred, what is told is what is live.
LEMMA EstablishTold ==
  ASSUME NEW r \in Registry, Exact(r), NEW k \in Keys, NEW fact \in Existence, NEW now
  PROVE  Told(Establish(r, k, fact, now), k)
<1> DEFINE entry == r.live[k]
           ended == EndLive(r, k)
           replaced == Remember(ended, k, entry.incarnation, fact.revision)
<1>1. \/ Establish(r, k, fact, now) = Touched(r, "stale")
      \/ k \notin RemoteKeys /\ entry = None /\ Establish(r, k, fact, now) = Guarded(r, k, fact)
      \/ entry # None /\ Establish(r, k, fact, now) = Refresh(r, k, fact)
      \/ /\ k \notin RemoteKeys /\ entry # None
         /\ Establish(r, k, fact, now) = Guarded(replaced, k, fact)
  BY Zenon DEF Establish
<1>2. Told(Touched(r, "stale"), k)
  BY SilentTold
<1>3. ASSUME k \notin RemoteKeys, entry # None PROVE Told(Guarded(replaced, k, fact), k)
  <2>1. entry.incarnation \in Incarnation /\ fact.revision \in Revision
    BY <1>3 DEF Registry, LiveEntry, Existence
  <2>2. ended \in Registry /\ ended.live[k] = None /\ Exact(ended)
    <3>1. ended \in Registry /\ ended.live = [r.live EXCEPT ![k] = None] /\ Exact(ended)
      BY EndLiveFields, EndLiveExact
    <3> QED BY <3>1 DEF Registry
  <2> HIDE DEF ended, entry
  <2>3. replaced \in Registry /\ SameIndex(ended, replaced)
    BY <2>1, <2>2, RememberFields, RememberSame
  <2> HIDE DEF replaced
  <2>4. Exact(replaced) /\ replaced.live[k] = None
    BY <2>2, <2>3, SameExact DEF SameIndex
  <2> QED BY <1>3, <2>3, <2>4, GuardedTold
<1> HIDE DEF replaced
<1> QED
  BY <1>1, <1>2, <1>3, GuardedTold, RefreshTold

\* After the event of the touch the registry is exact.
LEMMA NarrateExact ==
  ASSUME NEW t, t.reg \in Registry, NEW k \in Keys, Told(t, k)
  PROVE  Exact(Narrate(t, k).reg)
<1>1. CASE t.touch \notin {"added", "advanced"}
  <2>1. Narrate(t, k) = t
    BY <1>1 DEF Narrate
  <2> QED BY <1>1, <2>1 DEF Told
<1>2. CASE t.touch \in {"added", "advanced"}
  <2> DEFINE s == [t.reg EXCEPT !.view[k] = "working"]
  <2>1. Narrate(t, k).reg = s
    BY <1>2 DEF Narrate, Touched
  <2>2. /\ IndexOK(t.reg) /\ Shown(t.reg.live[k]) = "working"
        /\ \A j \in Keys : j # k => t.reg.view[j] = Shown(t.reg.live[j])
        /\ t.reg.anonymousView = {a \in Agents : t.reg.anonymous[a] # None}
    BY <1>2 DEF Told
  <2> DEFINE r == t.reg
  <2> HIDE DEF r
  <2>3. r \in Registry /\ s = [r EXCEPT !.view[k] = "working"]
    BY DEF r
  <2> HIDE DEF s
  <2>4. /\ s.live = r.live /\ s.deadlines = r.deadlines /\ s.working = r.working
        /\ s.anonymous = r.anonymous /\ s.anonymousView = r.anonymousView
        /\ s.view[k] = "working" /\ \A j \in Keys : j # k => s.view[j] = r.view[j]
    BY <2>3 DEF Registry
  <2>5. IndexOK(s)
    BY <2>2, <2>4 DEF IndexOK, r
  <2>6. ViewOK(s)
    BY <2>2, <2>4 DEF ViewOK, r
  <2> QED BY <2>1, <2>5, <2>6 DEF Exact
<1> QED
  BY <1>1, <1>2

\* observe keeps the index and the view exact.
LEMMA ObserveExact ==
  ASSUME NEW E, NEW R, History(E, R), NEW r, RegistryInv(r, E, R), Exact(r), NEW k \in Keys,
         NEW fact, TrueFact(E, k, fact), NEW now
  PROVE  Exact(Observe(r, k, fact, now).reg)
<1> DEFINE t == Establish(r, k, fact, now)
<1>1. t.reg \in Registry
  BY EstablishInv DEF RegistryInv
<1>2. Told(t, k)
  BY EstablishTold DEF RegistryInv, TrueFact
<1> HIDE DEF t
<1>3. Exact(Narrate(t, k).reg)
  BY <1>1, <1>2, NarrateExact
<1> QED
  BY <1>3 DEF Observe, t

\* remove() ends the session that it covers.
LEMMA RemoveExact ==
  ASSUME NEW r \in Registry, Exact(r), NEW k \in Keys, NEW i \in Incarnation, NEW q \in Revision
  PROVE  Exact(Remove(r, k, i, q))
<1> DEFINE s == Remember(r, k, i, q)
<1>1. s \in Registry /\ Exact(s)
  BY RememberFields, RememberSame, SameExact
<1>2. \/ Remove(r, k, i, q) = s \/ Remove(r, k, i, q) = EndLive(s, k)
      \/ Remove(r, k, i, q) = DropPending(s, k)
  BY Zenon DEF Remove
<1> HIDE DEF s
<1>3. Exact(DropPending(s, k))
  BY <1>1, DropPendingSame, SameExact
<1> QED
  BY <1>1, <1>2, <1>3, EndLiveExact

\* The deadlines that an entry of agent a puts into the index.
OwnAnonymous(a, entry) == IF entry = None THEN {} ELSE {AnonymousDeadline(a, entry)}

\* Changing the entry of one agent changes its own deadline.
LEMMA AnonymousDeadlinesSet ==
  ASSUME NEW an \in [Agents -> AnonymousEntry \cup {None}], NEW a \in Agents,
         NEW e \in AnonymousEntry \cup {None}
  PROVE  AnonymousDeadlines([an EXCEPT ![a] = e])
            = (AnonymousDeadlines(an) \ OwnAnonymous(a, an[a])) \cup OwnAnonymous(a, e)
<1> DEFINE new == [an EXCEPT ![a] = e]
<1>1. new[a] = e /\ \A b \in Agents : b # a => new[b] = an[b]
  OBVIOUS
<1> HIDE DEF new
<1>2. ASSUME NEW d \in AnonymousDeadlines(new)
      PROVE  d \in (AnonymousDeadlines(an) \ OwnAnonymous(a, an[a])) \cup OwnAnonymous(a, e)
  <2>1. PICK b \in Agents : new[b] # None /\ d = AnonymousDeadline(b, new[b])
    BY DEF AnonymousDeadlines
  <2>2. CASE b = a
    BY <1>1, <2>1, <2>2 DEF OwnAnonymous
  <2>3. CASE b # a
    <3>1. d \in AnonymousDeadlines(an)
      BY <1>1, <2>1, <2>3 DEF AnonymousDeadlines
    <3>2. d \notin OwnAnonymous(a, an[a])
      BY <2>1, <2>3 DEF OwnAnonymous, AnonymousDeadline
    <3> QED BY <3>1, <3>2
  <2> QED BY <2>2, <2>3
<1>3. ASSUME NEW d \in AnonymousDeadlines(an), d \notin OwnAnonymous(a, an[a])
      PROVE  d \in AnonymousDeadlines(new)
  <2>1. PICK b \in Agents : an[b] # None /\ d = AnonymousDeadline(b, an[b])
    BY DEF AnonymousDeadlines
  <2>2. b # a
    BY <1>3, <2>1 DEF OwnAnonymous
  <2> QED BY <1>1, <2>1, <2>2 DEF AnonymousDeadlines
<1>4. ASSUME NEW d \in OwnAnonymous(a, e) PROVE d \in AnonymousDeadlines(new)
  BY <1>1 DEF OwnAnonymous, AnonymousDeadlines
<1> QED
  BY <1>2, <1>3, <1>4 DEF new

\* The registry stays exact when an agent, its deadline and the view change together.
LEMMA AnonymousSet ==
  ASSUME NEW r \in Registry, Exact(r), NEW a \in Agents, NEW e \in AnonymousEntry \cup {None},
         NEW s, s.live = r.live, s.working = r.working, s.view = r.view,
         s.anonymous = [r.anonymous EXCEPT ![a] = e],
         s.deadlines = (r.deadlines \ OwnAnonymous(a, r.anonymous[a])) \cup OwnAnonymous(a, e),
         s.anonymousView = IF e = None THEN r.anonymousView \ {a} ELSE r.anonymousView \cup {a}
  PROVE  Exact(s)
<1>1. r.anonymous \in [Agents -> AnonymousEntry \cup {None}]
  BY DEF Registry
<1> DEFINE A == AnonymousDeadlines(r.anonymous)
           L == SessionDeadlines(r.live)
<1>2. L \cap OwnAnonymous(a, r.anonymous[a]) = {}
  BY SessionNotAnonymous DEF SessionDeadlines, OwnAnonymous
<1>3. AnonymousDeadlines(s.anonymous)
        = (A \ OwnAnonymous(a, r.anonymous[a])) \cup OwnAnonymous(a, e)
  BY <1>1, AnonymousDeadlinesSet
<1>4. r.deadlines = L \cup A
  BY DEF Exact, IndexOK
<1> HIDE DEF A, L
<1>5. s.deadlines = L \cup AnonymousDeadlines(s.anonymous)
  BY <1>2, <1>3, <1>4
<1>6. IndexOK(s)
  BY <1>5 DEF IndexOK, Exact, L
<1>7. s.anonymous[a] = e /\ \A b \in Agents : b # a => s.anonymous[b] = r.anonymous[b]
  BY <1>1
<1>8. s.anonymousView = {b \in Agents : s.anonymous[b] # None}
  <2>1. r.anonymousView = {b \in Agents : r.anonymous[b] # None}
    BY DEF Exact, ViewOK
  <2> QED BY <1>7, <2>1
<1>9. ViewOK(s)
  BY <1>8 DEF ViewOK, Exact
<1> QED
  BY <1>6, <1>9 DEF Exact

\* Clearing an anonymous activity takes its deadline with it.
LEMMA ClearAnonymousExact ==
  ASSUME NEW r \in Registry, Exact(r), NEW a \in Agents, r.anonymous[a] # None
  PROVE  Exact(ClearAnonymous(r, a))
<1> DEFINE s == ClearAnonymous(r, a)
<1>1. /\ s.live = r.live /\ s.working = r.working /\ s.view = r.view
      /\ s.anonymous = [r.anonymous EXCEPT ![a] = None]
      /\ s.deadlines = r.deadlines \ {AnonymousDeadline(a, r.anonymous[a])}
      /\ s.anonymousView = r.anonymousView \ {a}
  BY DEF ClearAnonymous, Registry
<1> HIDE DEF s
<1>2. s.deadlines = (r.deadlines \ OwnAnonymous(a, r.anonymous[a])) \cup OwnAnonymous(a, None)
  BY <1>1 DEF OwnAnonymous
<1>3. Exact(s)
  BY <1>1, <1>2, AnonymousSet
<1> QED
  BY <1>3 DEF s

\* Covering an anonymous activity keeps the index exact.
LEMMA CoverExact ==
  ASSUME NEW r \in Registry, Exact(r), NEW a \in Agents, NEW through
  PROVE  Exact(Cover(r, a, through))
  BY ClearAnonymousExact DEF Cover

\* An anonymous touch replaces the deadline it extends.
LEMMA AnonymousTouchExact ==
  ASSUME NEW r \in Registry, Exact(r), NEW a \in Agents, NEW at \in Time,
         NEW generation \in Nat, NEW now
  PROVE  Exact(AnonymousTouch(r, a, at, generation, now))
<1> DEFINE entry == r.anonymous[a]
           new == [generation |-> generation, at |-> at]
           kept == [entry EXCEPT !.generation = generation]
           added == [r EXCEPT !.anonymous[a] = new,
                              !.deadlines = @ \cup {AnonymousDeadline(a, new)},
                              !.anonymousView = @ \cup {a}]
           same == [r EXCEPT !.anonymous[a] = kept]
           moved == [r EXCEPT !.anonymous[a] = new,
                              !.deadlines = (@ \ {AnonymousDeadline(a, entry)})
                                              \cup {AnonymousDeadline(a, new)}]
           s == AnonymousTouch(r, a, at, generation, now)
<1>1. \/ s = r
      \/ entry = None /\ s = added
      \/ entry # None /\ s = same
      \/ entry # None /\ s = moved
  BY Zenon DEF AnonymousTouch
<1>2. new \in AnonymousEntry /\ new # None
  BY NoneAssumption DEF AnonymousEntry
<1>3. entry # None => a \in r.anonymousView
  BY DEF Exact, ViewOK
<1>4. entry # None => /\ kept \in AnonymousEntry /\ kept.at = entry.at /\ kept # None
  <2>1. SUFFICES ASSUME entry # None
                 PROVE  kept \in AnonymousEntry /\ kept.at = entry.at /\ kept # None
    OBVIOUS
  <2>2. entry \in AnonymousEntry
    BY <2>1 DEF Registry
  <2>3. kept \in AnonymousEntry /\ kept.at = entry.at
    BY <2>2 DEF AnonymousEntry
  <2> QED BY <2>3, NoneAssumption
<1> HIDE DEF new, kept
<1>5. ASSUME entry = None PROVE Exact(added)
  <2>1. /\ added.live = r.live /\ added.working = r.working /\ added.view = r.view
        /\ added.anonymous = [r.anonymous EXCEPT ![a] = new]
        /\ added.deadlines = r.deadlines \cup {AnonymousDeadline(a, new)}
        /\ added.anonymousView = r.anonymousView \cup {a}
    BY DEF Registry
  <2> HIDE DEF added
  <2>2. added.deadlines = (r.deadlines \ OwnAnonymous(a, r.anonymous[a]))
                             \cup OwnAnonymous(a, new)
    BY <1>2, <1>5, <2>1 DEF OwnAnonymous
  <2> QED BY <1>2, <2>1, <2>2, AnonymousSet
<1>6. ASSUME entry # None PROVE Exact(same)
  <2>1. /\ same.live = r.live /\ same.working = r.working /\ same.view = r.view
        /\ same.anonymous = [r.anonymous EXCEPT ![a] = kept]
        /\ same.deadlines = r.deadlines
        /\ same.anonymousView = r.anonymousView
    BY DEF Registry
  <2> HIDE DEF same
  <2>2. AnonymousDeadline(a, kept) = AnonymousDeadline(a, entry)
    BY <1>4, <1>6 DEF AnonymousDeadline
  <2>3. AnonymousDeadline(a, entry) \in r.deadlines
    BY <1>6 DEF Exact, IndexOK, AnonymousDeadlines
  <2>4. same.deadlines = (r.deadlines \ OwnAnonymous(a, r.anonymous[a]))
                            \cup OwnAnonymous(a, kept)
    BY <1>4, <1>6, <2>1, <2>2, <2>3 DEF OwnAnonymous
  <2>5. same.anonymousView = r.anonymousView \cup {a}
    BY <1>3, <1>6, <2>1
  <2> QED BY <1>4, <1>6, <2>1, <2>4, <2>5, AnonymousSet
<1>7. ASSUME entry # None PROVE Exact(moved)
  <2>1. /\ moved.live = r.live /\ moved.working = r.working /\ moved.view = r.view
        /\ moved.anonymous = [r.anonymous EXCEPT ![a] = new]
        /\ moved.deadlines = (r.deadlines \ {AnonymousDeadline(a, entry)})
                                \cup {AnonymousDeadline(a, new)}
        /\ moved.anonymousView = r.anonymousView
    BY DEF Registry
  <2> HIDE DEF moved
  <2>2. moved.deadlines = (r.deadlines \ OwnAnonymous(a, r.anonymous[a]))
                             \cup OwnAnonymous(a, new)
    BY <1>2, <1>7, <2>1 DEF OwnAnonymous
  <2>3. moved.anonymousView = r.anonymousView \cup {a}
    BY <1>3, <1>7, <2>1
  <2> QED BY <1>2, <2>1, <2>2, <2>3, AnonymousSet
<1> HIDE DEF added, same, moved, s
<1>8. Exact(s)
  BY <1>1, <1>5, <1>6, <1>7
<1> QED
  BY <1>8 DEF s

----------------------------------------------------------------------------
\* A row of a page keeps the registry exact.
LEMMA ApplyPresentRowExact ==
  ASSUME NEW E, NEW R, History(E, R), NEW r, RegistryInv(r, E, R), Exact(r), NEW k \in Keys,
         NEW row, row.incarnation \in Incarnation, row.epoch \in Time,
         NEW q \in Revision, <<k, row.incarnation, q>> \in E, NEW now
  PROVE  Exact(ApplyPresentRow(r, k, row, q, now).reg)
<1> DEFINE held == r.pending[k]
           fact(at) == [incarnation |-> row.incarnation, at |-> at, revision |-> q]
           s == DropPending(r, k)
           t == ApplyPresentRow(r, k, row, q, now)
<1>1. \A at \in Time : TrueFact(E, k, fact(at))
  BY DEF TrueFact, Existence
<1>2. held # None => /\ <<k, held.incarnation, held.revision>> \in E
                     /\ held.incarnation \in Incarnation /\ held.revision \in Revision
                     /\ held.at \in Time /\ r.live[k] = None
  BY HeldFact DEF TrueFact, Existence
<1>3. r \in Registry /\ RegistryInv(s, E, R) /\ s.live = r.live /\ s \in Registry
  BY PendingInv DEF RegistryInv, DropPending, Registry
<1>4. Exact(s)
  BY <1>3, DropPendingSame, SameExact
<1> HIDE DEF s, fact
<1>5. CASE held = None
  <2>1. t = Observe(r, k, fact(row.epoch), now)
    BY <1>5, Zenon DEF ApplyPresentRow, fact
  <2> QED BY <1>1, <2>1, ObserveExact
<1>6. CASE held # None /\ held.incarnation = row.incarnation
  <2>1. t = Observe(s, k, fact(Max2(held.at, row.epoch)), now)
    BY <1>6, Zenon DEF ApplyPresentRow, fact, s
  <2>2. Max2(held.at, row.epoch) \in Time
    BY <1>2, <1>6 DEF Max2
  <2> QED BY <1>1, <1>3, <1>4, <2>1, <2>2, ObserveExact
<1>7. CASE held # None /\ held.incarnation < row.incarnation
  <2> DEFINE u == Remember(s, k, held.incarnation, q)
  <2>1. t = Observe(u, k, fact(row.epoch), now)
    <3>1. held.incarnation # row.incarnation
      BY <1>2, <1>7 DEF Incarnation
    <3> QED BY <1>7, <3>1, Zenon DEF ApplyPresentRow, fact, s
  <2>2. Gone(E, R, k, held.incarnation, q)
    BY <1>2, <1>7, GoneBelow
  <2>3. RegistryInv(u, E, R)
    BY <1>2, <1>3, <1>7, <2>2, RememberInv
  <2>4. Exact(u)
    BY <1>2, <1>3, <1>4, <1>7, RememberSame, SameExact
  <2> HIDE DEF u
  <2> QED BY <1>1, <2>1, <2>3, <2>4, ObserveExact
<1>8. CASE held # None /\ held.incarnation > row.incarnation
  <2> DEFINE u == Remember(r, k, row.incarnation, held.revision)
  <2>1. t = Touched(u, "stale")
    <3>1. held.incarnation # row.incarnation /\ ~(held.incarnation < row.incarnation)
      BY <1>2, <1>8 DEF Incarnation
    <3> QED BY <1>8, <3>1, Zenon DEF ApplyPresentRow
  <2>2. Exact(u)
    BY <1>2, <1>3, <1>8, RememberSame, SameExact
  <2> HIDE DEF u
  <2> QED BY <2>1, <2>2 DEF Touched
<1> QED
  BY <1>2, <1>5, <1>6, <1>7, <1>8 DEF Incarnation

\* Applying the absence of a row keeps the index and the view exact.
LEMMA ApplyAbsentRowExact ==
  ASSUME NEW r \in Registry, Exact(r), NEW k \in Keys, NEW q \in Revision
  PROVE  Exact(ApplyAbsentRow(r, k, q))
<1> DEFINE held == r.pending[k]
           entry == r.live[k]
           u == Remember(r, k, held.incarnation, q)
<1>1. \/ ApplyAbsentRow(r, k, q) = r
      \/ held # None /\ ApplyAbsentRow(r, k, q) = DropPending(u, k)
      \/ entry # None /\ ApplyAbsentRow(r, k, q) = Remove(r, k, entry.incarnation, q)
  BY Zenon DEF ApplyAbsentRow
<1>2. /\ held # None => held.incarnation \in Incarnation
      /\ entry # None => entry.incarnation \in Incarnation
  BY DEF Registry, Existence, LiveEntry
<1>3. ASSUME held # None PROVE Exact(DropPending(u, k))
  <2>1. u \in Registry /\ Exact(u)
    BY <1>2, <1>3, RememberSame, RememberFields, SameExact
  <2> HIDE DEF u
  <2> QED BY <2>1, DropPendingSame, SameExact
<1> HIDE DEF u
<1> QED
  BY <1>1, <1>2, <1>3, RemoveExact

\* Applying a row keeps the index and the view exact.
LEMMA ApplyRowExact ==
  ASSUME NEW E, NEW R, History(E, R), NEW r, RegistryInv(r, E, R), Exact(r), NEW k \in Keys,
         NEW rows, rows[k] \in Presence \cup {None}, NEW q \in Revision,
         rows[k] # None => <<k, rows[k].incarnation, q>> \in E, NEW now
  PROVE  Exact(ApplyRow(r, k, rows, q, now))
<1>1. CASE rows[k] = None
  <2>1. ApplyRow(r, k, rows, q, now) = ApplyAbsentRow(r, k, q)
    BY <1>1, Zenon DEF ApplyRow
  <2> QED BY <2>1, ApplyAbsentRowExact DEF RegistryInv
<1>2. CASE rows[k] # None
  <2> DEFINE x == rows[k]
  <2>1. x.incarnation \in Incarnation /\ x.epoch \in Time
    BY <1>2 DEF Presence
  <2>2. ApplyRow(r, k, rows, q, now) = ApplyPresentRow(r, k, x, q, now).reg
    BY <1>2, Zenon DEF ApplyRow
  <2>3. <<k, x.incarnation, q>> \in E
    BY <1>2
  <2> HIDE DEF x
  <2> QED BY <2>1, <2>2, <2>3, ApplyPresentRowExact
<1> QED
  BY <1>1, <1>2

----------------------------------------------------------------------------
\* The deletion memory and the admission guards.
SameMemory(r, s) ==
    /\ s.deleted = r.deleted /\ s.forgotten_through = r.forgotten_through
    /\ s.broad_through = r.broad_through

\* An operator that only chooses or holds pages.
Aside(r, s) == SameIndex(r, s) /\ SameMemory(r, s)

\* Steps that leave the sessions aside compose.
LEMMA AsideTransitive ==
  ASSUME NEW r, NEW s, NEW t, Aside(r, s), Aside(s, t)
  PROVE  Aside(r, t)
  BY DEF Aside, SameIndex, SameMemory

\* Doing nothing leaves the sessions aside.
LEMMA AsideSelf ==
  ASSUME NEW r
  PROVE  Aside(r, r)
  BY DEF Aside, SameIndex, SameMemory

\* The cell of a broad walk is no part of the index.
LEMMA BroadSame ==
  ASSUME NEW r \in Registry, NEW q
  PROVE  SameIndex(r, Broad(r, q))
  BY DEF Broad, Registry, SameIndex

\* The cell of a recovery is no part of the index or the memory.
LEMMA RecoveryAside ==
  ASSUME NEW r \in Registry, NEW w
  PROVE  Aside(r, [r EXCEPT !.recovery = w])
  BY DEF Registry, Aside, SameIndex, SameMemory

\* Holding a recovery page leaves the sessions aside.
LEMMA HoldRecoveryPageAside ==
  ASSUME NEW r \in Registry, NEW rows, NEW q
  PROVE  Aside(r, HoldRecoveryPage(r, rows, q))
<1> DEFINE p == [rows |-> rows, revision |-> q,
                 cursor |-> IF rows = <<>> THEN None
                            ELSE [epoch |-> rows[Len(rows)].epoch, key |-> rows[Len(rows)].key],
                 exhausted |-> Len(rows) < PageSize]
           w == [r.recovery EXCEPT !.page = p]
<1>1. HoldRecoveryPage(r, rows, q) = r \/ HoldRecoveryPage(r, rows, q) = [r EXCEPT !.recovery.page = p]
  BY Zenon DEF HoldRecoveryPage
<1> HIDE DEF p
<1>2. [r EXCEPT !.recovery.page = p] = [r EXCEPT !.recovery = w]
  OBVIOUS
<1> HIDE DEF w
<1> QED
  BY <1>1, <1>2, RecoveryAside, AsideSelf

\* Finishing a recovery page leaves the sessions aside.
LEMMA FinishRecoveryPageAside ==
  ASSUME NEW r \in Registry
  PROVE  Aside(r, FinishRecoveryPage(r))
<1> DEFINE w == [r.recovery EXCEPT !.cursor = r.recovery.page.cursor]
           x == [w EXCEPT !.page = None]
<1>1. \/ FinishRecoveryPage(r) = [r EXCEPT !.recovery = None]
      \/ FinishRecoveryPage(r)
            = [r EXCEPT !.recovery.cursor = r.recovery.page.cursor, !.recovery.page = None]
  BY Zenon DEF FinishRecoveryPage
<1>2. [r EXCEPT !.recovery.cursor = r.recovery.page.cursor, !.recovery.page = None]
        = [r EXCEPT !.recovery = x]
  BY DEF Registry
<1> HIDE DEF x
<1> QED
  BY <1>1, <1>2, RecoveryAside

\* Advancing a walk leaves the sessions aside.
LEMMA AdvanceWalkAside ==
  ASSUME NEW r \in Registry, NEW k
  PROVE  Aside(r, AdvanceWalk(r, k))
<1> DEFINE x == [r.run EXCEPT !.cursor = k]
<1>1. AdvanceWalk(r, k) = r \/ AdvanceWalk(r, k) = [r EXCEPT !.run = x]
  BY DEF AdvanceWalk
<1> HIDE DEF x
<1>2. Aside(r, [r EXCEPT !.run = x])
  BY DEF Registry, Aside, SameIndex, SameMemory
<1> QED
  BY <1>1, <1>2, AsideSelf

\* Opening a run leaves the sessions aside.
LEMMA OpenRunAside ==
  ASSUME NEW r \in Registry
  PROVE  Aside(r, OpenRun(r))
  BY DEF OpenRun, Registry, Aside, SameIndex, SameMemory

\* Choosing the next walk leaves the sessions aside.
LEMMA NextWalkAside ==
  ASSUME NEW E, NEW R, NEW r, RegistryInv(r, E, R)
  PROVE  Aside(r, NextWalk(r).reg)
<1> DEFINE first == IF r.run = None THEN OpenRun(r) ELSE r
           closed == [first EXCEPT !.run = None]
           again == OpenRun(closed)
           ended == [r EXCEPT !.run = None, !.needs = None]
           page(s) == [reg |-> s, request |-> Request("walk", FirstKeys(Walkable(s, s.run)))]
           none == [reg |-> ended, request |-> None]
           n == NextWalk(r)
<1>1. r \in Registry
  BY DEF RegistryInv
<1>2. Aside(r, ended)
  BY <1>1 DEF Registry, Aside, SameIndex, SameMemory
<1>3. ~(r.run = None /\ r.needs = None) => Aside(r, first) /\ RegistryInv(first, E, R)
  BY <1>1, OpenRunAside, OpenRunInv, AsideSelf
<1>4. ASSUME ~(r.run = None /\ r.needs = None)
      PROVE  Aside(r, again)
  <2>1. first \in Registry /\ Aside(r, first)
    BY <1>3, <1>4 DEF RegistryInv
  <2> HIDE DEF first
  <2>2. closed \in Registry /\ Aside(first, closed)
    BY <2>1 DEF Registry, Aside, SameIndex, SameMemory
  <2> HIDE DEF closed
  <2>3. Aside(closed, again)
    BY <2>2, OpenRunAside
  <2> HIDE DEF again
  <2> QED BY <2>1, <2>2, <2>3, AsideTransitive
<1>5. \/ n = [reg |-> r, request |-> None]
      \/ ~(r.run = None /\ r.needs = None) /\ n = page(first)
      \/ ~(r.run = None /\ r.needs = None) /\ n = page(again)
      \/ n = none
  BY Zenon DEF NextWalk
<1>6. none.reg = ended /\ page(first).reg = first /\ page(again).reg = again
  OBVIOUS
<1> HIDE DEF first, again, page, none, n, ended
<1>7. Aside(r, n.reg)
  BY <1>2, <1>3, <1>4, <1>5, <1>6, AsideSelf
<1> QED
  BY <1>7 DEF n

\* Choosing the next page of a class leaves the sessions aside.
LEMMA NextOfClassAside ==
  ASSUME NEW E, NEW R, NEW r, RegistryInv(r, E, R), NEW c \in PageClass
  PROVE  Aside(r, NextOfClass(r, c).reg)
<1>1. CASE c = "admission"
  <2> DEFINE q == IF Waiting(r) = {} THEN None ELSE Request(c, FirstKeys(Waiting(r)))
  <2>1. NextOfClass(r, c) = [reg |-> r, request |-> q]
    BY <1>1 DEF NextOfClass
  <2> HIDE DEF q
  <2> QED BY <2>1, AsideSelf
<1>2. CASE c = "walk"
  <2>1. NextOfClass(r, c) = NextWalk(r)
    BY <1>2 DEF NextOfClass
  <2> QED BY <2>1, NextWalkAside
<1>3. CASE c = "recovery"
  <2> DEFINE q == IF r.recovery # None /\ r.recovery.page = None
                  THEN Request(c, {}) ELSE None
  <2>1. NextOfClass(r, c) = [reg |-> r, request |-> q]
    BY <1>3 DEF NextOfClass
  <2> HIDE DEF q
  <2> QED BY <2>1, AsideSelf
<1> QED
  BY <1>1, <1>2, <1>3 DEF PageClass

\* Turning to the other class leaves the sessions aside.
LEMMA TurnAside ==
  ASSUME NEW n, NEW c, n.reg \in Registry
  PROVE  Aside(n.reg, Turn(n, c).reg)
<1> DEFINE r == n.reg
           x == Successor(c)
           s == [r EXCEPT !.turn = x]
<1>1. Turn(n, c) = [reg |-> s, request |-> n.request]
  BY Zenon DEF Turn
<1>2. r \in Registry
  OBVIOUS
<1> HIDE DEF r, x
<1>3. Aside(r, s)
  BY <1>2 DEF Registry, Aside, SameIndex, SameMemory
<1> HIDE DEF s
<1>4. Turn(n, c).reg = s
  BY <1>1
<1> QED
  BY <1>3, <1>4 DEF r

\* next_page_request() touches neither the live map nor the deletion memory.
LEMMA NextPageAside ==
  ASSUME NEW E, NEW R, NEW r, RegistryInv(r, E, R), NEW now
  PROVE  Aside(r, NextPage(r, now).reg)
<1> DEFINE s == PrunePending(r, now)
           c1 == s.turn
           c2 == Successor(c1)
           c3 == Successor(c2)
           n1 == NextOfClass(s, c1)
           n2 == NextOfClass(n1.reg, c2)
           n3 == NextOfClass(n2.reg, c3)
           n == NextPage(r, now)
<1>1. RegistryInv(s, E, R)
  BY PrunePendingInv
<1>2. Aside(r, s)
  BY DEF PrunePending, RegistryInv, Registry, Aside, SameIndex, SameMemory
<1>3. c1 \in PageClass /\ c2 \in PageClass /\ c3 \in PageClass
  <2>1. c1 \in PageClass
    BY <1>1 DEF RegistryInv, Registry
  <2> HIDE DEF c1
  <2>2. c2 \in PageClass
    BY <2>1 DEF Successor, PageClass
  <2> HIDE DEF c2
  <2>3. c3 \in PageClass
    BY <2>2 DEF Successor, PageClass
  <2> QED BY <2>1, <2>2, <2>3
<1> HIDE DEF s, c1, c2, c3
<1>4. RegistryInv(n1.reg, E, R) /\ Aside(r, n1.reg)
  BY <1>1, <1>2, <1>3, NextOfClassInv, NextOfClassAside, AsideTransitive DEF NextOK
<1> HIDE DEF n1
<1>5. RegistryInv(n2.reg, E, R) /\ Aside(r, n2.reg)
  BY <1>3, <1>4, NextOfClassInv, NextOfClassAside, AsideTransitive DEF NextOK
<1> HIDE DEF n2
<1>6. RegistryInv(n3.reg, E, R) /\ Aside(r, n3.reg)
  BY <1>3, <1>5, NextOfClassInv, NextOfClassAside, AsideTransitive DEF NextOK
<1>7. \/ n = [reg |-> s, request |-> None]
      \/ n = Turn(n1, c1) \/ n = Turn(n2, c2) \/ n = Turn(n3, c3) \/ n = n3
  BY Zenon DEF NextPage, s, c1, c2, c3, n1, n2
<1> HIDE DEF n3, n
<1>8. /\ Aside(r, Turn(n1, c1).reg) /\ Aside(r, Turn(n2, c2).reg) /\ Aside(r, Turn(n3, c3).reg)
  BY <1>4, <1>5, <1>6, TurnAside, AsideTransitive DEF RegistryInv
<1>9. Aside(r, n.reg)
  BY <1>2, <1>6, <1>7, <1>8
<1> QED
  BY <1>9 DEF n

\* One row of a held recovery page.
LEMMA RecoverRowAside ==
  ASSUME NEW r \in Registry, NEW now,
         ApplyPresentRow(r, Head(r.recovery.page.rows).key, Head(r.recovery.page.rows),
                         r.recovery.page.revision, now).reg \in Registry
  PROVE  Aside(ApplyPresentRow(r, Head(r.recovery.page.rows).key, Head(r.recovery.page.rows),
                               r.recovery.page.revision, now).reg,
               RecoverRow(r, now).reg)
<1> DEFINE held == r.recovery.page
           row == Head(held.rows)
           t == ApplyPresentRow(r, row.key, row, held.revision, now)
           w == [r.recovery EXCEPT !.page.rows = Tail(held.rows)]
           u == [t.reg EXCEPT !.recovery = w]
<1>1. RecoverRow(r, now).reg = t.reg \/ RecoverRow(r, now).reg = u
  <2>1. RecoverRow(r, now) = t \/ RecoverRow(r, now) = Touched(u, t.touch)
    BY Zenon DEF RecoverRow
  <2> HIDE DEF u, t
  <2> QED BY <2>1 DEF Touched
<1>2. t.reg \in Registry
  OBVIOUS
<1> HIDE DEF t, w
<1>3. Aside(t.reg, u)
  BY <1>2, RecoveryAside
<1>4. Aside(t.reg, RecoverRow(r, now).reg)
  BY <1>1, <1>3, AsideSelf
<1> QED
  BY <1>4 DEF t

----------------------------------------------------------------------------
\* One deadline of expire(): the index, the count and the view follow the entry.
LEMMA ExpireSessionExact ==
  ASSUME NEW r \in Registry, Exact(r), NEW d, NEW k \in Keys, d[2][2] = k,
         r.live[k] # None, d = SessionDeadline(k, r.live[k]), NEW now
  PROVE  Exact(ExpireSession(r, d, now))
<1> DEFINE entry == r.live[k]
           quiet == [entry EXCEPT !.quiet_published = TRUE]
           toQuiet == (r.deadlines \ {d}) \cup {SessionDeadline(k, quiet)}
           again == (r.deadlines \ {d}) \cup {SessionDeadline(k, entry)}
           s == [r EXCEPT !.live[k] = quiet, !.deadlines = toQuiet, !.working = @ - 1,
                          !.view[k] = "quiet"]
<1>1. \/ ExpireSession(r, d, now) = EndLive(r, k)
      \/ ~entry.quiet_published /\ ExpireSession(r, d, now) = s
      \/ ExpireSession(r, d, now) = [r EXCEPT !.deadlines = again]
  BY Zenon DEF ExpireSession
<1>2. entry \in LiveEntry
  BY DEF Registry
<1>3. quiet \in LiveEntry /\ quiet.quiet_published = TRUE /\ quiet # None
  <2>1. quiet \in LiveEntry /\ quiet.quiet_published = TRUE
    BY <1>2 DEF LiveEntry
  <2> QED BY <2>1, NoneAssumption
<1> HIDE DEF quiet
<1>4. ASSUME ~entry.quiet_published PROVE Exact(s)
  <2> DEFINE w == r.working - 1
  <2> HIDE DEF toQuiet, w
  <2>1. s = [r EXCEPT !.live[k] = quiet, !.deadlines = toQuiet, !.working = w,
                      !.view[k] = "quiet"]
    BY DEF w
  <2> HIDE DEF s
  <2>2. /\ s.live = [r.live EXCEPT ![k] = quiet] /\ s.deadlines = toQuiet /\ s.working = w
        /\ s.view = [r.view EXCEPT ![k] = "quiet"] /\ s.anonymous = r.anonymous
        /\ s.anonymousView = r.anonymousView
    BY <2>1 DEF Registry
  <2>3. /\ r.live \in [Keys -> LiveEntry \cup {None}] /\ r.working \in Int
        /\ r.view \in [Keys -> {"absent", "working", "quiet"}]
    BY DEF Registry
  <2>4. s.working = r.working + Weight(quiet) - Weight(r.live[k])
    BY <1>3, <1>4, <2>2, <2>3 DEF Weight, w
  <2>5. s.deadlines = (r.deadlines \ Own(k, r.live[k])) \cup Own(k, quiet)
    BY <1>3, <2>2 DEF Own, toQuiet
  <2>6. IndexOK(s)
    BY <1>3, <2>2, <2>4, <2>5, IndexSet DEF Exact
  <2>7. /\ s.live[k] = quiet /\ s.view[k] = "quiet"
        /\ \A j \in Keys : j # k => s.live[j] = r.live[j] /\ s.view[j] = r.view[j]
    BY <2>2, <2>3
  <2>8. Shown(quiet) = "quiet"
    BY <1>3 DEF Shown
  <2>9. \A j \in Keys : s.view[j] = Shown(s.live[j])
    BY <2>7, <2>8 DEF Exact, ViewOK
  <2> QED BY <2>2, <2>6, <2>9 DEF Exact, ViewOK
<1>5. Exact([r EXCEPT !.deadlines = again])
  <2>1. d \in r.deadlines
    BY DEF Exact, IndexOK, SessionDeadlines
  <2>2. again = r.deadlines
    BY <2>1
  <2> HIDE DEF again
  <2>3. [r EXCEPT !.deadlines = again] = r
    BY <2>2 DEF Registry
  <2> QED BY <2>3
<1> HIDE DEF entry, again, s
<1> QED
  BY <1>1, <1>4, <1>5, EndLiveExact

\* Expiring an anonymous activity takes its deadline with it.
LEMMA ExpireAnonymousExact ==
  ASSUME NEW r \in Registry, Exact(r), NEW d, NEW a \in Agents, d[2][2] = a,
         r.anonymous[a] # None, d = AnonymousDeadline(a, r.anonymous[a]), NEW now
  PROVE  Exact(ExpireAnonymous(r, d, now))
<1> DEFINE again == (r.deadlines \ {d}) \cup {AnonymousDeadline(a, r.anonymous[a])}
<1>1. \/ ExpireAnonymous(r, d, now) = ClearAnonymous(r, a)
      \/ ExpireAnonymous(r, d, now) = [r EXCEPT !.deadlines = again]
  BY Zenon DEF ExpireAnonymous
<1>2. Exact([r EXCEPT !.deadlines = again])
  <2>1. d \in r.deadlines
    BY DEF Exact, IndexOK, AnonymousDeadlines
  <2>2. again = r.deadlines
    BY <2>1
  <2> HIDE DEF again
  <2>3. [r EXCEPT !.deadlines = again] = r
    BY <2>2 DEF Registry
  <2> QED BY <2>3
<1> HIDE DEF again
<1> QED
  BY <1>1, <1>2, ClearAnonymousExact

\* Expiring one deadline keeps the index and the view exact.
LEMMA ExpireOneExact ==
  ASSUME NEW r \in Registry, Exact(r), NEW d \in r.deadlines, NEW now
  PROVE  Exact(ExpireOne(r, d, now))
<1>1. d \in SessionDeadlines(r.live) \/ d \in AnonymousDeadlines(r.anonymous)
  BY DEF Exact, IndexOK
<1>2. CASE d \in SessionDeadlines(r.live)
  <2>1. PICK k \in Keys : r.live[k] # None /\ d = SessionDeadline(k, r.live[k])
    BY <1>2 DEF SessionDeadlines
  <2>2. d[2][1] = "session" /\ d[2][2] = k
    BY <2>1 DEF SessionDeadline
  <2>3. ExpireOne(r, d, now) = ExpireSession(r, d, now)
    BY <2>2, Zenon DEF ExpireOne
  <2> QED BY <2>1, <2>2, <2>3, ExpireSessionExact
<1>3. CASE d \in AnonymousDeadlines(r.anonymous)
  <2>1. PICK a \in Agents : r.anonymous[a] # None /\ d = AnonymousDeadline(a, r.anonymous[a])
    BY <1>3 DEF AnonymousDeadlines
  <2>2. d[2][1] # "session" /\ d[2][2] = a
    BY <2>1 DEF AnonymousDeadline
  <2>3. ExpireOne(r, d, now) = ExpireAnonymous(r, d, now)
    BY <2>2, Zenon DEF ExpireOne
  <2> QED BY <2>1, <2>2, <2>3, ExpireAnonymousExact
<1> QED
  BY <1>1, <1>2, <1>3

----------------------------------------------------------------------------
\* From r to s the admission guards do not move back, and a remembered deletion
\* grows or is evicted into forgotten_through.
KeyGrows(r, s, k) ==
    r.deleted[k] # None =>
        IF s.deleted[k] = None
        THEN s.forgotten_through >= r.deleted[k].absent_at
        ELSE /\ s.deleted[k].incarnation >= r.deleted[k].incarnation
             /\ s.deleted[k].absent_at >= r.deleted[k].absent_at

Grows(r, s) ==
    /\ s.forgotten_through >= r.forgotten_through
    /\ s.broad_through >= r.broad_through
    /\ \A k \in Keys : KeyGrows(r, s, k)

\* What leaves the memory alone may precede and follow a step that grows it.
LEMMA GrowsFrame ==
  ASSUME NEW r, NEW u, NEW s, NEW z, SameMemory(r, u), Grows(u, s), SameMemory(s, z)
  PROVE  Grows(r, z)
  BY DEF SameMemory, Grows, KeyGrows

\* Doing nothing leaves the deletion memory alone.
LEMMA SameMemorySelf ==
  ASSUME NEW r
  PROVE  SameMemory(r, r)
  BY DEF SameMemory

\* Leaving the deletion memory alone composes.
LEMMA SameMemoryTransitive ==
  ASSUME NEW r, NEW s, NEW t, SameMemory(r, s), SameMemory(s, t)
  PROVE  SameMemory(r, t)
  BY DEF SameMemory

\* An operator that leaves the memory alone.
LEMMA SameGrows ==
  ASSUME NEW r \in Registry, NEW s, SameMemory(r, s)
  PROVE  Grows(r, s)
<1>1. /\ r.forgotten_through \in Nat /\ r.broad_through \in Nat
      /\ \A k \in Keys : r.deleted[k] # None =>
            r.deleted[k].incarnation \in Nat /\ r.deleted[k].absent_at \in Nat
  BY DEF Registry, Deletion, Revision, Incarnation
<1> QED
  BY <1>1 DEF SameMemory, Grows, KeyGrows

\* remember(): the memory of the key grows; a full memory forgets its oldest
\* deletion into forgotten_through.
LEMMA RememberGrows ==
  ASSUME NEW r \in Registry, NEW k \in Keys, NEW i \in Incarnation, NEW q \in Revision
  PROVE  Grows(r, Remember(r, k, i, q))
<1> DEFINE old == r.deleted[k]
           new == IF old = None
                  THEN [incarnation |-> i, absent_at |-> q]
                  ELSE [incarnation |-> Max2(old.incarnation, i),
                        absent_at |-> Max2(old.absent_at, q)]
           g == Max2(r.gone[k], i)
           t == [r EXCEPT !.deleted[k] = new, !.gone[k] = g]
<1>1. \/ Remember(r, k, i, q) = t
      \/ old = None /\ Remember(r, k, i, q) = Evict(t)
  BY Zenon DEF Remember
<1>2. new \in Deletion /\ new # None
  <2>1. new \in Deletion
    BY DEF Registry, Deletion, Revision, Incarnation, Max2
  <2> QED BY <2>1, NoneAssumption
<1>3. old # None => new.incarnation >= old.incarnation /\ new.absent_at >= old.absent_at
  BY DEF Registry, Deletion, Revision, Incarnation, Max2
<1>4. g \in Incarnation \cup {-1}
  BY DEF Registry, Max2, Incarnation
<1> HIDE DEF new, g
<1>5. t \in Registry
  BY <1>2, <1>4 DEF Registry
<1>6. /\ t.forgotten_through = r.forgotten_through /\ t.broad_through = r.broad_through
      /\ t.deleted[k] = new /\ \A j \in Keys : j # k => t.deleted[j] = r.deleted[j]
  BY DEF Registry
<1> HIDE DEF t
<1>7. /\ r.forgotten_through \in Nat /\ r.broad_through \in Nat
      /\ \A j \in Keys : r.deleted[j] # None =>
            r.deleted[j].incarnation \in Nat /\ r.deleted[j].absent_at \in Nat
  BY DEF Registry, Deletion, Revision, Incarnation
<1>8. Grows(r, t)
  BY <1>2, <1>3, <1>6, <1>7 DEF Grows, KeyGrows
<1>9. ASSUME old = None PROVE Grows(r, Evict(t))
  <2> DEFINE o == Oldest(t.deleted)
             f == Max2(t.forgotten_through, t.deleted[o].absent_at)
             e == Evict(t)
  <2>1. o \in Keys /\ t.deleted[o] # None
    <3>1. k \in Remembered(t.deleted)
      BY <1>2, <1>6 DEF Remembered
    <3> QED BY <1>5, <3>1, OldestRemembered DEF Remembered
  <2> HIDE DEF o
  <2>2. e = [t EXCEPT !.deleted[o] = None, !.forgotten_through = f]
    BY DEF Evict, o
  <2>3. t.deleted[o].absent_at \in Nat /\ t.forgotten_through \in Nat
    BY <1>5, <2>1 DEF Registry, Deletion, Revision
  <2>4. f >= t.forgotten_through /\ f >= t.deleted[o].absent_at /\ f \in Nat
    BY <2>3 DEF Max2
  <2> HIDE DEF f, e
  <2>5. /\ e.forgotten_through = f /\ e.broad_through = t.broad_through
        /\ e.deleted[o] = None /\ \A j \in Keys : j # o => e.deleted[j] = t.deleted[j]
    BY <1>5, <2>1, <2>2 DEF Registry
  <2>6. ASSUME NEW j \in Keys PROVE KeyGrows(r, e, j)
    <3>1. CASE r.deleted[j] = None
      BY <3>1 DEF KeyGrows
    <3>2. CASE r.deleted[j] # None
      <4>1. j # k /\ t.deleted[j] = r.deleted[j]
        BY <1>6, <1>9, <3>2
      <4> QED BY <1>7, <2>4, <2>5, <3>2, <4>1 DEF KeyGrows
    <3> QED BY <3>1, <3>2
  <2>7. Grows(r, e)
    BY <1>6, <1>7, <2>4, <2>5, <2>6 DEF Grows
  <2> QED BY <2>7 DEF e
<1> QED
  BY <1>1, <1>8, <1>9

\* The live map and the waiting evidence are apart from the memory.
LEMMA DropPendingMemory ==
  ASSUME NEW r \in Registry, NEW k
  PROVE  SameMemory(r, DropPending(r, k))
  BY DEF Registry, DropPending, SameMemory

\* Inserting a live entry leaves the deletion memory alone.
LEMMA InsertLiveMemory ==
  ASSUME NEW r \in Registry, NEW k, NEW entry
  PROVE  SameMemory(r, InsertLive(r, k, entry))
  BY DEF Registry, InsertLive, SameMemory

\* Publishing to the clients leaves the deletion memory alone.
LEMMA ViewMemory ==
  ASSUME NEW r \in Registry, NEW k, NEW v
  PROVE  SameMemory(r, [r EXCEPT !.view[k] = v])
  BY DEF Registry, SameMemory

\* Ending a live entry leaves the deletion memory alone.
LEMMA EndLiveMemory ==
  ASSUME NEW r \in Registry, NEW k \in Keys
  PROVE  SameMemory(r, EndLive(r, k))
<1> DEFINE t == RemoveLive(r, k)
           w == r.working - Weight(r.live[k])
           d == r.deadlines \ {SessionDeadline(k, r.live[k])}
           u == [r EXCEPT !.live[k] = None, !.deadlines = d, !.working = w]
<1>1. t = r \/ t = u
  BY DEF RemoveLive
<1>2. EndLive(r, k) = [t EXCEPT !.view[k] = "absent"]
  BY DEF EndLive
<1> HIDE DEF w, d
<1>3. /\ u.deleted = r.deleted /\ u.forgotten_through = r.forgotten_through
      /\ u.broad_through = r.broad_through /\ DOMAIN u = DOMAIN r
  BY DEF Registry
<1> HIDE DEF t, u
<1>4. /\ t.deleted = r.deleted /\ t.forgotten_through = r.forgotten_through
      /\ t.broad_through = r.broad_through /\ DOMAIN t = DOMAIN r
  BY <1>1, <1>3
<1>5. /\ "deleted" \in DOMAIN r /\ "forgotten_through" \in DOMAIN r
      /\ "broad_through" \in DOMAIN r
  BY DEF Registry
<1>6. /\ EndLive(r, k).deleted = t.deleted
      /\ EndLive(r, k).forgotten_through = t.forgotten_through
      /\ EndLive(r, k).broad_through = t.broad_through
  BY <1>2, <1>4, <1>5
<1> QED
  BY <1>4, <1>6 DEF SameMemory

\* Deferring an observation leaves the deletion memory alone.
LEMMA DeferMemory ==
  ASSUME NEW r \in Registry, NEW k \in Keys, NEW fact
  PROVE  SameMemory(r, Defer(r, k, fact).reg)
<1> DEFINE held == r.pending[k]
           merged == [fact EXCEPT !.at = Max2(held.at, fact.at),
                                  !.revision = Max2(held.revision, fact.revision)]
<1>1. \/ Defer(r, k, fact) = Touched(r, "blocked")
      \/ Defer(r, k, fact) = Touched(r, "deferred")
      \/ Defer(r, k, fact) = Touched([r EXCEPT !.pending[k] = fact], "deferred")
      \/ Defer(r, k, fact) = Touched([r EXCEPT !.pending[k] = merged], "deferred")
  BY Zenon DEF Defer
<1> HIDE DEF merged
<1>2. ASSUME NEW v PROVE SameMemory(r, [r EXCEPT !.pending[k] = v])
  BY DEF Registry, SameMemory
<1> QED
  BY <1>1, <1>2, SameMemorySelf DEF Touched

\* A refresh leaves the deletion memory alone.
LEMMA RefreshMemory ==
  ASSUME NEW r \in Registry, NEW k, NEW fact
  PROVE  SameMemory(r, Refresh(r, k, fact).reg)
<1> DEFINE entry == r.live[k]
           seen == [entry EXCEPT !.exists_at = Max2(@, fact.revision)]
           active == [seen EXCEPT !.last_activity_at = fact.at, !.quiet_published = FALSE]
           d == (r.deadlines \ {SessionDeadline(k, entry)}) \cup {SessionDeadline(k, active)}
           w == r.working + 1 - Weight(entry)
           s == [r EXCEPT !.live[k] = seen]
           t == [r EXCEPT !.live[k] = active, !.deadlines = d, !.working = w]
<1>1. Refresh(r, k, fact) = Touched(s, "unchanged") \/ Refresh(r, k, fact) = Touched(t, "advanced")
  BY Zenon DEF Refresh
<1> HIDE DEF seen, active, d, w
<1>2. SameMemory(r, s) /\ SameMemory(r, t)
  BY DEF Registry, SameMemory
<1> HIDE DEF s, t
<1> QED
  BY <1>1, <1>2 DEF Touched

\* Admission remembers at most one absence; none when nothing waits.
LEMMA AdmitMemory ==
  ASSUME NEW r \in Registry, NEW k \in Keys, NEW fact \in Existence
  PROVE  /\ Grows(r, Admit(r, k, fact).reg)
         /\ r.pending[k] = None => SameMemory(r, Admit(r, k, fact).reg)
<1> DEFINE held == r.pending[k]
           merged == [fact EXCEPT !.at = Max2(@, held.at),
                                  !.revision = Max2(@, held.revision)]
           cleared == DropPending(r, k)
           s == Remember(r, k, fact.incarnation, held.revision)
           t == Remember(cleared, k, held.incarnation, fact.revision)
<1>1. \/ Admit(r, k, fact) = Touched(InsertLive(r, k, NewEntry(fact)), "added")
      \/ held # None /\ Admit(r, k, fact) = Touched(s, "stale")
      \/ held # None /\ Admit(r, k, fact) = Touched(InsertLive(cleared, k, NewEntry(merged)), "added")
      \/ held # None /\ Admit(r, k, fact) = Touched(InsertLive(t, k, NewEntry(fact)), "added")
  BY Zenon DEF Admit
<1>2. /\ fact.incarnation \in Incarnation /\ fact.revision \in Revision
      /\ held # None => held.incarnation \in Incarnation /\ held.revision \in Revision
  BY DEF Existence, Registry
<1>3. cleared \in Registry /\ SameMemory(r, cleared)
  BY DropPendingSame, DropPendingMemory
<1> HIDE DEF cleared, merged
<1>4. SameMemory(r, InsertLive(r, k, NewEntry(fact)))
  BY InsertLiveMemory
<1>5. SameMemory(r, InsertLive(cleared, k, NewEntry(merged)))
  BY <1>3, InsertLiveMemory, SameMemoryTransitive
<1>6. held # None => Grows(r, s)
  BY <1>2, RememberGrows
<1>7. held # None => Grows(r, InsertLive(t, k, NewEntry(fact)))
  <2> SUFFICES ASSUME held # None PROVE Grows(r, InsertLive(t, k, NewEntry(fact)))
    OBVIOUS
  <2>1. t \in Registry /\ Grows(cleared, t)
    BY <1>2, <1>3, RememberGrows, RememberFields
  <2> HIDE DEF t
  <2>2. SameMemory(t, InsertLive(t, k, NewEntry(fact)))
    BY <2>1, InsertLiveMemory
  <2> QED BY <1>3, <2>1, <2>2, GrowsFrame
<1> HIDE DEF s, t, held
<1>8. \A x, y : Touched(x, y).reg = x
  BY DEF Touched
<1>9. held = None => SameMemory(r, Admit(r, k, fact).reg)
  BY <1>1, <1>4, <1>8
<1>10. Grows(r, Admit(r, k, fact).reg)
  BY <1>1, <1>4, <1>5, <1>6, <1>7, <1>8, SameGrows
<1> QED
  BY <1>9, <1>10 DEF held

\* A guarded transition leaves the deletion memory alone.
LEMMA GuardedMemory ==
  ASSUME NEW r \in Registry, NEW k \in Keys, NEW fact \in Existence
  PROVE  /\ Grows(r, Guarded(r, k, fact).reg)
         /\ r.pending[k] = None => SameMemory(r, Guarded(r, k, fact).reg)
<1>1. \/ Guarded(r, k, fact) = Touched(r, "stale")
      \/ Guarded(r, k, fact) = Defer(r, k, fact)
      \/ Guarded(r, k, fact) = Admit(r, k, fact)
  BY Zenon DEF Guarded
<1>2. SameMemory(r, Touched(r, "stale").reg)
  BY SameMemorySelf DEF Touched
<1> QED
  BY <1>1, <1>2, DeferMemory, AdmitMemory, SameGrows

\* establish() remembers at most one absence: a live session has nothing
\* waiting, so that its replacement settles nothing else.
LEMMA EstablishMemory ==
  ASSUME NEW r \in Registry, NEW k \in Keys, NEW fact \in Existence, NEW now,
         r.live[k] = None \/ r.pending[k] = None
  PROVE  /\ Grows(r, Establish(r, k, fact, now).reg)
         /\ r.live[k] = None /\ r.pending[k] = None =>
               SameMemory(r, Establish(r, k, fact, now).reg)
<1> DEFINE entry == r.live[k]
           ended == EndLive(r, k)
           replaced == Remember(ended, k, entry.incarnation, fact.revision)
<1>1. \/ Establish(r, k, fact, now) = Touched(r, "stale")
      \/ entry = None /\ Establish(r, k, fact, now) = Guarded(r, k, fact)
      \/ entry # None /\ Establish(r, k, fact, now) = Refresh(r, k, fact)
      \/ entry # None /\ Establish(r, k, fact, now) = Guarded(replaced, k, fact)
  BY Zenon DEF Establish
<1>2. SameMemory(r, Touched(r, "stale").reg)
  BY SameMemorySelf DEF Touched
<1>3. ASSUME entry # None PROVE Grows(r, Guarded(replaced, k, fact).reg)
  <2>1. entry.incarnation \in Incarnation /\ fact.revision \in Revision
    BY <1>3 DEF Registry, LiveEntry, Existence
  <2>2. ended \in Registry /\ ended.pending = r.pending /\ SameMemory(r, ended)
    BY EndLiveFields, EndLiveMemory
  <2> HIDE DEF ended
  <2>3. /\ replaced \in Registry /\ replaced.pending = ended.pending
        /\ Grows(ended, replaced)
    BY <2>1, <2>2, RememberFields, RememberGrows
  <2> HIDE DEF replaced
  <2>4. replaced.pending[k] = None
    BY <1>3, <2>2, <2>3
  <2>5. SameMemory(replaced, Guarded(replaced, k, fact).reg)
    BY <2>3, <2>4, GuardedMemory
  <2> QED BY <2>2, <2>3, <2>5, GrowsFrame
<1> HIDE DEF replaced
<1> QED
  BY <1>1, <1>2, <1>3, GuardedMemory, RefreshMemory, SameGrows

\* observe only strengthens the deletion memory.
LEMMA ObserveMemory ==
  ASSUME NEW E, NEW R, History(E, R), NEW r, RegistryInv(r, E, R), NEW k \in Keys,
         NEW fact, TrueFact(E, k, fact), NEW now
  PROVE  /\ Grows(r, Observe(r, k, fact, now).reg)
         /\ r.live[k] = None /\ r.pending[k] = None =>
               SameMemory(r, Observe(r, k, fact, now).reg)
<1> DEFINE t == Establish(r, k, fact, now)
<1>1. t.reg \in Registry
  BY EstablishInv DEF RegistryInv
<1>2. /\ Grows(r, t.reg)
      /\ r.live[k] = None /\ r.pending[k] = None => SameMemory(r, t.reg)
  <2>1. r \in Registry /\ fact \in Existence /\ (r.live[k] = None \/ r.pending[k] = None)
    BY DEF RegistryInv, KeyInv, TrueFact
  <2> QED BY <2>1, EstablishMemory
<1> HIDE DEF t
<1> DEFINE u == t.reg
           s == [u EXCEPT !.view[k] = "working"]
<1>3. Observe(r, k, fact, now).reg = u \/ Observe(r, k, fact, now).reg = s
  <2>1. Observe(r, k, fact, now) = t \/ Observe(r, k, fact, now) = Touched(s, t.touch)
    BY Zenon DEF Observe, Narrate, t
  <2> HIDE DEF s
  <2> QED BY <2>1 DEF Touched
<1>4. SameMemory(u, Observe(r, k, fact, now).reg)
  <2>1. SameMemory(u, s)
    <3> HIDE DEF u
    <3> QED BY <1>1, ViewMemory DEF u
  <2> HIDE DEF s, u
  <2> QED BY <1>3, <2>1, SameMemorySelf
<1> HIDE DEF u
<1>5. Grows(r, Observe(r, k, fact, now).reg)
  BY <1>2, <1>4, SameMemorySelf, GrowsFrame DEF u
<1> QED
  BY <1>2, <1>4, <1>5, SameMemoryTransitive DEF u

\* A removal only strengthens the deletion memory.
LEMMA RemoveMemory ==
  ASSUME NEW r \in Registry, NEW k \in Keys, NEW i \in Incarnation, NEW q \in Revision
  PROVE  Grows(r, Remove(r, k, i, q))
<1> DEFINE s == Remember(r, k, i, q)
<1>1. s \in Registry /\ Grows(r, s)
  BY RememberFields, RememberGrows
<1>2. \/ Remove(r, k, i, q) = s \/ Remove(r, k, i, q) = EndLive(s, k)
      \/ Remove(r, k, i, q) = DropPending(s, k)
  BY Zenon DEF Remove
<1> HIDE DEF s
<1>3. SameMemory(s, Remove(r, k, i, q))
  BY <1>1, <1>2, EndLiveMemory, DropPendingMemory, SameMemorySelf
<1> QED
  BY <1>1, <1>3, SameMemorySelf, GrowsFrame

\* broad() raises its guard.
LEMMA BroadMemory ==
  ASSUME NEW r \in Registry, NEW q \in Revision
  PROVE  Grows(r, Broad(r, q))
<1> DEFINE b == Max2(r.broad_through, q)
           n == Require(r.needs, q)
           s == Broad(r, q)
<1>1. s = [r EXCEPT !.broad_through = b, !.needs = n]
  BY DEF Broad
<1>2. b >= r.broad_through
  BY DEF Registry, Revision, Max2
<1> HIDE DEF b, n, s
<1>3. /\ s.deleted = r.deleted /\ s.forgotten_through = r.forgotten_through
      /\ s.broad_through = b
  BY <1>1 DEF Registry
<1>4. Grows(r, r)
  BY SameGrows, SameMemorySelf
<1>5. Grows(r, s)
  BY <1>2, <1>3, <1>4 DEF Grows, KeyGrows
<1> QED
  BY <1>5 DEF s

\* Clearing an anonymous activity leaves the deletion memory alone.
LEMMA ClearAnonymousMemory ==
  ASSUME NEW r \in Registry, NEW a
  PROVE  SameMemory(r, ClearAnonymous(r, a))
  BY DEF ClearAnonymous, Registry, SameMemory

\* Covering an anonymous activity leaves the deletion memory alone.
LEMMA CoverMemory ==
  ASSUME NEW r \in Registry, NEW a, NEW through
  PROVE  SameMemory(r, Cover(r, a, through))
  BY ClearAnonymousMemory, SameMemorySelf DEF Cover

\* An anonymous touch leaves the deletion memory alone.
LEMMA AnonymousTouchMemory ==
  ASSUME NEW r \in Registry, NEW a, NEW at, NEW generation, NEW now
  PROVE  SameMemory(r, AnonymousTouch(r, a, at, generation, now))
<1> DEFINE entry == r.anonymous[a]
           new == [generation |-> generation, at |-> at]
           kept == [entry EXCEPT !.generation = generation]
           added == [r EXCEPT !.anonymous[a] = new,
                              !.deadlines = @ \cup {AnonymousDeadline(a, new)},
                              !.anonymousView = @ \cup {a}]
           same == [r EXCEPT !.anonymous[a] = kept]
           moved == [r EXCEPT !.anonymous[a] = new,
                              !.deadlines = (@ \ {AnonymousDeadline(a, entry)})
                                              \cup {AnonymousDeadline(a, new)}]
           s == AnonymousTouch(r, a, at, generation, now)
<1>1. s = r \/ s = added \/ s = same \/ s = moved
  BY Zenon DEF AnonymousTouch
<1> HIDE DEF new, kept, s
<1>2. SameMemory(r, added) /\ SameMemory(r, same) /\ SameMemory(r, moved)
  BY DEF Registry, SameMemory
<1> HIDE DEF added, same, moved
<1>3. SameMemory(r, s)
  BY <1>1, <1>2, SameMemorySelf
<1> QED
  BY <1>3 DEF s

\* Expiring one deadline leaves the deletion memory alone.
LEMMA ExpireOneMemory ==
  ASSUME NEW r \in Registry, NEW d \in r.deadlines, NEW now
  PROVE  SameMemory(r, ExpireOne(r, d, now))
<1>1. d[2] \in DeadlineKey
  BY DEF Registry
<1>2. CASE d[2][1] = "session"
  <2> DEFINE k == d[2][2]
             entry == r.live[k]
             quiet == [entry EXCEPT !.quiet_published = TRUE]
             minus == r.deadlines \ {d}
             s == [r EXCEPT !.live[k] = quiet,
                            !.deadlines = (@ \ {d}) \cup {SessionDeadline(k, quiet)},
                            !.working = @ - 1, !.view[k] = "quiet"]
             t == [r EXCEPT !.deadlines = (@ \ {d}) \cup {SessionDeadline(k, entry)}]
             u == [r EXCEPT !.deadlines = @ \ {d}]
  <2>1. k \in Keys
    BY <1>1, <1>2 DEF DeadlineKey
  <2>2. ExpireOne(r, d, now) = ExpireSession(r, d, now)
    BY <1>2, Zenon DEF ExpireOne
  <2>3. \/ ExpireSession(r, d, now) = u \/ ExpireSession(r, d, now) = EndLive(r, k)
        \/ ExpireSession(r, d, now) = s \/ ExpireSession(r, d, now) = t
    BY Zenon DEF ExpireSession
  <2> HIDE DEF quiet, entry, k
  <2>4. SameMemory(r, u) /\ SameMemory(r, s) /\ SameMemory(r, t)
    BY DEF Registry, SameMemory
  <2> HIDE DEF u, s, t
  <2> QED BY <2>1, <2>2, <2>3, <2>4, EndLiveMemory
<1>3. CASE d[2][1] # "session"
  <2> DEFINE a == d[2][2]
             t == [r EXCEPT !.deadlines = (@ \ {d}) \cup {AnonymousDeadline(a, r.anonymous[a])}]
             u == [r EXCEPT !.deadlines = @ \ {d}]
  <2>1. ExpireOne(r, d, now) = ExpireAnonymous(r, d, now)
    BY <1>3, Zenon DEF ExpireOne
  <2>2. \/ ExpireAnonymous(r, d, now) = u \/ ExpireAnonymous(r, d, now) = ClearAnonymous(r, a)
        \/ ExpireAnonymous(r, d, now) = t
    BY Zenon DEF ExpireAnonymous
  <2> HIDE DEF a
  <2>3. SameMemory(r, u) /\ SameMemory(r, t)
    BY DEF Registry, SameMemory
  <2> HIDE DEF u, t
  <2> QED BY <2>1, <2>2, <2>3, ClearAnonymousMemory
<1> QED
  BY <1>2, <1>3

\* A row of a page remembers at most one absence: the one of the evidence that
\* waited, after which nothing waits.
LEMMA ApplyPresentRowMemory ==
  ASSUME NEW E, NEW R, History(E, R), NEW r, RegistryInv(r, E, R), NEW k \in Keys,
         NEW row, row.incarnation \in Incarnation, row.epoch \in Time,
         NEW q \in Revision, <<k, row.incarnation, q>> \in E, NEW now
  PROVE  Grows(r, ApplyPresentRow(r, k, row, q, now).reg)
<1> DEFINE held == r.pending[k]
           fact(at) == [incarnation |-> row.incarnation, at |-> at, revision |-> q]
           s == DropPending(r, k)
           t == ApplyPresentRow(r, k, row, q, now)
<1>1. \A at \in Time : TrueFact(E, k, fact(at))
  BY DEF TrueFact, Existence
<1>2. held # None => /\ <<k, held.incarnation, held.revision>> \in E
                     /\ held.incarnation \in Incarnation /\ held.revision \in Revision
                     /\ held.at \in Time /\ r.live[k] = None
  BY HeldFact DEF TrueFact, Existence
<1>3. /\ r \in Registry /\ RegistryInv(s, E, R) /\ s.live = r.live /\ s \in Registry
      /\ s.pending[k] = None
  <2>1. r \in Registry
    BY DEF RegistryInv
  <2>2. RegistryInv(s, E, R)
    BY PendingInv, Zenon DEF DropPending
  <2>3. s.live = r.live /\ s.pending[k] = None
    BY <2>1 DEF DropPending, Registry
  <2> HIDE DEF s
  <2> QED BY <2>1, <2>2, <2>3 DEF RegistryInv
<1>4. SameMemory(r, s)
  BY <1>3, DropPendingMemory
<1> HIDE DEF s, fact
<1>5. CASE held = None
  <2>1. t = Observe(r, k, fact(row.epoch), now)
    BY <1>5, Zenon DEF ApplyPresentRow, fact
  <2> QED BY <1>1, <2>1, ObserveMemory
<1>6. CASE held # None /\ held.incarnation = row.incarnation
  <2>1. t = Observe(s, k, fact(Max2(held.at, row.epoch)), now)
    BY <1>6, Zenon DEF ApplyPresentRow, fact, s
  <2>2. Max2(held.at, row.epoch) \in Time
    BY <1>2, <1>6 DEF Max2
  <2>3. Grows(s, t.reg)
    BY <1>1, <1>3, <2>1, <2>2, ObserveMemory
  <2> HIDE DEF t
  <2>4. Grows(r, t.reg)
    BY <1>4, <2>3, GrowsFrame, SameMemorySelf
  <2> QED BY <2>4 DEF t
<1>7. CASE held # None /\ held.incarnation < row.incarnation
  <2> DEFINE u == Remember(s, k, held.incarnation, q)
  <2>1. t = Observe(u, k, fact(row.epoch), now)
    <3>1. held.incarnation # row.incarnation
      BY <1>2, <1>7 DEF Incarnation
    <3> QED BY <1>7, <3>1, Zenon DEF ApplyPresentRow, fact, s
  <2>2. Gone(E, R, k, held.incarnation, q)
    BY <1>2, <1>7, GoneBelow
  <2>3. RegistryInv(u, E, R)
    BY <1>2, <1>3, <1>7, <2>2, RememberInv
  <2>4. Grows(s, u) /\ u.live = s.live /\ u.pending = s.pending
    BY <1>2, <1>3, <1>7, RememberGrows, RememberFields
  <2> HIDE DEF u
  <2>5. u.live[k] = None /\ u.pending[k] = None
    BY <1>2, <1>3, <1>7, <2>4
  <2>6. SameMemory(u, t.reg)
    BY <1>1, <2>1, <2>3, <2>5, ObserveMemory
  <2> HIDE DEF t
  <2>7. Grows(r, t.reg)
    BY <1>4, <2>4, <2>6, GrowsFrame
  <2> QED BY <2>7 DEF t
<1>8. CASE held # None /\ held.incarnation > row.incarnation
  <2> DEFINE u == Remember(r, k, row.incarnation, held.revision)
  <2>1. t = Touched(u, "stale")
    <3>1. held.incarnation # row.incarnation /\ ~(held.incarnation < row.incarnation)
      BY <1>2, <1>8 DEF Incarnation
    <3> QED BY <1>8, <3>1, Zenon DEF ApplyPresentRow
  <2>2. Grows(r, u)
    BY <1>2, <1>3, <1>8, RememberGrows
  <2> HIDE DEF u
  <2> QED BY <2>1, <2>2 DEF Touched
<1> QED
  BY <1>2, <1>5, <1>6, <1>7, <1>8 DEF Incarnation

\* The absence of a row only strengthens the deletion memory.
LEMMA ApplyAbsentRowMemory ==
  ASSUME NEW r \in Registry, NEW k \in Keys, NEW q \in Revision
  PROVE  Grows(r, ApplyAbsentRow(r, k, q))
<1> DEFINE held == r.pending[k]
           entry == r.live[k]
           u == Remember(r, k, held.incarnation, q)
<1>1. \/ ApplyAbsentRow(r, k, q) = r
      \/ held # None /\ ApplyAbsentRow(r, k, q) = DropPending(u, k)
      \/ entry # None /\ ApplyAbsentRow(r, k, q) = Remove(r, k, entry.incarnation, q)
  BY Zenon DEF ApplyAbsentRow
<1>2. /\ held # None => held.incarnation \in Incarnation
      /\ entry # None => entry.incarnation \in Incarnation
  BY DEF Registry, Existence, LiveEntry
<1>3. ASSUME held # None PROVE Grows(r, DropPending(u, k))
  <2>1. u \in Registry /\ Grows(r, u)
    BY <1>2, <1>3, RememberGrows, RememberFields
  <2> HIDE DEF u
  <2> QED BY <2>1, DropPendingMemory, GrowsFrame, SameMemorySelf
<1>4. Grows(r, r)
  BY SameGrows, SameMemorySelf
<1> HIDE DEF u
<1> QED
  BY <1>1, <1>2, <1>3, <1>4, RemoveMemory

\* Applying a row only strengthens the deletion memory.
LEMMA ApplyRowMemory ==
  ASSUME NEW E, NEW R, History(E, R), NEW r, RegistryInv(r, E, R), NEW k \in Keys,
         NEW rows, rows[k] \in Presence \cup {None}, NEW q \in Revision,
         rows[k] # None => <<k, rows[k].incarnation, q>> \in E, NEW now
  PROVE  Grows(r, ApplyRow(r, k, rows, q, now))
<1>1. CASE rows[k] = None
  <2>1. ApplyRow(r, k, rows, q, now) = ApplyAbsentRow(r, k, q)
    BY <1>1, Zenon DEF ApplyRow
  <2> QED BY <2>1, ApplyAbsentRowMemory DEF RegistryInv
<1>2. CASE rows[k] # None
  <2> DEFINE x == rows[k]
  <2>1. x.incarnation \in Incarnation /\ x.epoch \in Time
    BY <1>2 DEF Presence
  <2>2. ApplyRow(r, k, rows, q, now) = ApplyPresentRow(r, k, x, q, now).reg
    BY <1>2, Zenon DEF ApplyRow
  <2>3. <<k, x.incarnation, q>> \in E
    BY <1>2
  <2> HIDE DEF x
  <2> QED BY <2>1, <2>2, <2>3, ApplyPresentRowMemory
<1> QED
  BY <1>1, <1>2

\* One row of a recovery page keeps the registry exact and grows its memory.
LEMMA RecoverRowSound ==
  ASSUME NEW E, NEW R, History(E, R), NEW r, RegistryInv(r, E, R), Exact(r),
         r.recovery # None, r.recovery.page # None, r.recovery.page.rows # <<>>, NEW now
  PROVE  Exact(RecoverRow(r, now).reg) /\ Grows(r, RecoverRow(r, now).reg)
<1> DEFINE held == r.recovery.page
           row == Head(held.rows)
           t == ApplyPresentRow(r, row.key, row, held.revision, now)
<1>1. r \in Registry /\ r.recovery \in SeedRecovery /\ held \in RecoveryPage
  BY DEF RegistryInv, Registry, SeedRecovery
<1>2. /\ held.rows \in Seq(ActiveRow) /\ row \in ActiveRow /\ row = held.rows[1]
      /\ 1 \in DOMAIN held.rows /\ held.revision \in Revision
  BY <1>1 DEF RecoveryPage
<1>3. RowsTrue(held.rows, E, held.revision)
  BY DEF RegistryInv
<1>4. /\ row.key \in Keys /\ row.incarnation \in Incarnation /\ row.epoch \in Time
      /\ <<row.key, row.incarnation, held.revision>> \in E
  BY <1>2, <1>3 DEF RowsTrue, ActiveRow
<1>5. /\ t.reg \in Registry /\ Exact(t.reg) /\ Grows(r, t.reg)
  <2>1. RegistryInv(t.reg, E, R)
    BY <1>2, <1>4, ApplyPresentRowInv, Zenon
  <2>2. Exact(t.reg)
    BY <1>2, <1>4, ApplyPresentRowExact, Zenon
  <2>3. Grows(r, t.reg)
    BY <1>2, <1>4, ApplyPresentRowMemory, Zenon
  <2> HIDE DEF t
  <2> QED BY <2>1, <2>2, <2>3 DEF RegistryInv
<1>6. Aside(t.reg, RecoverRow(r, now).reg)
  BY <1>1, <1>5, RecoverRowAside, Zenon
<1> HIDE DEF t
<1> QED
  BY <1>5, <1>6, SameExact, GrowsFrame, SameMemorySelf DEF Aside

\* What only chooses or holds pages keeps the registry exact.
LEMMA AsideSound ==
  ASSUME NEW r \in Registry, Exact(r), NEW s, Aside(r, s)
  PROVE  Exact(s) /\ Grows(r, s)
  BY SameExact, SameGrows DEF Aside

----------------------------------------------------------------------------
(* The caps of the pending set and of the deletion memory.                 *)

Capped(r) ==
    /\ Cardinality(Waiting(r)) <= PendingCap
    /\ Cardinality(Remembered(r.deleted)) <= DeletionCap

\* The pending set has no free place.
Full(r) == Cardinality(Waiting(r)) >= PendingCap

\* What an operation that reports a Touch leaves: it is blocked only by a full
\* pending set.
Fits(t) == Capped(t.reg) /\ (t.touch = "blocked" => Full(t.reg))

\* An operator that adds nothing to either set: what waits after it waited before.
Relieves(r, s) ==
    /\ \A k \in Keys : s.pending[k] # None => s.pending[k] = r.pending[k]
    /\ s.deleted = r.deleted

\* The pending set and the deletion memory are finite.
LEMMA CappedSets ==
  ASSUME NEW r
  PROVE  /\ IsFiniteSet(Waiting(r)) /\ Cardinality(Waiting(r)) \in Nat
         /\ IsFiniteSet(Remembered(r.deleted)) /\ Cardinality(Remembered(r.deleted)) \in Nat
<1>1. Waiting(r) \subseteq Keys /\ Remembered(r.deleted) \subseteq Keys
  BY DEF Waiting, Remembered
<1> QED
  BY <1>1, KeysAssumption, FS_Subset, FS_CardinalityType

\* One more element makes a finite set larger by at most one.
LEMMA AddAtMostOne ==
  ASSUME NEW S, IsFiniteSet(S), NEW x
  PROVE  /\ IsFiniteSet(S \cup {x}) /\ Cardinality(S \cup {x}) \in Nat
         /\ Cardinality(S \cup {x}) <= Cardinality(S) + 1
<1>1. /\ IsFiniteSet(S \cup {x})
      /\ Cardinality(S \cup {x}) = IF x \in S THEN Cardinality(S) ELSE Cardinality(S) + 1
      /\ Cardinality(S) \in Nat
  BY FS_AddElement, FS_CardinalityType
<1>2. \/ Cardinality(S \cup {x}) = Cardinality(S)
      \/ Cardinality(S \cup {x}) = Cardinality(S) + 1
  BY <1>1
<1> QED
  BY <1>1, <1>2

\* Doing nothing adds nothing.
LEMMA RelievesSelf ==
  ASSUME NEW r
  PROVE  Relieves(r, r)
  BY DEF Relieves

\* Adding nothing composes.
LEMMA RelievesTransitive ==
  ASSUME NEW r, NEW s, NEW t, Relieves(r, s), Relieves(s, t)
  PROVE  Relieves(r, t)
  BY DEF Relieves

\* What adds nothing keeps the caps.
LEMMA RelievesCapped ==
  ASSUME NEW r, NEW s, Relieves(r, s), Capped(r)
  PROVE  Capped(s)
<1>1. Waiting(s) \subseteq Waiting(r) /\ s.deleted = r.deleted
  BY DEF Relieves, Waiting
<1>2. Cardinality(Waiting(s)) <= Cardinality(Waiting(r))
  BY <1>1, CappedSets, FS_Subset
<1> QED
  BY <1>1, <1>2, CappedSets, CapAssumption DEF Capped

\* remember(): a key that is new to a full memory evicts the oldest one.
LEMMA RememberCapped ==
  ASSUME NEW r \in Registry, Capped(r), NEW k \in Keys, NEW i \in Incarnation, NEW q \in Revision
  PROVE  Capped(Remember(r, k, i, q))
<1> DEFINE old == r.deleted[k]
           new == IF old = None
                  THEN [incarnation |-> i, absent_at |-> q]
                  ELSE [incarnation |-> Max2(old.incarnation, i),
                        absent_at |-> Max2(old.absent_at, q)]
           g == Max2(r.gone[k], i)
           t == [r EXCEPT !.deleted[k] = new, !.gone[k] = g]
           m == Cardinality(Remembered(r.deleted))
           w == Cardinality(Remembered(t.deleted))
<1>1. \/ Remember(r, k, i, q) = t /\ (old = None => ~(w > DeletionCap))
      \/ old = None /\ Remember(r, k, i, q) = Evict(t)
  BY Zenon DEF Remember
<1>2. new \in Deletion /\ new # None
  <2>1. new \in Deletion
    BY DEF Registry, Deletion, Revision, Incarnation, Max2
  <2> QED BY <2>1, NoneAssumption
<1>3. g \in Incarnation \cup {-1}
  BY DEF Registry, Max2, Incarnation
<1> HIDE DEF new, g
<1>4. t \in Registry
  BY <1>2, <1>3 DEF Registry
<1>5. t.pending = r.pending /\ t.deleted = [r.deleted EXCEPT ![k] = new]
  BY DEF Registry
<1> HIDE DEF t
<1>6. Remembered(t.deleted) = Remembered(r.deleted) \cup {k}
  BY <1>2, <1>5 DEF Remembered, Registry
<1>7. w = IF old = None THEN m + 1 ELSE m
  <2>1. k \in Remembered(r.deleted) <=> old # None
    BY DEF Remembered
  <2> QED BY <1>6, <2>1, CappedSets, FS_AddElement
<1>8. m \in Nat /\ w \in Nat /\ m <= DeletionCap /\ DeletionCap \in Nat
  BY CappedSets, CapAssumption DEF Capped
<1>9. CASE Remember(r, k, i, q) = t /\ (old = None => ~(w > DeletionCap))
  <2>1. w <= DeletionCap
    BY <1>7, <1>8, <1>9
  <2>2. Waiting(t) = Waiting(r)
    BY <1>5 DEF Waiting
  <2> QED BY <1>9, <2>1, <2>2 DEF Capped
<1>10. CASE old = None /\ Remember(r, k, i, q) = Evict(t)
  <2> DEFINE o == Oldest(t.deleted)
             f == Max2(t.forgotten_through, t.deleted[o].absent_at)
             e == Evict(t)
  <2>1. o \in Remembered(t.deleted)
    BY <1>4, <1>6, OldestRemembered
  <2> HIDE DEF o
  <2>2. e = [t EXCEPT !.deleted[o] = None, !.forgotten_through = f]
    BY DEF Evict, o
  <2> HIDE DEF f, e
  <2>3. e.pending = t.pending /\ e.deleted = [t.deleted EXCEPT ![o] = None]
    BY <1>4, <2>2 DEF Registry
  <2>4. Remembered(e.deleted) = Remembered(t.deleted) \ {o}
    BY <1>4, <2>3 DEF Remembered, Registry
  <2>5. Cardinality(Remembered(e.deleted)) = w - 1
    <3>1. IsFiniteSet(Remembered(t.deleted))
      BY CappedSets, Zenon
    <3> QED BY <2>1, <2>4, <3>1, FS_RemoveElement, Zenon
  <2>6. Cardinality(Remembered(e.deleted)) <= DeletionCap
    BY <1>7, <1>8, <1>10, <2>5
  <2>7. Waiting(e) = Waiting(r)
    BY <1>5, <2>3 DEF Waiting
  <2> QED BY <1>10, <2>6, <2>7 DEF Capped, e
<1> QED
  BY <1>1, <1>9, <1>10

\* Dropping the waiting evidence of a key adds nothing.
LEMMA DropPendingRelieves ==
  ASSUME NEW r \in Registry, NEW k \in Keys
  PROVE  DropPending(r, k) \in Registry /\ Relieves(r, DropPending(r, k))
<1> DEFINE s == DropPending(r, k)
<1>1. /\ s \in Registry /\ s.pending = [r.pending EXCEPT ![k] = None] /\ s.deleted = r.deleted
      /\ DOMAIN r.pending = Keys
  <2>1. s = [r EXCEPT !.pending[k] = None]
    BY DEF DropPending
  <2> HIDE DEF s
  <2>2. DOMAIN r.pending = Keys
    BY DEF Registry
  <2> QED BY <2>1, <2>2, PendingFields
<1> HIDE DEF s
<1>2. \A j \in Keys : s.pending[j] # None => s.pending[j] = r.pending[j]
  BY <1>1
<1>3. Relieves(r, s)
  BY <1>1, <1>2, Zenon DEF Relieves
<1> QED
  BY <1>1, <1>3, Zenon DEF s

\* Inserting a live entry adds nothing.
LEMMA InsertLiveRelieves ==
  ASSUME NEW r \in Registry, NEW k, NEW entry
  PROVE  Relieves(r, InsertLive(r, k, entry))
  BY DEF Registry, InsertLive, Relieves

\* Publishing to the clients adds nothing.
LEMMA ViewRelieves ==
  ASSUME NEW r \in Registry, NEW k, NEW v
  PROVE  Relieves(r, [r EXCEPT !.view[k] = v])
  BY DEF Registry, Relieves

\* Ending a live session adds nothing.
LEMMA EndLiveRelieves ==
  ASSUME NEW r \in Registry, NEW k \in Keys
  PROVE  Relieves(r, EndLive(r, k))
<1>1. EndLive(r, k).pending = r.pending /\ EndLive(r, k).deleted = r.deleted
  BY EndLiveFields
<1> HIDE DEF EndLive
<1> QED BY <1>1 DEF Relieves

\* defer(): evidence of a new key waits only where there is a free place.
LEMMA DeferFits ==
  ASSUME NEW r \in Registry, Capped(r), NEW k \in Keys, NEW fact
  PROVE  Fits(Defer(r, k, fact))
<1> DEFINE held == r.pending[k]
           merged == [fact EXCEPT !.at = Max2(held.at, fact.at),
                                  !.revision = Max2(held.revision, fact.revision)]
           put(v) == [r EXCEPT !.pending[k] = v]
<1>1. \/ Full(r) /\ Defer(r, k, fact) = Touched(r, "blocked")
      \/ Defer(r, k, fact) = Touched(r, "deferred")
      \/ ~Full(r) /\ Defer(r, k, fact) = Touched(put(fact), "deferred")
      \/ held # None /\ Defer(r, k, fact) = Touched(put(fact), "deferred")
      \/ held # None /\ Defer(r, k, fact) = Touched(put(merged), "deferred")
  BY Zenon DEF Defer, Full
<1> HIDE DEF merged
<1>2. ASSUME NEW v PROVE /\ put(v).pending = [r.pending EXCEPT ![k] = v]
                         /\ put(v).deleted = r.deleted
  BY DEF Registry
<1> HIDE DEF put
<1>5. DOMAIN r.pending = Keys
  BY DEF Registry
<1>3. ASSUME NEW v, held # None PROVE Capped(put(v))
  <2>1. /\ put(v).pending = [r.pending EXCEPT ![k] = v] /\ put(v).deleted = r.deleted
    BY <1>2
  <2>2. Waiting(put(v)) \subseteq Waiting(r)
    BY <1>5, <1>3, <2>1 DEF Waiting
  <2>3. /\ Cardinality(Waiting(put(v))) <= Cardinality(Waiting(r))
        /\ Cardinality(Waiting(put(v))) \in Nat
    BY <2>2, CappedSets, FS_Subset, FS_CardinalityType
  <2>4. Cardinality(Waiting(put(v))) <= PendingCap
    BY <2>3, CappedSets, CapAssumption DEF Capped
  <2> QED BY <2>1, <2>4 DEF Capped
<1>4. ASSUME NEW v, ~Full(r) PROVE Capped(put(v))
  <2>0. put(v).pending = [r.pending EXCEPT ![k] = v]
    BY <1>2
  <2>1. Waiting(put(v)) \subseteq Waiting(r) \cup {k}
    BY <1>5, <2>0 DEF Waiting
  <2>2. /\ IsFiniteSet(Waiting(r) \cup {k})
        /\ Cardinality(Waiting(r) \cup {k}) <= Cardinality(Waiting(r)) + 1
    BY CappedSets, AddAtMostOne
  <2>3. /\ Cardinality(Waiting(put(v))) <= Cardinality(Waiting(r) \cup {k})
        /\ Cardinality(Waiting(r) \cup {k}) \in Nat
    BY <2>1, <2>2, FS_Subset, FS_CardinalityType
  <2>4. Cardinality(Waiting(put(v))) <= PendingCap
    BY <1>4, <2>2, <2>3, CappedSets, CapAssumption DEF Full
  <2> QED BY <1>2, <2>4 DEF Capped
<1>6. \A x, y : Touched(x, y).reg = x /\ Touched(x, y).touch = y
  BY DEF Touched
<1> HIDE DEF held
<1> QED
  BY <1>1, <1>3, <1>4, <1>6 DEF Fits

\* A result that is not blocked fits when its registry does.
LEMMA TouchedFits ==
  ASSUME NEW r, Capped(r), NEW touch, touch # "blocked"
  PROVE  Fits(Touched(r, touch))
  BY DEF Fits, Touched

\* A refresh adds nothing.
LEMMA RefreshFits ==
  ASSUME NEW r \in Registry, Capped(r), NEW k, NEW fact
  PROVE  Fits(Refresh(r, k, fact))
<1> DEFINE entry == r.live[k]
           seen == [entry EXCEPT !.exists_at = Max2(@, fact.revision)]
           active == [seen EXCEPT !.last_activity_at = fact.at, !.quiet_published = FALSE]
           d == (r.deadlines \ {SessionDeadline(k, entry)}) \cup {SessionDeadline(k, active)}
           w == r.working + 1 - Weight(entry)
           s == [r EXCEPT !.live[k] = seen]
           t == [r EXCEPT !.live[k] = active, !.deadlines = d, !.working = w]
<1>1. Refresh(r, k, fact) = Touched(s, "unchanged") \/ Refresh(r, k, fact) = Touched(t, "advanced")
  BY Zenon DEF Refresh
<1> HIDE DEF seen, active, d, w
<1>2. Relieves(r, s) /\ Relieves(r, t)
  BY DEF Registry, Relieves
<1> HIDE DEF s, t
<1> QED
  BY <1>1, <1>2, RelievesCapped, TouchedFits

\* Admission settles what waits, remembering at most one absence.
LEMMA AdmitFits ==
  ASSUME NEW r \in Registry, Capped(r), NEW k \in Keys, NEW fact \in Existence
  PROVE  Fits(Admit(r, k, fact))
<1> DEFINE held == r.pending[k]
           merged == [fact EXCEPT !.at = Max2(@, held.at),
                                  !.revision = Max2(@, held.revision)]
           cleared == DropPending(r, k)
           s == Remember(r, k, fact.incarnation, held.revision)
           t == Remember(cleared, k, held.incarnation, fact.revision)
<1>1. \/ Admit(r, k, fact) = Touched(InsertLive(r, k, NewEntry(fact)), "added")
      \/ held # None /\ Admit(r, k, fact) = Touched(s, "stale")
      \/ held # None /\ Admit(r, k, fact) = Touched(InsertLive(cleared, k, NewEntry(merged)), "added")
      \/ held # None /\ Admit(r, k, fact) = Touched(InsertLive(t, k, NewEntry(fact)), "added")
  BY Zenon DEF Admit
<1>2. /\ fact.incarnation \in Incarnation /\ fact.revision \in Revision
      /\ held # None => held.incarnation \in Incarnation /\ held.revision \in Revision
  BY DEF Existence, Registry
<1>3. cleared \in Registry /\ Capped(cleared)
  BY DropPendingRelieves, RelievesCapped
<1> HIDE DEF cleared, merged
<1>4. Capped(InsertLive(r, k, NewEntry(fact)))
  BY InsertLiveRelieves, RelievesCapped
<1>5. Capped(InsertLive(cleared, k, NewEntry(merged)))
  BY <1>3, InsertLiveRelieves, RelievesCapped
<1>6. held # None => Capped(s)
  BY <1>2, RememberCapped
<1>7. held # None => Capped(InsertLive(t, k, NewEntry(fact)))
  <2> SUFFICES ASSUME held # None PROVE Capped(InsertLive(t, k, NewEntry(fact)))
    OBVIOUS
  <2>1. t \in Registry /\ Capped(t)
    BY <1>2, <1>3, RememberFields, RememberCapped
  <2> HIDE DEF t
  <2> QED BY <2>1, InsertLiveRelieves, RelievesCapped
<1> HIDE DEF s, t, held
<1> QED
  BY <1>1, <1>4, <1>5, <1>6, <1>7, TouchedFits

\* A guarded transition fits.
LEMMA GuardedFits ==
  ASSUME NEW r \in Registry, Capped(r), NEW k \in Keys, NEW fact \in Existence
  PROVE  Fits(Guarded(r, k, fact))
<1>1. \/ Guarded(r, k, fact) = Touched(r, "stale")
      \/ Guarded(r, k, fact) = Defer(r, k, fact)
      \/ Guarded(r, k, fact) = Admit(r, k, fact)
  BY Zenon DEF Guarded
<1>2. Fits(Touched(r, "stale"))
  BY TouchedFits
<1> QED
  BY <1>1, <1>2, DeferFits, AdmitFits

\* establish() fits.
LEMMA EstablishFits ==
  ASSUME NEW r \in Registry, Capped(r), NEW k \in Keys, NEW fact \in Existence, NEW now
  PROVE  Fits(Establish(r, k, fact, now))
<1> DEFINE entry == r.live[k]
           ended == EndLive(r, k)
           replaced == Remember(ended, k, entry.incarnation, fact.revision)
<1>1. \/ Establish(r, k, fact, now) = Touched(r, "stale")
      \/ Establish(r, k, fact, now) = Guarded(r, k, fact)
      \/ Establish(r, k, fact, now) = Refresh(r, k, fact)
      \/ entry # None /\ Establish(r, k, fact, now) = Guarded(replaced, k, fact)
  BY Zenon DEF Establish
<1>2. Fits(Touched(r, "stale"))
  BY TouchedFits
<1>3. ASSUME entry # None PROVE Fits(Guarded(replaced, k, fact))
  <2>1. entry.incarnation \in Incarnation /\ fact.revision \in Revision
    BY <1>3 DEF Registry, LiveEntry, Existence
  <2>2. ended \in Registry /\ Capped(ended)
    BY EndLiveFields, EndLiveRelieves, RelievesCapped
  <2> HIDE DEF ended
  <2>3. replaced \in Registry /\ Capped(replaced)
    BY <2>1, <2>2, RememberFields, RememberCapped
  <2> HIDE DEF replaced
  <2> QED BY <2>3, GuardedFits
<1> HIDE DEF replaced
<1> QED
  BY <1>1, <1>2, <1>3, GuardedFits, RefreshFits

\* observe() of an existence fits.
LEMMA ObserveFits ==
  ASSUME NEW E, NEW R, History(E, R), NEW r, RegistryInv(r, E, R), Capped(r), NEW k \in Keys,
         NEW fact, TrueFact(E, k, fact), NEW now
  PROVE  Fits(Observe(r, k, fact, now))
<1> DEFINE t == Establish(r, k, fact, now)
           u == t.reg
           s == [u EXCEPT !.view[k] = "working"]
<1>1. t.reg \in Registry
  BY EstablishInv DEF RegistryInv
<1>2. Fits(t)
  <2>1. r \in Registry /\ fact \in Existence
    BY DEF RegistryInv, TrueFact
  <2> QED BY <2>1, EstablishFits
<1>3. \/ Observe(r, k, fact, now) = t
      \/ t.touch # "blocked" /\ Observe(r, k, fact, now) = Touched(s, t.touch)
  <2>1. \/ Observe(r, k, fact, now) = t
        \/ t.touch \in {"added", "advanced"} /\ Observe(r, k, fact, now) = Touched(s, t.touch)
    BY Zenon DEF Observe, Narrate
  <2> HIDE DEF s, t
  <2> QED BY <2>1
<1> HIDE DEF t
<1>4. Capped(s)
  <2>1. u \in Registry /\ Capped(u)
    BY <1>1, <1>2 DEF Fits
  <2> HIDE DEF u
  <2> QED BY <2>1, ViewRelieves, RelievesCapped
<1> HIDE DEF s
<1> QED
  BY <1>2, <1>3, <1>4, TouchedFits

\* remove() keeps the caps.
LEMMA RemoveCapped ==
  ASSUME NEW r \in Registry, Capped(r), NEW k \in Keys, NEW i \in Incarnation, NEW q \in Revision
  PROVE  Capped(Remove(r, k, i, q))
<1> DEFINE s == Remember(r, k, i, q)
<1>1. s \in Registry /\ Capped(s)
  BY RememberFields, RememberCapped
<1>2. \/ Remove(r, k, i, q) = s \/ Remove(r, k, i, q) = EndLive(s, k)
      \/ Remove(r, k, i, q) = DropPending(s, k)
  BY Zenon DEF Remove
<1> HIDE DEF s
<1> QED
  BY <1>1, <1>2, EndLiveRelieves, DropPendingRelieves, RelievesCapped

\* broad() adds nothing.
LEMMA BroadRelieves ==
  ASSUME NEW r \in Registry, NEW q
  PROVE  Relieves(r, Broad(r, q))
  BY DEF Broad, Registry, Relieves

\* Clearing an anonymous activity adds nothing.
LEMMA ClearAnonymousRelieves ==
  ASSUME NEW r \in Registry, NEW a
  PROVE  Relieves(r, ClearAnonymous(r, a))
  BY DEF ClearAnonymous, Registry, Relieves

\* cover() adds nothing.
LEMMA CoverRelieves ==
  ASSUME NEW r \in Registry, NEW a, NEW through
  PROVE  Relieves(r, Cover(r, a, through))
  BY ClearAnonymousRelieves, RelievesSelf DEF Cover

\* An anonymous touch adds nothing.
LEMMA AnonymousTouchRelieves ==
  ASSUME NEW r \in Registry, NEW a, NEW at, NEW generation, NEW now
  PROVE  Relieves(r, AnonymousTouch(r, a, at, generation, now))
<1> DEFINE entry == r.anonymous[a]
           new == [generation |-> generation, at |-> at]
           kept == [entry EXCEPT !.generation = generation]
           added == [r EXCEPT !.anonymous[a] = new,
                              !.deadlines = @ \cup {AnonymousDeadline(a, new)},
                              !.anonymousView = @ \cup {a}]
           same == [r EXCEPT !.anonymous[a] = kept]
           moved == [r EXCEPT !.anonymous[a] = new,
                              !.deadlines = (@ \ {AnonymousDeadline(a, entry)})
                                              \cup {AnonymousDeadline(a, new)}]
           s == AnonymousTouch(r, a, at, generation, now)
<1>1. s = r \/ s = added \/ s = same \/ s = moved
  BY Zenon DEF AnonymousTouch
<1> HIDE DEF new, kept, s
<1>2. Relieves(r, added) /\ Relieves(r, same) /\ Relieves(r, moved)
  BY DEF Registry, Relieves
<1> HIDE DEF added, same, moved
<1>3. Relieves(r, s)
  BY <1>1, <1>2, RelievesSelf
<1> QED
  BY <1>3 DEF s

\* expire() adds nothing.
LEMMA ExpireOneRelieves ==
  ASSUME NEW r \in Registry, NEW d \in r.deadlines, NEW now
  PROVE  Relieves(r, ExpireOne(r, d, now))
<1>1. d[2] \in DeadlineKey
  BY DEF Registry
<1>2. CASE d[2][1] = "session"
  <2> DEFINE k == d[2][2]
             entry == r.live[k]
             quiet == [entry EXCEPT !.quiet_published = TRUE]
             s == [r EXCEPT !.live[k] = quiet,
                            !.deadlines = (@ \ {d}) \cup {SessionDeadline(k, quiet)},
                            !.working = @ - 1, !.view[k] = "quiet"]
             t == [r EXCEPT !.deadlines = (@ \ {d}) \cup {SessionDeadline(k, entry)}]
             u == [r EXCEPT !.deadlines = @ \ {d}]
  <2>1. k \in Keys
    BY <1>1, <1>2 DEF DeadlineKey
  <2>2. ExpireOne(r, d, now) = ExpireSession(r, d, now)
    BY <1>2, Zenon DEF ExpireOne
  <2>3. \/ ExpireSession(r, d, now) = u \/ ExpireSession(r, d, now) = EndLive(r, k)
        \/ ExpireSession(r, d, now) = s \/ ExpireSession(r, d, now) = t
    BY Zenon DEF ExpireSession
  <2> HIDE DEF quiet, entry, k
  <2>4. Relieves(r, u) /\ Relieves(r, s) /\ Relieves(r, t)
    BY DEF Registry, Relieves
  <2> HIDE DEF u, s, t
  <2> QED BY <2>1, <2>2, <2>3, <2>4, EndLiveRelieves
<1>3. CASE d[2][1] # "session"
  <2> DEFINE a == d[2][2]
             t == [r EXCEPT !.deadlines = (@ \ {d}) \cup {AnonymousDeadline(a, r.anonymous[a])}]
             u == [r EXCEPT !.deadlines = @ \ {d}]
  <2>1. ExpireOne(r, d, now) = ExpireAnonymous(r, d, now)
    BY <1>3, Zenon DEF ExpireOne
  <2>2. \/ ExpireAnonymous(r, d, now) = u \/ ExpireAnonymous(r, d, now) = ClearAnonymous(r, a)
        \/ ExpireAnonymous(r, d, now) = t
    BY Zenon DEF ExpireAnonymous
  <2> HIDE DEF a
  <2>3. Relieves(r, u) /\ Relieves(r, t)
    BY DEF Registry, Relieves
  <2> HIDE DEF u, t
  <2> QED BY <2>1, <2>2, <2>3, ClearAnonymousRelieves
<1> QED
  BY <1>2, <1>3

\* A row of a page fits: it settles what waits for its key.
LEMMA ApplyPresentRowFits ==
  ASSUME NEW E, NEW R, History(E, R), NEW r, RegistryInv(r, E, R), Capped(r), NEW k \in Keys,
         NEW row, row.incarnation \in Incarnation, row.epoch \in Time,
         NEW q \in Revision, <<k, row.incarnation, q>> \in E, NEW now
  PROVE  Fits(ApplyPresentRow(r, k, row, q, now))
<1> DEFINE held == r.pending[k]
           fact(at) == [incarnation |-> row.incarnation, at |-> at, revision |-> q]
           s == DropPending(r, k)
           t == ApplyPresentRow(r, k, row, q, now)
<1>1. \A at \in Time : TrueFact(E, k, fact(at))
  BY DEF TrueFact, Existence
<1>2. held # None => /\ <<k, held.incarnation, held.revision>> \in E
                     /\ held.incarnation \in Incarnation /\ held.revision \in Revision
                     /\ held.at \in Time /\ r.live[k] = None
  BY HeldFact DEF TrueFact, Existence
<1>3. r \in Registry /\ RegistryInv(s, E, R) /\ s.live = r.live /\ s \in Registry
  BY PendingInv DEF RegistryInv, DropPending, Registry
<1>4. Capped(s)
  BY <1>3, DropPendingRelieves, RelievesCapped
<1> HIDE DEF s, fact
<1>5. CASE held = None
  <2>1. t = Observe(r, k, fact(row.epoch), now)
    BY <1>5, Zenon DEF ApplyPresentRow, fact
  <2> QED BY <1>1, <2>1, ObserveFits
<1>6. CASE held # None /\ held.incarnation = row.incarnation
  <2>1. t = Observe(s, k, fact(Max2(held.at, row.epoch)), now)
    BY <1>6, Zenon DEF ApplyPresentRow, fact, s
  <2>2. Max2(held.at, row.epoch) \in Time
    BY <1>2, <1>6 DEF Max2
  <2> QED BY <1>1, <1>3, <1>4, <2>1, <2>2, ObserveFits
<1>7. CASE held # None /\ held.incarnation < row.incarnation
  <2> DEFINE u == Remember(s, k, held.incarnation, q)
  <2>1. t = Observe(u, k, fact(row.epoch), now)
    <3>1. held.incarnation # row.incarnation
      BY <1>2, <1>7 DEF Incarnation
    <3> QED BY <1>7, <3>1, Zenon DEF ApplyPresentRow, fact, s
  <2>2. Gone(E, R, k, held.incarnation, q)
    BY <1>2, <1>7, GoneBelow
  <2>3. RegistryInv(u, E, R)
    BY <1>2, <1>3, <1>7, <2>2, RememberInv
  <2>4. Capped(u)
    BY <1>2, <1>3, <1>4, <1>7, RememberCapped
  <2> HIDE DEF u
  <2> QED BY <1>1, <2>1, <2>3, <2>4, ObserveFits
<1>8. CASE held # None /\ held.incarnation > row.incarnation
  <2> DEFINE u == Remember(r, k, row.incarnation, held.revision)
  <2>1. t = Touched(u, "stale")
    <3>1. held.incarnation # row.incarnation /\ ~(held.incarnation < row.incarnation)
      BY <1>2, <1>8 DEF Incarnation
    <3> QED BY <1>8, <3>1, Zenon DEF ApplyPresentRow
  <2>2. Capped(u)
    BY <1>2, <1>3, <1>8, RememberCapped
  <2> HIDE DEF u
  <2> QED BY <2>1, <2>2, TouchedFits
<1> QED
  BY <1>2, <1>5, <1>6, <1>7, <1>8 DEF Incarnation

\* The absence of a row keeps the caps.
LEMMA ApplyAbsentRowCapped ==
  ASSUME NEW r \in Registry, Capped(r), NEW k \in Keys, NEW q \in Revision
  PROVE  Capped(ApplyAbsentRow(r, k, q))
<1> DEFINE held == r.pending[k]
           entry == r.live[k]
           u == Remember(r, k, held.incarnation, q)
<1>1. \/ ApplyAbsentRow(r, k, q) = r
      \/ held # None /\ ApplyAbsentRow(r, k, q) = DropPending(u, k)
      \/ entry # None /\ ApplyAbsentRow(r, k, q) = Remove(r, k, entry.incarnation, q)
  BY Zenon DEF ApplyAbsentRow
<1>2. /\ held # None => held.incarnation \in Incarnation
      /\ entry # None => entry.incarnation \in Incarnation
  BY DEF Registry, Existence, LiveEntry
<1>3. ASSUME held # None PROVE Capped(DropPending(u, k))
  <2>1. u \in Registry /\ Capped(u)
    BY <1>2, <1>3, RememberFields, RememberCapped
  <2> HIDE DEF u
  <2> QED BY <2>1, DropPendingRelieves, RelievesCapped
<1> HIDE DEF u
<1> QED
  BY <1>1, <1>2, <1>3, RemoveCapped

\* A key of a page keeps the caps.
LEMMA ApplyRowCapped ==
  ASSUME NEW E, NEW R, History(E, R), NEW r, RegistryInv(r, E, R), Capped(r), NEW k \in Keys,
         NEW rows, rows[k] \in Presence \cup {None}, NEW q \in Revision,
         rows[k] # None => <<k, rows[k].incarnation, q>> \in E, NEW now
  PROVE  Capped(ApplyRow(r, k, rows, q, now))
<1>1. CASE rows[k] = None
  <2>1. ApplyRow(r, k, rows, q, now) = ApplyAbsentRow(r, k, q)
    BY <1>1, Zenon DEF ApplyRow
  <2> QED BY <2>1, ApplyAbsentRowCapped DEF RegistryInv
<1>2. CASE rows[k] # None
  <2> DEFINE x == rows[k]
  <2>1. x.incarnation \in Incarnation /\ x.epoch \in Time
    BY <1>2 DEF Presence
  <2>2. ApplyRow(r, k, rows, q, now) = ApplyPresentRow(r, k, x, q, now).reg
    BY <1>2, Zenon DEF ApplyRow
  <2>3. <<k, x.incarnation, q>> \in E
    BY <1>2
  <2> HIDE DEF x
  <2> QED BY <2>1, <2>2, <2>3, ApplyPresentRowFits DEF Fits
<1> QED
  BY <1>1, <1>2

\* What only chooses pages leaves the pending set, the memory and the
\* recovery alone.
SameWork(r, s) ==
    /\ s.pending = r.pending /\ s.deleted = r.deleted /\ s.recovery = r.recovery

\* Nothing of the class wants a page.
Served(r, c) ==
    /\ c = "admission" => Waiting(r) = {}
    /\ c = "walk" => r.run = None /\ r.needs = None
    /\ c = "recovery" => r.recovery = None \/ r.recovery.page # None

\* None is no request.
RequestsDiffer == \A c \in PageClass, S \in SUBSET Keys : Request(c, S) # None

\* What leaves the work alone adds nothing.
LEMMA SameWorkRelieves ==
  ASSUME NEW r, NEW s, SameWork(r, s)
  PROVE  Relieves(r, s) /\ Waiting(s) = Waiting(r)
  BY DEF SameWork, Relieves, Waiting

\* next_walk_page() without a page ends the run and the requirement.
LEMMA NextWalkServed ==
  ASSUME NEW E, NEW R, NEW r, RegistryInv(r, E, R), RequestsDiffer
  PROVE  /\ SameWork(r, NextWalk(r).reg)
         /\ NextWalk(r).request = None => Served(NextWalk(r).reg, "walk")
<1> DEFINE first == IF r.run = None THEN OpenRun(r) ELSE r
           closed == [first EXCEPT !.run = None]
           again == OpenRun(closed)
           ended == [r EXCEPT !.run = None, !.needs = None]
           keys(s) == FirstKeys(Walkable(s, s.run))
           page(s) == [reg |-> s, request |-> Request("walk", keys(s))]
           none == [reg |-> ended, request |-> None]
           n == NextWalk(r)
<1>1. r \in Registry
  BY DEF RegistryInv
<1>2. SameWork(r, ended) /\ Served(ended, "walk") /\ SameWork(r, r)
  BY <1>1 DEF Registry, SameWork, Served
<1>3. ASSUME NEW s \in Registry PROVE SameWork(s, OpenRun(s))
  BY <1>3 DEF OpenRun, Registry, SameWork
<1>4. ~(r.run = None /\ r.needs = None) => SameWork(r, first) /\ RegistryInv(first, E, R)
  BY <1>1, <1>2, <1>3, OpenRunInv
<1>5. ASSUME ~(r.run = None /\ r.needs = None)
      PROVE  SameWork(r, again)
  <2>1. first \in Registry /\ SameWork(r, first)
    BY <1>4, <1>5 DEF RegistryInv
  <2> HIDE DEF first
  <2>2. closed \in Registry /\ SameWork(first, closed)
    BY <2>1 DEF Registry, SameWork
  <2> HIDE DEF closed
  <2>3. SameWork(closed, again)
    BY <1>3, <2>2
  <2> HIDE DEF again
  <2> QED BY <2>1, <2>2, <2>3 DEF SameWork
<1>6. \A s : page(s).reg = s /\ page(s).request # None
  <2>1. \A s : keys(s) \in SUBSET Keys
    BY DEF FirstKeys, Walkable
  <2> HIDE DEF keys
  <2>2. \A s : page(s).reg = s /\ page(s).request = Request("walk", keys(s))
    OBVIOUS
  <2> HIDE DEF page
  <2> QED BY <2>1, <2>2 DEF RequestsDiffer, PageClass
<1>7. none.reg = ended
  OBVIOUS
<1>8. \/ (r.run = None /\ r.needs = None) /\ n = [reg |-> r, request |-> None]
      \/ ~(r.run = None /\ r.needs = None) /\ n = page(first)
      \/ ~(r.run = None /\ r.needs = None) /\ n = page(again)
      \/ n = none
  BY Zenon DEF NextWalk
<1> HIDE DEF first, again, page, none, n, ended
<1>9. SameWork(r, n.reg)
  BY <1>2, <1>4, <1>5, <1>6, <1>7, <1>8
<1>10. n.request = None => Served(n.reg, "walk")
  <2>1. r.run = None /\ r.needs = None => Served(r, "walk")
    BY DEF Served
  <2> QED BY <1>2, <1>6, <1>7, <1>8, <2>1
<1> QED
  BY <1>9, <1>10 DEF n

\* A class without a page is served, and stays so while the other classes are
\* asked.
LEMMA NextOfClassServed ==
  ASSUME NEW E, NEW R, NEW r, RegistryInv(r, E, R), NEW c \in PageClass, RequestsDiffer
  PROVE  /\ SameWork(r, NextOfClass(r, c).reg)
         /\ NextOfClass(r, c).request = None =>
               /\ Served(NextOfClass(r, c).reg, c)
               /\ \A d \in PageClass : Served(r, d) => Served(NextOfClass(r, c).reg, d)
<1>1. CASE c = "admission"
  <2> DEFINE q == IF Waiting(r) = {} THEN None ELSE Request(c, FirstKeys(Waiting(r)))
  <2>1. NextOfClass(r, c) = [reg |-> r, request |-> q]
    BY <1>1 DEF NextOfClass
  <2>2. q = None => Waiting(r) = {}
    <3>1. FirstKeys(Waiting(r)) \in SUBSET Keys
      BY DEF FirstKeys, Waiting
    <3> QED BY <3>1 DEF RequestsDiffer
  <2> HIDE DEF q
  <2>3. q = None => Served(r, c)
    BY <1>1, <2>2 DEF Served
  <2> QED BY <2>1, <2>3 DEF SameWork
<1>2. CASE c = "walk"
  <2> DEFINE n == NextWalk(r)
  <2>1. NextOfClass(r, c) = n
    BY <1>2 DEF NextOfClass
  <2>2. SameWork(r, n.reg) /\ (n.request = None => Served(n.reg, c))
    BY <1>2, NextWalkServed
  <2> HIDE DEF n
  <2>3. ASSUME n.request = None, NEW d \in PageClass, Served(r, d)
        PROVE  Served(n.reg, d)
    <3>1. CASE d = "walk"
      BY <1>2, <2>2, <2>3, <3>1
    <3>2. CASE d # "walk"
      <4>1. Waiting(n.reg) = Waiting(r) /\ n.reg.recovery = r.recovery
        BY <2>2, SameWorkRelieves DEF SameWork
      <4> QED BY <2>3, <3>2, <4>1 DEF Served
    <3> QED BY <3>1, <3>2
  <2> QED BY <2>1, <2>2, <2>3
<1>3. CASE c = "recovery"
  <2> DEFINE q == IF r.recovery # None /\ r.recovery.page = None
                  THEN Request(c, {}) ELSE None
  <2>1. NextOfClass(r, c) = [reg |-> r, request |-> q]
    BY <1>3 DEF NextOfClass
  <2>2. q = None => ~(r.recovery # None /\ r.recovery.page = None)
    BY DEF RequestsDiffer
  <2> HIDE DEF q
  <2>3. q = None => Served(r, c)
    BY <1>3, <2>2 DEF Served
  <2> QED BY <2>1, <2>3 DEF SameWork
<1> QED
  BY <1>1, <1>2, <1>3 DEF PageClass

\* next_page_request() adds nothing, and finds no page only when none is wanted
\* or a held recovery page can go on.
LEMMA NextPageServed ==
  ASSUME NEW E, NEW R, NEW r, RegistryInv(r, E, R), RequestsDiffer, NEW now
  PROVE  /\ Relieves(r, NextPage(r, now).reg)
         /\ NextPage(r, now).reg.recovery = r.recovery
         /\ NextPage(r, now).request = None =>
               RecoveryReady(NextPage(r, now).reg) \/ ~WantsPage(NextPage(r, now).reg)
<1> DEFINE s == PrunePending(r, now)
           c1 == s.turn
           c2 == Successor(c1)
           c3 == Successor(c2)
           n1 == NextOfClass(s, c1)
           n2 == NextOfClass(n1.reg, c2)
           n3 == NextOfClass(n2.reg, c3)
           n == NextPage(r, now)
<1>1. RegistryInv(s, E, R)
  BY PrunePendingInv
<1>2. Relieves(r, s) /\ s.recovery = r.recovery
  BY DEF PrunePending, RegistryInv, Registry, Relieves
<1>3. /\ c1 \in PageClass /\ c2 \in PageClass /\ c3 \in PageClass
      /\ \A d \in PageClass : d = c1 \/ d = c2 \/ d = c3
  <2>1. c1 \in PageClass
    BY <1>1 DEF RegistryInv, Registry
  <2> HIDE DEF c1
  <2> QED BY <2>1 DEF Successor, PageClass
<1> HIDE DEF s, c1, c2, c3
<1>4. /\ RegistryInv(n1.reg, E, R) /\ SameWork(s, n1.reg)
      /\ n1.request = None => Served(n1.reg, c1)
  BY <1>1, <1>3, NextOfClassInv, NextOfClassServed DEF NextOK
<1> HIDE DEF n1
<1>5. /\ RegistryInv(n2.reg, E, R) /\ SameWork(n1.reg, n2.reg)
      /\ n2.request = None => /\ Served(n2.reg, c2)
                              /\ Served(n1.reg, c1) => Served(n2.reg, c1)
  BY <1>3, <1>4, NextOfClassInv, NextOfClassServed DEF NextOK
<1> HIDE DEF n2
<1>6. /\ RegistryInv(n3.reg, E, R) /\ SameWork(n2.reg, n3.reg)
      /\ n3.request = None => /\ Served(n3.reg, c3)
                              /\ Served(n2.reg, c1) => Served(n3.reg, c1)
                              /\ Served(n2.reg, c2) => Served(n3.reg, c2)
  BY <1>3, <1>5, NextOfClassInv, NextOfClassServed DEF NextOK
<1>7. \/ RecoveryReady(s) /\ n = [reg |-> s, request |-> None]
      \/ n1.request # None /\ n = Turn(n1, c1)
      \/ n2.request # None /\ n = Turn(n2, c2)
      \/ n3.request # None /\ n = Turn(n3, c3)
      \/ n1.request = None /\ n2.request = None /\ n3.request = None /\ n = n3
  BY Zenon DEF NextPage, s, c1, c2, c3, n1, n2
<1> HIDE DEF n3, n
<1>8. ASSUME NEW m, NEW c, m.reg \in Registry
      PROVE  SameWork(m.reg, Turn(m, c).reg) /\ Turn(m, c).request = m.request
  <2> DEFINE u == m.reg
             x == Successor(c)
             v == [u EXCEPT !.turn = x]
  <2>1. Turn(m, c) = [reg |-> v, request |-> m.request]
    BY Zenon DEF Turn
  <2>2. u \in Registry
    BY <1>8
  <2> HIDE DEF u, x
  <2>3. SameWork(u, v)
    BY <2>2 DEF Registry, SameWork
  <2> HIDE DEF v
  <2> QED BY <2>1, <2>3 DEF u
<1>9. Relieves(r, n1.reg) /\ Relieves(r, n2.reg) /\ Relieves(r, n3.reg)
  BY <1>2, <1>4, <1>5, <1>6, SameWorkRelieves, RelievesTransitive
<1>10. ASSUME n1.request = None, n2.request = None, n3.request = None
       PROVE  ~WantsPage(n3.reg)
  <2>1. \A d \in PageClass : Served(n3.reg, d)
    BY <1>3, <1>4, <1>5, <1>6, <1>10
  <2> QED BY <2>1 DEF Served, WantsPage, PageClass
<1>11. /\ Relieves(r, Turn(n1, c1).reg) /\ Relieves(r, Turn(n2, c2).reg)
       /\ Relieves(r, Turn(n3, c3).reg)
       /\ Turn(n1, c1).request = n1.request /\ Turn(n2, c2).request = n2.request
       /\ Turn(n3, c3).request = n3.request
  BY <1>4, <1>5, <1>6, <1>8, <1>9, SameWorkRelieves, RelievesTransitive DEF RegistryInv
<1>12. Relieves(r, n.reg)
  BY <1>2, <1>7, <1>9, <1>11
<1>13. n.request = None => RecoveryReady(n.reg) \/ ~WantsPage(n.reg)
  BY <1>7, <1>10, <1>11
<1>14. n.reg.recovery = r.recovery
  BY <1>2, <1>4, <1>5, <1>6, <1>7, <1>8 DEF SameWork, RegistryInv
<1> QED
  BY <1>12, <1>13, <1>14 DEF n

\* The cell of a recovery is apart from both sets.
LEMMA RecoveryRelieves ==
  ASSUME NEW r \in Registry, NEW w
  PROVE  Relieves(r, [r EXCEPT !.recovery = w])
  BY DEF Registry, Relieves

\* Holding a recovery page adds nothing.
LEMMA HoldRecoveryPageRelieves ==
  ASSUME NEW r \in Registry, NEW rows, NEW q
  PROVE  Relieves(r, HoldRecoveryPage(r, rows, q))
<1> DEFINE p == [rows |-> rows, revision |-> q,
                 cursor |-> IF rows = <<>> THEN None
                            ELSE [epoch |-> rows[Len(rows)].epoch, key |-> rows[Len(rows)].key],
                 exhausted |-> Len(rows) < PageSize]
           w == [r.recovery EXCEPT !.page = p]
<1>1. HoldRecoveryPage(r, rows, q) = r \/ HoldRecoveryPage(r, rows, q) = [r EXCEPT !.recovery.page = p]
  BY Zenon DEF HoldRecoveryPage
<1> HIDE DEF p
<1>2. [r EXCEPT !.recovery.page = p] = [r EXCEPT !.recovery = w]
  OBVIOUS
<1> HIDE DEF w
<1> QED
  BY <1>1, <1>2, RecoveryRelieves, RelievesSelf

\* Finishing a recovery page adds nothing.
LEMMA FinishRecoveryPageRelieves ==
  ASSUME NEW r \in Registry
  PROVE  Relieves(r, FinishRecoveryPage(r))
<1> DEFINE w == [r.recovery EXCEPT !.cursor = r.recovery.page.cursor]
           x == [w EXCEPT !.page = None]
<1>1. \/ FinishRecoveryPage(r) = [r EXCEPT !.recovery = None]
      \/ FinishRecoveryPage(r)
            = [r EXCEPT !.recovery.cursor = r.recovery.page.cursor, !.recovery.page = None]
  BY Zenon DEF FinishRecoveryPage
<1>2. [r EXCEPT !.recovery.cursor = r.recovery.page.cursor, !.recovery.page = None]
        = [r EXCEPT !.recovery = x]
  BY DEF Registry
<1> HIDE DEF x
<1> QED
  BY <1>1, <1>2, RecoveryRelieves

\* Advancing a walk adds nothing.
LEMMA AdvanceWalkRelieves ==
  ASSUME NEW r \in Registry, NEW k
  PROVE  Relieves(r, AdvanceWalk(r, k))
<1> DEFINE x == [r.run EXCEPT !.cursor = k]
<1>1. AdvanceWalk(r, k) = r \/ AdvanceWalk(r, k) = [r EXCEPT !.run = x]
  BY DEF AdvanceWalk
<1> HIDE DEF x
<1>2. Relieves(r, [r EXCEPT !.run = x])
  BY DEF Registry, Relieves
<1> QED
  BY <1>1, <1>2, RelievesSelf

\* One row of a recovery page keeps the caps.
LEMMA RecoverRowCapped ==
  ASSUME NEW E, NEW R, History(E, R), NEW r, RegistryInv(r, E, R), Capped(r),
         r.recovery # None, r.recovery.page # None, r.recovery.page.rows # <<>>, NEW now
  PROVE  Capped(RecoverRow(r, now).reg)
<1> DEFINE held == r.recovery.page
           row == Head(held.rows)
           t == ApplyPresentRow(r, row.key, row, held.revision, now)
           u == t.reg
           w == [r.recovery EXCEPT !.page.rows = Tail(held.rows)]
           v == [u EXCEPT !.recovery = w]
<1>1. r \in Registry /\ r.recovery \in SeedRecovery /\ held \in RecoveryPage
  BY DEF RegistryInv, Registry, SeedRecovery
<1>2. /\ held.rows \in Seq(ActiveRow) /\ row \in ActiveRow /\ row = held.rows[1]
      /\ 1 \in DOMAIN held.rows /\ held.revision \in Revision
  BY <1>1 DEF RecoveryPage
<1>3. RowsTrue(held.rows, E, held.revision)
  BY DEF RegistryInv
<1>4. /\ row.key \in Keys /\ row.incarnation \in Incarnation /\ row.epoch \in Time
      /\ <<row.key, row.incarnation, held.revision>> \in E
  BY <1>2, <1>3 DEF RowsTrue, ActiveRow
<1>5. u \in Registry /\ Capped(u)
  BY <1>2, <1>4, ApplyPresentRowInv, ApplyPresentRowFits DEF RegistryInv, Fits
<1>6. RecoverRow(r, now).reg = u \/ RecoverRow(r, now).reg = v
  <2>1. RecoverRow(r, now) = t \/ RecoverRow(r, now) = Touched(v, t.touch)
    BY Zenon DEF RecoverRow
  <2> HIDE DEF v, t
  <2> QED BY <2>1 DEF Touched
<1> HIDE DEF u, w
<1> QED
  BY <1>5, <1>6, RecoveryRelieves, RelievesCapped

----------------------------------------------------------------------------
(* What an operator on one key leaves alone.                               *)

\* s differs from r in the evidence of k and in the deletion memory.
OneKey(r, s, k) ==
    /\ s.anonymous = r.anonymous /\ s.recovery = r.recovery
    /\ s.needs = r.needs /\ s.run = r.run /\ s.broad_through = r.broad_through
    /\ \A j \in Keys : j # k => s.live[j] = r.live[j] /\ s.pending[j] = r.pending[j]

\* Doing nothing is an operation on one key.
LEMMA OneKeySelf ==
  ASSUME NEW r, NEW k
  PROVE  OneKey(r, r, k)
  BY DEF OneKey

\* Operations on one key compose.
LEMMA OneKeyTransitive ==
  ASSUME NEW r, NEW s, NEW t, NEW k, OneKey(r, s, k), OneKey(s, t, k)
  PROVE  OneKey(r, t, k)
  BY DEF OneKey

\* Evicting an absence changes the deletion memory only.
LEMMA EvictOneKey ==
  ASSUME NEW r \in Registry, NEW k
  PROVE  OneKey(r, Evict(r), k)
<1> DEFINE d == [r.deleted EXCEPT ![Oldest(r.deleted)] = None]
           f == Max2(r.forgotten_through, r.deleted[Oldest(r.deleted)].absent_at)
<1>1. Evict(r) = [r EXCEPT !.deleted = d, !.forgotten_through = f]
  BY DEF Evict
<1> HIDE DEF d, f
<1> QED BY <1>1 DEF Registry, OneKey

\* Remembering an absence changes the deletion memory only.
LEMMA RememberOneKey ==
  ASSUME NEW r \in Registry, NEW k \in Keys, NEW i \in Incarnation, NEW q \in Revision
  PROVE  OneKey(r, Remember(r, k, i, q), k)
<1> DEFINE old == r.deleted[k]
           new == IF old = None
                  THEN [incarnation |-> i, absent_at |-> q]
                  ELSE [incarnation |-> Max2(old.incarnation, i),
                        absent_at |-> Max2(old.absent_at, q)]
           t == [r EXCEPT !.deleted[k] = new, !.gone[k] = Max2(@, i)]
<1>1. new \in Deletion
  BY DEF Registry, Deletion, Revision, Incarnation, Max2
<1>2. t \in Registry
  <2> HIDE DEF new
  <2>1. Max2(r.gone[k], i) \in Incarnation
    BY DEF Registry, Max2, Incarnation
  <2> QED BY <1>1, <2>1 DEF Registry
<1>3. OneKey(r, t, k)
  <2> HIDE DEF new
  <2> QED BY DEF Registry, OneKey
<1>4. Remember(r, k, i, q) = t \/ Remember(r, k, i, q) = Evict(t)
  BY DEF Remember
<1> HIDE DEF t
<1> QED
  BY <1>2, <1>3, <1>4, EvictOneKey, OneKeyTransitive

\* Setting what waits for a key.
LEMMA PendingOneKey ==
  ASSUME NEW r \in Registry, NEW k \in Keys, NEW v
  PROVE  OneKey(r, [r EXCEPT !.pending[k] = v], k)
  BY DEF Registry, OneKey

\* Dropping what waits for a key.
LEMMA DropPendingOneKey ==
  ASSUME NEW r \in Registry, NEW k \in Keys
  PROVE  OneKey(r, DropPending(r, k), k)
  BY PendingOneKey DEF DropPending

\* Inserting a live entry.
LEMMA InsertLiveOneKey ==
  ASSUME NEW r \in Registry, NEW k \in Keys, NEW entry
  PROVE  OneKey(r, InsertLive(r, k, entry), k)
<1> DEFINE d == r.deadlines \cup {SessionDeadline(k, entry)}
           w == r.working + Weight(entry) - Weight(r.live[k])
<1>1. \/ InsertLive(r, k, entry) = r
      \/ InsertLive(r, k, entry) = [r EXCEPT !.live[k] = entry, !.deadlines = d, !.working = w]
  BY DEF InsertLive
<1> HIDE DEF d, w
<1>2. OneKey(r, [r EXCEPT !.live[k] = entry, !.deadlines = d, !.working = w], k)
  BY DEF Registry, OneKey
<1> QED BY <1>1, <1>2, OneKeySelf

\* Ending a live entry.
LEMMA EndLiveOneKey ==
  ASSUME NEW r \in Registry, NEW k \in Keys
  PROVE  OneKey(r, EndLive(r, k), k)
<1> DEFINE d == r.deadlines \ {SessionDeadline(k, r.live[k])}
           w == r.working - Weight(r.live[k])
           s == [r EXCEPT !.live[k] = None, !.deadlines = d, !.working = w]
           v == [r.view EXCEPT ![k] = "absent"]
<1>1. RemoveLive(r, k) = r \/ RemoveLive(r, k) = s
  BY DEF RemoveLive
<1> HIDE DEF d, w
<1>2. OneKey(r, s, k) /\ s.view = r.view /\ DOMAIN s = DOMAIN r
  BY DEF Registry, OneKey
<1> HIDE DEF s
<1>3. \A t : t = r \/ t = s => OneKey(r, [t EXCEPT !.view[k] = "absent"], k)
  BY <1>2 DEF Registry, OneKey
<1> QED BY <1>1, <1>3 DEF EndLive

\* defer
LEMMA DeferOneKey ==
  ASSUME NEW r \in Registry, NEW k \in Keys, NEW fact
  PROVE  OneKey(r, Defer(r, k, fact).reg, k)
<1> DEFINE held == r.pending[k]
           merged == [fact EXCEPT !.at = Max2(held.at, fact.at),
                                  !.revision = Max2(held.revision, fact.revision)]
<1>1. \/ Defer(r, k, fact).reg = r
      \/ Defer(r, k, fact).reg = [r EXCEPT !.pending[k] = fact]
      \/ Defer(r, k, fact).reg = [r EXCEPT !.pending[k] = merged]
  BY DEF Defer, Touched
<1> HIDE DEF merged
<1> QED BY <1>1, PendingOneKey, OneKeySelf

\* establish(), the live incarnation.
LEMMA RefreshOneKey ==
  ASSUME NEW r \in Registry, NEW k \in Keys, NEW fact
  PROVE  OneKey(r, Refresh(r, k, fact).reg, k)
<1> DEFINE entry == r.live[k]
           seen == [entry EXCEPT !.exists_at = Max2(@, fact.revision)]
           active == [seen EXCEPT !.last_activity_at = fact.at, !.quiet_published = FALSE]
           d == (r.deadlines \ {SessionDeadline(k, entry)}) \cup {SessionDeadline(k, active)}
           w == r.working + 1 - Weight(entry)
           s == [r EXCEPT !.live[k] = seen]
           t == [r EXCEPT !.live[k] = active, !.deadlines = d, !.working = w]
<1>1. Refresh(r, k, fact) = Touched(s, "unchanged") \/ Refresh(r, k, fact) = Touched(t, "advanced")
  BY Zenon DEF Refresh
<1> HIDE DEF seen, active, d, w
<1>2. OneKey(r, s, k) /\ OneKey(r, t, k)
  BY DEF Registry, OneKey
<1> HIDE DEF s, t
<1> QED BY <1>1, <1>2 DEF Touched

\* establish(), the last part.
LEMMA AdmitOneKey ==
  ASSUME NEW r \in Registry, NEW k \in Keys, NEW fact \in Existence
  PROVE  OneKey(r, Admit(r, k, fact).reg, k)
<1> DEFINE held == r.pending[k]
           merged == [fact EXCEPT !.at = Max2(@, held.at),
                                  !.revision = Max2(@, held.revision)]
           cleared == DropPending(r, k)
           s == Remember(r, k, fact.incarnation, held.revision)
           t == Remember(cleared, k, held.incarnation, fact.revision)
<1>1. \/ Admit(r, k, fact) = Touched(InsertLive(r, k, NewEntry(fact)), "added")
      \/ held # None /\ Admit(r, k, fact) = Touched(s, "stale")
      \/ held # None /\ Admit(r, k, fact) = Touched(InsertLive(cleared, k, NewEntry(merged)), "added")
      \/ held # None /\ Admit(r, k, fact) = Touched(InsertLive(t, k, NewEntry(fact)), "added")
  BY Zenon DEF Admit
<1>2. /\ fact.incarnation \in Incarnation /\ fact.revision \in Revision
      /\ held # None => held.incarnation \in Incarnation /\ held.revision \in Revision
  BY DEF Existence, Registry
<1>3. cleared \in Registry /\ OneKey(r, cleared, k)
  BY DropPendingSame, DropPendingOneKey
<1> HIDE DEF cleared, merged
<1>4. OneKey(r, InsertLive(r, k, NewEntry(fact)), k)
  BY InsertLiveOneKey
<1>5. OneKey(r, InsertLive(cleared, k, NewEntry(merged)), k)
  BY <1>3, InsertLiveOneKey, OneKeyTransitive
<1>6. held # None => OneKey(r, s, k)
  BY <1>2, RememberOneKey
<1>7. held # None => OneKey(r, InsertLive(t, k, NewEntry(fact)), k)
  <2> SUFFICES ASSUME held # None PROVE OneKey(r, InsertLive(t, k, NewEntry(fact)), k)
    OBVIOUS
  <2>1. t \in Registry /\ OneKey(cleared, t, k)
    BY <1>2, <1>3, RememberOneKey, RememberFields
  <2> HIDE DEF t
  <2> QED BY <1>3, <2>1, InsertLiveOneKey, OneKeyTransitive
<1> HIDE DEF s, t, held
<1>8. \A x, y : Touched(x, y).reg = x
  BY DEF Touched
<1> QED BY <1>1, <1>4, <1>5, <1>6, <1>7, <1>8

\* establish(), the guards.
LEMMA GuardedOneKey ==
  ASSUME NEW r \in Registry, NEW k \in Keys, NEW fact \in Existence
  PROVE  OneKey(r, Guarded(r, k, fact).reg, k)
<1>1. \/ Guarded(r, k, fact) = Touched(r, "stale")
      \/ Guarded(r, k, fact) = Defer(r, k, fact)
      \/ Guarded(r, k, fact) = Admit(r, k, fact)
  BY Zenon DEF Guarded
<1>2. OneKey(r, Touched(r, "stale").reg, k)
  BY OneKeySelf DEF Touched
<1> QED BY <1>1, <1>2, DeferOneKey, AdmitOneKey

\* establish
LEMMA EstablishOneKey ==
  ASSUME NEW r \in Registry, NEW k \in Keys, NEW fact \in Existence, NEW now
  PROVE  OneKey(r, Establish(r, k, fact, now).reg, k)
<1> DEFINE entry == r.live[k]
           ended == EndLive(r, k)
           replaced == Remember(ended, k, entry.incarnation, fact.revision)
<1>1. \/ Establish(r, k, fact, now) = Touched(r, "stale")
      \/ Establish(r, k, fact, now) = Guarded(r, k, fact)
      \/ Establish(r, k, fact, now) = Refresh(r, k, fact)
      \/ entry # None /\ Establish(r, k, fact, now) = Guarded(replaced, k, fact)
  BY Zenon DEF Establish
<1>2. OneKey(r, Touched(r, "stale").reg, k)
  BY OneKeySelf DEF Touched
<1>3. ASSUME entry # None PROVE OneKey(r, Guarded(replaced, k, fact).reg, k)
  <2>1. entry.incarnation \in Incarnation /\ fact.revision \in Revision
    BY <1>3 DEF Registry, LiveEntry, Existence
  <2>2. ended \in Registry /\ OneKey(r, ended, k)
    BY EndLiveFields, EndLiveOneKey
  <2> HIDE DEF ended
  <2>3. replaced \in Registry /\ OneKey(ended, replaced, k)
    BY <2>1, <2>2, RememberFields, RememberOneKey
  <2> HIDE DEF replaced
  <2> QED BY <2>2, <2>3, GuardedOneKey, OneKeyTransitive
<1> HIDE DEF replaced
<1> QED BY <1>1, <1>2, <1>3, GuardedOneKey, RefreshOneKey

\* observe
LEMMA ObserveOneKey ==
  ASSUME NEW E, NEW R, History(E, R), NEW r, RegistryInv(r, E, R), NEW k \in Keys,
         NEW fact, TrueFact(E, k, fact), NEW now
  PROVE  OneKey(r, Observe(r, k, fact, now).reg, k)
<1> DEFINE t == Establish(r, k, fact, now)
<1>1. t.reg \in Registry
  BY EstablishInv DEF RegistryInv
<1>2. OneKey(r, t.reg, k)
  BY EstablishOneKey DEF RegistryInv, TrueFact
<1> HIDE DEF t
<1> DEFINE u == t.reg
           s == [u EXCEPT !.view[k] = "working"]
<1>3. Observe(r, k, fact, now).reg = u \/ Observe(r, k, fact, now).reg = s
  <2>1. Observe(r, k, fact, now) = t \/ Observe(r, k, fact, now) = Touched(s, t.touch)
    BY Zenon DEF Observe, Narrate, t
  <2> HIDE DEF s
  <2> QED BY <2>1 DEF Touched
<1>4. OneKey(u, s, k)
  <2> HIDE DEF u
  <2>1. u \in Registry
    BY <1>1 DEF u
  <2> QED BY <2>1 DEF Registry, OneKey
<1> HIDE DEF s
<1> QED BY <1>2, <1>3, <1>4, OneKeyTransitive

\* remove
LEMMA RemoveOneKey ==
  ASSUME NEW r \in Registry, NEW k \in Keys, NEW i \in Incarnation, NEW q \in Revision
  PROVE  OneKey(r, Remove(r, k, i, q), k)
<1> DEFINE s == Remember(r, k, i, q)
<1>1. s \in Registry /\ OneKey(r, s, k)
  BY RememberFields, RememberOneKey
<1>2. \/ Remove(r, k, i, q) = s \/ Remove(r, k, i, q) = EndLive(s, k)
      \/ Remove(r, k, i, q) = DropPending(s, k)
  BY Zenon DEF Remove
<1> HIDE DEF s
<1>3. OneKey(s, EndLive(s, k), k) /\ OneKey(s, DropPending(s, k), k)
  BY <1>1, EndLiveOneKey, DropPendingOneKey, Zenon
<1> QED BY <1>1, <1>2, <1>3, OneKeyTransitive, Zenon

\* apply_present_row
LEMMA ApplyPresentRowOneKey ==
  ASSUME NEW E, NEW R, History(E, R), NEW r, RegistryInv(r, E, R), NEW k \in Keys,
         NEW row, row.incarnation \in Incarnation, row.epoch \in Time,
         NEW q \in Revision, <<k, row.incarnation, q>> \in E, NEW now
  PROVE  OneKey(r, ApplyPresentRow(r, k, row, q, now).reg, k)
<1> DEFINE held == r.pending[k]
           fact(at) == [incarnation |-> row.incarnation, at |-> at, revision |-> q]
           s == DropPending(r, k)
           t == ApplyPresentRow(r, k, row, q, now)
<1>1. \A at \in Time : TrueFact(E, k, fact(at))
  BY DEF TrueFact, Existence
<1>2. held # None => /\ <<k, held.incarnation, held.revision>> \in E
                     /\ held.incarnation \in Incarnation /\ held.revision \in Revision
                     /\ held.at \in Time /\ r.live[k] = None
  BY HeldFact DEF TrueFact, Existence
<1>3. /\ r \in Registry /\ RegistryInv(s, E, R) /\ s \in Registry /\ s.live = r.live
      /\ OneKey(r, s, k)
  <2>1. r \in Registry
    BY DEF RegistryInv
  <2>2. RegistryInv(s, E, R)
    BY PendingInv, Zenon DEF DropPending
  <2>3. OneKey(r, s, k)
    BY <2>1, DropPendingOneKey, Zenon
  <2>4. s.live = r.live
    BY <2>1 DEF DropPending, Registry
  <2> HIDE DEF s
  <2> QED BY <2>1, <2>2, <2>3, <2>4 DEF RegistryInv
<1> HIDE DEF s, fact
<1>4. CASE held = None
  <2>1. t = Observe(r, k, fact(row.epoch), now)
    BY <1>4, Zenon DEF ApplyPresentRow, fact
  <2> QED BY <1>1, <2>1, ObserveOneKey
<1>5. CASE held # None /\ held.incarnation = row.incarnation
  <2>1. t = Observe(s, k, fact(Max2(held.at, row.epoch)), now)
    BY <1>5, Zenon DEF ApplyPresentRow, fact, s
  <2>2. Max2(held.at, row.epoch) \in Time
    BY <1>2, <1>5 DEF Max2
  <2>3. OneKey(s, t.reg, k)
    BY <1>1, <1>3, <2>1, <2>2, ObserveOneKey
  <2> QED BY <1>3, <2>3, OneKeyTransitive
<1>6. CASE held # None /\ held.incarnation < row.incarnation
  <2> DEFINE u == Remember(s, k, held.incarnation, q)
  <2>1. t = Observe(u, k, fact(row.epoch), now)
    <3>1. held.incarnation # row.incarnation
      BY <1>2, <1>6 DEF Incarnation
    <3> QED BY <1>6, <3>1, Zenon DEF ApplyPresentRow, fact, s
  <2>2. Gone(E, R, k, held.incarnation, q)
    BY <1>2, <1>6, GoneBelow
  <2>3. RegistryInv(u, E, R) /\ OneKey(s, u, k)
    <3>1. RegistryInv(u, E, R)
      BY <1>2, <1>3, <1>6, <2>2, RememberInv
    <3>2. OneKey(s, u, k)
      BY <1>2, <1>3, <1>6, RememberOneKey
    <3> QED BY <3>1, <3>2
  <2> HIDE DEF u
  <2>4. OneKey(u, t.reg, k)
    BY <1>1, <2>1, <2>3, ObserveOneKey
  <2> QED BY <1>3, <2>3, <2>4, OneKeyTransitive
<1>7. CASE held # None /\ held.incarnation > row.incarnation
  <2> DEFINE u == Remember(r, k, row.incarnation, held.revision)
  <2>1. t = Touched(u, "stale")
    <3>1. held.incarnation # row.incarnation /\ ~(held.incarnation < row.incarnation)
      BY <1>2, <1>7 DEF Incarnation
    <3> QED BY <1>7, <3>1, Zenon DEF ApplyPresentRow
  <2>2. OneKey(r, u, k)
    BY <1>2, <1>3, <1>7, RememberOneKey
  <2> HIDE DEF u
  <2> QED BY <2>1, <2>2 DEF Touched
<1> QED
  BY <1>2, <1>4, <1>5, <1>6, <1>7 DEF Incarnation

\* apply_absent_row
LEMMA ApplyAbsentRowOneKey ==
  ASSUME NEW r \in Registry, NEW k \in Keys, NEW q \in Revision
  PROVE  OneKey(r, ApplyAbsentRow(r, k, q), k)
<1> DEFINE held == r.pending[k]
           entry == r.live[k]
           u == Remember(r, k, held.incarnation, q)
<1>1. \/ held # None /\ ApplyAbsentRow(r, k, q) = DropPending(u, k)
      \/ entry # None /\ ApplyAbsentRow(r, k, q) = Remove(r, k, entry.incarnation, q)
      \/ ApplyAbsentRow(r, k, q) = r
  BY Zenon DEF ApplyAbsentRow
<1>2. /\ held # None => held.incarnation \in Incarnation
      /\ entry # None => entry.incarnation \in Incarnation
  BY DEF Registry, Existence, LiveEntry
<1>3. held # None => OneKey(r, DropPending(u, k), k)
  BY <1>2, RememberFields, RememberOneKey, DropPendingOneKey, OneKeyTransitive
<1>4. entry # None => OneKey(r, Remove(r, k, entry.incarnation, q), k)
  BY <1>2, RemoveOneKey
<1> HIDE DEF u, held, entry
<1> QED BY <1>1, <1>3, <1>4, OneKeySelf

\* One key of a presence page.
LEMMA ApplyRowOneKey ==
  ASSUME NEW E, NEW R, History(E, R), NEW r, RegistryInv(r, E, R), NEW k \in Keys,
         NEW rows, rows[k] # None => rows[k] \in Presence,
         NEW q \in Revision, rows[k] # None => <<k, rows[k].incarnation, q>> \in E, NEW now
  PROVE  OneKey(r, ApplyRow(r, k, rows, q, now), k)
<1>1. CASE rows[k] = None
  BY <1>1, ApplyAbsentRowOneKey DEF ApplyRow, RegistryInv
<1>2. CASE rows[k] # None
  <2>1. rows[k].incarnation \in Incarnation /\ rows[k].epoch \in Time
    BY <1>2 DEF Presence
  <2> QED BY <1>2, <2>1, ApplyPresentRowOneKey DEF ApplyRow
<1> QED BY <1>1, <1>2

----------------------------------------------------------------------------
(* What the operators do to the anonymous activity.                        *)

\* anonymous(): an expired or older touch changes nothing, a newer one takes over
\* the generation and the later of the two times.
LEMMA AnonymousTouchEffect ==
  ASSUME NEW r \in Registry, NEW a \in Agents, NEW at \in Time, NEW g \in Nat, NEW now
  PROVE  LET s == AnonymousTouch(r, a, at, g, now)
             e == r.anonymous[a]
         IN /\ \A b \in Agents : b # a => s.anonymous[b] = r.anonymous[b]
            /\ \/ s.anonymous[a] = e /\ (now - at >= QuietWindow \/ (e # None /\ g <= e.generation))
               \/ /\ s.anonymous[a] = [generation |-> g, at |-> at]
                  /\ e = None \/ ~(g <= e.generation)
               \/ /\ s.anonymous[a] = [generation |-> g, at |-> e.at]
                  /\ e # None /\ ~(g <= e.generation) /\ at <= e.at
<1> DEFINE entry == r.anonymous[a]
           new == [generation |-> g, at |-> at]
           kept == [entry EXCEPT !.generation = g]
           added == [r EXCEPT !.anonymous[a] = new,
                              !.deadlines = @ \cup {AnonymousDeadline(a, new)},
                              !.anonymousView = @ \cup {a}]
           same == [r EXCEPT !.anonymous[a] = kept]
           moved == [r EXCEPT !.anonymous[a] = new,
                              !.deadlines = (@ \ {AnonymousDeadline(a, entry)})
                                              \cup {AnonymousDeadline(a, new)}]
           s == AnonymousTouch(r, a, at, g, now)
<1>1. \/ s = r /\ (now - at >= QuietWindow \/ (entry # None /\ g <= entry.generation))
      \/ s = added /\ entry = None
      \/ s = moved /\ ~(g <= entry.generation)
      \/ s = same /\ entry # None /\ ~(g <= entry.generation) /\ at <= entry.at
  BY Zenon DEF AnonymousTouch
<1>2. entry # None => kept = [generation |-> g, at |-> entry.at]
  BY DEF Registry, AnonymousEntry
<1> HIDE DEF new, kept, s
<1>3. /\ added.anonymous = [r.anonymous EXCEPT ![a] = new]
      /\ moved.anonymous = [r.anonymous EXCEPT ![a] = new]
      /\ same.anonymous = [r.anonymous EXCEPT ![a] = kept]
      /\ DOMAIN r.anonymous = Agents
  BY DEF Registry
<1> HIDE DEF added, same, moved, entry
<1> QED
  BY <1>1, <1>2, <1>3 DEF s, new, entry

\* cover(): only a touch that was made before the capture is cleared.
LEMMA CoverEffect ==
  ASSUME NEW r \in Registry, NEW a \in Agents, NEW through
  PROVE  LET s == Cover(r, a, through)
             e == r.anonymous[a]
         IN /\ \A b \in Agents : b # a => s.anonymous[b] = r.anonymous[b]
            /\ \/ s.anonymous[a] = e
               \/ s.anonymous[a] = None /\ e # None /\ e.generation <= through
<1>1. ClearAnonymous(r, a).anonymous = [r.anonymous EXCEPT ![a] = None]
  BY DEF ClearAnonymous, Registry
<1>2. DOMAIN r.anonymous = Agents
  BY DEF Registry
<1>3. \/ Cover(r, a, through) = r
      \/ /\ Cover(r, a, through) = ClearAnonymous(r, a)
         /\ r.anonymous[a] # None /\ r.anonymous[a].generation <= through
  BY Zenon DEF Cover
<1> QED BY <1>1, <1>2, <1>3

\* expire(): an anonymous touch is cleared only past its deadline.
LEMMA ExpireEffect ==
  ASSUME NEW r \in Registry, NEW d \in r.deadlines, NEW now, NEW b \in Agents
  PROVE  LET s == ExpireOne(r, d, now)
             e == r.anonymous[b]
         IN \/ s.anonymous[b] = e
            \/ s.anonymous[b] = None /\ e # None /\ ~(now - e.at < QuietWindow)
<1>1. d[2] \in DeadlineKey
  BY DEF Registry
<1>2. CASE d[2][1] = "session"
  <2> DEFINE k == d[2][2]
             entry == r.live[k]
             quiet == [entry EXCEPT !.quiet_published = TRUE]
             s == [r EXCEPT !.live[k] = quiet,
                            !.deadlines = (@ \ {d}) \cup {SessionDeadline(k, quiet)},
                            !.working = @ - 1, !.view[k] = "quiet"]
             t == [r EXCEPT !.deadlines = (@ \ {d}) \cup {SessionDeadline(k, entry)}]
             u == [r EXCEPT !.deadlines = @ \ {d}]
  <2>1. k \in Keys
    BY <1>1, <1>2 DEF DeadlineKey
  <2>2. ExpireOne(r, d, now) = ExpireSession(r, d, now)
    BY <1>2, Zenon DEF ExpireOne
  <2>3. \/ ExpireSession(r, d, now) = u \/ ExpireSession(r, d, now) = EndLive(r, k)
        \/ ExpireSession(r, d, now) = s \/ ExpireSession(r, d, now) = t
    BY Zenon DEF ExpireSession
  <2> HIDE DEF quiet, entry, k
  <2>4. u.anonymous = r.anonymous /\ s.anonymous = r.anonymous /\ t.anonymous = r.anonymous
    BY DEF Registry
  <2> HIDE DEF u, s, t
  <2>5. EndLive(r, k).anonymous = r.anonymous
    BY <2>1, EndLiveOneKey DEF OneKey
  <2> QED BY <2>2, <2>3, <2>4, <2>5
<1>3. CASE d[2][1] # "session"
  <2> DEFINE a == d[2][2]
             t == [r EXCEPT !.deadlines = (@ \ {d}) \cup {AnonymousDeadline(a, r.anonymous[a])}]
             u == [r EXCEPT !.deadlines = @ \ {d}]
             c == ClearAnonymous(r, a)
  <2>1. ExpireOne(r, d, now) = ExpireAnonymous(r, d, now)
    BY <1>3, Zenon DEF ExpireOne
  <2>2. \/ ExpireAnonymous(r, d, now) = u \/ ExpireAnonymous(r, d, now) = t
        \/ /\ ExpireAnonymous(r, d, now) = c
           /\ r.anonymous[a] # None /\ ~(now - r.anonymous[a].at < QuietWindow)
    BY Zenon DEF ExpireAnonymous
  <2>3. c.anonymous = [r.anonymous EXCEPT ![a] = None] /\ DOMAIN r.anonymous = Agents
    BY DEF ClearAnonymous, Registry
  <2> HIDE DEF a, c
  <2>4. u.anonymous = r.anonymous /\ t.anonymous = r.anonymous
    BY DEF Registry
  <2> HIDE DEF u, t
  <2> QED BY <2>1, <2>2, <2>3, <2>4
<1> QED BY <1>2, <1>3

----------------------------------------------------------------------------
(* Whose activity an entry holds: no evidence of incarnation i of k is     *)
(* newer than m.                                                           *)

FactWithin(fact, i, m) == fact.incarnation = i => fact.at <= m

EntryWithin(entry, i, m) == entry.incarnation = i => entry.last_activity_at <= m

KeyWithin(r, k, i, m) ==
    /\ r.live[k] # None => EntryWithin(r.live[k], i, m)
    /\ r.pending[k] # None => FactWithin(r.pending[k], i, m)

\* Evidence of k that is kept or dropped.
Keeps(r, s, k) ==
    s.live[k] \in {None, r.live[k]} /\ s.pending[k] \in {None, r.pending[k]}

\* Dropping evidence leaves it within its reach.
LEMMA KeepsWithin ==
  ASSUME NEW r, NEW s, NEW k, NEW i, NEW m, Keeps(r, s, k), KeyWithin(r, k, i, m)
  PROVE  KeyWithin(s, k, i, m)
  BY DEF Keeps, KeyWithin

\* What the operators on the memory and the removals keep.
LEMMA RemovalKeeps ==
  ASSUME NEW r \in Registry, NEW k \in Keys
  PROVE  /\ Keeps(r, EndLive(r, k), k) /\ Keeps(r, DropPending(r, k), k)
         /\ DropPending(r, k) \in Registry /\ EndLive(r, k) \in Registry
         /\ \A i \in Incarnation, q \in Revision :
              Keeps(r, Remember(r, k, i, q), k) /\ Remember(r, k, i, q) \in Registry
<1>1. /\ EndLive(r, k).live = [r.live EXCEPT ![k] = None] /\ EndLive(r, k).pending = r.pending
      /\ EndLive(r, k) \in Registry
  BY EndLiveFields
<1>2. DOMAIN r.live = Keys /\ DOMAIN r.pending = Keys
  BY DEF Registry
<1>3. Keeps(r, EndLive(r, k), k)
  <2> HIDE DEF EndLive
  <2> QED BY <1>1, <1>2 DEF Keeps
<1>4. Keeps(r, DropPending(r, k), k) /\ DropPending(r, k) \in Registry
  BY DEF Registry, DropPending, Keeps
<1>5. ASSUME NEW i \in Incarnation, NEW q \in Revision
      PROVE  Keeps(r, Remember(r, k, i, q), k) /\ Remember(r, k, i, q) \in Registry
  BY RememberFields DEF Keeps
<1> QED BY <1>1, <1>3, <1>4, <1>5

\* Inserting a live entry.
LEMMA InsertLiveWithin ==
  ASSUME NEW r \in Registry, NEW k \in Keys, NEW entry, NEW i, NEW m,
         KeyWithin(r, k, i, m), EntryWithin(entry, i, m)
  PROVE  KeyWithin(InsertLive(r, k, entry), k, i, m)
<1> DEFINE d == r.deadlines \cup {SessionDeadline(k, entry)}
           w == r.working + Weight(entry) - Weight(r.live[k])
           s == [r EXCEPT !.live[k] = entry, !.deadlines = d, !.working = w]
<1>1. InsertLive(r, k, entry) = r \/ InsertLive(r, k, entry) = s
  BY DEF InsertLive
<1> HIDE DEF d, w
<1>2. s.live[k] = entry /\ s.pending = r.pending
  BY DEF Registry
<1> HIDE DEF s
<1>3. KeyWithin(s, k, i, m)
  BY <1>2 DEF KeyWithin
<1> QED BY <1>1, <1>3

\* defer
LEMMA DeferWithin ==
  ASSUME NEW r \in Registry, NEW k \in Keys, NEW fact \in Existence, NEW i, NEW m \in Int,
         KeyWithin(r, k, i, m), FactWithin(fact, i, m)
  PROVE  KeyWithin(Defer(r, k, fact).reg, k, i, m)
<1> DEFINE held == r.pending[k]
           merged == [fact EXCEPT !.at = Max2(held.at, fact.at),
                                  !.revision = Max2(held.revision, fact.revision)]
           put(v) == [r EXCEPT !.pending[k] = v]
<1>1. \/ Defer(r, k, fact).reg = r
      \/ Defer(r, k, fact).reg = put(fact)
      \/ /\ held # None /\ held.incarnation = fact.incarnation
         /\ Defer(r, k, fact).reg = put(merged)
  BY DEF Defer, Touched
<1>2. merged.incarnation = fact.incarnation /\ merged.at = Max2(held.at, fact.at)
  BY DEF Existence
<1>3. held # None => held.at \in Int /\ fact.at \in Int
  BY DEF Registry, Existence, Time
<1>4. \A v : put(v).live = r.live /\ put(v).pending[k] = v
  BY DEF Registry
<1> HIDE DEF merged, put
<1>5. held # None /\ held.incarnation = fact.incarnation => FactWithin(merged, i, m)
  BY <1>2, <1>3 DEF FactWithin, KeyWithin, Max2
<1>6. \A v : FactWithin(v, i, m) => KeyWithin(put(v), k, i, m)
  BY <1>4 DEF KeyWithin
<1> HIDE DEF held
<1> QED BY <1>1, <1>5, <1>6

\* establish(), the live incarnation.
LEMMA RefreshWithin ==
  ASSUME NEW r \in Registry, NEW k \in Keys, NEW fact \in Existence, NEW i, NEW m,
         r.live[k] # None, r.live[k].incarnation = fact.incarnation,
         KeyWithin(r, k, i, m), FactWithin(fact, i, m)
  PROVE  KeyWithin(Refresh(r, k, fact).reg, k, i, m)
<1> DEFINE entry == r.live[k]
           seen == [entry EXCEPT !.exists_at = Max2(@, fact.revision)]
           active == [seen EXCEPT !.last_activity_at = fact.at, !.quiet_published = FALSE]
           d == (r.deadlines \ {SessionDeadline(k, entry)}) \cup {SessionDeadline(k, active)}
           w == r.working + 1 - Weight(entry)
           s == [r EXCEPT !.live[k] = seen]
           t == [r EXCEPT !.live[k] = active, !.deadlines = d, !.working = w]
<1>1. Refresh(r, k, fact) = Touched(s, "unchanged") \/ Refresh(r, k, fact) = Touched(t, "advanced")
  BY Zenon DEF Refresh
<1>2. /\ seen.incarnation = entry.incarnation /\ seen.last_activity_at = entry.last_activity_at
      /\ active.incarnation = entry.incarnation /\ active.last_activity_at = fact.at
  BY DEF Registry, LiveEntry
<1> HIDE DEF seen, active, d, w
<1>3. s.live[k] = seen /\ t.live[k] = active /\ s.pending = r.pending /\ t.pending = r.pending
  BY DEF Registry
<1> HIDE DEF s, t
<1>4. KeyWithin(s, k, i, m) /\ KeyWithin(t, k, i, m)
  BY <1>2, <1>3 DEF KeyWithin, EntryWithin, FactWithin
<1> QED BY <1>1, <1>4 DEF Touched

\* establish(), the last part: the time of another incarnation that waited is not merged.
LEMMA AdmitWithin ==
  ASSUME NEW r \in Registry, NEW k \in Keys, NEW fact \in Existence, NEW i, NEW m \in Int,
         KeyWithin(r, k, i, m), FactWithin(fact, i, m)
  PROVE  KeyWithin(Admit(r, k, fact).reg, k, i, m)
<1> DEFINE held == r.pending[k]
           merged == [fact EXCEPT !.at = Max2(@, held.at),
                                  !.revision = Max2(@, held.revision)]
           cleared == DropPending(r, k)
           s == Remember(r, k, fact.incarnation, held.revision)
           t == Remember(cleared, k, held.incarnation, fact.revision)
<1>1. \/ Admit(r, k, fact) = Touched(InsertLive(r, k, NewEntry(fact)), "added")
      \/ held # None /\ Admit(r, k, fact) = Touched(s, "stale")
      \/ /\ held # None /\ held.incarnation = fact.incarnation
         /\ Admit(r, k, fact) = Touched(InsertLive(cleared, k, NewEntry(merged)), "added")
      \/ held # None /\ Admit(r, k, fact) = Touched(InsertLive(t, k, NewEntry(fact)), "added")
  BY Zenon DEF Admit
<1>2. /\ fact.incarnation \in Incarnation /\ fact.revision \in Revision /\ fact.at \in Int
      /\ held # None => /\ held.incarnation \in Incarnation /\ held.revision \in Revision
                        /\ held.at \in Int
  BY DEF Existence, Registry, Time
<1>3. cleared \in Registry /\ KeyWithin(cleared, k, i, m)
  BY RemovalKeeps, KeepsWithin
<1>4. held # None => KeyWithin(s, k, i, m)
  BY <1>2, RemovalKeeps, KeepsWithin
<1> HIDE DEF cleared
<1>5. held # None => t \in Registry /\ KeyWithin(t, k, i, m)
  BY <1>2, <1>3, RemovalKeeps, KeepsWithin
<1>6. EntryWithin(NewEntry(fact), i, m)
  BY DEF NewEntry, EntryWithin, FactWithin
<1>7. ASSUME held # None, held.incarnation = fact.incarnation
      PROVE  EntryWithin(NewEntry(merged), i, m)
  <2>1. merged.incarnation = fact.incarnation /\ merged.at = Max2(fact.at, held.at)
    BY DEF Existence
  <2>2. NewEntry(merged).incarnation = merged.incarnation
        /\ NewEntry(merged).last_activity_at = merged.at
    BY DEF NewEntry
  <2> HIDE DEF merged
  <2> QED BY <1>2, <1>7, <2>1, <2>2 DEF EntryWithin, FactWithin, KeyWithin, Max2
<1> HIDE DEF s, t, merged
<1>8. KeyWithin(InsertLive(r, k, NewEntry(fact)), k, i, m)
  BY <1>6, InsertLiveWithin
<1>9. held # None => KeyWithin(InsertLive(t, k, NewEntry(fact)), k, i, m)
  BY <1>5, <1>6, InsertLiveWithin
<1>10. held # None /\ held.incarnation = fact.incarnation =>
         KeyWithin(InsertLive(cleared, k, NewEntry(merged)), k, i, m)
  BY <1>3, <1>7, InsertLiveWithin
<1>11. \A x, y : Touched(x, y).reg = x
  BY DEF Touched
<1> HIDE DEF held
<1> QED BY <1>1, <1>4, <1>8, <1>9, <1>10, <1>11

\* establish(), the guards.
LEMMA GuardedWithin ==
  ASSUME NEW r \in Registry, NEW k \in Keys, NEW fact \in Existence, NEW i, NEW m \in Int,
         KeyWithin(r, k, i, m), FactWithin(fact, i, m)
  PROVE  KeyWithin(Guarded(r, k, fact).reg, k, i, m)
<1>1. \/ Guarded(r, k, fact) = Touched(r, "stale")
      \/ Guarded(r, k, fact) = Defer(r, k, fact)
      \/ Guarded(r, k, fact) = Admit(r, k, fact)
  BY Zenon DEF Guarded
<1>2. Touched(r, "stale").reg = r
  BY DEF Touched
<1> QED BY <1>1, <1>2, DeferWithin, AdmitWithin

\* establish
LEMMA EstablishWithin ==
  ASSUME NEW r \in Registry, NEW k \in Keys, NEW fact \in Existence, NEW now, NEW i, NEW m \in Int,
         KeyWithin(r, k, i, m), FactWithin(fact, i, m)
  PROVE  KeyWithin(Establish(r, k, fact, now).reg, k, i, m)
<1> DEFINE entry == r.live[k]
           ended == EndLive(r, k)
           replaced == Remember(ended, k, entry.incarnation, fact.revision)
<1>1. \/ Establish(r, k, fact, now) = Touched(r, "stale")
      \/ Establish(r, k, fact, now) = Guarded(r, k, fact)
      \/ /\ entry # None /\ fact.incarnation = entry.incarnation
         /\ Establish(r, k, fact, now) = Refresh(r, k, fact)
      \/ entry # None /\ Establish(r, k, fact, now) = Guarded(replaced, k, fact)
  BY Zenon DEF Establish
<1>2. Touched(r, "stale").reg = r
  BY DEF Touched
<1>3. ASSUME entry # None PROVE KeyWithin(Guarded(replaced, k, fact).reg, k, i, m)
  <2>1. entry.incarnation \in Incarnation /\ fact.revision \in Revision
    BY <1>3 DEF Registry, LiveEntry, Existence
  <2>2. ended \in Registry /\ KeyWithin(ended, k, i, m)
    BY RemovalKeeps, KeepsWithin
  <2> HIDE DEF ended
  <2>3. replaced \in Registry /\ KeyWithin(replaced, k, i, m)
    BY <2>1, <2>2, RemovalKeeps, KeepsWithin
  <2> HIDE DEF replaced
  <2> QED BY <2>3, GuardedWithin
<1>4. entry # None /\ fact.incarnation = entry.incarnation =>
        KeyWithin(Refresh(r, k, fact).reg, k, i, m)
  BY RefreshWithin
<1> HIDE DEF replaced, entry
<1> QED BY <1>1, <1>2, <1>3, <1>4, GuardedWithin

\* observe
LEMMA ObserveWithin ==
  ASSUME NEW E, NEW R, History(E, R), NEW r, RegistryInv(r, E, R), NEW k \in Keys,
         NEW fact, TrueFact(E, k, fact), NEW now, NEW i, NEW m \in Int,
         KeyWithin(r, k, i, m), FactWithin(fact, i, m)
  PROVE  KeyWithin(Observe(r, k, fact, now).reg, k, i, m)
<1> DEFINE t == Establish(r, k, fact, now)
<1>1. t.reg \in Registry
  BY EstablishInv DEF RegistryInv
<1>2. KeyWithin(t.reg, k, i, m)
  BY EstablishWithin DEF RegistryInv, TrueFact
<1> HIDE DEF t
<1> DEFINE u == t.reg
           s == [u EXCEPT !.view[k] = "working"]
<1>3. Observe(r, k, fact, now).reg = u \/ Observe(r, k, fact, now).reg = s
  <2>1. Observe(r, k, fact, now) = t \/ Observe(r, k, fact, now) = Touched(s, t.touch)
    BY Zenon DEF Observe, Narrate, t
  <2> HIDE DEF s
  <2> QED BY <2>1 DEF Touched
<1>4. s.live = u.live /\ s.pending = u.pending
  <2> HIDE DEF u
  <2>1. u \in Registry
    BY <1>1 DEF u
  <2> QED BY <2>1 DEF Registry
<1> HIDE DEF s
<1> QED BY <1>2, <1>3, <1>4 DEF KeyWithin

\* remove
LEMMA RemoveKeeps ==
  ASSUME NEW r \in Registry, NEW k \in Keys, NEW i \in Incarnation, NEW q \in Revision
  PROVE  Keeps(r, Remove(r, k, i, q), k)
<1> DEFINE s == Remember(r, k, i, q)
<1>1. s \in Registry /\ Keeps(r, s, k)
  BY RemovalKeeps
<1>2. \/ Remove(r, k, i, q) = s \/ Remove(r, k, i, q) = EndLive(s, k)
      \/ Remove(r, k, i, q) = DropPending(s, k)
  BY Zenon DEF Remove
<1> HIDE DEF s
<1>3. Keeps(s, EndLive(s, k), k) /\ Keeps(s, DropPending(s, k), k)
  BY <1>1, RemovalKeeps
<1> QED BY <1>1, <1>2, <1>3 DEF Keeps

\* apply_present_row: only the time of the same incarnation is merged.
LEMMA ApplyPresentRowWithin ==
  ASSUME NEW E, NEW R, History(E, R), NEW r, RegistryInv(r, E, R), NEW k \in Keys,
         NEW row, row.incarnation \in Incarnation, row.epoch \in Time,
         NEW q \in Revision, <<k, row.incarnation, q>> \in E, NEW now, NEW i, NEW m \in Int,
         KeyWithin(r, k, i, m), row.incarnation = i => row.epoch <= m
  PROVE  KeyWithin(ApplyPresentRow(r, k, row, q, now).reg, k, i, m)
<1> DEFINE held == r.pending[k]
           fact(at) == [incarnation |-> row.incarnation, at |-> at, revision |-> q]
           s == DropPending(r, k)
           t == ApplyPresentRow(r, k, row, q, now)
<1>1. \A at \in Time : TrueFact(E, k, fact(at))
  BY DEF TrueFact, Existence
<1>2. held # None => /\ <<k, held.incarnation, held.revision>> \in E
                     /\ held.incarnation \in Incarnation /\ held.revision \in Revision
                     /\ held.at \in Time /\ r.live[k] = None
  BY HeldFact DEF TrueFact, Existence
<1>3. /\ r \in Registry /\ RegistryInv(s, E, R) /\ s \in Registry /\ s.live = r.live
      /\ KeyWithin(s, k, i, m)
  <2>1. r \in Registry
    BY DEF RegistryInv
  <2>2. KeyWithin(s, k, i, m)
    BY <2>1, RemovalKeeps, KeepsWithin
  <2>3. RegistryInv(s, E, R) /\ s \in Registry /\ s.live = r.live
    BY <2>1, PendingInv DEF RegistryInv, DropPending, Registry
  <2> QED BY <2>1, <2>2, <2>3
<1>a. \A at : (row.incarnation = i => at <= m) => FactWithin(fact(at), i, m)
  BY DEF FactWithin
<1> HIDE DEF s, fact
<1>4. CASE held = None
  <2>1. t = Observe(r, k, fact(row.epoch), now)
    BY <1>4, Zenon DEF ApplyPresentRow, fact
  <2> QED BY <1>1, <1>a, <2>1, ObserveWithin
<1>5. CASE held # None /\ held.incarnation = row.incarnation
  <2>1. t = Observe(s, k, fact(Max2(held.at, row.epoch)), now)
    BY <1>5, Zenon DEF ApplyPresentRow, fact, s
  <2>2. PICK at : at = Max2(held.at, row.epoch)
    OBVIOUS
  <2>3. at \in Time /\ (row.incarnation = i => at <= m)
    BY <1>2, <1>5, <2>2 DEF Max2, KeyWithin, FactWithin, Time
  <2> QED BY <1>1, <1>3, <1>a, <2>1, <2>2, <2>3, ObserveWithin
<1>6. CASE held # None /\ held.incarnation < row.incarnation
  <2> DEFINE u == Remember(s, k, held.incarnation, q)
  <2>1. t = Observe(u, k, fact(row.epoch), now)
    <3>1. held.incarnation # row.incarnation
      BY <1>2, <1>6 DEF Incarnation
    <3> QED BY <1>6, <3>1, Zenon DEF ApplyPresentRow, fact, s
  <2>2. Gone(E, R, k, held.incarnation, q)
    BY <1>2, <1>6, GoneBelow
  <2>3. RegistryInv(u, E, R)
    BY <1>2, <1>3, <1>6, <2>2, RememberInv
  <2>4. KeyWithin(u, k, i, m)
    BY <1>2, <1>3, <1>6, RemovalKeeps, KeepsWithin
  <2> HIDE DEF u
  <2> QED BY <1>1, <1>a, <2>1, <2>3, <2>4, ObserveWithin
<1>7. CASE held # None /\ held.incarnation > row.incarnation
  <2> DEFINE u == Remember(r, k, row.incarnation, held.revision)
  <2>1. t = Touched(u, "stale")
    <3>1. held.incarnation # row.incarnation /\ ~(held.incarnation < row.incarnation)
      BY <1>2, <1>7 DEF Incarnation
    <3> QED BY <1>7, <3>1, Zenon DEF ApplyPresentRow
  <2>2. KeyWithin(u, k, i, m)
    BY <1>2, <1>3, <1>7, RemovalKeeps, KeepsWithin
  <2> HIDE DEF u
  <2> QED BY <2>1, <2>2 DEF Touched
<1> QED
  BY <1>2, <1>4, <1>5, <1>6, <1>7 DEF Incarnation

\* apply_absent_row
LEMMA ApplyAbsentRowKeeps ==
  ASSUME NEW r \in Registry, NEW k \in Keys, NEW q \in Revision
  PROVE  Keeps(r, ApplyAbsentRow(r, k, q), k)
<1> DEFINE held == r.pending[k]
           entry == r.live[k]
           u == Remember(r, k, held.incarnation, q)
<1>1. \/ held # None /\ ApplyAbsentRow(r, k, q) = DropPending(u, k)
      \/ entry # None /\ ApplyAbsentRow(r, k, q) = Remove(r, k, entry.incarnation, q)
      \/ ApplyAbsentRow(r, k, q) = r
  BY Zenon DEF ApplyAbsentRow
<1>2. /\ held # None => held.incarnation \in Incarnation
      /\ entry # None => entry.incarnation \in Incarnation
  BY DEF Registry, Existence, LiveEntry
<1>3. held # None => Keeps(r, DropPending(u, k), k)
  <2> SUFFICES ASSUME held # None PROVE Keeps(r, DropPending(u, k), k)
    OBVIOUS
  <2>1. u \in Registry /\ Keeps(r, u, k)
    BY <1>2, RemovalKeeps
  <2> HIDE DEF u
  <2>2. Keeps(u, DropPending(u, k), k)
    BY <2>1, RemovalKeeps
  <2> QED BY <2>1, <2>2 DEF Keeps
<1>4. entry # None => Keeps(r, Remove(r, k, entry.incarnation, q), k)
  BY <1>2, RemoveKeeps
<1>5. Keeps(r, r, k)
  BY DEF Keeps
<1> HIDE DEF u, held, entry
<1> QED BY <1>1, <1>3, <1>4, <1>5

\* One key of a presence page.
LEMMA ApplyRowWithin ==
  ASSUME NEW E, NEW R, History(E, R), NEW r, RegistryInv(r, E, R), NEW k \in Keys,
         NEW rows, rows[k] # None => rows[k] \in Presence,
         NEW q \in Revision, rows[k] # None => <<k, rows[k].incarnation, q>> \in E, NEW now,
         NEW i, NEW m \in Int, KeyWithin(r, k, i, m),
         rows[k] # None => (rows[k].incarnation = i => rows[k].epoch <= m)
  PROVE  KeyWithin(ApplyRow(r, k, rows, q, now), k, i, m)
<1>1. CASE rows[k] = None
  BY <1>1, ApplyAbsentRowKeeps, KeepsWithin DEF ApplyRow, RegistryInv
<1>2. CASE rows[k] # None
  <2>1. rows[k].incarnation \in Incarnation /\ rows[k].epoch \in Time
    BY <1>2 DEF Presence
  <2> QED BY <1>2, <2>1, ApplyPresentRowWithin DEF ApplyRow
<1> QED BY <1>1, <1>2

\* expire(): a session becomes quiet or ends.
LEMMA ExpireOneWithin ==
  ASSUME NEW r \in Registry, NEW d \in r.deadlines, NEW now, NEW k \in Keys, NEW i, NEW m,
         KeyWithin(r, k, i, m)
  PROVE  KeyWithin(ExpireOne(r, d, now), k, i, m)
<1>1. d[2] \in DeadlineKey
  BY DEF Registry
<1>2. CASE d[2][1] = "session"
  <2> DEFINE j == d[2][2]
             entry == r.live[j]
             quiet == [entry EXCEPT !.quiet_published = TRUE]
             s == [r EXCEPT !.live[j] = quiet,
                            !.deadlines = (@ \ {d}) \cup {SessionDeadline(j, quiet)},
                            !.working = @ - 1, !.view[j] = "quiet"]
             t == [r EXCEPT !.deadlines = (@ \ {d}) \cup {SessionDeadline(j, entry)}]
             u == [r EXCEPT !.deadlines = @ \ {d}]
  <2>1. j \in Keys
    BY <1>1, <1>2 DEF DeadlineKey
  <2>2. ExpireOne(r, d, now) = ExpireSession(r, d, now)
    BY <1>2, Zenon DEF ExpireOne
  <2>3. \/ ExpireSession(r, d, now) = u \/ ExpireSession(r, d, now) = EndLive(r, j)
        \/ entry # None /\ ExpireSession(r, d, now) = s
        \/ ExpireSession(r, d, now) = t
    BY Zenon DEF ExpireSession
  <2>4. entry # None => /\ quiet.incarnation = entry.incarnation
                        /\ quiet.last_activity_at = entry.last_activity_at
    BY <2>1 DEF Registry, LiveEntry
  <2> HIDE DEF quiet, entry, j
  <2>5. /\ u.live = r.live /\ u.pending = r.pending /\ t.live = r.live /\ t.pending = r.pending
        /\ s.pending = r.pending /\ s.live = [r.live EXCEPT ![j] = quiet]
        /\ DOMAIN r.live = Keys
    BY DEF Registry
  <2> HIDE DEF u, s, t
  <2>6. KeyWithin(EndLive(r, j), k, i, m)
    <3>1. OneKey(r, EndLive(r, j), j) /\ Keeps(r, EndLive(r, j), j)
      BY <2>1, EndLiveOneKey, RemovalKeeps
    <3>2. Keeps(r, EndLive(r, j), k)
      BY <3>1 DEF OneKey, Keeps
    <3> QED BY <3>2, KeepsWithin
  <2>7. entry # None => KeyWithin(s, k, i, m)
    BY <2>4, <2>5 DEF KeyWithin, EntryWithin, entry
  <2>8. KeyWithin(u, k, i, m) /\ KeyWithin(t, k, i, m)
    BY <2>5 DEF KeyWithin
  <2> QED BY <2>2, <2>3, <2>6, <2>7, <2>8
<1>3. CASE d[2][1] # "session"
  <2> DEFINE a == d[2][2]
             t == [r EXCEPT !.deadlines = (@ \ {d}) \cup {AnonymousDeadline(a, r.anonymous[a])}]
             u == [r EXCEPT !.deadlines = @ \ {d}]
             c == ClearAnonymous(r, a)
  <2>1. ExpireOne(r, d, now) = ExpireAnonymous(r, d, now)
    BY <1>3, Zenon DEF ExpireOne
  <2>2. \/ ExpireAnonymous(r, d, now) = u \/ ExpireAnonymous(r, d, now) = t
        \/ ExpireAnonymous(r, d, now) = c
    BY Zenon DEF ExpireAnonymous
  <2>3. c.live = r.live /\ c.pending = r.pending
    BY DEF ClearAnonymous, Registry
  <2> HIDE DEF a, c
  <2>4. u.live = r.live /\ u.pending = r.pending /\ t.live = r.live /\ t.pending = r.pending
    BY DEF Registry
  <2> HIDE DEF u, t
  <2> QED BY <2>1, <2>2, <2>3, <2>4 DEF KeyWithin
<1> QED BY <1>2, <1>3

\* expire() leaves the recovery alone.
LEMMA ExpireOneRecovery ==
  ASSUME NEW r \in Registry, NEW d \in r.deadlines, NEW now
  PROVE  ExpireOne(r, d, now).recovery = r.recovery
<1>1. d[2] \in DeadlineKey
  BY DEF Registry
<1>2. CASE d[2][1] = "session"
  <2> DEFINE k == d[2][2]
             entry == r.live[k]
             quiet == [entry EXCEPT !.quiet_published = TRUE]
             s == [r EXCEPT !.live[k] = quiet,
                            !.deadlines = (@ \ {d}) \cup {SessionDeadline(k, quiet)},
                            !.working = @ - 1, !.view[k] = "quiet"]
             t == [r EXCEPT !.deadlines = (@ \ {d}) \cup {SessionDeadline(k, entry)}]
             u == [r EXCEPT !.deadlines = @ \ {d}]
  <2>1. k \in Keys
    BY <1>1, <1>2 DEF DeadlineKey
  <2>2. ExpireOne(r, d, now) = ExpireSession(r, d, now)
    BY <1>2, Zenon DEF ExpireOne
  <2>3. \/ ExpireSession(r, d, now) = u \/ ExpireSession(r, d, now) = EndLive(r, k)
        \/ ExpireSession(r, d, now) = s \/ ExpireSession(r, d, now) = t
    BY Zenon DEF ExpireSession
  <2> HIDE DEF quiet, entry, k
  <2>4. u.recovery = r.recovery /\ s.recovery = r.recovery /\ t.recovery = r.recovery
    BY DEF Registry
  <2> HIDE DEF u, s, t
  <2>5. EndLive(r, k).recovery = r.recovery
    BY <2>1, EndLiveOneKey DEF OneKey
  <2> QED BY <2>2, <2>3, <2>4, <2>5
<1>3. CASE d[2][1] # "session"
  <2> DEFINE a == d[2][2]
             t == [r EXCEPT !.deadlines = (@ \ {d}) \cup {AnonymousDeadline(a, r.anonymous[a])}]
             u == [r EXCEPT !.deadlines = @ \ {d}]
             c == ClearAnonymous(r, a)
  <2>1. ExpireOne(r, d, now) = ExpireAnonymous(r, d, now)
    BY <1>3, Zenon DEF ExpireOne
  <2>2. \/ ExpireAnonymous(r, d, now) = u \/ ExpireAnonymous(r, d, now) = t
        \/ ExpireAnonymous(r, d, now) = c
    BY Zenon DEF ExpireAnonymous
  <2>3. c.recovery = r.recovery
    BY DEF ClearAnonymous, Registry
  <2> HIDE DEF a, c
  <2>4. u.recovery = r.recovery /\ t.recovery = r.recovery
    BY DEF Registry
  <2> HIDE DEF u, t
  <2> QED BY <2>1, <2>2, <2>3, <2>4
<1> QED BY <1>2, <1>3

\* A recovery page is held as it was read.
LEMMA HoldRecoveryPageRows ==
  ASSUME NEW r \in Registry, NEW rows, NEW q
  PROVE  LET s == HoldRecoveryPage(r, rows, q) IN
         /\ s.live = r.live /\ s.pending = r.pending
         /\ s.recovery # None => s.recovery.page.rows = rows
<1> DEFINE p == [rows |-> rows, revision |-> q,
                 cursor |-> IF rows = <<>> THEN None
                            ELSE [epoch |-> rows[Len(rows)].epoch, key |-> rows[Len(rows)].key],
                 exhausted |-> Len(rows) < PageSize]
           w == [r.recovery EXCEPT !.page = p]
<1>1. CASE r.recovery = None
  BY <1>1 DEF HoldRecoveryPage
<1>2. CASE r.recovery # None
  <2>1. HoldRecoveryPage(r, rows, q) = [r EXCEPT !.recovery.page = p]
    BY <1>2, Zenon DEF HoldRecoveryPage
  <2>2. p.rows = rows
    OBVIOUS
  <2> HIDE DEF p
  <2>3. [r EXCEPT !.recovery.page = p] = [r EXCEPT !.recovery = w]
    OBVIOUS
  <2>4. w.page = p
    BY <1>2 DEF Registry, SeedRecovery
  <2> HIDE DEF w
  <2>5. LET s == [r EXCEPT !.recovery = w] IN
        s.live = r.live /\ s.pending = r.pending /\ s.recovery = w
    BY DEF Registry
  <2> QED BY <2>1, <2>2, <2>3, <2>4, <2>5
<1> QED BY <1>1, <1>2

\* After a recovery page no page is held.
LEMMA FinishRecoveryPageRows ==
  ASSUME NEW r \in Registry, r.recovery # None
  PROVE  LET s == FinishRecoveryPage(r) IN
         /\ s.live = r.live /\ s.pending = r.pending
         /\ s.recovery = None \/ s.recovery.page = None
<1> DEFINE w == [r.recovery EXCEPT !.cursor = r.recovery.page.cursor, !.page = None]
           e == [r EXCEPT !.recovery = None]
           f == [r EXCEPT !.recovery = w]
<1>1. \/ FinishRecoveryPage(r) = e \/ FinishRecoveryPage(r) = f
  BY DEF FinishRecoveryPage, Registry, SeedRecovery
<1>2. w.page = None
  BY DEF Registry, SeedRecovery
<1> HIDE DEF w
<1>3. /\ e.live = r.live /\ e.pending = r.pending /\ e.recovery = None
      /\ f.live = r.live /\ f.pending = r.pending /\ f.recovery = w
  BY DEF Registry
<1> HIDE DEF e, f
<1> QED BY <1>1, <1>2, <1>3

\* What the other operators leave alone.
LEMMA OtherFields ==
  ASSUME NEW r \in Registry
  PROVE  /\ \A q : LET s == Broad(r, q) IN
              s.live = r.live /\ s.pending = r.pending /\ s.recovery = r.recovery
         /\ \A a, through : LET s == Cover(r, a, through) IN
              s.live = r.live /\ s.pending = r.pending /\ s.recovery = r.recovery
         /\ \A k : LET s == AdvanceWalk(r, k) IN
              s.live = r.live /\ s.pending = r.pending /\ s.recovery = r.recovery
         /\ \A a, at, g, now : LET s == AnonymousTouch(r, a, at, g, now) IN
              s.live = r.live /\ s.pending = r.pending /\ s.recovery = r.recovery
<1>1. \A q : LET s == Broad(r, q) IN
        s.live = r.live /\ s.pending = r.pending /\ s.recovery = r.recovery
  BY DEF Broad, Registry
<1>2. ASSUME NEW a, NEW through
      PROVE  LET s == Cover(r, a, through) IN
             s.live = r.live /\ s.pending = r.pending /\ s.recovery = r.recovery
  <2>1. Cover(r, a, through) = r \/ Cover(r, a, through) = ClearAnonymous(r, a)
    BY DEF Cover
  <2>2. LET s == ClearAnonymous(r, a) IN
        s.live = r.live /\ s.pending = r.pending /\ s.recovery = r.recovery
    BY DEF ClearAnonymous, Registry
  <2> QED BY <2>1, <2>2
<1>3. ASSUME NEW k
      PROVE  LET s == AdvanceWalk(r, k) IN
             s.live = r.live /\ s.pending = r.pending /\ s.recovery = r.recovery
  <2> DEFINE x == [r.run EXCEPT !.cursor = k]
  <2>1. AdvanceWalk(r, k) = r \/ AdvanceWalk(r, k) = [r EXCEPT !.run = x]
    BY DEF AdvanceWalk
  <2> HIDE DEF x
  <2> QED BY <2>1 DEF Registry
<1>4. ASSUME NEW a, NEW at, NEW g, NEW now
      PROVE  LET s == AnonymousTouch(r, a, at, g, now) IN
             s.live = r.live /\ s.pending = r.pending /\ s.recovery = r.recovery
  <2> DEFINE entry == r.anonymous[a]
             new == [generation |-> g, at |-> at]
             kept == [entry EXCEPT !.generation = g]
             d == r.deadlines \cup {AnonymousDeadline(a, new)}
             e == (r.deadlines \ {AnonymousDeadline(a, entry)}) \cup {AnonymousDeadline(a, new)}
             v == r.anonymousView \cup {a}
  <2>1. \/ AnonymousTouch(r, a, at, g, now) = r
        \/ AnonymousTouch(r, a, at, g, now)
             = [r EXCEPT !.anonymous[a] = new, !.deadlines = d, !.anonymousView = v]
        \/ AnonymousTouch(r, a, at, g, now) = [r EXCEPT !.anonymous[a] = kept]
        \/ AnonymousTouch(r, a, at, g, now) = [r EXCEPT !.anonymous[a] = new, !.deadlines = e]
    BY DEF AnonymousTouch
  <2> HIDE DEF new, kept, d, e, v
  <2> QED BY <2>1 DEF Registry
<1> QED BY <1>1, <1>2, <1>3, <1>4

----------------------------------------------------------------------------
\* No incarnation of k in the history is above i; the last of them ended before q.
Covers(E, k, i) == \A x \in E : x[1] = k => x[2] <= i

Past(E, k, q) == \A x \in E : x[1] = k => x[3] < q

\* The registry holds off every fact about k that the history knows.
Barred(r, E, k) ==
    \/ r.deleted[k] # None /\ Covers(E, k, r.deleted[k].incarnation)
    \/ Past(E, k, r.forgotten_through)
    \/ Past(E, k, r.broad_through)

\* A reconciliation that removes k is required or runs.
Walked(r, E, k) ==
    \/ r.needs # None /\ Past(E, k, r.needs)
    \/ r.run # None /\ Past(E, k, r.run.through)

\* What was seen of a key is covered and past.
LEMMA SeenIsPast ==
  ASSUME NEW E, NEW k, NEW i, NEW q, <<k, i, q>> \in E
  PROVE  /\ \A j : Covers(E, k, j) => i <= j
         /\ \A p : Past(E, k, p) => q < p
<1>1. <<k, i, q>>[1] = k /\ <<k, i, q>>[2] = i /\ <<k, i, q>>[3] = q
  OBVIOUS
<1> QED BY <1>1 DEF Covers, Past

\* A key that no later revision held is past from then on.
LEMMA PastLater ==
  ASSUME NEW E, NEW R, History(E, R), NEW k, NEW p \in Int, NEW q \in Int, p <= q, Past(E, k, p)
  PROVE  Past(E, k, q)
<1>1. \A x \in E : x[3] \in Int
  BY DEF History
<1> QED BY <1>1 DEF Past

\* When every incarnation is gone from a revision on, the key is past there.
LEMMA GonePast ==
  ASSUME NEW E, NEW R, History(E, R), NEW k, NEW i, NEW q, Gone(E, R, k, i, q), Covers(E, k, i)
  PROVE  Past(E, k, q)
<1>1. i \in Int /\ q \in Int
  BY GoneTypes DEF Incarnation, Revision
<1>2. \A x \in E : x[2] \in Int /\ x[3] \in Int
  BY DEF History, Incarnation
<1> QED BY <1>1, <1>2 DEF Gone, Covers, Past

\* A higher incarnation covers too.
LEMMA CoversHigher ==
  ASSUME NEW E, NEW R, History(E, R), NEW k, NEW i \in Int, NEW j \in Int, i <= j, Covers(E, k, i)
  PROVE  Covers(E, k, j)
<1>1. \A x \in E : x[2] \in Int
  BY DEF History, Incarnation
<1> QED BY <1>1 DEF Covers

\* The guards only rise, so what they hold off they hold off for good.
LEMMA BarredGrows ==
  ASSUME NEW E, NEW R, History(E, R), NEW r, RegistryInv(r, E, R), NEW s \in Registry,
         Grows(r, s), NEW k \in Keys, Barred(r, E, k)
  PROVE  Barred(s, E, k)
<1>1. /\ r \in Registry
      /\ r.deleted[k] # None =>
           /\ r.deleted[k].incarnation \in Int /\ r.deleted[k].absent_at \in Int
           /\ Gone(E, R, k, r.deleted[k].incarnation, r.deleted[k].absent_at)
      /\ s.deleted[k] # None => s.deleted[k].incarnation \in Int
      /\ r.forgotten_through \in Int /\ s.forgotten_through \in Int
      /\ r.broad_through \in Int /\ s.broad_through \in Int
  <2>1. r \in Registry /\ KeyInv(r, E, R, k)
    BY DEF RegistryInv
  <2>2. r.deleted[k] # None =>
          Gone(E, R, k, r.deleted[k].incarnation, r.deleted[k].absent_at)
    BY <2>1 DEF KeyInv
  <2>3. \A z \in Registry :
          /\ z.deleted[k] # None => /\ z.deleted[k].incarnation \in Int
                                    /\ z.deleted[k].absent_at \in Int
          /\ z.forgotten_through \in Int /\ z.broad_through \in Int
    BY DEF Registry, Deletion, Incarnation, Revision
  <2> QED BY <2>1, <2>2, <2>3
<1>2. /\ s.forgotten_through >= r.forgotten_through /\ s.broad_through >= r.broad_through
      /\ KeyGrows(r, s, k)
  BY DEF Grows
<1>3. CASE Past(E, k, r.forgotten_through)
  BY <1>1, <1>2, <1>3, PastLater DEF Barred
<1>4. CASE Past(E, k, r.broad_through)
  BY <1>1, <1>2, <1>4, PastLater DEF Barred
<1>5. CASE r.deleted[k] # None /\ Covers(E, k, r.deleted[k].incarnation)
  <2>1. Past(E, k, r.deleted[k].absent_at)
    BY <1>1, <1>5, GonePast
  <2>2. CASE s.deleted[k] = None
    <3>1. s.forgotten_through >= r.deleted[k].absent_at
      BY <1>2, <1>5, <2>2 DEF KeyGrows
    <3>2. Past(E, k, s.forgotten_through)
      BY <1>1, <1>5, <2>1, <3>1, PastLater
    <3> QED BY <3>2 DEF Barred
  <2>3. CASE s.deleted[k] # None
    <3>1. s.deleted[k].incarnation >= r.deleted[k].incarnation
      BY <1>2, <1>5, <2>3 DEF KeyGrows
    <3>2. Covers(E, k, s.deleted[k].incarnation)
      BY <1>1, <1>5, <2>3, <3>1, CoversHigher
    <3> QED BY <2>3, <3>2 DEF Barred
  <2> QED BY <2>2, <2>3
<1> QED BY <1>3, <1>4, <1>5 DEF Barred

\* An absence that was applied and covers the key bars it.
LEMMA GoneBars ==
  ASSUME NEW E, NEW R, History(E, R), NEW r, RegistryInv(r, E, R), NEW k \in Keys,
         NEW i \in Incarnation, r.gone[k] >= i, Covers(E, k, i)
  PROVE  Barred(r, E, k)
<1>1. /\ r.gone[k] \in Int /\ i \in Nat
      /\ r.deleted[k] # None => r.deleted[k].incarnation \in Int
  BY DEF RegistryInv, Registry, Deletion, Incarnation
<1>2. Covers(E, k, r.gone[k])
  BY <1>1, CoversHigher
<1>3. \/ r.deleted[k] # None /\ r.deleted[k].incarnation >= r.gone[k]
      \/ Gone(E, R, k, r.gone[k], r.forgotten_through)
  <2>1. KeyInv(r, E, R, k)
    BY DEF RegistryInv
  <2>2. r.gone[k] # -1
    BY <1>1
  <2> QED BY <2>1, <2>2 DEF KeyInv
<1>4. CASE r.deleted[k] # None /\ r.deleted[k].incarnation >= r.gone[k]
  <2>1. Covers(E, k, r.deleted[k].incarnation)
    BY <1>1, <1>2, <1>4, CoversHigher
  <2> QED BY <1>4, <2>1 DEF Barred
<1>5. CASE Gone(E, R, k, r.gone[k], r.forgotten_through)
  BY <1>2, <1>5, GonePast DEF Barred
<1> QED BY <1>3, <1>4, <1>5

\* remove() of the last incarnation ends the key and bars it.
LEMMA RemoveBars ==
  ASSUME NEW E, NEW R, History(E, R), NEW r, RegistryInv(r, E, R), NEW k \in Keys,
         NEW i, NEW q, Gone(E, R, k, i, q), Covers(E, k, i)
  PROVE  Remove(r, k, i, q).live[k] = None /\ Barred(Remove(r, k, i, q), E, k)
<1> DEFINE s == Remember(r, k, i, q)
           t == Remove(r, k, i, q)
<1>1. r \in Registry /\ i \in Incarnation /\ q \in Revision
  BY GoneTypes DEF RegistryInv
<1>2. s \in Registry /\ s.live = r.live /\ s.pending = r.pending /\ s.gone[k] = Max2(r.gone[k], i)
  BY <1>1, RememberFields
<1>3. r.live[k] # None => ~(r.live[k].incarnation > i)
  <2>1. r.live[k] # None => <<k, r.live[k].incarnation, r.live[k].exists_at>> \in E
    BY DEF RegistryInv, KeyInv
  <2>2. r.live[k] # None => r.live[k].incarnation <= i /\ r.live[k].incarnation \in Int
    BY <1>1, <2>1, SeenIsPast DEF Registry, LiveEntry, Incarnation
  <2> QED BY <1>1, <2>2 DEF Incarnation
<1>4. \/ r.live[k] # None /\ t = EndLive(s, k)
      \/ r.live[k] = None /\ (t = s \/ t = DropPending(s, k))
  BY <1>3, Zenon DEF Remove
<1> HIDE DEF s
<1>5. /\ EndLive(s, k).live = [s.live EXCEPT ![k] = None] /\ EndLive(s, k).gone = s.gone
      /\ DropPending(s, k).live = s.live /\ DropPending(s, k).gone = s.gone
  BY <1>2, EndLiveFields DEF DropPending, Registry
<1>6. t.live[k] = None /\ t.gone[k] = Max2(r.gone[k], i)
  <2>1. DOMAIN s.live = Keys
    BY <1>2 DEF Registry
  <2> HIDE DEF t
  <2> QED BY <1>2, <1>4, <1>5, <2>1
<1>7. RegistryInv(t, E, R)
  BY RemoveInv
<1> HIDE DEF t
<1>8. Max2(r.gone[k], i) >= i
  BY <1>1 DEF Max2, Registry, Incarnation
<1>9. Barred(t, E, k)
  BY <1>1, <1>6, <1>7, <1>8, GoneBars
<1> QED BY <1>6, <1>9 DEF t

\* establish() admits no fact about a barred key.
LEMMA GuardedBarred ==
  ASSUME NEW E, NEW R, History(E, R), NEW r, RegistryInv(r, E, R), NEW k \in Keys,
         NEW fact, TrueFact(E, k, fact), Barred(r, E, k), r.live[k] = None
  PROVE  Guarded(r, k, fact).reg.live[k] = None
<1>1. r \in Registry /\ fact \in Existence /\ <<k, fact.incarnation, fact.revision>> \in E
  BY DEF RegistryInv, TrueFact
<1>2. /\ fact.incarnation \in Int /\ fact.revision \in Int
      /\ r.deleted[k] # None => r.deleted[k].incarnation \in Int
      /\ r.forgotten_through \in Int /\ r.broad_through \in Int
  BY <1>1 DEF Existence, Registry, Deletion, Incarnation, Revision
<1>3. \/ r.deleted[k] # None /\ r.deleted[k].incarnation >= fact.incarnation
      \/ fact.revision < r.forgotten_through \/ fact.revision < r.broad_through
  <2>1. /\ \A j : Covers(E, k, j) => fact.incarnation <= j
        /\ \A p : Past(E, k, p) => fact.revision < p
    BY <1>1, SeenIsPast
  <2> QED BY <1>2, <2>1 DEF Barred
<1>4. Guarded(r, k, fact) = Touched(r, "stale") \/ Guarded(r, k, fact) = Defer(r, k, fact)
  BY <1>3, Zenon DEF Guarded
<1>5. Touched(r, "stale").reg = r /\ SameIndex(r, Defer(r, k, fact).reg)
  BY <1>1, DeferSame DEF Touched
<1> QED BY <1>4, <1>5 DEF SameIndex

\* observe
LEMMA ObserveBarred ==
  ASSUME NEW E, NEW R, History(E, R), NEW r, RegistryInv(r, E, R), NEW k \in Keys,
         NEW fact, TrueFact(E, k, fact), NEW now, Barred(r, E, k), r.live[k] = None
  PROVE  Observe(r, k, fact, now).reg.live[k] = None
<1> DEFINE t == Establish(r, k, fact, now)
<1>1. t = Touched(r, "stale") \/ t = Guarded(r, k, fact)
  BY Zenon DEF Establish
<1>2. t.reg.live[k] = None
  BY <1>1, GuardedBarred DEF Touched
<1>3. t.reg \in Registry
  BY EstablishInv DEF RegistryInv
<1> HIDE DEF t
<1> DEFINE u == t.reg
           s == [u EXCEPT !.view[k] = "working"]
<1>4. Observe(r, k, fact, now).reg = u \/ Observe(r, k, fact, now).reg = s
  <2>1. Observe(r, k, fact, now) = t \/ Observe(r, k, fact, now) = Touched(s, t.touch)
    BY Zenon DEF Observe, Narrate, t
  <2> HIDE DEF s
  <2> QED BY <2>1 DEF Touched
<1>5. s.live = u.live
  <2> HIDE DEF u
  <2>1. u \in Registry
    BY <1>3 DEF u
  <2> QED BY <2>1 DEF Registry
<1> HIDE DEF s
<1> QED BY <1>2, <1>4, <1>5

\* apply_present_row
LEMMA ApplyPresentRowBarred ==
  ASSUME NEW E, NEW R, History(E, R), NEW r, RegistryInv(r, E, R), NEW k \in Keys,
         NEW row, row.incarnation \in Incarnation, row.epoch \in Time,
         NEW q \in Revision, <<k, row.incarnation, q>> \in E, NEW now,
         Barred(r, E, k), r.live[k] = None
  PROVE  ApplyPresentRow(r, k, row, q, now).reg.live[k] = None
<1> DEFINE held == r.pending[k]
           fact(at) == [incarnation |-> row.incarnation, at |-> at, revision |-> q]
           s == DropPending(r, k)
           t == ApplyPresentRow(r, k, row, q, now)
<1>1. \A at \in Time : TrueFact(E, k, fact(at))
  BY DEF TrueFact, Existence
<1>2. held # None => /\ <<k, held.incarnation, held.revision>> \in E
                     /\ held.incarnation \in Incarnation /\ held.revision \in Revision
                     /\ held.at \in Time
  BY HeldFact DEF TrueFact, Existence
<1>3. /\ r \in Registry /\ RegistryInv(s, E, R) /\ s \in Registry /\ s.live = r.live
      /\ Barred(s, E, k)
  <2>1. r \in Registry
    BY DEF RegistryInv
  <2>2. RegistryInv(s, E, R) /\ s \in Registry /\ s.live = r.live
    <3>1. s = [r EXCEPT !.pending[k] = None]
      BY DEF DropPending
    <3> QED BY <2>1, <3>1, PendingInv, PendingFields
  <2>3. Barred(s, E, k)
    BY <2>1 DEF Barred, DropPending, Registry
  <2> QED BY <2>1, <2>2, <2>3
<1> HIDE DEF s, fact
<1>4. CASE held = None
  <2>1. t = Observe(r, k, fact(row.epoch), now)
    BY <1>4, Zenon DEF ApplyPresentRow, fact
  <2> QED BY <1>1, <2>1, ObserveBarred
<1>5. CASE held # None /\ held.incarnation = row.incarnation
  <2>1. t = Observe(s, k, fact(Max2(held.at, row.epoch)), now)
    BY <1>5, Zenon DEF ApplyPresentRow, fact, s
  <2>2. Max2(held.at, row.epoch) \in Time
    BY <1>2, <1>5 DEF Max2
  <2> QED BY <1>1, <1>3, <2>1, <2>2, ObserveBarred
<1>6. CASE held # None /\ held.incarnation < row.incarnation
  <2> DEFINE u == Remember(s, k, held.incarnation, q)
  <2>1. t = Observe(u, k, fact(row.epoch), now)
    <3>1. held.incarnation # row.incarnation
      BY <1>2, <1>6 DEF Incarnation
    <3> QED BY <1>6, <3>1, Zenon DEF ApplyPresentRow, fact, s
  <2>2. Gone(E, R, k, held.incarnation, q)
    BY <1>2, <1>6, GoneBelow
  <2>3. RegistryInv(u, E, R) /\ u \in Registry /\ u.live = s.live /\ Grows(s, u)
    <3>1. RegistryInv(u, E, R)
      BY <1>2, <1>3, <1>6, <2>2, RememberInv
    <3>2. u.live = s.live /\ Grows(s, u)
      BY <1>2, <1>3, <1>6, RememberFields, RememberGrows
    <3> QED BY <3>1, <3>2 DEF RegistryInv
  <2> HIDE DEF u
  <2>4. Barred(u, E, k)
    BY <1>3, <2>3, BarredGrows
  <2> QED BY <1>1, <1>3, <2>1, <2>3, <2>4, ObserveBarred
<1>7. CASE held # None /\ held.incarnation > row.incarnation
  <2> DEFINE u == Remember(r, k, row.incarnation, held.revision)
  <2>1. t = Touched(u, "stale")
    <3>1. held.incarnation # row.incarnation /\ ~(held.incarnation < row.incarnation)
      BY <1>2, <1>7 DEF Incarnation
    <3> QED BY <1>7, <3>1, Zenon DEF ApplyPresentRow
  <2>2. u.live = r.live
    BY <1>2, <1>3, <1>7, RememberFields
  <2> HIDE DEF u
  <2> QED BY <2>1, <2>2 DEF Touched
<1> QED
  BY <1>2, <1>4, <1>5, <1>6, <1>7 DEF Incarnation

\* A page brings no barred key back.
LEMMA ApplyRowBarred ==
  ASSUME NEW E, NEW R, History(E, R), NEW r, RegistryInv(r, E, R), NEW k \in Keys,
         NEW rows, rows[k] # None => rows[k] \in Presence,
         NEW q \in Revision, rows[k] # None => <<k, rows[k].incarnation, q>> \in E, NEW now,
         Barred(r, E, k), r.live[k] = None
  PROVE  ApplyRow(r, k, rows, q, now).live[k] = None
<1>1. CASE rows[k] = None
  <2>1. Keeps(r, ApplyAbsentRow(r, k, q), k)
    BY ApplyAbsentRowKeeps DEF RegistryInv
  <2>2. ApplyRow(r, k, rows, q, now) = ApplyAbsentRow(r, k, q)
    BY <1>1, Zenon DEF ApplyRow
  <2> QED BY <2>1, <2>2 DEF Keeps
<1>2. CASE rows[k] # None
  <2>1. rows[k].incarnation \in Incarnation /\ rows[k].epoch \in Time
    BY <1>2 DEF Presence
  <2>2. ApplyRow(r, k, rows, q, now) = ApplyPresentRow(r, k, rows[k], q, now).reg
    BY <1>2, Zenon DEF ApplyRow
  <2> QED BY <1>2, <2>1, <2>2, ApplyPresentRowBarred
<1> QED BY <1>1, <1>2

\* A page that does not hold a live key removes it, if it is as new as the entry.
LEMMA ApplyRowAbsent ==
  ASSUME NEW E, NEW R, NEW r, RegistryInv(r, E, R), NEW k \in Keys,
         NEW rows, rows[k] = None, NEW q \in Revision, NEW now,
         r.live[k] # None => r.live[k].exists_at <= q
  PROVE  ApplyRow(r, k, rows, q, now).live[k] = None
<1> DEFINE entry == r.live[k]
           u == Remember(r, k, entry.incarnation, q)
<1>1. r \in Registry /\ (entry # None => r.pending[k] = None /\ entry.incarnation \in Incarnation)
  BY DEF RegistryInv, KeyInv, Registry, LiveEntry
<1>2. ApplyRow(r, k, rows, q, now) = ApplyAbsentRow(r, k, q)
  BY Zenon DEF ApplyRow
<1>3. CASE entry = None
  <2>1. Keeps(r, ApplyAbsentRow(r, k, q), k)
    BY <1>1, ApplyAbsentRowKeeps
  <2> QED BY <1>2, <1>3, <2>1 DEF Keeps
<1>4. CASE entry # None
  <2>1. ApplyAbsentRow(r, k, q) = Remove(r, k, entry.incarnation, q)
    BY <1>1, <1>4, Zenon DEF ApplyAbsentRow
  <2>2. ~(entry.incarnation > entry.incarnation)
    BY <1>1, <1>4 DEF Incarnation
  <2>3. Remove(r, k, entry.incarnation, q) = EndLive(u, k)
    BY <1>4, <2>2, Zenon DEF Remove
  <2>4. u \in Registry
    BY <1>1, <1>4, RememberFields
  <2> HIDE DEF u
  <2>5. EndLive(u, k).live = [u.live EXCEPT ![k] = None] /\ DOMAIN u.live = Keys
    BY <2>4, EndLiveFields DEF Registry
  <2>6. EndLive(u, k).live[k] = None
    BY <2>5
  <2> QED BY <1>2, <2>1, <2>3, <2>6
<1> QED BY <1>3, <1>4

----------------------------------------------------------------------------
(* The walk towards the keys whose every incarnation is past.              *)

\* The run has k in front of it, if it is to remove k.
InFront(r, E, k) == r.run # None /\ Past(E, k, r.run.through) => k > r.run.cursor

Fronts(r, E) == \A k \in Keys : r.live[k] # None => InFront(r, E, k)

\* No requirement is newer than q.
WalkBound(r, q) == /\ r.needs # None => r.needs <= q
                   /\ r.run # None => r.run.through <= q

\* A walk request names the keys that its run removes up to the last one it names.
Reaches(keys, k) == k \in keys \/ \A j \in keys : j < k

Named(n, E) ==
    n.request # None /\ n.request.class = "walk" =>
        /\ n.reg.run # None
        /\ \A k \in Keys : n.reg.live[k] # None /\ Past(E, k, n.reg.run.through)
                             => Reaches(n.request.keys, k)

\* A choice of a page that keeps what is required of the walk.
Chosen(r, n, E) ==
    /\ n.reg.live = r.live
    /\ \A k \in Keys : r.live[k] # None /\ Walked(r, E, k) => Walked(n.reg, E, k)
    /\ Fronts(n.reg, E) /\ Named(n, E)
    /\ \A q \in Int : WalkBound(r, q) => WalkBound(n.reg, q)

\* The first keys of a set reach every key of it.
LEMMA FirstKeysReach ==
  ASSUME NEW S, S \subseteq Keys, NEW k \in S
  PROVE  Reaches(FirstKeys(S), k)
<1> DEFINE below(i) == {j \in S : j < i}
<1>1. IsFiniteSet(S) /\ S \subseteq Nat
  BY KeysAssumption, FS_Subset
<1>2. \A i \in S : IsFiniteSet(below(i)) /\ Cardinality(below(i)) \in Nat
  BY <1>1, FS_Subset, FS_CardinalityType
<1> SUFFICES ASSUME k \notin FirstKeys(S), NEW f \in FirstKeys(S) PROVE f < k
  BY DEF Reaches
<1>3. f \in S /\ Cardinality(below(f)) < PageSize /\ ~(Cardinality(below(k)) < PageSize)
  BY DEF FirstKeys
<1>4. SUFFICES ASSUME ~(f < k) PROVE FALSE
  OBVIOUS
<1>5. below(k) \subseteq below(f)
  <2>1. k \in Nat /\ f \in Nat /\ k <= f
    BY <1>1, <1>3, <1>4
  <2>2. \A j \in S : j < k => j < f
    BY <1>1, <2>1
  <2> QED BY <2>2
<1>6. Cardinality(below(k)) <= Cardinality(below(f))
  BY <1>2, <1>3, <1>5, FS_Subset
<1> HIDE DEF below
<1> QED BY <1>2, <1>3, <1>6, CapAssumption

\* A live key that the run removes is walkable.
LEMMA WalkableKey ==
  ASSUME NEW E, NEW R, NEW r, RegistryInv(r, E, R), NEW k \in Keys, r.live[k] # None,
         InFront(r, E, k), r.run # None, Past(E, k, r.run.through)
  PROVE  k \in Walkable(r, r.run)
<1>1. <<k, r.live[k].incarnation, r.live[k].exists_at>> \in E
  BY DEF RegistryInv, KeyInv
<1>2. r.live[k].exists_at < r.run.through
  BY <1>1, SeenIsPast
<1> QED BY <1>2 DEF Walkable, InFront

\* A run that is opened has every key in front of it.
LEMMA OpenRunChosen ==
  ASSUME NEW E, NEW R, NEW r, RegistryInv(r, E, R), r.needs # None
  PROVE  /\ OpenRun(r).live = r.live
         /\ OpenRun(r).needs = None /\ OpenRun(r).run # None
         /\ OpenRun(r).run.through = r.needs /\ OpenRun(r).run.cursor = 0
         /\ Fronts(OpenRun(r), E)
<1>1. OpenRun(r).needs = None /\ OpenRun(r).run # None
  BY OpenRunInv
<1>2. /\ OpenRun(r).live = r.live
      /\ OpenRun(r).run.through = r.needs /\ OpenRun(r).run.cursor = 0
  BY DEF OpenRun, RegistryInv, Registry
<1>3. \A k \in Keys : k > 0
  BY KeysAssumption
<1> QED BY <1>1, <1>2, <1>3 DEF Fronts, InFront

\* A page of a walk reaches every key that its run removes.
LEMMA WalkPageNamed ==
  ASSUME NEW E, NEW R, NEW r, RegistryInv(r, E, R), r.run # None, Fronts(r, E)
  PROVE  Named([reg |-> r, request |-> Request("walk", FirstKeys(Walkable(r, r.run)))], E)
<1> DEFINE S == Walkable(r, r.run)
           q == Request("walk", FirstKeys(S))
           n == [reg |-> r, request |-> q]
<1>1. S \subseteq Keys /\ q.keys = FirstKeys(S)
  BY DEF Walkable, Request
<1>2. \A k \in Keys : r.live[k] # None /\ Past(E, k, r.run.through) => Reaches(q.keys, k)
  <2> SUFFICES ASSUME NEW k \in Keys, r.live[k] # None, Past(E, k, r.run.through)
               PROVE  Reaches(q.keys, k)
    OBVIOUS
  <2>1. k \in S
    BY WalkableKey DEF Fronts
  <2> HIDE DEF S, q
  <2> QED BY <1>1, <2>1, FirstKeysReach
<1> HIDE DEF q
<1>3. n.reg = r /\ n.request = q
  OBVIOUS
<1> HIDE DEF n
<1>4. Named(n, E)
  BY <1>2, <1>3 DEF Named
<1> QED BY <1>4 DEF n, q

\* next_walk_page() gives up no requirement that a live key is past.
LEMMA NextWalkChosen ==
  ASSUME NEW E, NEW R, History(E, R), NEW r, RegistryInv(r, E, R), Fronts(r, E)
  PROVE  Chosen(r, NextWalk(r), E)
<1> DEFINE first == IF r.run = None THEN OpenRun(r) ELSE r
           closed == [first EXCEPT !.run = None]
           again == OpenRun(closed)
           ended == [r EXCEPT !.run = None, !.needs = None]
           page(s) == [reg |-> s, request |-> Request("walk", FirstKeys(Walkable(s, s.run)))]
           none == [reg |-> ended, request |-> None]
           idle == [reg |-> r, request |-> None]
           n == NextWalk(r)
<1>1. /\ r \in Registry
      /\ r.needs # None => r.needs \in Int
      /\ r.run # None => r.run.through \in Int
  BY DEF RegistryInv, Registry, Run, Revision
<1>2. /\ ended.live = r.live /\ ended.run = None /\ ended.needs = None
      /\ none.reg = ended /\ none.request = None /\ idle.reg = r /\ idle.request = None
      /\ \A s : page(s).reg = s
  BY <1>1 DEF Registry
<1>3. \/ r.run = None /\ r.needs = None /\ n = idle
      \/ /\ ~(r.run = None /\ r.needs = None)
         /\ \/ Walkable(first, first.run) # {} /\ n = page(first)
            \/ /\ Walkable(first, first.run) = {}
               /\ first.needs # None /\ first.needs > first.run.through
               /\ \/ n = page(again)
                  \/ Walkable(again, again.run) = {} /\ n = none
            \/ /\ Walkable(first, first.run) = {} /\ n = none
               /\ ~(first.needs # None /\ first.needs > first.run.through)
  BY Zenon DEF NextWalk
<1>4. ASSUME ~(r.run = None /\ r.needs = None)
      PROVE  /\ RegistryInv(first, E, R) /\ first.live = r.live /\ first.run # None
             /\ Fronts(first, E)
             /\ \A k \in Keys : Walked(r, E, k) => Walked(first, E, k)
             /\ \A q \in Int : WalkBound(r, q) => WalkBound(first, q)
             /\ first.run.through \in Int /\ (first.needs # None => first.needs \in Int)
  <2>1. CASE r.run # None
    <3>1. first = r
      BY <2>1
    <3> HIDE DEF first
    <3> QED BY <1>1, <2>1, <3>1
  <2>2. CASE r.run = None
    <3>1. first = OpenRun(r) /\ r.needs # None
      BY <1>4, <2>2
    <3> HIDE DEF first
    <3>2. /\ RegistryInv(first, E, R) /\ first.live = r.live /\ first.run # None
          /\ first.needs = None /\ first.run.through = r.needs /\ Fronts(first, E)
      BY <3>1, OpenRunInv, OpenRunChosen
    <3> QED BY <1>1, <2>2, <3>1, <3>2 DEF Walked, WalkBound
  <2> QED BY <2>1, <2>2
<1>5. ASSUME ~(r.run = None /\ r.needs = None), first.needs # None
      PROVE  /\ RegistryInv(again, E, R) /\ again.live = r.live /\ again.run # None
             /\ Fronts(again, E) /\ again.run.through = first.needs /\ again.needs = None
  <2>1. first \in Registry /\ RegistryInv(first, E, R) /\ first.live = r.live
    BY <1>4, <1>5 DEF RegistryInv
  <2> HIDE DEF first
  <2>2. /\ closed = [first EXCEPT !.run = None, !.needs = first.needs, !.turn = first.turn]
        /\ closed.live = first.live /\ closed.needs = first.needs
    BY <2>1 DEF Registry
  <2>3. RegistryInv(closed, E, R)
    <3>1. /\ None \in Run \cup {None}
          /\ first.needs \in Revision \cup {None} /\ first.turn \in PageClass
      BY <2>1 DEF Registry
    <3> HIDE DEF closed
    <3> QED BY <2>1, <2>2, <3>1, WalkInv, Zenon
  <2>4. again = OpenRun(closed) /\ closed.needs # None
    BY <1>5, <2>2
  <2> HIDE DEF closed, again
  <2>5. RegistryInv(again, E, R)
    BY <2>3, <2>4, OpenRunInv
  <2>6. /\ again.live = closed.live /\ again.needs = None /\ again.run # None
        /\ again.run.through = closed.needs /\ Fronts(again, E)
    BY <2>3, <2>4, OpenRunChosen
  <2> QED BY <2>1, <2>2, <2>5, <2>6
<1> HIDE DEF first, again, ended, none, page, idle
<1>6. ASSUME ~(r.run = None /\ r.needs = None), Walkable(first, first.run) = {},
             NEW k \in Keys, r.live[k] # None, Walked(r, E, k)
      PROVE  first.needs # None /\ Past(E, k, first.needs) /\ first.needs > first.run.through
  <2>1. ~Past(E, k, first.run.through)
    BY <1>4, <1>6, WalkableKey DEF Fronts
  <2>2. first.needs # None /\ Past(E, k, first.needs)
    BY <1>4, <1>6, <2>1 DEF Walked
  <2>3. first.needs \in Int /\ first.run.through \in Int
    BY <1>4, <1>6, <2>2
  <2>4. ~(first.needs <= first.run.through)
    BY <2>1, <2>2, <2>3, PastLater
  <2> QED BY <2>2, <2>3, <2>4
<1>7. ASSUME n = idle PROVE Chosen(r, n, E)
  BY <1>2, <1>7 DEF Chosen, Named
<1>8. ASSUME ~(r.run = None /\ r.needs = None), n = page(first) PROVE Chosen(r, n, E)
  <2>1. Named(page(first), E)
    BY <1>4, <1>8, WalkPageNamed DEF page
  <2> QED BY <1>2, <1>4, <1>8, <2>1 DEF Chosen
<1>9. ASSUME ~(r.run = None /\ r.needs = None), Walkable(first, first.run) = {},
             first.needs # None, n = page(again)
      PROVE  Chosen(r, n, E)
  <2>1. Named(page(again), E)
    BY <1>5, <1>9, WalkPageNamed DEF page
  <2>2. \A k \in Keys : r.live[k] # None /\ Walked(r, E, k) => Walked(again, E, k)
    BY <1>5, <1>6, <1>9 DEF Walked
  <2>3. \A q \in Int : WalkBound(r, q) => WalkBound(again, q)
    BY <1>4, <1>5, <1>9 DEF WalkBound
  <2> QED BY <1>2, <1>5, <1>9, <2>1, <2>2, <2>3 DEF Chosen
<1>10. ASSUME ~(r.run = None /\ r.needs = None), Walkable(first, first.run) = {}, n = none,
              first.needs # None /\ first.needs > first.run.through =>
                 Walkable(again, again.run) = {}
       PROVE  Chosen(r, n, E)
  <2>1. \A k \in Keys : r.live[k] # None => ~Walked(r, E, k)
    <3> SUFFICES ASSUME NEW k \in Keys, r.live[k] # None, Walked(r, E, k) PROVE FALSE
      OBVIOUS
    <3>1. first.needs # None /\ Past(E, k, first.needs) /\ first.needs > first.run.through
      BY <1>6, <1>10
    <3>2. Walkable(again, again.run) = {}
      BY <1>10, <3>1
    <3> QED BY <1>5, <1>10, <3>1, <3>2, WalkableKey DEF Fronts
  <2>2. Fronts(ended, E) /\ \A q \in Int : WalkBound(ended, q)
    BY <1>2 DEF Fronts, InFront, WalkBound
  <2>3. Named(none, E)
    BY <1>2 DEF Named
  <2> QED BY <1>2, <1>10, <2>1, <2>2, <2>3 DEF Chosen
<1> HIDE DEF n
<1>11. Chosen(r, n, E)
  BY <1>3, <1>7, <1>8, <1>9, <1>10
<1> QED BY <1>11 DEF n

\* A page of another class leaves the walk as it is.
LEMMA SameWalkChosen ==
  ASSUME NEW E, NEW r, NEW s, Fronts(r, E),
         s.live = r.live, s.run = r.run, s.needs = r.needs,
         NEW q, q = None \/ q.class # "walk"
  PROVE  Chosen(r, [reg |-> s, request |-> q], E)
<1> DEFINE n == [reg |-> s, request |-> q]
<1>1. n.reg = s /\ n.request = q
  OBVIOUS
<1> HIDE DEF n
<1>2. Chosen(r, n, E)
  BY <1>1 DEF Chosen, Fronts, InFront, Named, Walked, WalkBound
<1> QED BY <1>2 DEF n

\* Asking each class in turn gives up no requirement.
LEMMA NextOfClassChosen ==
  ASSUME NEW E, NEW R, History(E, R), NEW r, RegistryInv(r, E, R), Fronts(r, E), NEW c \in PageClass
  PROVE  Chosen(r, NextOfClass(r, c), E)
<1>1. CASE c = "walk"
  <2>1. NextOfClass(r, c) = NextWalk(r)
    BY <1>1 DEF NextOfClass
  <2> QED BY <2>1, NextWalkChosen
<1>2. CASE c # "walk"
  <2>1. \E q : NextOfClass(r, c) = [reg |-> r, request |-> q] /\ (q = None \/ q.class # "walk")
    <3>1. \A S : Request(c, S).class # "walk"
      BY <1>2 DEF Request
    <3>2. CASE c = "admission"
      BY <3>1, <3>2 DEF NextOfClass
    <3>3. CASE c = "recovery"
      BY <3>1, <3>3 DEF NextOfClass
    <3> QED BY <1>2, <3>2, <3>3 DEF PageClass
  <2> QED BY <2>1, SameWalkChosen
<1> QED BY <1>1, <1>2

\* Choices compose.
LEMMA ChosenTransitive ==
  ASSUME NEW E, NEW r, NEW n, NEW m, Chosen(r, n, E), Chosen(n.reg, m, E)
  PROVE  Chosen(r, m, E)
  BY DEF Chosen

\* The turn of the classes is no part of the walk.
LEMMA TurnChosen ==
  ASSUME NEW E, NEW r, NEW n, n.reg \in Registry, Chosen(r, n, E), NEW c
  PROVE  Chosen(r, Turn(n, c), E)
<1> DEFINE u == n.reg
           x == Successor(c)
           v == [u EXCEPT !.turn = x]
           m == Turn(n, c)
<1>1. m = [reg |-> v, request |-> n.request]
  BY Zenon DEF Turn
<1>2. u \in Registry
  OBVIOUS
<1>3. v.live = u.live /\ v.run = u.run /\ v.needs = u.needs
  <2> HIDE DEF u, x
  <2> QED BY <1>2 DEF Registry
<1> HIDE DEF v
<1>4. m.reg = v /\ m.request = n.request
  BY <1>1
<1> HIDE DEF m
<1>5. Chosen(r, m, E)
  BY <1>3, <1>4 DEF Chosen, Fronts, InFront, Named, Walked, WalkBound
<1> QED BY <1>5 DEF m

\* next_page_request() gives up no requirement that a live key is past, and a
\* walk page reaches every key that the run removes.
LEMMA NextPageChosen ==
  ASSUME NEW E, NEW R, History(E, R), NEW r, RegistryInv(r, E, R), Fronts(r, E), NEW now
  PROVE  Chosen(r, NextPage(r, now), E)
<1> DEFINE s == PrunePending(r, now)
           c1 == s.turn
           c2 == Successor(c1)
           c3 == Successor(c2)
           n1 == NextOfClass(s, c1)
           n2 == NextOfClass(n1.reg, c2)
           n3 == NextOfClass(n2.reg, c3)
           n == NextPage(r, now)
           m == [reg |-> s, request |-> None]
<1>1. RegistryInv(s, E, R)
  BY PrunePendingInv
<1>2. s.live = r.live /\ s.run = r.run /\ s.needs = r.needs
  BY DEF PrunePending, RegistryInv, Registry
<1>3. c1 \in PageClass /\ c2 \in PageClass /\ c3 \in PageClass
  <2>1. c1 \in PageClass
    BY <1>1 DEF RegistryInv, Registry
  <2> HIDE DEF c1
  <2> QED BY <2>1 DEF Successor, PageClass
<1> HIDE DEF s, c1, c2, c3
<1>4. Chosen(r, m, E) /\ m.reg = s
  BY <1>2, SameWalkChosen
<1> HIDE DEF m
<1>5. RegistryInv(n1.reg, E, R) /\ Chosen(r, n1, E)
  <2>1. RegistryInv(n1.reg, E, R)
    BY <1>1, <1>3, NextOfClassInv DEF NextOK
  <2>2. Fronts(s, E)
    BY <1>4 DEF Chosen
  <2>3. Chosen(s, n1, E)
    BY <1>1, <1>3, <2>2, NextOfClassChosen
  <2> QED BY <1>4, <2>1, <2>3, ChosenTransitive
<1> HIDE DEF n1
<1>6. RegistryInv(n2.reg, E, R) /\ Chosen(r, n2, E)
  <2>1. RegistryInv(n2.reg, E, R)
    BY <1>3, <1>5, NextOfClassInv DEF NextOK
  <2>2. Fronts(n1.reg, E)
    BY <1>5 DEF Chosen
  <2>3. Chosen(n1.reg, n2, E)
    BY <1>3, <1>5, <2>2, NextOfClassChosen
  <2> QED BY <1>5, <2>1, <2>3, ChosenTransitive
<1> HIDE DEF n2
<1>7. RegistryInv(n3.reg, E, R) /\ Chosen(r, n3, E)
  <2>1. RegistryInv(n3.reg, E, R)
    BY <1>3, <1>6, NextOfClassInv DEF NextOK
  <2>2. Fronts(n2.reg, E)
    BY <1>6 DEF Chosen
  <2>3. Chosen(n2.reg, n3, E)
    BY <1>3, <1>6, <2>2, NextOfClassChosen
  <2> QED BY <1>6, <2>1, <2>3, ChosenTransitive
<1>8. \/ n = m \/ n = Turn(n1, c1) \/ n = Turn(n2, c2) \/ n = Turn(n3, c3) \/ n = n3
  BY Zenon DEF NextPage, s, c1, c2, c3, n1, n2, m
<1> HIDE DEF n3, n
<1>9. Chosen(r, n, E)
  BY <1>4, <1>5, <1>6, <1>7, <1>8, TurnChosen DEF RegistryInv
<1> QED BY <1>9 DEF n

\* What the walk keeps of the other operators' changes.
LEMMA AdvanceWalkFields ==
  ASSUME NEW r \in Registry, NEW k \in Nat
  PROVE  LET s == AdvanceWalk(r, k) IN
         /\ s.live = r.live /\ s.needs = r.needs
         /\ IF r.run = None THEN s.run = None
            ELSE s.run # None /\ s.run.through = r.run.through /\ s.run.cursor = k
<1>1. CASE r.run = None
  BY <1>1 DEF AdvanceWalk
<1>2. CASE r.run # None
  <2> DEFINE x == [r.run EXCEPT !.cursor = k]
             s == [r EXCEPT !.run = x]
  <2>1. AdvanceWalk(r, k) = s
    BY <1>2 DEF AdvanceWalk
  <2>2. r.run \in Run
    BY <1>2 DEF Registry
  <2>3. x = [cursor |-> k, through |-> r.run.through]
    BY <2>2 DEF Run
  <2>4. x # None
    BY <2>2, <2>3, NoneAssumption DEF Run
  <2> HIDE DEF x
  <2>5. s.live = r.live /\ s.needs = r.needs /\ s.run = x
    BY DEF Registry
  <2> QED BY <1>2, <2>1, <2>3, <2>4, <2>5
<1> QED BY <1>1, <1>2

\* What has no part in the walk.
SameWalk(r, s) ==
    s.run = r.run /\ s.needs = r.needs /\ s.broad_through = r.broad_through

\* broad() raises the guard and requires a walk that is as new.
LEMMA BroadFields ==
  ASSUME NEW r \in Registry, NEW q \in Revision
  PROVE  LET s == Broad(r, q) IN
         /\ s.live = r.live /\ s.run = r.run
         /\ s.needs \in Int /\ s.needs # None /\ s.needs >= q
         /\ s.needs = q \/ (r.needs # None /\ s.needs = r.needs)
         /\ r.needs # None => s.needs >= r.needs
         /\ s.broad_through = Max2(r.broad_through, q)
<1> DEFINE s == Broad(r, q)
<1>1. /\ s.live = r.live /\ s.run = r.run /\ s.broad_through = Max2(r.broad_through, q)
      /\ s.needs = Require(r.needs, q)
  BY DEF Broad, Registry
<1> HIDE DEF s
<1>2. (r.needs # None => r.needs \in Nat) /\ q \in Nat
  BY DEF Registry, Revision
<1>3. \/ s.needs = r.needs /\ r.needs # None /\ r.needs >= q
      \/ s.needs = q /\ ~(r.needs # None /\ r.needs >= q)
  BY <1>1 DEF Require
<1>4. q # None
  BY <1>2, NoneAssumption
<1>5. /\ s.needs \in Int /\ s.needs # None /\ s.needs >= q
      /\ s.needs = q \/ (r.needs # None /\ s.needs = r.needs)
      /\ r.needs # None => s.needs >= r.needs
  <2>1. CASE s.needs = r.needs /\ r.needs # None /\ r.needs >= q
    <3> DEFINE a == r.needs
    <3>1. a \in Nat /\ a # None /\ a >= q
      BY <1>2, <2>1
    <3> HIDE DEF a
    <3>2. a \in Int /\ a >= a
      BY <3>1
    <3> QED BY <2>1, <3>1, <3>2 DEF a
  <2>2. CASE s.needs = q /\ ~(r.needs # None /\ r.needs >= q)
    <3>1. r.needs # None => q >= r.needs
      BY <1>2, <2>2
    <3> QED BY <1>2, <1>4, <2>2, <3>1
  <2> QED BY <1>3, <2>1, <2>2
<1> QED BY <1>1, <1>5, Zenon DEF s

\* The anonymous activity and the recovery have no part in the walk.
LEMMA OtherWalk ==
  ASSUME NEW r \in Registry
  PROVE  /\ \A a, through : SameWalk(r, Cover(r, a, through))
         /\ \A a, at, g, now : SameWalk(r, AnonymousTouch(r, a, at, g, now))
         /\ \A rows, q : SameWalk(r, HoldRecoveryPage(r, rows, q))
         /\ SameWalk(r, FinishRecoveryPage(r))
<1>1. SameWalk(r, r)
  BY DEF SameWalk
<1>2. ASSUME NEW a, NEW through PROVE SameWalk(r, Cover(r, a, through))
  <2>1. Cover(r, a, through) = r \/ Cover(r, a, through) = ClearAnonymous(r, a)
    BY DEF Cover
  <2>2. SameWalk(r, ClearAnonymous(r, a))
    BY DEF ClearAnonymous, Registry, SameWalk
  <2> QED BY <1>1, <2>1, <2>2
<1>3. ASSUME NEW a, NEW at, NEW g, NEW now PROVE SameWalk(r, AnonymousTouch(r, a, at, g, now))
  <2> DEFINE entry == r.anonymous[a]
             new == [generation |-> g, at |-> at]
             kept == [entry EXCEPT !.generation = g]
             d == r.deadlines \cup {AnonymousDeadline(a, new)}
             e == (r.deadlines \ {AnonymousDeadline(a, entry)}) \cup {AnonymousDeadline(a, new)}
             v == r.anonymousView \cup {a}
  <2>1. \/ AnonymousTouch(r, a, at, g, now) = r
        \/ AnonymousTouch(r, a, at, g, now)
             = [r EXCEPT !.anonymous[a] = new, !.deadlines = d, !.anonymousView = v]
        \/ AnonymousTouch(r, a, at, g, now) = [r EXCEPT !.anonymous[a] = kept]
        \/ AnonymousTouch(r, a, at, g, now) = [r EXCEPT !.anonymous[a] = new, !.deadlines = e]
    BY DEF AnonymousTouch
  <2> HIDE DEF new, kept, d, e, v
  <2> QED BY <1>1, <2>1 DEF Registry, SameWalk
<1>4. ASSUME NEW w PROVE SameWalk(r, [r EXCEPT !.recovery = w])
  BY DEF Registry, SameWalk
<1>5. ASSUME NEW rows, NEW q PROVE SameWalk(r, HoldRecoveryPage(r, rows, q))
  <2> DEFINE p == [rows |-> rows, revision |-> q,
                   cursor |-> IF rows = <<>> THEN None
                              ELSE [epoch |-> rows[Len(rows)].epoch, key |-> rows[Len(rows)].key],
                   exhausted |-> Len(rows) < PageSize]
             w == [r.recovery EXCEPT !.page = p]
  <2>1. \/ HoldRecoveryPage(r, rows, q) = r
        \/ HoldRecoveryPage(r, rows, q) = [r EXCEPT !.recovery.page = p]
    BY Zenon DEF HoldRecoveryPage
  <2> HIDE DEF p
  <2>2. [r EXCEPT !.recovery.page = p] = [r EXCEPT !.recovery = w]
    OBVIOUS
  <2> HIDE DEF w
  <2> QED BY <1>1, <1>4, <2>1, <2>2
<1>6. SameWalk(r, FinishRecoveryPage(r))
  <2> DEFINE w == [r.recovery EXCEPT !.cursor = r.recovery.page.cursor]
             x == [w EXCEPT !.page = None]
  <2>1. \/ FinishRecoveryPage(r) = [r EXCEPT !.recovery = None]
        \/ FinishRecoveryPage(r)
              = [r EXCEPT !.recovery.cursor = r.recovery.page.cursor, !.recovery.page = None]
    BY Zenon DEF FinishRecoveryPage
  <2>2. [r EXCEPT !.recovery.cursor = r.recovery.page.cursor, !.recovery.page = None]
          = [r EXCEPT !.recovery = x]
    BY DEF Registry
  <2> HIDE DEF x
  <2> QED BY <1>4, <2>1, <2>2
<1> QED BY <1>2, <1>3, <1>5, <1>6

\* What a held page is replaced by is outside the walk.
LEMMA PageAside ==
  ASSUME NEW s \in Registry, NEW w
  PROVE  SameWalk(s, [s EXCEPT !.recovery = w]) /\ SameWalk(s, s)
BY DEF Registry, SameWalk

\* A recovered row has no part in the walk beyond what apply_present_row() does.
LEMMA RecoverRowWalk ==
  ASSUME NEW r \in Registry, NEW now,
         NEW s, s = ApplyPresentRow(r, Head(r.recovery.page.rows).key,
                                    Head(r.recovery.page.rows), r.recovery.page.revision, now).reg,
         s \in Registry
  PROVE  SameWalk(s, RecoverRow(r, now).reg)
<1> DEFINE held == r.recovery.page
           x == Head(held.rows)
           t == ApplyPresentRow(r, x.key, x, held.revision, now)
           w == [r.recovery EXCEPT !.page.rows = Tail(held.rows)]
           v == [t.reg EXCEPT !.recovery = w]
           z == [s EXCEPT !.recovery = w]
<1>1. RecoverRow(r, now) = t \/ RecoverRow(r, now) = Touched(v, t.touch)
  BY Zenon DEF RecoverRow
<1>2. t.reg = s /\ v = z
  BY Zenon
<1>3. Touched(v, t.touch).reg = v
  <2>1. \A c, d : Touched(c, d).reg = c
    BY DEF Touched
  <2> QED BY <2>1, Zenon
<1> HIDE DEF t, v, z
<1>4. RecoverRow(r, now).reg = s \/ RecoverRow(r, now).reg = z
  BY <1>1, <1>2, <1>3, Zenon
<1>5. SameWalk(s, z) /\ SameWalk(s, s)
  BY PageAside, Zenon DEF z
<1> QED BY <1>4, <1>5, Zenon

\* expire() ends only sessions that are out of the window, and leaves the
\* identity and the activity of the others.
Outlived(r, s, k, now) ==
    \/ s.live[k] = None /\ (r.live[k] # None => OutOfWindow(r.live[k].last_activity_at, now))
    \/ /\ s.live[k] # None /\ r.live[k] # None
       /\ s.live[k].incarnation = r.live[k].incarnation
       /\ s.live[k].last_activity_at = r.live[k].last_activity_at

\* expire(): an entry goes when its activity is out of the window, else it keeps it.
LEMMA ExpireOneOutlived ==
  ASSUME NEW r \in Registry, NEW d \in r.deadlines, NEW now
  PROVE  LET s == ExpireOne(r, d, now) IN
         /\ SameWalk(r, s) /\ s.pending = r.pending
         /\ \A k \in Keys : Outlived(r, s, k, now)
<1>1. d[2] \in DeadlineKey
  BY DEF Registry
<1>2. CASE d[2][1] = "session"
  <2> DEFINE j == d[2][2]
             entry == r.live[j]
             quiet == [entry EXCEPT !.quiet_published = TRUE]
             s == [r EXCEPT !.live[j] = quiet,
                            !.deadlines = (@ \ {d}) \cup {SessionDeadline(j, quiet)},
                            !.working = @ - 1, !.view[j] = "quiet"]
             t == [r EXCEPT !.deadlines = (@ \ {d}) \cup {SessionDeadline(j, entry)}]
             u == [r EXCEPT !.deadlines = @ \ {d}]
             e == EndLive(r, j)
  <2>1. j \in Keys
    BY <1>1, <1>2 DEF DeadlineKey
  <2>2. ExpireOne(r, d, now) = ExpireSession(r, d, now)
    BY <1>2, Zenon DEF ExpireOne
  <2>3. \/ ExpireSession(r, d, now) = u
        \/ entry # None /\ OutOfWindow(entry.last_activity_at, now) /\ ExpireSession(r, d, now) = e
        \/ entry # None /\ ExpireSession(r, d, now) = s
        \/ ExpireSession(r, d, now) = t
    BY Zenon DEF ExpireSession
  <2>4. entry # None => /\ quiet.incarnation = entry.incarnation
                        /\ quiet.last_activity_at = entry.last_activity_at
                        /\ quiet # None
    <3>1. entry # None => entry \in LiveEntry
      BY <2>1 DEF Registry
    <3> HIDE DEF entry
    <3>2. entry # None => quiet \in LiveEntry
      BY <3>1 DEF LiveEntry
    <3> QED BY <3>1, <3>2, NoneAssumption DEF LiveEntry
  <2>5. e.live = [r.live EXCEPT ![j] = None] /\ OneKey(r, e, j) /\ e.pending = r.pending
    <3>1. e.live = [r.live EXCEPT ![j] = None] /\ e.pending = r.pending
      BY <2>1, EndLiveFields
    <3> QED BY <2>1, <3>1, EndLiveOneKey
  <2> HIDE DEF quiet, entry, j, e
  <2>6. /\ u.live = r.live /\ u.pending = r.pending /\ t.live = r.live /\ t.pending = r.pending
        /\ s.pending = r.pending /\ s.live = [r.live EXCEPT ![j] = quiet]
        /\ SameWalk(r, u) /\ SameWalk(r, s) /\ SameWalk(r, t)
        /\ DOMAIN r.live = Keys
    BY DEF Registry, SameWalk
  <2> HIDE DEF u, s, t
  <2>7. SameWalk(r, e)
    BY <2>5 DEF OneKey, SameWalk
  <2>8. (\A k \in Keys : Outlived(r, u, k, now)) /\ (\A k \in Keys : Outlived(r, t, k, now))
    BY <2>6 DEF Outlived
  <2>9. entry # None => \A k \in Keys : Outlived(r, s, k, now)
    BY <2>1, <2>4, <2>6 DEF Outlived, entry
  <2>10. OutOfWindow(entry.last_activity_at, now) => \A k \in Keys : Outlived(r, e, k, now)
    BY <2>1, <2>5, <2>6 DEF Outlived, entry
  <2> QED BY <2>2, <2>3, <2>5, <2>6, <2>7, <2>8, <2>9, <2>10
<1>3. CASE d[2][1] # "session"
  <2> DEFINE a == d[2][2]
             t == [r EXCEPT !.deadlines = (@ \ {d}) \cup {AnonymousDeadline(a, r.anonymous[a])}]
             u == [r EXCEPT !.deadlines = @ \ {d}]
             c == ClearAnonymous(r, a)
  <2>1. ExpireOne(r, d, now) = ExpireAnonymous(r, d, now)
    BY <1>3, Zenon DEF ExpireOne
  <2>2. \/ ExpireAnonymous(r, d, now) = u \/ ExpireAnonymous(r, d, now) = t
        \/ ExpireAnonymous(r, d, now) = c
    BY Zenon DEF ExpireAnonymous
  <2>3. c.live = r.live /\ c.pending = r.pending /\ SameWalk(r, c)
    BY DEF ClearAnonymous, Registry, SameWalk
  <2> HIDE DEF a, c
  <2>4. /\ u.live = r.live /\ u.pending = r.pending /\ t.live = r.live /\ t.pending = r.pending
        /\ SameWalk(r, u) /\ SameWalk(r, t)
    BY DEF Registry, SameWalk
  <2> HIDE DEF u, t
  <2> QED BY <2>1, <2>2, <2>3, <2>4 DEF Outlived
<1> QED BY <1>2, <1>3

----------------------------------------------------------------------------
(* Activity of the stored incarnation that the registry keeps.             *)

\* Activity of incarnation i of k at t or later is live or waits for admission.
Holds(r, k, i, t) ==
    \/ r.live[k] # None /\ r.live[k].incarnation = i /\ r.live[k].last_activity_at >= t
    \/ r.pending[k] # None /\ r.pending[k].incarnation = i /\ r.pending[k].at >= t

HoldsOn(r, s, k, i) == \A t \in Int : Holds(r, k, i, t) => Holds(s, k, i, t)

\* What a fact about k brings of incarnation i, unless the full pending set blocks it.
Takes(r, t, k, fact, i) ==
    /\ HoldsOn(r, t.reg, k, i)
    /\ fact.incarnation = i /\ t.touch # "blocked" => Holds(t.reg, k, i, fact.at)

\* No evidence of k in the registry is of an incarnation above i, and i is not deleted.
Tops(r, k, i) ==
    /\ r.live[k] # None => r.live[k].incarnation <= i /\ r.pending[k] = None
    /\ r.pending[k] # None => r.pending[k].incarnation <= i
    /\ r.deleted[k] # None => r.deleted[k].incarnation < i

\* Activity at a time is activity at every earlier one.
LEMMA HoldsEarlier ==
  ASSUME NEW r \in Registry, NEW k \in Keys, NEW i, NEW t \in Int, NEW m \in Int, m <= t,
         Holds(r, k, i, t)
  PROVE  Holds(r, k, i, m)
<1>1. /\ r.live[k] # None => r.live[k].last_activity_at \in Int
      /\ r.pending[k] # None => r.pending[k].at \in Int
  BY DEF Registry, LiveEntry, Existence, Time
<1> QED BY <1>1 DEF Holds

\* What a registry holds of a key is in the two entries of the key.
LEMMA SameHolds ==
  ASSUME NEW r, NEW s, NEW k, NEW i, s.live[k] = r.live[k], s.pending[k] = r.pending[k]
  PROVE  HoldsOn(r, s, k, i) /\ (Tops(r, k, i) /\ s.deleted = r.deleted => Tops(s, k, i))
  BY DEF HoldsOn, Holds, Tops

\* The incarnation that the latest revision holds is the last one, it is gone from
\* no revision on, and every revision since it was seen holds it.
LEMMA PresentIsLast ==
  ASSUME NEW E, NEW R, History(E, R), NEW k, NEW i, <<k, i, R>> \in E
  PROVE  /\ i \in Incarnation
         /\ \A j, q : <<k, j, q>> \in E => j <= i
         /\ \A j, q : Gone(E, R, k, j, q) => j < i
         /\ \A q : <<k, i, q>> \in E => \A p \in q..R : <<k, i, p>> \in E
<1>1. /\ i \in Nat /\ R \in Nat
      /\ <<k, i, R>>[1] = k /\ <<k, i, R>>[2] = i /\ <<k, i, R>>[3] = R
  BY DEF History, Incarnation, Revision
<1>2. ASSUME NEW j, NEW q, <<k, j, q>> \in E PROVE j <= i
  <2>1. j \in Nat /\ q \in 0..R
    BY <1>2 DEF History, Incarnation
  <2>2. <<k, j, q>>[1] = k /\ <<k, j, q>>[2] = j /\ <<k, j, q>>[3] = q
    OBVIOUS
  <2>3. i < j => R < q
    BY <1>1, <1>2, <2>2 DEF History
  <2> QED BY <1>1, <2>1, <2>3
<1>3. ASSUME NEW j, NEW q, Gone(E, R, k, j, q) PROVE j < i
  <2>1. j \in Nat /\ q \in 0..R
    BY <1>3 DEF Gone, Incarnation
  <2>2. R >= q
    BY <1>1, <2>1
  <2>3. i > j
    BY <1>1, <1>3, <2>2 DEF Gone
  <2> QED BY <1>1, <2>1, <2>3
<1>4. ASSUME NEW q, <<k, i, q>> \in E, NEW p \in q..R PROVE <<k, i, p>> \in E
  <2>1. <<k, i, q>>[1] = k /\ <<k, i, q>>[2] = i /\ <<k, i, q>>[3] = q
    OBVIOUS
  <2> QED BY <1>1, <1>4, <2>1 DEF History
<1> QED BY <1>1, <1>2, <1>3, <1>4 DEF Incarnation

\* The stored incarnation tops what the registry has of its key.
LEMMA PresentTops ==
  ASSUME NEW E, NEW R, History(E, R), NEW r, RegistryInv(r, E, R), NEW k \in Keys,
         NEW i, <<k, i, R>> \in E
  PROVE  Tops(r, k, i)
<1>1. KeyInv(r, E, R, k)
  BY DEF RegistryInv
<1> QED BY <1>1, PresentIsLast DEF KeyInv, Tops

\* defer(): evidence of the last incarnation is kept, and merged if it waits.
LEMMA DeferTakes ==
  ASSUME NEW r \in Registry, NEW k \in Keys, NEW fact \in Existence, NEW i \in Incarnation,
         Tops(r, k, i), fact.incarnation <= i
  PROVE  Takes(r, Defer(r, k, fact), k, fact, i)
<1> DEFINE held == r.pending[k]
           merged == [fact EXCEPT !.at = Max2(held.at, fact.at),
                                  !.revision = Max2(held.revision, fact.revision)]
           put(v) == [r EXCEPT !.pending[k] = v]
           t == Defer(r, k, fact)
<1>1. \/ held = None /\ t = Touched(r, "blocked")
      \/ held = None /\ t = Touched(put(fact), "deferred")
      \/ held # None /\ held.incarnation = fact.incarnation /\ t = Touched(put(merged), "deferred")
      \/ held # None /\ held.incarnation < fact.incarnation /\ t = Touched(put(fact), "deferred")
      \/ /\ held # None /\ held.incarnation # fact.incarnation
         /\ ~(held.incarnation < fact.incarnation) /\ t = Touched(r, "deferred")
  BY Zenon DEF Defer
<1>2. merged.incarnation = fact.incarnation /\ merged.at = Max2(held.at, fact.at)
      /\ merged \in [incarnation : Incarnation, at : {Max2(held.at, fact.at)},
                     revision : {Max2(held.revision, fact.revision)}]
  BY DEF Existence
<1>3. /\ fact.incarnation \in Int /\ fact.at \in Int /\ i \in Int /\ fact # None
      /\ held # None => held.at \in Int /\ held.incarnation \in Int /\ held.revision \in Nat
  BY NoneAssumption DEF Registry, Existence, Time, Incarnation, Revision
<1>4. \A v : put(v).live = r.live /\ put(v).pending[k] = v
  BY DEF Registry
<1>5. held # None => merged # None
  <2>1. held # None => merged \in Existence
    BY <1>3 DEF Existence, Max2, Time, Revision
  <2> QED BY <2>1, NoneAssumption
<1>6. \A x, y : Touched(x, y).reg = x /\ Touched(x, y).touch = y
  BY DEF Touched
<1> SUFFICES Takes(r, t, k, fact, i)
  OBVIOUS
<1> HIDE DEF merged, put, t
<1>7. CASE held = None /\ t = Touched(r, "blocked")
  BY <1>6, <1>7 DEF Takes, HoldsOn
<1>8. CASE held = None /\ t = Touched(put(fact), "deferred")
  <2>1. HoldsOn(r, put(fact), k, i)
    BY <1>4, <1>8 DEF HoldsOn, Holds
  <2>2. fact.incarnation = i => Holds(put(fact), k, i, fact.at)
    BY <1>3, <1>4 DEF Holds
  <2> QED BY <1>6, <1>8, <2>1, <2>2 DEF Takes
<1>9. CASE held # None /\ held.incarnation = fact.incarnation /\ t = Touched(put(merged), "deferred")
  <2>1. PICK m : m = merged.at
    OBVIOUS
  <2>2. m \in Int /\ m >= held.at /\ m >= fact.at
    BY <1>2, <1>3, <1>9, <2>1 DEF Max2
  <2>3. \A x \in Int : held.at >= x => m >= x
    BY <1>3, <1>9, <2>2
  <2>4. HoldsOn(r, put(merged), k, i)
    BY <1>2, <1>4, <1>5, <1>9, <2>1, <2>3 DEF HoldsOn, Holds
  <2>5. fact.incarnation = i => Holds(put(merged), k, i, fact.at)
    BY <1>2, <1>4, <1>5, <1>9, <2>1, <2>2 DEF Holds
  <2> QED BY <1>6, <1>9, <2>4, <2>5 DEF Takes
<1>10. CASE held # None /\ held.incarnation < fact.incarnation /\ t = Touched(put(fact), "deferred")
  <2>1. held.incarnation # i
    BY <1>3, <1>10
  <2>2. HoldsOn(r, put(fact), k, i)
    BY <1>4, <1>10, <2>1 DEF HoldsOn, Holds
  <2>3. fact.incarnation = i => Holds(put(fact), k, i, fact.at)
    BY <1>3, <1>4 DEF Holds
  <2> QED BY <1>6, <1>10, <2>2, <2>3 DEF Takes
<1>11. CASE /\ held # None /\ held.incarnation # fact.incarnation
            /\ ~(held.incarnation < fact.incarnation) /\ t = Touched(r, "deferred")
  <2>1. fact.incarnation # i
    BY <1>3, <1>11 DEF Tops
  <2> QED BY <1>6, <1>11, <2>1 DEF Takes, HoldsOn
<1> QED BY <1>1, <1>7, <1>8, <1>9, <1>10, <1>11

\* establish(), the live incarnation: the later time is kept.
LEMMA RefreshTakes ==
  ASSUME NEW r \in Registry, NEW k \in Keys, NEW fact \in Existence, NEW i,
         r.live[k] # None, r.live[k].incarnation = fact.incarnation
  PROVE  Takes(r, Refresh(r, k, fact), k, fact, i)
<1> DEFINE entry == r.live[k]
           seen == [entry EXCEPT !.exists_at = Max2(@, fact.revision)]
           active == [seen EXCEPT !.last_activity_at = fact.at, !.quiet_published = FALSE]
           d == (r.deadlines \ {SessionDeadline(k, entry)}) \cup {SessionDeadline(k, active)}
           w == r.working + 1 - Weight(entry)
           s == [r EXCEPT !.live[k] = seen]
           t == [r EXCEPT !.live[k] = active, !.deadlines = d, !.working = w]
           u == Refresh(r, k, fact)
<1>1. \/ fact.at <= entry.last_activity_at /\ u = Touched(s, "unchanged")
      \/ ~(fact.at <= entry.last_activity_at) /\ u = Touched(t, "advanced")
  BY Zenon DEF Refresh
<1>2. /\ seen.incarnation = entry.incarnation /\ seen.last_activity_at = entry.last_activity_at
      /\ active.incarnation = entry.incarnation /\ active.last_activity_at = fact.at
      /\ seen # None /\ active # None
      /\ entry.last_activity_at \in Int /\ fact.at \in Int
  <2>1. entry \in LiveEntry /\ fact.revision \in Revision /\ fact.at \in Time
    BY DEF Registry, Existence
  <2> HIDE DEF entry
  <2>2. seen \in LiveEntry
    BY <2>1 DEF LiveEntry, Max2, Revision
  <2>3. seen.incarnation = entry.incarnation /\ seen.last_activity_at = entry.last_activity_at
    BY <2>1 DEF LiveEntry
  <2> HIDE DEF seen
  <2>4. active \in LiveEntry /\ active.incarnation = seen.incarnation
        /\ active.last_activity_at = fact.at
    BY <2>1, <2>2 DEF LiveEntry
  <2> HIDE DEF active
  <2> QED BY <2>1, <2>2, <2>3, <2>4, NoneAssumption DEF LiveEntry, Time
<1> SUFFICES Takes(r, u, k, fact, i)
  OBVIOUS
<1> HIDE DEF seen, active, d, w, u
<1>3. s.live[k] = seen /\ t.live[k] = active /\ s.pending = r.pending /\ t.pending = r.pending
  BY DEF Registry
<1> HIDE DEF s, t
<1>4. \A x, y : Touched(x, y).reg = x /\ Touched(x, y).touch = y
  BY DEF Touched
<1>5. CASE fact.at <= entry.last_activity_at /\ u = Touched(s, "unchanged")
  <2>1. HoldsOn(r, s, k, i)
    BY <1>2, <1>3 DEF HoldsOn, Holds
  <2>2. fact.incarnation = i => Holds(s, k, i, fact.at)
    BY <1>2, <1>3, <1>5 DEF Holds
  <2> QED BY <1>4, <1>5, <2>1, <2>2 DEF Takes
<1>6. CASE ~(fact.at <= entry.last_activity_at) /\ u = Touched(t, "advanced")
  <2>1. \A x \in Int : entry.last_activity_at >= x => fact.at >= x
    BY <1>2, <1>6
  <2>2. HoldsOn(r, t, k, i)
    BY <1>2, <1>3, <2>1 DEF HoldsOn, Holds
  <2>3. fact.incarnation = i => Holds(t, k, i, fact.at)
    BY <1>2, <1>3 DEF Holds
  <2> QED BY <1>4, <1>6, <2>2, <2>3 DEF Takes
<1> QED BY <1>1, <1>5, <1>6

\* A fact that becomes the live entry.
LEMMA InsertLiveHolds ==
  ASSUME NEW r \in Registry, NEW k \in Keys \ RemoteKeys, NEW fact \in Existence, NEW i, NEW m,
         fact.incarnation = i, fact.at >= m
  PROVE  Holds(InsertLive(r, k, NewEntry(fact)), k, i, m)
<1> DEFINE entry == NewEntry(fact)
           s == InsertLive(r, k, entry)
<1>1. entry \in LiveEntry /\ entry.incarnation = fact.incarnation
      /\ entry.last_activity_at = fact.at
  BY DEF NewEntry, Existence, LiveEntry
<1> HIDE DEF entry
<1>2. s.live = [r.live EXCEPT ![k] = entry] /\ DOMAIN r.live = Keys
  BY <1>1, InsertLiveFields DEF Registry
<1> HIDE DEF s
<1>3. Holds(s, k, i, m)
  BY <1>1, <1>2, NoneAssumption DEF Holds
<1> QED BY <1>3 DEF s, entry

\* establish(), the last part: what waited of the admitted incarnation is merged.
LEMMA AdmitTakes ==
  ASSUME NEW r \in Registry, NEW k \in Keys \ RemoteKeys, NEW fact \in Existence,
         NEW i \in Incarnation, Tops(r, k, i), fact.incarnation <= i, r.live[k] = None
  PROVE  Takes(r, Admit(r, k, fact), k, fact, i)
<1> DEFINE held == r.pending[k]
           merged == [fact EXCEPT !.at = Max2(@, held.at),
                                  !.revision = Max2(@, held.revision)]
           cleared == DropPending(r, k)
           s == Remember(r, k, fact.incarnation, held.revision)
           t == Remember(cleared, k, held.incarnation, fact.revision)
           u == Admit(r, k, fact)
<1>1. \/ held = None /\ u = Touched(InsertLive(r, k, NewEntry(fact)), "added")
      \/ held # None /\ held.incarnation > fact.incarnation /\ u = Touched(s, "stale")
      \/ /\ held # None /\ held.incarnation = fact.incarnation
         /\ u = Touched(InsertLive(cleared, k, NewEntry(merged)), "added")
      \/ /\ held # None /\ held.incarnation # fact.incarnation
         /\ ~(held.incarnation > fact.incarnation)
         /\ u = Touched(InsertLive(t, k, NewEntry(fact)), "added")
  BY Zenon DEF Admit
<1>2. /\ k \in Keys
      /\ fact.incarnation \in Incarnation /\ fact.revision \in Revision /\ fact.at \in Int
      /\ held # None => /\ held.incarnation \in Incarnation /\ held.revision \in Revision
                        /\ held.at \in Int
  BY DEF Existence, Registry, Time
<1>a. i \in Int /\ fact.incarnation \in Int /\ (held # None => held.incarnation \in Int)
  BY <1>2 DEF Incarnation
<1>3. cleared \in Registry
  BY <1>2, RemovalKeeps
<1>4. held # None => merged \in Existence /\ merged.incarnation = fact.incarnation
                     /\ merged.at = Max2(fact.at, held.at)
  BY <1>2 DEF Existence, Max2, Revision, Time
<1>5. \A x, y : Touched(x, y).reg = x /\ Touched(x, y).touch = y
  BY DEF Touched
<1> SUFFICES Takes(r, u, k, fact, i)
  OBVIOUS
<1> HIDE DEF cleared, merged, u
<1>6. CASE held = None /\ u = Touched(InsertLive(r, k, NewEntry(fact)), "added")
  <2>1. fact.incarnation = i => Holds(InsertLive(r, k, NewEntry(fact)), k, i, fact.at)
    BY <1>2, InsertLiveHolds
  <2>2. HoldsOn(r, InsertLive(r, k, NewEntry(fact)), k, i)
    BY <1>6 DEF HoldsOn, Holds
  <2> QED BY <1>5, <1>6, <2>1, <2>2 DEF Takes
<1>7. CASE held # None /\ held.incarnation > fact.incarnation /\ u = Touched(s, "stale")
  <2>1. fact.incarnation # i
    BY <1>a, <1>7 DEF Tops
  <2>2. s.live = r.live /\ s.pending = r.pending
    BY <1>2, <1>7, RememberFields
  <2> HIDE DEF s
  <2>3. HoldsOn(r, s, k, i)
    BY <2>2, SameHolds
  <2> QED BY <1>5, <1>7, <2>1, <2>3 DEF Takes
<1>8. CASE /\ held # None /\ held.incarnation = fact.incarnation
           /\ u = Touched(InsertLive(cleared, k, NewEntry(merged)), "added")
  <2>1. PICK m : m = merged.at
    OBVIOUS
  <2>2. m \in Int /\ m >= held.at /\ m >= fact.at
    BY <1>2, <1>4, <1>8, <2>1 DEF Max2
  <2>3. \A x \in Int : held.at >= x => m >= x
    BY <1>2, <1>8, <2>2
  <2>4. \A x \in Int : fact.incarnation = i /\ m >= x =>
          Holds(InsertLive(cleared, k, NewEntry(merged)), k, i, x)
    BY <1>3, <1>4, <1>8, <2>1, InsertLiveHolds
  <2>5. HoldsOn(r, InsertLive(cleared, k, NewEntry(merged)), k, i)
    BY <1>8, <2>3, <2>4 DEF HoldsOn, Holds
  <2>6. fact.incarnation = i => Holds(InsertLive(cleared, k, NewEntry(merged)), k, i, fact.at)
    BY <1>2, <2>2, <2>4
  <2> QED BY <1>5, <1>8, <2>5, <2>6 DEF Takes
<1>9. CASE /\ held # None /\ held.incarnation # fact.incarnation
           /\ ~(held.incarnation > fact.incarnation)
           /\ u = Touched(InsertLive(t, k, NewEntry(fact)), "added")
  <2>1. held.incarnation # i
    BY <1>a, <1>9
  <2>2. t \in Registry
    BY <1>2, <1>3, <1>9, RememberFields
  <2> HIDE DEF t
  <2>3. fact.incarnation = i => Holds(InsertLive(t, k, NewEntry(fact)), k, i, fact.at)
    BY <1>2, <2>2, InsertLiveHolds
  <2>4. HoldsOn(r, InsertLive(t, k, NewEntry(fact)), k, i)
    BY <1>9, <2>1 DEF HoldsOn, Holds
  <2> QED BY <1>5, <1>9, <2>3, <2>4 DEF Takes
<1> HIDE DEF s, t, held
<1> QED BY <1>1, <1>6, <1>7, <1>8, <1>9

\* establish(), the guards: the last incarnation is not deleted.
LEMMA GuardedTakes ==
  ASSUME NEW r \in Registry, NEW k \in Keys \ RemoteKeys, NEW fact \in Existence,
         NEW i \in Incarnation, Tops(r, k, i), fact.incarnation <= i, r.live[k] = None
  PROVE  Takes(r, Guarded(r, k, fact), k, fact, i)
<1>1. \/ /\ r.deleted[k] # None /\ r.deleted[k].incarnation >= fact.incarnation
         /\ Guarded(r, k, fact) = Touched(r, "stale")
      \/ Guarded(r, k, fact) = Defer(r, k, fact)
      \/ Guarded(r, k, fact) = Admit(r, k, fact)
  BY Zenon DEF Guarded
<1>2. CASE /\ r.deleted[k] # None /\ r.deleted[k].incarnation >= fact.incarnation
           /\ Guarded(r, k, fact) = Touched(r, "stale")
  <2>1. r.deleted[k].incarnation \in Int /\ i \in Int /\ fact.incarnation \in Int
    BY <1>2 DEF Registry, Deletion, Existence, Incarnation
  <2>2. fact.incarnation # i
    BY <1>2, <2>1 DEF Tops
  <2>3. Touched(r, "stale").reg = r
    BY DEF Touched
  <2> QED BY <1>2, <2>2, <2>3 DEF Takes, HoldsOn
<1> QED BY <1>1, <1>2, DeferTakes, AdmitTakes

\* A fact that is blocked found the pending set full.
LEMMA GuardedBlocked ==
  ASSUME NEW r, NEW k, NEW fact, Guarded(r, k, fact).touch = "blocked"
  PROVE  Full(r)
<1>1. \A x, y : Touched(x, y).touch = y
  BY DEF Touched
<1>2. Defer(r, k, fact).touch = "blocked" => Full(r)
  <2> DEFINE held == r.pending[k]
             put(v) == Touched([r EXCEPT !.pending[k] = v], "deferred")
             merged == [fact EXCEPT !.at = Max2(held.at, fact.at),
                                    !.revision = Max2(held.revision, fact.revision)]
  <2>1. \/ Full(r) /\ Defer(r, k, fact) = Touched(r, "blocked")
        \/ Defer(r, k, fact) = Touched(r, "deferred")
        \/ Defer(r, k, fact) = put(fact) \/ Defer(r, k, fact) = put(merged)
    BY Zenon DEF Defer, Full
  <2>2. \A v : put(v).touch = "deferred"
    BY DEF Touched
  <2> HIDE DEF put, merged
  <2> QED BY <1>1, <2>1, <2>2
<1>3. Admit(r, k, fact).touch # "blocked"
  <2>1. \E x : \E y \in {"added", "stale"} : Admit(r, k, fact) = Touched(x, y)
    BY DEF Admit
  <2> QED BY <1>1, <2>1
<1>4. \/ Guarded(r, k, fact) = Touched(r, "stale")
      \/ Guarded(r, k, fact) = Defer(r, k, fact)
      \/ Guarded(r, k, fact) = Admit(r, k, fact)
  BY Zenon DEF Guarded
<1> QED BY <1>1, <1>2, <1>3, <1>4

\* establish(): a fact inside the window is taken; evidence of the last incarnation stays.
LEMMA EstablishTakes ==
  ASSUME NEW E, NEW R, History(E, R), NEW r, RegistryInv(r, E, R), NEW k \in Keys \ RemoteKeys,
         NEW fact, TrueFact(E, k, fact), NEW now, NEW i, <<k, i, R>> \in E
  PROVE  LET t == Establish(r, k, fact, now) IN
         /\ HoldsOn(r, t.reg, k, i)
         /\ ~OutOfWindow(fact.at, now) => Takes(r, t, k, fact, i)
         /\ r.live[k] = None /\ t.touch = "blocked" => Full(r)
<1> DEFINE entry == r.live[k]
           ended == EndLive(r, k)
           replaced == Remember(ended, k, entry.incarnation, fact.revision)
           t == Establish(r, k, fact, now)
<1>1. /\ r \in Registry /\ k \in Keys /\ fact \in Existence /\ Tops(r, k, i)
      /\ i \in Incarnation /\ fact.incarnation <= i
      /\ <<k, fact.incarnation, fact.revision>> \in E /\ KeyInv(r, E, R, k)
  BY PresentIsLast, PresentTops DEF RegistryInv, TrueFact
<1>2. /\ i \in Int /\ fact.incarnation \in Int /\ fact.incarnation \in Incarnation
      /\ fact.revision \in Revision
      /\ entry # None => entry.incarnation \in Int /\ entry.incarnation \in Incarnation
  BY <1>1 DEF Existence, Registry, LiveEntry, Incarnation
<1>3. \/ OutOfWindow(fact.at, now) /\ t = Touched(r, "stale")
      \/ entry = None /\ t = Guarded(r, k, fact)
      \/ entry # None /\ fact.incarnation < entry.incarnation /\ t = Touched(r, "stale")
      \/ entry # None /\ fact.incarnation = entry.incarnation /\ t = Refresh(r, k, fact)
      \/ /\ entry # None /\ ~(fact.incarnation < entry.incarnation)
         /\ fact.incarnation # entry.incarnation /\ t = Guarded(replaced, k, fact)
  BY Zenon DEF Establish
<1>4. Touched(r, "stale").reg = r /\ Touched(r, "stale").touch = "stale"
  BY DEF Touched
<1> SUFFICES /\ HoldsOn(r, t.reg, k, i)
             /\ ~OutOfWindow(fact.at, now) => Takes(r, t, k, fact, i)
             /\ r.live[k] = None /\ t.touch = "blocked" => Full(r)
  BY Zenon
<1> HIDE DEF t
<1>5. CASE OutOfWindow(fact.at, now) /\ t = Touched(r, "stale")
  BY <1>4, <1>5 DEF HoldsOn
<1>6. CASE entry = None /\ t = Guarded(r, k, fact)
  BY <1>1, <1>6, GuardedTakes, GuardedBlocked DEF Takes
<1>7. CASE entry # None /\ fact.incarnation < entry.incarnation /\ t = Touched(r, "stale")
  <2>1. fact.incarnation # i
    BY <1>1, <1>2, <1>7 DEF Tops
  <2> QED BY <1>4, <1>7, <2>1 DEF HoldsOn, Takes
<1>8. CASE entry # None /\ fact.incarnation = entry.incarnation /\ t = Refresh(r, k, fact)
  <2>1. Takes(r, t, k, fact, i)
    BY <1>1, <1>8, RefreshTakes
  <2> QED BY <1>8, <2>1 DEF Takes
<1>9. CASE /\ entry # None /\ ~(fact.incarnation < entry.incarnation)
           /\ fact.incarnation # entry.incarnation /\ t = Guarded(replaced, k, fact)
  <2>1. RegistryInv(ended, E, R)
    BY <1>1, EndLiveInv
  <2>2. ended \in Registry /\ ended.live[k] = None /\ ended.pending = r.pending
    <3>1. ended \in Registry /\ ended.live = [r.live EXCEPT ![k] = None]
          /\ ended.pending = r.pending
      BY <1>1, EndLiveFields
    <3> HIDE DEF ended
    <3> QED BY <1>1, <3>1 DEF Registry
  <2>3. Gone(E, R, k, entry.incarnation, fact.revision)
    <3>1. <<k, entry.incarnation, entry.exists_at>> \in E
      BY <1>1, <1>9 DEF KeyInv
    <3>2. entry.incarnation < fact.incarnation
      BY <1>2, <1>9
    <3> QED BY <1>1, <3>1, <3>2, GoneBelow
  <2> HIDE DEF ended
  <2>4. RegistryInv(replaced, E, R)
    BY <1>1, <2>1, <2>2, <2>3, RememberInv
  <2>5. replaced.live[k] = None
    <3>1. replaced.live = ended.live
      BY <1>1, <1>2, <1>9, <2>2, RememberFields
    <3> HIDE DEF replaced
    <3> QED BY <2>2, <3>1
  <2> HIDE DEF replaced
  <2>6. replaced \in Registry /\ Tops(replaced, k, i)
    BY <1>1, <2>4, PresentTops DEF RegistryInv
  <2>7. Takes(replaced, t, k, fact, i)
    BY <1>1, <1>9, <2>5, <2>6, GuardedTakes
  <2>8. \A m : ~Holds(r, k, i, m)
    <3>1. entry.incarnation # i
      BY <1>1, <1>2, <1>9
    <3> QED BY <1>1, <1>9, <3>1 DEF Holds, Tops
  <2> QED BY <1>9, <2>7, <2>8 DEF Takes, HoldsOn
<1> HIDE DEF entry, replaced
<1> QED BY <1>3, <1>5, <1>6, <1>7, <1>8, <1>9

\* observe
LEMMA ObserveTakes ==
  ASSUME NEW E, NEW R, History(E, R), NEW r, RegistryInv(r, E, R), NEW k \in Keys \ RemoteKeys,
         NEW fact, TrueFact(E, k, fact), NEW now, NEW i, <<k, i, R>> \in E
  PROVE  LET t == Observe(r, k, fact, now) IN
         /\ HoldsOn(r, t.reg, k, i)
         /\ ~OutOfWindow(fact.at, now) => Takes(r, t, k, fact, i)
         /\ r.live[k] = None /\ t.touch = "blocked" => Full(r)
<1> DEFINE x == Establish(r, k, fact, now)
           t == Observe(r, k, fact, now)
           u == x.reg
           s == [u EXCEPT !.view[k] = "working"]
<1>1. u \in Registry
  BY EstablishInv DEF RegistryInv
<1>2. /\ HoldsOn(r, u, k, i)
      /\ ~OutOfWindow(fact.at, now) => Takes(r, x, k, fact, i)
      /\ r.live[k] = None /\ x.touch = "blocked" => Full(r)
  BY EstablishTakes
<1>3. t = x \/ t = Touched(s, x.touch)
  BY Zenon DEF Observe, Narrate
<1>4. s.live = u.live /\ s.pending = u.pending
  <2> HIDE DEF u
  <2> QED BY <1>1 DEF Registry
<1> SUFFICES /\ HoldsOn(r, t.reg, k, i)
             /\ ~OutOfWindow(fact.at, now) => Takes(r, t, k, fact, i)
             /\ r.live[k] = None /\ t.touch = "blocked" => Full(r)
  BY Zenon
<1> HIDE DEF t, x, s
<1>5. CASE t = x
  BY <1>2, <1>5
<1>6. CASE t = Touched(s, x.touch)
  <2>1. t.reg = s /\ t.touch = x.touch
    BY <1>6 DEF Touched
  <2> QED BY <1>2, <1>4, <2>1 DEF HoldsOn, Takes, Holds
<1> QED BY <1>3, <1>5, <1>6

\* Activity in the window is kept.
HoldsRecent(r, s, k, i, now) ==
    \A t \in Int : ~OutOfWindow(t, now) /\ Holds(r, k, i, t) => Holds(s, k, i, t)

\* remove() of a gone incarnation keeps the activity of the stored one.
LEMMA RemoveHolds ==
  ASSUME NEW E, NEW R, History(E, R), NEW r, RegistryInv(r, E, R), NEW k \in Keys,
         NEW j, NEW q, Gone(E, R, k, j, q), NEW i, <<k, i, R>> \in E
  PROVE  HoldsOn(r, Remove(r, k, j, q), k, i)
<1> DEFINE s == Remember(r, k, j, q)
           t == Remove(r, k, j, q)
<1>1. /\ r \in Registry /\ j \in Incarnation /\ q \in Revision /\ i \in Incarnation /\ j < i
      /\ KeyInv(r, E, R, k)
  BY GoneTypes, PresentIsLast DEF RegistryInv
<1>2. s \in Registry /\ s.live = r.live /\ s.pending = r.pending
  BY <1>1, RememberFields
<1>3. /\ r.live[k] # None => r.live[k].incarnation \in Int /\ r.pending[k] = None
      /\ r.pending[k] # None => r.pending[k].incarnation \in Int
      /\ i \in Int /\ j \in Int
  BY <1>1 DEF Registry, LiveEntry, Existence, Incarnation, KeyInv
<1>4. \/ t = s
      \/ r.live[k] # None /\ ~(r.live[k].incarnation > j) /\ t = EndLive(s, k)
      \/ r.pending[k] # None /\ r.pending[k].incarnation <= j /\ t = DropPending(s, k)
  BY Zenon DEF Remove
<1> SUFFICES HoldsOn(r, t, k, i)
  OBVIOUS
<1> HIDE DEF s, t
<1>5. CASE t = s
  BY <1>2, <1>5, SameHolds
<1>6. CASE r.live[k] # None /\ ~(r.live[k].incarnation > j) /\ t = EndLive(s, k)
  <2>1. r.live[k].incarnation # i
    BY <1>1, <1>3, <1>6
  <2> QED BY <1>3, <1>6, <2>1 DEF HoldsOn, Holds
<1>7. CASE r.pending[k] # None /\ r.pending[k].incarnation <= j /\ t = DropPending(s, k)
  <2>1. r.pending[k].incarnation # i /\ r.live[k] = None
    BY <1>1, <1>3, <1>7
  <2> QED BY <1>7, <2>1 DEF HoldsOn, Holds
<1> QED BY <1>4, <1>5, <1>6, <1>7

\* Dropping what waits of a key leaves a free place.
LEMMA DropPendingFrees ==
  ASSUME NEW r \in Registry, Capped(r), NEW k \in Keys, r.pending[k] # None
  PROVE  ~Full(DropPending(r, k))
<1> DEFINE s == DropPending(r, k)
<1>1. s.pending = [r.pending EXCEPT ![k] = None] /\ DOMAIN r.pending = Keys
  BY DEF DropPending, Registry
<1> HIDE DEF s
<1>2. Waiting(s) = Waiting(r) \ {k} /\ k \in Waiting(r)
  BY <1>1 DEF Waiting
<1>3. Cardinality(Waiting(s)) = Cardinality(Waiting(r)) - 1
  BY <1>2, CappedSets, FS_RemoveElement
<1>4. ~Full(s)
  BY <1>3, CappedSets, CapAssumption DEF Full, Capped
<1> QED BY <1>4 DEF s

\* apply_present_row: recent activity of the stored incarnation is kept, and the
\* row of that incarnation is admitted unless the full pending set blocks it.
LEMMA ApplyPresentRowHolds ==
  ASSUME NEW E, NEW R, History(E, R), NEW r, RegistryInv(r, E, R), Capped(r),
         NEW k \in Keys \ RemoteKeys,
         NEW row, row.incarnation \in Incarnation, row.epoch \in Time,
         NEW q \in Revision, <<k, row.incarnation, q>> \in E, NEW now \in Int,
         NEW i, <<k, i, R>> \in E
  PROVE  LET t == ApplyPresentRow(r, k, row, q, now) IN
         /\ HoldsRecent(r, t.reg, k, i, now)
         /\ row.incarnation = i /\ ~OutOfWindow(row.epoch, now) /\ t.touch # "blocked" =>
               Holds(t.reg, k, i, row.epoch)
<1> DEFINE held == r.pending[k]
           fact(at) == [incarnation |-> row.incarnation, at |-> at, revision |-> q]
           s == DropPending(r, k)
           t == ApplyPresentRow(r, k, row, q, now)
<1>1. /\ \A at \in Time : TrueFact(E, k, fact(at))
      /\ \A at : fact(at).incarnation = row.incarnation /\ fact(at).at = at
  BY DEF TrueFact, Existence
<1>2. held # None => /\ <<k, held.incarnation, held.revision>> \in E
                     /\ held.incarnation \in Incarnation /\ held.revision \in Revision
                     /\ held.at \in Time /\ r.live[k] = None
  BY HeldFact DEF TrueFact, Existence
<1>3. /\ k \in Keys /\ r \in Registry /\ RegistryInv(s, E, R) /\ s \in Registry /\ s.live = r.live
  <2>1. r \in Registry /\ k \in Keys
    BY DEF RegistryInv
  <2> QED BY <2>1, PendingInv DEF RegistryInv, DropPending, Registry
<1>4. /\ row.incarnation \in Int /\ row.incarnation <= i /\ i \in Int /\ row.epoch \in Int
      /\ held # None => held.incarnation \in Int /\ held.at \in Int
  BY <1>2, PresentIsLast DEF Incarnation, Time
<1>5. \A x, y : Touched(x, y).reg = x
  BY DEF Touched
<1> SUFFICES /\ HoldsRecent(r, t.reg, k, i, now)
             /\ row.incarnation = i /\ ~OutOfWindow(row.epoch, now) /\ t.touch # "blocked" =>
                   Holds(t.reg, k, i, row.epoch)
  BY Zenon
<1> HIDE DEF s, fact, t
<1>6. CASE held = None
  <2>1. t = Observe(r, k, fact(row.epoch), now)
    BY <1>6, Zenon DEF ApplyPresentRow, fact, t
  <2>2. HoldsOn(r, t.reg, k, i)
    BY <1>1, <1>3, <2>1, ObserveTakes
  <2>3. ~OutOfWindow(row.epoch, now) => Takes(r, t, k, fact(row.epoch), i)
    BY <1>1, <1>3, <2>1, ObserveTakes
  <2> QED BY <1>1, <2>2, <2>3 DEF HoldsOn, HoldsRecent, Takes
<1>7. CASE held # None /\ held.incarnation = row.incarnation
  <2>1. t = Observe(s, k, fact(Max2(held.at, row.epoch)), now)
    BY <1>7, Zenon DEF ApplyPresentRow, fact, s, t
  <2>2. PICK at : at = Max2(held.at, row.epoch)
    OBVIOUS
  <2>3. at \in Time /\ at \in Int /\ at >= held.at /\ at >= row.epoch
    BY <1>4, <1>7, <2>2 DEF Max2, Time
  <2>4. ~Full(s)
    BY <1>3, <1>7, DropPendingFrees DEF s
  <2>5. t = Observe(s, k, fact(at), now) /\ TrueFact(E, k, fact(at))
        /\ fact(at).incarnation = row.incarnation /\ fact(at).at = at
    BY <1>1, <2>1, <2>2, <2>3
  <2>6. /\ ~OutOfWindow(at, now) => Takes(s, t, k, fact(at), i)
        /\ t.touch # "blocked"
    BY <1>2, <1>3, <1>7, <2>4, <2>5, ObserveTakes
  <2>7. t.reg \in Registry
    <3>1. RegistryInv(t.reg, E, R)
      BY <1>3, <2>5, ObserveInv
    <3> QED BY <3>1 DEF RegistryInv
  <2>8. ASSUME row.incarnation = i, NEW m \in Int, ~OutOfWindow(m, now), m <= at
        PROVE  Holds(t.reg, k, i, m)
    <3>1. ~OutOfWindow(at, now)
      BY <2>3, <2>8, WindowAssumption DEF OutOfWindow
    <3>2. Holds(t.reg, k, i, at)
      BY <2>5, <2>6, <2>8, <3>1 DEF Takes
    <3> QED BY <1>3, <2>3, <2>7, <2>8, <3>2, HoldsEarlier
  <2>9. HoldsRecent(r, t.reg, k, i, now)
    <3> SUFFICES ASSUME NEW m \in Int, ~OutOfWindow(m, now), Holds(r, k, i, m)
                 PROVE  Holds(t.reg, k, i, m)
      BY DEF HoldsRecent
    <3>1. held.incarnation = i /\ held.at >= m
      BY <1>2, <1>7 DEF Holds
    <3>2. m <= at
      BY <1>4, <1>7, <2>3, <3>1
    <3> QED BY <1>7, <2>8, <3>1, <3>2
  <2> QED BY <1>4, <2>3, <2>8, <2>9
<1>8. CASE held # None /\ held.incarnation < row.incarnation
  <2> DEFINE u == Remember(s, k, held.incarnation, q)
  <2>1. t = Observe(u, k, fact(row.epoch), now)
    <3>1. held.incarnation # row.incarnation
      BY <1>4, <1>8
    <3> QED BY <1>8, <3>1, Zenon DEF ApplyPresentRow, fact, s, t
  <2>2. Gone(E, R, k, held.incarnation, q)
    BY <1>2, <1>3, <1>8, GoneBelow
  <2>3. RegistryInv(u, E, R)
    BY <1>2, <1>3, <1>8, <2>2, RememberInv
  <2> HIDE DEF u
  <2>4. ~OutOfWindow(row.epoch, now) => Takes(u, t, k, fact(row.epoch), i)
    BY <1>1, <1>4, <2>1, <2>3, ObserveTakes DEF Time
  <2>5. \A m : ~Holds(r, k, i, m)
    BY <1>2, <1>4, <1>8 DEF Holds
  <2> QED BY <1>1, <2>4, <2>5 DEF HoldsRecent, Takes
<1>9. CASE held # None /\ held.incarnation > row.incarnation
  <2> DEFINE u == Remember(r, k, row.incarnation, held.revision)
  <2>1. t = Touched(u, "stale")
    <3>1. held.incarnation # row.incarnation /\ ~(held.incarnation < row.incarnation)
      BY <1>4, <1>9
    <3> QED BY <1>9, <3>1, Zenon DEF ApplyPresentRow, t
  <2>2. u.live = r.live /\ u.pending = r.pending
    BY <1>2, <1>3, <1>9, RememberFields
  <2> HIDE DEF u
  <2>3. HoldsOn(r, u, k, i)
    BY <2>2, SameHolds
  <2>4. held.incarnation <= i
    BY <1>2, <1>9, PresentIsLast
  <2>5. row.incarnation # i
    BY <1>4, <1>9, <2>4
  <2> QED BY <1>5, <2>1, <2>3, <2>5 DEF HoldsOn, HoldsRecent
<1> QED BY <1>4, <1>6, <1>7, <1>8, <1>9

\* apply_absent_row: a page without the key is older than what the registry has of
\* the stored incarnation.
LEMMA ApplyAbsentRowHolds ==
  ASSUME NEW E, NEW R, History(E, R), NEW r, RegistryInv(r, E, R), NEW k \in Keys,
         NEW q \in Revision, q <= R, \A x \in E : x[1] = k => x[3] # q,
         NEW i, <<k, i, R>> \in E
  PROVE  HoldsOn(r, ApplyAbsentRow(r, k, q), k, i)
<1> DEFINE t == ApplyAbsentRow(r, k, q)
<1>1. r \in Registry /\ KeyInv(r, E, R, k)
  BY DEF RegistryInv
<1>2. \/ r.pending[k] # None /\ r.pending[k].revision <= q
      \/ r.live[k] # None /\ r.live[k].exists_at <= q
      \/ t = r
  BY Zenon DEF ApplyAbsentRow
<1>3. ASSUME NEW p \in Int, p <= q, <<k, i, p>> \in E PROVE FALSE
  <2>1. q \in p..R
    BY <1>3 DEF History, Revision
  <2>2. <<k, i, q>> \in E
    BY <1>3, <2>1, PresentIsLast
  <2>3. <<k, i, q>>[1] = k /\ <<k, i, q>>[3] = q
    OBVIOUS
  <2> QED BY <2>2, <2>3
<1> SUFFICES HoldsOn(r, t, k, i)
  OBVIOUS
<1> HIDE DEF t
<1>4. CASE r.pending[k] # None /\ r.pending[k].revision <= q
  <2>1. r.pending[k].revision \in Int /\ r.live[k] = None
    BY <1>1, <1>4 DEF Registry, Existence, Revision, KeyInv
  <2>2. r.pending[k].incarnation # i
    BY <1>1, <1>3, <1>4, <2>1 DEF KeyInv
  <2> QED BY <2>1, <2>2 DEF HoldsOn, Holds
<1>5. CASE r.live[k] # None /\ r.live[k].exists_at <= q
  <2>1. r.live[k].exists_at \in Int /\ r.pending[k] = None
    BY <1>1, <1>5 DEF Registry, LiveEntry, Revision, KeyInv
  <2>2. r.live[k].incarnation # i
    BY <1>1, <1>3, <1>5, <2>1 DEF KeyInv
  <2> QED BY <2>1, <2>2 DEF HoldsOn, Holds
<1>6. CASE t = r
  BY <1>6 DEF HoldsOn
<1> QED BY <1>2, <1>4, <1>5, <1>6

\* One key of a presence page.
LEMMA ApplyRowHolds ==
  ASSUME NEW E, NEW R, History(E, R), NEW r, RegistryInv(r, E, R), Capped(r),
         NEW k \in Keys \ RemoteKeys,
         NEW rows, rows[k] # None => rows[k] \in Presence, NEW q \in Revision, q <= R,
         IF rows[k] = None THEN \A x \in E : x[1] = k => x[3] # q
                           ELSE <<k, rows[k].incarnation, q>> \in E,
         NEW now \in Int, NEW i, <<k, i, R>> \in E
  PROVE  HoldsRecent(r, ApplyRow(r, k, rows, q, now), k, i, now)
<1>1. CASE rows[k] = None
  <2>1. ApplyRow(r, k, rows, q, now) = ApplyAbsentRow(r, k, q)
    BY <1>1, Zenon DEF ApplyRow
  <2>2. HoldsOn(r, ApplyAbsentRow(r, k, q), k, i)
    BY <1>1, ApplyAbsentRowHolds
  <2> QED BY <2>1, <2>2 DEF HoldsOn, HoldsRecent
<1>2. CASE rows[k] # None
  <2>1. rows[k].incarnation \in Incarnation /\ rows[k].epoch \in Time
    BY <1>2 DEF Presence
  <2>2. ApplyRow(r, k, rows, q, now) = ApplyPresentRow(r, k, rows[k], q, now).reg
    BY <1>2, Zenon DEF ApplyRow
  <2> QED BY <1>2, <2>1, <2>2, ApplyPresentRowHolds
<1> QED BY <1>1, <1>2

\* expire(): activity in the window is kept.
LEMMA ExpireOneHolds ==
  ASSUME NEW r \in Registry, NEW d \in r.deadlines, NEW now \in Int, NEW k \in Keys, NEW i
  PROVE  HoldsRecent(r, ExpireOne(r, d, now), k, i, now)
<1> DEFINE s == ExpireOne(r, d, now)
<1>1. s.pending = r.pending /\ Outlived(r, s, k, now)
  BY ExpireOneOutlived
<1>2. r.live[k] # None => r.live[k].last_activity_at \in Int
  BY DEF Registry, LiveEntry, Time
<1> SUFFICES HoldsRecent(r, s, k, i, now)
  OBVIOUS
<1> HIDE DEF s
<1>3. CASE s.live[k] = None /\ (r.live[k] # None => OutOfWindow(r.live[k].last_activity_at, now))
  <2>1. \A t \in Int : r.live[k] # None /\ r.live[k].last_activity_at >= t => OutOfWindow(t, now)
    <3> SUFFICES ASSUME NEW t \in Int, r.live[k] # None, r.live[k].last_activity_at >= t
                 PROVE  OutOfWindow(t, now)
      OBVIOUS
    <3>1. PICK p : p = r.live[k].last_activity_at
      OBVIOUS
    <3>2. p \in Int /\ now - p >= ActiveWindow /\ p >= t /\ ActiveWindow \in Int
      BY <1>2, <1>3, <3>1, WindowAssumption DEF OutOfWindow
    <3> QED BY <3>2 DEF OutOfWindow
  <2> QED BY <1>1, <2>1 DEF HoldsRecent, Holds
<1>4. CASE /\ s.live[k] # None /\ r.live[k] # None
           /\ s.live[k].incarnation = r.live[k].incarnation
           /\ s.live[k].last_activity_at = r.live[k].last_activity_at
  BY <1>1, <1>4 DEF HoldsRecent, Holds
<1> QED BY <1>1, <1>3, <1>4 DEF Outlived

\* A held recovery page without its first row.
HeadTaken(r, s) ==
    /\ s.recovery # None /\ s.recovery.since = r.recovery.since
    /\ s.recovery.page # None
    /\ s.recovery.page.rows = Tail(r.recovery.page.rows)
    /\ s.recovery.page.cursor = r.recovery.page.cursor
    /\ s.recovery.page.exhausted = r.recovery.page.exhausted

\* Taking the first row off a held page touches nothing else of the registry.
LEMMA HeadOffPage ==
  ASSUME NEW r \in Registry, r.recovery # None, r.recovery.page # None,
         r.recovery.page.rows # <<>>, NEW s \in Registry
  PROVE  LET z == [s EXCEPT !.recovery = [r.recovery EXCEPT !.page.rows = Tail(r.recovery.page.rows)]]
         IN z.live = s.live /\ z.pending = s.pending /\ HeadTaken(r, z)
<1> DEFINE held == r.recovery.page
           rest == Tail(held.rows)
           p == [held EXCEPT !.rows = rest]
           w == [r.recovery EXCEPT !.page.rows = Tail(held.rows)]
           x == [r.recovery EXCEPT !.page = p]
           z == [s EXCEPT !.recovery = w]
<1>1. r.recovery \in SeedRecovery /\ held \in RecoveryPage /\ rest \in Seq(ActiveRow)
  <2>1. r.recovery \in SeedRecovery /\ held \in RecoveryPage
    BY DEF Registry, SeedRecovery
  <2>2. held.rows \in Seq(ActiveRow) /\ held.rows # <<>>
    BY <2>1 DEF RecoveryPage
  <2> QED BY <2>1, <2>2
<1>2. w = x
  BY <1>1 DEF SeedRecovery
<1> HIDE DEF rest, w
<1>3. /\ p \in RecoveryPage /\ p.rows = rest /\ p.cursor = held.cursor
      /\ p.exhausted = held.exhausted
  BY <1>1 DEF RecoveryPage
<1> HIDE DEF p
<1>4. x \in SeedRecovery /\ x.since = r.recovery.since /\ x.page = p
  BY <1>1, <1>3 DEF SeedRecovery
<1> HIDE DEF x
<1>5. z.live = s.live /\ z.pending = s.pending /\ z.recovery = w
  BY DEF Registry
<1> HIDE DEF z, held
<1>6. z.recovery # None /\ p # None
  BY <1>2, <1>3, <1>4, <1>5, NoneAssumption
<1>7. HeadTaken(r, z)
  BY <1>2, <1>3, <1>4, <1>5, <1>6 DEF HeadTaken, held, rest
<1> QED BY <1>5, <1>7, Zenon DEF z, w, held

\* A recovered row leaves the page, unless it is blocked.
LEMMA RecoverRowTakes ==
  ASSUME NEW r \in Registry, r.recovery # None, r.recovery.page # None,
         r.recovery.page.rows # <<>>, NEW now,
         NEW t, t = ApplyPresentRow(r, Head(r.recovery.page.rows).key,
                                    Head(r.recovery.page.rows), r.recovery.page.revision, now),
         t.reg \in Registry, t.reg.recovery = r.recovery
  PROVE  LET u == RecoverRow(r, now) IN
         /\ u.touch = t.touch
         /\ u.reg.live = t.reg.live /\ u.reg.pending = t.reg.pending
         /\ t.touch = "blocked" => u.reg.recovery = r.recovery
         /\ t.touch # "blocked" => HeadTaken(r, u.reg)
<1> DEFINE z == [t.reg EXCEPT !.recovery =
                   [r.recovery EXCEPT !.page.rows = Tail(r.recovery.page.rows)]]
           u == RecoverRow(r, now)
<1>1. IF t.touch = "blocked" THEN u = t ELSE u = Touched(z, t.touch)
  BY Zenon DEF RecoverRow
<1>2. z.live = t.reg.live /\ z.pending = t.reg.pending /\ HeadTaken(r, z)
  BY HeadOffPage, Zenon
<1> HIDE DEF z, u
<1>3. Touched(z, t.touch).reg = z /\ Touched(z, t.touch).touch = t.touch
  <2>1. \A c, d : Touched(c, d).reg = c /\ Touched(c, d).touch = d
    BY DEF Touched
  <2> QED BY <2>1, Zenon
<1>4. CASE t.touch = "blocked"
  <2>1. u = t
    BY <1>1, <1>4, Zenon
  <2> QED BY <1>4, <2>1, Zenon DEF u
<1>5. CASE t.touch # "blocked"
  <2>1. u = Touched(z, t.touch)
    BY <1>1, <1>5, Zenon
  <2>2. u.reg = z /\ u.touch = t.touch
    BY <1>3, <2>1, Zenon
  <2> QED BY <1>2, <1>5, <2>2, Zenon DEF u
<1> QED BY <1>4, <1>5, Zenon

\* The cursor behind the rows of a page.
LastRow(rows) == [epoch |-> rows[Len(rows)].epoch, key |-> rows[Len(rows)].key]

\* A recovery page that is held: its rows, the cursor behind them, and whether more follow.
PageHeld(r, s, rows) ==
    /\ s.recovery # None /\ s.recovery.since = r.recovery.since
    /\ s.recovery.page # None /\ s.recovery.page.rows = rows
    /\ rows # <<>> => s.recovery.page.cursor = LastRow(rows)
    /\ ~s.recovery.page.exhausted <=> Len(rows) >= PageSize

\* apply_page, a recovery page.
LEMMA HoldRecoveryPageHolds ==
  ASSUME NEW r \in Registry, r.recovery # None, NEW rows \in Seq(ActiveRow), NEW q \in Revision
  PROVE  PageHeld(r, HoldRecoveryPage(r, rows, q), rows)
<1> DEFINE c == IF rows = <<>> THEN None
                ELSE [epoch |-> rows[Len(rows)].epoch, key |-> rows[Len(rows)].key]
           e == Len(rows) < PageSize
           p == [rows |-> rows, revision |-> q, cursor |-> c, exhausted |-> e]
           w == [r.recovery EXCEPT !.page = p]
           s == [r EXCEPT !.recovery = w]
<1>1. HoldRecoveryPage(r, rows, q) = s
  <2>1. HoldRecoveryPage(r, rows, q) = [r EXCEPT !.recovery.page = p]
    BY Zenon DEF HoldRecoveryPage
  <2> HIDE DEF p
  <2>2. [r EXCEPT !.recovery.page = p] = s
    OBVIOUS
  <2> QED BY <2>1, <2>2
<1>2. c \in ActiveCursor \cup {None}
  <2>1. rows # <<>> => rows[Len(rows)] \in ActiveRow
    OBVIOUS
  <2> QED BY <2>1 DEF ActiveCursor, ActiveRow
<1>3. (rows # <<>> => c = LastRow(rows)) /\ e \in BOOLEAN
  BY DEF LastRow
<1>4. ~e <=> Len(rows) >= PageSize
  <2>1. Len(rows) \in Nat /\ PageSize \in Nat
    BY CapAssumption
  <2> QED BY <2>1
<1> HIDE DEF c, e
<1>5. p \in RecoveryPage /\ p.rows = rows /\ p.cursor = c /\ p.exhausted = e
  BY <1>2, <1>3 DEF RecoveryPage
<1> HIDE DEF p
<1>6. w \in SeedRecovery /\ w.since = r.recovery.since /\ w.page = p
  BY <1>5 DEF Registry, SeedRecovery
<1> HIDE DEF w
<1>7. s.recovery = w
  BY DEF Registry
<1> HIDE DEF s
<1>8. PageHeld(r, s, rows)
  BY <1>3, <1>4, <1>5, <1>6, <1>7, NoneAssumption DEF PageHeld
<1> QED BY <1>1, <1>8

\* The end of a recovery page: the recovery ends with the last page and goes on
\* behind any other.
LEMMA FinishRecoveryPageHolds ==
  ASSUME NEW r \in Registry, r.recovery # None, r.recovery.page # None,
         ~r.recovery.page.exhausted
  PROVE  LET s == FinishRecoveryPage(r) IN
         /\ s.recovery # None /\ s.recovery.since = r.recovery.since
         /\ s.recovery.page = None /\ s.recovery.cursor = r.recovery.page.cursor
<1> DEFINE c == r.recovery.page.cursor
           w == [r.recovery EXCEPT !.cursor = c, !.page = None]
           f == [r EXCEPT !.recovery = w]
<1>1. FinishRecoveryPage(r) = f
  BY DEF FinishRecoveryPage, Registry, SeedRecovery
<1>2. r.recovery \in SeedRecovery /\ r.recovery.page \in RecoveryPage
  BY DEF Registry, SeedRecovery
<1>3. c \in ActiveCursor \cup {None}
  BY <1>2 DEF RecoveryPage
<1> HIDE DEF c
<1>4. w \in SeedRecovery /\ w.since = r.recovery.since /\ w.page = None /\ w.cursor = c
  BY <1>2, <1>3 DEF SeedRecovery
<1> HIDE DEF w
<1>5. f.recovery = w
  BY DEF Registry
<1> HIDE DEF f
<1> QED BY <1>1, <1>4, <1>5, NoneAssumption DEF c

----------------------------------------------------------------------------
\* A choice of a page leaves the work alone, and asks for a recovery page only
\* when the recovery holds none.
Asks(r, n) ==
    /\ SameWork(r, n.reg)
    /\ n.request # None /\ n.request.class = "recovery" =>
          r.recovery # None /\ r.recovery.page = None

\* What next_walk_page() asks for is a page of the walk.
LEMMA NextWalkAsks ==
  ASSUME NEW r
  PROVE  NextWalk(r).request # None => NextWalk(r).request.class = "walk"
<1> DEFINE first == IF r.run = None THEN OpenRun(r) ELSE r
           again == OpenRun([first EXCEPT !.run = None])
           ended == [r EXCEPT !.run = None, !.needs = None]
           page(s) == [reg |-> s, request |-> Request("walk", FirstKeys(Walkable(s, s.run)))]
           none == [reg |-> ended, request |-> None]
           idle == [reg |-> r, request |-> None]
           n == NextWalk(r)
<1>1. n = idle \/ n = page(first) \/ n = page(again) \/ n = none
  BY Zenon DEF NextWalk
<1>2. idle.request = None /\ none.request = None /\ \A s : page(s).request.class = "walk"
  BY DEF Request
<1> HIDE DEF idle, none, page, first, again, n
<1>3. n.request # None => n.request.class = "walk"
  BY <1>1, <1>2
<1> QED BY <1>3 DEF n

\* One class is asked.
LEMMA NextOfClassAsks ==
  ASSUME NEW E, NEW R, NEW r, RegistryInv(r, E, R), NEW c \in PageClass, RequestsDiffer
  PROVE  Asks(r, NextOfClass(r, c))
<1>1. SameWork(r, NextOfClass(r, c).reg)
  BY NextOfClassServed
<1>2. CASE c = "admission"
  <2>1. Request(c, FirstKeys(Waiting(r))).class = "admission"
    BY <1>2 DEF Request
  <2>2. NextOfClass(r, c).request \in {None, Request(c, FirstKeys(Waiting(r)))}
    BY <1>2 DEF NextOfClass
  <2> QED BY <1>1, <2>1, <2>2 DEF Asks
<1>3. CASE c = "walk"
  <2>1. NextOfClass(r, c) = NextWalk(r)
    BY <1>3 DEF NextOfClass
  <2>2. NextOfClass(r, c).request # None => NextOfClass(r, c).request.class = "walk"
    BY <2>1, NextWalkAsks
  <2> QED BY <1>1, <2>2 DEF Asks
<1>4. CASE c = "recovery"
  <2>1. NextOfClass(r, c).request # None => r.recovery # None /\ r.recovery.page = None
    BY <1>4 DEF NextOfClass
  <2> QED BY <1>1, <2>1 DEF Asks
<1> QED BY <1>2, <1>3, <1>4 DEF PageClass

\* next_page_request() drops only waiting evidence that is out of the window.
LEMMA NextPageAsks ==
  ASSUME NEW E, NEW R, NEW r, RegistryInv(r, E, R), RequestsDiffer, NEW now
  PROVE  Asks(PrunePending(r, now), NextPage(r, now))
<1> DEFINE s == PrunePending(r, now)
           c1 == s.turn
           c2 == Successor(c1)
           c3 == Successor(c2)
           n1 == NextOfClass(s, c1)
           n2 == NextOfClass(n1.reg, c2)
           n3 == NextOfClass(n2.reg, c3)
           n == NextPage(r, now)
           m == [reg |-> s, request |-> None]
<1>1. RegistryInv(s, E, R)
  BY PrunePendingInv
<1>2. c1 \in PageClass /\ c2 \in PageClass /\ c3 \in PageClass
  <2>1. c1 \in PageClass
    BY <1>1 DEF RegistryInv, Registry
  <2> HIDE DEF c1
  <2> QED BY <2>1 DEF Successor, PageClass
<1>3. \/ n = m \/ n = Turn(n1, c1) \/ n = Turn(n2, c2) \/ n = Turn(n3, c3) \/ n = n3
  BY Zenon DEF NextPage
<1> SUFFICES Asks(s, n)
  OBVIOUS
<1> HIDE DEF s, c1, c2, c3, n
<1>4. Asks(s, m)
  BY DEF Asks, SameWork
<1> HIDE DEF m
<1>5. ASSUME NEW x, NEW y, Asks(s, x), Asks(x.reg, y) PROVE Asks(s, y)
  BY <1>5 DEF Asks, SameWork
<1>6. RegistryInv(n1.reg, E, R) /\ Asks(s, n1)
  BY <1>1, <1>2, NextOfClassInv, NextOfClassAsks DEF NextOK
<1> HIDE DEF n1
<1>7. RegistryInv(n2.reg, E, R) /\ Asks(s, n2)
  <2>1. RegistryInv(n2.reg, E, R) /\ Asks(n1.reg, n2)
    BY <1>2, <1>6, NextOfClassInv, NextOfClassAsks DEF NextOK
  <2> HIDE DEF n2
  <2> QED BY <1>5, <1>6, <2>1
<1> HIDE DEF n2
<1>8. RegistryInv(n3.reg, E, R) /\ Asks(s, n3)
  <2>1. RegistryInv(n3.reg, E, R) /\ Asks(n2.reg, n3)
    BY <1>2, <1>7, NextOfClassInv, NextOfClassAsks DEF NextOK
  <2> HIDE DEF n3
  <2> QED BY <1>5, <1>7, <2>1
<1> HIDE DEF n3
<1>9. ASSUME NEW x, NEW c, x.reg \in Registry, Asks(s, x)
      PROVE  Asks(s, Turn(x, c))
  <2> DEFINE u == x.reg
             d == Successor(c)
             v == [u EXCEPT !.turn = d]
  <2>1. Turn(x, c) = [reg |-> v, request |-> x.request]
    BY Zenon DEF Turn
  <2>2. u \in Registry
    BY <1>9
  <2>3. v.pending = u.pending /\ v.deleted = u.deleted /\ v.recovery = u.recovery
    <3> HIDE DEF u, d
    <3> QED BY <2>2 DEF Registry
  <2> HIDE DEF v
  <2>4. Turn(x, c).reg = v /\ Turn(x, c).request = x.request
    BY <2>1
  <2> HIDE DEF Turn
  <2> QED BY <1>9, <2>3, <2>4 DEF Asks, SameWork
<1> QED BY <1>3, <1>4, <1>6, <1>7, <1>8, <1>9 DEF RegistryInv

\* The choice of a page keeps the activity in the window and the recovery.
LEMMA NextPageHolds ==
  ASSUME NEW E, NEW R, NEW r, RegistryInv(r, E, R), RequestsDiffer, NEW now \in Int
  PROVE  LET n == NextPage(r, now) IN
         /\ n.reg.recovery = r.recovery
         /\ n.request # None /\ n.request.class = "recovery" =>
               r.recovery # None /\ r.recovery.page = None
         /\ \A k \in Keys : \A i : HoldsRecent(r, n.reg, k, i, now)
<1> DEFINE n == NextPage(r, now)
           s == PrunePending(r, now)
<1>1. Asks(s, n) /\ n.reg.live = r.live
  BY NextPageAsks, NextPageAside DEF Aside, SameIndex
<1>2. r \in Registry
  BY DEF RegistryInv
<1>3. /\ s.recovery = r.recovery
      /\ s.pending = [k \in Keys |-> IF r.pending[k] # None /\ OutOfWindow(r.pending[k].at, now)
                                     THEN None ELSE r.pending[k]]
  BY <1>2 DEF PrunePending, Registry
<1> SUFFICES /\ n.reg.recovery = r.recovery
             /\ n.request # None /\ n.request.class = "recovery" =>
                   r.recovery # None /\ r.recovery.page = None
             /\ \A k \in Keys : \A i : HoldsRecent(r, n.reg, k, i, now)
  BY Zenon
<1> HIDE DEF n, s
<1>4. ASSUME NEW k \in Keys, NEW i PROVE HoldsRecent(r, n.reg, k, i, now)
  <2> SUFFICES ASSUME NEW t \in Int, ~OutOfWindow(t, now), Holds(r, k, i, t)
               PROVE  Holds(n.reg, k, i, t)
    BY DEF HoldsRecent
  <2>1. n.reg.pending = s.pending
    BY <1>1 DEF Asks, SameWork
  <2>2. CASE r.live[k] # None /\ r.live[k].incarnation = i /\ r.live[k].last_activity_at >= t
    BY <1>1, <2>2 DEF Holds
  <2>3. CASE r.pending[k] # None /\ r.pending[k].incarnation = i /\ r.pending[k].at >= t
    <3>1. PICK p : p = r.pending[k].at
      OBVIOUS
    <3>2. p \in Int
      BY <1>2, <2>3, <3>1 DEF Registry, Existence, Time
    <3>3. ~OutOfWindow(p, now)
      BY <2>3, <3>1, <3>2, WindowAssumption DEF OutOfWindow
    <3>4. n.reg.pending[k] = r.pending[k]
      BY <1>3, <2>1, <3>1, <3>3
    <3> QED BY <2>3, <3>4 DEF Holds
  <2> QED BY <2>2, <2>3 DEF Holds
<1> QED BY <1>1, <1>3, <1>4 DEF Asks, SameWork
==========================================================================
