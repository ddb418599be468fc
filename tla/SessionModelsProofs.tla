------------------------ MODULE SessionModelsProofs ------------------------
(***************************************************************************)
(* The indexes of Models stay exact, the shown models converge, and a      *)
(* changed execution has a new version: proved for every number of         *)
(* sessions, models, failed reads and broad invalidations, and every size  *)
(* of a page.                                                              *)
(***************************************************************************)
EXTENDS SessionModels, TLAPS, FiniteSetTheorems, SequenceTheorems,
        WellFoundedInduction

----------------------------------------------------------------------------
(* The invariant.                                                          *)

Ticket == [key : Keys, ticket : Nat]

(* The struct Models; resolved is shown to be a count by Sound.            *)
ModelsType ==
    [epoch : Nat, ticket : Nat, version : Nat, resolved : Int, broad : Nat \cup {None},
     slots : [Keys -> Slot \cup {None}],
     queue : Seq(Ticket), waiting : SUBSET Ticket]

(* No element stands twice.                                                *)
OneToOne(s) == \A i, j \in 1..Len(s) : s[i] = s[j] => i = j

Elements(s) == {s[n] : n \in 1..Len(s)}

TicketOf(m, k) == [key |-> k, ticket |-> m.slots[k].ticket]

Shown(m) == {k \in Keys : Execution(m, k) # None}

(* The indexes of m agree, for the live sessions L: a slot for each, no    *)
(* ticket or epoch ahead of the counters, each ticket in the queue once    *)
(* and there or among the waiting ones exactly while its slot has no       *)
(* answer.                                                                 *)
Sound(m, L) ==
    /\ m \in ModelsType
    /\ \A k \in Keys : m.slots[k] # None <=> k \in L
    /\ \A k \in Keys : m.slots[k] # None =>
          m.slots[k].ticket <= m.ticket /\ m.slots[k].epoch <= m.epoch
    /\ OneToOne(m.queue)
    /\ \A q \in Elements(m.queue) :
          /\ m.slots[q.key] # None /\ q = TicketOf(m, q.key)
          /\ m.slots[q.key].status # "ready" /\ q \notin m.waiting
    /\ \A q \in m.waiting :
          /\ m.slots[q.key] # None /\ q = TicketOf(m, q.key)
          /\ m.slots[q.key].status = "failed"
    /\ \A k \in Keys : m.slots[k] # None /\ m.slots[k].status # "ready" =>
          TicketOf(m, k) \in Elements(m.queue) \cup m.waiting
    /\ m.resolved = Cardinality(Shown(m))

Live == {k \in Keys : live[k] # None}

(* A slot of an older epoch is still in front of the broad walk.           *)
BroadAhead(m) ==
    \A k \in Keys : m.slots[k] # None =>
        \/ m.slots[k].epoch = m.epoch
        \/ m.broad # None /\ k > m.broad

(* No incarnation is newer than the writer's revision.                     *)
Types ==
    /\ row \in [Keys -> PublishedModel \cup {None}]
    /\ rev \in Nat
    /\ reports \subseteq Keys
    /\ live \in [Keys -> LiveEntry \cup {None}]
    /\ load \in Page \cup {None}

Incarnations ==
    /\ \A k \in Keys : row[k] # None => row[k].incarnation <= rev
    /\ \A k \in Keys : live[k] # None => live[k].incarnation <= rev
    /\ load # None => \A k \in Keys : load.rows[k] # None => load.rows[k].incarnation <= rev

(* An answer that a slot took is the published model, or its change has    *)
(* yet to be reported.                                                     *)
Fresh ==
    \A k \in Keys :
        /\ models.slots[k] # None
        /\ models.slots[k].status = "ready" /\ models.slots[k].epoch = models.epoch
        /\ Present(k)
        => k \in reports \/ models.slots[k].model = row[k].model

(* A page asks for tickets that were given, and what it read for a ticket  *)
(* that still counts is the published model, or its change has yet to be   *)
(* reported.                                                               *)
FreshRow(m, page, n) ==
    LET r == page.requests[n] k == r.key IN
    /\ r.ticket <= m.ticket /\ r.epoch <= m.epoch
    /\ /\ page.status = "ok" /\ r.epoch = m.epoch
       /\ m.slots[k] # None /\ m.slots[k].ticket = r.ticket
       /\ page.rows[k] # None /\ row[k] # None
       /\ row[k].incarnation = page.rows[k].incarnation
       => k \in reports \/ page.rows[k].model = row[k].model

FreshLoad == load # None => \A n \in 1..Len(load.requests) : FreshRow(models, load, n)

Inv ==
    /\ Types /\ Incarnations
    /\ Sound(models, Live) /\ BroadAhead(models)
    /\ Fresh /\ FreshLoad

----------------------------------------------------------------------------
(* Naturals, keys and sequences.                                           *)

(* A nonempty set of naturals has a least element.                         *)
LEMMA LeastNatural ==
  ASSUME NEW S \in SUBSET Nat, S # {}
  PROVE  \E x \in S : \A y \in S : x <= y
<1> DEFINE R == {ss \in Nat \X Nat : ss[1] < ss[2]}
<1>1. IsWellFoundedOn(R, Nat)
  BY NatLessThanWellFounded, Zenon DEF OpToRel
<1>2. \E x \in S : \A y \in S : ~(<<y, x>> \in R)
  <2> HIDE DEF R
  <2> QED BY <1>1, WFMin, Zenon
<1>3. PICK x \in S : \A y \in S : ~(<<y, x>> \in R)
  BY <1>2
<1>4. ASSUME NEW y \in S PROVE x <= y
  <2>1. x \in Nat /\ y \in Nat
    OBVIOUS
  <2>2. ~(y < x)
    BY <1>3, <2>1
  <2> QED BY <2>1, <2>2
<1>5. QED
  BY <1>4

(* A set that holds 0 and is closed under the successor up to m holds 0..m. *)
LEMMA UpTo ==
  ASSUME NEW m \in Nat, NEW S, 0 \in S, \A n \in 1..m : n - 1 \in S => n \in S
  PROVE  0..m \subseteq S
<1> SUFFICES ASSUME (0..m) \ S # {} PROVE FALSE
  OBVIOUS
<1>1. PICK x \in (0..m) \ S : \A y \in (0..m) \ S : x <= y
  <2>1. (0..m) \ S \in SUBSET Nat
    OBVIOUS
  <2> QED BY <2>1, LeastNatural
<1>2. x # 0 /\ x - 1 \in 0..m /\ x \in 1..m
  BY <1>1
<1> QED BY <1>1, <1>2

(* A nonempty set of keys has a last one.                                  *)
LEMMA LastKey ==
  ASSUME NEW S \in SUBSET Keys, S # {}
  PROVE  \E x \in S : \A y \in S : y <= x
<1> DEFINE T == {n \in Nat : \E y \in S : n = NumKeys - y}
<1>1. T \in SUBSET Nat
  OBVIOUS
<1>2. \A y \in S : y \in Nat /\ NumKeys - y \in T
  BY ModelsAssumption DEF Keys
<1>3. T # {}
  BY <1>2
<1> HIDE DEF T
<1>4. PICK n \in T : \A j \in T : n <= j
  BY <1>1, <1>3, LeastNatural
<1>5. PICK x \in S : n = NumKeys - x
  BY <1>4 DEF T
<1>6. ASSUME NEW y \in S PROVE y <= x
  <2>1. n <= NumKeys - y
    BY <1>2, <1>4
  <2> QED BY <1>2, <1>5, <2>1, ModelsAssumption
<1> QED BY <1>6

(* The keys are finitely many, and so is every set of them.                *)
LEMMA KeysFinite ==
    ASSUME NEW S \in SUBSET Keys
    PROVE  IsFiniteSet(S) /\ Cardinality(S) \in Nat
<1>1. IsFiniteSet(Keys)
  BY ModelsAssumption, FS_Interval DEF Keys
<1>2. IsFiniteSet(S)
  BY <1>1, FS_Subset
<1> QED BY <1>2, FS_CardinalityType

(* RemoveAt closes the gap it leaves.                                      *)
LEMMA RemoveAtIs ==
    ASSUME NEW S, NEW s \in Seq(S), NEW i \in 1..Len(s), NEW t, t = RemoveAt(s, i)
    PROVE  /\ t \in Seq(S) /\ Len(t) = Len(s) - 1
           /\ \A j \in 1..Len(t) : t[j] = IF j < i THEN s[j] ELSE s[j + 1]
<1> DEFINE a == SubSeq(s, 1, i - 1)
           b == SubSeq(s, i + 1, Len(s))
<1>1. Len(s) \in Nat /\ i \in Nat /\ i >= 1 /\ i <= Len(s)
  OBVIOUS
<1>2. a \in Seq(S) /\ Len(a) = i - 1 /\ \A j \in 1..(i - 1) : a[j] = s[j]
  BY <1>1
<1>3. b \in Seq(S) /\ Len(b) = Len(s) - i /\ \A j \in 1..(Len(s) - i) : b[j] = s[j + i]
  BY <1>1
<1>4. t = a \o b
  BY DEF RemoveAt
<1> HIDE DEF a, b
<1>5. /\ t \in Seq(S) /\ Len(t) = Len(a) + Len(b)
      /\ \A j \in 1..Len(t) : t[j] = IF j <= Len(a) THEN a[j] ELSE b[j - Len(a)]
  <2>1. /\ a \o b \in Seq(S) /\ Len(a \o b) = Len(a) + Len(b)
        /\ \A j \in 1..(Len(a) + Len(b)) :
              (a \o b)[j] = IF j <= Len(a) THEN a[j] ELSE b[j - Len(a)]
    BY <1>2, <1>3, ConcatProperties
  <2> QED BY <1>4, <2>1
<1>6. Len(t) = Len(s) - 1
  BY <1>1, <1>2, <1>3, <1>5
<1>7. ASSUME NEW j \in 1..Len(t) PROVE t[j] = IF j < i THEN s[j] ELSE s[j + 1]
  <2>1. j \in Nat /\ j >= 1 /\ j <= Len(s) - 1
    BY <1>1, <1>6
  <2>2. CASE j < i
    <3>1. j \in 1..(i - 1) /\ j <= Len(a)
      BY <1>1, <1>2, <2>1, <2>2
    <3> QED BY <1>2, <1>5, <2>2, <3>1
  <2>3. CASE ~(j < i)
    <3>1. ~(j <= Len(a)) /\ j - Len(a) \in 1..(Len(s) - i) /\ (j - Len(a)) + i = j + 1
      BY <1>1, <1>2, <2>1, <2>3
    <3> QED BY <1>3, <1>5, <2>3, <3>1
  <2> QED BY <2>2, <2>3
<1> QED BY <1>5, <1>6, <1>7

(* What is left of a sequence without duplicates has every element but one. *)
LEMMA RemovesOne ==
    ASSUME NEW S, NEW s \in Seq(S), OneToOne(s), NEW i \in 1..Len(s), NEW t, t = RemoveAt(s, i)
    PROVE  OneToOne(t) /\ Elements(t) = Elements(s) \ {s[i]}
<1>1. /\ t \in Seq(S) /\ Len(t) = Len(s) - 1 /\ Len(s) \in Nat
      /\ \A j \in 1..Len(t) : t[j] = IF j < i THEN s[j] ELSE s[j + 1]
  BY RemoveAtIs
<1>2. ASSUME NEW j \in 1..Len(t)
      PROVE  \E n \in 1..Len(s) : /\ n # i /\ t[j] = s[n]
                                  /\ n = IF j < i THEN j ELSE j + 1
  BY <1>1
<1>3. ASSUME NEW n \in 1..Len(s), n # i
      PROVE  \E j \in 1..Len(t) : t[j] = s[n]
  <2>1. CASE n < i
    <3>1. n \in 1..Len(t)
      BY <1>1, <2>1
    <3> QED BY <1>1, <2>1, <3>1
  <2>2. CASE n > i
    <3>1. n - 1 \in 1..Len(t) /\ ~(n - 1 < i) /\ (n - 1) + 1 = n
      BY <1>1, <2>2
    <3> QED BY <1>1, <3>1
  <2> QED BY <1>3, <2>1, <2>2
<1>4. OneToOne(t)
  <2> SUFFICES ASSUME NEW a \in 1..Len(t), NEW b \in 1..Len(t), t[a] = t[b] PROVE a = b
    BY DEF OneToOne
  <2>1. PICK n \in 1..Len(s) : t[a] = s[n] /\ n = IF a < i THEN a ELSE a + 1
    BY <1>2
  <2>2. PICK k \in 1..Len(s) : t[b] = s[k] /\ k = IF b < i THEN b ELSE b + 1
    BY <1>2
  <2>3. n = k
    BY <2>1, <2>2 DEF OneToOne
  <2> QED BY <1>1, <2>1, <2>2, <2>3
<1>5. ASSUME NEW x \in Elements(t) PROVE x \in Elements(s) \ {s[i]}
  <2>1. PICK j \in 1..Len(t) : x = t[j]
    BY DEF Elements
  <2>2. PICK n \in 1..Len(s) : n # i /\ t[j] = s[n]
    BY <1>2
  <2>3. s[n] # s[i]
    BY <2>2 DEF OneToOne
  <2> QED BY <2>1, <2>2, <2>3 DEF Elements
<1>6. ASSUME NEW x \in Elements(s) \ {s[i]} PROVE x \in Elements(t)
  <2>1. PICK n \in 1..Len(s) : x = s[n]
    BY DEF Elements
  <2>2. PICK j \in 1..Len(t) : t[j] = s[n]
    BY <1>3, <2>1
  <2> QED BY <2>1, <2>2 DEF Elements
<1> QED BY <1>4, <1>5, <1>6

(* Appending a new ticket keeps a queue without duplicates so.             *)
LEMMA AppendsOne ==
    ASSUME NEW s \in Seq(Ticket), NEW e \in Ticket, NEW t, t = Append(s, e)
    PROVE  /\ t \in Seq(Ticket) /\ Elements(t) = Elements(s) \cup {e}
           /\ (OneToOne(s) /\ e \notin Elements(s)) => OneToOne(t)
<1>1. /\ t \in Seq(Ticket) /\ Len(t) = Len(s) + 1 /\ t[Len(s) + 1] = e /\ Len(s) \in Nat
      /\ \A j \in 1..Len(s) : t[j] = s[j]
  OBVIOUS
<1>2. \A j \in 1..Len(t) : j \in 1..Len(s) \/ j = Len(s) + 1
  BY <1>1
<1>3. 1..Len(s) \subseteq 1..Len(t) /\ Len(s) + 1 \in 1..Len(t)
  BY <1>1
<1>4. Elements(t) = Elements(s) \cup {e}
  <2>1. ASSUME NEW x \in Elements(t) PROVE x \in Elements(s) \cup {e}
    BY <1>1, <1>2 DEF Elements
  <2>2. ASSUME NEW x \in Elements(s) \cup {e} PROVE x \in Elements(t)
    BY <1>1, <1>3 DEF Elements
  <2> QED BY <2>1, <2>2
<1>5. ASSUME OneToOne(s), e \notin Elements(s) PROVE OneToOne(t)
  <2>1. \A j \in 1..Len(s) : s[j] # e
    BY <1>5 DEF Elements
  <2> QED BY <1>1, <1>2, <1>5, <2>1 DEF OneToOne
<1> QED BY <1>1, <1>4, <1>5

(* A sequence without duplicates has as many elements as places.           *)
LEMMA LengthIsCount ==
    ASSUME NEW S, NEW s \in Seq(S), OneToOne(s)
    PROVE  IsFiniteSet(Elements(s)) /\ Cardinality(Elements(s)) = Len(s)
<1>1. Len(s) \in Nat
  OBVIOUS
<1>2. s \in Bijection(1..Len(s), Elements(s))
  <2>1. s = [n \in 1..Len(s) |-> s[n]]
    OBVIOUS
  <2>2. s \in [1..Len(s) -> Elements(s)]
    BY <2>1 DEF Elements
  <2>3. \A y \in Elements(s) : \E n \in 1..Len(s) : s[n] = y
    BY DEF Elements
  <2> QED BY <2>2, <2>3, Zenon DEF OneToOne, Bijection, Injection, Surjection, IsInjective
<1>3. IsFiniteSet(1..Len(s)) /\ Cardinality(1..Len(s)) = Len(s)
  <2>1. \A n \in Nat : IsFiniteSet(1..n) /\ Cardinality(1..n) = n
    <3> SUFFICES ASSUME NEW n \in Nat PROVE IsFiniteSet(1..n) /\ Cardinality(1..n) = n
      OBVIOUS
    <3>1. IsFiniteSet(1..n) /\ Cardinality(1..n) = IF 1 > n THEN 0 ELSE n - 1 + 1
      BY FS_Interval
    <3> QED BY <3>1
  <2> QED BY <1>1, <2>1
<1>4. ExistsBijection(1..Len(s), Elements(s))
  BY <1>2, Zenon DEF ExistsBijection
<1> QED BY <1>3, <1>4, FS_Bijection, Zenon

----------------------------------------------------------------------------
(* The operators of Models.                                                *)

(* The fields of Models.                                                   *)
LEMMA ModelsFields ==
    ASSUME NEW m \in ModelsType
    PROVE  /\ m.epoch \in Nat /\ m.ticket \in Nat /\ m.version \in Nat /\ m.resolved \in Int
           /\ m.broad \in Nat \cup {None} /\ m.slots \in [Keys -> Slot \cup {None}]
           /\ m.queue \in Seq(Ticket) /\ m.waiting \in SUBSET Ticket
BY DEF ModelsType

(* Every ticket, due or waiting, is one of a key.                          *)
LEMMA QueueKeys ==
    ASSUME NEW m \in ModelsType
    PROVE  \A q \in Elements(m.queue) \cup m.waiting :
              q \in Ticket /\ q.key \in Keys
<1>1. m.queue \in Seq(Ticket) /\ m.waiting \in SUBSET Ticket
  BY ModelsFields
<1>2. \A q \in Ticket : q.key \in Keys
  BY DEF Ticket
<1>3. \A q \in Elements(m.queue) : q \in Ticket
  BY <1>1 DEF Elements
<1> QED BY <1>1, <1>2, <1>3

(* None is no slot and no model.                                           *)
LEMMA NoneIs == None \notin Slot /\ None \notin Models /\ None \notin Nat
BY NoneAssumption

(* Unqueue takes the slot's ticket away and changes nothing else.          *)
LEMMA UnqueueIs ==
    ASSUME NEW m \in ModelsType, NEW k \in Keys, OneToOne(m.queue), NEW u, u = Unqueue(m, k)
    PROVE  /\ u \in ModelsType /\ OneToOne(u.queue)
           /\ u.epoch = m.epoch /\ u.ticket = m.ticket /\ u.version = m.version
           /\ u.resolved = m.resolved /\ u.broad = m.broad /\ u.slots = m.slots
           /\ Elements(u.queue) = Elements(m.queue) \ {TicketOf(m, k)}
           /\ u.waiting = m.waiting \ {TicketOf(m, k)}
<1> DEFINE q == TicketOf(m, k)
           at == {n \in 1..Len(m.queue) : m.queue[n] = q}
           Q == IF at = {} THEN m.queue ELSE RemoveAt(m.queue, CHOOSE n \in at : TRUE)
           W == m.waiting \ {q}
<1>1. u = [m EXCEPT !.queue = Q, !.waiting = W]
  BY DEF Unqueue, TicketOf
<1>2. /\ Q \in Seq(Ticket) /\ OneToOne(Q)
      /\ Elements(Q) = Elements(m.queue) \ {q}
  <2> HIDE DEF q
  <2>1. CASE at = {}
    <3>1. Q = m.queue /\ q \notin Elements(m.queue)
      BY <2>1 DEF Elements
    <3> QED BY <3>1, ModelsFields
  <2>2. CASE at # {}
    <3>1. PICK n : n = (CHOOSE j \in at : TRUE)
      OBVIOUS
    <3>2. n \in at
      BY <2>2, <3>1
    <3>3. n \in 1..Len(m.queue) /\ m.queue[n] = q
      BY <3>2
    <3>4. Q = RemoveAt(m.queue, n)
      BY <2>2, <3>1
    <3> HIDE DEF Q, at
    <3> QED BY <3>3, <3>4, RemoveAtIs, RemovesOne, ModelsFields
  <2> QED BY <2>1, <2>2
<1>3. W \in SUBSET Ticket
  BY ModelsFields
<1> HIDE DEF Q, W
<1>4. /\ u \in ModelsType /\ u.queue = Q /\ u.waiting = W
      /\ u.epoch = m.epoch /\ u.ticket = m.ticket /\ u.version = m.version
      /\ u.resolved = m.resolved /\ u.broad = m.broad /\ u.slots = m.slots
  BY <1>1, <1>2, <1>3 DEF ModelsType
<1> QED BY <1>2, <1>4 DEF W

(* The execution of one slot.                                              *)
LEMMA ExecutionIs ==
    ASSUME NEW m, NEW n, NEW k, m.epoch = n.epoch, m.slots[k] = n.slots[k]
    PROVE  Execution(m, k) = Execution(n, k)
BY DEF Execution

(* One session more or less is shown.                                      *)
LEMMA ShownCount ==
    ASSUME NEW S \in SUBSET Keys, NEW k \in Keys
    PROVE  /\ k \in S => Cardinality(S \ {k}) = Cardinality(S) - 1
           /\ k \notin S => /\ Cardinality(S \cup {k}) = Cardinality(S) + 1
                            /\ Cardinality(S \ {k}) = Cardinality(S)
<1>1. IsFiniteSet(S)
  BY KeysFinite
<1>2. k \notin S => S \ {k} = S
  OBVIOUS
<1> QED BY <1>1, <1>2, FS_AddElement, FS_RemoveElement

(* n is m without the session k.                                           *)
Forgotten(m, k, n) ==
    /\ n.epoch = m.epoch /\ n.ticket = m.ticket /\ n.version = m.version
    /\ n.broad = m.broad /\ n.slots = [m.slots EXCEPT ![k] = None]
    /\ \A q \in Elements(n.queue) : q.key # k
    /\ \A q \in n.waiting : q.key # k

(* Models::remove takes the session out of every index.                    *)
LEMMA ForgetIs ==
    ASSUME NEW L, NEW m, Sound(m, L), NEW k \in Keys, NEW n, n = Forget(m, k)
    PROVE  Sound(n, L \ {k}) /\ Forgotten(m, k, n)
<1>a. m \in ModelsType /\ OneToOne(m.queue)
  BY DEF Sound
<1>0. m.slots \in [Keys -> Slot \cup {None}]
  BY <1>a, ModelsFields
<1>1. CASE m.slots[k] = None
  <2>1. n = m /\ k \notin L /\ L \ {k} = L
    BY <1>1 DEF Forget, Sound
  <2>2. \A q \in Elements(m.queue) \cup m.waiting : q.key # k
    BY <1>1 DEF Sound
  <2>3. TicketOf(m, k).key = k
    BY DEF TicketOf
  <2>4. [m.slots EXCEPT ![k] = None] = m.slots
    BY <1>0, <1>1
  <2> QED BY <2>1, <2>2, <2>3, <2>4 DEF Forgotten
<1>2. CASE m.slots[k] # None
  <2>0. PICK u : u = Unqueue(m, k)
    OBVIOUS
  <2> DEFINE c == IF Execution(m, k) # None THEN u.resolved - 1 ELSE u.resolved
             S == [u.slots EXCEPT ![k] = None]
  <2>1. /\ u \in ModelsType /\ OneToOne(u.queue)
        /\ u.epoch = m.epoch /\ u.ticket = m.ticket /\ u.version = m.version
        /\ u.resolved = m.resolved /\ u.broad = m.broad /\ u.slots = m.slots
        /\ Elements(u.queue) = Elements(m.queue) \ {TicketOf(m, k)}
        /\ u.waiting = m.waiting \ {TicketOf(m, k)}
    BY <1>a, <2>0, UnqueueIs
  <2>2. n = [u EXCEPT !.resolved = c, !.slots = S]
    BY <1>2, <2>0 DEF Forget
  <2>3. c \in Int /\ S \in [Keys -> Slot \cup {None}]
    BY <1>0, <2>1, ModelsFields
  <2>4. S[k] = None /\ \A j \in Keys : j # k => S[j] = m.slots[j]
    BY <1>0, <2>1
  <2>5. S = [m.slots EXCEPT ![k] = None]
    BY <2>1
  <2> HIDE DEF c, S
  <2>6. /\ n \in ModelsType /\ n.resolved = c /\ n.slots = S
        /\ n.epoch = m.epoch /\ n.ticket = m.ticket /\ n.version = m.version
        /\ n.broad = m.broad /\ n.queue = u.queue /\ n.waiting = u.waiting
    BY <2>1, <2>2, <2>3 DEF ModelsType
  <2>7. \A q \in Elements(n.queue) \cup n.waiting : q.key # k
    BY <2>1, <2>6 DEF Sound
  <2>8. \A q \in Elements(n.queue) \cup n.waiting :
          q \in Elements(m.queue) \cup m.waiting /\ q.key \in Keys
    <3>1. \A q \in Elements(m.queue) \cup m.waiting : q.key \in Keys
      BY <1>a, QueueKeys
    <3> QED BY <2>1, <2>6, <3>1
  <2>9. Shown(n) = Shown(m) \ {k}
    BY <2>4, <2>6 DEF Shown, Execution
  <2>10. c = Cardinality(Shown(n))
    <3>1. Shown(m) \in SUBSET Keys /\ (k \in Shown(m) <=> Execution(m, k) # None)
      BY DEF Shown
    <3>2. u.resolved = Cardinality(Shown(m)) /\ Cardinality(Shown(m)) \in Nat
      BY <2>1, <3>1, KeysFinite DEF Sound
    <3> QED BY <2>9, <3>1, <3>2, ShownCount DEF c
  <2>11. \A j \in Keys : j # k => TicketOf(n, j) = TicketOf(m, j) /\ TicketOf(n, j) # TicketOf(m, k)
    BY <2>4, <2>6 DEF TicketOf
  <2>12. Sound(n, L \ {k})
    <3>1. \A j \in Keys : n.slots[j] # None <=> j \in L \ {k}
      BY <2>4, <2>6 DEF Sound
    <3>2. \A j \in Keys : n.slots[j] # None =>
             n.slots[j].ticket <= n.ticket /\ n.slots[j].epoch <= n.epoch
      BY <2>4, <2>6 DEF Sound
    <3>3. \A q \in Elements(n.queue) :
             /\ n.slots[q.key] # None /\ q = TicketOf(n, q.key)
             /\ n.slots[q.key].status # "ready" /\ q \notin n.waiting
      BY <2>1, <2>4, <2>6, <2>7, <2>8, <2>11 DEF Sound
    <3>4. \A q \in n.waiting :
             /\ n.slots[q.key] # None /\ q = TicketOf(n, q.key)
             /\ n.slots[q.key].status = "failed"
      BY <2>1, <2>4, <2>6, <2>7, <2>8, <2>11 DEF Sound
    <3>5. \A j \in Keys : n.slots[j] # None /\ n.slots[j].status # "ready" =>
             TicketOf(n, j) \in Elements(n.queue) \cup n.waiting
      BY <2>1, <2>4, <2>6, <2>11 DEF Sound
    <3> QED BY <2>1, <2>6, <2>10, <3>1, <3>2, <3>3, <3>4, <3>5 DEF Sound
  <2> QED BY <2>1, <2>5, <2>6, <2>7, <2>12 DEF Forgotten
<1> QED BY <1>1, <1>2

(* n is m with a new ticket for the session k, due now.                    *)
Invalidated(m, k, n) ==
    /\ n.epoch = m.epoch /\ n.ticket = m.ticket + 1 /\ n.broad = m.broad
    /\ n.version = IF Execution(m, k) # None THEN m.version + 1 ELSE m.version
    /\ n.slots[k] # None /\ n.slots[k].status = "pending"
    /\ n.slots[k].ticket = m.ticket + 1 /\ n.slots[k].epoch = m.epoch
    /\ \A j \in Keys : j # k => n.slots[j] = m.slots[j]

(* That is what Models::invalidate leaves.                                 *)
LEMMA InvalidateIs ==
    ASSUME NEW L, NEW m, Sound(m, L), NEW k \in Keys, NEW n, n = Invalidate(m, k)
    PROVE  Sound(n, L \cup {k}) /\ Invalidated(m, k, n)
<1> DEFINE ticket == m.ticket + 1
           accepted == IF m.slots[k] = None THEN 0 ELSE m.slots[k].accepted
           slot == [epoch |-> m.epoch, ticket |-> ticket, accepted |-> accepted,
                    status |-> "pending", model |-> None]
           q == [key |-> k, ticket |-> ticket]
           version == IF Execution(m, k) # None THEN m.version + 1 ELSE m.version
<1>a. m \in ModelsType
  BY DEF Sound
<1>1. PICK f : f = Forget(m, k)
  OBVIOUS
<1>2. /\ Sound(f, L \ {k})
      /\ f.epoch = m.epoch /\ f.ticket = m.ticket /\ f.version = m.version
      /\ f.broad = m.broad /\ f.slots = [m.slots EXCEPT ![k] = None]
      /\ \A j \in Elements(f.queue) : j.key # k
      /\ \A j \in f.waiting : j.key # k
  BY <1>1, ForgetIs DEF Forgotten
<1>3. f \in ModelsType /\ OneToOne(f.queue)
  BY <1>2 DEF Sound
<1>4. PICK S : S = [f.slots EXCEPT ![k] = slot]
  OBVIOUS
<1>5. PICK Q : Q = Append(f.queue, q)
  OBVIOUS
<1>6. n = [f EXCEPT !.version = version, !.ticket = ticket, !.slots = S, !.queue = Q]
  BY <1>1, <1>2, <1>4, <1>5 DEF Invalidate
<1>7. slot \in Slot
  <2>1. m.epoch \in Nat /\ ticket \in Nat
    BY <1>a, ModelsFields
  <2>2. accepted \in Nat
    <3>1. m.slots[k] \in Slot \cup {None}
      BY <1>a, ModelsFields
    <3> QED BY <3>1 DEF Slot
  <2> HIDE DEF ticket, accepted
  <2> QED BY <2>1, <2>2 DEF Slot
<1>8. q \in Ticket /\ q.key = k
  BY <1>a, ModelsFields DEF Ticket
<1>9. version \in Nat /\ ticket \in Nat
  BY <1>a, ModelsFields
<1>10. /\ slot.epoch = m.epoch /\ slot.ticket = ticket /\ slot.status = "pending"
       /\ slot.model = None /\ slot # None
  BY <1>7, NoneIs
<1>11. /\ S \in [Keys -> Slot \cup {None}] /\ S[k] = slot
       /\ \A j \in Keys : j # k => S[j] = m.slots[j]
  <2>1. m.slots \in [Keys -> Slot \cup {None}]
    BY <1>a, ModelsFields
  <2> HIDE DEF slot
  <2> QED BY <1>2, <1>4, <1>7, <2>1
<1>12. /\ Q \in Seq(Ticket) /\ Elements(Q) = Elements(f.queue) \cup {q}
       /\ OneToOne(Q)
  <2>1. f.queue \in Seq(Ticket)
    BY <1>3, ModelsFields
  <2>2. q \notin Elements(f.queue)
    BY <1>2, <1>8
  <2> HIDE DEF q
  <2> QED BY <1>3, <1>5, <1>8, <2>1, <2>2, AppendsOne
<1>13. q = [key |-> k, ticket |-> slot.ticket]
  BY <1>10
<1> HIDE DEF slot, q, version
<1>14. /\ n \in ModelsType /\ n.version = version /\ n.ticket = ticket /\ n.slots = S
       /\ n.queue = Q /\ n.waiting = f.waiting /\ n.resolved = f.resolved
       /\ n.epoch = m.epoch /\ n.broad = m.broad
  <2> HIDE DEF ticket
  <2> QED BY <1>2, <1>3, <1>6, <1>9, <1>11, <1>12 DEF ModelsType
<1>15. \A j \in Keys : j # k => n.slots[j] = f.slots[j] /\ f.slots[j] = m.slots[j]
  <2>1. m.slots \in [Keys -> Slot \cup {None}]
    BY <1>a, ModelsFields
  <2> QED BY <1>2, <1>11, <1>14, <2>1
<1>16. f.slots[k] = None
  BY <1>2 DEF Sound
<1>17. \A j \in Keys : j # k => TicketOf(n, j) = TicketOf(f, j)
  BY <1>15 DEF TicketOf
<1>18. TicketOf(n, k) = q
  BY <1>11, <1>13, <1>14 DEF TicketOf
<1>19. \A j \in Elements(f.queue) \cup f.waiting : j.key \in Keys /\ j.key # k
  BY <1>2, <1>3, QueueKeys
<1>20. Shown(n) = Shown(f)
  <2>1. Execution(n, k) = None /\ Execution(f, k) = None
    BY <1>10, <1>11, <1>14, <1>16 DEF Execution
  <2>2. \A j \in Keys : j # k => Execution(n, j) = Execution(f, j)
    BY <1>2, <1>14, <1>15 DEF Execution
  <2> QED BY <2>1, <2>2 DEF Shown
<1>21. Sound(n, L \cup {k})
  <2>1. \A j \in Keys : n.slots[j] # None <=> j \in L \cup {k}
    BY <1>2, <1>10, <1>11, <1>14, <1>15 DEF Sound
  <2>2. \A j \in Keys : n.slots[j] # None =>
           n.slots[j].ticket <= n.ticket /\ n.slots[j].epoch <= n.epoch
    <3>1. \A j \in Keys : j # k /\ n.slots[j] # None =>
             n.slots[j].ticket <= m.ticket /\ n.slots[j].epoch <= n.epoch
             /\ n.slots[j].ticket \in Nat
      <4>1. \A j \in Keys : j # k => f.slots[j] \in Slot \cup {None}
        BY <1>3, ModelsFields
      <4>2. \A s \in Slot : s.ticket \in Nat
        BY DEF Slot
      <4> QED BY <1>2, <1>14, <1>15, <4>1, <4>2 DEF Sound
    <3>2. m.ticket \in Nat /\ m.epoch \in Nat
      BY <1>a, ModelsFields
    <3> QED BY <1>10, <1>11, <1>14, <3>1, <3>2
  <2>3. \A j \in Elements(n.queue) :
           /\ n.slots[j.key] # None /\ j = TicketOf(n, j.key)
           /\ n.slots[j.key].status # "ready" /\ j \notin n.waiting
    <3>1. \A j \in Elements(f.queue) :
             /\ f.slots[j.key] # None /\ j = TicketOf(f, j.key)
             /\ f.slots[j.key].status # "ready" /\ j \notin f.waiting
      BY <1>2 DEF Sound
    <3>2. q \notin n.waiting
      BY <1>2, <1>8, <1>14
    <3> QED BY <1>8, <1>10, <1>11, <1>12, <1>14, <1>15, <1>17, <1>18, <1>19, <3>1, <3>2
  <2>4. \A j \in n.waiting :
           /\ n.slots[j.key] # None /\ j = TicketOf(n, j.key)
           /\ n.slots[j.key].status = "failed"
    <3>1. \A j \in f.waiting :
             /\ f.slots[j.key] # None /\ j = TicketOf(f, j.key)
             /\ f.slots[j.key].status = "failed"
      BY <1>2 DEF Sound
    <3> QED BY <1>14, <1>15, <1>17, <1>19, <3>1
  <2>5. \A j \in Keys : n.slots[j] # None /\ n.slots[j].status # "ready" =>
           TicketOf(n, j) \in Elements(n.queue) \cup n.waiting
    <3>1. \A j \in Keys : f.slots[j] # None /\ f.slots[j].status # "ready" =>
             TicketOf(f, j) \in Elements(f.queue) \cup f.waiting
      BY <1>2 DEF Sound
    <3> QED BY <1>12, <1>14, <1>15, <1>17, <1>18, <3>1
  <2>6. n.resolved = Cardinality(Shown(n))
    BY <1>2, <1>14, <1>20 DEF Sound
  <2> QED BY <1>12, <1>14, <2>1, <2>2, <2>3, <2>4, <2>5, <2>6 DEF Sound
<1> QED BY <1>10, <1>11, <1>14, <1>21 DEF version, Invalidated

(* Models::invalidate_all takes every shown model back.                    *)
LEMMA InvalidateAllIs ==
    ASSUME NEW L, NEW m, Sound(m, L), NEW n, n = InvalidateAll(m)
    PROVE  /\ Sound(n, L)
           /\ n.epoch = m.epoch + 1 /\ n.ticket = m.ticket /\ n.broad = 0
           /\ n.slots = m.slots /\ n.version >= m.version
           /\ Shown(n) = {} /\ (Shown(m) # {} => n.version > m.version)
<1> DEFINE version == IF m.resolved > 0 THEN m.version + 1 ELSE m.version
<1>a. m \in ModelsType
  BY DEF Sound
<1>1. m.epoch \in Nat /\ m.ticket \in Nat /\ m.version \in Nat /\ m.resolved \in Int
  BY <1>a, ModelsFields
<1>2. version \in Nat /\ version >= m.version
  BY <1>1
<1>3. Shown(m) # {} => version > m.version
  <2>1. Shown(m) \in SUBSET Keys /\ m.resolved = Cardinality(Shown(m))
    BY DEF Shown, Sound
  <2>2. IsFiniteSet(Shown(m)) /\ Cardinality(Shown(m)) \in Nat
    BY <2>1, KeysFinite
  <2>3. Shown(m) # {} => m.resolved > 0
    BY <2>1, <2>2, FS_EmptySet
  <2> QED BY <1>1, <2>3
<1>b. PICK epoch : epoch = m.epoch + 1
  OBVIOUS
<1>4. n = [m EXCEPT !.version = version, !.resolved = 0, !.epoch = epoch, !.broad = 0]
  BY <1>b DEF InvalidateAll
<1>c. epoch \in Nat
  BY <1>1, <1>b
<1> HIDE DEF version
<1>5. /\ n \in ModelsType /\ n.version = version /\ n.resolved = 0
      /\ n.epoch = epoch /\ n.broad = 0 /\ n.ticket = m.ticket /\ n.slots = m.slots
      /\ n.queue = m.queue /\ n.waiting = m.waiting
  <2>1. PICK zero : zero = 0
    OBVIOUS
  <2>2. zero \in Int /\ zero \in Nat \cup {None}
    BY <2>1
  <2>3. n = [m EXCEPT !.version = version, !.resolved = zero, !.epoch = epoch, !.broad = zero]
    BY <1>4, <2>1
  <2>4. n \in ModelsType
    BY <1>a, <1>2, <1>c, <2>2, <2>3 DEF ModelsType
  <2> QED BY <1>a, <1>4, <2>4 DEF ModelsType
<1>6. \A k \in Keys : TicketOf(n, k) = TicketOf(m, k)
  BY <1>5 DEF TicketOf
<1>7. \A k \in Keys : m.slots[k] # None => m.slots[k].epoch \in Nat /\ m.slots[k].epoch <= m.epoch
  <2>1. \A k \in Keys : m.slots[k] \in Slot \cup {None}
    BY <1>a, ModelsFields
  <2>2. \A s \in Slot : s.epoch \in Nat
    BY DEF Slot
  <2> QED BY <2>1, <2>2 DEF Sound
<1>8. Shown(n) = {}
  <2>1. \A k \in Keys : m.slots[k] # None => m.slots[k].epoch # m.epoch + 1
    BY <1>1, <1>7
  <2> QED BY <1>5, <1>b, <2>1 DEF Shown, Execution
<1>9. n.resolved = Cardinality(Shown(n))
  BY <1>5, <1>8, FS_EmptySet
<1>10. \A q \in Elements(m.queue) \cup m.waiting : q.key \in Keys
  BY <1>a, QueueKeys
<1>11. Sound(n, L)
  <2>1. \A k \in Keys : n.slots[k] # None =>
           n.slots[k].ticket <= n.ticket /\ n.slots[k].epoch <= n.epoch
    BY <1>1, <1>5, <1>7, <1>b DEF Sound
  <2> QED BY <1>5, <1>6, <1>9, <1>10, <2>1 DEF Sound
<1> QED BY <1>2, <1>3, <1>5, <1>8, <1>11, <1>b

(* A retry that falls due,                                                 *)
DueAgain(m, q) ==
    [m EXCEPT !.waiting = m.waiting \ {q}, !.queue = Append(m.queue, q)]

(* moves its ticket into the queue.                                        *)
LEMMA BackoffIs ==
    ASSUME NEW L, NEW m, Sound(m, L), NEW q \in m.waiting, NEW n, n = DueAgain(m, q)
    PROVE  /\ Sound(n, L)
           /\ n.epoch = m.epoch /\ n.ticket = m.ticket /\ n.broad = m.broad
           /\ n.slots = m.slots /\ n.version = m.version
<1>a. m \in ModelsType /\ OneToOne(m.queue)
  BY DEF Sound
<1>1. PICK Q : Q = Append(m.queue, q)
  OBVIOUS
<1>2. m.queue \in Seq(Ticket) /\ q \in Ticket
  BY <1>a, ModelsFields
<1>3. q \notin Elements(m.queue)
  BY DEF Sound
<1>4. /\ Q \in Seq(Ticket) /\ Elements(Q) = Elements(m.queue) \cup {q}
      /\ OneToOne(Q)
  BY <1>a, <1>1, <1>2, <1>3, AppendsOne
<1>5. PICK W : W = m.waiting \ {q}
  OBVIOUS
<1>6. W \in SUBSET Ticket
  BY <1>a, <1>5, ModelsFields
<1>7. /\ n \in ModelsType /\ n.queue = Q /\ n.waiting = W
      /\ n.epoch = m.epoch /\ n.ticket = m.ticket /\ n.broad = m.broad
      /\ n.slots = m.slots /\ n.version = m.version /\ n.resolved = m.resolved
  BY <1>a, <1>1, <1>4, <1>5, <1>6 DEF ModelsType, DueAgain
<1>8. \A k \in Keys : TicketOf(n, k) = TicketOf(m, k) /\ Execution(n, k) = Execution(m, k)
  BY <1>7 DEF TicketOf, Execution
<1>9. Shown(n) = Shown(m)
  BY <1>8 DEF Shown
<1>10. \A j \in Elements(m.queue) \cup m.waiting : j.key \in Keys
  BY <1>a, QueueKeys
<1>11. Sound(n, L)
  <2>1. \A j \in Elements(n.queue) :
           /\ n.slots[j.key] # None /\ j = TicketOf(n, j.key)
           /\ n.slots[j.key].status # "ready" /\ j \notin n.waiting
    BY <1>4, <1>5, <1>7, <1>8, <1>10 DEF Sound
  <2>2. \A j \in n.waiting :
           /\ n.slots[j.key] # None /\ j = TicketOf(n, j.key)
           /\ n.slots[j.key].status = "failed"
    BY <1>5, <1>7, <1>8, <1>10 DEF Sound
  <2>3. \A k \in Keys : n.slots[k] # None /\ n.slots[k].status # "ready" =>
           TicketOf(n, k) \in Elements(n.queue) \cup n.waiting
    BY <1>4, <1>5, <1>7, <1>8 DEF Sound
  <2> QED BY <1>4, <1>7, <1>9, <2>1, <2>2, <2>3 DEF Sound
<1> QED BY <1>7, <1>11

----------------------------------------------------------------------------
(* The broad walk.                                                         *)

(* The recursion of InvalidateStale, up to the key b.                      *)
StaleUpTo(m, page, b, f) ==
    f = [k \in 0..b |->
           IF k = 0 THEN m
           ELSE IF k \in page /\ m.slots[k].epoch # m.epoch THEN Invalidate(f[k - 1], k)
           ELSE f[k - 1]]

(* It has a solution,                                                      *)
LEMMA StaleExists ==
    ASSUME NEW m, NEW page, NEW b \in Nat
    PROVE  \E f : StaleUpTo(m, page, b, f)
<1> DEFINE S == {n \in 0..b : \E f : StaleUpTo(m, page, n, f)}
<1>1. 0 \in S
  <2>1. StaleUpTo(m, page, 0, [k \in 0..0 |-> m])
    BY DEF StaleUpTo
  <2> QED BY <2>1
<1>2. ASSUME NEW n \in 1..b, n - 1 \in S PROVE n \in S
  <2>1. PICK f : StaleUpTo(m, page, n - 1, f)
    BY <1>2
  <2> DEFINE last == IF n \in page /\ m.slots[n].epoch # m.epoch
                     THEN Invalidate(f[n - 1], n) ELSE f[n - 1]
             g == [k \in 0..n |-> IF k = n THEN last ELSE f[k]]
  <2>2. ASSUME NEW k \in 0..n
        PROVE  g[k] = IF k = 0 THEN m
                      ELSE IF k \in page /\ m.slots[k].epoch # m.epoch
                           THEN Invalidate(g[k - 1], k) ELSE g[k - 1]
    <3>1. k = n \/ k \in 0..(n - 1)
      OBVIOUS
    <3>2. k # 0 => k - 1 \in 0..(n - 1) /\ k - 1 # n
      OBVIOUS
    <3>3. \A j \in 0..(n - 1) : g[j] = f[j] /\ j \in 0..n
      OBVIOUS
    <3>4. \A j \in 0..(n - 1) :
             f[j] = IF j = 0 THEN m
                    ELSE IF j \in page /\ m.slots[j].epoch # m.epoch
                         THEN Invalidate(f[j - 1], j) ELSE f[j - 1]
      BY <2>1 DEF StaleUpTo
    <3>5. n # 0 /\ n \in 0..n
      OBVIOUS
    <3>6. g[n] = last
      BY <3>5
    <3> HIDE DEF g
    <3> QED BY <3>1, <3>2, <3>3, <3>4, <3>5, <3>6
  <2>3. StaleUpTo(m, page, n, g)
    BY <2>2 DEF StaleUpTo
  <2> QED BY <2>3
<1> HIDE DEF S
<1>3. 0..b \subseteq S
  BY <1>1, <1>2, UpTo
<1> QED BY <1>3 DEF S

(* and InvalidateStale is its value at the last key.                       *)
LEMMA StaleIs ==
    ASSUME NEW m, NEW page
    PROVE  \E f : StaleUpTo(m, page, NumKeys, f) /\ InvalidateStale(m, page) = f[NumKeys]
<1> DEFINE c == CHOOSE f : StaleUpTo(m, page, NumKeys, f)
<1>1. StaleUpTo(m, page, NumKeys, c)
  BY StaleExists, ModelsAssumption
<1>2. InvalidateStale(m, page) = c[NumKeys]
  BY Zenon DEF InvalidateStale, StaleUpTo
<1> QED BY <1>1, <1>2

Stale(m, page, k) == k \in page /\ m.slots[k].epoch # m.epoch

(* n is m with the stale slots of the page up to b given new tickets: no   *)
(* execution changes.                                                      *)
Refreshed(m, page, b, n) ==
    /\ n.epoch = m.epoch /\ n.version = m.version /\ n.broad = m.broad
    /\ n.ticket >= m.ticket
    /\ \A k \in Keys :
          IF k <= b /\ Stale(m, page, k)
          THEN /\ n.slots[k] # None /\ n.slots[k].status = "pending"
               /\ n.slots[k].epoch = m.epoch /\ n.slots[k].ticket > m.ticket
          ELSE n.slots[k] = m.slots[k]

(* InvalidateStale leaves a sound Models with the stale slots refreshed.    *)
LEMMA InvalidateStaleIs ==
    ASSUME NEW L, NEW m, Sound(m, L), NEW page \in SUBSET L, page \subseteq Keys,
           NEW n, n = InvalidateStale(m, page)
    PROVE  Sound(n, L) /\ Refreshed(m, page, NumKeys, n)
<1>1. PICK f : StaleUpTo(m, page, NumKeys, f) /\ n = f[NumKeys]
  BY StaleIs
<1>2. NumKeys \in Nat /\ \A k \in 1..NumKeys : k \in Keys
  BY ModelsAssumption DEF Keys
<1>3. m \in ModelsType /\ m.ticket \in Nat
  BY ModelsFields DEF Sound
<1> DEFINE G == {b \in 0..NumKeys : Sound(f[b], L) /\ Refreshed(m, page, b, f[b])}
<1>4. \A k \in 0..NumKeys :
         f[k] = IF k = 0 THEN m
                ELSE IF Stale(m, page, k) THEN Invalidate(f[k - 1], k) ELSE f[k - 1]
  BY <1>1 DEF StaleUpTo, Stale
<1>5. 0 \in G
  <2>1. f[0] = m /\ 0 \in 0..NumKeys
    BY <1>2, <1>4
  <2>2. \A k \in Keys : ~(k <= 0)
    BY DEF Keys
  <2> QED BY <1>3, <2>1, <2>2 DEF Refreshed
<1>6. ASSUME NEW b \in 1..NumKeys, b - 1 \in G PROVE b \in G
  <2>1. b \in 0..NumKeys /\ b # 0 /\ b \in Keys
    BY <1>2
  <2>2. PICK g : g = f[b - 1]
    OBVIOUS
  <2>3. Sound(g, L) /\ Refreshed(m, page, b - 1, g)
    BY <1>6, <2>2
  <2>4. f[b] = IF Stale(m, page, b) THEN Invalidate(g, b) ELSE g
    BY <1>4, <2>1, <2>2
  <2>5. g.slots[b] = m.slots[b]
    BY <2>1, <2>3 DEF Refreshed
  <2>6. \A k \in Keys : k # b => (k <= b <=> k <= b - 1)
    BY <2>1 DEF Keys
  <2>7. CASE ~Stale(m, page, b)
    <3>1. f[b] = g
      BY <2>4, <2>7
    <3>2. Refreshed(m, page, b, g)
      BY <2>3, <2>5, <2>6, <2>7 DEF Refreshed
    <3> QED BY <2>1, <2>3, <3>1, <3>2
  <2>8. CASE Stale(m, page, b)
    <3>1. PICK h : h = Invalidate(g, b)
      OBVIOUS
    <3>2. f[b] = h
      BY <2>4, <2>8, <3>1
    <3>3. /\ Sound(h, L \cup {b})
          /\ h.epoch = g.epoch /\ h.ticket = g.ticket + 1 /\ h.broad = g.broad
          /\ h.version = IF Execution(g, b) # None THEN g.version + 1 ELSE g.version
          /\ h.slots[b] # None /\ h.slots[b].status = "pending"
          /\ h.slots[b].ticket = g.ticket + 1 /\ h.slots[b].epoch = g.epoch
          /\ \A j \in Keys : j # b => h.slots[j] = g.slots[j]
      <4>1. b \in Keys
        BY <1>2
      <4>2. Sound(g, L)
        BY <2>3
      <4>3. Sound(h, L \cup {b}) /\ Invalidated(g, b, h)
        BY <3>1, <4>1, <4>2, InvalidateIs
      <4> QED BY <4>3 DEF Invalidated
    <3>4. b \in L /\ L \cup {b} = L
      BY <2>8 DEF Stale
    <3>5. Execution(g, b) = None
      BY <2>3, <2>5, <2>8 DEF Execution, Refreshed, Stale
    <3>6. g.ticket \in Nat /\ g.ticket >= m.ticket
      BY <2>3, ModelsFields DEF Sound, Refreshed
    <3>7. h.ticket >= m.ticket /\ h.slots[b].ticket > m.ticket
      BY <1>3, <3>3, <3>6
    <3>8. Refreshed(m, page, b, h)
      <4>1. b <= b
        BY <2>1
      <4>2. ASSUME NEW k \in Keys, k # b
            PROVE  IF k <= b /\ Stale(m, page, k)
                   THEN /\ h.slots[k] # None /\ h.slots[k].status = "pending"
                        /\ h.slots[k].epoch = m.epoch /\ h.slots[k].ticket > m.ticket
                   ELSE h.slots[k] = m.slots[k]
        BY <2>3, <2>6, <3>3, <4>2 DEF Refreshed
      <4>3. h.epoch = m.epoch /\ h.version = m.version /\ h.broad = m.broad
        BY <2>3, <3>3, <3>5 DEF Refreshed
      <4> QED BY <2>8, <3>3, <3>7, <4>1, <4>2, <4>3 DEF Refreshed
    <3> QED BY <2>1, <3>2, <3>3, <3>4, <3>8
  <2> QED BY <2>7, <2>8
<1> HIDE DEF G
<1>7. NumKeys \in G
  <2>1. 0..NumKeys \subseteq G
    BY <1>2, <1>5, <1>6, UpTo
  <2> QED BY <1>2, <2>1
<1> QED BY <1>1, <1>7 DEF G

(* A page holds the first sessions after the cursor; when it is not full   *)
(* it holds them all.                                                      *)
LEMMA BroadPageIs ==
    ASSUME NEW m, NEW after, after = {k \in Keys : m.slots[k] # None /\ k > m.broad},
           NEW page, page = BroadPage(m)
    PROVE  /\ page \subseteq after
           /\ \A k \in after, p \in page : k <= p => k \in page
           /\ Cardinality(page) # ModelPage => page = after
<1> DEFINE Before(k) == {j \in after : j < k}
<1>a. page = {k \in after : Cardinality(Before(k)) < ModelPage}
  BY Zenon DEF BroadPage
<1>b. \A k : Before(k) = {j \in after : j < k}
  OBVIOUS
<1> HIDE DEF Before
<1>0. /\ after \in SUBSET Keys /\ Keys \subseteq Nat /\ ModelPage \in Nat
      /\ \A k : k \in page <=> k \in after /\ Cardinality(Before(k)) < ModelPage
      /\ \A k, j \in Nat : j \in Before(k) <=> j \in after /\ j < k
      /\ \A k : Before(k) \subseteq after
      /\ after \subseteq Nat /\ page \subseteq Nat
  BY <1>a, <1>b, ModelsAssumption DEF Keys
<1>1. \A k : Before(k) \in SUBSET Keys /\ IsFiniteSet(Before(k)) /\ Cardinality(Before(k)) \in Nat
  <2> TAKE k
  <2>1. Before(k) \in SUBSET Keys
    BY <1>0
  <2> QED BY <2>1, KeysFinite
<1>2. ASSUME NEW k \in after, NEW p \in page, k <= p PROVE k \in page
  <2>1. Before(k) \subseteq Before(p)
    BY <1>0, <1>2
  <2>2. Cardinality(Before(k)) <= Cardinality(Before(p))
    BY <1>1, <2>1, FS_Subset
  <2>3. Cardinality(Before(p)) < ModelPage
    BY <1>0
  <2>4. Cardinality(Before(k)) < ModelPage
    BY <1>0, <1>1, <2>2, <2>3
  <2> QED BY <1>0, <2>4
<1>3. page \in SUBSET Keys /\ IsFiniteSet(page) /\ Cardinality(page) \in Nat
  BY <1>0, KeysFinite
<1>4. Cardinality(page) <= ModelPage
  <2>1. CASE page = {}
    BY <1>0, <2>1, FS_EmptySet
  <2>2. CASE page # {}
    <3>1. PICK p \in page : \A j \in page : j <= p
      BY <1>3, <2>2, LastKey
    <3>2. page \subseteq Before(p) \cup {p}
      BY <1>0, <3>1
    <3>3. /\ IsFiniteSet(Before(p) \cup {p})
          /\ Cardinality(Before(p) \cup {p}) = Cardinality(Before(p)) + 1
      <4>1. p \notin Before(p)
        BY <1>0
      <4> QED BY <1>1, <4>1, FS_AddElement
    <3>4. Cardinality(page) <= Cardinality(Before(p)) + 1
      BY <3>2, <3>3, FS_Subset
    <3>5. Cardinality(Before(p)) < ModelPage
      BY <1>0
    <3> QED BY <1>0, <1>1, <1>3, <3>4, <3>5
  <2> QED BY <2>1, <2>2
<1>5. ASSUME after \ page # {} PROVE Cardinality(page) = ModelPage
  <2>1. PICK k \in after \ page : \A j \in after \ page : k <= j
    <3>1. after \ page \in SUBSET Nat
      BY <1>0
    <3> QED BY <1>5, <3>1, LeastNatural
  <2>2. Before(k) \subseteq page
    <3> SUFFICES ASSUME NEW j \in Before(k) PROVE j \in page
      OBVIOUS
    <3>1. j \in after /\ j < k /\ j \in Nat /\ k \in Nat
      BY <1>0
    <3> QED BY <2>1, <3>1
  <2>3. Cardinality(Before(k)) <= Cardinality(page)
    BY <1>3, <2>2, FS_Subset
  <2>4. ~(Cardinality(Before(k)) < ModelPage)
    BY <1>0, <2>1
  <2> QED BY <1>0, <1>1, <1>3, <1>4, <2>3, <2>4
<1>6. page \subseteq after
  BY <1>0
<1> QED BY <1>2, <1>5, <1>6

(* The slots of n are those of m, or stale ones that were asked for again. *)
Walked(m, n) ==
    \A k \in Keys :
       \/ n.slots[k] = m.slots[k]
       \/ /\ m.slots[k] # None /\ m.slots[k].epoch # m.epoch
          /\ n.slots[k] # None /\ n.slots[k].status = "pending"
          /\ n.slots[k].epoch = m.epoch /\ n.slots[k].ticket > m.ticket

(* Models::advance_broad goes on with the walk and changes no execution.   *)
LEMMA AdvanceBroadIs ==
    ASSUME NEW L, NEW m, Sound(m, L), BroadAhead(m), NEW n, n = AdvanceBroad(m)
    PROVE  /\ Sound(n, L) /\ BroadAhead(n)
           /\ n.epoch = m.epoch /\ n.version = m.version /\ n.ticket >= m.ticket
           /\ Walked(m, n)
<1>a. m \in ModelsType
  BY DEF Sound
<1>b. m.ticket \in Nat /\ m.broad \in Nat \cup {None}
  BY <1>a, ModelsFields
<1>1. CASE m.broad = None
  <2>1. n = m
    BY <1>1 DEF AdvanceBroad
  <2> QED BY <1>b, <2>1 DEF Walked
<1>2. CASE m.broad # None
  <2>1. PICK page : page = BroadPage(m)
    OBVIOUS
  <2>2. PICK after : after = {k \in Keys : m.slots[k] # None /\ k > m.broad}
    OBVIOUS
  <2>3. /\ page \subseteq after
        /\ \A k \in after, p \in page : k <= p => k \in page
        /\ Cardinality(page) # ModelPage => page = after
    BY <2>1, <2>2, BroadPageIs
  <2>4. PICK next : next = IF Cardinality(page) = ModelPage
                           THEN CHOOSE k \in page : \A j \in page : j <= k ELSE None
    OBVIOUS
  <2>5. PICK start : start = [m EXCEPT !.broad = next]
    OBVIOUS
  <2>6. n = InvalidateStale(start, page)
    BY <1>2, <2>1, <2>4, <2>5 DEF AdvanceBroad
  <2>7. page \in SUBSET Keys /\ page \in SUBSET L
    BY <2>2, <2>3 DEF Sound
  <2>8. /\ Cardinality(page) = ModelPage => next \in page /\ \A j \in page : j <= next
        /\ Cardinality(page) # ModelPage => next = None
    <3>1. Cardinality(page) = ModelPage => page # {}
      BY ModelsAssumption, FS_EmptySet
    <3>2. page # {} => \E k \in page : \A j \in page : j <= k
      BY <2>7, LastKey
    <3> QED BY <2>4, <3>1, <3>2
  <2>9. next \in Nat \cup {None}
    <3>1. Keys \subseteq Nat
      BY DEF Keys
    <3>2. next \in page \/ next = None
      BY <2>8
    <3> QED BY <2>7, <3>1, <3>2
  <2>10. /\ start \in ModelsType /\ start.broad = next
         /\ start.epoch = m.epoch /\ start.ticket = m.ticket /\ start.version = m.version
         /\ start.resolved = m.resolved /\ start.slots = m.slots
         /\ start.queue = m.queue /\ start.waiting = m.waiting
    BY <1>a, <2>5, <2>9 DEF ModelsType
  <2>11. Sound(start, L)
    <3>1. \A k \in Keys : TicketOf(start, k) = TicketOf(m, k) /\ Execution(start, k) = Execution(m, k)
      BY <2>10 DEF TicketOf, Execution
    <3>2. Shown(start) = Shown(m)
      BY <3>1 DEF Shown
    <3>3. \A q \in Elements(m.queue) \cup m.waiting : q.key \in Keys
      BY <1>a, QueueKeys
    <3> QED BY <2>10, <3>1, <3>2, <3>3 DEF Sound
  <2>12. Sound(n, L) /\ Refreshed(start, page, NumKeys, n)
    BY <2>6, <2>7, <2>11, InvalidateStaleIs
  <2>13. \A k \in Keys : k <= NumKeys
    BY ModelsAssumption DEF Keys
  <2>14. /\ n.epoch = m.epoch /\ n.version = m.version /\ n.broad = next /\ n.ticket >= m.ticket
         /\ \A k \in Keys :
               IF k \in page /\ m.slots[k].epoch # m.epoch
               THEN /\ n.slots[k] # None /\ n.slots[k].status = "pending"
                    /\ n.slots[k].epoch = m.epoch /\ n.slots[k].ticket > m.ticket
               ELSE n.slots[k] = m.slots[k]
    BY <2>10, <2>12, <2>13 DEF Refreshed, Stale
  <2>15. \A k \in page : m.slots[k] # None
    BY <2>7 DEF Sound
  <2>16. BroadAhead(n)
    <3> SUFFICES ASSUME NEW k \in Keys, n.slots[k] # None, n.slots[k].epoch # m.epoch
                 PROVE  next # None /\ k > next
      BY <2>14 DEF BroadAhead
    <3>1. n.slots[k] = m.slots[k] /\ k \notin page /\ m.slots[k] # None
      BY <2>14
    <3>2. k > m.broad /\ k \in after
      BY <2>2, <3>1 DEF BroadAhead
    <3>3. Cardinality(page) = ModelPage
      BY <2>3, <3>1, <3>2
    <3>4. next \in page /\ ~(k <= next)
      BY <2>3, <2>8, <3>1, <3>2, <3>3
    <3>5. next \in Nat /\ k \in Nat
      BY <2>7, <3>4 DEF Keys
    <3> QED BY <3>4, <3>5, NoneIs
  <2> QED BY <2>7, <2>12, <2>14, <2>15, <2>16 DEF Walked
<1> QED BY <1>1, <1>2

----------------------------------------------------------------------------
(* The pages of the projection task.                                       *)

(* The recursion of Requests, on the first b tickets of the queue.         *)
RequestOf(m, q) ==
    [key |-> q.key, incarnation |-> live[q.key].incarnation,
     epoch |-> m.slots[q.key].epoch, ticket |-> q.ticket,
     minimum |-> IF live[q.key].exists_at > m.slots[q.key].accepted
                 THEN live[q.key].exists_at ELSE m.slots[q.key].accepted]

RequestsUpTo(m, b, f) ==
    f = [n \in 0..b |->
           IF n = 0 THEN <<>>
           ELSE IF live[m.queue[n].key] = None \/ m.slots[m.queue[n].key] = None THEN f[n - 1]
           ELSE Append(f[n - 1], RequestOf(m, m.queue[n]))]

(* It has a solution,                                                      *)
LEMMA RequestsExist ==
    ASSUME NEW m, NEW b \in Nat
    PROVE  \E f : RequestsUpTo(m, b, f)
<1> DEFINE S == {n \in 0..b : \E f : RequestsUpTo(m, n, f)}
           Skips(n) == live[m.queue[n].key] = None \/ m.slots[m.queue[n].key] = None
<1>1. 0 \in S
  <2>1. RequestsUpTo(m, 0, [k \in 0..0 |-> <<>>])
    BY DEF RequestsUpTo
  <2> QED BY <2>1
<1>2. ASSUME NEW n \in 1..b, n - 1 \in S PROVE n \in S
  <2>1. PICK f : RequestsUpTo(m, n - 1, f)
    BY <1>2
  <2> DEFINE last == IF Skips(n) THEN f[n - 1] ELSE Append(f[n - 1], RequestOf(m, m.queue[n]))
             g == [k \in 0..n |-> IF k = n THEN last ELSE f[k]]
  <2>2. ASSUME NEW k \in 0..n
        PROVE  g[k] = IF k = 0 THEN <<>>
                      ELSE IF Skips(k) THEN g[k - 1]
                      ELSE Append(g[k - 1], RequestOf(m, m.queue[k]))
    <3>1. k = n \/ k \in 0..(n - 1)
      OBVIOUS
    <3>2. k # 0 => k - 1 \in 0..(n - 1) /\ k - 1 # n
      OBVIOUS
    <3>3. \A j \in 0..(n - 1) : g[j] = f[j] /\ j \in 0..n
      OBVIOUS
    <3>4. \A j \in 0..(n - 1) :
             f[j] = IF j = 0 THEN <<>>
                    ELSE IF Skips(j) THEN f[j - 1]
                    ELSE Append(f[j - 1], RequestOf(m, m.queue[j]))
      BY <2>1 DEF RequestsUpTo
    <3>5. n # 0 /\ n \in 0..n
      OBVIOUS
    <3>6. g[n] = last
      BY <3>5
    <3> HIDE DEF g, Skips
    <3> QED BY <3>1, <3>2, <3>3, <3>4, <3>5, <3>6
  <2>3. RequestsUpTo(m, n, g)
    BY <2>2 DEF RequestsUpTo
  <2> QED BY <2>3
<1> HIDE DEF S
<1>3. 0..b \subseteq S
  BY <1>1, <1>2, UpTo
<1> QED BY <1>3 DEF S

(* Tickets and epochs that have been given.                                *)
Given(m, s) ==
    \A n \in 1..Len(s) : s[n].ticket <= m.ticket /\ s[n].epoch <= m.epoch

(* and Requests asks for tickets that have been given.                     *)
LEMMA RequestsAre ==
    ASSUME Sound(models, Live), Types, NEW m, Sound(m, Live), NEW s, s = Requests(m)
    PROVE  s \in Seq(ModelRequest) /\ Given(m, s)
<1> DEFINE size == IF Len(m.queue) < ModelPage THEN Len(m.queue) ELSE ModelPage
           c == CHOOSE f : RequestsUpTo(m, size, f)
<1>a. m \in ModelsType
  BY DEF Sound
<1>1. size \in Nat /\ size <= Len(m.queue) /\ Len(m.queue) \in Nat
  BY <1>a, ModelsFields, ModelsAssumption
<1>2. RequestsUpTo(m, size, c) /\ s = c[size]
  <2>1. s = c[size]
    BY Zenon DEF Requests, RequestsUpTo, RequestOf
  <2> HIDE DEF size
  <2> QED BY <1>1, <2>1, RequestsExist
<1>3. PICK f : RequestsUpTo(m, size, f) /\ s = f[size]
  BY <1>2
<1> HIDE DEF size, c
<1> DEFINE G == {n \in 0..size : f[n] \in Seq(ModelRequest) /\ Given(m, f[n])}
<1>4. 0 \in G
  <2>1. f[0] = <<>> /\ 0 \in 0..size
    BY <1>1, <1>3 DEF RequestsUpTo
  <2>2. f[0] \in Seq(ModelRequest) /\ Len(f[0]) = 0
    BY <2>1
  <2>3. Given(m, f[0])
    BY <2>2 DEF Given
  <2> QED BY <2>1, <2>2, <2>3
<1>5. ASSUME NEW n \in 1..size, n - 1 \in G PROVE n \in G
  <2>1. n \in 0..size /\ n # 0 /\ n \in 1..Len(m.queue)
    BY <1>1
  <2>2. PICK q : q = m.queue[n]
    OBVIOUS
  <2>3. PICK r : r = RequestOf(m, q)
    OBVIOUS
  <2>4. PICK t : t = f[n - 1]
    OBVIOUS
  <2>5. t \in Seq(ModelRequest) /\ Given(m, t)
    BY <1>5, <2>4
  <2>6. f[n] = IF live[q.key] = None \/ m.slots[q.key] = None THEN t ELSE Append(t, r)
    BY <1>3, <2>1, <2>2, <2>3, <2>4 DEF RequestsUpTo
  <2>7. CASE live[q.key] = None \/ m.slots[q.key] = None
    BY <2>1, <2>5, <2>6, <2>7
  <2>8. CASE live[q.key] # None /\ m.slots[q.key] # None
    <3>1. q \in Elements(m.queue)
      BY <2>1, <2>2 DEF Elements
    <3>2. q \in Ticket /\ q.key \in Keys
      BY <1>a, <3>1, QueueKeys
    <3>3. /\ q = TicketOf(m, q.key) /\ m.slots[q.key].ticket <= m.ticket
          /\ m.slots[q.key].epoch <= m.epoch
      BY <2>8, <3>1, <3>2 DEF Sound
    <3>4. q.ticket \in Nat /\ q.ticket = m.slots[q.key].ticket
      <4>1. q.ticket \in Nat
        BY <3>2 DEF Ticket
      <4>2. TicketOf(m, q.key).ticket = m.slots[q.key].ticket
        BY DEF TicketOf
      <4> QED BY <3>3, <4>1, <4>2
    <3>5. m.slots[q.key].epoch \in Nat /\ m.slots[q.key].accepted \in Nat
      <4>1. m.slots[q.key] \in Slot \cup {None}
        BY <1>a, <3>2, ModelsFields
      <4> QED BY <2>8, <4>1 DEF Slot
    <3>6. live[q.key].incarnation \in Nat /\ live[q.key].exists_at \in Nat
      <4>1. live[q.key] \in LiveEntry \cup {None}
        BY <3>2 DEF Types
      <4> QED BY <2>8, <4>1 DEF LiveEntry
    <3>7. r \in ModelRequest /\ r.ticket <= m.ticket /\ r.epoch <= m.epoch
      <4> DEFINE low == IF live[q.key].exists_at > m.slots[q.key].accepted
                        THEN live[q.key].exists_at ELSE m.slots[q.key].accepted
      <4>1. low \in Nat
        BY <3>5, <3>6
      <4>2. r = [key |-> q.key, incarnation |-> live[q.key].incarnation,
                 epoch |-> m.slots[q.key].epoch, ticket |-> q.ticket, minimum |-> low]
        BY <2>3 DEF RequestOf
      <4> HIDE DEF low
      <4>3. r \in ModelRequest /\ r.ticket = q.ticket /\ r.epoch = m.slots[q.key].epoch
        BY <3>2, <3>4, <3>5, <3>6, <4>1, <4>2 DEF ModelRequest
      <4> QED BY <3>3, <3>4, <4>3
    <3>8. f[n] = Append(t, r)
      BY <2>6, <2>8
    <3>9. PICK u : u = Append(t, r)
      OBVIOUS
    <3>10. /\ u \in Seq(ModelRequest) /\ Len(u) = Len(t) + 1 /\ u[Len(t) + 1] = r
           /\ \A i \in 1..Len(t) : u[i] = t[i]
      BY <2>5, <3>7, <3>9
    <3>11. \A i \in 1..Len(u) : i \in 1..Len(t) \/ i = Len(t) + 1
      BY <2>5, <3>10
    <3>12. Given(m, u)
      BY <2>5, <3>7, <3>10, <3>11 DEF Given
    <3> QED BY <2>1, <3>8, <3>9, <3>10, <3>12
  <2> QED BY <2>7, <2>8
<1> HIDE DEF G
<1>6. size \in G
  <2>1. 0..size \subseteq G
    BY <1>1, <1>4, <1>5, UpTo
  <2> QED BY <1>1, <2>1
<1> QED BY <1>3, <1>6 DEF G

(* n is m with answers applied: no ticket or epoch moves, and a changed    *)
(* execution has a new version.                                            *)
Applied(m, n) ==
    /\ n.epoch = m.epoch /\ n.ticket = m.ticket /\ n.broad = m.broad
    /\ n.version >= m.version
    /\ \A k \in Keys :
          /\ n.slots[k] # None <=> m.slots[k] # None
          /\ m.slots[k] # None => /\ n.slots[k].ticket = m.slots[k].ticket
                                  /\ n.slots[k].epoch = m.slots[k].epoch
          /\ Execution(n, k) # Execution(m, k) => n.version > m.version

(* The slot of k was filled by the answer to the request r.                *)
Filled(m, n, page, r, k) ==
    /\ r.key = k /\ page.status = "ok"
    /\ m.slots[k] # None /\ m.slots[k].ticket = r.ticket /\ m.epoch = r.epoch
    /\ live[k] # None /\ page.rows[k] # None
    /\ page.rows[k].incarnation = live[k].incarnation
    /\ n.slots[k].model = page.rows[k].model

(* Every slot of n is that of m, or without an answer, or filled by one of *)
(* the first b requests.                                                   *)
Took(m, n, page, b) ==
    \A k \in Keys :
        \/ n.slots[k] = m.slots[k]
        \/ n.slots[k].status # "ready"
        \/ \E i \in 1..b : Filled(m, n, page, page.requests[i], k)

(* One answer: the slot takes it, or waits for a retry.                    *)
LEMMA ApplyModelIs ==
    ASSUME Types, NEW page \in Page, NEW r \in ModelRequest,
           NEW m, Sound(m, Live), NEW n, n = ApplyModel(m, r, page)
    PROVE  /\ Sound(n, Live) /\ Applied(m, n)
           /\ \A k \in Keys :
                 \/ n.slots[k] = m.slots[k]
                 \/ n.slots[k].status # "ready"
                 \/ Filled(m, n, page, r, k)
<1>a. m \in ModelsType /\ OneToOne(m.queue)
  BY DEF Sound
<1>b. m.version \in Nat /\ m.resolved \in Int /\ m.ticket \in Nat /\ m.epoch \in Nat
  BY <1>a, ModelsFields
<1>c. PICK k : k = r.key
  OBVIOUS
<1>d. k \in Keys
  BY <1>c DEF ModelRequest
<1>1. CASE ~Wanted(m, r)
  <2>1. n = m
    BY <1>1 DEF ApplyModel
  <2> QED BY <1>b, <2>1 DEF Applied
<1>2. CASE Wanted(m, r)
  <2>1. /\ live[k] # None /\ m.slots[k] # None
        /\ live[k].incarnation = r.incarnation
        /\ m.slots[k].ticket = r.ticket
        /\ m.slots[k].epoch = r.epoch /\ m.epoch = r.epoch
    BY <1>2, <1>c DEF Wanted
  <2>2. PICK u : u = Unqueue(m, k)
    OBVIOUS
  <2>3. /\ u \in ModelsType /\ OneToOne(u.queue)
        /\ u.epoch = m.epoch /\ u.ticket = m.ticket /\ u.version = m.version
        /\ u.resolved = m.resolved /\ u.broad = m.broad /\ u.slots = m.slots
        /\ Elements(u.queue) = Elements(m.queue) \ {TicketOf(m, k)}
        /\ u.waiting = m.waiting \ {TicketOf(m, k)}
    BY <1>a, <1>d, <2>2, UnqueueIs
  <2>4. m.slots[k] \in Slot
    <3>1. m.slots[k] \in Slot \cup {None}
      BY <1>a, <1>d, ModelsFields
    <3> QED BY <2>1, <3>1
  <2>5. \E new \in Slot, W \in {u.waiting, u.waiting \cup {TicketOf(m, k)}} :
           /\ new.ticket = m.slots[k].ticket /\ new.epoch = m.slots[k].epoch
           /\ \/ /\ Valid(m, r, page) /\ new.status = "ready"
                 /\ new.model = page.rows[k].model /\ W = u.waiting
              \/ new.status = "failed" /\ W = u.waiting \cup {TicketOf(m, k)}
           /\ (IF Valid(m, r, page)
               THEN [u EXCEPT !.slots[k] = [m.slots[k] EXCEPT !.accepted = page.revision,
                                                              !.status = "ready",
                                                              !.model = page.rows[k].model]]
               ELSE [u EXCEPT !.slots[k] = [m.slots[k] EXCEPT !.status = "failed", !.model = None],
                              !.waiting = @ \cup {[key |-> k, ticket |-> m.slots[k].ticket]}])
              = [u EXCEPT !.slots = [m.slots EXCEPT ![k] = new], !.waiting = W]
    <3>1. CASE Valid(m, r, page)
      <4>1. page.status = "ok" /\ page.rows[k] # None /\ page.revision \in Nat
        BY <1>c, <3>1 DEF Valid, Page
      <4>2. page.rows[k].model \in Models \cup {None}
        <5>1. page.rows[k] \in PublishedModel \cup {None}
          BY <1>d DEF Page
        <5> QED BY <4>1, <5>1 DEF PublishedModel
      <4>3. PICK v : v = page.rows[k].model
        OBVIOUS
      <4>4. PICK revision : revision = page.revision
        OBVIOUS
      <4>5. PICK new : new = [m.slots[k] EXCEPT !.accepted = revision, !.status = "ready", !.model = v]
        OBVIOUS
      <4>6. /\ new \in Slot /\ new.ticket = m.slots[k].ticket /\ new.epoch = m.slots[k].epoch
            /\ new.status = "ready" /\ new.model = v
        BY <2>4, <4>1, <4>2, <4>3, <4>4, <4>5 DEF Slot
      <4>7. [u EXCEPT !.slots[k] = new]
            = [u EXCEPT !.slots = [m.slots EXCEPT ![k] = new], !.waiting = u.waiting]
        BY <2>3 DEF ModelsType
      <4> QED BY <3>1, <4>3, <4>4, <4>5, <4>6, <4>7
    <3>2. CASE ~Valid(m, r, page)
      <4>1. PICK new : new = [m.slots[k] EXCEPT !.status = "failed", !.model = None]
        OBVIOUS
      <4>2. /\ new \in Slot /\ new.ticket = m.slots[k].ticket /\ new.epoch = m.slots[k].epoch
            /\ new.status = "failed"
        BY <2>4, <4>1 DEF Slot
      <4>3. PICK W : W = u.waiting \cup {TicketOf(m, k)}
        OBVIOUS
      <4>4. [u EXCEPT !.slots[k] = new, !.waiting = @ \cup {[key |-> k, ticket |-> m.slots[k].ticket]}]
            = [u EXCEPT !.slots = [m.slots EXCEPT ![k] = new], !.waiting = W]
        BY <2>3, <4>3 DEF ModelsType, TicketOf
      <4> QED BY <3>2, <4>1, <4>2, <4>3, <4>4
    <3> QED BY <3>1, <3>2
  <2>6. PICK new \in Slot, W \in {u.waiting, u.waiting \cup {TicketOf(m, k)}} :
           /\ new.ticket = m.slots[k].ticket /\ new.epoch = m.slots[k].epoch
           /\ \/ /\ Valid(m, r, page) /\ new.status = "ready"
                 /\ new.model = page.rows[k].model /\ W = u.waiting
              \/ new.status = "failed" /\ W = u.waiting \cup {TicketOf(m, k)}
           /\ (IF Valid(m, r, page)
               THEN [u EXCEPT !.slots[k] = [m.slots[k] EXCEPT !.accepted = page.revision,
                                                              !.status = "ready",
                                                              !.model = page.rows[k].model]]
               ELSE [u EXCEPT !.slots[k] = [m.slots[k] EXCEPT !.status = "failed", !.model = None],
                              !.waiting = @ \cup {[key |-> k, ticket |-> m.slots[k].ticket]}])
              = [u EXCEPT !.slots = [m.slots EXCEPT ![k] = new], !.waiting = W]
    BY <2>5
  <2>7. PICK S : S = [m.slots EXCEPT ![k] = new]
    OBVIOUS
  <2>8. PICK a : a = [u EXCEPT !.slots = S, !.waiting = W]
    OBVIOUS
  <2> DEFINE bit(e) == IF e # None THEN 1 ELSE 0
             same == Execution(m, k) = Execution(a, k)
             c == IF same THEN a.resolved
                  ELSE a.resolved - bit(Execution(m, k)) + bit(Execution(a, k))
             v == IF same THEN a.version ELSE a.version + 1
  <2>9. n = IF same THEN a ELSE [a EXCEPT !.resolved = c, !.version = v]
    <3>1. PICK b : b = IF Valid(m, r, page)
               THEN [Unqueue(m, r.key) EXCEPT
                       !.slots[r.key] = [m.slots[r.key] EXCEPT !.accepted = page.revision,
                                                               !.status = "ready",
                                                               !.model = page.rows[r.key].model]]
               ELSE [Unqueue(m, r.key) EXCEPT
                       !.slots[r.key] = [m.slots[r.key] EXCEPT !.status = "failed", !.model = None],
                       !.waiting = @ \cup {[key |-> r.key, ticket |-> m.slots[r.key].ticket]}]
      OBVIOUS
    <3>2. b = a
      BY <1>c, <2>2, <2>6, <2>7, <2>8, <3>1
    <3>3. n = IF Execution(m, r.key) = Execution(b, r.key) THEN b
              ELSE [b EXCEPT !.resolved = b.resolved - bit(Execution(m, r.key))
                                                     + bit(Execution(b, r.key)),
                             !.version = b.version + 1]
      BY <1>2, <3>1, Zenon DEF ApplyModel
    <3> QED BY <1>c, <3>2, <3>3
  <2>10. /\ S \in [Keys -> Slot \cup {None}] /\ S[k] = new
         /\ \A j \in Keys : j # k => S[j] = m.slots[j]
    <3>1. m.slots \in [Keys -> Slot \cup {None}]
      BY <1>a, ModelsFields
    <3> QED BY <1>d, <2>7, <3>1
  <2>11. TicketOf(m, k) \in Ticket /\ TicketOf(m, k).key = k
    <3>1. m.slots[k].ticket \in Nat
      BY <2>4 DEF Slot
    <3> QED BY <1>d, <3>1 DEF TicketOf, Ticket
  <2>12. W \in SUBSET Ticket
    <3>1. u.waiting \in SUBSET Ticket
      BY <2>3, ModelsFields
    <3> QED BY <2>11, <3>1
  <2>13. /\ a \in ModelsType /\ a.slots = S /\ a.waiting = W /\ a.queue = u.queue
         /\ a.epoch = m.epoch /\ a.ticket = m.ticket /\ a.broad = m.broad
         /\ a.version = m.version /\ a.resolved = m.resolved
    BY <2>3, <2>8, <2>10, <2>12 DEF ModelsType
  <2>14. c \in Int /\ v \in Nat
    BY <1>b, <2>13
  <2>15. /\ n \in ModelsType /\ n.slots = S /\ n.waiting = W /\ n.queue = u.queue
         /\ n.epoch = m.epoch /\ n.ticket = m.ticket /\ n.broad = m.broad
         /\ n.version = v /\ n.resolved = c
    <3>1. CASE same
      BY <2>9, <2>13, <3>1
    <3>2. CASE ~same
      <4>1. n = [a EXCEPT !.resolved = c, !.version = v]
        BY <2>9, <3>2
      <4> HIDE DEF c, v
      <4> QED BY <2>13, <2>14, <4>1 DEF ModelsType
    <3> QED BY <3>1, <3>2
  <2>16. new # None
    BY NoneIs
  <2>17. \A j \in Keys : n.slots[j] # None <=> m.slots[j] # None
    BY <2>1, <2>10, <2>15, <2>16
  <2>18. \A j \in Keys : m.slots[j] # None => /\ n.slots[j].ticket = m.slots[j].ticket
                                              /\ n.slots[j].epoch = m.slots[j].epoch
    BY <2>6, <2>10, <2>15
  <2>19. \A j \in Keys : TicketOf(n, j) = TicketOf(m, j)
    BY <2>6, <2>10, <2>15 DEF TicketOf
  <2>20. Execution(n, k) = Execution(a, k) /\ \A j \in Keys : j # k => Execution(n, j) = Execution(m, j)
    BY <2>10, <2>13, <2>15 DEF Execution
  <2>21. n.resolved = Cardinality(Shown(n))
    <3>1. Shown(m) \in SUBSET Keys /\ m.resolved = Cardinality(Shown(m))
      BY DEF Sound, Shown
    <3>2. k \in Shown(m) <=> Execution(m, k) # None
      BY <1>d DEF Shown
    <3>3. Shown(n) = IF Execution(a, k) # None THEN Shown(m) \cup {k} ELSE Shown(m) \ {k}
      BY <1>d, <2>20 DEF Shown
    <3>4. Cardinality(Shown(m)) \in Nat
      BY <3>1, KeysFinite
    <3>5. CASE Execution(a, k) # None /\ Execution(m, k) # None
      <4>1. Shown(n) = Shown(m)
        BY <3>2, <3>3, <3>5
      <4>2. c = m.resolved
        BY <1>b, <2>13, <3>5
      <4> QED BY <2>15, <3>1, <4>1, <4>2
    <3>6. CASE Execution(a, k) # None /\ Execution(m, k) = None
      <4>1. Cardinality(Shown(n)) = Cardinality(Shown(m)) + 1
        BY <1>d, <3>1, <3>2, <3>3, <3>6, ShownCount
      <4>2. c = m.resolved + 1
        BY <1>b, <2>13, <3>6
      <4> QED BY <2>15, <3>1, <4>1, <4>2
    <3>7. CASE Execution(a, k) = None /\ Execution(m, k) # None
      <4>1. Cardinality(Shown(n)) = Cardinality(Shown(m)) - 1
        BY <1>d, <3>1, <3>2, <3>3, <3>7, ShownCount
      <4>2. c = m.resolved - 1
        BY <1>b, <2>13, <3>7
      <4> QED BY <2>15, <3>1, <4>1, <4>2
    <3>8. CASE Execution(a, k) = None /\ Execution(m, k) = None
      <4>1. Shown(n) = Shown(m)
        BY <3>2, <3>3, <3>8
      <4>2. c = m.resolved
        BY <2>13, <3>8
      <4> QED BY <2>15, <3>1, <4>1, <4>2
    <3> QED BY <3>5, <3>6, <3>7, <3>8
  <2>22. v >= m.version /\ (~same => v > m.version)
    BY <1>b, <2>13
  <2>23. Applied(m, n)
    <3>1. \A j \in Keys : Execution(n, j) # Execution(m, j) => n.version > m.version
      BY <2>15, <2>20, <2>22
    <3> HIDE DEF v
    <3> QED BY <2>15, <2>17, <2>18, <2>22, <3>1 DEF Applied
  <2>24. Sound(n, Live)
    <3>1. \A j \in Keys : n.slots[j] # None <=> j \in Live
      BY <2>17 DEF Sound
    <3>2. \A j \in Keys : n.slots[j] # None =>
             n.slots[j].ticket <= n.ticket /\ n.slots[j].epoch <= n.epoch
      BY <2>15, <2>17, <2>18 DEF Sound
    <3>3. \A q \in Elements(m.queue) \cup m.waiting :
             /\ q.key \in Keys /\ q = TicketOf(m, q.key)
             /\ q # TicketOf(m, k) => q.key # k
      <4>1. \A q \in Elements(m.queue) \cup m.waiting : q.key \in Keys
        BY <1>a, QueueKeys
      <4>2. \A q \in Elements(m.queue) \cup m.waiting : q = TicketOf(m, q.key)
        BY DEF Sound
      <4> QED BY <4>1, <4>2
    <3>4. \A q \in Elements(n.queue) :
             /\ n.slots[q.key] # None /\ q = TicketOf(n, q.key)
             /\ n.slots[q.key].status # "ready" /\ q \notin n.waiting
      <4> SUFFICES ASSUME NEW q \in Elements(n.queue)
                   PROVE  /\ n.slots[q.key] # None /\ q = TicketOf(n, q.key)
                          /\ n.slots[q.key].status # "ready" /\ q \notin n.waiting
        OBVIOUS
      <4>1. q \in Elements(m.queue) /\ q # TicketOf(m, k)
        BY <2>3, <2>15
      <4>2. q.key \in Keys /\ q = TicketOf(m, q.key) /\ q.key # k
        BY <3>3, <4>1
      <4>3. m.slots[q.key] # None /\ m.slots[q.key].status # "ready" /\ q \notin m.waiting
        BY <4>1 DEF Sound
      <4>4. n.slots[q.key] = m.slots[q.key]
        BY <2>10, <2>15, <4>2
      <4> QED BY <2>3, <2>15, <2>19, <4>1, <4>2, <4>3, <4>4
    <3>5. \A q \in n.waiting :
             /\ n.slots[q.key] # None /\ q = TicketOf(n, q.key)
             /\ n.slots[q.key].status = "failed"
      <4> SUFFICES ASSUME NEW q \in n.waiting
                   PROVE  /\ n.slots[q.key] # None /\ q = TicketOf(n, q.key)
                          /\ n.slots[q.key].status = "failed"
        OBVIOUS
      <4>1. CASE q = TicketOf(m, k)
        <5>1. q \notin u.waiting
          BY <2>3, <4>1
        <5>2. new.status = "failed"
          BY <2>6, <2>15, <5>1
        <5> QED BY <1>d, <2>10, <2>11, <2>15, <2>16, <2>19, <4>1, <5>2
      <4>2. CASE q # TicketOf(m, k)
        <5>1. q \in m.waiting
          BY <2>3, <2>15, <4>2
        <5>2. q.key \in Keys /\ q = TicketOf(m, q.key) /\ q.key # k
          BY <3>3, <4>2, <5>1
        <5>3. m.slots[q.key] # None /\ m.slots[q.key].status = "failed"
          BY <5>1 DEF Sound
        <5>4. n.slots[q.key] = m.slots[q.key]
          BY <2>10, <2>15, <5>2
        <5> QED BY <2>19, <5>2, <5>3, <5>4
      <4> QED BY <4>1, <4>2
    <3>6. \A j \in Keys : n.slots[j] # None /\ n.slots[j].status # "ready" =>
             TicketOf(n, j) \in Elements(n.queue) \cup n.waiting
      <4> SUFFICES ASSUME NEW j \in Keys, n.slots[j] # None, n.slots[j].status # "ready"
                   PROVE  TicketOf(n, j) \in Elements(n.queue) \cup n.waiting
        OBVIOUS
      <4>1. CASE j = k
        <5>1. new.status # "ready"
          BY <2>10, <2>15, <4>1
        <5>2. W = u.waiting \cup {TicketOf(m, k)}
          BY <2>6, <5>1
        <5> QED BY <2>15, <2>19, <4>1, <5>2
      <4>2. CASE j # k
        <5>1. m.slots[j] # None /\ m.slots[j].status # "ready"
          BY <2>10, <2>15, <4>2
        <5>2. TicketOf(m, j) \in Elements(m.queue) \cup m.waiting
          BY <5>1 DEF Sound
        <5>3. TicketOf(m, j) # TicketOf(m, k)
          BY <2>11, <4>2 DEF TicketOf
        <5> QED BY <2>3, <2>6, <2>15, <2>19, <5>2, <5>3
      <4> QED BY <4>1, <4>2
    <3> HIDE DEF c, v
    <3> QED BY <2>3, <2>15, <2>21, <3>1, <3>2, <3>4, <3>5, <3>6 DEF Sound
  <2>25. ASSUME NEW j \in Keys
         PROVE  \/ n.slots[j] = m.slots[j]
                \/ n.slots[j].status # "ready"
                \/ Filled(m, n, page, r, j)
    <3>1. CASE j # k
      BY <2>10, <2>15, <3>1
    <3>2. CASE j = k /\ new.status # "ready"
      BY <2>10, <2>15, <3>2
    <3>3. CASE j = k /\ new.status = "ready"
      <4>1. Valid(m, r, page) /\ new.model = page.rows[k].model
        BY <2>6, <3>3
      <4>2. /\ page.status = "ok" /\ page.rows[k] # None
            /\ page.rows[k].incarnation = r.incarnation
        BY <1>c, <4>1 DEF Valid
      <4>3. n.slots[k].model = page.rows[k].model
        BY <2>10, <2>15, <4>1
      <4> QED BY <1>c, <2>1, <3>3, <4>2, <4>3 DEF Filled
    <3> QED BY <3>1, <3>2, <3>3
  <2> QED BY <2>23, <2>24, <2>25
<1> QED BY <1>1, <1>2

(* The recursion of ApplyModels, on the first b requests.                  *)
AppliedUpTo(m, page, b, f) ==
    f = [i \in 0..b |-> IF i = 0 THEN m ELSE ApplyModel(f[i - 1], page.requests[i], page)]

(* It has a solution,                                                      *)
LEMMA AppliedExists ==
    ASSUME NEW m, NEW page, NEW b \in Nat
    PROVE  \E f : AppliedUpTo(m, page, b, f)
<1> DEFINE S == {n \in 0..b : \E f : AppliedUpTo(m, page, n, f)}
<1>1. 0 \in S
  <2>1. AppliedUpTo(m, page, 0, [k \in 0..0 |-> m])
    BY DEF AppliedUpTo
  <2> QED BY <2>1
<1>2. ASSUME NEW n \in 1..b, n - 1 \in S PROVE n \in S
  <2>1. PICK f : AppliedUpTo(m, page, n - 1, f)
    BY <1>2
  <2> DEFINE last == ApplyModel(f[n - 1], page.requests[n], page)
             g == [k \in 0..n |-> IF k = n THEN last ELSE f[k]]
  <2>2. ASSUME NEW k \in 0..n
        PROVE  g[k] = IF k = 0 THEN m ELSE ApplyModel(g[k - 1], page.requests[k], page)
    <3>1. k = n \/ k \in 0..(n - 1)
      OBVIOUS
    <3>2. k # 0 => k - 1 \in 0..(n - 1) /\ k - 1 # n
      OBVIOUS
    <3>3. \A j \in 0..(n - 1) : g[j] = f[j] /\ j \in 0..n
      OBVIOUS
    <3>4. \A j \in 0..(n - 1) :
             f[j] = IF j = 0 THEN m ELSE ApplyModel(f[j - 1], page.requests[j], page)
      BY <2>1 DEF AppliedUpTo
    <3>5. n # 0 /\ n \in 0..n
      OBVIOUS
    <3>6. g[n] = last
      BY <3>5
    <3> HIDE DEF g
    <3> QED BY <3>1, <3>2, <3>3, <3>4, <3>5, <3>6
  <2>3. AppliedUpTo(m, page, n, g)
    BY <2>2 DEF AppliedUpTo
  <2> QED BY <2>3
<1> HIDE DEF S
<1>3. 0..b \subseteq S
  BY <1>1, <1>2, UpTo
<1> QED BY <1>3 DEF S

(* Answers compose.                                                        *)
LEMMA AppliedTwice ==
    ASSUME NEW m \in ModelsType, NEW g \in ModelsType, NEW n \in ModelsType,
           Applied(m, g), Applied(g, n)
    PROVE  Applied(m, n)
<1>1. m.version \in Nat /\ g.version \in Nat /\ n.version \in Nat
  BY ModelsFields
<1>2. /\ g.epoch = m.epoch /\ g.ticket = m.ticket /\ g.broad = m.broad /\ g.version >= m.version
      /\ n.epoch = g.epoch /\ n.ticket = g.ticket /\ n.broad = g.broad /\ n.version >= g.version
  BY DEF Applied
<1>3. ASSUME NEW k \in Keys
      PROVE  /\ n.slots[k] # None <=> m.slots[k] # None
             /\ m.slots[k] # None => /\ n.slots[k].ticket = m.slots[k].ticket
                                     /\ n.slots[k].epoch = m.slots[k].epoch
  BY DEF Applied
<1>4. ASSUME NEW k \in Keys, Execution(n, k) # Execution(m, k) PROVE n.version > m.version
  <2>1. CASE Execution(g, k) # Execution(m, k)
    <3>1. g.version > m.version
      BY <2>1 DEF Applied
    <3> QED BY <1>1, <1>2, <3>1
  <2>2. CASE Execution(n, k) # Execution(g, k)
    <3>1. n.version > g.version
      BY <2>2 DEF Applied
    <3> QED BY <1>1, <1>2, <3>1
  <2> QED BY <1>4, <2>1, <2>2
<1> QED BY <1>1, <1>2, <1>3, <1>4 DEF Applied

(* and ApplyModels takes an answer for every request that is still wanted. *)
LEMMA ApplyModelsIs ==
    ASSUME Types, NEW page \in Page, NEW m, Sound(m, Live), NEW n, n = ApplyModels(m, page)
    PROVE  Sound(n, Live) /\ Applied(m, n) /\ Took(m, n, page, Len(page.requests))
<1> DEFINE size == Len(page.requests)
           c == CHOOSE f : AppliedUpTo(m, page, size, f)
<1>1. page.requests \in Seq(ModelRequest) /\ size \in Nat
  BY DEF Page
<1>2. AppliedUpTo(m, page, size, c) /\ n = c[size]
  <2>1. n = c[size]
    BY Zenon DEF ApplyModels, AppliedUpTo
  <2> HIDE DEF size
  <2> QED BY <1>1, <2>1, AppliedExists
<1>3. PICK f : AppliedUpTo(m, page, size, f) /\ n = f[size]
  BY <1>2
<1>4. \A i \in 1..size : page.requests[i] \in ModelRequest
  BY <1>1
<1>a. m \in ModelsType /\ m.version \in Nat
  BY ModelsFields DEF Sound
<1> HIDE DEF size, c
<1> DEFINE G == {b \in 0..size : Sound(f[b], Live) /\ Applied(m, f[b]) /\ Took(m, f[b], page, b)}
<1>5. \A i \in 0..size :
         f[i] = IF i = 0 THEN m ELSE ApplyModel(f[i - 1], page.requests[i], page)
  BY <1>3 DEF AppliedUpTo
<1>6. 0 \in G
  <2>1. f[0] = m /\ 0 \in 0..size
    BY <1>1, <1>5
  <2>2. Applied(m, m) /\ Took(m, m, page, 0)
    BY <1>a DEF Applied, Took
  <2> QED BY <2>1, <2>2
<1>7. ASSUME NEW b \in 1..size, b - 1 \in G PROVE b \in G
  <2>1. b \in 0..size /\ b # 0 /\ b - 1 \in 0..size /\ 1..(b - 1) \subseteq 1..b /\ b \in 1..b
    BY <1>1
  <2>2. PICK g : g = f[b - 1]
    OBVIOUS
  <2>3. PICK h : h = f[b]
    OBVIOUS
  <2>4. PICK r : r = page.requests[b]
    OBVIOUS
  <2>5. h = ApplyModel(g, r, page)
    BY <1>5, <2>1, <2>2, <2>3, <2>4
  <2>6. Sound(g, Live) /\ Applied(m, g) /\ Took(m, g, page, b - 1)
    BY <1>7, <2>2
  <2>7. r \in ModelRequest
    BY <1>4, <2>4
  <2>8. /\ Sound(h, Live) /\ Applied(g, h)
        /\ \A k \in Keys :
              \/ h.slots[k] = g.slots[k]
              \/ h.slots[k].status # "ready"
              \/ Filled(g, h, page, r, k)
    BY <2>5, <2>6, <2>7, ApplyModelIs
  <2>9. Applied(m, h)
    <3>1. g \in ModelsType /\ h \in ModelsType
      BY <2>6, <2>8 DEF Sound
    <3> QED BY <1>a, <2>6, <2>8, <3>1, AppliedTwice
  <2>10. Took(m, h, page, b)
    <3> SUFFICES ASSUME NEW k \in Keys, h.slots[k] # m.slots[k], h.slots[k].status = "ready"
                 PROVE  \E i \in 1..b : Filled(m, h, page, page.requests[i], k)
      BY DEF Took
    <3>1. CASE h.slots[k] = g.slots[k]
      <4>1. PICK i \in 1..(b - 1) : Filled(m, g, page, page.requests[i], k)
        BY <2>6, <3>1 DEF Took
      <4>2. Filled(m, h, page, page.requests[i], k)
        BY <3>1, <4>1 DEF Filled
      <4> QED BY <2>1, <4>2
    <3>2. CASE Filled(g, h, page, r, k)
      <4>1. Filled(m, h, page, r, k)
        BY <2>6, <3>2 DEF Filled, Applied
      <4> QED BY <2>1, <2>4, <4>1
    <3> QED BY <2>8, <3>1, <3>2
  <2> QED BY <2>1, <2>3, <2>8, <2>9, <2>10
<1> HIDE DEF G
<1>8. size \in G
  <2>1. 0..size \subseteq G
    BY <1>1, <1>6, <1>7, UpTo
  <2> QED BY <1>1, <2>1
<1> QED BY <1>3, <1>8 DEF G, size

----------------------------------------------------------------------------
(* The steps.                                                              *)

(* n is m with the slots of C given up or asked for again.                 *)
Renewed(m, n, C) ==
    /\ n.epoch = m.epoch /\ n.ticket >= m.ticket
    /\ \A k \in Keys :
          IF k \in C
          THEN n.slots[k] # None => /\ n.slots[k].status = "pending"
                                    /\ n.slots[k].epoch = n.epoch
                                    /\ n.slots[k].ticket > m.ticket
          ELSE n.slots[k] = m.slots[k]

(* The shown model of a session that stays live changes with a new version. *)
Tells ==
    \A k \in Keys :
       /\ live[k] # None /\ live'[k] # None
       /\ Execution(models, k) # Execution(models', k)
       => models'.version > models.version

(* The fields of the rows, the live entries and the page on its way.       *)
LEMMA Fields ==
    ASSUME Types, NEW k \in Keys
    PROVE  /\ row[k] # None => row[k].incarnation \in Nat /\ row[k].model \in Models \cup {None}
           /\ live[k] # None => live[k].incarnation \in Nat /\ live[k].exists_at \in Nat
           /\ load # None => load \in Page
<1>1. row[k] \in PublishedModel \cup {None} /\ live[k] \in LiveEntry \cup {None}
  BY DEF Types
<1> QED BY <1>1 DEF Types, PublishedModel, LiveEntry

(* The fields of a slot.                                                   *)
LEMMA SlotFields ==
    ASSUME NEW m \in ModelsType, NEW k \in Keys, m.slots[k] # None
    PROVE  m.slots[k].epoch \in Nat /\ m.slots[k].ticket \in Nat
<1>1. m.slots[k] \in Slot \cup {None}
  BY ModelsFields
<1> QED BY <1>1 DEF Slot

(* The requests of a page on its way.                                      *)
LEMMA RequestFields ==
    ASSUME Types, load # None, NEW n \in 1..Len(load.requests)
    PROVE  /\ load.requests[n] \in ModelRequest /\ load.requests[n].key \in Keys
           /\ load.requests[n].ticket \in Nat /\ load.requests[n].epoch \in Nat
<1>1. load.requests \in Seq(ModelRequest)
  BY DEF Types, Page
<1>2. load.requests[n] \in ModelRequest
  BY <1>1
<1> QED BY <1>2 DEF ModelRequest

(* The walk is still in front of every stale slot.                         *)
LEMMA RenewedAhead ==
    ASSUME NEW m, NEW n, NEW C, BroadAhead(m), Renewed(m, n, C), n.broad = m.broad
    PROVE  BroadAhead(n)
BY DEF BroadAhead, Renewed

(* A slot that was not given up is as fresh as before,                     *)
LEMMA RenewedFresh ==
    ASSUME Fresh, NEW C, Renewed(models, models', C), row' = row,
           \A k \in Keys \ C : k \in reports => k \in reports',
           \A k \in Keys \ C : live'[k] # None =>
              live[k] # None /\ live'[k].incarnation = live[k].incarnation
    PROVE  Fresh'
<1> SUFFICES ASSUME NEW k \in Keys,
                    models'.slots[k] # None, models'.slots[k].status = "ready",
                    models'.slots[k].epoch = models'.epoch, Present(k)'
             PROVE  k \in reports' \/ models'.slots[k].model = row'[k].model
  BY DEF Fresh
<1>1. k \notin C
  BY DEF Renewed
<1>2. models'.slots[k] = models.slots[k] /\ models'.epoch = models.epoch
  BY <1>1 DEF Renewed
<1>3. Present(k)
  BY <1>1 DEF Present
<1>4. k \in reports \/ models.slots[k].model = row[k].model
  BY <1>2, <1>3 DEF Fresh
<1> QED BY <1>1, <1>2, <1>4

(* and an answer to a ticket that was given up no longer counts.           *)
LEMMA RenewedLoad ==
    ASSUME Types, Sound(models, Live), models' \in ModelsType,
           FreshLoad, NEW C, Renewed(models, models', C), row' = row, load' = load,
           \A k \in Keys \ C : k \in reports => k \in reports'
    PROVE  FreshLoad'
<1> SUFFICES ASSUME load # None, NEW n \in 1..Len(load.requests)
             PROVE  FreshRow(models, load, n)'
  BY DEF FreshLoad
<1>1. FreshRow(models, load, n)
  BY DEF FreshLoad
<1>2. PICK r : r = load.requests[n]
  OBVIOUS
<1>3. r.key \in Keys /\ r.ticket \in Nat /\ r.epoch \in Nat
  BY <1>2, RequestFields
<1>4. /\ models.ticket \in Nat /\ models'.ticket \in Nat /\ models'.ticket >= models.ticket
      /\ models'.epoch = models.epoch
  BY ModelsFields DEF Sound, Renewed
<1>5. r.ticket <= models.ticket /\ r.epoch <= models.epoch
  BY <1>1, <1>2 DEF FreshRow
<1>6. r.ticket <= models'.ticket /\ r.epoch <= models'.epoch
  BY <1>3, <1>4, <1>5
<1>7. ASSUME load.status = "ok", r.epoch = models'.epoch,
             models'.slots[r.key] # None, models'.slots[r.key].ticket = r.ticket,
             load.rows[r.key] # None, row[r.key] # None,
             row[r.key].incarnation = load.rows[r.key].incarnation
      PROVE  r.key \in reports' \/ load.rows[r.key].model = row[r.key].model
  <2>1. r.key \notin C
    <3> SUFFICES ASSUME r.key \in C PROVE FALSE
      OBVIOUS
    <3>1. models'.slots[r.key].ticket > models.ticket
      BY <1>3, <1>7 DEF Renewed
    <3> QED BY <1>3, <1>4, <1>5, <1>7, <3>1
  <2>2. models'.slots[r.key] = models.slots[r.key]
    BY <1>3, <2>1 DEF Renewed
  <2>3. r.key \in reports \/ load.rows[r.key].model = row[r.key].model
    BY <1>1, <1>2, <1>4, <1>7, <2>2 DEF FreshRow
  <2> QED BY <1>3, <2>1, <2>3
<1> QED BY <1>2, <1>6, <1>7 DEF FreshRow

(* The invariant holds at the start.                                       *)
LEMMA InitInv == Init => Inv
<1> SUFFICES ASSUME Init PROVE Inv
  OBVIOUS
<1>1. Types /\ Incarnations
  <2>1. row \in [Keys -> PublishedModel \cup {None}]
    <3>1. [incarnation |-> 0, model |-> None] \in PublishedModel
      BY DEF PublishedModel
    <3> QED BY <3>1 DEF Init
  <2>2. \A k \in Keys : row[k] # None => row[k].incarnation <= rev
    BY DEF Init
  <2> QED BY <2>1, <2>2 DEF Init, Types, Incarnations
<1>2. PICK S : S = [k \in Keys |-> None]
  OBVIOUS
<1>3. S \in [Keys -> Slot \cup {None}] /\ \A k \in Keys : S[k] = None
  BY <1>2
<1>4. /\ models.epoch = 0 /\ models.ticket = 0 /\ models.version = 0 /\ models.resolved = 0
      /\ models.broad = None /\ models.slots = S /\ models.queue = <<>> /\ models.waiting = {}
  BY <1>2 DEF Init
<1>5. models \in ModelsType
  <2>1. models = [epoch |-> 0, ticket |-> 0, version |-> 0, resolved |-> 0, broad |-> None,
                  slots |-> S, queue |-> <<>>, waiting |-> {}]
    BY <1>2 DEF Init
  <2>2. <<>> \in Seq(Ticket) /\ {} \in SUBSET Ticket /\ None \in Nat \cup {None}
    OBVIOUS
  <2> QED BY <1>3, <2>1, <2>2 DEF ModelsType
<1>6. OneToOne(models.queue) /\ Elements(models.queue) = {}
  BY <1>4 DEF OneToOne, Elements
<1>7. models.resolved = Cardinality(Shown(models))
  <2>1. Shown(models) = {}
    BY <1>3, <1>4 DEF Shown, Execution
  <2> QED BY <1>4, <2>1, FS_EmptySet
<1>8. Live = {}
  BY DEF Live, Init
<1>9. Sound(models, Live)
  BY <1>3, <1>4, <1>5, <1>6, <1>7, <1>8 DEF Sound
<1>10. BroadAhead(models) /\ Fresh
  BY <1>3, <1>4 DEF BroadAhead, Fresh
<1>11. FreshLoad
  BY DEF Init, FreshLoad
<1> QED BY <1>1, <1>9, <1>10, <1>11 DEF Inv

(* A new revision is ahead of every incarnation that was taken.            *)
LEMMA RevisionGrows ==
    ASSUME Types, Incarnations, rev' = rev + 1, live' = live, load' = load,
           \A j \in Keys : row'[j] # None => row'[j].incarnation <= rev'
    PROVE  Incarnations'
<1>1. rev \in Nat
  BY DEF Types
<1>2. \A j \in Keys : live[j] # None => live[j].incarnation <= rev + 1
  <2> SUFFICES ASSUME NEW j \in Keys, live[j] # None PROVE live[j].incarnation <= rev + 1
    OBVIOUS
  <2>1. live[j].incarnation \in Nat /\ live[j].incarnation <= rev
    BY Fields DEF Incarnations
  <2> QED BY <1>1, <2>1
<1>3. load # None => \A j \in Keys : load.rows[j] # None => load.rows[j].incarnation <= rev + 1
  <2> SUFFICES ASSUME load # None, NEW j \in Keys, load.rows[j] # None
               PROVE  load.rows[j].incarnation <= rev + 1
    OBVIOUS
  <2>1. load.rows[j] \in PublishedModel
    BY DEF Types, Page
  <2>2. load.rows[j].incarnation \in Nat /\ load.rows[j].incarnation <= rev
    BY <2>1 DEF Incarnations, PublishedModel
  <2> QED BY <1>1, <2>2
<1> QED BY <1>2, <1>3 DEF Incarnations

(* A publication is not reported yet.                                      *)
LEMMA PublishStep ==
    ASSUME Inv, NEW k \in Keys, Publish(k)
    PROVE  Inv' /\ Tells
<1>1. PICK m \in Models : row' = [row EXCEPT ![k].model = m]
  BY DEF Publish
<1>2. /\ row[k] # None /\ rev' = rev + 1 /\ reports' = reports \cup {k}
      /\ live' = live /\ models' = models /\ load' = load
  BY DEF Publish
<1>3. Types /\ Incarnations /\ Sound(models, Live) /\ BroadAhead(models) /\ Fresh /\ FreshLoad
  BY DEF Inv
<1>4. PICK new : new = [row[k] EXCEPT !.model = m]
  OBVIOUS
<1>5. new \in PublishedModel /\ new.incarnation = row[k].incarnation
  <2>1. row[k] \in PublishedModel
    BY <1>2, <1>3 DEF Types
  <2> QED BY <1>4, <2>1 DEF PublishedModel
<1>6. /\ row' \in [Keys -> PublishedModel \cup {None}] /\ row'[k] = new
      /\ \A j \in Keys : j # k => row'[j] = row[j]
  BY <1>1, <1>3, <1>4, <1>5 DEF Types
<1>7. rev \in Nat /\ new # None
  BY <1>3, <1>5, NoneAssumption DEF Types
<1>8. Types'
  BY <1>2, <1>3, <1>6, <1>7 DEF Types
<1>9. \A j \in Keys : /\ row'[j] # None <=> row[j] # None
                      /\ row'[j] # None => row'[j].incarnation = row[j].incarnation
  BY <1>2, <1>5, <1>6, <1>7
<1>10. Incarnations'
  <2>1. \A j \in Keys : row'[j] # None => row'[j].incarnation <= rev'
    <3> SUFFICES ASSUME NEW j \in Keys, row'[j] # None PROVE row'[j].incarnation <= rev'
      OBVIOUS
    <3>1. row[j].incarnation \in Nat /\ row[j].incarnation <= rev
      BY <1>3, <1>9, Fields DEF Incarnations
    <3> QED BY <1>2, <1>7, <1>9, <3>1
  <2> QED BY <1>2, <1>3, <2>1, RevisionGrows
<1>11. Fresh'
  BY <1>2, <1>3, <1>6, <1>9 DEF Fresh, Present
<1>12. FreshLoad'
  <2> SUFFICES ASSUME load # None, NEW n \in 1..Len(load.requests)
               PROVE  FreshRow(models, load, n)'
    BY <1>2 DEF FreshLoad
  <2>1. FreshRow(models, load, n)
    BY <1>3 DEF FreshLoad
  <2>2. load.requests[n].key \in Keys
    BY <1>3, RequestFields
  <2> QED BY <1>2, <1>6, <1>9, <2>1, <2>2 DEF FreshRow
<1>13. Sound(models', Live') /\ BroadAhead(models') /\ Tells
  BY <1>2, <1>3 DEF Live, Tells
<1> QED BY <1>8, <1>10, <1>11, <1>12, <1>13 DEF Inv

(* A recreated row has an incarnation of its own.                          *)
LEMMA RecreateStep ==
    ASSUME Inv, NEW k \in Keys, Recreate(k)
    PROVE  Inv' /\ Tells
<1>1. /\ rev' = rev + 1 /\ reports' = reports /\ live' = live /\ models' = models /\ load' = load
  BY DEF Recreate
<1>2. Types /\ Incarnations /\ Sound(models, Live) /\ BroadAhead(models) /\ Fresh /\ FreshLoad
  BY DEF Inv
<1>3. PICK new : new = IF row[k] # None THEN None ELSE [incarnation |-> rev', model |-> None]
  OBVIOUS
<1>4. rev \in Nat /\ rev' \in Nat
  BY <1>1, <1>2 DEF Types
<1>5. new \in PublishedModel \cup {None} /\ (new # None => new.incarnation = rev + 1)
  BY <1>1, <1>3, <1>4 DEF PublishedModel
<1>6. /\ row' \in [Keys -> PublishedModel \cup {None}] /\ row'[k] = new
      /\ \A j \in Keys : j # k => row'[j] = row[j]
  BY <1>2, <1>3, <1>5 DEF Types, Recreate
<1>7. Types'
  BY <1>1, <1>2, <1>4, <1>6 DEF Types
<1>8. Incarnations'
  <2>1. \A j \in Keys : row'[j] # None => row'[j].incarnation <= rev'
    <3> SUFFICES ASSUME NEW j \in Keys, row'[j] # None PROVE row'[j].incarnation <= rev'
      OBVIOUS
    <3>1. CASE j = k
      BY <1>1, <1>4, <1>5, <1>6, <3>1
    <3>2. CASE j # k
      <4>1. row[j].incarnation \in Nat /\ row[j].incarnation <= rev
        BY <1>2, <1>6, <3>2, Fields DEF Incarnations
      <4> QED BY <1>1, <1>4, <1>6, <3>2, <4>1
    <3> QED BY <3>1, <3>2
  <2> QED BY <1>1, <1>2, <2>1, RevisionGrows
<1>9. Fresh'
  <2> SUFFICES ASSUME NEW j \in Keys,
                      models.slots[j] # None, models.slots[j].status = "ready",
                      models.slots[j].epoch = models.epoch, Present(j)'
               PROVE  j \in reports \/ models.slots[j].model = row'[j].model
    BY <1>1 DEF Fresh
  <2>1. live[j] # None /\ row'[j] # None /\ row'[j].incarnation = live[j].incarnation
    BY <1>1 DEF Present
  <2>2. live[j].incarnation \in Nat /\ live[j].incarnation <= rev
    BY <1>2, <2>1, Fields DEF Incarnations
  <2>3. j # k
    BY <1>4, <1>5, <1>6, <2>1, <2>2
  <2> QED BY <1>2, <1>6, <2>1, <2>3 DEF Fresh, Present
<1>10. FreshLoad'
  <2> SUFFICES ASSUME load # None, NEW n \in 1..Len(load.requests)
               PROVE  FreshRow(models, load, n)'
    BY <1>1 DEF FreshLoad
  <2>1. FreshRow(models, load, n)
    BY <1>2 DEF FreshLoad
  <2>2. PICK r : r = load.requests[n]
    OBVIOUS
  <2>3. r.key \in Keys
    BY <1>2, <2>2, RequestFields
  <2>4. ASSUME load.rows[r.key] # None, row'[r.key] # None,
               row'[r.key].incarnation = load.rows[r.key].incarnation
        PROVE  row'[r.key] = row[r.key]
    <3>1. load.rows[r.key] \in PublishedModel
      BY <1>2, <2>3, <2>4 DEF Types, Page
    <3>2. load.rows[r.key].incarnation \in Nat /\ load.rows[r.key].incarnation <= rev
      BY <1>2, <2>3, <2>4, <3>1 DEF Incarnations, PublishedModel
    <3>3. r.key # k
      BY <1>4, <1>5, <1>6, <2>4, <3>2
    <3> QED BY <1>6, <2>3, <3>3
  <2> QED BY <1>1, <2>1, <2>2, <2>4 DEF FreshRow
<1>11. Sound(models', Live') /\ BroadAhead(models') /\ Tells
  BY <1>1, <1>2 DEF Live, Tells
<1> QED BY <1>7, <1>8, <1>9, <1>10, <1>11 DEF Inv

(* Only the session k moves between m and n.                               *)
MovesOne(m, n, k) ==
    /\ Renewed(m, n, {k}) /\ n.broad = m.broad
    /\ \A j \in Keys : j # k => Execution(n, j) = Execution(m, j)

(* Forgetting a session gives its slot up,                                 *)
LEMMA ForgetRenews ==
    ASSUME NEW L, NEW m, Sound(m, L), NEW k \in Keys, NEW n, n = Forget(m, k)
    PROVE  Sound(n, L \ {k}) /\ MovesOne(m, n, k)
<1>1. /\ Sound(n, L \ {k})
      /\ n.epoch = m.epoch /\ n.ticket = m.ticket /\ n.version = m.version
      /\ n.broad = m.broad /\ n.slots = [m.slots EXCEPT ![k] = None]
  <2>1. Sound(n, L \ {k}) /\ Forgotten(m, k, n)
    BY ForgetIs
  <2> QED BY <2>1 DEF Forgotten
<1>2. m \in ModelsType
  BY DEF Sound
<1>3. m.ticket \in Nat /\ m.slots \in [Keys -> Slot \cup {None}]
  BY <1>2, ModelsFields
<1>4. n.slots[k] = None /\ \A j \in Keys : j # k => n.slots[j] = m.slots[j]
  BY <1>1, <1>3
<1>5. Renewed(m, n, {k})
  BY <1>1, <1>3, <1>4 DEF Renewed
<1>6. \A j \in Keys : j # k => Execution(n, j) = Execution(m, j)
  BY <1>1, <1>4 DEF Execution
<1> QED BY <1>1, <1>5, <1>6 DEF MovesOne

(* and so does invalidating it.                                            *)
LEMMA InvalidateRenews ==
    ASSUME NEW L, NEW m, Sound(m, L), NEW k \in Keys, NEW n, n = Invalidate(m, k)
    PROVE  /\ Sound(n, L \cup {k}) /\ MovesOne(m, n, k)
           /\ Execution(n, k) # Execution(m, k) => n.version > m.version
<1>1. Sound(n, L \cup {k}) /\ Invalidated(m, k, n)
  BY InvalidateIs
<1>2. m \in ModelsType
  BY DEF Sound
<1>3. m.ticket \in Nat /\ m.version \in Nat
  BY <1>2, ModelsFields
<1>4. Renewed(m, n, {k}) /\ n.broad = m.broad
  BY <1>1, <1>3 DEF Renewed, Invalidated
<1>5. ASSUME NEW j \in Keys, Execution(n, j) # Execution(m, j)
      PROVE  j = k /\ n.version > m.version
  <2>1. j = k
    BY <1>1, <1>5 DEF Invalidated, Execution
  <2>2. Execution(n, k) = None
    BY <1>1 DEF Invalidated, Execution
  <2>3. Execution(m, k) # None
    BY <1>5, <2>1, <2>2
  <2> QED BY <1>1, <1>3, <2>1, <2>3 DEF Invalidated
<1> QED BY <1>1, <1>4, <1>5 DEF MovesOne

(* Giving a slot up twice gives it up.                                     *)
LEMMA RenewedTwice ==
    ASSUME NEW m \in ModelsType, NEW f \in ModelsType, NEW n \in ModelsType, NEW k \in Keys,
           Renewed(m, f, {k}), Renewed(f, n, {k})
    PROVE  Renewed(m, n, {k})
<1>1. m.ticket \in Nat /\ f.ticket \in Nat /\ n.ticket \in Nat
  BY ModelsFields
<1>2. n.ticket >= m.ticket /\ n.epoch = m.epoch
  BY <1>1 DEF Renewed
<1>3. \A j \in Keys : j # k => n.slots[j] = m.slots[j]
  BY DEF Renewed
<1>4. n.slots[k] # None => n.slots[k].ticket > m.ticket
  <2> SUFFICES ASSUME n.slots[k] # None PROVE n.slots[k].ticket > m.ticket
    OBVIOUS
  <2>1. n.slots[k].ticket \in Nat
    BY SlotFields
  <2>2. n.slots[k].ticket > f.ticket /\ f.ticket >= m.ticket
    BY DEF Renewed
  <2> QED BY <1>1, <2>1, <2>2
<1> QED BY <1>2, <1>3, <1>4 DEF Renewed

(* A session that enters waits for its first answer.                       *)
LEMMA EnterStep ==
    ASSUME Inv, NEW k \in Keys, Enter(k)
    PROVE  Inv' /\ Tells
<1>1. /\ live[k] = None /\ row[k] # None
      /\ live' = [live EXCEPT ![k] = [incarnation |-> row[k].incarnation, exists_at |-> rev]]
      /\ models' = Invalidate(Forget(models, k), k)
      /\ row' = row /\ rev' = rev /\ reports' = reports /\ load' = load
  BY DEF Enter
<1>2. Types /\ Incarnations /\ Sound(models, Live) /\ BroadAhead(models) /\ Fresh /\ FreshLoad
  BY DEF Inv
<1>3. PICK f : f = Forget(models, k)
  OBVIOUS
<1>4. PICK n : n = models'
  OBVIOUS
<1>5. n = Invalidate(f, k)
  BY <1>1, <1>3, <1>4
<1>6. Sound(f, Live \ {k}) /\ MovesOne(models, f, k)
  BY <1>2, <1>3, ForgetRenews
<1>7. Sound(n, (Live \ {k}) \cup {k}) /\ MovesOne(f, n, k)
  BY <1>5, <1>6, InvalidateRenews
<1>8. models \in ModelsType /\ f \in ModelsType /\ n \in ModelsType
  BY <1>2, <1>6, <1>7 DEF Sound
<1>9. Renewed(models, n, {k})
  BY <1>6, <1>7, <1>8, RenewedTwice DEF MovesOne
<1>10. PICK e : e = [incarnation |-> row[k].incarnation, exists_at |-> rev]
  OBVIOUS
<1>11. e \in LiveEntry /\ e.incarnation = row[k].incarnation /\ e # None
  <2>1. row[k].incarnation \in Nat /\ rev \in Nat
    BY <1>1, <1>2, Fields DEF Types
  <2>2. e \in LiveEntry /\ e.incarnation = row[k].incarnation
    BY <1>10, <2>1 DEF LiveEntry
  <2> QED BY <2>2, NoneAssumption
<1>12. /\ live' \in [Keys -> LiveEntry \cup {None}] /\ live'[k] = e
       /\ \A j \in Keys : j # k => live'[j] = live[j]
  BY <1>1, <1>2, <1>10, <1>11 DEF Types
<1>13. Live' = (Live \ {k}) \cup {k}
  BY <1>11, <1>12 DEF Live
<1>14. Types' /\ Incarnations'
  BY <1>1, <1>2, <1>11, <1>12 DEF Types, Incarnations
<1>15. Sound(models', Live') /\ BroadAhead(models')
  <2>1. BroadAhead(n)
    BY <1>2, <1>6, <1>7, <1>9, RenewedAhead DEF MovesOne
  <2> QED BY <1>4, <1>7, <1>13, <2>1
<1>16. Fresh'
  BY <1>1, <1>2, <1>4, <1>9, <1>12, RenewedFresh
<1>17. FreshLoad'
  BY <1>1, <1>2, <1>4, <1>8, <1>9, RenewedLoad
<1>18. Tells
  BY <1>1, <1>4, <1>6, <1>7 DEF Tells, MovesOne
<1> QED BY <1>14, <1>15, <1>16, <1>17, <1>18 DEF Inv

(* A later fact of a live session keeps its incarnation.                   *)
LEMMA AdvanceStep ==
    ASSUME Inv, NEW k \in Keys, Advance(k)
    PROVE  Inv' /\ Tells
<1>1. /\ live[k] # None /\ live' = [live EXCEPT ![k].exists_at = rev]
      /\ row' = row /\ rev' = rev /\ reports' = reports /\ models' = models /\ load' = load
  BY DEF Advance
<1>2. Types /\ Incarnations /\ Sound(models, Live) /\ BroadAhead(models) /\ Fresh /\ FreshLoad
  BY DEF Inv
<1>3. PICK e : e = [live[k] EXCEPT !.exists_at = rev]
  OBVIOUS
<1>4. e \in LiveEntry /\ e.incarnation = live[k].incarnation
  <2>1. live[k] \in LiveEntry /\ rev \in Nat
    BY <1>1, <1>2 DEF Types
  <2> QED BY <1>3, <2>1 DEF LiveEntry
<1>5. e # None
  BY <1>4, NoneAssumption
<1>6. /\ live' \in [Keys -> LiveEntry \cup {None}] /\ live'[k] = e
      /\ \A j \in Keys : j # k => live'[j] = live[j]
  BY <1>1, <1>2, <1>3, <1>4 DEF Types
<1>7. \A j \in Keys : /\ live'[j] # None <=> live[j] # None
                      /\ live'[j] # None => live'[j].incarnation = live[j].incarnation
  BY <1>1, <1>4, <1>5, <1>6
<1>8. Types' /\ Incarnations'
  BY <1>1, <1>2, <1>6, <1>7 DEF Types, Incarnations
<1>9. Live' = Live
  BY <1>7 DEF Live
<1>10. Fresh'
  BY <1>1, <1>2, <1>7 DEF Fresh, Present
<1>11. FreshLoad'
  BY <1>1, <1>2 DEF FreshLoad, FreshRow
<1> QED BY <1>1, <1>2, <1>8, <1>9, <1>10, <1>11 DEF Inv, Tells

(* A session that leaves takes its slot with it.                           *)
LEMMA LeaveStep ==
    ASSUME Inv, NEW k \in Keys, Leave(k)
    PROVE  Inv' /\ Tells
<1>1. /\ live' = [live EXCEPT ![k] = None] /\ models' = Forget(models, k)
      /\ row' = row /\ rev' = rev /\ reports' = reports /\ load' = load
  BY DEF Leave
<1>2. Types /\ Incarnations /\ Sound(models, Live) /\ BroadAhead(models) /\ Fresh /\ FreshLoad
  BY DEF Inv
<1>3. PICK n : n = models'
  OBVIOUS
<1>4. n = Forget(models, k)
  BY <1>1, <1>3
<1>5. Sound(n, Live \ {k}) /\ MovesOne(models, n, k)
  BY <1>2, <1>4, ForgetRenews
<1>6. /\ live' \in [Keys -> LiveEntry \cup {None}] /\ live'[k] = None
      /\ \A j \in Keys : j # k => live'[j] = live[j]
  BY <1>1, <1>2 DEF Types
<1>7. Live' = Live \ {k}
  BY <1>6 DEF Live
<1>8. Types' /\ Incarnations'
  BY <1>1, <1>2, <1>6 DEF Types, Incarnations
<1>9. Sound(models', Live') /\ BroadAhead(models')
  <2>1. BroadAhead(n)
    BY <1>2, <1>5, RenewedAhead DEF MovesOne
  <2> QED BY <1>3, <1>5, <1>7, <2>1
<1>10. Fresh'
  BY <1>1, <1>2, <1>3, <1>5, <1>6, RenewedFresh DEF MovesOne
<1>11. FreshLoad'
  <2>1. models' \in ModelsType
    BY <1>9 DEF Sound
  <2> QED BY <1>1, <1>2, <1>3, <1>5, <2>1, RenewedLoad DEF MovesOne
<1>12. Tells
  BY <1>3, <1>5, <1>6 DEF Tells, MovesOne
<1> QED BY <1>8, <1>9, <1>10, <1>11, <1>12 DEF Inv


(* A reported change asks again for the model of a live session.           *)
LEMMA RowChangedStep ==
    ASSUME Inv, NEW k \in Keys, RowChanged(k)
    PROVE  Inv' /\ Tells
<1>1. /\ reports' = reports \ {k}
      /\ models' = IF live[k] # None THEN Invalidate(models, k) ELSE models
      /\ row' = row /\ rev' = rev /\ live' = live /\ load' = load
  BY DEF RowChanged
<1>2. Types /\ Incarnations /\ Sound(models, Live) /\ BroadAhead(models) /\ Fresh /\ FreshLoad
  BY DEF Inv
<1>3. PICK n : n = models'
  OBVIOUS
<1>4. /\ Sound(n, Live) /\ MovesOne(models, n, k)
      /\ live[k] # None /\ Execution(n, k) # Execution(models, k) => n.version > models.version
  <2>1. CASE live[k] # None
    <3>1. n = Invalidate(models, k)
      BY <1>1, <1>3, <2>1
    <3>2. Live \cup {k} = Live
      BY <2>1 DEF Live
    <3> QED BY <1>2, <3>1, <3>2, InvalidateRenews
  <2>2. CASE live[k] = None
    <3>1. n = models
      BY <1>1, <1>3, <2>2
    <3>2. models.slots[k] = None
      BY <1>2, <2>2 DEF Sound, Live
    <3>3. models.ticket \in Nat
      BY <1>2, ModelsFields DEF Sound
    <3> QED BY <1>2, <2>2, <3>1, <3>2, <3>3 DEF MovesOne, Renewed
  <2> QED BY <2>1, <2>2
<1>5. Live' = Live
  BY <1>1 DEF Live
<1>6. Types' /\ Incarnations'
  BY <1>1, <1>2 DEF Types, Incarnations
<1>7. Sound(models', Live') /\ BroadAhead(models')
  <2>1. BroadAhead(n)
    BY <1>2, <1>4, RenewedAhead DEF MovesOne
  <2> QED BY <1>3, <1>4, <1>5, <2>1
<1>8. Fresh'
  BY <1>1, <1>2, <1>3, <1>4, RenewedFresh DEF MovesOne
<1>9. FreshLoad'
  <2>1. models' \in ModelsType
    BY <1>7 DEF Sound
  <2> QED BY <1>1, <1>2, <1>3, <1>4, <2>1, RenewedLoad DEF MovesOne
<1>10. Tells
  BY <1>1, <1>3, <1>4 DEF Tells, MovesOne
<1> QED BY <1>6, <1>7, <1>8, <1>9, <1>10 DEF Inv

(* A broad invalidation outdates every slot and every page on its way.     *)
LEMMA BroadStep ==
    ASSUME Inv, NEW R, Broad(R)
    PROVE  Inv' /\ Tells
<1>1. /\ reports' = reports \ R /\ models' = InvalidateAll(models)
      /\ row' = row /\ rev' = rev /\ live' = live /\ load' = load
  BY DEF Broad
<1>2. Types /\ Incarnations /\ Sound(models, Live) /\ BroadAhead(models) /\ Fresh /\ FreshLoad
  BY DEF Inv
<1>3. PICK n : n = models'
  OBVIOUS
<1>4. n = InvalidateAll(models)
  BY <1>1, <1>3
<1>5. /\ Sound(n, Live)
      /\ n.epoch = models.epoch + 1 /\ n.ticket = models.ticket /\ n.broad = 0
      /\ n.slots = models.slots
      /\ Shown(n) = {} /\ (Shown(models) # {} => n.version > models.version)
  BY <1>2, <1>4, InvalidateAllIs
<1>6. models \in ModelsType /\ models.epoch \in Nat /\ models.ticket \in Nat
  BY <1>2, ModelsFields DEF Sound
<1>7. \A k \in Keys : n.slots[k] # None => n.slots[k].epoch # n.epoch
  <2> SUFFICES ASSUME NEW k \in Keys, n.slots[k] # None PROVE n.slots[k].epoch # n.epoch
    OBVIOUS
  <2>1. models.slots[k].epoch \in Nat
    BY <1>5, <1>6, SlotFields
  <2>2. models.slots[k].epoch <= models.epoch
    BY <1>2, <1>5 DEF Sound
  <2> QED BY <1>5, <1>6, <2>1, <2>2
<1>8. Live' = Live
  BY <1>1 DEF Live
<1>9. Types' /\ Incarnations'
  BY <1>1, <1>2 DEF Types, Incarnations
<1>10. BroadAhead(models')
  <2>1. \A k \in Keys : 0 # None /\ k > 0
    BY NoneIs DEF Keys
  <2> QED BY <1>3, <1>5, <2>1 DEF BroadAhead
<1>11. Fresh'
  BY <1>3, <1>7 DEF Fresh
<1>12. FreshLoad'
  <2> SUFFICES ASSUME load # None, NEW i \in 1..Len(load.requests)
               PROVE  FreshRow(models, load, i)'
    BY <1>1 DEF FreshLoad
  <2>1. PICK r : r = load.requests[i]
    OBVIOUS
  <2>2. r.ticket \in Nat /\ r.epoch \in Nat
    BY <1>2, <2>1, RequestFields
  <2>3. r.ticket <= models.ticket /\ r.epoch <= models.epoch
    BY <1>2, <2>1 DEF FreshLoad, FreshRow
  <2>4. r.ticket <= n.ticket /\ r.epoch <= n.epoch /\ r.epoch # n.epoch
    BY <1>5, <1>6, <2>2, <2>3
  <2> QED BY <1>1, <1>3, <2>1, <2>4 DEF FreshRow
<1>13. Tells
  <2> SUFFICES ASSUME NEW k \in Keys, Execution(models, k) # Execution(models', k)
               PROVE  models'.version > models.version
    BY DEF Tells
  <2>1. k \notin Shown(n)
    BY <1>5
  <2>2. Execution(n, k) = None
    BY <2>1 DEF Shown
  <2>3. k \in Shown(models)
    BY <1>3, <2>2 DEF Shown
  <2> QED BY <1>3, <1>5, <2>3
<1> QED BY <1>3, <1>5, <1>8, <1>9, <1>10, <1>11, <1>12, <1>13 DEF Inv

(* A page of the walk, and the requests it gives to the store.             *)
LEMMA SelectPageStep ==
    ASSUME Inv, SelectPage
    PROVE  Inv' /\ Tells
<1>1. PICK m : m = AdvanceBroad(models)
  OBVIOUS
<1>2. PICK s : s = Requests(m)
  OBVIOUS
<1>3. /\ load = None /\ models' = m
      /\ row' = row /\ rev' = rev /\ live' = live /\ reports' = reports
      /\ load' = IF s = <<>> THEN None
                 ELSE [requests |-> s, status |-> "reading", revision |-> 0,
                       rows |-> [k \in Keys |-> None]]
  BY <1>1, <1>2 DEF SelectPage
<1>4. Types /\ Incarnations /\ Sound(models, Live) /\ BroadAhead(models) /\ Fresh
  BY DEF Inv
<1>5. /\ Sound(m, Live) /\ BroadAhead(m)
      /\ m.epoch = models.epoch /\ m.ticket >= models.ticket
  BY <1>1, <1>4, AdvanceBroadIs
<1>6. Walked(models, m)
  BY <1>1, <1>4, AdvanceBroadIs
<1>7. s \in Seq(ModelRequest) /\ Given(m, s)
  BY <1>2, <1>4, <1>5, RequestsAre
<1>8. PICK rows : rows = [k \in Keys |-> None]
  OBVIOUS
<1>9. rows \in [Keys -> PublishedModel \cup {None}] /\ \A k \in Keys : rows[k] = None
  BY <1>8
<1>10. PICK page : page = [requests |-> s, status |-> "reading", revision |-> 0, rows |-> rows]
  OBVIOUS
<1>11. /\ page \in Page /\ page.requests = s /\ page.status = "reading" /\ page.rows = rows
  BY <1>7, <1>9, <1>10 DEF Page
<1>12. load' = None \/ load' = page
  BY <1>3, <1>8, <1>10
<1>13. Types'
  BY <1>3, <1>4, <1>11, <1>12 DEF Types
<1>14. Incarnations'
  BY <1>3, <1>4, <1>9, <1>11, <1>12 DEF Incarnations
<1>15. Live' = Live
  BY <1>3 DEF Live
<1>16. Renewed(models, m, {k \in Keys : m.slots[k] # models.slots[k]})
  BY <1>5, <1>6 DEF Renewed, Walked
<1>17. Fresh'
  BY <1>3, <1>4, <1>16, RenewedFresh
<1>18. FreshLoad'
  <2>1. CASE load' = None
    BY <2>1 DEF FreshLoad
  <2>2. CASE load' = page
    <3>1. \A i \in 1..Len(s) : s[i].ticket <= m.ticket /\ s[i].epoch <= m.epoch
      BY <1>7 DEF Given
    <3> QED BY <1>3, <1>11, <2>2, <3>1 DEF FreshLoad, FreshRow
  <2> QED BY <1>12, <2>1, <2>2
<1>19. Tells
  <2>1. \A k \in Keys : Execution(m, k) = Execution(models, k)
    BY <1>5, <1>6 DEF Execution, Walked
  <2> QED BY <1>3, <2>1 DEF Tells
<1> QED BY <1>3, <1>5, <1>13, <1>14, <1>15, <1>17, <1>18, <1>19 DEF Inv

(* What a page reads is the row as it is.                                  *)
LEMMA ReadModelsStep ==
    ASSUME Inv, ReadModels
    PROVE  Inv' /\ Tells
<1>1. PICK rows : rows = [k \in Keys |->
                            IF \E n \in 1..Len(load.requests) : load.requests[n].key = k
                            THEN row[k] ELSE None]
  OBVIOUS
<1>2. /\ load # None
      /\ load' = [load EXCEPT !.status = "ok", !.revision = rev, !.rows = rows]
      /\ row' = row /\ rev' = rev /\ live' = live /\ reports' = reports /\ models' = models
  BY <1>1 DEF ReadModels
<1>3. Types /\ Incarnations /\ Sound(models, Live) /\ BroadAhead(models) /\ Fresh /\ FreshLoad
  BY DEF Inv
<1>4. \A k \in Keys : rows[k] = row[k] \/ rows[k] = None
  BY <1>1
<1>5. rows \in [Keys -> PublishedModel \cup {None}]
  BY <1>1, <1>3 DEF Types
<1>6. /\ load' \in Page /\ load'.requests = load.requests /\ load'.status = "ok"
      /\ load'.rows = rows
  <2>1. load \in Page /\ rev \in Nat
    BY <1>2, <1>3 DEF Types
  <2> QED BY <1>2, <1>5, <2>1 DEF Page
<1>7. Types' /\ Incarnations'
  <2>1. load' # None
    BY <1>6, NoneAssumption
  <2> QED BY <1>2, <1>3, <1>4, <1>6, <2>1 DEF Types, Incarnations
<1>8. Live' = Live
  BY <1>2 DEF Live
<1>9. FreshLoad'
  <2> SUFFICES ASSUME NEW i \in 1..Len(load.requests)
               PROVE  FreshRow(models, load, i)'
    BY <1>6 DEF FreshLoad
  <2>1. FreshRow(models, load, i)
    BY <1>2, <1>3 DEF FreshLoad
  <2>2. load.requests[i].key \in Keys
    BY <1>2, <1>3, RequestFields
  <2> QED BY <1>2, <1>4, <1>6, <2>1, <2>2 DEF FreshRow
<1>10. Fresh'
  BY <1>2, <1>3 DEF Fresh, Present
<1> QED BY <1>2, <1>3, <1>7, <1>8, <1>9, <1>10 DEF Inv, Tells

(* A read that fails brings nothing.                                       *)
LEMMA FailReadStep ==
    ASSUME Inv, FailRead
    PROVE  Inv' /\ Tells
<1>1. /\ load # None /\ load' = [load EXCEPT !.status = "failed"]
      /\ row' = row /\ rev' = rev /\ live' = live /\ reports' = reports /\ models' = models
  BY DEF FailRead
<1>2. Types /\ Incarnations /\ Sound(models, Live) /\ BroadAhead(models) /\ Fresh /\ FreshLoad
  BY DEF Inv
<1>3. /\ load' \in Page /\ load'.requests = load.requests /\ load'.status = "failed"
      /\ load'.rows = load.rows
  <2>1. load \in Page
    BY <1>1, <1>2 DEF Types
  <2> QED BY <1>1, <2>1 DEF Page
<1>4. Types' /\ Incarnations'
  BY <1>1, <1>2, <1>3 DEF Types, Incarnations
<1>5. Live' = Live
  BY <1>1 DEF Live
<1>6. FreshLoad'
  BY <1>1, <1>2, <1>3 DEF FreshLoad, FreshRow
<1>7. Fresh'
  BY <1>1, <1>2 DEF Fresh, Present
<1> QED BY <1>1, <1>2, <1>4, <1>5, <1>6, <1>7 DEF Inv, Tells

(* A reply fills only slots that still wait for what it read.              *)
LEMMA ApplyReplyStep ==
    ASSUME Inv, ApplyReply
    PROVE  Inv' /\ Tells
<1>1. /\ load # None /\ models' = ApplyModels(models, load) /\ load' = None
      /\ row' = row /\ rev' = rev /\ live' = live /\ reports' = reports
  BY DEF ApplyReply
<1>2. Types /\ Incarnations /\ Sound(models, Live) /\ BroadAhead(models) /\ Fresh /\ FreshLoad
  BY DEF Inv
<1>3. PICK n : n = models'
  OBVIOUS
<1>4. load \in Page
  BY <1>1, <1>2 DEF Types
<1>5. /\ Sound(n, Live) /\ Applied(models, n)
      /\ Took(models, n, load, Len(load.requests))
  BY <1>1, <1>2, <1>3, <1>4, ApplyModelsIs
<1>6. Types' /\ Incarnations'
  BY <1>1, <1>2 DEF Types, Incarnations
<1>7. Live' = Live
  BY <1>1 DEF Live
<1>8. BroadAhead(n)
  BY <1>2, <1>5 DEF BroadAhead, Applied
<1>9. Fresh'
  <2> SUFFICES ASSUME NEW k \in Keys,
                      n.slots[k] # None, n.slots[k].status = "ready",
                      n.slots[k].epoch = n.epoch, Present(k)
               PROVE  k \in reports \/ n.slots[k].model = row[k].model
    BY <1>1, <1>3 DEF Fresh, Present
  <2>1. CASE n.slots[k] = models.slots[k]
    <3>1. n.epoch = models.epoch
      BY <1>5 DEF Applied
    <3> QED BY <1>2, <2>1, <3>1 DEF Fresh
  <2>2. CASE \E i \in 1..Len(load.requests) : Filled(models, n, load, load.requests[i], k)
    <3>1. PICK i \in 1..Len(load.requests) : Filled(models, n, load, load.requests[i], k)
      BY <2>2
    <3>2. FreshRow(models, load, i)
      BY <1>1, <1>2 DEF FreshLoad
    <3> QED BY <3>1, <3>2 DEF Filled, FreshRow, Present
  <2> QED BY <1>5, <2>1, <2>2 DEF Took
<1>10. FreshLoad'
  BY <1>1 DEF FreshLoad
<1>11. Tells
  BY <1>3, <1>5 DEF Tells, Applied
<1> QED BY <1>3, <1>5, <1>6, <1>7, <1>8, <1>9, <1>10, <1>11 DEF Inv

(* A retry falls due.                                                      *)
LEMMA BackoffStep ==
    ASSUME Inv, BackoffElapses
    PROVE  Inv' /\ Tells
<1>1. PICK q \in models.waiting :
         models' = [models EXCEPT !.waiting = @ \ {q}, !.queue = Append(@, q)]
  BY DEF BackoffElapses
<1>2. row' = row /\ rev' = rev /\ live' = live /\ reports' = reports /\ load' = load
  BY DEF BackoffElapses
<1>3. Types /\ Incarnations /\ Sound(models, Live) /\ BroadAhead(models) /\ Fresh /\ FreshLoad
  BY DEF Inv
<1>4. PICK n : n = models'
  OBVIOUS
<1>5. n = DueAgain(models, q)
  BY <1>1, <1>4 DEF DueAgain
<1>6. /\ Sound(n, Live) /\ n.epoch = models.epoch /\ n.ticket = models.ticket
      /\ n.broad = models.broad /\ n.slots = models.slots
  BY <1>3, <1>5, BackoffIs
<1>7. Live' = Live /\ Types' /\ Incarnations'
  BY <1>2, <1>3 DEF Live, Types, Incarnations
<1>8. BroadAhead(n)
  BY <1>3, <1>6 DEF BroadAhead
<1>9. Fresh'
  BY <1>2, <1>3, <1>4, <1>6 DEF Fresh, Present
<1>10. FreshLoad'
  BY <1>2, <1>3, <1>4, <1>6 DEF FreshLoad, FreshRow
<1>11. Tells
  BY <1>4, <1>6 DEF Tells, Execution
<1> QED BY <1>4, <1>6, <1>7, <1>8, <1>9, <1>10, <1>11 DEF Inv

----------------------------------------------------------------------------
(* The theorems.                                                           *)

(* Every step keeps the invariant and tells of what it changes.            *)
LEMMA NextInv == Inv /\ [Next]_vars => Inv' /\ Tells
<1> SUFFICES ASSUME Inv, [Next]_vars PROVE Inv' /\ Tells
  OBVIOUS
<1>1. CASE UNCHANGED vars
  <2>1. /\ row' = row /\ rev' = rev /\ reports' = reports /\ live' = live
        /\ models' = models /\ load' = load
    BY <1>1 DEF vars
  <2>2. Types' /\ Incarnations' /\ Sound(models', Live') /\ BroadAhead(models')
    BY <2>1 DEF Inv, Types, Incarnations, Live
  <2>3. Fresh' /\ FreshLoad'
    BY <2>1 DEF Inv, Fresh, Present, FreshLoad, FreshRow
  <2> QED BY <2>1, <2>2, <2>3 DEF Inv, Tells
<1>2. ASSUME NEW k \in Keys, Publish(k) \/ Recreate(k) PROVE Inv' /\ Tells
  BY <1>2, PublishStep, RecreateStep
<1>3. ASSUME NEW k \in Keys, Enter(k) \/ Advance(k) \/ Leave(k) \/ RowChanged(k)
      PROVE  Inv' /\ Tells
  BY <1>3, EnterStep, AdvanceStep, LeaveStep, RowChangedStep
<1>4. ASSUME NEW R \in SUBSET reports, Broad(R) PROVE Inv' /\ Tells
  BY <1>4, BroadStep
<1>5. CASE SelectPage \/ ReadModels \/ FailRead \/ ApplyReply \/ BackoffElapses
  BY <1>5, SelectPageStep, ReadModelsStep, FailReadStep, ApplyReplyStep, BackoffStep
<1> QED BY <1>1, <1>2, <1>3, <1>4, <1>5 DEF Next

(* so it holds in every state the program can be in.                       *)
THEOREM InvAlways == Spec => []Inv
<1>1. Inv /\ [Next]_vars => Inv'
  BY NextInv
<1> QED BY InitInv, <1>1, PTL DEF Spec

(* The due and the waiting tickets are as many as the slots they are for.  *)
LEMMA TicketsCounted ==
    ASSUME NEW L, NEW m, Sound(m, L)
    PROVE  Len(m.queue) + Cardinality(m.waiting)
             = Cardinality(Elements(m.queue) \cup m.waiting)
<1>1. m \in ModelsType
  BY DEF Sound
<1>2. PICK s : s = m.queue
  OBVIOUS
<1>3. s \in Seq(Ticket) /\ OneToOne(s)
  BY <1>1, <1>2, ModelsFields DEF Sound
<1>4. IsFiniteSet(Elements(s)) /\ Cardinality(Elements(s)) = Len(s)
  BY <1>3, LengthIsCount
<1>5. IsFiniteSet(m.waiting)
  <2>1. PICK on : on = {q.key : q \in m.waiting}
    OBVIOUS
  <2>2. on \in SUBSET Keys
    BY <1>1, <2>1, QueueKeys
  <2>3. PICK all : all = {TicketOf(m, k) : k \in on}
    OBVIOUS
  <2>4. IsFiniteSet(on)
    BY <2>2, KeysFinite
  <2>5. IsFiniteSet(all)
    <3>1. PICK f : f = [k \in on |-> TicketOf(m, k)]
      OBVIOUS
    <3>2. f \in Surjection(on, all)
      BY <2>3, <3>1 DEF Surjection
    <3> QED BY <2>4, <3>2, FS_Surjection
  <2>6. m.waiting \subseteq all
    BY <2>1, <2>3 DEF Sound
  <2> QED BY <2>5, <2>6, FS_Subset
<1>6. Elements(s) \cap m.waiting = {}
  BY <1>2 DEF Sound
<1>7. PICK W : W = m.waiting
  OBVIOUS
<1>8. PICK E : E = Elements(s)
  OBVIOUS
<1>9. Cardinality(E \cup W) = Cardinality(E) + Cardinality(W) - Cardinality(E \cap W)
  BY <1>4, <1>5, <1>7, <1>8, FS_Union
<1>10. Cardinality(E \cap W) = 0
  BY <1>6, <1>7, <1>8, FS_EmptySet
<1>11. Cardinality(E) \in Nat /\ Cardinality(W) \in Nat
  BY <1>4, <1>5, <1>7, <1>8, FS_CardinalityType
<1> QED BY <1>2, <1>4, <1>7, <1>8, <1>9, <1>10, <1>11

(* A sound struct has the indexes that SlotsExact asks for.                *)
LEMMA InvSlotsExact == Inv => SlotsExact
<1> SUFFICES ASSUME Inv PROVE SlotsExact
  OBVIOUS
<1>1. Sound(models, Live)
  BY DEF Inv
<1>2. models \in ModelsType
  BY <1>1 DEF Sound
<1>3. models.slots \in [Keys -> Slot \cup {None}]
  BY <1>2, ModelsFields
<1>4. {k \in Keys : models.slots[k] # None} = {k \in Keys : live[k] # None}
  BY <1>1 DEF Sound, Live
<1>5. PICK queued : queued = Elements(models.queue) \cup models.waiting
  OBVIOUS
<1>6. \A q \in queued : q.key \in Keys
  BY <1>2, <1>5, QueueKeys
<1>7. PICK open : open = {k \in Keys : models.slots[k] # None /\ models.slots[k].status # "ready"}
  OBVIOUS
<1>8. queued = {TicketOf(models, k) : k \in open}
  <2>1. \A k \in open : TicketOf(models, k) \in queued
    BY <1>1, <1>5, <1>7 DEF Sound
  <2>2. \A q \in queued : q.key \in open /\ q = TicketOf(models, q.key)
    BY <1>1, <1>5, <1>6, <1>7 DEF Sound
  <2> QED BY <2>1, <2>2
<1>9. Len(models.queue) + Cardinality(models.waiting) = Cardinality(queued)
  BY <1>1, <1>5, TicketsCounted
<1>10. models.resolved = Cardinality({k \in Keys : Execution(models, k) # None})
  BY <1>1 DEF Sound, Shown
<1>11. queued = {models.queue[n] : n \in 1..Len(models.queue)} \cup models.waiting
  BY <1>5 DEF Elements
<1>12. {TicketOf(models, k) : k \in open}
         = {[key |-> k, ticket |-> models.slots[k].ticket] :
              k \in {j \in {i \in Keys : models.slots[i] # None} :
                       models.slots[j].status # "ready"}}
  BY <1>7 DEF TicketOf
<1> QED BY <1>3, <1>4, <1>8, <1>9, <1>10, <1>11, <1>12 DEF SlotsExact

(* The indexes of Models agree in every state (models.rs, struct Models):  *)
(* a slot for each live session and for no other, each open ticket in the  *)
(* queue or among the retries exactly once, and resolved a true count.     *)
THEOREM SlotsExactAlways == Spec => []SlotsExact
BY InvAlways, InvSlotsExact, PTL

(* A settled registry has no slot that waits for an answer or is stale.    *)
LEMMA InvModelsConverge == Inv => ModelsConverge
<1> SUFFICES ASSUME Inv, Settled, NEW k \in Keys, Present(k)
             PROVE  models.slots[k].status = "failed" \/ Execution(models, k) = row[k].model
  BY DEF ModelsConverge
<1>1. Sound(models, Live) /\ BroadAhead(models) /\ Fresh
  BY DEF Inv
<1>2. models.slots[k] # None
  BY <1>1 DEF Sound, Live, Present
<1>3. models.slots[k].epoch = models.epoch
  BY <1>1, <1>2 DEF BroadAhead, Settled
<1>4. CASE models.slots[k].status = "ready"
  <2>1. models.slots[k].model = row[k].model
    BY <1>1, <1>2, <1>3, <1>4 DEF Fresh, Settled
  <2> QED BY <1>2, <1>3, <1>4, <2>1 DEF Execution
<1>5. CASE models.slots[k].status # "ready"
  <2>1. TicketOf(models, k) \in Elements(models.queue) \cup models.waiting
    BY <1>1, <1>2, <1>5 DEF Sound
  <2>2. Elements(models.queue) = {}
    BY DEF Settled, Elements
  <2>3. TicketOf(models, k) \in models.waiting
    BY <2>1, <2>2
  <2>4. TicketOf(models, k).key = k
    BY DEF TicketOf
  <2> QED BY <1>1, <2>3, <2>4 DEF Sound
<1> QED BY <1>4, <1>5

(* Once every report is applied and every page answered, a live session    *)
(* shows its published model or waits for the retry of a failed read: no   *)
(* reply of apply_models carries a model that was read too early, and the  *)
(* broad walk of advance_broad passes no slot by.                          *)
THEOREM ModelsConvergeAlways == Spec => []ModelsConverge
BY InvAlways, InvModelsConverge, PTL

(* apply() hears of every change of a shown model: the execution version   *)
(* moves with it, whichever of invalidate, invalidate_all, advance_broad   *)
(* and apply_models made the change.                                       *)
THEOREM VersionTellsAlways == Spec => VersionTells
<1>1. Inv /\ [Next]_vars =>
        [\A k \in Keys :
           /\ live[k] # None /\ live'[k] # None
           /\ Execution(models, k) # Execution(models', k)
           => models'.version > models.version]_vars
  BY NextInv DEF Tells
<1> QED BY InvAlways, <1>1, PTL DEF Spec, VersionTells
============================================================================
