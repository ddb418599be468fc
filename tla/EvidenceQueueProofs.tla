--------------------------- MODULE EvidenceQueueProofs ---------------------------
(* Proofs about the evidence queue, for every number of sessions, sources and    *)
(* workers and for every bound.                                                  *)
(*                                                                               *)
(* The parts of the invariant are written as operators on values (a pass, an     *)
(* entry, a set of rows), so that a step which leaves those values alone leaves  *)
(* the part alone.                                                               *)
EXTENDS EvidenceQueue, FiniteSetTheorems, TLAPS

-----------------------------------------------------------------------------
(* The types.                                                                    *)

OnDisk == [epoch : 1..MaxEpoch, len : 0..MaxLen]
Stamp == Versions \cup {NoVersion}

Entry == [present : BOOLEAN, gen : Nat, fp : Stamp,
          status : {"none", "pending", "processing", "ready", "failed"},
          claim : Nat, pub : Nat, analyzed : Nat, processed : Stamp, retry : Nat,
          missing : BOOLEAN, cover : SUBSET Sources]

Tries == {"none", "plain", "first", "resume", "again"}
Outcomes == {"none", "missing", "unreadable", "changed", "all-read", "published"}
Modes == {"none", "resumed", "full"}
Points == {"idle", "start", "open", "read", "end", "apply", "settle"}

Row == [src : Sources, by : Nat \X Tries, fence : Nat, epoch : Nat, index : Nat]

Run == [pc : Points, s : Sessions, fence : Nat, gen : Nat, retry : Nat, fp : Stamp,
        todo : SUBSET Sources, src : Sources, ver : Stamp, at : Nat, try : Tries,
        bad : BOOLEAN, all : [Sources -> Stamp], read : Stamp, mode : [Sources -> Modes],
        keep : [Sources -> Stamp], outcome : Outcomes, counts : BOOLEAN]

TypeOK ==
    /\ agent \in [Sessions -> Agents]
    /\ file \in [Sessions -> [Sources -> OnDisk]]
    /\ ev \in [Sessions -> Entry]
    /\ turn \in [Sessions -> SUBSET Row]
    /\ resume \in [Sessions -> [Sources -> Stamp]]
    /\ seq \in Nat
    /\ worker \in [Workers -> Run]
    /\ lost \subseteq Nat
    /\ changes \in Nat /\ faults \in Nat

-----------------------------------------------------------------------------
(* The fences.                                                                   *)

Busy(p) == p.pc # "idle"
Unpublished(p) == p.pc \in {"start", "open", "read", "end", "apply"}
Untouched(p) == p.pc = "start" \/ (p.pc = "open" /\ p.src = Parent)

(* The fence of a pass is its own: no other busy pass has it, no entry is        *)
(* published under it before the pass publishes, and no row carries it before    *)
(* the pass has opened its first source.                                         *)
FenceInv ==
    /\ \A w \in Workers : Busy(worker[w]) => worker[w].fence \in 1..seq
    /\ \A v, w \in Workers : Busy(worker[v]) /\ Busy(worker[w]) /\ v # w
                                => worker[v].fence # worker[w].fence
    /\ \A s \in Sessions : ev[s].pub <= seq /\ ev[s].claim <= seq
    /\ \A s \in Sessions : \A r \in turn[s] : r.fence \in 1..seq
    /\ \A w \in Workers : Unpublished(worker[w]) =>
            \A s \in Sessions : ev[s].pub # worker[w].fence
    /\ \A w \in Workers : Untouched(worker[w]) =>
            \A s \in Sessions : \A r \in turn[s] : r.fence # worker[w].fence

-----------------------------------------------------------------------------
(* The reading of the parent transcript.                                         *)

(* The rows of the parent under one fence.                                       *)
RowsOf(rows, fence) == {r \in rows : r.fence = fence /\ r.src = Parent}

(* One row for every index above lo and up to hi.                                *)
Indexed(rs, lo, hi) ==
    /\ \A r \in rs : r.index \in (lo + 1)..hi
    /\ \A i \in (lo + 1)..hi : \E r \in rs : r.index = i
    /\ \A q, r \in rs : q.index = r.index => q = r

OfEpoch(rs, e) == \A r \in rs : r.epoch = e

Reads(rs, v) == Indexed(rs, 0, v.len) /\ OfEpoch(rs, v.epoch)

(* A file that was at version v may be f now.                                    *)
NotBefore(f, v) == f.epoch >= v.epoch /\ (f.epoch = v.epoch => f.len = 0 \/ f.len >= v.len)

(* What the fields of a pass say about one another and about the files.          *)
Shape(p, files) ==
    /\ Parent \notin p.todo
    /\ p.pc = "start" => p.src = Parent
    /\ p.pc \in {"start", "open"} => p.at = 0
    /\ p.pc \in {"start", "open", "read"} => p.outcome = "none"
    /\ p.pc \in {"start", "open", "read"} => (p.src = Parent <=> p.mode[Parent] = "none")
    /\ p.pc = "end" => p.outcome \in {"all-read", "missing", "unreadable", "changed"}
    /\ p.pc = "apply" => p.outcome \in {"published", "missing", "unreadable", "changed"}
    /\ p.outcome \in {"all-read", "published"} => p.mode[Parent] # "none"
    /\ p.pc = "read" => p.ver \in Versions /\ NotBefore(files[p.src], p.ver)
    /\ p.mode[Parent] # "none" =>
        /\ p.read \in Versions
        /\ p.keep[Parent] \in {NoVersion, p.read}
        /\ NotBefore(files[Parent], p.read)

(* The snapshot r is one that a reading of v may continue.                       *)
Continues(r, v) == r # NoVersion /\ r.epoch = v.epoch /\ r.len <= v.len

(* The first row that is not the pass's own.                                     *)
Behind(r, resumed) == IF resumed THEN r.len ELSE 0

(* The rows a pass has written for the parent while it holds its claim: f is the *)
(* file, r the stored snapshot, own the rows of the pass, seen the visible ones. *)
Visit(p, f, r, own) ==
    LET behind == Behind(r, p.try = "resume")
    IN  /\ Indexed(own, behind, p.at)
        /\ behind <= p.at
        /\ p.try = "resume" => Continues(r, p.ver)
        /\ f = p.ver => p.at <= p.ver.len /\ OfEpoch(own, p.ver.epoch)

Visited(p, r, own, seen) ==
    /\ Indexed(own, Behind(r, p.mode[Parent] = "resumed"), p.read.len)
    /\ OfEpoch(own, p.read.epoch)
    /\ p.mode[Parent] = "resumed" => Continues(r, p.read)
    /\ \A v \in Versions : Reads(seen, v) => NotBefore(p.read, v)

Reading(p, f, r, own, seen) ==
    /\ ~ p.bad
    /\ p.pc = "read" /\ p.src = Parent => Visit(p, f, r, own)
    /\ p.mode[Parent] # "none" => Visited(p, r, own, seen)

PassInv(p, e, files, r, rows) ==
    /\ Shape(p, files)
    /\ Unpublished(p) /\ Holds(e, p) =>
          Reading(p, files[Parent], r, RowsOf(rows, p.fence), RowsOf(rows, e.pub))

PassesInv ==
    \A w \in Workers : PassInv(worker[w], ev[worker[w].s], file[worker[w].s],
                               resume[worker[w].s][Parent], turn[worker[w].s])

(* The entry of a session with its snapshot and its visible rows.                *)
ShownInv(e, f, r, seen) ==
    /\ r # NoVersion => Reads(seen, r)
    /\ e.status = "ready" =>
        /\ e.analyzed = e.gen
        /\ e.processed = e.fp
        /\ e.fp \in Versions
        /\ Reads(seen, e.fp)
    /\ Parent \in e.cover => \E v \in Versions : Reads(seen, v)
    /\ \A v \in Versions : Reads(seen, v) => NotBefore(f, v)

StoreInv ==
    \A s \in Sessions : ShownInv(ev[s], file[s][Parent], resume[s][Parent],
                                 RowsOf(turn[s], ev[s].pub))

EvidenceInv == TypeOK /\ FenceInv /\ PassesInv /\ StoreInv /\ NoOrphanRows

-----------------------------------------------------------------------------
(* The records.                                                                  *)

(* The mark of an unread file is a stamp and no version. *)
LEMMA NoVersionIs == NoVersion \in Stamp /\ NoVersion \notin Versions /\ NoVersion.len = 0
BY DEF NoVersion, Stamp, Versions

(* The record of a worker between two passes. *)
LEMMA IdleIs ==
    /\ Idle \in Run /\ Idle.pc = "idle" /\ Idle.mode[Parent] = "none"
    /\ Idle.todo = {} /\ Idle.outcome = "none" /\ Idle.bad = FALSE /\ Idle.src = Parent
    /\ Idle.at = 0
<1>1. (CHOOSE s \in Sessions : TRUE) \in Sessions
  BY QueueAssumption
<1> QED
  BY <1>1, QueueAssumption, NoVersionIs
  DEF Idle, Run, NoMode, NoKeep, Points, Tries, Modes, Outcomes

(* A worker between two passes reads no source. *)
LEMMA IdleShape ==
    ASSUME NEW files
    PROVE  Shape(Idle, files)
BY IdleIs DEF Shape

(* The record of a pass whose outcome is to be applied. *)
LEMMA ApplyIs ==
    ASSUME NEW p \in Run, NEW o \in {"missing", "unreadable", "changed"}
    PROVE  LET q == Apply(p, o)
           IN  /\ q \in Run /\ q.pc = "apply" /\ q.s = p.s /\ q.fence = p.fence
               /\ q.outcome = o /\ q.mode[Parent] = "none" /\ q.todo = {} /\ q.bad = FALSE
BY IdleIs DEF Run, Apply, Points, Outcomes

(* The record of a pass that is to be settled without one. *)
LEMMA SettlingIs ==
    ASSUME NEW p \in Run, NEW c \in BOOLEAN
    PROVE  LET q == Settling(p, c)
           IN  /\ q \in Run /\ q.pc = "settle" /\ q.s = p.s /\ q.fence = p.fence
               /\ q.outcome = "none" /\ q.mode[Parent] = "none" /\ q.todo = {} /\ q.bad = FALSE
BY IdleIs DEF Run, Settling, Points, Outcomes

(* The record of a pass that has read its last source. *)
LEMMA EndsIs ==
    ASSUME NEW p \in Run, NEW o \in {"all-read", "missing", "unreadable", "changed"}
    PROVE  LET q == Ends(p, o)
           IN  /\ q \in Run /\ q.pc = "end" /\ q.s = p.s /\ q.fence = p.fence
               /\ q.outcome = o /\ q.mode = p.mode /\ q.todo = {} /\ q.bad = FALSE
               /\ q.read = p.read /\ q.keep = p.keep
BY NoVersionIs, QueueAssumption DEF Run, Ends, Points, Outcomes, Tries

(* The next source is c.                                                         *)
GoesTo(p, c) == [p EXCEPT !.pc = "open", !.src = c, !.todo = @ \ {c},
                          !.ver = NoVersion, !.at = 0, !.try = "none", !.bad = FALSE]

(* Opening a source keeps the record of the pass well formed. *)
LEMMA OpenTyped ==
    ASSUME NEW p \in Run, NEW src \in Sources, NEW rest \in SUBSET Sources
    PROVE  [p EXCEPT !.pc = "open", !.src = src, !.todo = rest, !.ver = NoVersion,
                     !.at = 0, !.try = "none", !.bad = FALSE] \in Run
BY NoVersionIs DEF Run, Points, Tries

(* Going on to another source keeps what the pass has read so far. *)
LEMMA GoesToIs ==
    ASSUME NEW p \in Run, NEW c \in p.todo, Parent \notin p.todo
    PROVE  LET q == GoesTo(p, c)
           IN  /\ q \in Run /\ q.s = p.s /\ q.fence = p.fence
               /\ q.mode = p.mode /\ Parent \notin q.todo /\ q.bad = FALSE
               /\ q.read = p.read /\ q.keep = p.keep
               /\ q.pc = "open" /\ q.src # Parent /\ q.outcome = p.outcome /\ q.at = 0
<1> DEFINE rest == p.todo \ {c}
           q == GoesTo(p, c)
<1>1. c \in Sources /\ rest \in SUBSET Sources /\ Parent \notin rest /\ c # Parent
  BY DEF Run
<1>2. q = [p EXCEPT !.pc = "open", !.src = c, !.todo = rest, !.ver = NoVersion,
                    !.at = 0, !.try = "none", !.bad = FALSE]
  BY DEF GoesTo
<1> HIDE DEF rest, q
<1>3. q \in Run
  BY <1>1, <1>2, OpenTyped, Zenon
<1>4. /\ q.pc = "open" /\ q.src = c /\ q.todo = rest /\ q.bad = FALSE
      /\ q.s = p.s /\ q.fence = p.fence /\ q.mode = p.mode /\ q.read = p.read
      /\ q.keep = p.keep /\ q.outcome = p.outcome /\ q.at = 0
  BY <1>2 DEF Run
<1>5. /\ q \in Run /\ q.s = p.s /\ q.fence = p.fence
      /\ q.mode = p.mode /\ Parent \notin q.todo /\ q.bad = FALSE
      /\ q.read = p.read /\ q.keep = p.keep
      /\ q.pc = "open" /\ q.src # Parent /\ q.outcome = p.outcome /\ q.at = 0
  BY <1>1, <1>3, <1>4
<1> QED
  BY <1>5 DEF q

(* After a source the pass opens a further one or ends with all of them read. *)
LEMMA NextSourceIs ==
    ASSUME NEW p \in Run, Parent \notin p.todo
    PROVE  LET q == NextSource(p)
           IN  /\ q \in Run /\ q.s = p.s /\ q.fence = p.fence
               /\ q.mode = p.mode /\ Parent \notin q.todo /\ q.bad = FALSE
               /\ q.read = p.read /\ q.keep = p.keep
               /\ \/ q.pc = "end" /\ q.outcome = "all-read"
                  \/ q.pc = "open" /\ q.src # Parent /\ q.outcome = p.outcome /\ q.at = 0
<1>1. CASE p.todo = {}
  BY <1>1, EndsIs DEF NextSource
<1>2. CASE p.todo # {}
  <2>1. (CHOOSE c \in p.todo : TRUE) \in p.todo
    BY <1>2
  <2>2. NextSource(p) = GoesTo(p, CHOOSE c \in p.todo : TRUE)
    BY <1>2 DEF NextSource, GoesTo
  <2>3. PICK c \in p.todo : NextSource(p) = GoesTo(p, c)
    BY <2>1, <2>2
  <2>4. LET q == GoesTo(p, c)
        IN  /\ q \in Run /\ q.s = p.s /\ q.fence = p.fence
            /\ q.mode = p.mode /\ Parent \notin q.todo /\ q.bad = FALSE
            /\ q.read = p.read /\ q.keep = p.keep
            /\ q.pc = "open" /\ q.src # Parent /\ q.outcome = p.outcome /\ q.at = 0
    BY GoesToIs, Zenon
  <2> QED
    BY <2>3, <2>4
<1> QED
  BY <1>1, <1>2

(* Queueing an entry leaves its publication, claim and cover alone. *)
LEMMA PendingIs ==
    ASSUME NEW e \in Entry
    PROVE  LET x == Pending(e)
           IN  /\ x \in Entry /\ x.status = "pending" /\ x.pub = e.pub /\ x.claim = e.claim
               /\ x.cover = e.cover /\ x.fp = e.fp
BY DEF Pending, Entry

(* So does putting it back for a retry, *)
LEMMA RetriedIs ==
    ASSUME NEW e \in Entry, NEW c \in BOOLEAN
    PROVE  LET x == Retried(e, c)
           IN  /\ x \in Entry /\ x.status = "pending" /\ x.pub = e.pub /\ x.claim = e.claim
               /\ x.cover = e.cover /\ x.fp = e.fp
<1> DEFINE n == e.retry + (IF c THEN 1 ELSE 0)
<1>1. n \in Nat
  BY DEF Entry
<1>2. Retried(e, c) = [e EXCEPT !.status = "pending", !.retry = n, !.missing = FALSE]
  BY DEF Retried
<1> HIDE DEF n
<1> QED
  BY <1>1, <1>2 DEF Entry

(* and so does failing it. *)
LEMMA FailedIs ==
    ASSUME NEW e \in Entry, NEW m \in BOOLEAN
    PROVE  LET x == Failed(e, m)
           IN  /\ x \in Entry /\ x.status = "failed" /\ x.pub = e.pub /\ x.claim = e.claim
               /\ x.cover = e.cover /\ x.fp = e.fp
<1> DEFINE n == e.retry + 1
<1>1. n \in Nat
  BY DEF Entry
<1>2. Failed(e, m) = [e EXCEPT !.status = "failed", !.retry = n, !.analyzed = e.gen,
                               !.missing = m]
  BY DEF Failed
<1> HIDE DEF n
<1> QED
  BY <1>1, <1>2 DEF Entry

(* A published entry shows what the pass read, under the fence of its target. *)
LEMMA PublishedIs ==
    ASSUME NEW e \in Entry, NEW p \in Run
    PROVE  LET x == Published(e, p)
           IN  /\ x \in Entry /\ x.status = "ready" /\ x.pub = TargetFence(e, p)
               /\ x.claim = e.claim /\ x.analyzed = p.gen /\ x.processed = p.read
               /\ x.gen = e.gen /\ x.fp = e.fp
               /\ x.cover = {src \in Sources : p.mode[src] # "none"}
BY DEF Published, Entry, Run, TargetFence

(* The entry of a session the store does not know. *)
LEMMA AbsentIs ==
    /\ Absent \in Entry /\ Absent.status = "none" /\ Absent.pub = 0 /\ Absent.claim = 0
    /\ Absent.cover = {} /\ Absent.fp = NoVersion
BY NoVersionIs DEF Absent, Entry

-----------------------------------------------------------------------------
(* Sets of rows.                                                                 *)

(* A version has an epoch and a positive length. *)
LEMMA VersionIs ==
    ASSUME NEW v \in Versions
    PROVE  /\ v.epoch \in Nat /\ v.epoch >= 1 /\ v.len \in Nat /\ v.len >= 1
           /\ v = [epoch |-> v.epoch, len |-> v.len] /\ v # NoVersion /\ v \in Stamp
BY QueueAssumption, NoVersionIs DEF Versions, Stamp

(* A stamp is a version unless it is the mark of an unread file. *)
LEMMA StampIs ==
    ASSUME NEW v \in Stamp
    PROVE  /\ v.epoch \in Nat /\ v.len \in Nat
           /\ v # NoVersion => v \in Versions
BY VersionIs DEF Stamp, NoVersion

(* A file that is not empty is a version. *)
LEMMA OnDiskIs ==
    ASSUME NEW f \in OnDisk
    PROVE  /\ f.epoch \in Nat /\ f.epoch >= 1 /\ f.len \in Nat
           /\ f.len > 0 => f \in Versions
           /\ f = [epoch |-> f.epoch, len |-> f.len]
BY QueueAssumption DEF OnDisk, Versions

(* A set with one row for every index is as large as the version it reads.       *)
LEMMA ReadsCounts ==
    ASSUME NEW rs, NEW v, v.len \in Nat, Reads(rs, v)
    PROVE  ReadingOf(rs, v)
<1> DEFINE f == [i \in 1..v.len |-> CHOOSE r \in rs : r.index = i]
<1>1. \A i \in 1..v.len : f[i] \in rs /\ f[i].index = i
  <2> SUFFICES ASSUME NEW i \in 1..v.len PROVE f[i] \in rs /\ f[i].index = i
    OBVIOUS
  <2>1. \E r \in rs : r.index = i
    BY DEF Reads, Indexed
  <2>2. LET r == CHOOSE r \in rs : r.index = i IN r \in rs /\ r.index = i
    BY <2>1
  <2> QED
    BY <2>2
<1>2. f \in [1..v.len -> rs]
  BY <1>1
<1> HIDE DEF f
<1>3. \A r \in rs : r.index \in 1..v.len
  BY DEF Reads, Indexed
<1>4. \A r \in rs : f[r.index] = r
  BY <1>1, <1>3 DEF Reads, Indexed
<1>5. \A i, j \in 1..v.len : f[i] = f[j] => i = j
  BY <1>1
<1>6. \A r \in rs : \E i \in 1..v.len : f[i] = r
  BY <1>3, <1>4
<1>7. f \in Bijection(1..v.len, rs)
  BY <1>2, <1>5, <1>6 DEF Bijection, Injection, Surjection, IsInjective
<1>8. Cardinality(rs) = v.len
  BY <1>7, FS_CountingElements DEF ExistsBijection
<1>9. {r.index : r \in rs} = 1..v.len
  BY <1>1, <1>3
<1> QED
  BY <1>8, <1>9 DEF ReadingOf, Reads, OfEpoch

(* Rows that read a version are not empty. *)
LEMMA ReadsSome ==
    ASSUME NEW rs, NEW v \in Versions, Reads(rs, v)
    PROVE  rs # {}
BY VersionIs DEF Reads, Indexed

(* The same rows read one version only. *)
LEMMA ReadsUnique ==
    ASSUME NEW rs, NEW v \in Versions, NEW w \in Versions, Reads(rs, v), Reads(rs, w)
    PROVE  v = w
<1>1. PICK r \in rs : TRUE
  BY ReadsSome
<1>2. v.epoch = w.epoch
  BY <1>1 DEF Reads, OfEpoch
<1>3. v.len \in 1..w.len /\ w.len \in 1..v.len
  BY VersionIs DEF Reads, Indexed
<1>4. v.len = w.len
  BY <1>3, VersionIs
<1> QED
  BY <1>2, <1>4, VersionIs, Zenon

(* No rows read an empty prefix of any version. *)
LEMMA NoRows ==
    ASSUME NEW v
    PROVE  Indexed({}, 0, 0) /\ OfEpoch({}, v)
BY DEF Indexed, OfEpoch

(* The visible rows of the parent show the version they read.                    *)
LEMMA ShowsVersion ==
    ASSUME NEW s \in Sessions, NEW v \in Versions, Reads(RowsOf(turn[s], ev[s].pub), v)
    PROVE  VersionOf(s, Parent) = v
<1> DEFINE rs == VisibleOf(s, Parent)
           shown == [epoch |-> (CHOOSE r \in rs : TRUE).epoch, len |-> Cardinality(rs)]
<1>1. rs = RowsOf(turn[s], ev[s].pub)
  BY DEF VisibleOf, RowsOf
<1> HIDE DEF rs
<1>2. rs # {} /\ Reads(rs, v)
  BY <1>1, ReadsSome
<1>3. (CHOOSE r \in rs : TRUE) \in rs
  BY <1>2
<1>4. (CHOOSE r \in rs : TRUE).epoch = v.epoch
  BY <1>2, <1>3 DEF Reads, OfEpoch
<1>5. ReadingOf(rs, v)
  BY <1>2, ReadsCounts, VersionIs
<1>6. Cardinality(rs) = v.len
  BY <1>5 DEF ReadingOf
<1>7. shown = [epoch |-> v.epoch, len |-> v.len]
  BY <1>4, <1>6
<1>8. shown = v
  BY <1>7, VersionIs, Zenon
<1> QED
  BY <1>2, <1>5, <1>8 DEF VersionOf, rs

-----------------------------------------------------------------------------
(* The files only move on.                                                       *)

Later(f, g) ==
    \/ g.epoch > f.epoch
    \/ g.epoch = f.epoch /\ (g.len = 0 \/ (f.len > 0 /\ g.len > f.len))

(* What a file has moved past stays behind it, and is not what it holds now. *)
LEMMA LaterIs ==
    ASSUME NEW f \in OnDisk, NEW g \in OnDisk, NEW v \in Versions,
           NotBefore(f, v), Later(f, g)
    PROVE  NotBefore(g, v) /\ g # v
<1> USE OnDiskIs, VersionIs
<1>1. NotBefore(g, v)
  BY DEF NotBefore, Later
<1>2. g.epoch # v.epoch \/ g.len # v.len
  BY DEF NotBefore, Later
<1> QED
  BY <1>1, <1>2

(* A later file keeps the invariant of every pass.                               *)
LEMMA PassFile ==
    ASSUME NEW p \in Run, NEW e, NEW files \in [Sources -> OnDisk], NEW r, NEW rows,
           NEW src \in Sources, NEW g \in OnDisk, Later(files[src], g),
           PassInv(p, e, files, r, rows)
    PROVE  PassInv(p, e, [files EXCEPT ![src] = g], r, rows)
<1> DEFINE after == [files EXCEPT ![src] = g]
<1>0. Parent \in Sources /\ p.src \in Sources /\ files[src] \in OnDisk
  BY QueueAssumption DEF Run
<1>1. \A c \in Sources : after[c] = files[c] \/ (after[c] = g /\ c = src)
  OBVIOUS
<1>2. \A c \in Sources : \A v \in Versions :
          NotBefore(files[c], v) => NotBefore(after[c], v)
  BY <1>0, <1>1, LaterIs
<1>3. \A v \in Versions : NotBefore(files[Parent], v) /\ after[Parent] = v
                            => files[Parent] = v
  BY <1>0, <1>1, LaterIs
<1> HIDE DEF after
<1>4. Shape(p, after)
  BY <1>0, <1>2 DEF PassInv, Shape
<1>5. ASSUME Unpublished(p), Holds(e, p)
      PROVE  Reading(p, after[Parent], r, RowsOf(rows, p.fence), RowsOf(rows, e.pub))
  <2>1. Reading(p, files[Parent], r, RowsOf(rows, p.fence), RowsOf(rows, e.pub))
    BY <1>5 DEF PassInv
  <2>2. p.pc = "read" /\ p.src = Parent /\ after[Parent] = p.ver => files[Parent] = p.ver
    BY <1>3 DEF PassInv, Shape
  <2> QED
    BY <2>1, <2>2 DEF Reading, Visit
<1> QED
  BY <1>4, <1>5 DEF PassInv, after

(* A step of another actor keeps the invariant of a pass when it takes the claim *)
(* away or leaves the rows, the snapshot and the publication.                    *)
LEMMA PassFrame ==
    ASSUME NEW p, NEW files, NEW e1, NEW e2, NEW r1, NEW r2, NEW rows1, NEW rows2,
           PassInv(p, e1, files, r1, rows1),
           Unpublished(p) /\ Holds(e2, p) =>
                /\ Holds(e1, p) /\ r2 = r1
                /\ RowsOf(rows2, p.fence) = RowsOf(rows1, p.fence)
                /\ RowsOf(rows2, e2.pub) = RowsOf(rows1, e1.pub)
    PROVE  PassInv(p, e2, files, r2, rows2)
BY DEF PassInv

(* A change that keeps the cover keeps the shown version, unless it makes the entry ready. *)
LEMMA ShownFrame ==
    ASSUME NEW f, NEW e1, NEW e2, NEW r, NEW seen,
           ShownInv(e1, f, r, seen), e2.cover = e1.cover,
           e2.status = "ready" => /\ e1.status = "ready" /\ e2.analyzed = e1.analyzed
                                  /\ e2.gen = e1.gen /\ e2.fp = e1.fp
                                  /\ e2.processed = e1.processed
    PROVE  ShownInv(e2, f, r, seen)
BY DEF ShownInv

(* The entry is as it was, or it left the hands of its pass unpublished.         *)
Retired(e1, e2) ==
    \/ e2 = e1
    \/ /\ e2.status \in {"pending", "failed"}
       /\ e2.pub = e1.pub /\ e2.claim = e1.claim /\ e2.cover = e1.cover /\ e2.fp = e1.fp

(* A step of worker w that publishes nothing: the pass goes on as q, it touches  *)
(* only rows under its own fence, and no visible row.                            *)
Quiet(w, q) ==
    LET p == worker[w]
    IN  /\ worker' = [worker EXCEPT ![w] = q] /\ q \in Run
        /\ Busy(p) /\ (Busy(q) => q.s = p.s /\ q.fence = p.fence)
        /\ Unpublished(q) => Unpublished(p)
        /\ Untouched(q) => Untouched(p) /\ turn' = turn
        /\ UNCHANGED <<agent, file, resume, seq, changes>>
        /\ faults' \in Nat /\ lost \subseteq lost' /\ lost' \subseteq Nat
        /\ ev' \in [Sessions -> Entry]
        /\ \A s \in Sessions : Retired(ev[s], ev'[s])
        /\ turn' \in [Sessions -> SUBSET Row]
        /\ \A s \in Sessions : \A r \in turn'[s] :
              r \in turn[s] \/ (s = p.s /\ r.fence = p.fence /\ Busy(q) /\ r.fence # ev[s].pub)
        /\ \A s \in Sessions : \A r \in turn[s] :
              r \in turn'[s] \/ (s = p.s /\ r.fence = p.fence /\ r.fence # ev[s].pub)
        /\ ~ Busy(q) =>
              \A r \in turn'[p.s] : r.fence = p.fence => r.fence = ev[p.s].pub \/ r.fence \in lost'

(* A step of a pass that touches only its own unpublished rows keeps the types, *)
LEMMA QuietTypes ==
    ASSUME TypeOK, NEW w \in Workers, NEW q, Quiet(w, q)
    PROVE  TypeOK'
BY DEF TypeOK, Quiet

(* the fences, *)
LEMMA QuietFences ==
    ASSUME TypeOK, FenceInv, NEW w \in Workers, NEW q, Quiet(w, q)
    PROVE  FenceInv'
<1> DEFINE p == worker[w]
<1>1. /\ worker' \in [Workers -> Run] /\ worker'[w] = q
      /\ \A v \in Workers : v # w => worker'[v] = worker[v]
      /\ \A v \in Workers : Busy(worker'[v]) =>
            Busy(worker[v]) /\ worker'[v].fence = worker[v].fence
      /\ \A v \in Workers : Unpublished(worker'[v]) => Unpublished(worker[v])
      /\ \A v \in Workers : Untouched(worker'[v]) => Untouched(worker[v])
  BY DEF Quiet, TypeOK
<1>2. seq' = seq /\ \A s \in Sessions : ev'[s].pub = ev[s].pub /\ ev'[s].claim = ev[s].claim
  BY DEF Quiet, Retired
<1>3. \A v \in Workers : Unpublished(worker'[v]) => Busy(worker'[v])
  BY DEF Unpublished, Busy
<1>4. \A v \in Workers : Untouched(worker'[v]) => Busy(worker'[v])
  BY DEF Untouched, Busy
<1>5. \A s \in Sessions : \A r \in turn'[s] :
          r \in turn[s] \/ (r.fence = p.fence /\ Busy(q) /\ Busy(p) /\ ~ Untouched(q))
  BY DEF Quiet, Untouched
<1>6. \A v \in Workers : Busy(worker'[v]) => worker'[v].fence \in 1..seq'
  BY <1>1, <1>2 DEF FenceInv
<1>7. \A v1, v2 \in Workers : Busy(worker'[v1]) /\ Busy(worker'[v2]) /\ v1 # v2
                                => worker'[v1].fence # worker'[v2].fence
  BY <1>1 DEF FenceInv
<1>8. \A s \in Sessions : ev'[s].pub <= seq' /\ ev'[s].claim <= seq'
  BY <1>2 DEF FenceInv
<1>9. \A s \in Sessions : \A r \in turn'[s] : r.fence \in 1..seq'
  BY <1>2, <1>5 DEF FenceInv
<1>10. \A v \in Workers : Unpublished(worker'[v]) =>
            \A s \in Sessions : ev'[s].pub # worker'[v].fence
  BY <1>1, <1>2, <1>3 DEF FenceInv
<1>11. ASSUME NEW v \in Workers, Untouched(worker'[v]), NEW s \in Sessions, NEW r \in turn'[s]
       PROVE  r.fence # worker'[v].fence
  <2>1. Untouched(worker[v]) /\ Busy(worker[v]) /\ worker'[v].fence = worker[v].fence
    BY <1>1, <1>4, <1>11
  <2>2. CASE r \in turn[s]
    BY <2>1, <2>2 DEF FenceInv
  <2>3. CASE r.fence = p.fence /\ Busy(p) /\ ~ Untouched(q)
    <3>1. v # w
      BY <1>1, <1>11, <2>3
    <3> QED
      BY <2>1, <2>3, <3>1 DEF FenceInv
  <2> QED
    BY <1>5, <2>2, <2>3
<1> QED
  BY <1>6, <1>7, <1>8, <1>9, <1>10, <1>11 DEF FenceInv

(* the owners of the rows, *)
LEMMA QuietRows ==
    ASSUME TypeOK, FenceInv, NoOrphanRows, NEW w \in Workers, NEW q, Quiet(w, q)
    PROVE  NoOrphanRows'
<1> DEFINE p == worker[w]
<1>1. /\ worker' \in [Workers -> Run] /\ worker'[w] = q
      /\ \A v \in Workers : v # w => worker'[v] = worker[v]
  BY DEF Quiet, TypeOK
<1> SUFFICES ASSUME NEW s \in Sessions, NEW r \in turn'[s]
             PROVE  \/ r.fence = ev'[s].pub
                    \/ \E v \in Workers : worker'[v].pc # "idle" /\ worker'[v].s = s
                                            /\ worker'[v].fence = r.fence
                    \/ r.fence \in lost'
  BY DEF NoOrphanRows
<1>2. ev'[s].pub = ev[s].pub /\ lost \subseteq lost'
  BY DEF Quiet, Retired
<1>3. CASE s = p.s /\ r.fence = p.fence /\ Busy(q)
  BY <1>1, <1>3 DEF Quiet, Busy
<1>4. CASE r \in turn[s] /\ ~ (s = p.s /\ r.fence = p.fence /\ Busy(q))
  <2>1. CASE r.fence = ev[s].pub \/ r.fence \in lost
    BY <1>2, <2>1
  <2>2. CASE \E v \in Workers : worker[v].pc # "idle" /\ worker[v].s = s
                                  /\ worker[v].fence = r.fence
    <3>1. PICK v \in Workers : worker[v].pc # "idle" /\ worker[v].s = s
                                  /\ worker[v].fence = r.fence
      BY <2>2
    <3>2. CASE v # w
      BY <1>1, <3>1, <3>2
    <3>3. CASE v = w
      <4>1. Busy(p) /\ ~ Busy(q) /\ s = p.s /\ r.fence = p.fence
        BY <1>4, <3>1, <3>3 DEF Busy
      <4>2. r.fence = ev[s].pub \/ r.fence \in lost'
        BY <4>1 DEF Quiet
      <4> QED
        BY <1>2, <4>2
    <3> QED
      BY <3>2, <3>3
  <2> QED
    BY <1>4, <2>1, <2>2 DEF NoOrphanRows
<1> QED
  BY <1>3, <1>4 DEF Quiet

(* Seen from another fence, the rows of a session are the same.                  *)
LEMMA QuietRowsOf ==
    ASSUME TypeOK, FenceInv, NEW w \in Workers, NEW q, Quiet(w, q), NEW s \in Sessions
    PROVE  /\ ev'[s].pub = ev[s].pub
           /\ RowsOf(turn'[s], ev[s].pub) = RowsOf(turn[s], ev[s].pub)
           /\ \A f : f # worker[w].fence => RowsOf(turn'[s], f) = RowsOf(turn[s], f)
BY DEF Quiet, RowsOf, Retired

(* what the store shows, *)
LEMMA QuietStore ==
    ASSUME TypeOK, FenceInv, StoreInv, NEW w \in Workers, NEW q, Quiet(w, q)
    PROVE  StoreInv'
<1> SUFFICES ASSUME NEW s \in Sessions
             PROVE  ShownInv(ev'[s], file'[s][Parent], resume'[s][Parent],
                             RowsOf(turn'[s], ev'[s].pub))
  BY DEF StoreInv
<1>1. RowsOf(turn'[s], ev'[s].pub) = RowsOf(turn[s], ev[s].pub)
  BY QuietRowsOf
<1>2. file' = file /\ resume' = resume /\ Retired(ev[s], ev'[s])
  BY DEF Quiet
<1>3. ShownInv(ev[s], file[s][Parent], resume[s][Parent], RowsOf(turn[s], ev[s].pub))
  BY DEF StoreInv
<1> QED
  BY <1>1, <1>2, <1>3, ShownFrame DEF Retired

(* the other passes, *)
LEMMA QuietPasses ==
    ASSUME TypeOK, FenceInv, PassesInv, NEW w \in Workers, NEW q, Quiet(w, q),
           PassInv(q, ev'[q.s], file[q.s], resume[q.s][Parent], turn'[q.s])
    PROVE  PassesInv'
<1> SUFFICES ASSUME NEW v \in Workers
             PROVE  PassInv(worker'[v], ev'[worker'[v].s], file'[worker'[v].s],
                            resume'[worker'[v].s][Parent], turn'[worker'[v].s])
  BY DEF PassesInv
<1>1. file' = file /\ resume' = resume
  BY DEF Quiet
<1>2. CASE v = w
  BY <1>1, <1>2 DEF Quiet, TypeOK
<1>3. CASE v # w
  <2> DEFINE p == worker[v]
             s == p.s
  <2>1. worker'[v] = p /\ p \in Run /\ s \in Sessions
    BY <1>3 DEF Quiet, TypeOK, Run
  <2>2. PassInv(p, ev[s], file[s], resume[s][Parent], turn[s])
    BY DEF PassesInv
  <2>3. RowsOf(turn'[s], ev'[s].pub) = RowsOf(turn[s], ev[s].pub)
    BY <2>1, QuietRowsOf
  <2>4. Unpublished(p) /\ Holds(ev'[s], p) => Holds(ev[s], p)
    BY <2>1 DEF Quiet, Retired, Holds
  <2>5. Unpublished(p) => RowsOf(turn'[s], p.fence) = RowsOf(turn[s], p.fence)
    <3>1. Unpublished(p) => p.fence # worker[w].fence
      BY <1>3 DEF FenceInv, Unpublished, Busy, Quiet
    <3> QED
      BY <3>1, <2>1, QuietRowsOf
  <2> HIDE DEF p, s
  <2>6. PassInv(p, ev'[s], file[s], resume[s][Parent], turn'[s])
    BY <2>2, <2>3, <2>4, <2>5, PassFrame
  <2> QED
    BY <1>1, <2>1, <2>6 DEF s
<1> QED
  BY <1>2, <1>3

(* and so the invariant. *)
LEMMA QuietKeeps ==
    ASSUME EvidenceInv, NEW w \in Workers, NEW q, Quiet(w, q),
           PassInv(q, ev'[q.s], file[q.s], resume[q.s][Parent], turn'[q.s])
    PROVE  EvidenceInv'
BY QuietTypes, QuietFences, QuietRows, QuietStore, QuietPasses DEF EvidenceInv

-----------------------------------------------------------------------------
(* The passes a step leaves behind.                                              *)

(* What a pass that is still reading knows of the sources it has finished.       *)
Within(p, e, files, r, rows) ==
    /\ Parent \notin p.todo /\ p.outcome = "none"
    /\ p.mode[Parent] # "none" =>
        /\ p.read \in Versions /\ p.keep[Parent] \in {NoVersion, p.read}
        /\ NotBefore(files[Parent], p.read)
        /\ Holds(e, p) => Visited(p, r, RowsOf(rows, p.fence), RowsOf(rows, e.pub))

(* A pass that has not ended is within its reading. *)
LEMMA PassWithin ==
    ASSUME NEW p \in Run, NEW e, NEW files, NEW r, NEW rows,
           PassInv(p, e, files, r, rows), p.pc \in {"start", "open", "read"}
    PROVE  Within(p, e, files, r, rows)
BY DEF Within, PassInv, Shape, Reading, Unpublished

(* A worker between two passes meets the invariant of passes, *)
LEMMA IdlePass ==
    ASSUME NEW e, NEW files, NEW r, NEW rows
    PROVE  PassInv(Idle, e, files, r, rows)
BY IdleIs, IdleShape DEF PassInv, Unpublished

(* and so does one about to apply an outcome other than publication, *)
LEMMA ApplyPass ==
    ASSUME NEW e, NEW files, NEW r, NEW rows, NEW p \in Run,
           NEW o \in {"missing", "unreadable", "changed"}
    PROVE  PassInv(Apply(p, o), e, files, r, rows)
<1> DEFINE q == Apply(p, o)
<1>1. /\ q \in Run /\ q.pc = "apply" /\ q.s = p.s /\ q.fence = p.fence
      /\ q.outcome = o /\ q.mode[Parent] = "none" /\ q.todo = {} /\ q.bad = FALSE
  BY ApplyIs
<1> HIDE DEF q
<1> QED
  BY <1>1 DEF PassInv, Shape, Reading, q

(* one about to settle, *)
LEMMA SettlingPass ==
    ASSUME NEW e, NEW files, NEW r, NEW rows, NEW p \in Run, NEW c \in BOOLEAN
    PROVE  PassInv(Settling(p, c), e, files, r, rows)
<1> DEFINE q == Settling(p, c)
<1>1. /\ q \in Run /\ q.pc = "settle" /\ q.outcome = "none"
      /\ q.mode[Parent] = "none" /\ q.todo = {} /\ q.bad = FALSE
  BY SettlingIs
<1> HIDE DEF q
<1> QED
  BY <1>1 DEF PassInv, Shape, Unpublished, q

(* Two passes that have finished the same sources under the same claim.          *)
LEMMA SameVisited ==
    ASSUME NEW p, NEW q, q.mode = p.mode, q.read = p.read, NEW r, NEW own, NEW seen,
           Visited(p, r, own, seen)
    PROVE  Visited(q, r, own, seen)
BY DEF Visited

(* one that has just ended its reading, *)
LEMMA EndsPass ==
    ASSUME NEW e, NEW files, NEW r, NEW rows, NEW p \in Run,
           NEW o \in {"all-read", "missing", "unreadable", "changed"},
           Within(p, e, files, r, rows), o = "all-read" => p.mode[Parent] # "none"
    PROVE  PassInv(Ends(p, o), e, files, r, rows)
<1> DEFINE q == Ends(p, o)
<1>1. /\ q \in Run /\ q.pc = "end" /\ q.s = p.s /\ q.fence = p.fence
      /\ q.outcome = o /\ q.mode = p.mode /\ q.todo = {} /\ q.bad = FALSE
      /\ q.read = p.read /\ q.keep = p.keep
  BY EndsIs
<1> HIDE DEF q
<1>2. Shape(q, files)
  BY <1>1 DEF Shape, Within
<1>3. Holds(e, q) /\ q.mode[Parent] # "none" =>
          Visited(q, r, RowsOf(rows, q.fence), RowsOf(rows, e.pub))
  BY <1>1, SameVisited DEF Within, Holds
<1>4. PassInv(q, e, files, r, rows)
  BY <1>1, <1>2, <1>3 DEF PassInv, Reading
<1> QED
  BY <1>4 DEF q

(* and one that goes on to its next source. *)
LEMMA NextPass ==
    ASSUME NEW e, NEW files, NEW r, NEW rows, NEW p \in Run,
           Within(p, e, files, r, rows), p.mode[Parent] # "none"
    PROVE  PassInv(NextSource(p), e, files, r, rows)
<1> DEFINE q == NextSource(p)
<1>1. /\ q \in Run /\ q.s = p.s /\ q.fence = p.fence
      /\ q.mode = p.mode /\ Parent \notin q.todo /\ q.bad = FALSE
      /\ q.read = p.read /\ q.keep = p.keep
      /\ \/ q.pc = "end" /\ q.outcome = "all-read"
         \/ q.pc = "open" /\ q.src # Parent /\ q.outcome = p.outcome /\ q.at = 0
  BY NextSourceIs DEF Within
<1> HIDE DEF q
<1>2. Shape(q, files)
  BY <1>1 DEF Shape, Within
<1>3. Holds(e, q) /\ q.mode[Parent] # "none" =>
          Visited(q, r, RowsOf(rows, q.fence), RowsOf(rows, e.pub))
  BY <1>1, SameVisited DEF Within, Holds
<1>4. PassInv(q, e, files, r, rows)
  BY <1>1, <1>2, <1>3 DEF PassInv, Reading
<1> QED
  BY <1>4 DEF q

(* A visit of the current source begins: at is where it starts, own what the     *)
(* pass has written for the parent.                                              *)
LEMMA VisitPass ==
    ASSUME NEW e, NEW files, NEW r, NEW rows, NEW p \in Run, Within(p, e, files, r, rows),
           NEW q \in Run, q.pc = "read", q.fence = p.fence, q.src = p.src, q.todo = p.todo,
           q.mode = p.mode, q.read = p.read, q.keep = p.keep, q.outcome = p.outcome,
           q.ver \in Versions, NotBefore(files[q.src], q.ver),
           p.src = Parent <=> p.mode[Parent] = "none", NEW rows2,
           Holds(e, q) => /\ ~ q.bad
                          /\ RowsOf(rows2, e.pub) = RowsOf(rows, e.pub)
                          /\ q.src = Parent =>
                                Visit(q, files[Parent], r, RowsOf(rows2, q.fence))
                          /\ q.src # Parent =>
                                RowsOf(rows2, q.fence) = RowsOf(rows, q.fence)
    PROVE  PassInv(q, e, files, r, rows2)
<1>1. Shape(q, files)
  BY DEF Shape, Within
<1>2. ASSUME Holds(e, q)
      PROVE  Reading(q, files[Parent], r, RowsOf(rows2, q.fence), RowsOf(rows2, e.pub))
  <2>1. q.mode[Parent] # "none" =>
            /\ Holds(e, p)
            /\ Visited(p, r, RowsOf(rows, p.fence), RowsOf(rows, e.pub))
            /\ RowsOf(rows2, q.fence) = RowsOf(rows, p.fence)
            /\ RowsOf(rows2, e.pub) = RowsOf(rows, e.pub)
    BY <1>2 DEF Within, Holds
  <2>2. q.mode[Parent] # "none" =>
            Visited(q, r, RowsOf(rows2, q.fence), RowsOf(rows2, e.pub))
    BY <2>1, SameVisited
  <2> QED
    BY <1>2, <2>2 DEF Reading
<1> QED
  BY <1>1, <1>2 DEF PassInv

-----------------------------------------------------------------------------
(* The steps of a pass.                                                          *)

(* A step that changes nothing in the store.                                     *)
LEMMA StepKeeps ==
    ASSUME EvidenceInv, NEW w \in Workers, NEW q \in Run, Step(w, q),
           Busy(worker[w]), Busy(q), q.s = worker[w].s, q.fence = worker[w].fence,
           Unpublished(q) => Unpublished(worker[w]),
           Untouched(q) => Untouched(worker[w]),
           UNCHANGED <<agent, file, ev, turn, resume, seq, lost, changes>>, faults' \in Nat,
           PassInv(q, ev[q.s], file[q.s], resume[q.s][Parent], turn[q.s])
    PROVE  EvidenceInv'
<1>1. Quiet(w, q)
  BY DEF Quiet, Step, EvidenceInv, TypeOK, Retired
<1> QED
  BY <1>1, QuietKeeps

(* What the invariant says of one worker and of the session it is on. *)
LEMMA WorkerFacts ==
    ASSUME EvidenceInv, NEW w \in Workers
    PROVE  LET p == worker[w]
           IN  /\ p \in Run /\ p.s \in Sessions /\ p.src \in Sources
               /\ PassInv(p, ev[p.s], file[p.s], resume[p.s][Parent], turn[p.s])
               /\ ev[p.s] \in Entry /\ turn[p.s] \in SUBSET Row
               /\ file[p.s] \in [Sources -> OnDisk]
               /\ file[p.s][p.src] \in OnDisk /\ file[p.s][Parent] \in OnDisk
               /\ resume[p.s][p.src] \in Stamp /\ resume[p.s][Parent] \in Stamp
               /\ faults \in Nat
BY QueueAssumption DEF EvidenceInv, TypeOK, PassesInv, Run

(* The start of a pass keeps the invariant. *)
LEMMA StartPassKeeps ==
    ASSUME EvidenceInv, NEW w \in Workers, StartPass(w)
    PROVE  EvidenceInv'
<1> DEFINE p == worker[w]
           kids == {src \in Sources \ {Parent} : file[p.s][src].len > 0}
           q == [p EXCEPT !.pc = "open", !.fp = ev[p.s].fp, !.src = Parent,
                          !.todo = kids, !.all = Combined(file[p.s], kids)]
<1>0. /\ p \in Run /\ p.s \in Sessions /\ p.src \in Sources
      /\ PassInv(p, ev[p.s], file[p.s], resume[p.s][Parent], turn[p.s])
      /\ ev[p.s] \in Entry /\ file[p.s] \in [Sources -> OnDisk] /\ faults \in Nat
  BY WorkerFacts
<1>1. p.pc = "start" /\ Busy(p) /\ Unpublished(p) /\ Untouched(p)
  BY DEF StartPass, Busy, Unpublished, Untouched
<1>2. UNCHANGED <<agent, file, ev, turn, resume, seq, lost, changes, faults>>
  BY DEF StartPass
<1>3. CASE ~ ev[p.s].present
  <2>1. Step(w, Idle)
    BY <1>3 DEF StartPass
  <2>2. \A s \in Sessions : \A r \in turn[s] : r.fence # p.fence
    BY <1>1 DEF EvidenceInv, FenceInv
  <2>3. Quiet(w, Idle)
    BY <1>0, <1>1, <1>2, <2>1, <2>2, IdleIs
    DEF Quiet, Step, EvidenceInv, TypeOK, Retired, Busy, Unpublished, Untouched
  <2> QED
    BY <2>3, IdlePass, QuietKeeps
<1>4. CASE ev[p.s].present /\ file[p.s][Parent].len = 0
  <2>1. Step(w, Apply(p, "missing"))
    BY <1>4 DEF StartPass
  <2>2. /\ Apply(p, "missing") \in Run /\ Apply(p, "missing").pc = "apply"
        /\ Apply(p, "missing").s = p.s /\ Apply(p, "missing").fence = p.fence
    BY <1>0, ApplyIs
  <2> HIDE DEF p
  <2> DEFINE a == Apply(p, "missing")
  <2>3. PassInv(a, ev[a.s], file[a.s], resume[a.s][Parent], turn[a.s])
    BY <1>0, ApplyPass
  <2> HIDE DEF a
  <2>4. /\ a \in Run /\ Busy(a) /\ Unpublished(a) /\ ~ Untouched(a)
        /\ a.s = p.s /\ a.fence = p.fence /\ Step(w, a)
    BY <2>1, <2>2 DEF a, Busy, Unpublished, Untouched
  <2> QED
    BY <1>0, <1>1, <1>2, <2>3, <2>4, StepKeeps DEF p
<1>5. CASE ev[p.s].present /\ file[p.s][Parent].len # 0
  <2>1. Step(w, q)
    BY <1>5 DEF StartPass
  <2>2. kids \in SUBSET Sources /\ Parent \notin kids
    OBVIOUS
  <2>3. Combined(file[p.s], kids) \in [Sources -> Stamp]
    BY <1>0, OnDiskIs, NoVersionIs, QueueAssumption DEF Combined, Stamp
  <2>4. ev[p.s].fp \in Stamp
    BY <1>0 DEF Entry
  <2> DEFINE c == Combined(file[p.s], kids)
             x == ev[p.s].fp
  <2>5. q = [p EXCEPT !.pc = "open", !.fp = x, !.src = Parent, !.todo = kids, !.all = c]
    OBVIOUS
  <2>6. c \in [Sources -> Stamp] /\ x \in Stamp
    BY <2>3, <2>4
  <2> HIDE DEF p, kids, c, x, q
  <2>7. q \in Run
    BY <1>0, <2>2, <2>5, <2>6, QueueAssumption DEF Run, Points
  <2>8. /\ q.pc = "open" /\ q.src = Parent /\ q.todo = kids /\ q.s = p.s /\ q.bad = p.bad
        /\ q.fence = p.fence /\ q.mode = p.mode /\ q.outcome = p.outcome
        /\ q.at = p.at
    BY <1>0, <2>5 DEF Run
  <2>10. p.src = Parent /\ p.mode[Parent] = "none" /\ p.outcome = "none" /\ p.at = 0
    BY <1>0, <1>1 DEF PassInv, Shape
  <2>11. Shape(q, file[p.s])
    BY <2>2, <2>8, <2>10 DEF Shape
  <2>12. Unpublished(q) /\ Holds(ev[p.s], q) => ~ q.bad
    BY <1>0, <1>1, <2>8 DEF PassInv, Reading, Holds
  <2>13. PassInv(q, ev[q.s], file[q.s], resume[q.s][Parent], turn[q.s])
    BY <2>8, <2>10, <2>11, <2>12 DEF PassInv, Reading
  <2>14. Busy(q) /\ Unpublished(q)
    BY <2>8 DEF Busy, Unpublished
  <2> QED
    BY <1>0, <1>1, <1>2, <2>1, <2>7, <2>8, <2>13, <2>14, StepKeeps DEF p
<1> QED
  BY <1>3, <1>4, <1>5

(* The stream ends, or goes on with another source.                              *)
LEMMA EndsKeeps ==
    ASSUME EvidenceInv, NEW w \in Workers, worker[w].pc \in {"open", "read"},
           NEW o \in {"all-read", "missing", "unreadable", "changed"},
           o = "all-read" => worker[w].mode[Parent] # "none",
           Step(w, Ends(worker[w], o)), faults' \in Nat,
           UNCHANGED <<agent, file, ev, turn, resume, seq, lost, changes>>
    PROVE  EvidenceInv'
<1> DEFINE p == worker[w]
           q == Ends(p, o)
<1>0. /\ p \in Run /\ PassInv(p, ev[p.s], file[p.s], resume[p.s][Parent], turn[p.s])
  BY WorkerFacts
<1>1. /\ q \in Run /\ q.pc = "end" /\ q.s = p.s /\ q.fence = p.fence
  BY <1>0, EndsIs
<1>2. PassInv(q, ev[p.s], file[p.s], resume[p.s][Parent], turn[p.s])
  BY <1>0, PassWithin, EndsPass
<1>3. Step(w, q)
  OBVIOUS
<1> HIDE DEF q
<1>4. Busy(p) /\ Busy(q) /\ Unpublished(p) /\ ~ Untouched(q)
  BY <1>1 DEF Busy, Unpublished, Untouched
<1> QED
  BY <1>1, <1>2, <1>3, <1>4, StepKeeps

(* Leaving a child source for the next one keeps the invariant. *)
LEMMA NextSourceKeeps ==
    ASSUME EvidenceInv, NEW w \in Workers, worker[w].pc \in {"open", "read"},
           worker[w].src # Parent, Step(w, NextSource(worker[w])), faults' \in Nat,
           UNCHANGED <<agent, file, ev, turn, resume, seq, lost, changes>>
    PROVE  EvidenceInv'
<1> DEFINE p == worker[w]
           q == NextSource(p)
<1>0. /\ p \in Run /\ PassInv(p, ev[p.s], file[p.s], resume[p.s][Parent], turn[p.s])
  BY WorkerFacts
<1>1. Parent \notin p.todo /\ p.mode[Parent] # "none"
  BY <1>0 DEF PassInv, Shape
<1>2. /\ q \in Run /\ q.s = p.s /\ q.fence = p.fence
      /\ \/ q.pc = "end" /\ q.outcome = "all-read"
         \/ q.pc = "open" /\ q.src # Parent /\ q.outcome = p.outcome
  BY <1>0, <1>1, NextSourceIs
<1>3. PassInv(q, ev[p.s], file[p.s], resume[p.s][Parent], turn[p.s])
  BY <1>0, <1>1, PassWithin, NextPass
<1>4. Step(w, q)
  OBVIOUS
<1> HIDE DEF q
<1>5. Busy(p) /\ Busy(q) /\ Unpublished(p) /\ ~ Untouched(q)
  BY <1>2 DEF Busy, Unpublished, Untouched
<1> QED
  BY <1>2, <1>3, <1>4, <1>5, StepKeeps

(* What a worker that may write knows: its rows are not the visible ones.        *)
LEMMA ActiveIs ==
    ASSUME EvidenceInv, NEW w \in Workers, Unpublished(worker[w])
    PROVE  /\ ev[worker[w].s].pub # worker[w].fence
           /\ Active(ev[worker[w].s], worker[w]) <=> Holds(ev[worker[w].s], worker[w])
           /\ worker[w].fence # 0
BY WorkerFacts DEF EvidenceInv, FenceInv, Active, Unpublished, Busy

(* Rows of the pass's own fence come or go.                                      *)
LEMMA RowsKeep ==
    ASSUME EvidenceInv, NEW w \in Workers, NEW q \in Run, Step(w, q),
           Unpublished(worker[w]), q.pc = "read", q.s = worker[w].s,
           q.fence = worker[w].fence, NEW rows \in SUBSET Row,
           turn' = [turn EXCEPT ![q.s] = rows],
           \A r \in Row : r.fence # q.fence => (r \in rows <=> r \in turn[q.s]),
           UNCHANGED <<agent, file, ev, resume, seq, lost, changes>>, faults' \in Nat,
           PassInv(q, ev[q.s], file[q.s], resume[q.s][Parent], rows)
    PROVE  EvidenceInv'
<1>0. turn \in [Sessions -> SUBSET Row] /\ q.s \in Sessions
  BY DEF EvidenceInv, TypeOK, Run
<1>1. turn'[q.s] = rows /\ \A s \in Sessions : s # q.s => turn'[s] = turn[s]
  BY <1>0
<1>2. ev[q.s].pub # q.fence
  BY ActiveIs
<1>3. Busy(worker[w]) /\ Busy(q) /\ ~ Untouched(q) /\ Unpublished(q)
  BY DEF Busy, Unpublished, Untouched
<1>4. \A s \in Sessions : \A r \in turn'[s] :
          r \in turn[s] \/ (s = q.s /\ r.fence = q.fence /\ r.fence # ev[s].pub)
  BY <1>0, <1>1, <1>2
<1>5. \A s \in Sessions : \A r \in turn[s] :
          r \in turn'[s] \/ (s = q.s /\ r.fence = q.fence /\ r.fence # ev[s].pub)
  BY <1>0, <1>1, <1>2
<1>6. turn' \in [Sessions -> SUBSET Row]
  BY <1>0
<1>7. Quiet(w, q)
  BY <1>3, <1>4, <1>5, <1>6 DEF Quiet, Step, EvidenceInv, TypeOK, Retired
<1> QED
  BY <1>1, <1>7, QuietKeeps

(* delete_then_full_read, from the pass p that the visit continues.              *)
LEMMA FullReadKeeps ==
    ASSUME EvidenceInv, NEW w \in Workers, NEW p \in Run,
           worker[w].pc \in {"open", "read"},
           p.s = worker[w].s, p.fence = worker[w].fence, p.src = worker[w].src,
           p.todo = worker[w].todo, p.mode = worker[w].mode, p.read = worker[w].read,
           p.keep = worker[w].keep, p.outcome = worker[w].outcome,
           p.ver \in Versions, NotBefore(file[p.s][p.src], p.ver),
           NEW try \in {"again", "plain"}, FullRead(w, p, try), faults' \in Nat,
           UNCHANGED <<agent, file, ev, resume, seq, lost, changes>>
    PROVE  EvidenceInv'
<1> DEFINE e == ev[p.s]
           r0 == resume[p.s][Parent]
<1>0. /\ worker[w] \in Run /\ p.s \in Sessions /\ turn[p.s] \in SUBSET Row
      /\ PassInv(worker[w], e, file[p.s], r0, turn[p.s])
  BY WorkerFacts
<1>1. Unpublished(worker[w])
  BY DEF Unpublished
<1>2. e.pub # p.fence /\ (Active(e, p) <=> Holds(e, p))
  BY <1>1, ActiveIs DEF Active, Holds
<1>3. Within(p, e, file[p.s], r0, turn[p.s])
  <2>1. Within(worker[w], e, file[p.s], r0, turn[p.s])
    BY <1>0, PassWithin
  <2> QED
    BY <2>1, SameVisited DEF Within, Holds
<1>4. p.src = Parent <=> p.mode[Parent] = "none"
  BY <1>0 DEF PassInv, Shape
<1>5. CASE Active(e, p)
  <2> DEFINE q == [p EXCEPT !.pc = "read", !.at = 0, !.try = try, !.bad = FALSE]
             rows == turn[p.s] \ Flushed(p)
  <2>1. Step(w, q) /\ turn' = [turn EXCEPT ![p.s] = rows]
    BY <1>5 DEF FullRead
  <2>2. /\ q \in Run /\ q.pc = "read" /\ q.s = p.s /\ q.fence = p.fence /\ q.src = p.src
        /\ q.todo = p.todo /\ q.mode = p.mode /\ q.read = p.read /\ q.keep = p.keep
        /\ q.outcome = p.outcome /\ q.ver = p.ver /\ q.at = 0 /\ q.try = try /\ ~ q.bad
    BY DEF Run, Points, Tries
  <2>3. /\ rows \in SUBSET Row
        /\ \A r \in Row : r.fence # p.fence => (r \in rows <=> r \in turn[p.s])
        /\ RowsOf(rows, e.pub) = RowsOf(turn[p.s], e.pub)
        /\ p.src = Parent => RowsOf(rows, p.fence) = {}
        /\ p.src # Parent => RowsOf(rows, p.fence) = RowsOf(turn[p.s], p.fence)
    BY <1>0, <1>2 DEF Flushed, RowsOf
  <2> HIDE DEF q, rows, e, r0
  <2>4. q.src = Parent => Visit(q, file[p.s][Parent], r0, RowsOf(rows, q.fence))
    <3>1. q.ver.len \in Nat /\ q.try # "resume"
      BY <2>2, VersionIs
    <3> QED
      BY <2>2, <2>3, <3>1, NoRows DEF Visit, Behind
  <2>5. PassInv(q, e, file[p.s], r0, rows)
    BY <1>3, <1>4, <2>2, <2>3, <2>4, VisitPass
  <2>6. /\ turn' = [turn EXCEPT ![q.s] = rows] /\ rows \in SUBSET Row
        /\ \A r \in Row : r.fence # q.fence => (r \in rows <=> r \in turn[q.s])
        /\ q.s = worker[w].s /\ q.fence = worker[w].fence
    BY <2>1, <2>2, <2>3
  <2>7. PassInv(q, ev[q.s], file[q.s], resume[q.s][Parent], rows)
    BY <2>2, <2>5 DEF e, r0
  <2>8. Step(w, q) /\ q \in Run /\ q.pc = "read"
    BY <2>1, <2>2
  <2> QED
    BY <1>1, <2>6, <2>7, <2>8, RowsKeep
<1>6. CASE ~ Active(e, p)
  <2> DEFINE q == Ends(p, "unreadable")
  <2>1. Step(w, q) /\ turn' = turn
    BY <1>6 DEF FullRead
  <2>2. q \in Run /\ q.pc = "end" /\ q.s = p.s /\ q.fence = p.fence
    BY EndsIs
  <2>3. PassInv(q, e, file[p.s], r0, turn[p.s])
    BY <1>3, EndsPass
  <2> HIDE DEF q
  <2>4. Busy(worker[w]) /\ Busy(q) /\ ~ Untouched(q)
    BY <2>2 DEF Busy, Untouched
  <2> QED
    BY <1>1, <2>1, <2>2, <2>3, <2>4, StepKeeps
<1> QED
  BY <1>5, <1>6

(* Opening a source, to resume it or to read it in full, keeps the invariant. *)
LEMMA OpenSourceKeeps ==
    ASSUME EvidenceInv, NEW w \in Workers, OpenSource(w)
    PROVE  EvidenceInv'
<1> DEFINE p == worker[w]
           f == file[p.s][p.src]
           r == resume[p.s][p.src]
           opened == [p EXCEPT !.pc = "read", !.ver = f]
           plain == [opened EXCEPT !.try = IF agent[p.s] = "plain" THEN "plain" ELSE "first"]
           behind == [opened EXCEPT !.at = r.len, !.try = "resume"]
<1>0. /\ p \in Run /\ p.s \in Sessions /\ p.src \in Sources /\ f \in OnDisk /\ r \in Stamp
      /\ PassInv(p, ev[p.s], file[p.s], resume[p.s][Parent], turn[p.s])
      /\ faults \in Nat /\ turn[p.s] \in SUBSET Row
  BY WorkerFacts
<1>1. p.pc = "open" /\ p.pc \in {"open", "read"} /\ Unpublished(p) /\ Busy(p)
  BY DEF OpenSource, Unpublished, Busy
<1>2. UNCHANGED <<agent, file, ev, resume, seq, lost, changes, faults>>
  BY DEF OpenSource
<1>3. f.len > 0 => f \in Versions /\ NotBefore(f, f)
  BY <1>0, OnDiskIs DEF NotBefore
<1>4. Within(p, ev[p.s], file[p.s], resume[p.s][Parent], turn[p.s])
  BY <1>0, <1>1, PassWithin
<1>5. p.src = Parent <=> p.mode[Parent] = "none"
  BY <1>0, <1>1 DEF PassInv, Shape
<1>6. CASE f.len = 0 /\ Step(w, IF p.src = Parent THEN Ends(p, "missing") ELSE NextSource(p))
             /\ UNCHANGED turn
  <2>1. CASE p.src = Parent
    BY <1>0, <1>1, <1>2, <1>6, <2>1, EndsKeeps
  <2>2. CASE p.src # Parent
    BY <1>0, <1>1, <1>2, <1>6, <2>2, NextSourceKeeps
  <2> QED
    BY <2>1, <2>2
<1>7. ASSUME f.len > 0, NEW q \in Run, q.pc = "read", q.fence = p.fence, q.src = p.src,
             q.s = p.s, q.todo = p.todo, q.mode = p.mode, q.read = p.read,
             q.keep = p.keep, q.outcome = p.outcome, q.ver = f, q.bad = p.bad,
             \/ q.try # "resume" /\ q.at = p.at /\ p.at = 0
             \/ q.try = "resume" /\ r # NoVersion /\ r.epoch = f.epoch /\ r.len <= f.len
                   /\ q.at = r.len,
             Step(w, q), UNCHANGED turn
      PROVE  EvidenceInv'
  <2> DEFINE e == ev[p.s]
  <2>1. Holds(e, q) => ~ q.bad
    BY <1>0, <1>1, <1>7 DEF PassInv, Reading, Holds
  <2>2. q.src = Parent => RowsOf(turn[p.s], q.fence) = {}
    BY <1>0, <1>1, <1>7 DEF EvidenceInv, FenceInv, Untouched, RowsOf
  <2>3. Indexed({}, r.len, r.len) /\ r.len \in Nat /\ f.len \in Nat
    BY <1>0, StampIs, OnDiskIs DEF Indexed
  <2>4. q.src = Parent => Visit(q, file[p.s][Parent], resume[p.s][Parent],
                                RowsOf(turn[p.s], q.fence))
    BY <1>7, <2>2, <2>3, NoRows DEF Visit, Behind, Continues
  <2>5. PassInv(q, e, file[p.s], resume[p.s][Parent], turn[p.s])
    BY <1>0, <1>3, <1>4, <1>5, <1>7, <2>1, <2>4, VisitPass
  <2>6. Busy(q) /\ ~ Untouched(q)
    BY <1>7 DEF Busy, Untouched
  <2> QED
    BY <1>0, <1>1, <1>2, <1>7, <2>5, <2>6, StepKeeps
<1>8. p.at = 0
  BY <1>0, <1>1 DEF PassInv, Shape
<1>9. CASE f.len > 0 /\ r = NoVersion /\ Step(w, plain) /\ UNCHANGED turn
  <2> DEFINE try == IF agent[p.s] = "plain" THEN "plain" ELSE "first"
  <2>1. plain = [p EXCEPT !.pc = "read", !.ver = f, !.try = try]
    OBVIOUS
  <2>2. try \in Tries /\ try # "resume" /\ f \in Stamp
    BY <1>3, <1>9, VersionIs DEF Tries
  <2>3. Step(w, plain) /\ f.len > 0 /\ UNCHANGED turn
    BY <1>9
  <2> HIDE DEF p, f, try, plain
  <2>4. /\ plain \in Run /\ plain.pc = "read" /\ plain.fence = p.fence /\ plain.src = p.src
        /\ plain.s = p.s /\ plain.todo = p.todo /\ plain.mode = p.mode /\ plain.read = p.read
        /\ plain.keep = p.keep /\ plain.outcome = p.outcome /\ plain.ver = f
        /\ plain.bad = p.bad /\ plain.try = try /\ plain.at = p.at
    BY <1>0, <2>1, <2>2 DEF Run, Points
  <2> QED
    BY <1>7, <1>8, <2>2, <2>3, <2>4
<1>10. CASE /\ f.len > 0 /\ r # NoVersion /\ r.epoch = f.epoch /\ r.len <= f.len
            /\ Step(w, behind) /\ UNCHANGED turn
  <2> DEFINE n == r.len
  <2>1. behind = [p EXCEPT !.pc = "read", !.ver = f, !.at = n, !.try = "resume"]
    OBVIOUS
  <2>2. n \in Nat /\ f \in Stamp
    BY <1>0, <1>3, <1>10, VersionIs, StampIs
  <2>3. /\ f.len > 0 /\ r # NoVersion /\ r.epoch = f.epoch /\ r.len <= f.len
        /\ Step(w, behind) /\ UNCHANGED turn /\ n = r.len
    BY <1>10
  <2> HIDE DEF p, f, r, n, behind
  <2>4. /\ behind \in Run /\ behind.pc = "read" /\ behind.fence = p.fence
        /\ behind.src = p.src /\ behind.s = p.s /\ behind.todo = p.todo
        /\ behind.mode = p.mode /\ behind.read = p.read /\ behind.keep = p.keep
        /\ behind.outcome = p.outcome /\ behind.ver = f
        /\ behind.bad = p.bad /\ behind.try = "resume" /\ behind.at = n
    BY <1>0, <2>1, <2>2 DEF Run, Points, Tries
  <2> QED
    BY <1>7, <2>3, <2>4
<1>11. CASE f.len > 0 /\ FullRead(w, opened, "again")
  <2>1. f \in Stamp /\ f \in Versions /\ NotBefore(f, f)
    BY <1>3, <1>11, VersionIs
  <2>2. FullRead(w, opened, "again")
    BY <1>11
  <2> HIDE DEF f
  <2>3. /\ opened \in Run /\ opened.fence = p.fence /\ opened.src = p.src
        /\ opened.s = p.s /\ opened.todo = p.todo /\ opened.mode = p.mode
        /\ opened.read = p.read /\ opened.keep = p.keep /\ opened.outcome = p.outcome
        /\ opened.ver = f
    BY <1>0, <2>1 DEF Run, Points
  <2>4. NotBefore(file[opened.s][opened.src], opened.ver)
    BY <2>1, <2>3 DEF f
  <2> HIDE DEF opened
  <2> QED
    BY <1>0, <1>1, <1>2, <2>1, <2>2, <2>3, <2>4, FullReadKeeps
<1> QED
  BY <1>6, <1>9, <1>10, <1>11 DEF OpenSource

(* The next row joins the rows the visit has written.                            *)
LEMMA IndexedNext ==
    ASSUME NEW rs, NEW lo \in Nat, NEW n \in Nat, lo <= n, Indexed(rs, lo, n),
           NEW x, x.index = n + 1
    PROVE  Indexed(rs \cup {x}, lo, n + 1)
BY DEF Indexed

(* Staging the next row keeps the invariant. *)
LEMMA ReadRowKeeps ==
    ASSUME EvidenceInv, NEW w \in Workers, ReadRow(w)
    PROVE  EvidenceInv'
<1> DEFINE p == worker[w]
           f == file[p.s][p.src]
           e == ev[p.s]
           r0 == resume[p.s][Parent]
           row == [src |-> p.src, by |-> <<p.fence, p.try>>, fence |-> p.fence,
                   epoch |-> f.epoch, index |-> p.at + 1]
<1>0. /\ p \in Run /\ p.s \in Sessions /\ p.src \in Sources /\ f \in OnDisk
      /\ PassInv(p, e, file[p.s], r0, turn[p.s])
      /\ faults \in Nat /\ turn[p.s] \in SUBSET Row /\ r0 \in Stamp
  BY WorkerFacts
<1>1. p.pc = "read" /\ p.pc \in {"open", "read"} /\ Unpublished(p) /\ Busy(p) /\ ~ p.bad
      /\ ~ (p.at >= f.len)
  BY DEF ReadRow, Unpublished, Busy, AtEnd
<1>2. UNCHANGED <<agent, file, ev, resume, seq, lost, changes, faults>>
  BY DEF ReadRow
<1>3. Within(p, e, file[p.s], r0, turn[p.s])
  BY <1>0, <1>1, PassWithin
<1>4. /\ p.src = Parent <=> p.mode[Parent] = "none"
      /\ p.ver \in Versions /\ NotBefore(file[p.s][p.src], p.ver)
  BY <1>0, <1>1 DEF PassInv, Shape
<1>5. e.pub # p.fence /\ (Active(e, p) <=> Holds(e, p))
  BY <1>1, ActiveIs
<1>6. CASE Active(e, p)
  <2> DEFINE n == p.at + 1
             q == [p EXCEPT !.at = n]
             rows == turn[p.s] \cup {row}
  <2>1. Step(w, q) /\ turn' = [turn EXCEPT ![p.s] = rows]
    BY <1>6 DEF ReadRow
  <2>2. n \in Nat /\ p.at \in Nat /\ n = p.at + 1 /\ f.len \in Nat /\ p.at < f.len
    BY <1>0, <1>1, OnDiskIs DEF Run
  <2>3. row \in Row /\ row.fence = p.fence /\ row.src = p.src /\ row.index = n
        /\ row.epoch = f.epoch
    BY <1>0, <2>2, OnDiskIs DEF Row, Run
  <2> HIDE DEF n, row
  <2>4. /\ q \in Run /\ q.pc = "read" /\ q.s = p.s /\ q.fence = p.fence /\ q.src = p.src
        /\ q.todo = p.todo /\ q.mode = p.mode /\ q.read = p.read /\ q.keep = p.keep
        /\ q.outcome = p.outcome /\ q.ver = p.ver /\ q.at = n /\ q.try = p.try /\ ~ q.bad
    BY <1>0, <1>1, <2>2 DEF Run
  <2>5. /\ rows \in SUBSET Row
        /\ \A r \in Row : r.fence # p.fence => (r \in rows <=> r \in turn[p.s])
        /\ RowsOf(rows, e.pub) = RowsOf(turn[p.s], e.pub)
        /\ p.src = Parent => RowsOf(rows, p.fence) = RowsOf(turn[p.s], p.fence) \cup {row}
        /\ p.src # Parent => RowsOf(rows, p.fence) = RowsOf(turn[p.s], p.fence)
    BY <1>0, <1>5, <2>3 DEF RowsOf
  <2> HIDE DEF q, rows, e, r0
  <2>6. ASSUME p.src = Parent
        PROVE  Visit(q, file[p.s][Parent], r0, RowsOf(rows, q.fence))
    <3> DEFINE own == RowsOf(turn[p.s], p.fence)
               behind == Behind(r0, p.try = "resume")
    <3>1. Visit(p, file[p.s][Parent], r0, own)
      BY <1>0, <1>1, <1>5, <1>6, <2>6 DEF PassInv, Reading
    <3>2. behind \in Nat
      BY <1>0, StampIs DEF Behind
    <3>3. /\ Indexed(own, behind, p.at) /\ behind <= p.at
          /\ p.try = "resume" => Continues(r0, p.ver)
          /\ f = p.ver => p.at <= p.ver.len /\ OfEpoch(own, p.ver.epoch)
      BY <2>6, <3>1 DEF Visit
    <3> HIDE DEF own, behind
    <3>4. Indexed(own \cup {row}, behind, n)
      BY <2>2, <2>3, <3>2, <3>3, IndexedNext
    <3>5. behind <= n
      BY <2>2, <3>2, <3>3
    <3>6. f = p.ver => n <= p.ver.len /\ OfEpoch(own \cup {row}, p.ver.epoch)
      BY <2>2, <2>3, <3>3 DEF OfEpoch
    <3>7. RowsOf(rows, q.fence) = own \cup {row}
      BY <2>4, <2>5, <2>6 DEF own
    <3> QED
      BY <2>4, <2>6, <3>3, <3>4, <3>5, <3>6, <3>7 DEF Visit, behind
  <2>7. PassInv(q, e, file[p.s], r0, rows)
    BY <1>0, <1>3, <1>4, <2>4, <2>5, <2>6, VisitPass
  <2>8. /\ turn' = [turn EXCEPT ![q.s] = rows] /\ rows \in SUBSET Row
        /\ \A r \in Row : r.fence # q.fence => (r \in rows <=> r \in turn[q.s])
    BY <2>1, <2>4, <2>5
  <2>9. PassInv(q, ev[q.s], file[q.s], resume[q.s][Parent], rows)
    BY <2>4, <2>7 DEF e, r0
  <2> QED
    BY <1>0, <1>1, <1>2, <2>1, <2>4, <2>8, <2>9, RowsKeep
<1>7. CASE ~ Active(e, p)
  <2> DEFINE q == [p EXCEPT !.bad = TRUE]
  <2>1. Step(w, q) /\ turn' = turn
    BY <1>7 DEF ReadRow
  <2>2. /\ q \in Run /\ q.pc = "read" /\ q.s = p.s /\ q.fence = p.fence /\ q.src = p.src
        /\ q.todo = p.todo /\ q.mode = p.mode /\ q.read = p.read /\ q.keep = p.keep
        /\ q.outcome = p.outcome /\ q.ver = p.ver
    BY <1>0, <1>1 DEF Run
  <2> HIDE DEF q
  <2>3. ~ Holds(e, q)
    BY <1>5, <1>7, <2>2 DEF Holds
  <2>4. Shape(q, file[p.s])
    BY <1>0, <1>1, <2>2 DEF PassInv, Shape
  <2>5. PassInv(q, ev[q.s], file[q.s], resume[q.s][Parent], turn[q.s])
    BY <2>2, <2>3, <2>4 DEF PassInv
  <2>6. Busy(q) /\ ~ Untouched(q)
    BY <2>2 DEF Busy, Untouched
  <2> QED
    BY <1>0, <1>1, <1>2, <2>1, <2>2, <2>5, <2>6, StepKeeps
<1> QED
  BY <1>6, <1>7

(* The pass after the current source was accepted with the snapshot k.           *)
Accepted(p, k) ==
    [p EXCEPT !.mode[p.src] = IF p.try = "resume" THEN "resumed" ELSE "full",
              !.keep[p.src] = k,
              !.read = IF p.src = Parent THEN p.ver ELSE @]

(* The record of a pass that has accepted the source it read. *)
LEMMA AcceptedIs ==
    ASSUME NEW p \in Run, NEW k \in Stamp
    PROVE  LET a == Accepted(p, k)
           IN  /\ a \in Run /\ a.s = p.s /\ a.fence = p.fence /\ a.todo = p.todo
               /\ a.outcome = p.outcome
               /\ a.mode = [p.mode EXCEPT ![p.src] =
                               IF p.try = "resume" THEN "resumed" ELSE "full"]
               /\ a.keep = [p.keep EXCEPT ![p.src] = k]
               /\ a.read = IF p.src = Parent THEN p.ver ELSE p.read
<1> DEFINE m == [p.mode EXCEPT ![p.src] = IF p.try = "resume" THEN "resumed" ELSE "full"]
           c == [p.keep EXCEPT ![p.src] = k]
           x == IF p.src = Parent THEN p.ver ELSE p.read
           a == Accepted(p, k)
<1>1. a = [p EXCEPT !.mode = m, !.keep = c, !.read = x]
  BY DEF Accepted
<1>2. m \in [Sources -> Modes] /\ c \in [Sources -> Stamp] /\ x \in Stamp
  BY DEF Run, Modes
<1> HIDE DEF m, c, x, a
<1>3. /\ a \in Run /\ a.s = p.s /\ a.fence = p.fence /\ a.todo = p.todo
      /\ a.outcome = p.outcome /\ a.mode = m /\ a.keep = c /\ a.read = x
  BY <1>1, <1>2 DEF Run
<1> QED
  BY <1>3 DEF m, c, x, a

(* A source is accepted when the file is still the version it was opened at and  *)
(* the reader is at its end.                                                     *)
LEMMA AcceptedWithin ==
    ASSUME EvidenceInv, NEW w \in Workers, worker[w].pc = "read",
           file[worker[w].s][worker[w].src] = worker[w].ver,
           worker[w].at >= worker[w].ver.len,
           NEW k \in {NoVersion, worker[w].ver}
    PROVE  LET p == worker[w]
               a == Accepted(p, k)
           IN  /\ a \in Run /\ a.s = p.s /\ a.fence = p.fence /\ a.mode[Parent] # "none"
               /\ Within(a, ev[p.s], file[p.s], resume[p.s][Parent], turn[p.s])
<1> DEFINE p == worker[w]
           a == Accepted(p, k)
           e == ev[p.s]
           r0 == resume[p.s][Parent]
           own == RowsOf(turn[p.s], p.fence)
           seen == RowsOf(turn[p.s], e.pub)
<1>0. /\ p \in Run /\ p.s \in Sessions /\ p.src \in Sources
      /\ PassInv(p, e, file[p.s], r0, turn[p.s]) /\ r0 \in Stamp
  BY WorkerFacts
<1>1. Within(p, e, file[p.s], r0, turn[p.s])
  BY <1>0, PassWithin
<1>2. /\ p.src = Parent <=> p.mode[Parent] = "none"
      /\ p.ver \in Versions /\ NotBefore(file[p.s][p.src], p.ver)
  BY <1>0 DEF PassInv, Shape
<1>3. k \in Stamp /\ p.mode \in [Sources -> Modes] /\ p.keep \in [Sources -> Stamp]
  BY <1>0, NoVersionIs DEF Run
<1>4. /\ a \in Run /\ a.s = p.s /\ a.fence = p.fence /\ a.todo = p.todo
      /\ a.outcome = p.outcome
      /\ a.mode = [p.mode EXCEPT ![p.src] = IF p.try = "resume" THEN "resumed" ELSE "full"]
      /\ a.keep = [p.keep EXCEPT ![p.src] = k]
      /\ a.read = IF p.src = Parent THEN p.ver ELSE p.read
  BY <1>0, <1>3, AcceptedIs
<1>5. k \in {NoVersion, p.ver} /\ p.at >= p.ver.len /\ p.pc = "read"
      /\ file[p.s][p.src] = p.ver
  OBVIOUS
<1> HIDE DEF a, p
<1>6. CASE p.src # Parent
  <2>1. a.mode[Parent] = p.mode[Parent] /\ a.keep[Parent] = p.keep[Parent] /\ a.read = p.read
    BY <1>3, <1>4, <1>6, QueueAssumption
  <2>2. a.mode[Parent] # "none" /\ Holds(e, a) => Visited(a, r0, own, seen)
    BY <1>1, <1>4, <2>1 DEF Within, Holds, Visited
  <2>3. Within(a, e, file[p.s], r0, turn[p.s])
    BY <1>1, <1>4, <2>1, <2>2 DEF Within
  <2> QED
    BY <1>2, <1>4, <1>6, <2>1, <2>3 DEF p, a
<1>7. CASE p.src = Parent
  <2>1. /\ a.mode[Parent] = IF p.try = "resume" THEN "resumed" ELSE "full"
        /\ a.keep[Parent] = k /\ a.read = p.ver
    BY <1>3, <1>4, <1>7, QueueAssumption
  <2>2. ASSUME Holds(e, p) PROVE Visited(a, r0, own, seen)
    <3>1. Visit(p, file[p.s][Parent], r0, own)
      BY <1>0, <1>5, <1>7, <2>2 DEF PassInv, Reading, Unpublished
    <3>2. p.at \in Nat /\ p.ver.len \in Nat
      BY <1>0, <1>2, VersionIs DEF Run
    <3>3. p.at = p.ver.len /\ OfEpoch(own, p.ver.epoch)
      BY <1>5, <1>7, <3>1, <3>2 DEF Visit
    <3>4. a.mode[Parent] = "resumed" <=> p.try = "resume"
      BY <2>1
    <3>5. \A v \in Versions : Reads(seen, v) => NotBefore(p.ver, v)
      BY <1>0, <1>5, <1>7 DEF EvidenceInv, StoreInv, ShownInv
    <3>6. Indexed(own, Behind(r0, p.try = "resume"), p.ver.len)
          /\ (p.try = "resume" => Continues(r0, p.ver))
      BY <3>1, <3>3 DEF Visit
    <3>7. Behind(r0, a.mode[Parent] = "resumed") = Behind(r0, p.try = "resume")
      BY <3>4 DEF Behind
    <3> QED
      BY <2>1, <3>3, <3>4, <3>5, <3>6, <3>7 DEF Visited
  <2>3. a.mode[Parent] # "none"
    BY <2>1
  <2>4. NotBefore(file[p.s][Parent], a.read)
    BY <1>2, <1>7, <2>1
  <2>5. Within(a, e, file[p.s], r0, turn[p.s])
    BY <1>1, <1>2, <1>4, <1>5, <2>1, <2>2, <2>4 DEF Within, Holds
  <2> QED
    BY <1>4, <2>3, <2>5 DEF p, a
<1> QED
  BY <1>6, <1>7

(* The check after the last row, which accepts, retries or drops, keeps the invariant. *)
LEMMA EndReadKeeps ==
    ASSUME EvidenceInv, NEW w \in Workers, EndRead(w)
    PROVE  EvidenceInv'
<1> DEFINE p == worker[w]
           f == file[p.s][p.src]
           e == ev[p.s]
           r0 == resume[p.s][Parent]
           keeps == IF p.try = "plain" THEN {NoVersion}
                    ELSE {p.ver} \cup (IF agent[p.s] = "codex" THEN {NoVersion} ELSE {})
<1>0. /\ p \in Run /\ p.s \in Sessions /\ p.src \in Sources /\ f \in OnDisk
      /\ PassInv(p, e, file[p.s], r0, turn[p.s]) /\ faults \in Nat
  BY WorkerFacts
<1>1. p.pc = "read" /\ p.pc \in {"open", "read"} /\ Unpublished(p) /\ Busy(p)
      /\ (p.bad \/ p.at >= f.len)
  BY DEF EndRead, Unpublished, Busy, AtEnd
<1>2. UNCHANGED <<agent, file, ev, resume, seq, lost, changes, faults>>
  BY DEF EndRead
<1>3. p.ver \in Versions /\ NotBefore(f, p.ver)
  BY <1>0, <1>1 DEF PassInv, Shape
<1>4. CASE Step(w, Ends(p, "unreadable")) /\ UNCHANGED turn
  BY <1>0, <1>1, <1>2, <1>4, EndsKeeps
<1>5. CASE Step(w, Ends(p, "changed")) /\ UNCHANGED turn
  BY <1>0, <1>1, <1>2, <1>5, EndsKeeps
<1>6. CASE FullRead(w, p, "again")
  BY <1>0, <1>1, <1>2, <1>3, <1>6, FullReadKeeps
<1>7. CASE /\ f = p.ver /\ ~ p.bad
           /\ \E k \in keeps : Step(w, NextSource(Accepted(p, k)))
           /\ UNCHANGED turn
  <2>1. PICK k \in keeps : Step(w, NextSource(Accepted(p, k)))
    BY <1>7
  <2>2. k \in {NoVersion, p.ver}
    OBVIOUS
  <2> DEFINE a == Accepted(p, k)
             q == NextSource(a)
  <2>3. /\ a \in Run /\ a.s = p.s /\ a.fence = p.fence /\ a.mode[Parent] # "none"
        /\ Within(a, e, file[p.s], r0, turn[p.s])
    BY <1>1, <1>7, <2>2, AcceptedWithin
  <2> HIDE DEF a
  <2>4. /\ q \in Run /\ q.s = p.s /\ q.fence = p.fence
        /\ \/ q.pc = "end" /\ q.outcome = "all-read"
           \/ q.pc = "open" /\ q.src # Parent /\ q.outcome = a.outcome
    BY <2>3, NextSourceIs DEF Within
  <2>5. PassInv(q, e, file[p.s], r0, turn[p.s])
    BY <2>3, NextPass
  <2>6. Step(w, q)
    BY <2>1 DEF a
  <2> HIDE DEF q
  <2>7. Busy(q) /\ ~ Untouched(q)
    BY <2>4 DEF Busy, Untouched
  <2> QED
    BY <1>0, <1>1, <1>2, <1>7, <2>4, <2>5, <2>6, <2>7, StepKeeps
<1> QED
  BY <1>4, <1>5, <1>6, <1>7 DEF EndRead, Accepted

(* A read that fails keeps the invariant. *)
LEMMA ReadErrorKeeps ==
    ASSUME EvidenceInv, NEW w \in Workers, ReadError(w)
    PROVE  EvidenceInv'
<1> DEFINE p == worker[w]
<1>0. /\ p \in Run /\ PassInv(p, ev[p.s], file[p.s], resume[p.s][Parent], turn[p.s])
      /\ faults' \in Nat
  BY WorkerFacts DEF ReadError
<1>1. UNCHANGED <<agent, file, ev, resume, seq, lost, changes>>
  BY DEF ReadError
<1>2. p.pc = "read" => p.ver \in Versions /\ NotBefore(file[p.s][p.src], p.ver)
  BY <1>0 DEF PassInv, Shape
<1>3. CASE p.pc = "read" /\ (FullRead(w, p, "again") \/ FullRead(w, p, "plain"))
  <2>1. p.pc \in {"open", "read"}
    BY <1>3
  <2>2. PICK try \in {"again", "plain"} : FullRead(w, p, try)
    BY <1>3
  <2> QED
    BY <1>0, <1>1, <1>2, <1>3, <2>1, <2>2, FullReadKeeps
<1>4. CASE /\ p.pc = "open" \/ (p.pc = "read" /\ p.try = "plain")
           /\ Step(w, IF p.src = Parent THEN Ends(p, "unreadable") ELSE NextSource(p))
           /\ UNCHANGED turn
  <2>1. p.pc \in {"open", "read"}
    BY <1>4
  <2>2. CASE p.src = Parent
    BY <1>0, <1>1, <1>4, <2>1, <2>2, EndsKeeps
  <2>3. CASE p.src # Parent
    BY <1>0, <1>1, <1>4, <2>1, <2>3, NextSourceKeeps
  <2> QED
    BY <2>2, <2>3
<1> QED
  BY <1>3, <1>4 DEF ReadError

(* The pass is handed on without its reading.                                    *)
LEMMA ApplyKeeps ==
    ASSUME EvidenceInv, NEW w \in Workers, NEW o \in {"missing", "unreadable", "changed"},
           Unpublished(worker[w]), Step(w, Apply(worker[w], o)), faults' \in Nat,
           UNCHANGED <<agent, file, ev, turn, resume, seq, lost, changes>>
    PROVE  EvidenceInv'
<1> DEFINE p == worker[w]
           q == Apply(p, o)
<1>0. p \in Run
  BY WorkerFacts
<1>1. /\ q \in Run /\ q.pc = "apply" /\ q.s = p.s /\ q.fence = p.fence /\ Step(w, q)
  BY <1>0, ApplyIs
<1>2. PassInv(q, ev[q.s], file[q.s], resume[q.s][Parent], turn[q.s])
  BY <1>0, ApplyPass
<1> HIDE DEF q
<1>3. Busy(p) /\ Busy(q) /\ ~ Untouched(q)
  BY <1>1 DEF Busy, Unpublished, Untouched
<1> QED
  BY <1>1, <1>2, <1>3, StepKeeps

(* A pass that turns to settling before it published keeps the invariant. *)
LEMMA SettlingKeeps ==
    ASSUME EvidenceInv, NEW w \in Workers, NEW c \in BOOLEAN,
           Unpublished(worker[w]), Step(w, Settling(worker[w], c)), faults' \in Nat,
           UNCHANGED <<agent, file, ev, turn, resume, seq, lost, changes>>
    PROVE  EvidenceInv'
<1> DEFINE p == worker[w]
           q == Settling(p, c)
<1>0. p \in Run
  BY WorkerFacts
<1>1. /\ q \in Run /\ q.pc = "settle" /\ q.s = p.s /\ q.fence = p.fence /\ Step(w, q)
  BY <1>0, SettlingIs
<1>2. PassInv(q, ev[q.s], file[q.s], resume[q.s][Parent], turn[q.s])
  BY <1>0, SettlingPass
<1> HIDE DEF q
<1>3. Busy(p) /\ Busy(q) /\ ~ Untouched(q) /\ ~ Unpublished(q)
  BY <1>1 DEF Busy, Unpublished, Untouched
<1> QED
  BY <1>1, <1>2, <1>3, StepKeeps

(* The end of a pass, which decides its outcome, keeps the invariant. *)
LEMMA EndPassKeeps ==
    ASSUME EvidenceInv, NEW w \in Workers, EndPass(w)
    PROVE  EvidenceInv'
<1> DEFINE p == worker[w]
           e == ev[p.s]
           q == [p EXCEPT !.pc = "apply", !.all = NoKeep, !.outcome = "published"]
<1>0. /\ p \in Run /\ PassInv(p, e, file[p.s], resume[p.s][Parent], turn[p.s])
      /\ faults \in Nat
  BY WorkerFacts
<1>1. p.pc = "end" /\ Unpublished(p) /\ Busy(p)
  BY DEF EndPass, Unpublished, Busy
<1>2. UNCHANGED <<agent, file, ev, turn, resume, seq, lost, changes, faults>>
  BY DEF EndPass
<1>3. p.outcome \in {"all-read", "missing", "unreadable", "changed"}
  BY <1>0, <1>1 DEF PassInv, Shape
<1>4. \/ \E o \in {"missing", "unreadable", "changed"} : Step(w, Apply(p, o))
      \/ p.outcome = "all-read" /\ Step(w, q)
  <2> DEFINE computed == IF p.outcome # "all-read" THEN p.outcome
                         ELSE IF Active(e, p) THEN "published" ELSE "unreadable"
  <2>1. /\ computed \in {"missing", "unreadable", "changed", "published"}
        /\ computed = "published" => p.outcome = "all-read"
    BY <1>3
  <2>2. \/ Step(w, Apply(p, "changed"))
        \/ computed = "published" /\ Step(w, q)
        \/ computed # "published" /\ Step(w, Apply(p, computed))
    BY DEF EndPass
  <2> HIDE DEF computed
  <2> QED
    BY <2>1, <2>2
<1>5. CASE \E o \in {"missing", "unreadable", "changed"} : Step(w, Apply(p, o))
  BY <1>0, <1>1, <1>2, <1>5, ApplyKeeps
<1>6. CASE p.outcome = "all-read" /\ Step(w, q)
  <2>1. NoKeep \in [Sources -> Stamp]
    BY NoVersionIs DEF NoKeep
  <2>2. /\ q \in Run /\ q.pc = "apply" /\ q.s = p.s /\ q.fence = p.fence /\ q.mode = p.mode
        /\ q.read = p.read /\ q.keep = p.keep /\ q.todo = p.todo /\ q.bad = p.bad
        /\ q.outcome = "published"
    BY <1>0, <2>1 DEF Run, Points, Outcomes
  <2>3. Step(w, q)
    BY <1>6
  <2> HIDE DEF q
  <2>4. Shape(q, file[p.s])
    BY <1>0, <1>6, <2>2 DEF PassInv, Shape
  <2>5. Holds(e, q) => ~ q.bad /\ (q.mode[Parent] # "none" =>
            Visited(q, resume[p.s][Parent], RowsOf(turn[p.s], q.fence), RowsOf(turn[p.s], e.pub)))
    BY <1>0, <1>1, <2>2, SameVisited DEF PassInv, Reading, Holds
  <2>6. PassInv(q, ev[q.s], file[q.s], resume[q.s][Parent], turn[q.s])
    BY <2>2, <2>4, <2>5 DEF PassInv, Reading
  <2>7. Busy(q) /\ ~ Untouched(q)
    BY <2>2 DEF Busy, Untouched
  <2> QED
    BY <1>0, <1>1, <1>2, <2>2, <2>3, <2>6, <2>7, StepKeeps
<1> QED
  BY <1>4, <1>5, <1>6

(* A lost lease, a panic or a refused publication keeps the invariant. *)
LEMMA StopKeeps ==
    ASSUME EvidenceInv, NEW w \in Workers, RenewFails(w) \/ Panic(w) \/ PublishFails(w)
    PROVE  EvidenceInv'
<1>1. PICK c \in BOOLEAN : Step(w, Settling(worker[w], c))
  BY DEF RenewFails, Panic, PublishFails
<1>2. UNCHANGED <<agent, file, ev, turn, resume, seq, lost, changes>>
  BY DEF RenewFails, Panic, PublishFails
<1>3. faults' \in Nat
  <2>1. faults \in Nat
    BY WorkerFacts
  <2>2. faults' = faults \/ faults' = faults + 1
    BY DEF RenewFails, Panic, PublishFails
  <2> QED
    BY <2>1, <2>2
<1>4. Unpublished(worker[w])
  BY DEF RenewFails, Panic, PublishFails, InPass, Unpublished
<1> QED
  BY <1>1, <1>2, <1>3, <1>4, SettlingKeeps

(* The worker is done with a pass whose entry it has retired or left alone.      *)
LEMMA DoneKeeps ==
    ASSUME EvidenceInv, NEW w \in Workers, Busy(worker[w]), Step(w, Idle),
           NEW e2 \in Entry, Retired(ev[worker[w].s], e2),
           ev' = [ev EXCEPT ![worker[w].s] = e2],
           \/ turn' = [turn EXCEPT ![worker[w].s] = Discard(worker[w].s, worker[w].fence)]
           \/ turn' = turn /\ ev[worker[w].s].pub = worker[w].fence,
           UNCHANGED <<agent, file, resume, seq, lost, changes>>, faults' \in Nat
    PROVE  EvidenceInv'
<1> DEFINE p == worker[w]
<1>0. /\ p.s \in Sessions /\ turn \in [Sessions -> SUBSET Row] /\ ev \in [Sessions -> Entry]
  BY WorkerFacts DEF EvidenceInv, TypeOK
<1>1. /\ turn' \in [Sessions -> SUBSET Row]
      /\ \A s \in Sessions : \A r \in turn'[s] : r \in turn[s]
      /\ \A s \in Sessions : \A r \in turn[s] :
              r \in turn'[s] \/ (s = p.s /\ r.fence = p.fence /\ r.fence # ev[s].pub)
      /\ \A r \in turn'[p.s] : r.fence = p.fence => r.fence = ev[p.s].pub
  BY <1>0 DEF Discard
<1>2. ev' \in [Sessions -> Entry] /\ \A s \in Sessions : Retired(ev[s], ev'[s])
  BY <1>0 DEF Retired
<1>3. Quiet(w, Idle)
  BY <1>1, <1>2, IdleIs
  DEF Quiet, Step, EvidenceInv, TypeOK, Busy, Unpublished, Untouched
<1> QED
  BY <1>3, IdlePass, QuietKeeps

(* Applying the outcome of a pass that does not publish keeps the invariant. *)
LEMMA FailKeeps ==
    ASSUME EvidenceInv, NEW w \in Workers, Fail(w)
    PROVE  EvidenceInv'
<1> DEFINE p == worker[w]
           e == ev[p.s]
           failed == CASE p.outcome = "changed" -> Retried(e, TRUE)
                       [] p.outcome = "missing" -> Failed(e, TRUE)
                       [] p.outcome = "unreadable" ->
                              IF Retries(p, TRUE) THEN Retried(e, TRUE) ELSE Failed(e, FALSE)
           e2 == IF Current(e, p) THEN failed ELSE e
<1>0. /\ p \in Run /\ p.s \in Sessions /\ e \in Entry /\ faults \in Nat
      /\ PassInv(p, e, file[p.s], resume[p.s][Parent], turn[p.s])
      /\ ev \in [Sessions -> Entry]
  BY WorkerFacts DEF EvidenceInv, TypeOK
<1>1. p.pc = "apply" /\ p.outcome # "published" /\ Busy(p)
  BY DEF Fail, Busy
<1>2. p.outcome \in {"missing", "unreadable", "changed"}
  BY <1>0, <1>1 DEF PassInv, Shape
<1>3. failed \in {Retried(e, TRUE), Failed(e, TRUE), Failed(e, FALSE)}
  BY <1>2, Zenon
<1>4. /\ FailEvidence(p, failed) /\ Step(w, Idle)
      /\ UNCHANGED <<agent, file, seq, lost, changes, faults>>
  BY DEF Fail
<1> HIDE DEF failed
<1>5. e2 \in Entry /\ Retired(e, e2)
  <2>1. failed \in Entry /\ Retired(e, failed)
    <3> HIDE DEF e
    <3>1. Retried(e, TRUE) \in Entry /\ Retired(e, Retried(e, TRUE))
      BY <1>0, RetriedIs DEF Retired
    <3>2. Failed(e, TRUE) \in Entry /\ Retired(e, Failed(e, TRUE))
      BY <1>0, FailedIs DEF Retired
    <3>3. Failed(e, FALSE) \in Entry /\ Retired(e, Failed(e, FALSE))
      BY <1>0, FailedIs DEF Retired
    <3> QED
      BY <1>3, <3>1, <3>2, <3>3
  <2> QED
    BY <1>0, <2>1 DEF Retired
<1>6. /\ ev' = [ev EXCEPT ![p.s] = e2] /\ resume' = resume
      /\ turn' = [turn EXCEPT ![p.s] = Discard(p.s, p.fence)]
  BY <1>0, <1>4 DEF FailEvidence
<1> HIDE DEF e2
<1> QED
  BY <1>0, <1>1, <1>4, <1>5, <1>6, DoneKeeps

(* Settling a claim keeps the invariant, *)
LEMMA SettleKeeps ==
    ASSUME EvidenceInv, NEW w \in Workers, Settle(w)
    PROVE  EvidenceInv'
<1> DEFINE p == worker[w]
           e == ev[p.s]
           failed == IF Retries(p, p.counts) THEN Retried(e, p.counts) ELSE Failed(e, FALSE)
           e2 == IF Current(e, p) THEN failed ELSE e
<1>0. /\ p \in Run /\ p.s \in Sessions /\ e \in Entry /\ faults \in Nat
      /\ ev \in [Sessions -> Entry] /\ p.counts \in BOOLEAN
  BY WorkerFacts DEF EvidenceInv, TypeOK, Run
<1>1. p.pc = "settle" /\ Busy(p) /\ Step(w, Idle)
      /\ UNCHANGED <<agent, file, seq, lost, changes, faults>>
  BY DEF Settle, Busy
<1>2. CASE e.present /\ e.pub = p.fence
  <2>1. UNCHANGED <<ev, turn, resume>>
    BY <1>2 DEF Settle
  <2>2. ev' = [ev EXCEPT ![p.s] = e] /\ Retired(e, e)
    BY <1>0, <2>1 DEF Retired
  <2> QED
    BY <1>0, <1>1, <1>2, <2>1, <2>2, DoneKeeps
<1>3. CASE ~ (e.present /\ e.pub = p.fence)
  <2>1. FailEvidence(p, failed)
    BY <1>3 DEF Settle
  <2>2. failed \in Entry /\ Retired(e, failed)
    BY <1>0, RetriedIs, FailedIs DEF Retired
  <2> HIDE DEF failed
  <2>3. e2 \in Entry /\ Retired(e, e2)
    BY <1>0, <2>2 DEF Retired
  <2>4. /\ ev' = [ev EXCEPT ![p.s] = e2] /\ resume' = resume
        /\ turn' = [turn EXCEPT ![p.s] = Discard(p.s, p.fence)]
    BY <1>0, <2>1 DEF FailEvidence
  <2> HIDE DEF e2
  <2> QED
    BY <1>0, <1>1, <2>3, <2>4, DoneKeeps
<1> QED
  BY <1>2, <1>3

(* and so does failing to settle it. *)
LEMMA SettleFailsKeeps ==
    ASSUME EvidenceInv, NEW w \in Workers, SettleFails(w)
    PROVE  EvidenceInv'
<1>0. worker[w].fence \in Nat /\ faults' \in Nat
  BY WorkerFacts DEF SettleFails, Run
<1>1. Quiet(w, Idle)
  BY <1>0, IdleIs
  DEF Quiet, Step, SettleFails, EvidenceInv, TypeOK, Retired, Busy, Unpublished, Untouched
<1> QED
  BY <1>1, IdlePass, QuietKeeps

-----------------------------------------------------------------------------
(* The publication.                                                              *)

(* A row under another fence.                                                    *)
Under(x, fence) == [x EXCEPT !.fence = fence]

(* A row moved under another fence keeps its place. *)
LEMMA UnderIs ==
    ASSUME NEW x \in Row, NEW fence \in Nat
    PROVE  /\ Under(x, fence) \in Row /\ Under(x, fence).fence = fence
           /\ Under(x, fence).index = x.index /\ Under(x, fence).epoch = x.epoch
           /\ Under(x, fence).src = x.src
BY DEF Under, Row

(* Moving rows under another fence keeps which indexes they fill. *)
LEMMA UnderIndexed ==
    ASSUME NEW own \in SUBSET Row, NEW fence \in Nat, NEW lo, NEW hi, NEW e,
           Indexed(own, lo, hi), OfEpoch(own, e)
    PROVE  LET moved == {Under(x, fence) : x \in own}
           IN  Indexed(moved, lo, hi) /\ OfEpoch(moved, e)
<1> DEFINE moved == {Under(x, fence) : x \in own}
<1>1. \A x \in own : Under(x, fence) \in moved /\ Under(x, fence).index = x.index
                        /\ Under(x, fence).epoch = x.epoch
  BY UnderIs
<1>2. \A y \in moved : \E x \in own : y = Under(x, fence)
  OBVIOUS
<1> HIDE DEF moved
<1>3. \A y \in moved : y.index \in (lo + 1)..hi
  BY <1>1, <1>2 DEF Indexed
<1>4. \A i \in (lo + 1)..hi : \E y \in moved : y.index = i
  BY <1>1 DEF Indexed
<1>5. \A y, z \in moved : y.index = z.index => y = z
  BY <1>1, <1>2 DEF Indexed
<1>6. OfEpoch(moved, e)
  BY <1>1, <1>2 DEF OfEpoch
<1> QED
  BY <1>3, <1>4, <1>5, <1>6 DEF Indexed, moved

(* A kept prefix and the rows read after it fill one range. *)
LEMMA IndexedJoin ==
    ASSUME NEW a, NEW b, NEW m \in Nat, NEW n \in Nat, m <= n,
           Indexed(a, 0, m), Indexed(b, m, n)
    PROVE  Indexed(a \cup b, 0, n)
<1>1. \A y \in a \cup b : y.index \in 1..n
  BY DEF Indexed
<1>2. ASSUME NEW i \in 1..n PROVE \E y \in a \cup b : y.index = i
  <2>1. CASE i <= m
    BY <2>1 DEF Indexed
  <2>2. CASE i > m
    BY <2>2 DEF Indexed
  <2> QED
    BY <2>1, <2>2
<1>3. \A y, z \in a \cup b : y.index = z.index => y = z
  BY DEF Indexed
<1> QED
  BY <1>1, <1>2, <1>3 DEF Indexed

(* The rows of the pass join what a resumed parent keeps: one reading of the     *)
(* version that was read.                                                        *)
LEMMA JoinedReads ==
    ASSUME NEW seen, NEW own \in SUBSET Row, NEW target \in Nat,
           NEW v \in Versions, NEW r \in Stamp, NEW resumed \in BOOLEAN,
           Indexed(own, Behind(r, resumed), v.len), OfEpoch(own, v.epoch),
           resumed => Continues(r, v) /\ Reads(seen, r)
    PROVE  Reads((IF resumed THEN seen ELSE {}) \cup {Under(x, target) : x \in own}, v)
<1> DEFINE moved == {Under(x, target) : x \in own}
           all == (IF resumed THEN seen ELSE {}) \cup moved
<1>1. Indexed(moved, Behind(r, resumed), v.len) /\ OfEpoch(moved, v.epoch)
  BY UnderIndexed
<1>2. r.len \in Nat /\ v.len \in Nat
  BY StampIs, VersionIs
<1> HIDE DEF moved
<1>3. CASE ~ resumed
  <2>1. all = moved /\ Behind(r, resumed) = 0
    BY <1>3 DEF Behind
  <2> QED
    BY <1>1, <2>1 DEF Reads, moved
<1>4. CASE resumed
  <2>1. Behind(r, resumed) = r.len /\ all = seen \cup moved
        /\ r.epoch = v.epoch /\ r.len <= v.len
    BY <1>4 DEF Behind, Continues
  <2>2. Indexed(seen, 0, r.len) /\ OfEpoch(seen, v.epoch)
    BY <1>4, <2>1 DEF Reads
  <2>3. Indexed(moved, r.len, v.len)
    BY <1>1, <2>1
  <2>4. Indexed(seen \cup moved, 0, v.len)
    BY <1>2, <2>1, <2>2, <2>3, IndexedJoin
  <2>5. OfEpoch(seen \cup moved, v.epoch)
    BY <1>1, <2>2 DEF OfEpoch
  <2>6. Reads(all, v)
    BY <2>1, <2>4, <2>5 DEF Reads
  <2> QED
    BY <2>6 DEF moved
<1> QED
  BY <1>3, <1>4

(* What an accepted publication leaves in the store.                             *)
LEMMA PublicationIs ==
    ASSUME EvidenceInv, NEW w \in Workers, worker[w].pc = "apply",
           worker[w].outcome = "published", Accepts(ev[worker[w].s], worker[w])
    PROVE  LET p == worker[w]
               e == ev[p.s]
               target == TargetFence(e, p)
           IN  /\ target \in 1..seq /\ target \in {e.pub, p.fence}
               /\ PublishedRows(p) \in SUBSET Row
               /\ \A r \in PublishedRows(p) : r.fence = target
               /\ Reads(RowsOf(PublishedRows(p), target), p.read)
               /\ p.read \in Versions /\ e.fp = p.read /\ e.gen = p.gen
               /\ p.mode[Parent] # "none" /\ p.keep[Parent] \in {NoVersion, p.read}
               /\ NotBefore(file[p.s][Parent], p.read)
               /\ \A v \in Versions : Reads(RowsOf(turn[p.s], e.pub), v) => NotBefore(p.read, v)
<1> DEFINE p == worker[w]
           e == ev[p.s]
           target == TargetFence(e, p)
           r0 == resume[p.s][Parent]
           own == RowsOf(turn[p.s], p.fence)
           seen == RowsOf(turn[p.s], e.pub)
           resumed == p.mode[Parent] = "resumed"
<1>0. /\ p \in Run /\ p.s \in Sessions /\ e \in Entry /\ turn[p.s] \in SUBSET Row
      /\ PassInv(p, e, file[p.s], r0, turn[p.s]) /\ r0 \in Stamp
  BY WorkerFacts
<1>1. Unpublished(p) /\ Busy(p) /\ Holds(e, p) /\ e.gen = p.gen /\ e.fp = p.read
  BY DEF Unpublished, Busy, Accepts, Current
<1>2. /\ p.mode[Parent] # "none" /\ p.read \in Versions /\ p.keep[Parent] \in {NoVersion, p.read}
      /\ NotBefore(file[p.s][Parent], p.read)
  BY <1>0 DEF PassInv, Shape
<1>3. Visited(p, r0, own, seen)
  BY <1>0, <1>1, <1>2 DEF PassInv, Reading
<1>4. /\ p.fence \in 1..seq /\ e.pub <= seq /\ e.pub # p.fence /\ e.pub \in Nat /\ seq \in Nat
      /\ \A r \in turn[p.s] : r.fence \in 1..seq
  BY <1>0, <1>1 DEF EvidenceInv, FenceInv, TypeOK, Entry
<1>5. target \in 1..seq /\ target \in {e.pub, p.fence} /\ target \in Nat
      /\ (e.pub # 0 => target = e.pub)
  BY <1>4 DEF TargetFence
<1>6. r0 # NoVersion => Reads(seen, r0)
  BY <1>0 DEF EvidenceInv, StoreInv, ShownInv
<1>7. resumed => Continues(r0, p.read) /\ Reads(seen, r0) /\ e.pub # 0
  <2>1. resumed => Continues(r0, p.read)
    BY <1>3 DEF Visited
  <2>2. resumed => Reads(seen, r0) /\ r0 \in Versions
    BY <1>0, <1>6, <2>1, StampIs DEF Continues
  <2>3. resumed => seen # {}
    BY <2>2, ReadsSome
  <2>4. seen # {} => e.pub # 0
    BY <1>4 DEF RowsOf
  <2> QED
    BY <2>1, <2>2, <2>3, <2>4
<1> HIDE DEF target
<1>8. PublishedRows(p) = {r \in turn[p.s] : r.fence = target /\ p.mode[r.src] = "resumed"}
          \cup {Under(r, target) : r \in {r \in turn[p.s] : r.fence = p.fence}}
  BY DEF PublishedRows, target, Under
<1>9. \A r \in turn[p.s] : LET m == Under(r, target)
                           IN  m \in Row /\ m.fence = target /\ m.src = r.src
  BY <1>0, <1>5, UnderIs
<1>10. PublishedRows(p) \in SUBSET Row /\ \A r \in PublishedRows(p) : r.fence = target
  BY <1>0, <1>8, <1>9
<1>11. RowsOf(PublishedRows(p), target)
         = (IF resumed THEN seen ELSE {}) \cup {Under(r, target) : r \in own}
  <2> DEFINE new == RowsOf(PublishedRows(p), target)
             kept == {r \in turn[p.s] : r.fence = target /\ p.mode[r.src] = "resumed"
                                            /\ r.src = Parent}
             moved == {Under(r, target) : r \in own}
  <2>1. kept = IF resumed THEN seen ELSE {}
    BY <1>5, <1>7 DEF RowsOf
  <2>2. ASSUME NEW r \in new PROVE r \in kept \/ r \in moved
    <3>1. r \in PublishedRows(p) /\ r.src = Parent /\ r.fence = target
      BY DEF RowsOf
    <3>2. CASE r \in turn[p.s] /\ r.fence = target /\ p.mode[r.src] = "resumed"
      BY <3>1, <3>2
    <3>3. CASE \E x \in turn[p.s] : x.fence = p.fence /\ r = Under(x, target)
      <4>1. PICK x \in turn[p.s] : x.fence = p.fence /\ r = Under(x, target)
        BY <3>3
      <4>2. x \in own
        BY <1>9, <3>1, <4>1 DEF RowsOf
      <4> QED
        BY <4>1, <4>2
    <3> QED
      BY <1>8, <3>1, <3>2, <3>3
  <2>3. \A r \in kept : r \in new
    BY <1>8 DEF RowsOf
  <2>4. \A r \in own : Under(r, target) \in new
    BY <1>8, <1>9 DEF RowsOf
  <2>5. new = kept \cup moved
    BY <2>2, <2>3, <2>4
  <2> QED
    BY <2>1, <2>5
<1>12. Reads(RowsOf(PublishedRows(p), target), p.read)
  <2>1. own \in SUBSET Row
    BY <1>0 DEF RowsOf
  <2>2. /\ Indexed(own, Behind(r0, resumed), p.read.len) /\ OfEpoch(own, p.read.epoch)
    BY <1>3 DEF Visited
  <2>3. resumed \in BOOLEAN
    OBVIOUS
  <2> HIDE DEF own, seen, resumed, r0
  <2> QED
    BY <1>0, <1>2, <1>5, <1>7, <1>11, <2>1, <2>2, <2>3, JoinedReads
<1>13. \A v \in Versions : Reads(seen, v) => NotBefore(p.read, v)
  BY <1>3 DEF Visited
<1> QED
  BY <1>1, <1>2, <1>5, <1>10, <1>12, <1>13 DEF target

(* An accepted publication keeps the invariant. *)
LEMMA PublishedKeeps ==
    ASSUME EvidenceInv, NEW w \in Workers, worker[w].pc = "apply",
           worker[w].outcome = "published", Accepts(ev[worker[w].s], worker[w]),
           ev' = [ev EXCEPT ![worker[w].s] = Published(@, worker[w])],
           turn' = [turn EXCEPT ![worker[w].s] = PublishedRows(worker[w])],
           resume' = [resume EXCEPT ![worker[w].s] = PublishedResume(worker[w])],
           Step(w, Idle) \/ Step(w, Settling(worker[w], TRUE)), faults' \in Nat,
           UNCHANGED <<agent, file, seq, lost, changes>>
    PROVE  EvidenceInv'
<1> DEFINE p == worker[w]
           e == ev[p.s]
           e2 == Published(e, p)
           target == TargetFence(e, p)
           rows == PublishedRows(p)
           r2 == PublishedResume(p)
<1>0. /\ p \in Run /\ p.s \in Sessions /\ e \in Entry /\ turn[p.s] \in SUBSET Row
      /\ TypeOK /\ p.keep \in [Sources -> Stamp] /\ resume[p.s] \in [Sources -> Stamp]
  BY WorkerFacts DEF EvidenceInv, TypeOK, Run
<1>1. /\ target \in 1..seq /\ target \in {e.pub, p.fence} /\ rows \in SUBSET Row
      /\ \A r \in rows : r.fence = target
      /\ Reads(RowsOf(rows, target), p.read)
      /\ p.read \in Versions /\ e.fp = p.read /\ e.gen = p.gen
      /\ p.mode[Parent] # "none" /\ p.keep[Parent] \in {NoVersion, p.read}
      /\ NotBefore(file[p.s][Parent], p.read)
  BY PublicationIs
<1>2. /\ e2 \in Entry /\ e2.status = "ready" /\ e2.pub = target /\ e2.claim = e.claim
      /\ e2.analyzed = p.gen /\ e2.processed = p.read /\ e2.gen = e.gen /\ e2.fp = e.fp
      /\ e2.cover = {src \in Sources : p.mode[src] # "none"}
  BY <1>0, PublishedIs
<1>3. r2 \in [Sources -> Stamp] /\ r2[Parent] = p.keep[Parent]
  BY <1>0, <1>1, NoVersionIs, QueueAssumption DEF PublishedResume
<1>4. PICK q \in Run : Step(w, q) /\ q.pc \in {"idle", "settle"}
                         /\ (q.pc = "settle" => q.s = p.s /\ q.fence = p.fence)
                         /\ PassInv(q, e2, file[q.s], r2[Parent], rows)
                         /\ Shape(q, file[q.s])
  <2>1. CASE Step(w, Idle)
    BY <2>1, IdleIs, IdlePass, IdleShape
  <2>2. CASE Step(w, Settling(p, TRUE))
    <3> DEFINE q == Settling(p, TRUE)
    <3>1. q \in Run /\ q.pc = "settle" /\ q.s = p.s /\ q.fence = p.fence
      BY <1>0, SettlingIs
    <3>2. PassInv(q, e2, file[q.s], r2[Parent], rows)
      BY <1>0, SettlingPass
    <3>3. Shape(q, file[q.s])
      BY <3>2 DEF PassInv
    <3> QED
      BY <2>2, <3>1, <3>2, <3>3
  <2> QED
    BY <2>1, <2>2
<1> HIDE DEF e2, rows, r2, target
<1>5. /\ ev'[p.s] = e2 /\ turn'[p.s] = rows /\ resume'[p.s] = r2
      /\ \A s \in Sessions : s # p.s => /\ ev'[s] = ev[s] /\ turn'[s] = turn[s]
                                        /\ resume'[s] = resume[s]
      /\ worker'[w] = q /\ \A v \in Workers : v # w => worker'[v] = worker[v]
  BY <1>0, <1>4 DEF TypeOK, Step, e2, rows, r2
<1>6. TypeOK'
  <2>1. ev' \in [Sessions -> Entry]
    BY <1>0, <1>2 DEF TypeOK, e2
  <2>2. turn' \in [Sessions -> SUBSET Row]
    BY <1>0, <1>1 DEF TypeOK, rows
  <2>3. resume' \in [Sessions -> [Sources -> Stamp]]
    BY <1>0, <1>3 DEF TypeOK, r2
  <2>4. worker' \in [Workers -> Run]
    BY <1>0, <1>4 DEF TypeOK, Step
  <2> QED
    BY <1>0, <2>1, <2>2, <2>3, <2>4 DEF TypeOK
<1>7. FenceInv'
  <2>0. FenceInv /\ Busy(p) /\ seq' = seq /\ seq \in Nat /\ p.fence \in 1..seq
    BY <1>0 DEF EvidenceInv, FenceInv, Busy, TypeOK
  <2>1. \A v \in Workers : Busy(worker'[v]) => Busy(worker[v])
                              /\ worker'[v].fence = worker[v].fence
    BY <1>4, <1>5, <2>0 DEF Busy
  <2>2. \A v \in Workers : Unpublished(worker'[v]) => v # w /\ Busy(worker[v])
    BY <1>4, <1>5 DEF Unpublished, Busy
  <2>3. \A v \in Workers : Untouched(worker'[v]) => v # w /\ Busy(worker[v])
                              /\ Unpublished(worker[v])
    BY <1>4, <1>5 DEF Untouched, Unpublished, Busy
  <2>4. \A v \in Workers : v # w /\ Busy(worker[v]) => worker[v].fence # p.fence
    BY <2>0 DEF FenceInv
  <2>5. \A v \in Workers : Busy(worker'[v]) => worker'[v].fence \in 1..seq'
    BY <2>0, <2>1 DEF FenceInv
  <2>6. \A v1, v2 \in Workers : Busy(worker'[v1]) /\ Busy(worker'[v2]) /\ v1 # v2
                                  => worker'[v1].fence # worker'[v2].fence
    BY <2>0, <2>1 DEF FenceInv
  <2>7. \A s \in Sessions : ev'[s].pub <= seq' /\ ev'[s].claim <= seq'
    BY <1>0, <1>1, <1>2, <1>5, <2>0 DEF FenceInv
  <2>8. \A s \in Sessions : \A r \in turn'[s] : r.fence \in 1..seq'
    BY <1>1, <1>5, <2>0 DEF FenceInv
  <2>9. \A v \in Workers : Unpublished(worker'[v]) =>
            \A s \in Sessions : ev'[s].pub # worker'[v].fence
    BY <1>1, <1>2, <1>5, <2>0, <2>2, <2>4 DEF FenceInv
  <2>10. \A v \in Workers : Untouched(worker'[v]) =>
            \A s \in Sessions : \A r \in turn'[s] : r.fence # worker'[v].fence
    BY <1>0, <1>1, <1>5, <2>0, <2>3, <2>4 DEF FenceInv
  <2> QED
    BY <2>5, <2>6, <2>7, <2>8, <2>9, <2>10 DEF FenceInv
<1>8. PassesInv'
  <2> SUFFICES ASSUME NEW v \in Workers
               PROVE  PassInv(worker'[v], ev'[worker'[v].s], file'[worker'[v].s],
                              resume'[worker'[v].s][Parent], turn'[worker'[v].s])
    BY DEF PassesInv
  <2>1. CASE v = w
    BY <1>4, <1>5, <2>1 DEF PassInv, Unpublished
  <2>2. CASE v # w
    <3>1. worker'[v] = worker[v] /\ worker[v].s \in Sessions
      BY <1>5, <2>2, WorkerFacts
    <3>2. PassInv(worker[v], ev[worker[v].s], file[worker[v].s],
                  resume[worker[v].s][Parent], turn[worker[v].s])
      BY DEF EvidenceInv, PassesInv
    <3>3. CASE worker[v].s # p.s
      BY <1>5, <3>1, <3>2, <3>3
    <3>4. CASE worker[v].s = p.s
      BY <1>2, <1>5, <3>1, <3>2, <3>4 DEF PassInv, Holds
    <3> QED
      BY <3>3, <3>4
  <2> QED
    BY <2>1, <2>2
<1>9. StoreInv'
  <2> SUFFICES ASSUME NEW s \in Sessions
               PROVE  ShownInv(ev'[s], file'[s][Parent], resume'[s][Parent],
                               RowsOf(turn'[s], ev'[s].pub))
    BY DEF StoreInv
  <2>1. CASE s # p.s
    BY <1>5, <2>1 DEF EvidenceInv, StoreInv
  <2>2. CASE s = p.s
    <3> DEFINE seen == RowsOf(rows, target)
    <3>1. \A v \in Versions : Reads(seen, v) => v = p.read
      BY <1>1, ReadsUnique
    <3> HIDE DEF seen
    <3>2. ShownInv(e2, file[p.s][Parent], r2[Parent], seen)
      BY <1>1, <1>2, <1>3, <3>1 DEF ShownInv, seen
    <3> QED
      BY <1>2, <1>5, <2>2, <3>2 DEF seen
  <2> QED
    BY <2>1, <2>2
<1>10. NoOrphanRows'
  <2> SUFFICES ASSUME NEW s \in Sessions, NEW r \in turn'[s]
               PROVE  \/ r.fence = ev'[s].pub
                      \/ \E v \in Workers : worker'[v].pc # "idle" /\ worker'[v].s = s
                                              /\ worker'[v].fence = r.fence
                      \/ r.fence \in lost'
    BY DEF NoOrphanRows
  <2>1. CASE s = p.s
    BY <1>1, <1>2, <1>5, <2>1
  <2>2. CASE s # p.s
    <3>1. \/ r.fence = ev[s].pub
          \/ \E v \in Workers : worker[v].pc # "idle" /\ worker[v].s = s
                                  /\ worker[v].fence = r.fence
          \/ r.fence \in lost
      BY <1>5, <2>2 DEF EvidenceInv, NoOrphanRows
    <3> QED
      BY <1>5, <2>2, <3>1
  <2> QED
    BY <2>1, <2>2
<1> QED
  BY <1>6, <1>7, <1>8, <1>9, <1>10 DEF EvidenceInv

(* Publishing, accepted or fenced off, keeps the invariant. *)
LEMMA PublishKeeps ==
    ASSUME EvidenceInv, NEW w \in Workers, Publish(w)
    PROVE  EvidenceInv'
<1> DEFINE p == worker[w]
           e == ev[p.s]
<1>0. /\ p \in Run /\ p.s \in Sessions /\ e \in Entry /\ faults \in Nat
      /\ ev \in [Sessions -> Entry]
  BY WorkerFacts DEF EvidenceInv, TypeOK
<1>1. p.pc = "apply" /\ p.outcome = "published" /\ Busy(p)
      /\ UNCHANGED <<agent, file, seq, lost, changes>>
  BY DEF Publish, Busy
<1>2. CASE Accepts(e, p)
  <2>1. /\ ev' = [ev EXCEPT ![p.s] = Published(@, p)]
        /\ turn' = [turn EXCEPT ![p.s] = PublishedRows(p)]
        /\ resume' = [resume EXCEPT ![p.s] = PublishedResume(p)]
        /\ \/ Step(w, Idle) /\ UNCHANGED faults
           \/ faults' = faults + 1 /\ Step(w, Settling(p, TRUE))
    BY <1>2 DEF Publish
  <2>2. faults' = faults \/ faults' = faults + 1
    BY <2>1
  <2>3. faults' \in Nat
    BY <1>0, <2>2
  <2> QED
    BY <1>1, <1>2, <2>1, <2>3, PublishedKeeps
<1>3. CASE ~ Accepts(e, p)
  <2>1. /\ turn' = [turn EXCEPT ![p.s] = Discard(p.s, p.fence)] /\ Step(w, Idle)
        /\ UNCHANGED <<ev, resume, faults>>
    BY <1>3 DEF Publish
  <2>2. ev' = [ev EXCEPT ![p.s] = e] /\ Retired(e, e)
    BY <1>0, <2>1 DEF Retired
  <2> QED
    BY <1>0, <1>1, <2>1, <2>2, DoneKeeps
<1> QED
  BY <1>2, <1>3

-----------------------------------------------------------------------------
(* The claim.                                                                    *)

(* A claim, which takes a new fence, keeps the invariant. *)
LEMMA ClaimKeeps ==
    ASSUME EvidenceInv, NEW w \in Workers, NEW s0 \in Sessions, Claim(w, s0)
    PROVE  EvidenceInv'
<1> DEFINE n == seq + 1
           e == ev[s0]
           e2 == [e EXCEPT !.status = "processing", !.claim = n]
           g == e.gen
           t == e.retry
           q == [Idle EXCEPT !.pc = "start", !.s = s0, !.fence = n, !.gen = g, !.retry = t]
<1>0. /\ TypeOK /\ FenceInv /\ e \in Entry /\ seq \in Nat /\ n \in Nat
      /\ g \in Nat /\ t \in Nat /\ n > seq
  BY DEF EvidenceInv, TypeOK, Entry
<1>1. /\ worker[w].pc = "idle" /\ seq' = n /\ ev' = [ev EXCEPT ![s0] = e2] /\ Step(w, q)
      /\ UNCHANGED <<agent, file, turn, resume, lost, changes, faults>>
  BY <1>0 DEF Claim, NextFence, TypeOK
<1> HIDE DEF n, g, t
<1>2. /\ e2 \in Entry /\ e2.status = "processing" /\ e2.claim = n /\ e2.pub = e.pub
      /\ e2.cover = e.cover
  BY <1>0 DEF Entry
<1>3. /\ q \in Run /\ q.pc = "start" /\ q.s = s0 /\ q.fence = n /\ q.src = Parent
      /\ q.mode[Parent] = "none" /\ q.todo = {} /\ q.outcome = "none" /\ q.bad = FALSE
      /\ q.at = 0
  BY <1>0, IdleIs DEF Run, Points
<1> HIDE DEF e2, q
<1>4. /\ ev'[s0] = e2 /\ \A s \in Sessions : s # s0 => ev'[s] = ev[s]
      /\ worker'[w] = q /\ \A v \in Workers : v # w => worker'[v] = worker[v]
      /\ \A s \in Sessions : ev'[s].pub = ev[s].pub
  BY <1>0, <1>1, <1>2 DEF TypeOK, Step
<1>5. TypeOK'
  BY <1>0, <1>1, <1>2, <1>3 DEF TypeOK, Step
<1>6. FenceInv'
  <2>1. \A v \in Workers : v # w => worker'[v] = worker[v]
    BY <1>4
  <2>2. \A v \in Workers : v # w /\ Busy(worker[v]) =>
            worker[v].fence \in 1..seq /\ worker[v].fence # n
    BY <1>0 DEF FenceInv
  <2>3. /\ n \in 1..seq' /\ \A i \in 1..seq : i \in 1..seq' /\ i # n
    BY <1>0, <1>1
  <2>4. \A s \in Sessions : ev[s].pub \in Nat /\ ev[s].pub <= seq /\ ev[s].claim \in Nat
                              /\ ev[s].claim <= seq
    BY <1>0 DEF FenceInv, TypeOK, Entry
  <2>5. \A v \in Workers : Busy(worker'[v]) => worker'[v].fence \in 1..seq'
    BY <1>3, <1>4, <2>2, <2>3
  <2>6. \A v1, v2 \in Workers : Busy(worker'[v1]) /\ Busy(worker'[v2]) /\ v1 # v2
                                  => worker'[v1].fence # worker'[v2].fence
    BY <1>0, <1>3, <1>4, <2>2 DEF FenceInv
  <2>7. \A s \in Sessions : ev'[s].pub <= seq' /\ ev'[s].claim <= seq'
    BY <1>0, <1>1, <1>2, <1>4, <2>4
  <2>8. \A s \in Sessions : \A r \in turn'[s] : r.fence \in 1..seq' /\ r.fence # n
    BY <1>0, <1>1, <2>3 DEF FenceInv
  <2>9. \A v \in Workers : Unpublished(worker'[v]) =>
            \A s \in Sessions : ev'[s].pub # worker'[v].fence
    BY <1>0, <1>3, <1>4, <2>4 DEF FenceInv
  <2>10. \A v \in Workers : Untouched(worker'[v]) =>
            \A s \in Sessions : \A r \in turn'[s] : r.fence # worker'[v].fence
    BY <1>0, <1>1, <1>3, <1>4, <2>8 DEF FenceInv
  <2> QED
    BY <2>5, <2>6, <2>7, <2>8, <2>9, <2>10 DEF FenceInv
<1>7. PassesInv'
  <2> SUFFICES ASSUME NEW v \in Workers
               PROVE  PassInv(worker'[v], ev'[worker'[v].s], file'[worker'[v].s],
                              resume'[worker'[v].s][Parent], turn'[worker'[v].s])
    BY DEF PassesInv
  <2>1. CASE v = w
    BY <1>3, <1>4, <2>1 DEF PassInv, Shape, Reading
  <2>2. CASE v # w
    <3>1. worker'[v] = worker[v] /\ worker[v].s \in Sessions
      BY <1>4, <2>2, WorkerFacts
    <3>2. PassInv(worker[v], ev[worker[v].s], file[worker[v].s],
                  resume[worker[v].s][Parent], turn[worker[v].s])
      BY DEF EvidenceInv, PassesInv
    <3>3. CASE worker[v].s # s0
      BY <1>1, <1>4, <3>1, <3>2, <3>3
    <3>4. CASE worker[v].s = s0
      <4>1. Unpublished(worker[v]) => worker[v].fence # n
        BY <1>0 DEF FenceInv, Unpublished, Busy
      <4>2. Unpublished(worker[v]) => ~ Holds(e2, worker[v])
        BY <1>2, <4>1 DEF Holds
      <4> QED
        BY <1>1, <1>4, <3>1, <3>2, <3>4, <4>2 DEF PassInv
    <3> QED
      BY <3>3, <3>4
  <2> QED
    BY <2>1, <2>2
<1>8. StoreInv'
  <2> SUFFICES ASSUME NEW s \in Sessions
               PROVE  ShownInv(ev'[s], file'[s][Parent], resume'[s][Parent],
                               RowsOf(turn'[s], ev'[s].pub))
    BY DEF StoreInv
  <2>1. ShownInv(ev[s], file[s][Parent], resume[s][Parent], RowsOf(turn[s], ev[s].pub))
    BY DEF EvidenceInv, StoreInv
  <2>2. CASE s # s0
    BY <1>1, <1>4, <2>1, <2>2
  <2>3. CASE s = s0
    <3>1. ShownInv(e2, file[s][Parent], resume[s][Parent], RowsOf(turn[s], ev[s].pub))
      BY <1>2, <2>1, <2>3, ShownFrame
    <3> QED
      BY <1>1, <1>2, <1>4, <2>3, <3>1
  <2> QED
    BY <2>2, <2>3
<1>9. NoOrphanRows'
  <2>1. \A v \in Workers : worker[v].pc # "idle" => worker'[v] = worker[v]
    BY <1>1, <1>4
  <2> QED
    BY <1>1, <1>4, <2>1 DEF EvidenceInv, NoOrphanRows
<1> QED
  BY <1>5, <1>6, <1>7, <1>8, <1>9 DEF EvidenceInv

-----------------------------------------------------------------------------
(* The disk, the scans and the user.                                             *)

(* A file that grows, is rewritten or goes away keeps the invariant. *)
LEMMA ChangeKeeps ==
    ASSUME EvidenceInv, NEW s0 \in Sessions, NEW src \in Sources, NEW v0 \in OnDisk,
           Later(file[s0][src], v0), Change(s0, src, v0)
    PROVE  EvidenceInv'
<1>0. TypeOK /\ Parent \in Sources
  BY QueueAssumption DEF EvidenceInv
<1>1. /\ file' = [file EXCEPT ![s0][src] = v0] /\ changes' = changes + 1
      /\ UNCHANGED <<agent, ev, turn, resume, seq, worker, lost, faults>>
  BY DEF Change
<1>2. /\ file'[s0] = [file[s0] EXCEPT ![src] = v0] /\ file[s0] \in [Sources -> OnDisk]
      /\ \A s \in Sessions : s # s0 => file'[s] = file[s]
  BY <1>0, <1>1 DEF TypeOK
<1>3. TypeOK'
  BY <1>0, <1>1 DEF TypeOK
<1>4. FenceInv' /\ NoOrphanRows'
  BY <1>1 DEF EvidenceInv, FenceInv, NoOrphanRows, Busy, Unpublished, Untouched
<1>5. PassesInv'
  <2> SUFFICES ASSUME NEW v \in Workers
               PROVE  PassInv(worker[v], ev[worker[v].s], file'[worker[v].s],
                              resume[worker[v].s][Parent], turn[worker[v].s])
    BY <1>1 DEF PassesInv
  <2>1. PassInv(worker[v], ev[worker[v].s], file[worker[v].s],
                resume[worker[v].s][Parent], turn[worker[v].s])
        /\ worker[v].s \in Sessions /\ worker[v] \in Run
    BY WorkerFacts
  <2>2. CASE worker[v].s # s0
    BY <1>2, <2>1, <2>2
  <2>3. CASE worker[v].s = s0
    BY <1>2, <2>1, <2>3, PassFile
  <2> QED
    BY <2>2, <2>3
<1>6. StoreInv'
  <2> SUFFICES ASSUME NEW s \in Sessions
               PROVE  ShownInv(ev[s], file'[s][Parent], resume[s][Parent],
                               RowsOf(turn[s], ev[s].pub))
    BY <1>1 DEF StoreInv
  <2>1. ShownInv(ev[s], file[s][Parent], resume[s][Parent], RowsOf(turn[s], ev[s].pub))
    BY DEF EvidenceInv, StoreInv
  <2>2. \A v \in Versions : NotBefore(file[s][Parent], v) => NotBefore(file'[s][Parent], v)
    <3>1. CASE file'[s][Parent] = file[s][Parent]
      BY <3>1
    <3>2. CASE s = s0 /\ src = Parent
      BY <1>0, <1>2, <3>2, LaterIs
    <3> QED
      BY <1>0, <1>2, <3>1, <3>2
  <2> QED
    BY <2>1, <2>2 DEF ShownInv
<1> QED
  BY <1>3, <1>4, <1>5, <1>6 DEF EvidenceInv

(* The three ways a file changes are such changes. *)
LEMMA FileKeeps ==
    ASSUME EvidenceInv, NEW s \in Sessions, NEW src \in Sources,
           Append(s, src) \/ Rewrite(s, src) \/ Remove(s, src)
    PROVE  EvidenceInv'
<1> DEFINE f == file[s][src]
<1>0. /\ f \in OnDisk /\ f.epoch \in 1..MaxEpoch /\ f.len \in 0..MaxLen
      /\ MaxEpoch \in Nat /\ MaxLen \in Nat
  BY QueueAssumption DEF EvidenceInv, TypeOK, OnDisk
<1>1. PICK v : /\ Change(s, src, v)
               /\ \/ f.len \in 1..(MaxLen - 1) /\ v = [f EXCEPT !.len = @ + 1]
                  \/ f.epoch < MaxEpoch /\ \E n \in 1..MaxLen :
                                              v = [epoch |-> f.epoch + 1, len |-> n]
                  \/ v = [f EXCEPT !.len = 0]
  BY DEF Append, Rewrite, Remove
<1>2. v \in OnDisk /\ Later(f, v)
  <2>1. CASE f.len \in 1..(MaxLen - 1) /\ v = [f EXCEPT !.len = @ + 1]
    <3>1. v.epoch = f.epoch /\ v.len = f.len + 1 /\ v = [epoch |-> f.epoch, len |-> f.len + 1]
      BY <1>0, <2>1 DEF OnDisk
    <3>2. f.len + 1 \in 0..MaxLen /\ f.len + 1 > f.len /\ f.len > 0
      BY <1>0, <2>1
    <3> QED
      BY <1>0, <3>1, <3>2 DEF OnDisk, Later
  <2>2. CASE f.epoch < MaxEpoch /\ \E n \in 1..MaxLen : v = [epoch |-> f.epoch + 1, len |-> n]
    <3>1. PICK n \in 1..MaxLen : v = [epoch |-> f.epoch + 1, len |-> n]
      BY <2>2
    <3>2. f.epoch + 1 \in 1..MaxEpoch /\ f.epoch + 1 > f.epoch /\ n \in 0..MaxLen
      BY <1>0, <2>2
    <3> QED
      BY <3>1, <3>2 DEF OnDisk, Later
  <2>3. CASE v = [f EXCEPT !.len = 0]
    BY <1>0, <2>3 DEF OnDisk, Later
  <2> QED
    BY <1>1, <2>1, <2>2, <2>3
<1> QED
  BY <1>1, <1>2, ChangeKeeps

(* The store rewrites entries without touching a fence: no entry gets a claim,   *)
(* and one that stays ready stays as it was.                                     *)
Rewritten(e1, e2) ==
    /\ e2.pub = e1.pub /\ e2.claim = e1.claim /\ e2.cover = e1.cover
    /\ e2.status = "processing" => e1.status = "processing"
    /\ e2.status = "ready" => /\ e1.status = "ready" /\ e2.analyzed = e1.analyzed
                              /\ e2.gen = e1.gen /\ e2.fp = e1.fp
                              /\ e2.processed = e1.processed

(* Rewriting entries without touching rows keeps the invariant. *)
LEMMA RewrittenKeeps ==
    ASSUME EvidenceInv, ev' \in [Sessions -> Entry],
           \A s \in Sessions : Rewritten(ev[s], ev'[s]), changes' \in Nat,
           UNCHANGED <<agent, file, turn, resume, seq, worker, lost, faults>>
    PROVE  EvidenceInv'
<1>1. TypeOK'
  BY DEF EvidenceInv, TypeOK
<1>2. FenceInv' /\ NoOrphanRows'
  BY DEF EvidenceInv, FenceInv, NoOrphanRows, Busy, Unpublished, Untouched, Rewritten
<1>3. PassesInv'
  <2> SUFFICES ASSUME NEW v \in Workers
               PROVE  PassInv(worker[v], ev'[worker[v].s], file[worker[v].s],
                              resume[worker[v].s][Parent], turn[worker[v].s])
    BY DEF PassesInv
  <2> DEFINE p == worker[v]
             s == p.s
  <2>1. PassInv(p, ev[s], file[s], resume[s][Parent], turn[s]) /\ s \in Sessions
    BY WorkerFacts
  <2>2. Holds(ev'[s], p) => Holds(ev[s], p)
    BY <2>1 DEF Holds, Rewritten
  <2>3. ev'[s].pub = ev[s].pub
    BY <2>1 DEF Rewritten
  <2> HIDE DEF p, s
  <2>4. PassInv(p, ev'[s], file[s], resume[s][Parent], turn[s])
    BY <2>1, <2>2, <2>3, PassFrame
  <2> QED
    BY <2>4 DEF p, s
<1>4. StoreInv'
  <2> SUFFICES ASSUME NEW s \in Sessions
               PROVE  ShownInv(ev'[s], file[s][Parent], resume[s][Parent],
                               RowsOf(turn[s], ev'[s].pub))
    BY DEF StoreInv
  <2>1. ShownInv(ev[s], file[s][Parent], resume[s][Parent], RowsOf(turn[s], ev[s].pub))
        /\ Rewritten(ev[s], ev'[s])
    BY DEF EvidenceInv, StoreInv
  <2> QED
    BY <2>1, ShownFrame DEF Rewritten
<1> QED
  BY <1>1, <1>2, <1>3, <1>4 DEF EvidenceInv

(* What a scan makes of the entry e when the parent is at version f.             *)
LEMMA ScanIs ==
    ASSUME EvidenceInv, NEW s \in Sessions, Scan(s)
    PROVE  \E e2 \in Entry : /\ ev' = [ev EXCEPT ![s] = e2]
                             /\ Rewritten(ev[s], e2)
                             /\ e2.fp = file[s][Parent] /\ file[s][Parent] \in Versions
<1> DEFINE e == ev[s]
           f == file[s][Parent]
           g == IF e.fp = f THEN e.gen ELSE e.gen + 1
           stored == [e EXCEPT !.present = TRUE, !.fp = f, !.gen = g]
<1>0. e \in Entry /\ f \in OnDisk /\ f.len > 0
  BY QueueAssumption DEF EvidenceInv, TypeOK, Scan
<1>1. f \in Versions /\ f \in Stamp
  BY <1>0, OnDiskIs, VersionIs
<1>2. e.gen \in Nat /\ g \in Nat /\ (e.fp # f => g > e.gen)
  BY <1>0 DEF Entry
<1>3. PICK cursorChanged \in BOOLEAN :
          ev' = [ev EXCEPT ![s] = IF Queues(e, stored, cursorChanged)
                                  THEN Pending(stored) ELSE stored]
  BY DEF Scan
<1>4. e.fp = f => g = e.gen
  OBVIOUS
<1> HIDE DEF f, g
<1>5. /\ stored \in Entry /\ stored.fp = f /\ stored.gen = g /\ stored.pub = e.pub
      /\ stored.claim = e.claim /\ stored.cover = e.cover /\ stored.status = e.status
      /\ stored.analyzed = e.analyzed /\ stored.processed = e.processed
  BY <1>0, <1>1, <1>2 DEF Entry
<1> HIDE DEF stored
<1>6. CASE Queues(e, stored, cursorChanged)
  <2>1. ev' = [ev EXCEPT ![s] = Pending(stored)]
    BY <1>3, <1>6
  <2>2. Pending(stored) \in Entry /\ Rewritten(e, Pending(stored)) /\ Pending(stored).fp = f
    BY <1>5, PendingIs DEF Rewritten
  <2> QED
    BY <1>1, <2>1, <2>2 DEF f
<1>7. CASE ~ Queues(e, stored, cursorChanged)
  <2>1. ev' = [ev EXCEPT ![s] = stored]
    BY <1>3, <1>7
  <2>2. e.fp = f /\ g = e.gen
    BY <1>2, <1>4, <1>5, <1>7 DEF Queues
  <2>3. Rewritten(e, stored)
    BY <1>5, <2>2 DEF Rewritten
  <2> QED
    BY <1>1, <1>5, <2>1, <2>3 DEF f
<1> QED
  BY <1>6, <1>7

(* A scan, which records the fingerprint and queues what changed, keeps the invariant. *)
LEMMA ScanKeeps ==
    ASSUME EvidenceInv, NEW s \in Sessions, Scan(s)
    PROVE  EvidenceInv'
<1>1. PICK e2 \in Entry : ev' = [ev EXCEPT ![s] = e2] /\ Rewritten(ev[s], e2)
  BY ScanIs
<1>2. /\ ev' \in [Sessions -> Entry] /\ changes' \in Nat
      /\ \A x \in Sessions : Rewritten(ev[x], ev'[x])
  BY <1>1 DEF EvidenceInv, TypeOK, Rewritten, Scan
<1> QED
  BY <1>2, RewrittenKeeps DEF Scan

(* So does a requeue from the drilldown. *)
LEMMA RequeueKeeps ==
    ASSUME EvidenceInv, NEW s \in Sessions, Requeue(s)
    PROVE  EvidenceInv'
<1> DEFINE e2 == Pending(ev[s])
<1>0. ev \in [Sessions -> Entry] /\ changes \in Nat
  BY DEF EvidenceInv, TypeOK
<1>1. e2 \in Entry /\ Rewritten(ev[s], e2)
  BY <1>0, PendingIs DEF Rewritten
<1>2. ev' = [ev EXCEPT ![s] = e2] /\ changes' = changes + 1
      /\ UNCHANGED <<agent, file, turn, resume, seq, worker, lost, faults>>
  BY <1>0 DEF Requeue
<1> HIDE DEF e2
<1>3. /\ ev' \in [Sessions -> Entry] /\ changes' \in Nat
      /\ \A x \in Sessions : Rewritten(ev[x], ev'[x])
  BY <1>0, <1>1, <1>2 DEF Rewritten
<1> QED
  BY <1>2, <1>3, RewrittenKeeps

(* Deleting a session with its rows keeps the invariant. *)
LEMMA DeleteKeeps ==
    ASSUME EvidenceInv, NEW s0 \in Sessions, DeleteSession(s0)
    PROVE  EvidenceInv'
<1>0. TypeOK /\ FenceInv /\ Parent \in Sources
  BY QueueAssumption DEF EvidenceInv
<1>1. /\ ev'[s0] = Absent /\ turn'[s0] = {} /\ resume'[s0] = NoKeep
      /\ \A s \in Sessions : s # s0 => /\ ev'[s] = ev[s] /\ turn'[s] = turn[s]
                                       /\ resume'[s] = resume[s]
      /\ UNCHANGED <<agent, file, seq, worker, lost, faults>>
  BY <1>0 DEF DeleteSession, TypeOK
<1>2. NoKeep \in [Sources -> Stamp] /\ NoKeep[Parent] = NoVersion
  BY <1>0, NoVersionIs DEF NoKeep
<1>3. TypeOK'
  BY <1>0, <1>2, AbsentIs DEF DeleteSession, TypeOK
<1>4. FenceInv'
  <2>1. seq \in Nat /\ \A v \in Workers : Unpublished(worker[v]) => worker[v].fence # 0
    BY <1>0 DEF TypeOK, FenceInv, Unpublished, Busy
  <2>2. \A s \in Sessions : (ev'[s].pub = 0 /\ ev'[s].claim = 0)
                              \/ (ev'[s].pub = ev[s].pub /\ ev'[s].claim = ev[s].claim)
    BY <1>1, AbsentIs
  <2>3. \A s \in Sessions : \A r \in turn'[s] : r \in turn[s]
    BY <1>1
  <2> QED
    BY <1>0, <1>1, <2>1, <2>2, <2>3 DEF FenceInv, Busy, Unpublished, Untouched
<1>5. PassesInv'
  <2> SUFFICES ASSUME NEW v \in Workers
               PROVE  PassInv(worker[v], ev'[worker[v].s], file[worker[v].s],
                              resume'[worker[v].s][Parent], turn'[worker[v].s])
    BY <1>1 DEF PassesInv
  <2>1. PassInv(worker[v], ev[worker[v].s], file[worker[v].s],
                resume[worker[v].s][Parent], turn[worker[v].s])
        /\ worker[v].s \in Sessions
    BY WorkerFacts
  <2>2. CASE worker[v].s # s0
    BY <1>1, <2>1, <2>2
  <2>3. CASE worker[v].s = s0
    BY <1>1, <2>1, <2>3, AbsentIs DEF PassInv, Holds
  <2> QED
    BY <2>2, <2>3
<1>6. StoreInv'
  <2> SUFFICES ASSUME NEW s \in Sessions
               PROVE  ShownInv(ev'[s], file[s][Parent], resume'[s][Parent],
                               RowsOf(turn'[s], ev'[s].pub))
    BY <1>1 DEF StoreInv
  <2>1. CASE s # s0
    BY <1>1, <2>1 DEF EvidenceInv, StoreInv
  <2>2. CASE s = s0
    <3>1. RowsOf(turn'[s], ev'[s].pub) = {}
      BY <1>1, <2>2 DEF RowsOf
    <3>2. \A v \in Versions : ~ Reads({}, v)
      BY ReadsSome
    <3> QED
      BY <1>1, <1>2, <2>2, <3>1, <3>2, AbsentIs DEF ShownInv
  <2> QED
    BY <2>1, <2>2
<1>7. NoOrphanRows'
  BY <1>1 DEF EvidenceInv, NoOrphanRows
<1> QED
  BY <1>3, <1>4, <1>5, <1>6, <1>7 DEF EvidenceInv

(* A restart, which drops the passes and queues stale entries, keeps the invariant. *)
LEMMA RestartKeeps ==
    ASSUME EvidenceInv, Restart
    PROVE  EvidenceInv'
<1>0. TypeOK /\ FenceInv
  BY DEF EvidenceInv
<1>1. /\ UNCHANGED <<agent, file, turn, resume, seq, changes>> /\ faults' = faults + 1
      /\ \A w \in Workers : worker'[w] = Idle
      /\ \A s \in Sessions : ev'[s] = IF Stale(ev[s]) THEN Pending(ev[s]) ELSE ev[s]
  BY DEF Restart
<1>2. \A s \in Sessions : ev'[s] \in Entry /\ Rewritten(ev[s], ev'[s])
  <2> SUFFICES ASSUME NEW s \in Sessions PROVE ev'[s] \in Entry /\ Rewritten(ev[s], ev'[s])
    OBVIOUS
  <2>1. ev[s] \in Entry
    BY <1>0 DEF TypeOK
  <2>2. Pending(ev[s]) \in Entry /\ Rewritten(ev[s], Pending(ev[s]))
    BY <2>1, PendingIs DEF Rewritten
  <2>3. Rewritten(ev[s], ev[s])
    BY DEF Rewritten
  <2> QED
    BY <1>1, <2>1, <2>2, <2>3
<1>3. lost \subseteq lost' /\ lost' \subseteq Nat
      /\ \A w \in Workers : worker[w].pc # "idle" => worker[w].fence \in lost'
  BY <1>0 DEF Restart, TypeOK, Run
<1>4. TypeOK'
  <2>1. worker' \in [Workers -> Run]
    BY IdleIs DEF Restart
  <2>2. ev' \in [Sessions -> Entry]
    BY <1>2 DEF Restart
  <2> QED
    BY <1>0, <1>1, <1>3, <2>1, <2>2 DEF TypeOK
<1>5. FenceInv'
  <2>1. \A w \in Workers : ~ Busy(worker'[w]) /\ ~ Unpublished(worker'[w])
                              /\ ~ Untouched(worker'[w])
    BY <1>1, IdleIs DEF Busy, Unpublished, Untouched
  <2> QED
    BY <1>0, <1>1, <1>2, <2>1 DEF FenceInv, Rewritten
<1>6. PassesInv'
  BY <1>1, IdlePass DEF PassesInv
<1>7. StoreInv'
  <2> SUFFICES ASSUME NEW s \in Sessions
               PROVE  ShownInv(ev'[s], file[s][Parent], resume[s][Parent],
                               RowsOf(turn[s], ev'[s].pub))
    BY <1>1 DEF StoreInv
  <2>1. ShownInv(ev[s], file[s][Parent], resume[s][Parent], RowsOf(turn[s], ev[s].pub))
        /\ Rewritten(ev[s], ev'[s])
    BY <1>2 DEF EvidenceInv, StoreInv
  <2> QED
    BY <2>1, ShownFrame DEF Rewritten
<1>8. NoOrphanRows'
  BY <1>1, <1>2, <1>3 DEF EvidenceInv, NoOrphanRows, Rewritten
<1> QED
  BY <1>4, <1>5, <1>6, <1>7, <1>8 DEF EvidenceInv

-----------------------------------------------------------------------------
(* The theorems.                                                                 *)

(* The invariant holds at the start. *)
LEMMA InitKeeps == Init => EvidenceInv
<1> SUFFICES ASSUME Init PROVE EvidenceInv
  OBVIOUS
<1>0. Parent \in Sources /\ NoKeep \in [Sources -> Stamp] /\ NoKeep[Parent] = NoVersion
  BY QueueAssumption, NoVersionIs DEF NoKeep
<1>1. TypeOK
  <2>1. [epoch |-> 1, len |-> 1] \in OnDisk
    BY QueueAssumption DEF OnDisk
  <2> QED
    BY <1>0, <2>1, IdleIs, AbsentIs DEF Init, TypeOK
<1>2. FenceInv
  BY IdleIs, AbsentIs DEF Init, FenceInv, Busy, Unpublished, Untouched
<1>3. PassesInv
  BY IdlePass DEF Init, PassesInv
<1>4. StoreInv
  <2>1. \A v \in Versions : ~ Reads({}, v)
    BY ReadsSome
  <2>2. \A f : RowsOf({}, f) = {}
    BY DEF RowsOf
  <2>3. \A f : ShownInv(Absent, f, NoVersion, {})
    BY <2>1, AbsentIs DEF ShownInv
  <2> QED
    BY <1>0, <2>2, <2>3 DEF Init, StoreInv
<1>5. NoOrphanRows
  BY DEF Init, NoOrphanRows
<1> QED
  BY <1>1, <1>2, <1>3, <1>4, <1>5 DEF EvidenceInv

(* Every step keeps the invariant. *)
LEMMA NextKeeps == EvidenceInv /\ [Next]_vars => EvidenceInv'
<1> SUFFICES ASSUME EvidenceInv, [Next]_vars PROVE EvidenceInv'
  OBVIOUS
<1>1. ASSUME NEW w \in Workers, PassNext(w) PROVE EvidenceInv'
  BY <1>1, ClaimKeeps, StartPassKeeps, OpenSourceKeeps, ReadRowKeeps, EndReadKeeps,
     ReadErrorKeeps, EndPassKeeps, StopKeeps, PublishKeeps, FailKeeps, SettleKeeps,
     SettleFailsKeeps
  DEF PassNext
<1>2. ASSUME NEW s \in Sessions, StoreNext(s) PROVE EvidenceInv'
  BY <1>2, FileKeeps, ScanKeeps, RequeueKeeps, DeleteKeeps DEF StoreNext
<1>3. CASE UNCHANGED vars
  BY <1>3
  DEF vars, EvidenceInv, TypeOK, FenceInv, PassesInv, StoreInv, NoOrphanRows, Busy,
      Unpublished, Untouched
<1> QED
  BY <1>1, <1>2, <1>3, RestartKeeps DEF Next

(* The invariant of the queue: the types, the fences that keep the passes apart, *)
(* the reading of the parent that every pass with a claim has written so far, and *)
(* the visible rows and snapshots of every session (claim_next_evidence,         *)
(* require_active_claim, publish_projections).                                   *)
THEOREM EvidenceInvAlways == Spec => []EvidenceInv
BY InitKeeps, NextKeeps, PTL DEF Spec

(* No pass leaks its rows: whatever fails, is superseded or crashes, every turn  *)
(* row is published, or belongs to a pass that still runs, or to one that a      *)
(* crash or a store error ended (discard_evidence_claim_rows_in).                *)
THEOREM NoOrphanRowsAlways == Spec => []NoOrphanRows
<1>1. EvidenceInv => NoOrphanRows
  BY DEF EvidenceInv
<1> QED
  BY <1>1, EvidenceInvAlways, PTL

(* The invariant gives the run's property of ready entries. *)
LEMMA ReadyIsCurrentHolds == EvidenceInv => ReadyIsCurrent
<1> SUFFICES ASSUME EvidenceInv, NEW s \in Sessions, ev[s].status = "ready"
             PROVE  /\ ev[s].analyzed = ev[s].gen
                    /\ ev[s].processed = ev[s].fp
                    /\ VersionOf(s, Parent) = ev[s].fp
  BY DEF ReadyIsCurrent
<1>1. /\ ev[s].analyzed = ev[s].gen /\ ev[s].processed = ev[s].fp
      /\ ev[s].fp \in Versions /\ Reads(RowsOf(turn[s], ev[s].pub), ev[s].fp)
  BY DEF EvidenceInv, StoreInv, ShownInv
<1> QED
  BY <1>1, ShowsVersion

(* An entry that is ready shows the transcript its session row names, row by row *)
(* and at that very version, for every number of workers, sources and faults     *)
(* (publish_projections).                                                        *)
THEOREM ReadyIsCurrentAlways == Spec => []ReadyIsCurrent
BY EvidenceInvAlways, ReadyIsCurrentHolds, PTL

(* A stored snapshot of the parent continues the visible rows of the parent.     *)
(* (For a child transcript this is not so: ResumeExact fails when all attempts   *)
(* at a child fail.)                                                             *)
ParentResumeExact ==
    \A s \in Sessions : resume[s][Parent] # NoVersion =>
        ReadingOf(VisibleOf(s, Parent), resume[s][Parent])

(* A pass that resumes the parent from source_resume appends to the reading the  *)
(* snapshot was taken from.                                                      *)
THEOREM ParentResumeExactAlways == Spec => []ParentResumeExact
<1>1. EvidenceInv => ParentResumeExact
  <2> SUFFICES ASSUME EvidenceInv, NEW s \in Sessions, resume[s][Parent] # NoVersion
               PROVE  ReadingOf(VisibleOf(s, Parent), resume[s][Parent])
    BY DEF ParentResumeExact
  <2>1. resume[s][Parent] \in Stamp
    BY QueueAssumption DEF EvidenceInv, TypeOK
  <2>2. Reads(RowsOf(turn[s], ev[s].pub), resume[s][Parent])
    BY DEF EvidenceInv, StoreInv, ShownInv
  <2>3. VisibleOf(s, Parent) = RowsOf(turn[s], ev[s].pub)
    BY DEF VisibleOf, RowsOf
  <2> QED
    BY <2>1, <2>2, <2>3, ReadsCounts, StampIs
<1> QED
  BY <1>1, EvidenceInvAlways, PTL
-----------------------------------------------------------------------------
(* What a reader sees of the parent.                                             *)

(* The version a set of rows shows.                                              *)
VersionIn(rs) ==
    LET v == [epoch |-> (CHOOSE r \in rs : TRUE).epoch, len |-> Cardinality(rs)]
    IN  IF rs = {} THEN NoVersion ELSE IF ReadingOf(rs, v) THEN v ELSE Torn

(* The version that a set of rows shows is the one it reads. *)
LEMMA ShowsIn ==
    ASSUME NEW rs, NEW v \in Versions, Reads(rs, v)
    PROVE  VersionIn(rs) = v
<1> DEFINE shown == [epoch |-> (CHOOSE r \in rs : TRUE).epoch, len |-> Cardinality(rs)]
<1>1. rs # {}
  BY ReadsSome
<1>2. (CHOOSE r \in rs : TRUE).epoch = v.epoch
  BY <1>1 DEF Reads, OfEpoch
<1>3. ReadingOf(rs, v)
  BY ReadsCounts, VersionIs
<1>4. shown = [epoch |-> v.epoch, len |-> v.len]
  BY <1>2, <1>3 DEF ReadingOf
<1>5. shown = v
  BY <1>4, VersionIs, Zenon
<1> QED
  BY <1>1, <1>3, <1>5 DEF VersionIn

(* What the coverage record calls readable of the parent, with its version.      *)
ParentShown(cover, rs) == {<<src, VersionIn(rs)>> : src \in cover \cap {Parent}}

(* The queue seen through the parent transcript alone.                           *)
PP == INSTANCE EvidencePublication WITH
          Sources <- {Parent},
          recorded <- [s \in Sessions |-> ev[s].fp],
          evidence <- [s \in Sessions |->
                          {<<src, VersionOf(s, src)>> : src \in ev[s].cover \cap {Parent}}]

ShownNow == [s \in Sessions |-> ParentShown(ev[s].cover, RowsOf(turn[s], ev[s].pub))]

(* What the refinement shows of the store is what the entries show. *)
LEMMA ShownIs ==
    /\ [s \in Sessions |-> {<<src, VersionOf(s, src)>> : src \in ev[s].cover \cap {Parent}}]
         = ShownNow
    /\ [s \in Sessions |-> {<<src, VersionOf(s, src)>> : src \in ev[s].cover \cap {Parent}}]'
         = ShownNow'
<1>1. \A s \in Sessions : \A src \in ev[s].cover \cap {Parent} :
          VersionOf(s, src) = VersionIn(RowsOf(turn[s], ev[s].pub))
  BY DEF VersionOf, VisibleOf, VersionIn, RowsOf
<1>2. \A s \in Sessions : \A src \in ev'[s].cover \cap {Parent} :
          VersionOf(s, src)' = VersionIn(RowsOf(turn'[s], ev'[s].pub))
  BY DEF VersionOf, VisibleOf, VersionIn, RowsOf
<1>3. \A s \in Sessions : {<<src, VersionOf(s, src)>> : src \in ev[s].cover \cap {Parent}}
                              = ParentShown(ev[s].cover, RowsOf(turn[s], ev[s].pub))
  BY <1>1 DEF ParentShown
<1>4. \A s \in Sessions : {<<src, VersionOf(s, src)'>> : src \in ev'[s].cover \cap {Parent}}
                              = ParentShown(ev'[s].cover, RowsOf(turn'[s], ev'[s].pub))
  BY <1>2 DEF ParentShown
<1> QED
  BY <1>3, <1>4 DEF ShownNow

(* The step changes nothing a reader of session s can see.                       *)
Still(s) ==
    /\ ev'[s].fp = ev[s].fp /\ ev'[s].pub = ev[s].pub /\ ev'[s].cover = ev[s].cover
    /\ RowsOf(turn'[s], ev[s].pub) = RowsOf(turn[s], ev[s].pub)

(* A step in which every session stands still is a stutter of the abstract store. *)
LEMMA StillStutters ==
    ASSUME \A s \in Sessions : Still(s)
    PROVE  /\ [s \in Sessions |-> ev[s].fp]' = [s \in Sessions |-> ev[s].fp]
           /\ ShownNow' = ShownNow
BY Zenon DEF Still, ShownNow

(* Steps that touch neither the rows nor what a reader uses of the entries.      *)
LEMMA SameStill ==
    ASSUME turn' = turn,
           \A s \in Sessions : /\ ev'[s].fp = ev[s].fp /\ ev'[s].pub = ev[s].pub
                               /\ ev'[s].cover = ev[s].cover
    PROVE  \A s \in Sessions : Still(s)
BY DEF Still

(* Steps that touch only the unpublished rows of one fence.                      *)
LEMMA OwnStill ==
    ASSUME TypeOK, NEW s0 \in Sessions, NEW fence, ev[s0].pub # fence,
           NEW rows, turn' = [turn EXCEPT ![s0] = rows],
           \A r : r.fence # fence => (r \in rows <=> r \in turn[s0]),
           \A s \in Sessions : /\ ev'[s].fp = ev[s].fp /\ ev'[s].pub = ev[s].pub
                               /\ ev'[s].cover = ev[s].cover
    PROVE  \A s \in Sessions : Still(s)
<1> SUFFICES ASSUME NEW s \in Sessions PROVE RowsOf(turn'[s], ev[s].pub) = RowsOf(turn[s], ev[s].pub)
  BY DEF Still
<1>1. CASE s # s0
  BY <1>1 DEF TypeOK
<1>2. CASE s = s0
  <2>1. turn'[s] = rows
    BY <1>2 DEF TypeOK
  <2> QED
    BY <1>2, <2>1 DEF RowsOf
<1> QED
  BY <1>1, <1>2

(* Dropping the rows written so far to read in full changes nothing visible. *)
LEMMA FullReadStill ==
    ASSUME EvidenceInv, NEW w \in Workers, NEW p, NEW try, FullRead(w, p, try),
           p.s \in Sessions, ev' = ev
    PROVE  \A s \in Sessions : Still(s)
<1>1. CASE turn' = turn
  BY <1>1, SameStill
<1>2. CASE Active(ev[p.s], p) /\ turn' = [turn EXCEPT ![p.s] = turn[p.s] \ Flushed(p)]
  <2>1. ev[p.s].pub # p.fence
    BY <1>2 DEF Active
  <2>2. \A r : r.fence # p.fence => (r \in turn[p.s] \ Flushed(p) <=> r \in turn[p.s])
    BY DEF Flushed
  <2> DEFINE rows == turn[p.s] \ Flushed(p)
  <2> HIDE DEF rows
  <2>3. turn' = [turn EXCEPT ![p.s] = rows] /\ \A r : r.fence # p.fence => (r \in rows <=> r \in turn[p.s])
    BY <1>2, <2>2 DEF rows
  <2> QED
    BY <2>1, <2>3, OwnStill DEF EvidenceInv
<1> QED
  BY <1>1, <1>2 DEF FullRead

(* Discarding the rows of a claim that did not publish changes nothing visible. *)
LEMMA DiscardStill ==
    ASSUME EvidenceInv, NEW s0 \in Sessions, NEW fence,
           turn' = [turn EXCEPT ![s0] = Discard(s0, fence)],
           \A s \in Sessions : /\ ev'[s].fp = ev[s].fp /\ ev'[s].pub = ev[s].pub
                               /\ ev'[s].cover = ev[s].cover
    PROVE  \A s \in Sessions : Still(s)
<1>0. TypeOK
  BY DEF EvidenceInv
<1>1. CASE ev[s0].pub = fence
  <2>1. turn' = turn
    BY <1>0, <1>1 DEF Discard, TypeOK
  <2> QED
    BY <2>1, SameStill
<1>2. CASE ev[s0].pub # fence
  <2> DEFINE rows == Discard(s0, fence)
  <2>1. \A r : r.fence # fence => (r \in rows <=> r \in turn[s0])
    BY <1>2 DEF Discard
  <2> HIDE DEF rows
  <2> QED
    BY <1>0, <1>2, <2>1, OwnStill DEF rows
<1> QED
  BY <1>1, <1>2

(* So a failed claim changes nothing visible. *)
LEMMA FailStill ==
    ASSUME EvidenceInv, NEW s0 \in Sessions, NEW fence, NEW e2,
           e2.fp = ev[s0].fp /\ e2.pub = ev[s0].pub /\ e2.cover = ev[s0].cover,
           ev' = [ev EXCEPT ![s0] = e2],
           turn' = [turn EXCEPT ![s0] = Discard(s0, fence)]
    PROVE  \A s \in Sessions : Still(s)
<1>1. \A s \in Sessions : /\ ev'[s].fp = ev[s].fp /\ ev'[s].pub = ev[s].pub
                          /\ ev'[s].cover = ev[s].cover
  BY DEF EvidenceInv, TypeOK
<1> QED
  BY <1>1, DiscardStill


(* Files that change and entries that are requeued change nothing visible. *)
LEMMA StoreStill ==
    ASSUME EvidenceInv, NEW s0 \in Sessions, NEW src \in Sources,
           Append(s0, src) \/ Rewrite(s0, src) \/ Remove(s0, src) \/ Requeue(s0)
    PROVE  \A s \in Sessions : Still(s)
<1>0. ev \in [Sessions -> Entry]
  BY DEF EvidenceInv, TypeOK
<1>1. turn' = turn /\ (ev' = ev \/ ev' = [ev EXCEPT ![s0] = Pending(ev[s0])])
  BY <1>0 DEF Append, Rewrite, Remove, Change, Requeue
<1> QED
  BY <1>0, <1>1, PendingIs, SameStill

(* A restart changes nothing visible. *)
LEMMA RestartStill ==
    ASSUME EvidenceInv, Restart
    PROVE  \A s \in Sessions : Still(s)
<1>0. ev \in [Sessions -> Entry]
  BY DEF EvidenceInv, TypeOK
<1>1. turn' = turn /\ \A s \in Sessions : ev'[s] \in {ev[s], Pending(ev[s])}
  BY DEF Restart
<1> QED
  BY <1>0, <1>1, PendingIs, SameStill

(* No step of a pass changes what is visible, its accepted publication excepted. *)
LEMMA PassStill ==
    ASSUME EvidenceInv, NEW w \in Workers, PassNext(w),
           ~ (Publish(w) /\ Accepts(ev[worker[w].s], worker[w]))
    PROVE  \A s \in Sessions : Still(s)
<1> DEFINE p == worker[w]
           e == ev[p.s]
<1>0. /\ p \in Run /\ p.s \in Sessions /\ e \in Entry /\ ev \in [Sessions -> Entry]
      /\ TypeOK /\ p.counts \in BOOLEAN
      /\ PassInv(p, e, file[p.s], resume[p.s][Parent], turn[p.s])
  BY WorkerFacts DEF EvidenceInv, TypeOK, Run
<1>1. CASE \/ StartPass(w) \/ EndPass(w) \/ RenewFails(w) \/ Panic(w)
           \/ PublishFails(w) \/ SettleFails(w)
  <2>1. turn' = turn /\ ev' = ev
    BY <1>1 DEF StartPass, EndPass, RenewFails, Panic, PublishFails, SettleFails
  <2> QED
    BY <2>1, SameStill
<1>2. ASSUME NEW s0 \in Sessions, Claim(w, s0) PROVE \A s \in Sessions : Still(s)
  <2>1. turn' = turn /\ ev' = [ev EXCEPT ![s0].status = "processing", ![s0].claim = NextFence(s0)]
    BY <1>2 DEF Claim
  <2>2. \A s \in Sessions : /\ ev'[s].fp = ev[s].fp /\ ev'[s].pub = ev[s].pub
                            /\ ev'[s].cover = ev[s].cover
    BY <1>0, <2>1 DEF Entry
  <2> QED
    BY <2>1, <2>2, SameStill
<1>3. CASE OpenSource(w)
  <2> DEFINE opened == [p EXCEPT !.pc = "read", !.ver = file[p.s][p.src]]
  <2>1. ev' = ev /\ (turn' = turn \/ FullRead(w, opened, "again"))
    BY <1>3 DEF OpenSource
  <2>2. opened.s = p.s
    BY <1>0 DEF Run
  <2> HIDE DEF opened
  <2>3. CASE turn' = turn
    BY <2>1, <2>3, SameStill
  <2>4. CASE FullRead(w, opened, "again")
    BY <1>0, <2>1, <2>2, <2>4, FullReadStill
  <2> QED
    BY <2>1, <2>3, <2>4
<1>4. CASE EndRead(w) \/ ReadError(w)
  <2>1. ev' = ev /\ (turn' = turn \/ FullRead(w, p, "again") \/ FullRead(w, p, "plain"))
    <3>1. CASE EndRead(w)
      BY <3>1, Zenon DEF EndRead
    <3>2. CASE ReadError(w)
      BY <3>2 DEF ReadError
    <3> QED
      BY <1>4, <3>1, <3>2
  <2>2. CASE turn' = turn
    BY <2>1, <2>2, SameStill
  <2>3. CASE FullRead(w, p, "again") \/ FullRead(w, p, "plain")
    BY <1>0, <2>1, <2>3, FullReadStill
  <2> QED
    BY <2>1, <2>2, <2>3
<1>5. CASE ReadRow(w)
  <2> DEFINE row == [src |-> p.src, by |-> <<p.fence, p.try>>, fence |-> p.fence,
                     epoch |-> file[p.s][p.src].epoch, index |-> p.at + 1]
             rows == turn[p.s] \cup {row}
  <2>1. ev' = ev /\ (turn' = turn \/ (Active(e, p) /\ turn' = [turn EXCEPT ![p.s] = rows]))
    BY <1>5 DEF ReadRow
  <2>2. \A r : r.fence # p.fence => (r \in rows <=> r \in turn[p.s])
    OBVIOUS
  <2> HIDE DEF rows
  <2>3. CASE turn' = turn
    BY <2>1, <2>3, SameStill
  <2>4. CASE Active(e, p) /\ turn' = [turn EXCEPT ![p.s] = rows]
    <3>1. e.pub # p.fence
      BY <2>4 DEF Active
    <3> QED
      BY <1>0, <2>1, <2>2, <2>4, <3>1, OwnStill
  <2> QED
    BY <2>1, <2>3, <2>4
<1>6. CASE Publish(w)
  <2>1. ev' = ev /\ turn' = [turn EXCEPT ![p.s] = Discard(p.s, p.fence)]
    BY <1>6 DEF Publish
  <2> QED
    BY <1>0, <2>1, DiscardStill
<1>7. CASE Fail(w)
  <2> DEFINE failed == CASE p.outcome = "changed" -> Retried(e, TRUE)
                         [] p.outcome = "missing" -> Failed(e, TRUE)
                         [] p.outcome = "unreadable" ->
                                IF Retries(p, TRUE) THEN Retried(e, TRUE) ELSE Failed(e, FALSE)
             e2 == IF Current(e, p) THEN failed ELSE e
  <2>1. p.pc = "apply" /\ p.outcome # "published" /\ FailEvidence(p, failed)
    BY <1>7 DEF Fail
  <2>2. p.outcome \in {"missing", "unreadable", "changed"}
    BY <1>0, <2>1 DEF PassInv, Shape
  <2>3. failed \in {Retried(e, TRUE), Failed(e, TRUE), Failed(e, FALSE)}
    BY <2>2, Zenon
  <2> HIDE DEF failed
  <2>4. e2.fp = e.fp /\ e2.pub = e.pub /\ e2.cover = e.cover
    <3> HIDE DEF e
    <3>1. /\ Retried(e, TRUE).fp = e.fp /\ Retried(e, TRUE).pub = e.pub
          /\ Retried(e, TRUE).cover = e.cover
      BY <1>0, RetriedIs
    <3>2. \A m \in BOOLEAN : /\ Failed(e, m).fp = e.fp /\ Failed(e, m).pub = e.pub
                             /\ Failed(e, m).cover = e.cover
      BY <1>0, FailedIs
    <3> QED
      BY <2>3, <3>1, <3>2
  <2>5. ev' = [ev EXCEPT ![p.s] = e2] /\ turn' = [turn EXCEPT ![p.s] = Discard(p.s, p.fence)]
    BY <1>0, <2>1 DEF FailEvidence
  <2> HIDE DEF e2
  <2> QED
    BY <1>0, <2>4, <2>5, FailStill
<1>8. CASE Settle(w)
  <2> DEFINE failed == IF Retries(p, p.counts) THEN Retried(e, p.counts) ELSE Failed(e, FALSE)
             e2 == IF Current(e, p) THEN failed ELSE e
  <2>1. \/ ev' = ev /\ turn' = turn
        \/ FailEvidence(p, failed)
    BY <1>8 DEF Settle
  <2>2. e2.fp = e.fp /\ e2.pub = e.pub /\ e2.cover = e.cover
    BY <1>0, RetriedIs, FailedIs
  <2>3. CASE ev' = ev /\ turn' = turn
    BY <2>3, SameStill
  <2>4. CASE FailEvidence(p, failed)
    <3>1. ev' = [ev EXCEPT ![p.s] = e2] /\ turn' = [turn EXCEPT ![p.s] = Discard(p.s, p.fence)]
      BY <1>0, <2>4 DEF FailEvidence
    <3> HIDE DEF e2
    <3> QED
      BY <1>0, <2>2, <3>1, FailStill
  <2> QED
    BY <2>1, <2>3, <2>4
<1> QED
  BY <1>1, <1>2, <1>3, <1>4, <1>5, <1>6, <1>7, <1>8 DEF PassNext

(* Every step of the queue is a step of the promise, or changes nothing of it.   *)
LEMMA AbstractPublish ==
    ASSUME EvidenceInv, NEW w \in Workers, Publish(w), Accepts(ev[worker[w].s], worker[w]),
           NEW s0 \in Sessions, s0 = worker[w].s
    PROVE  PP!Publish(s0)
<1> DEFINE p == worker[w]
           e == ev[s0]
           e2 == Published(e, p)
           target == TargetFence(e, p)
           rows == PublishedRows(p)
           seen == RowsOf(turn[s0], e.pub)
           shown == {<<Parent, p.read>>}
<1>0. p \in Run /\ s0 \in Sessions /\ e \in Entry /\ TypeOK
  BY WorkerFacts DEF EvidenceInv
<1>1. /\ p.pc = "apply" /\ p.outcome = "published"
      /\ ev' = [ev EXCEPT ![s0] = e2] /\ turn' = [turn EXCEPT ![s0] = rows]
  BY <1>0 DEF Publish, TypeOK
<1>2. /\ Reads(RowsOf(rows, target), p.read) /\ p.read \in Versions /\ e.fp = p.read
      /\ p.mode[Parent] # "none"
      /\ \A v \in Versions : Reads(seen, v) => NotBefore(p.read, v)
  BY <1>1, PublicationIs
<1>3. e2.pub = target /\ e2.fp = e.fp /\ Parent \in e2.cover
  BY <1>0, <1>2, PublishedIs, QueueAssumption
<1> HIDE DEF e2, rows, target
<1>4. /\ ev'[s0] = e2 /\ turn'[s0] = rows
      /\ \A s \in Sessions : s # s0 => ev'[s] = ev[s] /\ turn'[s] = turn[s]
  BY <1>0, <1>1 DEF TypeOK
<1>5. VersionIn(RowsOf(rows, target)) = p.read
  BY <1>2, ShowsIn
<1>6. ParentShown(e2.cover, RowsOf(rows, e2.pub)) = shown
  BY <1>3, <1>5 DEF ParentShown
<1>7. ShownNow' = [ShownNow EXCEPT ![s0] = shown] /\ ShownNow'[s0] = shown
  BY <1>0, <1>4, <1>6 DEF ShownNow
<1>8. [s \in Sessions |-> ev[s].fp]' = [s \in Sessions |-> ev[s].fp]
  BY <1>3, <1>4
<1>9. \A o \in ShownNow[s0] : ~ PP!Older(p.read, o[2])
  <2> SUFFICES ASSUME NEW o \in ShownNow[s0] PROVE ~ PP!Older(p.read, o[2])
    OBVIOUS
  <2>1. Parent \in e.cover /\ o[2] = VersionIn(seen)
    BY <1>0 DEF ShownNow, ParentShown
  <2>2. PICK v \in Versions : Reads(seen, v)
    BY <1>0, <2>1 DEF EvidenceInv, StoreInv, ShownInv
  <2>3. o[2] = v /\ NotBefore(p.read, v)
    BY <1>2, <2>1, <2>2, ShowsIn
  <2> QED
    BY <1>2, <2>3, VersionIs DEF PP!Older, NotBefore
<1>10. PP!NoVersion = NoVersion
  BY DEF PP!NoVersion, NoVersion
<1>11. p.read # NoVersion
  BY <1>2, VersionIs
<1> HIDE DEF p, e, shown
<1>12. PP!Publish(s0)
  <2>1. [s \in Sessions |-> ev[s].fp][s0] = p.read
    BY <1>0, <1>2 DEF e
  <2>2. /\ <<Parent, p.read>> \in shown /\ shown \subseteq {Parent} \X Versions
        /\ \A m, n \in shown : m[1] = n[1] => m = n
        /\ \A n \in shown : n[2] = p.read
    BY <1>2 DEF shown
  <2>3. \A o \in ShownNow[s0], n \in shown : o[1] = n[1] => ~ PP!Older(n[2], o[2])
    BY <1>9, <2>2
  <2> QED
    BY <1>7, <1>8, <1>10, <1>11, <2>1, <2>2, <2>3, ShownIs DEF PP!Publish
<1> QED
  BY <1>12

(* A scan records the session in the abstract store. *)
LEMMA AbstractRecord ==
    ASSUME EvidenceInv, NEW s \in Sessions, Scan(s)
    PROVE  PP!Record(s)
<1>1. PICK e2 \in Entry : /\ ev' = [ev EXCEPT ![s] = e2] /\ Rewritten(ev[s], e2)
                          /\ e2.fp = file[s][Parent] /\ file[s][Parent] \in Versions
  BY ScanIs
<1>2. /\ ev'[s] = e2 /\ \A x \in Sessions : x # s => ev'[x] = ev[x]
      /\ turn' = turn
  BY <1>1 DEF EvidenceInv, TypeOK, Scan
<1>3. \A x \in Sessions : ev'[x].cover = ev[x].cover /\ ev'[x].pub = ev[x].pub
  BY <1>1, <1>2 DEF Rewritten
<1>4. ShownNow' = ShownNow
  BY <1>2, <1>3 DEF ShownNow
<1>5. [x \in Sessions |-> ev[x].fp]' = [[x \in Sessions |-> ev[x].fp] EXCEPT ![s] = e2.fp]
  BY <1>2
<1>6. [x \in Sessions |-> ev[x].fp]'[s] = e2.fp
  BY <1>2
<1> QED
  BY <1>1, <1>4, <1>5, <1>6, ShownIs DEF PP!Record

(* A deletion forgets it. *)
LEMMA AbstractForget ==
    ASSUME EvidenceInv, NEW s \in Sessions, DeleteSession(s)
    PROVE  PP!Forget(s)
<1>1. /\ ev'[s] = Absent /\ turn'[s] = {}
      /\ \A x \in Sessions : x # s => ev'[x] = ev[x] /\ turn'[x] = turn[x]
  BY DEF EvidenceInv, TypeOK, DeleteSession
<1>2. ParentShown(Absent.cover, RowsOf({}, Absent.pub)) = {}
  BY AbsentIs DEF ParentShown
<1>3. ShownNow' = [ShownNow EXCEPT ![s] = {}]
  BY <1>1, <1>2 DEF ShownNow
<1>4. [x \in Sessions |-> ev[x].fp]' = [[x \in Sessions |-> ev[x].fp] EXCEPT ![s] = NoVersion]
  BY <1>1, AbsentIs
<1>5. PP!NoVersion = NoVersion
  BY DEF PP!NoVersion, NoVersion
<1> QED
  BY <1>3, <1>4, <1>5, ShownIs DEF PP!Forget

(* The initial states map to initial states of the abstract store. *)
LEMMA AbstractInit == Init => PP!Init
<1> SUFFICES ASSUME Init PROVE PP!Init
  OBVIOUS
<1>1. ShownNow = [s \in Sessions |-> {}]
  BY AbsentIs DEF Init, ShownNow, ParentShown
<1>2. [s \in Sessions |-> ev[s].fp] = [s \in Sessions |-> NoVersion]
  BY AbsentIs DEF Init
<1>3. PP!NoVersion = NoVersion
  BY DEF PP!NoVersion, NoVersion
<1> QED
  BY <1>1, <1>2, <1>3, ShownIs DEF PP!Init

(* Every step maps to a step of the abstract store or to a stutter. *)
LEMMA AbstractNext ==
    ASSUME EvidenceInv, [Next]_vars
    PROVE  \/ \E s \in Sessions : PP!Record(s) \/ PP!Publish(s) \/ PP!Forget(s)
           \/ /\ [s \in Sessions |-> ev[s].fp]' = [s \in Sessions |-> ev[s].fp]
              /\ ShownNow' = ShownNow
<1>1. ASSUME NEW w \in Workers, PassNext(w)
      PROVE  \/ \E s \in Sessions : PP!Publish(s)
             \/ \A s \in Sessions : Still(s)
  <2>1. worker[w].s \in Sessions
    BY WorkerFacts
  <2>2. CASE Publish(w) /\ Accepts(ev[worker[w].s], worker[w])
    <3>1. PICK s \in Sessions : s = worker[w].s
      BY <2>1
    <3>2. PP!Publish(s)
      BY <2>2, <3>1, AbstractPublish
    <3> QED
      BY <3>2
  <2>3. CASE ~ (Publish(w) /\ Accepts(ev[worker[w].s], worker[w]))
    BY <1>1, <2>3, PassStill
  <2> QED
    BY <2>2, <2>3
<1>2. ASSUME NEW s0 \in Sessions, StoreNext(s0)
      PROVE  PP!Record(s0) \/ PP!Forget(s0) \/ \A s \in Sessions : Still(s)
  BY <1>2, AbstractRecord, AbstractForget, StoreStill, QueueAssumption DEF StoreNext
<1>3. CASE UNCHANGED vars
  <2>1. turn' = turn /\ ev' = ev
    BY <1>3 DEF vars
  <2>2. \A s \in Sessions : Still(s)
    BY <2>1 DEF Still
  <2> QED
    BY <2>2, StillStutters
<1> QED
  BY <1>1, <1>2, <1>3, RestartStill, StillStutters DEF Next

(* Seen through the parent transcript, the queue implements its promise for any  *)
(* number of sessions, workers, versions and faults: the visible evidence of the *)
(* parent changes only by a publication of the version the session row records,  *)
(* as a whole and never back to an older version, and it goes only with the      *)
(* session (publish_projections, publish_turn_rows, delete_session_in).          *)
THEOREM ParentPublishedWhole == Spec => PP!Spec
<1>1. EvidenceInv /\ [Next]_vars
        => [PP!Next]_<<[s \in Sessions |-> ev[s].fp],
                       [s \in Sessions |-> {<<src, VersionOf(s, src)>> :
                                              src \in ev[s].cover \cap {Parent}}]>>
  BY AbstractNext, ShownIs DEF PP!Next
<1> QED
  BY <1>1, AbstractInit, EvidenceInvAlways, PTL DEF Spec, PP!Spec
=============================================================================
