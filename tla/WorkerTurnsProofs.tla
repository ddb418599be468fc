---------------------------- MODULE WorkerTurnsProofs ----------------------------
(* What a publication starts, and that no session starves, proved for every      *)
(* number of sessions, workers and resets.                                       *)
EXTENDS WorkerTurns, TLAPS, FiniteSetTheorems, WellFoundedInduction

-----------------------------------------------------------------------------
(* The invariant.                                                                *)

Loop == [pc : {"top", "gate", "work", "pass", "report", "asleep"}, busy : BOOLEAN,
         s : Sessions \cup {FirstSeen[1]}, gen : Nat, since : Nat]

Gate == [stage : Welcome..Checks, generation : Nat, published : BOOLEAN]

LearnTypes ==
    /\ gate \in Gate
    /\ worker \in [Workers -> Loop]
    /\ newest \in Nat \cup {-1}
    /\ pubs \subseteq Nat \X Nat

(* What a worker knows of the first run: the generation it read is not ahead of  *)
(* the gate, its claim is not older than that reading, and a worker past the     *)
(* gate in the present run found the gate open.  A worker that reports is idle.  *)
KnowsRun(p, g) ==
    /\ p.pc \in {"gate", "work", "pass"} => p.gen <= g.generation
    /\ p.pc = "pass" => p.busy /\ p.gen <= p.since /\ p.since <= g.generation
    /\ p.pc \in {"work", "pass"} /\ p.gen = g.generation => g.stage >= Checks
    /\ p.pc = "report" => ~ p.busy

RunsInv == \A w \in Workers : KnowsRun(worker[w], gate)

(* The same of a publication that was noted.                                     *)
Noted(n, g) ==
    /\ n[1] <= n[2] /\ n[2] <= g.generation
    /\ n[1] = g.generation => g.stage >= Checks

PubsInv == \A n \in pubs : Noted(n, gate)

(* A generation that a worker has taken to report was published.                 *)
TakenInv == \A w \in Workers : worker[w].pc = "report" => \E n \in pubs : n[1] = worker[w].gen

(* So was one that waits to be taken, and a busy worker is left to take it.      *)
NewestInv ==
    newest # -1 => /\ \E n \in pubs : n[1] = newest
                   /\ \E w \in Workers : worker[w].busy

(* A publication of the present run has been reported, is about to be, or waits. *)
Reports(w) == worker[w].pc = "report" /\ worker[w].gen = gate.generation

ReportInv ==
    (\E n \in pubs : n[1] = gate.generation) =>
        gate.published \/ newest = gate.generation \/ \E w \in Workers : Reports(w)

LearnInv ==
    LearnTypes /\ RunsInv /\ PubsInv /\ TakenInv /\ NewestInv /\ ReportInv /\ LearnsOwnRun

-----------------------------------------------------------------------------
(* The steps.                                                                    *)

(* A worker at the top of its loop. *)
LEMMA AtTopIs ==
    /\ AtTop \in Loop /\ AtTop.pc = "top" /\ AtTop.busy = FALSE
    /\ [AtTop EXCEPT !.pc = "asleep"] \in Loop
    /\ [AtTop EXCEPT !.pc = "asleep"].pc = "asleep"
    /\ [AtTop EXCEPT !.pc = "asleep"].busy = FALSE
BY DEF AtTop, Loop

(* A worker that reports. *)
LEMMA ReportsIs ==
    ASSUME NEW g \in Nat
    PROVE  LET p == [AtTop EXCEPT !.pc = "report", !.gen = g]
           IN  p \in Loop /\ p.pc = "report" /\ p.busy = FALSE /\ p.gen = g
BY DEF AtTop, Loop

(* Going back to the top keeps whether the pass was busy. *)
LEMMA ToTopIs ==
    ASSUME NEW p \in Loop
    PROVE  ToTop(p) \in Loop /\ ToTop(p).pc = "top" /\ ToTop(p).busy = p.busy
BY DEF ToTop, AtTop, Loop

(* The fields of the first-run gate. *)
LEMMA GateIs ==
    ASSUME NEW g \in Gate
    PROVE  /\ g.stage \in 0..2 /\ g.generation \in Nat /\ g.published \in BOOLEAN
           /\ Checks = 2
BY DEF Gate, Welcome, Checks

(* The invariant holds at the start. *)
LEMMA InitLearns == Init => LearnInv
<1> SUFFICES ASSUME Init PROVE LearnInv
  OBVIOUS
<1>1. gate \in Gate /\ gate.published = FALSE
  <2>1. PICK stage \in {Welcome, Checks}, generation \in {0}, published \in {FALSE} :
            gate = [stage |-> stage, generation |-> generation, published |-> published]
    BY Zenon DEF Init
  <2>2. gate = [stage |-> stage, generation |-> 0, published |-> FALSE]
    BY <2>1, Zenon
  <2> QED
    BY <2>1, <2>2 DEF Gate, Welcome, Checks
<1>2. LearnTypes
  BY <1>1, AtTopIs DEF Init, LearnTypes
<1>3. RunsInv
  BY AtTopIs DEF Init, RunsInv, KnowsRun
<1>4. PubsInv /\ TakenInv /\ NewestInv /\ ReportInv /\ LearnsOwnRun
  BY <1>1, AtTopIs DEF Init, PubsInv, TakenInv, NewestInv, ReportInv, LearnsOwnRun
<1> QED
  BY <1>2, <1>3, <1>4 DEF LearnInv

(* A step of one worker that leaves the gate and the publications alone and does *)
(* not end its busy time.                                                        *)
LEMMA LoopStep ==
    ASSUME LearnInv, NEW w \in Workers, NEW p \in Loop, Step(w, p),
           UNCHANGED <<gate, newest, pubs>>, KnowsRun(p, gate), worker[w].busy => p.busy,
           worker[w].pc # "report", p.pc # "report"
    PROVE  LearnInv'
<1>1. /\ worker' \in [Workers -> Loop] /\ worker'[w] = p
      /\ \A v \in Workers : v # w => worker'[v] = worker[v]
  BY DEF LearnInv, LearnTypes, Step
<1>2. LearnTypes' /\ PubsInv' /\ TakenInv' /\ LearnsOwnRun'
  BY <1>1 DEF LearnInv, LearnTypes, PubsInv, Noted, TakenInv, LearnsOwnRun
<1>5. ReportInv'
  BY <1>1 DEF LearnInv, ReportInv, Reports
<1>3. RunsInv'
  BY <1>1 DEF LearnInv, RunsInv, KnowsRun
<1>4. NewestInv'
  BY <1>1 DEF LearnInv, NewestInv
<1> QED
  BY <1>2, <1>3, <1>4, <1>5 DEF LearnInv

(* Reading the generation at the top of the loop keeps the invariant, *)
LEMMA TopStep ==
    ASSUME LearnInv, NEW w \in Workers, Top(w)
    PROVE  LearnInv'
<1> DEFINE n == gate.generation
           p == [worker[w] EXCEPT !.pc = "gate", !.gen = n]
<1>0. worker[w] \in Loop /\ n \in Nat
  BY GateIs DEF LearnInv, LearnTypes
<1>1. p \in Loop /\ p.busy = worker[w].busy /\ p.pc = "gate" /\ p.gen = n
  <2> HIDE DEF n
  <2> QED
    BY <1>0 DEF Loop
<1>2. worker[w].pc = "top" /\ Step(w, p) /\ UNCHANGED <<gate, newest, pubs>>
  BY DEF Top
<1>3. KnowsRun(p, gate)
  BY <1>0, <1>1 DEF KnowsRun
<1> HIDE DEF p
<1> QED
  BY <1>1, <1>2, <1>3, LoopStep

(* and so does passing the gate, *)
LEMMA PassGateStep ==
    ASSUME LearnInv, NEW w \in Workers, PassGate(w)
    PROVE  LearnInv'
<1> DEFINE p == AfterGate(worker[w])
<1>0. worker[w] \in Loop /\ gate \in Gate /\ KnowsRun(worker[w], gate)
  BY DEF LearnInv, LearnTypes, RunsInv
<1>1. gate.stage >= Checks /\ worker[w].pc = "gate" /\ Step(w, p) /\ UNCHANGED <<gate, newest, pubs>>
  BY DEF PassGate
<1>2. CASE gate.generation = worker[w].gen
  <2>1. p \in Loop /\ p.busy = worker[w].busy /\ p.pc = "work" /\ p.gen = worker[w].gen
    BY <1>0, <1>2 DEF AfterGate, Loop
  <2>2. KnowsRun(p, gate)
    BY <1>0, <1>1, <1>2, <2>1, GateIs DEF KnowsRun
  <2> HIDE DEF p
  <2> QED
    BY <1>1, <2>1, <2>2, LoopStep
<1>3. CASE gate.generation # worker[w].gen
  <2>1. p \in Loop /\ p.busy = worker[w].busy /\ p.pc = "top"
    BY <1>0, <1>3, ToTopIs DEF AfterGate
  <2>2. KnowsRun(p, gate)
    BY <2>1 DEF KnowsRun
  <2> HIDE DEF p
  <2> QED
    BY <1>1, <2>1, <2>2, LoopStep
<1> QED
  BY <1>2, <1>3

(* a claim, *)
LEMMA ClaimStep ==
    ASSUME LearnInv, NEW w \in Workers, NEW s \in Sessions, Claim(w, s)
    PROVE  LearnInv'
<1> DEFINE n == gate.generation
           p == [worker[w] EXCEPT !.pc = "pass", !.busy = TRUE, !.s = s, !.since = n]
<1>0. worker[w] \in Loop /\ gate \in Gate /\ KnowsRun(worker[w], gate) /\ n \in Nat
  BY GateIs DEF LearnInv, LearnTypes, RunsInv
<1>1. worker[w].pc = "work" /\ Step(w, p) /\ UNCHANGED <<gate, newest, pubs>>
  BY DEF Claim
<1>2. p \in Loop /\ p.busy = TRUE /\ p.pc = "pass" /\ p.gen = worker[w].gen /\ p.since = n
  <2> HIDE DEF n
  <2> QED
    BY <1>0 DEF Loop
<1>3. KnowsRun(p, gate)
  BY <1>0, <1>1, <1>2 DEF KnowsRun
<1> HIDE DEF p
<1> QED
  BY <1>1, <1>2, <1>3, LoopStep

(* a return to the top that publishes nothing, *)
LEMMA BackToTop ==
    ASSUME LearnInv, NEW w \in Workers, Step(w, ToTop(worker[w])),
           UNCHANGED <<gate, newest, pubs>>, worker[w].pc # "report"
    PROVE  LearnInv'
<1> DEFINE p == ToTop(worker[w])
<1>1. p \in Loop /\ p.busy = worker[w].busy /\ p.pc = "top"
  BY ToTopIs DEF LearnInv, LearnTypes
<1>2. KnowsRun(p, gate)
  BY <1>1 DEF KnowsRun
<1> HIDE DEF p
<1>3. Step(w, p)
  BY DEF p
<1> QED
  BY <1>1, <1>2, <1>3, LoopStep

(* the end of the busy time: the last worker takes what is noted, *)
LEMMA IdleStep ==
    ASSUME LearnInv, NEW w \in Workers, GoesIdle(w), worker[w].pc # "report",
           UNCHANGED <<gate, pubs>>
    PROVE  LearnInv'
<1> DEFINE last == worker[w].busy /\ \A v \in Workers \ {w} : ~ worker[v].busy
           p == IF last /\ newest # -1 THEN [AtTop EXCEPT !.pc = "report", !.gen = newest]
                ELSE [AtTop EXCEPT !.pc = "asleep"]
<1>0. /\ gate \in Gate /\ newest \in Nat \cup {-1} /\ pubs \subseteq Nat \X Nat
      /\ LearnTypes /\ RunsInv /\ PubsInv /\ TakenInv /\ NewestInv /\ ReportInv /\ LearnsOwnRun
  BY DEF LearnInv, LearnTypes
<1>1. /\ p \in Loop /\ p.busy = FALSE
      /\ p.pc = IF last /\ newest # -1 THEN "report" ELSE "asleep"
      /\ last /\ newest # -1 => p.gen = newest
  BY <1>0, AtTopIs, ReportsIs
<1>2. Step(w, p) /\ newest' = IF last THEN -1 ELSE newest
  BY DEF GoesIdle
<1> HIDE DEF p
<1>3. /\ worker' \in [Workers -> Loop] /\ worker'[w] = p
      /\ \A v \in Workers : v # w => worker'[v] = worker[v]
  BY <1>0, <1>1, <1>2 DEF LearnTypes, Step
<1>4. LearnTypes' /\ PubsInv' /\ LearnsOwnRun'
  BY <1>0, <1>2, <1>3 DEF LearnTypes, PubsInv, Noted, LearnsOwnRun
<1>5. RunsInv'
  BY <1>0, <1>1, <1>3 DEF RunsInv, KnowsRun
<1>6. TakenInv'
  BY <1>0, <1>1, <1>3 DEF TakenInv, NewestInv
<1>7. NewestInv'
  BY <1>0, <1>2, <1>3 DEF NewestInv
<1>8. ReportInv'
  <2> SUFFICES ASSUME \E n \in pubs : n[1] = gate.generation
               PROVE  gate.published \/ newest' = gate.generation \/ \E v \in Workers : Reports(v)'
    BY DEF ReportInv
  <2>1. CASE newest = gate.generation
    <3>1. newest # -1
      BY <1>0, <2>1, GateIs
    <3>2. last => Reports(w)'
      BY <1>1, <1>3, <2>1, <3>1 DEF Reports
    <3> QED
      BY <1>2, <2>1, <3>2
  <2>2. ASSUME NEW v \in Workers, Reports(v) PROVE Reports(v)'
    BY <1>3, <2>2 DEF Reports
  <2> QED
    BY <1>0, <2>1, <2>2 DEF ReportInv
<1> QED
  BY <1>4, <1>5, <1>6, <1>7, <1>8 DEF LearnInv

(* and its report: what is marked is a publication of the present run, *)
LEMMA ReportStep ==
    ASSUME LearnInv, NEW w \in Workers, Report(w)
    PROVE  LearnInv'
<1> DEFINE p == [AtTop EXCEPT !.pc = "asleep"]
           gen == worker[w].gen
           g == Marked(gate, gen)
<1>0. /\ gate \in Gate /\ newest \in Nat \cup {-1} /\ pubs \subseteq Nat \X Nat
      /\ LearnTypes /\ RunsInv /\ PubsInv /\ TakenInv /\ NewestInv /\ ReportInv /\ LearnsOwnRun
      /\ worker \in [Workers -> Loop]
  BY DEF LearnInv, LearnTypes
<1>1. /\ worker[w].pc = "report" /\ gate' = g /\ Step(w, p)
      /\ newest' = newest /\ pubs' = pubs
  BY DEF Report
<1>2. /\ g \in Gate /\ g.stage = gate.stage /\ g.generation = gate.generation
      /\ g.published = (gate.published \/ (gate.generation = gen /\ gate.stage >= Checks))
  BY <1>0 DEF Marked, Gate
<1> HIDE DEF g
<1>3. /\ worker' \in [Workers -> Loop] /\ worker'[w].pc = "asleep"
      /\ \A v \in Workers : v # w => worker'[v] = worker[v]
  BY <1>0, <1>1, AtTopIs DEF Step
<1>4. ~ worker[w].busy
  BY <1>0, <1>1 DEF RunsInv, KnowsRun
<1>5. PICK n \in pubs : n[1] = gen
  BY <1>0, <1>1 DEF TakenInv
<1>6. /\ n[1] <= n[2] /\ n[2] <= gate.generation /\ n[1] \in Nat /\ n[2] \in Nat
      /\ n[1] = gate.generation => gate.stage >= Checks
  BY <1>0 DEF PubsInv, Noted
<1>7. LearnTypes' /\ PubsInv' /\ TakenInv' /\ NewestInv'
  BY <1>0, <1>1, <1>2, <1>3, <1>4 DEF LearnTypes, PubsInv, Noted, TakenInv, NewestInv
<1>8. RunsInv'
  BY <1>0, <1>1, <1>2, <1>3 DEF RunsInv, KnowsRun
<1>9. ReportInv'
  <2>1. gen = gate.generation => g.published
    BY <1>2, <1>5, <1>6
  <2> QED
    BY <1>0, <1>1, <1>2, <1>3, <2>1 DEF ReportInv, Reports
<1>10. LearnsOwnRun'
  <2>1. gate.generation = gen => n[2] = gate.generation
    BY <1>0, <1>5, <1>6, GateIs
  <2> QED
    BY <1>0, <1>1, <1>2, <2>1 DEF LearnsOwnRun
<1> QED
  BY <1>7, <1>8, <1>9, <1>10 DEF LearnInv

(* a publication, *)
LEMMA PublishStep ==
    ASSUME LearnInv, NEW w \in Workers, Publish(w)
    PROVE  LearnInv'
<1> DEFINE p == worker[w]
           q == ToTop(p)
           note == <<p.gen, p.since>>
<1>0. /\ p \in Loop /\ gate \in Gate /\ KnowsRun(p, gate) /\ gate.generation \in Nat
      /\ newest \in Nat \cup {-1} /\ pubs \subseteq Nat \X Nat
      /\ LearnTypes /\ RunsInv /\ PubsInv /\ NewestInv /\ ReportInv /\ LearnsOwnRun
  BY GateIs DEF LearnInv, LearnTypes, RunsInv
<1>1. /\ p.pc = "pass" /\ newest' = Newest(p.gen) /\ pubs' = pubs \cup {note}
      /\ Step(w, q) /\ gate' = gate
  BY DEF Publish, Holds
<1>2. q \in Loop /\ q.busy = p.busy /\ q.pc = "top"
  BY <1>0, ToTopIs
<1>3. p.busy /\ p.gen \in Nat /\ p.since \in Nat /\ note \in Nat \X Nat /\ Noted(note, gate)
  BY <1>0, <1>1 DEF KnowsRun, Loop, Noted
<1> HIDE DEF q
<1>4. /\ worker' \in [Workers -> Loop] /\ worker'[w] = q
      /\ \A v \in Workers : v # w => worker'[v] = worker[v]
  BY <1>0, <1>1, <1>2 DEF LearnTypes, Step
<1>5. newest' \in Nat /\ newest' >= newest /\ newest' >= p.gen /\ newest' \in {newest, p.gen}
  BY <1>0, <1>1, <1>3 DEF Newest
<1>6. newest <= gate.generation /\ p.gen <= gate.generation
  BY <1>0, <1>1, <1>3 DEF NewestInv, PubsInv, Noted, KnowsRun
<1>7. LearnTypes'
  BY <1>0, <1>1, <1>3, <1>4, <1>5 DEF LearnTypes
<1>8. RunsInv'
  BY <1>0, <1>1, <1>2, <1>4 DEF RunsInv, KnowsRun
<1>9. PubsInv'
  BY <1>0, <1>1, <1>3 DEF PubsInv
<1>10. NewestInv'
  <2>1. note \in pubs' /\ note[1] = p.gen
    BY <1>1
  <2>2. \E n \in pubs' : n[1] = newest'
    <3>1. CASE newest' = p.gen
      BY <2>1, <3>1
    <3>2. CASE newest' = newest
      BY <1>0, <1>1, <1>5, <3>2 DEF NewestInv
    <3> QED
      BY <1>5, <3>1, <3>2
  <2> QED
    BY <1>2, <1>3, <1>4, <2>2 DEF NewestInv
<1>11. ReportInv'
  <2>1. ASSUME NEW v \in Workers, Reports(v) PROVE Reports(v)'
    BY <1>1, <1>4, <2>1 DEF Reports
  <2>2. gate.generation = newest => newest' = gate.generation
    BY <1>0, <1>5, <1>6
  <2>3. gate.generation = p.gen => newest' = gate.generation
    BY <1>0, <1>5, <1>6
  <2> QED
    BY <1>0, <1>1, <2>1, <2>2, <2>3 DEF ReportInv
<1>12. LearnsOwnRun'
  BY <1>0, <1>1 DEF LearnsOwnRun
<1>13. TakenInv'
  <2> SUFFICES ASSUME NEW v \in Workers, worker'[v].pc = "report"
               PROVE  \E n \in pubs' : n[1] = worker'[v].gen
    BY DEF TakenInv
  <2>1. v # w /\ worker'[v] = worker[v]
    BY <1>2, <1>4
  <2>2. \E n \in pubs : n[1] = worker[v].gen
    BY <2>1 DEF LearnInv, TakenInv
  <2> QED
    BY <1>1, <2>1, <2>2
<1> QED
  BY <1>7, <1>8, <1>9, <1>10, <1>11, <1>12, <1>13 DEF LearnInv

(* a stage of the first run that ends, *)
LEMMA AdvanceStep ==
    ASSUME LearnInv, Advance
    PROVE  LearnInv'
<1>0. gate \in Gate /\ gate.stage \in 0..2 /\ Checks = 2
  BY GateIs DEF LearnInv, LearnTypes
<1>1. PICK stage \in (gate.stage + 1)..Checks : gate' = [gate EXCEPT !.stage = stage]
  BY DEF Advance
<1>2. /\ gate' \in Gate /\ gate'.generation = gate.generation
      /\ gate'.published = gate.published /\ gate'.stage >= gate.stage
      /\ gate'.stage \in 0..2
  <2>1. stage \in 0..2 /\ stage >= gate.stage /\ stage \in Welcome..Checks
    BY <1>0, <1>1 DEF Welcome
  <2> QED
    BY <1>0, <1>1, <2>1 DEF Gate
<1>3. UNCHANGED <<worker, newest, pubs>>
  BY DEF Advance
<1>4. LearnTypes' /\ TakenInv' /\ NewestInv' /\ ReportInv' /\ LearnsOwnRun'
  BY <1>2, <1>3 DEF LearnInv, LearnTypes, TakenInv, NewestInv, ReportInv, Reports, LearnsOwnRun
<1>5. RunsInv' /\ PubsInv'
  BY <1>0, <1>2, <1>3 DEF LearnInv, RunsInv, KnowsRun, PubsInv, Noted
<1> QED
  BY <1>4, <1>5 DEF LearnInv

(* and a reset of the gate. *)
LEMMA ResetStep ==
    ASSUME LearnInv, Reset
    PROVE  LearnInv'
<1> DEFINE n == gate.generation + 1
<1>0. gate \in Gate /\ gate.generation \in Nat /\ n \in Nat /\ n > gate.generation
  BY GateIs DEF LearnInv, LearnTypes
<1>1. gate' = [stage |-> Welcome, generation |-> n, published |-> FALSE]
      /\ UNCHANGED <<worker, newest, pubs>>
  BY DEF Reset
<1> HIDE DEF n
<1>2. gate' \in Gate /\ gate'.generation = n /\ gate'.published = FALSE
  BY <1>0, <1>1 DEF Gate, Welcome, Checks
<1>3. LearnTypes' /\ TakenInv' /\ NewestInv' /\ LearnsOwnRun'
  BY <1>1, <1>2 DEF LearnInv, LearnTypes, TakenInv, NewestInv, LearnsOwnRun
<1>4. RunsInv'
  <2> SUFFICES ASSUME NEW w \in Workers PROVE KnowsRun(worker[w], gate')
    BY <1>1 DEF RunsInv
  <2>1. worker[w] \in Loop /\ KnowsRun(worker[w], gate)
    BY DEF LearnInv, LearnTypes, RunsInv
  <2>2. worker[w].gen \in Nat /\ worker[w].since \in Nat
    BY <2>1 DEF Loop
  <2> QED
    BY <1>0, <1>2, <2>1, <2>2 DEF KnowsRun
<1>5. PubsInv' /\ ReportInv'
  <2>1. \A m \in pubs : m[1] \in Nat /\ m[2] \in Nat /\ m[1] <= m[2] /\ m[2] < n
    BY <1>0 DEF LearnInv, LearnTypes, PubsInv, Noted
  <2> QED
    BY <1>0, <1>1, <1>2, <2>1 DEF PubsInv, Noted, ReportInv
<1> QED
  BY <1>3, <1>4, <1>5 DEF LearnInv

(* What leaves the gate, the workers and the publications alone keeps the invariant. *)
LEMMA SameLearn ==
    ASSUME LearnInv, UNCHANGED <<gate, worker, newest, pubs>>
    PROVE  LearnInv'
BY DEF LearnInv, LearnTypes, RunsInv, KnowsRun, PubsInv, Noted, TakenInv, NewestInv, ReportInv,
       Reports, LearnsOwnRun

(* Every step keeps the invariant. *)
LEMMA NextLearns == LearnInv /\ [Next]_vars => LearnInv'
<1> SUFFICES ASSUME LearnInv, [Next]_vars PROVE LearnInv'
  OBVIOUS
<1>1. ASSUME NEW w \in Workers,
             \/ Top(w) \/ PassGate(w) \/ (\E s \in Sessions : Claim(w, s)) \/ NoWork(w)
             \/ Wake(w) \/ Publish(w) \/ Fails(w) \/ Superseded(w) \/ Fault(w) \/ Report(w)
      PROVE  LearnInv'
  <2>1. CASE \/ Top(w) \/ PassGate(w) \/ (\E s \in Sessions : Claim(w, s)) \/ Publish(w)
              \/ Report(w)
    BY <2>1, TopStep, PassGateStep, ClaimStep, PublishStep, ReportStep
  <2>2. CASE NoWork(w) \/ Fault(w)
    <3>1. GoesIdle(w) /\ worker[w].pc # "report" /\ UNCHANGED <<gate, pubs>>
      BY <2>2 DEF NoWork, Fault
    <3> QED
      BY <3>1, IdleStep
  <2>3. CASE Wake(w) \/ Fails(w) \/ Superseded(w)
    <3>1. Step(w, ToTop(worker[w])) /\ UNCHANGED <<gate, newest, pubs>>
          /\ worker[w].pc # "report"
      BY <2>3 DEF Wake, Fails, Superseded, Holds
    <3> QED
      BY <3>1, BackToTop
  <2> QED
    BY <1>1, <2>1, <2>2, <2>3
<1>2. CASE (\E s \in Sessions : Enqueue(s) \/ BackoffEnds(s) \/ DeleteSession(s)) \/ Wipe
  <2>1. UNCHANGED <<gate, worker, newest, pubs>>
    BY <1>2 DEF Enqueue, BackoffEnds, DeleteSession, Wipe
  <2> QED
    BY <2>1, SameLearn
<1>3. CASE UNCHANGED vars
  BY <1>3, SameLearn DEF vars
<1> QED
  BY <1>1, <1>2, <1>3, AdvanceStep, ResetStep DEF Next

-----------------------------------------------------------------------------
(* Lines: what Without leaves.  Its recursion is unfolded by induction, stated   *)
(* as the least element of a set of naturals.                                    *)

(* A nonempty set of naturals has a least element.                               *)
LEMMA LeastNatural ==
  ASSUME NEW S \in SUBSET Nat, S # {}
  PROVE  \E x \in S : \A y \in S : x <= y
<1> DEFINE R == {ss \in Nat \X Nat : ss[1] < ss[2]}
<1>1. IsWellFoundedOn(R, Nat)
  BY NatLessThanWellFounded, Zenon DEF OpToRel
<1>2. \E x \in S : \A y \in S : ~(<<y, x>> \in R)
  <2> HIDE DEF R
  <2> QED BY <1>1, WFMin, Zenon
<1>3. PICK x \in S : \A y \in S : ~(<<y, x>> \in R)
  BY <1>2
<1>4. ASSUME NEW y \in S PROVE x <= y
  <2>1. x \in Nat /\ y \in Nat
    OBVIOUS
  <2>2. ~(y < x)
    BY <1>3, <2>1
  <2> QED BY <2>1, <2>2
<1>5. QED
  BY <1>4

(* A set that holds 0 and is closed under the successor up to m holds 0..m.      *)
LEMMA UpTo ==
  ASSUME NEW m \in Nat, NEW S, 0 \in S, \A n \in 1..m : n - 1 \in S => n \in S
  PROVE  0..m \subseteq S
<1> SUFFICES ASSUME (0..m) \ S # {} PROVE FALSE
  OBVIOUS
<1>1. PICK x \in (0..m) \ S : \A y \in (0..m) \ S : x <= y
  <2>1. (0..m) \ S \in SUBSET Nat
    OBVIOUS
  <2> QED BY <2>1, LeastNatural
<1>2. x # 0 /\ x - 1 \in 0..m /\ x \in 1..m
  BY <1>1
<1> QED BY <1>1, <1>2

(* The function that Without defines, on the first m elements.                   *)
Kept(s, drop, m, f) ==
    f = [n \in 0..m |-> IF n = 0 THEN <<>>
                        ELSE IF s[n] \in drop THEN f[n - 1] ELSE Append(f[n - 1], s[n])]

(* The recursion of Without has a solution on every prefix,                      *)
LEMMA KeptExists ==
  ASSUME NEW s, NEW drop, NEW m \in Nat
  PROVE  \E f : Kept(s, drop, m, f)
<1> DEFINE S == {n \in 0..m : \E f : Kept(s, drop, n, f)}
<1>1. 0 \in S
  <2>1. Kept(s, drop, 0, [n \in 0..0 |-> <<>>])
    BY DEF Kept
  <2> QED BY <2>1
<1>2. ASSUME NEW n \in 1..m, n - 1 \in S PROVE n \in S
  <2>1. PICK f : Kept(s, drop, n - 1, f)
    BY <1>2
  <2> DEFINE g == [i \in 0..n |-> IF i = n THEN (IF s[n] \in drop THEN f[n - 1] ELSE Append(f[n - 1], s[n])) ELSE f[i]]
  <2>2. ASSUME NEW i \in 0..n
        PROVE  g[i] = IF i = 0 THEN <<>>
                        ELSE IF s[i] \in drop THEN g[i - 1] ELSE Append(g[i - 1], s[i])
    <3>1. i = n \/ i \in 0..(n - 1)
      OBVIOUS
    <3>2. i # 0 => i - 1 \in 0..(n-1) /\ i - 1 # n
      OBVIOUS
    <3>3. \A j \in 0..(n-1) : g[j] = f[j] /\ j \in 0..n
      OBVIOUS
    <3>4. \A j \in 0..(n-1) : f[j] = IF j = 0 THEN <<>>
                        ELSE IF s[j] \in drop THEN f[j - 1] ELSE Append(f[j - 1], s[j])
      BY <2>1 DEF Kept
    <3> QED BY <3>1, <3>2, <3>3, <3>4
  <2>3. Kept(s, drop, n, g)
    BY <2>2 DEF Kept
  <2> QED BY <2>3
<1> HIDE DEF S
<1>3. 0..m \subseteq S
  BY <1>1, <1>2, UpTo
<1> QED BY <1>3 DEF S

(* and so Without is its value at the end.                                       *)
LEMMA WithoutIs ==
  ASSUME NEW S, NEW s \in Seq(S), NEW drop
  PROVE  \E f : Kept(s, drop, Len(s), f) /\ Without(s, drop) = f[Len(s)]
<1>1. Len(s) \in Nat
  OBVIOUS
<1> DEFINE c == CHOOSE f : Kept(s, drop, Len(s), f)
<1>2. Kept(s, drop, Len(s), c)
  BY <1>1, KeptExists
<1>3. Without(s, drop) = c[Len(s)]
  BY Zenon DEF Without, Kept
<1> QED BY <1>2, <1>3

(* No element stands twice.                                                      *)
OneToOne(s) == \A i, j \in 1..Len(s) : s[i] = s[j] => i = j

(* t is what is left of the first n elements of s: its elements come from s in   *)
(* order, and one stands nearer to the head when something in front of it was    *)
(* dropped.                                                                      *)
Sifted(s, drop, n, t) ==
    /\ Len(t) <= n
    /\ \A h \in 1..n : s[h] \in drop => Len(t) < n
    /\ \A j \in 1..Len(t) : \E i \in j..n : s[i] \notin drop /\ t[j] = s[i]
    /\ \A i \in 1..n : s[i] \notin drop =>
          \E j \in 1..i : /\ j \in 1..Len(t) /\ t[j] = s[i]
                          /\ \A h \in 1..(i - 1) : s[h] \in drop => j < i
    /\ OneToOne(s) => OneToOne(t)

(* One more element is dropped or appended.                                      *)
LEMMA SiftedStep ==
  ASSUME NEW S, NEW s \in Seq(S), NEW drop, NEW n \in 1..Len(s), NEW t \in Seq(S),
         Sifted(s, drop, n - 1, t),
         NEW u, u = IF s[n] \in drop THEN t ELSE Append(t, s[n])
  PROVE  u \in Seq(S) /\ Sifted(s, drop, n, u)
<1>0. /\ Len(s) \in Nat /\ Len(t) \in Nat /\ n \in Nat /\ n >= 1 /\ s[n] \in S /\ Len(t) <= n - 1
      /\ \A i \in 1..n : i \in 1..(n - 1) \/ i = n
      /\ 1..(n-1) \subseteq 1..n /\ \A i \in 1..n : i \in 1..Len(s) /\ 1..i \subseteq 1..n
  BY DEF Sifted
<1>1. CASE s[n] \in drop
  <2>1. u = t
    BY <1>1
  <2>2. \A j \in 1..Len(t) : \E i \in j..n : s[i] \notin drop /\ t[j] = s[i]
    BY <1>0 DEF Sifted
  <2>3. \A i \in 1..n : s[i] \notin drop =>
          \E j \in 1..i : /\ j \in 1..Len(t) /\ t[j] = s[i]
                          /\ \A h \in 1..(i - 1) : s[h] \in drop => j < i
    BY <1>0, <1>1 DEF Sifted
  <2>4. \A h \in 1..n : s[h] \in drop => Len(t) < n
    BY <1>0
  <2> QED BY <1>0, <2>1, <2>2, <2>3, <2>4 DEF Sifted
<1>2. CASE s[n] \notin drop
  <2>1. /\ u \in Seq(S) /\ Len(u) = Len(t) + 1 /\ u[Len(t) + 1] = s[n]
        /\ \A j \in 1..Len(t) : u[j] = t[j]
    BY <1>0, <1>2
  <2>2. ASSUME NEW j \in 1..Len(u) PROVE \E i \in j..n : s[i] \notin drop /\ u[j] = s[i]
    <3>1. CASE j = Len(t) + 1
      BY <1>0, <1>2, <2>1, <3>1
    <3>2. CASE j \in 1..Len(t)
      <4>1. PICK i \in j..(n - 1) : s[i] \notin drop /\ t[j] = s[i]
        BY <3>2 DEF Sifted
      <4> QED BY <4>1, <3>2, <2>1, <1>0
    <3> QED BY <3>1, <3>2, <2>1, <1>0
  <2>3. ASSUME NEW i \in 1..n, s[i] \notin drop
        PROVE  \E j \in 1..i : /\ j \in 1..Len(u) /\ u[j] = s[i]
                               /\ \A h \in 1..(i - 1) : s[h] \in drop => j < i
    <3>1. CASE i \in 1..(n - 1)
      <4>1. PICK j \in 1..i : /\ j \in 1..Len(t) /\ t[j] = s[i]
                          /\ \A h \in 1..(i - 1) : s[h] \in drop => j < i
        BY <3>1, <2>3 DEF Sifted
      <4> QED BY <4>1, <2>1, <1>0
    <3>2. CASE i = n
      <4>1. Len(t) + 1 \in 1..i /\ Len(t) + 1 \in 1..Len(u)
        BY <3>2, <2>1, <1>0
      <4>2. ASSUME NEW h \in 1..(n - 1), s[h] \in drop PROVE Len(t) + 1 < n
        BY <1>0, <4>2 DEF Sifted
      <4> QED BY <4>1, <4>2, <2>1, <1>0, <3>2
    <3> QED BY <3>1, <3>2, <1>0
  <2>4. ASSUME OneToOne(s) PROVE OneToOne(u)
    <3>1. OneToOne(t)
      BY <2>4 DEF Sifted
    <3>2. \A j \in 1..Len(t) : t[j] # s[n]
      <4> SUFFICES ASSUME NEW j \in 1..Len(t), t[j] = s[n] PROVE FALSE
        OBVIOUS
      <4>1. PICK i \in j..(n - 1) : t[j] = s[i]
        BY DEF Sifted
      <4>2. i \in 1..Len(s) /\ n \in 1..Len(s) /\ i # n
        BY <1>0, <4>1
      <4> QED BY <4>1, <4>2, <2>4 DEF OneToOne
    <3>3. \A i \in 1..Len(u) : i \in 1..Len(t) \/ i = Len(t) + 1
      BY <2>1, <1>0
    <3> QED BY <3>1, <3>2, <3>3, <2>1 DEF OneToOne
  <2>5. \A h \in 1..n : s[h] \in drop => Len(u) < n
    BY <1>0, <1>2, <2>1 DEF Sifted
  <2>6. Len(u) <= n
    BY <1>0, <2>1
  <2> QED BY <2>1, <2>2, <2>3, <2>4, <2>5, <2>6 DEF Sifted
<1> QED BY <1>1, <1>2

(* Without keeps the elements outside drop, in order, and none moves back.       *)
LEMMA WithoutSifts ==
  ASSUME NEW S, NEW s \in Seq(S), NEW drop
  PROVE  Without(s, drop) \in Seq(S) /\ Sifted(s, drop, Len(s), Without(s, drop))
<1>1. PICK f : Kept(s, drop, Len(s), f) /\ Without(s, drop) = f[Len(s)]
  BY WithoutIs
<1>2. Len(s) \in Nat
  OBVIOUS
<1> DEFINE G == {n \in 0..Len(s) : f[n] \in Seq(S) /\ Sifted(s, drop, n, f[n])}
<1>3. \A n \in 0..Len(s) :
        f[n] = IF n = 0 THEN <<>>
               ELSE IF s[n] \in drop THEN f[n - 1] ELSE Append(f[n - 1], s[n])
  BY <1>1 DEF Kept
<1>4. 0 \in G
  <2>1. f[0] = <<>> /\ 0 \in 0..Len(s)
    BY <1>2, <1>3
  <2>2. f[0] \in Seq(S) /\ Len(f[0]) = 0
    BY <2>1
  <2>3. Sifted(s, drop, 0, f[0])
    BY <2>2 DEF Sifted, OneToOne
  <2> QED BY <2>1, <2>2, <2>3
<1>5. ASSUME NEW n \in 1..Len(s), n - 1 \in G PROVE n \in G
  <2>1. n \in 0..Len(s) /\ n # 0
    BY <1>2
  <2>2. f[n] = IF s[n] \in drop THEN f[n - 1] ELSE Append(f[n - 1], s[n])
    BY <1>3, <2>1
  <2>3. f[n - 1] \in Seq(S) /\ Sifted(s, drop, n - 1, f[n - 1])
    BY <1>5
  <2>4. f[n] \in Seq(S) /\ Sifted(s, drop, n, f[n])
    BY <2>2, <2>3, SiftedStep
  <2> QED BY <2>1, <2>4
<1> HIDE DEF G
<1>6. Len(s) \in G
  <2>1. 0..Len(s) \subseteq G
    BY <1>2, <1>4, <1>5, UpTo
  <2> QED BY <2>1, <1>2
<1> QED BY <1>1, <1>6 DEF G

-----------------------------------------------------------------------------
(* The line of tickets.  An entry that has been passed waits in it, and each     *)
(* place it still has to move up leaves room for FairEvery claims, less the      *)
(* ordinary turns left before the next fair one.                                 *)

(* Sessions are finitely many: each is in FirstSeen.                             *)
LEMMA SessionsFinite == IsFiniteSet(Sessions) /\ Cardinality(Sessions) \in Nat
<1>1. FirstSeen \in Seq(Sessions) /\ Len(FirstSeen) \in Nat
  BY TurnsAssumption
<1>2. FirstSeen \in Surjection(1..Len(FirstSeen), Sessions)
  BY <1>1, TurnsAssumption DEF Surjection, Contains
<1>3. IsFiniteSet(1..Len(FirstSeen))
  BY <1>1, FS_Interval
<1>4. IsFiniteSet(Sessions)
  BY <1>2, <1>3, FS_Surjection
<1> QED BY <1>4, FS_CardinalityType

(* A line in which no session stands twice is no longer than there are sessions. *)
LEMMA LineLength ==
    ASSUME NEW s \in Seq(Sessions), OneToOne(s)
    PROVE  Len(s) <= Cardinality(Sessions)
<1>1. s \in Injection(1..Len(s), Sessions)
  BY DEF OneToOne, Injection, IsInjective
<1>2. Cardinality(1..Len(s)) <= Cardinality(Sessions)
  BY <1>1, SessionsFinite, FS_Injection
<1>3. Cardinality(1..Len(s)) = Len(s)
  <2>1. \A n \in Nat : Cardinality(1..n) = n
    <3> SUFFICES ASSUME NEW n \in Nat PROVE Cardinality(1..n) = n
      OBVIOUS
    <3>1. Cardinality(1..n) = IF 1 > n THEN 0 ELSE n - 1 + 1
      BY FS_Interval
    <3> QED BY <3>1
  <2>2. Len(s) \in Nat
    OBVIOUS
  <2> QED BY <2>1, <2>2
<1> QED BY <1>2, <1>3

Status == {"none", "pending", "backoff", "processing", "done"}

LineTypes ==
    /\ entry \in [Sessions -> Status]
    /\ line \in Seq(Sessions) /\ OneToOne(line)
    /\ turns \in 0..(FairEvery - 1)
    /\ passed \in [Sessions -> Nat]

(* The claims that can still pass the p-th of the line, and those that have.     *)
Bound(p) == FairEvery * (Cardinality(Sessions) - p)

PassedInv ==
    \A s \in Sessions : passed[s] > 0 =>
        /\ entry[s] = "pending"
        /\ \E p \in 1..Len(line) : line[p] = s /\ passed[s] <= Bound(p) + turns

LineInv == LineTypes /\ PassedInv

(* A place nearer to the head allows FairEvery claims more.                      *)
LEMMA BoundFalls ==
    /\ FairEvery \in Nat \ {0}
    /\ \A p \in Nat : /\ Bound(p) \in Int
                      /\ \A q \in 0..p : Bound(p) <= Bound(q) /\ (q # p => Bound(p) + FairEvery <= Bound(q))
<1>1. FairEvery \in Nat \ {0} /\ Cardinality(Sessions) \in Nat
  BY TurnsAssumption, SessionsFinite
<1>2. ASSUME NEW p \in Nat PROVE Bound(p) \in Int
  BY <1>1 DEF Bound
<1>3. ASSUME NEW p \in Nat, NEW q \in 0..p
      PROVE Bound(p) <= Bound(q) /\ (q # p => Bound(p) + FairEvery <= Bound(q))
  <2>1. \A n, d \in Nat, i \in Int : d # 0 => n * (i + d) >= n * i + n
    OBVIOUS
  <2>2. PICK d \in Nat : p = q + d
    OBVIOUS
  <2>3. FairEvery * ((Cardinality(Sessions) - p) + d) >= FairEvery * (Cardinality(Sessions) - p) + FairEvery \/ d = 0
    BY <1>1, <2>1
  <2>4. (Cardinality(Sessions) - p) + d = Cardinality(Sessions) - q
    BY <1>1, <2>2
  <2>5. d = 0 => p = q
    BY <2>2
  <2> QED BY <1>1, <2>3, <2>4, <2>5, <1>2 DEF Bound
<1> QED BY <1>1, <1>2, <1>3

(* The tickets of a claim: the line and the untried entries behind it.           *)
LEMMA TicketedIs ==
    ASSUME LineTypes
    PROVE  /\ Ticketed \in Seq(Sessions) /\ OneToOne(Ticketed)
           /\ Len(line) <= Len(Ticketed) /\ Len(line) \in Nat /\ Len(Ticketed) \in Nat
           /\ \A p \in 1..Len(line) : Ticketed[p] = line[p]
           /\ \A s \in Sessions : entry[s] \in {"pending", "backoff", "processing"} =>
                 \E p \in 1..Len(Ticketed) : Ticketed[p] = s
<1> DEFINE drop == {s \in Sessions : entry[s] \in {"none", "done"} \/ Contains(line, s)}
           rest == Without(FirstSeen, drop)
<1>1. /\ FirstSeen \in Seq(Sessions) /\ Len(FirstSeen) \in Nat /\ OneToOne(FirstSeen)
      /\ \A s \in Sessions : \E i \in 1..Len(FirstSeen) : FirstSeen[i] = s
  BY TurnsAssumption DEF Contains, OneToOne
<1>2. rest \in Seq(Sessions) /\ Sifted(FirstSeen, drop, Len(FirstSeen), rest)
  <2> HIDE DEF drop
  <2> QED BY <1>1, WithoutSifts
<1>3. Ticketed = line \o rest
  BY DEF Ticketed
<1>4. OneToOne(rest) /\ \A j \in 1..Len(rest) : rest[j] \notin drop
  <2> HIDE DEF drop, rest
  <2> QED BY <1>1, <1>2 DEF Sifted
<1>5. \A s \in Sessions \ drop : \E j \in 1..Len(rest) : rest[j] = s
  <2> HIDE DEF drop, rest
  <2> QED BY <1>1, <1>2 DEF Sifted
<1>6. \A j \in 1..Len(rest), i \in 1..Len(line) : rest[j] # line[i]
  <2> SUFFICES ASSUME NEW j \in 1..Len(rest), NEW i \in 1..Len(line), rest[j] = line[i] PROVE FALSE
    OBVIOUS
  <2>1. rest[j] \in Sessions /\ Contains(line, rest[j])
    <3> HIDE DEF rest
    <3> QED BY <1>2 DEF Contains
  <2> QED BY <1>4, <2>1
<1>7. \A s \in Sessions \cap drop : entry[s] \in {"none", "done"} \/ \E p \in 1..Len(line) : line[p] = s
  BY DEF Contains
<1> HIDE DEF drop, rest
<1>8. /\ line \in Seq(Sessions) /\ OneToOne(line) /\ Len(line) \in Nat /\ Len(rest) \in Nat
      /\ Ticketed \in Seq(Sessions) /\ Len(Ticketed) = Len(line) + Len(rest)
      /\ \A i \in 1..Len(line) : Ticketed[i] = line[i]
      /\ \A i \in (Len(line) + 1)..(Len(line) + Len(rest)) : Ticketed[i] = rest[i - Len(line)]
  BY <1>2, <1>3 DEF LineTypes
<1> HIDE <1>3
<1>9. OneToOne(Ticketed)
  <2> SUFFICES ASSUME NEW i \in 1..Len(Ticketed), NEW j \in 1..Len(Ticketed), Ticketed[i] = Ticketed[j]
               PROVE  i = j
    BY DEF OneToOne
  <2> DEFINE Behind(p) == p \in (Len(line) + 1)..(Len(line) + Len(rest))
  <2>1. ASSUME NEW p \in 1..Len(Ticketed), ~ (p \in 1..Len(line))
        PROVE  Behind(p) /\ p - Len(line) \in 1..Len(rest) /\ Ticketed[p] = rest[p - Len(line)]
    BY <1>8, <2>1
  <2>2. CASE i \in 1..Len(line) /\ j \in 1..Len(line)
    BY <1>8, <2>2 DEF OneToOne
  <2>3. CASE i \in 1..Len(line) /\ ~ (j \in 1..Len(line))
    <3>1. Ticketed[i] = line[i] /\ Ticketed[j] = rest[j - Len(line)] /\ j - Len(line) \in 1..Len(rest)
      BY <1>8, <2>1, <2>3
    <3> QED BY <1>6, <2>3, <3>1
  <2>4. CASE ~ (i \in 1..Len(line)) /\ j \in 1..Len(line)
    <3>1. Ticketed[j] = line[j] /\ Ticketed[i] = rest[i - Len(line)] /\ i - Len(line) \in 1..Len(rest)
      BY <1>8, <2>1, <2>4
    <3> QED BY <1>6, <2>4, <3>1
  <2>5. CASE ~ (i \in 1..Len(line)) /\ ~ (j \in 1..Len(line))
    <3>1. /\ i - Len(line) \in 1..Len(rest) /\ j - Len(line) \in 1..Len(rest)
          /\ rest[i - Len(line)] = rest[j - Len(line)]
      BY <2>1, <2>5
    <3>2. i - Len(line) = j - Len(line)
      BY <1>4, <3>1 DEF OneToOne
    <3> QED BY <1>8, <3>2
  <2> QED BY <2>2, <2>3, <2>4, <2>5
<1>10. ASSUME NEW s \in Sessions, entry[s] \in {"pending", "backoff", "processing"}
       PROVE  \E p \in 1..Len(Ticketed) : Ticketed[p] = s
  <2>1. CASE s \in drop
    BY <1>7, <1>8, <1>10, <2>1
  <2>2. CASE s \notin drop
    <3>1. PICK j \in 1..Len(rest) : rest[j] = s
      BY <1>5, <2>2
    <3> DEFINE p == Len(line) + j
    <3>2. p \in (Len(line) + 1)..(Len(line) + Len(rest)) /\ p - Len(line) = j /\ p \in 1..Len(Ticketed)
      BY <1>8
    <3>3. Ticketed[p] = rest[p - Len(line)]
      BY <1>8, <3>2
    <3> QED BY <3>1, <3>2, <3>3
  <2> QED BY <2>1, <2>2
<1> QED BY <1>8, <1>9, <1>10

(* A fair turn serves the lowest ticket.                                         *)
LEMMA FairIsLowest ==
    ASSUME LineTypes, NEW s \in Sessions, NEW over \in SUBSET Leased, Served(s, over), turns = FairEvery - 1,
           NEW t \in Waiting, t # s, NEW p \in 1..Len(Ticketed), Ticketed[p] = t
    PROVE  \E q \in 1..(p - 1) : q \in 1..Len(Ticketed) /\ Ticketed[q] = s
<1>1. /\ Ticketed \in Seq(Sessions) /\ OneToOne(Ticketed) /\ Len(Ticketed) \in Nat
      /\ DOMAIN Ticketed = 1..Len(Ticketed)
  BY TicketedIs
<1>2. PICK q \in 1..Len(Ticketed) : Ticketed[q] = s
  <2>1. entry[s] \in {"pending", "backoff", "processing"}
    BY DEF Served, Waiting, Leased
  <2> QED BY <2>1, TicketedIs
<1>3. (CHOOSE i \in DOMAIN Ticketed : Ticketed[i] = s) = q
  BY <1>1, <1>2 DEF OneToOne
<1>4. (CHOOSE i \in DOMAIN Ticketed : Ticketed[i] = t) = p
  BY <1>1 DEF OneToOne
<1>5. t \in (Waiting \cup over) \ {s}
  OBVIOUS
<1>6. q < p
  BY <1>3, <1>4, <1>5 DEF Served
<1> QED BY <1>2, <1>6

(* The invariant of the line holds at the start.                                 *)
LEMMA LineInit == Init => LineInv
<1> SUFFICES ASSUME Init PROVE LineInv
  OBVIOUS
<1>1. FairEvery \in Nat \ {0}
  BY TurnsAssumption
<1> QED BY <1>1 DEF Init, LineInv, LineTypes, PassedInv, OneToOne, Status

(* A step that keeps the line, or only appends to it, keeps the bounds.          *)
LEMMA LineGrows ==
    ASSUME LineInv, line' \in Seq(Sessions), OneToOne(line'), Len(line) <= Len(line'),
           \A p \in 1..Len(line) : line'[p] = line[p],
           entry' \in [Sessions -> Status], turns' = turns, passed' = passed,
           \A s \in Sessions : entry[s] = "pending" => entry'[s] = "pending"
    PROVE  LineInv'
<1>1. LineTypes'
  BY DEF LineInv, LineTypes, OneToOne
<1>2. Len(line) \in Nat /\ Len(line') \in Nat
  BY DEF LineInv, LineTypes
<1>3. PassedInv'
  BY <1>2 DEF LineInv, PassedInv, Bound
<1> QED BY <1>1, <1>3 DEF LineInv

(* Forgetting entries lets the others move up.                                   *)
LEMMA ForgetKeeps ==
    ASSUME LineInv, NEW gone \in SUBSET Sessions, Forget(gone), turns' = turns
    PROVE  LineInv'
<1>1. line \in Seq(Sessions) /\ OneToOne(line) /\ Len(line) \in Nat /\ turns \in Nat
  BY TurnsAssumption DEF LineInv, LineTypes
<1>2. line' \in Seq(Sessions) /\ Sifted(line, gone, Len(line), line') /\ OneToOne(line')
  <2>1. line' \in Seq(Sessions) /\ Sifted(line, gone, Len(line), line')
    BY <1>1, WithoutSifts DEF Forget
  <2> QED BY <1>1, <2>1 DEF Sifted
<1>3. LineTypes'
  BY <1>2 DEF LineInv, LineTypes, Forget, Status
<1>4. ASSUME NEW s \in Sessions, passed'[s] > 0
      PROVE  /\ entry'[s] = "pending"
             /\ \E p \in 1..Len(line') : line'[p] = s /\ passed'[s] <= Bound(p) + turns'
  <2>1. s \notin gone /\ passed'[s] = passed[s] /\ entry'[s] = entry[s]
    BY <1>4 DEF Forget
  <2>2. entry[s] = "pending" /\ passed[s] \in Nat
    BY <1>4, <2>1 DEF LineInv, PassedInv, LineTypes
  <2>3. PICK p \in 1..Len(line) : line[p] = s /\ passed[s] <= Bound(p) + turns
    BY <1>4, <2>1 DEF LineInv, PassedInv
  <2>4. PICK q \in 1..p : q \in 1..Len(line') /\ line'[q] = s
    BY <1>2, <2>1, <2>3 DEF Sifted
  <2>5. Bound(p) <= Bound(q) /\ Bound(p) \in Int /\ Bound(q) \in Int
    BY <2>3, <2>4, BoundFalls
  <2>6. passed[s] <= Bound(q) + turns
    BY <1>1, <2>2, <2>3, <2>5
  <2> QED BY <2>1, <2>2, <2>4, <2>6
<1> QED BY <1>3, <1>4 DEF LineInv, PassedInv

(* A claim: an ordinary turn spends one of the claims before the next fair turn, *)
(* and a fair turn moves every entry that waits up by one place.                 *)
LEMMA ClaimKeepsLine ==
    ASSUME LineInv, NEW w \in Workers, NEW s \in Sessions, Claim(w, s)
    PROVE  LineInv'
<1> DEFINE tk == Ticketed
           left == Without(tk, {s})
<1>1. /\ tk \in Seq(Sessions) /\ OneToOne(tk) /\ Len(tk) \in Nat
      /\ \A p \in 1..Len(line) : p \in 1..Len(tk) /\ tk[p] = line[p]
      /\ \A t \in Sessions : entry[t] \in {"pending", "backoff", "processing"} =>
             \E p \in 1..Len(tk) : tk[p] = t
  BY TicketedIs DEF LineInv
<1>2. left \in Seq(Sessions) /\ Sifted(tk, {s}, Len(tk), left)
  <2> HIDE DEF tk
  <2> QED BY <1>1, WithoutSifts
<1>3. line' = Append(left, s)
  BY DEF Claim
<1>4. PICK over \in SUBSET Leased : Served(s, over)
  BY DEF Claim
<1>5. turns \in 0..(FairEvery - 1) /\ FairEvery \in Nat \ {0} /\ turns' = (turns + 1) % FairEvery
  BY TurnsAssumption DEF Claim, LineInv, LineTypes
<1>6. /\ turns < FairEvery - 1 => turns' = turns + 1
      /\ turns = FairEvery - 1 => turns' = 0
  BY <1>5
<1>7. \A t \in Waiting, p \in 1..Len(tk) : turns = FairEvery - 1 /\ t # s /\ tk[p] = t =>
        \E q \in 1..(p - 1) : tk[q] = s
  BY <1>4, FairIsLowest DEF LineInv
<1> HIDE DEF tk, left
<1>8. /\ line' \in Seq(Sessions) /\ Len(left) \in Nat /\ Len(line') = Len(left) + 1
      /\ line'[Len(left) + 1] = s /\ \A p \in 1..Len(left) : line'[p] = left[p] /\ p \in 1..Len(line')
  BY <1>2, <1>3
<1>9. OneToOne(line')
  <2>1. OneToOne(left) /\ \A j \in 1..Len(left) : left[j] # s
    BY <1>1, <1>2 DEF Sifted
  <2>2. \A i \in 1..Len(line') : i \in 1..Len(left) \/ i = Len(left) + 1
    BY <1>8
  <2> QED BY <1>8, <2>1, <2>2 DEF OneToOne
<1>10. entry' \in [Sessions -> Status] /\ passed' \in [Sessions -> Nat] /\ turns' \in 0..(FairEvery - 1)
  <2>1. passed' \in [Sessions -> Nat]
    BY DEF Claim, LineInv, LineTypes
  <2>2. entry' \in [Sessions -> Status]
    BY DEF Claim, LineInv, LineTypes, Status
  <2> QED BY <1>5, <1>6, <2>1, <2>2
<1>11. ASSUME NEW t \in Sessions, passed'[t] > 0
       PROVE  /\ entry'[t] = "pending"
              /\ \E p \in 1..Len(line') : line'[p] = t /\ passed'[t] <= Bound(p) + turns'
  <2>1. t # s /\ entry[t] = "pending" /\ passed'[t] = passed[t] + 1 /\ passed[t] \in Nat
    <3>1. passed'[t] = IF t # s /\ entry[t] = "pending" THEN passed[t] + 1 ELSE 0
      BY DEF Claim
    <3> QED BY <3>1, <1>11 DEF LineInv, LineTypes
  <2>2. entry'[t] = "pending"
    BY <2>1 DEF Claim, LineInv, LineTypes
  <2>3. PICK p \in 1..Len(tk) : tk[p] = t /\ passed[t] <= Bound(p) + turns
    <3>1. CASE passed[t] > 0
      BY <1>1, <3>1 DEF LineInv, PassedInv
    <3>2. CASE passed[t] = 0
      <4>1. PICK p \in 1..Len(tk) : tk[p] = t
        BY <1>1, <2>1
      <4>2. p \in Nat /\ p <= Cardinality(Sessions)
        BY <1>1, LineLength, SessionsFinite
      <4>3. Bound(p) >= 0
        <5>1. \A f, n \in Nat : f * n >= 0
          OBVIOUS
        <5>2. Cardinality(Sessions) - p \in Nat
          BY <4>2, SessionsFinite
        <5> QED BY <5>1, <5>2, <1>5 DEF Bound
      <4> QED BY <1>5, <3>2, <4>1, <4>3, <4>2, BoundFalls
    <3> QED BY <2>1, <3>1, <3>2
  <2>4. p \in Nat /\ Bound(p) \in Int
    BY BoundFalls
  <2>5. CASE turns < FairEvery - 1
    <3>1. PICK q \in 1..p : q \in 1..Len(left) /\ left[q] = t
      BY <1>1, <1>2, <2>1, <2>3 DEF Sifted
    <3>2. Bound(p) <= Bound(q) /\ Bound(q) \in Int
      BY <2>4, <3>1, BoundFalls
    <3>3. passed'[t] <= Bound(q) + turns'
      <4>1. turns' = turns + 1 /\ turns \in Int
        BY <1>5, <1>6, <2>5
      <4>2. passed'[t] = passed[t] + 1 /\ passed[t] \in Int /\ passed[t] <= Bound(p) + turns
        BY <2>1, <2>3
      <4> QED BY <2>4, <3>2, <4>1, <4>2
    <3>4. q \in 1..Len(line') /\ line'[q] = t
      BY <1>8, <3>1
    <3> QED BY <2>2, <3>3, <3>4
  <2>6. CASE turns = FairEvery - 1
    <3>1. PICK h \in 1..(p - 1) : tk[h] = s
      BY <1>7, <2>1, <2>3, <2>6 DEF Waiting
    <3>2. PICK q \in 1..p : q \in 1..Len(left) /\ left[q] = t /\ q < p
      BY <1>1, <1>2, <2>1, <2>3, <3>1 DEF Sifted
    <3>3. Bound(p) + FairEvery <= Bound(q) /\ Bound(q) \in Int
      BY <2>4, <3>2, BoundFalls
    <3>4. passed'[t] <= Bound(q) + turns'
      BY <1>5, <1>6, <2>1, <2>3, <2>4, <2>6, <3>3
    <3>5. q \in 1..Len(line') /\ line'[q] = t
      BY <1>8, <3>2
    <3> QED BY <2>2, <3>4, <3>5
  <2> QED BY <1>5, <2>5, <2>6
<1> QED BY <1>8, <1>9, <1>10, <1>11 DEF LineInv, LineTypes, PassedInv

(* Every step keeps the invariant of the line.                                   *)
LEMMA LineNext == LineInv /\ [Next]_vars => LineInv'
<1> SUFFICES ASSUME LineInv, [Next]_vars PROVE LineInv'
  OBVIOUS
<1>1. line \in Seq(Sessions) /\ OneToOne(line) /\ Len(line) \in Nat /\ entry \in [Sessions -> Status]
      /\ LineTypes
  BY DEF LineInv, LineTypes
<1>2. ASSUME NEW w \in Workers, NEW s \in Sessions, Claim(w, s) PROVE LineInv'
  BY <1>2, ClaimKeepsLine
<1>3. ASSUME UNCHANGED <<entry, turns, passed, line>> PROVE LineInv'
  BY <1>1, <1>3, LineGrows DEF OneToOne
<1>4. ASSUME NEW w \in Workers, NoWork(w) PROVE LineInv'
  <2>1. line' = Ticketed /\ UNCHANGED <<entry, turns, passed>>
    BY <1>4 DEF NoWork
  <2> QED BY <1>1, <2>1, TicketedIs, LineGrows
<1>5. ASSUME NEW w \in Workers, Publish(w) \/ Fails(w) PROVE LineInv'
  <2>1. UNCHANGED <<line, turns, passed>> /\ Holds(w)
    BY <1>5 DEF Publish, Fails
  <2>2. entry' \in [Sessions -> Status] /\ entry[worker[w].s] = "processing"
    BY <1>1, <1>5, <2>1 DEF Publish, Fails, Holds, Status
  <2>3. \A s \in Sessions : entry[s] = "pending" => entry'[s] = "pending"
    BY <1>1, <1>5, <2>2 DEF Publish, Fails
  <2> QED BY <1>1, <2>1, <2>2, <2>3, LineGrows DEF OneToOne
<1>6. ASSUME NEW s \in Sessions, Enqueue(s) \/ BackoffEnds(s) PROVE LineInv'
  <2>1. UNCHANGED <<line, turns, passed>> /\ entry' = [entry EXCEPT ![s] = "pending"]
    BY <1>6 DEF Enqueue, BackoffEnds
  <2>2. entry' \in [Sessions -> Status] /\ \A t \in Sessions : entry[t] = "pending" => entry'[t] = "pending"
    BY <1>1, <2>1 DEF Status
  <2> QED BY <1>1, <2>1, <2>2, LineGrows DEF OneToOne
<1>7. ASSUME NEW s \in Sessions, DeleteSession(s) PROVE LineInv'
  BY <1>7, ForgetKeeps DEF DeleteSession
<1>8. CASE Wipe
  BY <1>8, ForgetKeeps DEF Wipe
<1>9. ASSUME NEW w \in Workers,
             Top(w) \/ PassGate(w) \/ Wake(w) \/ Superseded(w) \/ Fault(w) \/ Report(w)
      PROVE  LineInv'
  BY <1>3, <1>9 DEF Top, PassGate, Wake, Superseded, Fault, Report
<1>10. CASE Advance \/ Reset \/ UNCHANGED vars
  BY <1>3, <1>10 DEF Advance, Reset, vars
<1> QED BY <1>2, <1>4, <1>5, <1>6, <1>7, <1>8, <1>9, <1>10 DEF Next

(* The invariant bounds the claims that pass an entry.                           *)
LEMMA LineBounds == LineInv => NoStarvation
<1> SUFFICES ASSUME LineInv, NEW s \in Sessions PROVE passed[s] < FairEvery * Cardinality(Sessions)
  BY DEF NoStarvation
<1>1. /\ passed[s] \in Nat /\ turns \in 0..(FairEvery - 1) /\ FairEvery \in Nat \ {0}
      /\ Cardinality(Sessions) \in Nat /\ Cardinality(Sessions) # 0
  BY TurnsAssumption, SessionsFinite, FS_EmptySet DEF LineInv, LineTypes
<1>2. Bound(0) = FairEvery * Cardinality(Sessions) /\ Bound(0) \in Int
  BY <1>1 DEF Bound
<1>3. CASE passed[s] > 0
  <2>1. PICK p \in 1..Len(line) : passed[s] <= Bound(p) + turns
    BY <1>3 DEF LineInv, PassedInv
  <2>2. p \in Nat /\ 0 \in 0..p /\ p # 0
    OBVIOUS
  <2>3. Bound(p) + FairEvery <= Bound(0) /\ Bound(p) \in Int
    BY <2>2, BoundFalls
  <2> QED BY <1>1, <1>2, <2>1, <2>3
<1>4. CASE passed[s] = 0
  <2>1. \A f, n \in Nat \ {0} : f * n > 0
    OBVIOUS
  <2> QED BY <1>1, <1>4, <2>1
<1> QED BY <1>1, <1>3, <1>4

-----------------------------------------------------------------------------
(* The theorems.                                                                 *)

(* The invariant of the reports: who read which generation, which publications   *)
(* were noted, and that one of the present run is reported or waits for a worker *)
(* that is still busy (worker_loop, note_backlog_published, mark_turns_published). *)
THEOREM LearnInvAlways == Spec => []LearnInv
BY InitLearns, NextLearns, PTL DEF Spec

(* Limit learning is started only by a pass that was claimed in the present first *)
(* run, however many resets the workers run across (mark_turns_published).       *)
THEOREM LearnsOwnRunAlways == Spec => []LearnsOwnRun
<1>1. LearnInv => LearnsOwnRun
  BY DEF LearnInv
<1> QED
  BY <1>1, LearnInvAlways, PTL

(* A publication noted for the present first run has been reported when no worker *)
(* is busy, whatever order the workers end in (BacklogActivity::idle).           *)
THEOREM LearningStartsAlways == Spec => []LearningStarts
<1>1. LearnInv => LearningStarts
  BY GateIs DEF LearnInv, LearnTypes, ReportInv, Reports, NewestInv, LearningStarts
<1> QED
  BY <1>1, LearnInvAlways, PTL

(* A waiting session is passed by fewer than FairEvery claims for every session  *)
(* there is, whatever is queued again, deleted, retried or left by a panic (the  *)
(* fair turns of claim_next_evidence_in_order).                                  *)
THEOREM NoStarvationAlways == Spec => []NoStarvation
<1>1. Spec => []LineInv
  BY LineInit, LineNext, PTL DEF Spec
<1> QED BY <1>1, LineBounds, PTL
=============================================================================
