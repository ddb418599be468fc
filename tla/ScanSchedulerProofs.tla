-------------------------- MODULE ScanSchedulerProofs --------------------------
(********************************************************************************)
(* Proofs about the scheduler of the scans, for any number of sources and       *)
(* agents, any lanes and any floors.  ScanInv is inductive; the four invariants *)
(* of ScanScheduler are parts of it or follow from it in one step.              *)
(********************************************************************************)
EXTENDS ScanScheduler, TLAPS, WellFoundedInduction

\* The clock: ages, the time to the tick and to the due time.
Clock == [sessions : [Sources -> Nat], titles : [Agents -> Nat], agents : [Agents -> Nat],
          tickIn : Nat, due : Nat \cup {None}]

Controller == [burst : WatchBurst \cup {None}, kick : BOOLEAN, trigger : Trigger \cup {None},
               refreshes : SUBSET Agents, cancel : BOOLEAN]

Loop == [at : {"launch", "wait", "refresh", "source", "decide", "full", "retrying", "admitted"},
         tick : BOOLEAN, over : BOOLEAN, jobs : Seq(ScopedWork), blind : BOOLEAN]

\* The types of the variables.
TypeOK ==
    /\ dirty \subseteq Sources /\ adrift \subseteq Sources /\ told \subseteq Sources
    /\ owed \in BOOLEAN
    /\ gathered \in WatchBurst \cup {None}
    /\ controller \in Controller
    /\ pass \in Pass \cup {None}
    /\ sched \in Loop
    /\ work \in [pending : ScopedWork, retry : ScopedWork]
    /\ clock \in Clock
    /\ outstanding \subseteq Agents
    /\ reader \in [paused : BOOLEAN, resuming : BOOLEAN, cancelling : BOOLEAN]
    /\ used \in [changes : Nat, events : Nat]


-----------------------------------------------------------------------------
(* The inductive invariant.                                                     *)

\* A burst that is not yet taken by the loop has the change, or lost it to an overflow.
InBurst(s) ==
    \E b \in {gathered, controller.burst} \ {None} : s \in b.paths \/ b.overflowed

\* Where the loop is when it has lanes in hand, an overflow in hand, or a pass under way.
LoopInv ==
    /\ sched.at \notin {"retrying", "admitted"} => sched.jobs = <<>>
    /\ sched.at \in {"launch", "wait", "retrying", "admitted"} => ~ sched.over
    /\ ~ Idle => /\ sched.at \in {"launch", "source", "full", "retrying", "admitted"}
                 /\ sched.at = "full" => pass.scope = Sources
                 /\ sched.at \in {"retrying", "admitted"} =>
                        sched.jobs # <<>> /\ pass.scope = ScopeOf(Head(sched.jobs))

\* A lane of rediscoveries has nothing else in it, so its scope has whole agents.
LaneInv ==
    \A i \in DOMAIN sched.jobs :
        Rediscovered(sched.jobs[i]) # {} =>
            sched.jobs[i].sessions = {} /\ sched.jobs[i].titles = {}

\* A pass covers only agents all of whose sources are in its scope, and once it has
\* read them none of their reported changes is left.
CoverInv ==
    pass # None =>
        /\ pass.by = "command" => pass.covers = {}
        /\ \A s \in Sources : AgentOf[s] \in pass.covers => s \in pass.scope
        /\ pass.read => \A s \in told : AgentOf[s] \notin pass.covers

\* A wake after which the loop may sleep on work: discovery is paused, about to be
\* resumed, or its setting could not be read.
Excused == sched.at = "wait" /\ (sched.blind \/ reader.paused \/ reader.resuming)

\* What waits in the controller has the permit of the kick, or the loop has yet to
\* pass the point at which it takes it; scoped work that stays has a due time.
WakeInv ==
    /\ controller.burst # None => controller.kick
    /\ controller.refreshes # {} => controller.kick \/ sched.at = "refresh" \/ Excused
    /\ controller.trigger # None =>
          controller.kick \/ sched.at \in {"refresh", "source", "decide"} \/ Excused
    /\ sched.at = "launch" => work.pending = NoWork /\ work.retry = NoWork
    /\ sched.at = "admitted" /\ work.pending # NoWork => clock.due # None
    /\ sched.at = "wait" /\ (work.pending # NoWork \/ work.retry # NoWork) =>
          clock.due # None \/ controller.kick \/ Excused

\* A change that came after a full pass had read is not among the work it supersedes.
FullInv == sched.at = "full" /\ Reading => \A s \in dirty \ adrift : InBurst(s)

\* The inductive invariant.
ScanInv ==
    /\ TypeOK /\ LoopInv /\ LaneInv /\ CoverInv /\ WakeInv /\ FullInv
    /\ HistoryKept /\ CoverHonest /\ NoSilentLoss

\* Scoped work stays scoped work when it is merged or classified.
LEMMA WorkTyped ==
    /\ NoWork \in ScopedWork
    /\ \A a, b \in ScopedWork : MergeWork(a, b) \in ScopedWork
    /\ \A paths \in SUBSET Sources : ClassifyBurst(paths) \in ScopedWork
<1>1. NoWork \in ScopedWork
  BY DEF NoWork, ScopedWork
<1>2. ASSUME NEW a \in ScopedWork, NEW b \in ScopedWork
      PROVE MergeWork(a, b) \in ScopedWork
  BY DEF NoWork, ScopedWork, MergeWork
<1>3. ASSUME NEW paths \in SUBSET Sources
      PROVE ClassifyBurst(paths) \in ScopedWork
  BY ScanAssumption DEF ClassifyBurst, ScopedWork
<1> QED
  BY <1>1, <1>2, <1>3

\* The lanes of scoped work are scoped work.
LEMMA LanesTyped ==
    ASSUME NEW w \in ScopedWork
    PROVE LanesOf(w) \in Seq(ScopedWork)
<1>1. \A job \in ScopedWork : OneLane(job) \in Seq(ScopedWork)
  BY DEF OneLane
<1>2. /\ [NoWork EXCEPT !.sessions = w.sessions] \in ScopedWork
      /\ [NoWork EXCEPT !.titles = w.titles] \in ScopedWork
      /\ [w EXCEPT !.sessions = {}, !.titles = {}] \in ScopedWork
  BY DEF NoWork, ScopedWork
<1> QED
  BY <1>1, <1>2 DEF LanesOf

\* Floors::admit splits scoped work into scoped work.
LEMMA NowTyped ==
    ASSUME NEW w \in ScopedWork
    PROVE RunNow(w) \in ScopedWork /\ Deferred(w) \in ScopedWork
  BY DEF RunNow, Deferred, ScopedWork

\* The longest floor is a number.
LEMMA MaxAgeTyped == MaxAge \in Nat
<1>1. Floors # {} /\ Floors \subseteq Nat
  BY ScanAssumption DEF Floors
<1>2. \E x \in Floors : \A y \in Floors : x >= y
  BY <1>1 DEF Floors
<1> QED
  BY <1>1, <1>2 DEF MaxAge, Max

\* The greater and the lesser of two numbers.
LEMMA PairTyped ==
    ASSUME NEW a \in Int, NEW b \in Int
    PROVE /\ Max({a, b}) \in {a, b} /\ Max({a, b}) >= a /\ Max({a, b}) >= b
          /\ Min({a, b}) \in {a, b}
<1>1. \E x \in {a, b} : \A y \in {a, b} : x >= y
  OBVIOUS
<1>2. \E x \in {a, b} : \A y \in {a, b} : x <= y
  OBVIOUS
<1>3. Max({a, b}) \in {a, b} /\ \A y \in {a, b} : Max({a, b}) >= y
  BY <1>1 DEF Max
<1>4. Min({a, b}) \in {a, b}
  BY <1>2 DEF Min
<1> QED
  BY <1>3, <1>4

\* Ages that grow stay ages.
LEMMA OlderTyped ==
    ASSUME NEW S, NEW ages \in [S -> Nat]
    PROVE Older(ages) \in [S -> Nat]
<1>1. ASSUME NEW x \in S
      PROVE Min({ages[x] + 1, MaxAge}) \in Nat
  <2> DEFINE older == ages[x] + 1
  <2>1. older \in Nat /\ MaxAge \in Nat
    BY MaxAgeTyped
  <2>2. Nat \subseteq Int
    OBVIOUS
  <2> HIDE DEF older
  <2>3. Min({older, MaxAge}) \in {older, MaxAge}
    BY <2>1, <2>2, PairTyped, Zenon
  <2>4. Min({older, MaxAge}) \in Nat
    BY <2>1, <2>3
  <2> QED
    BY <2>4 DEF older
<1> QED
  BY <1>1 DEF Older

\* Every nonempty set of naturals has a least element, which is the one Min takes.
LEMMA LeastTyped ==
    ASSUME NEW S \in SUBSET Nat, S # {}
    PROVE Min(S) \in S
<1> DEFINE R == {ss \in Nat \X Nat : ss[1] < ss[2]}
<1>1. IsWellFoundedOn(R, Nat)
  BY NatLessThanWellFounded, Zenon DEF OpToRel
<1>2. \E x \in S : \A y \in S : ~ (<<y, x>> \in R)
  <2> HIDE DEF R
  <2> QED
    BY <1>1, WFMin, Zenon
<1>3. PICK x \in S : \A y \in S : ~ (<<y, x>> \in R)
  BY <1>2
<1>4. \A y \in S : x <= y
  <2> SUFFICES ASSUME NEW y \in S, y < x PROVE FALSE
    OBVIOUS
  <2> DEFINE p == <<y, x>>
  <2>1. p \in Nat \X Nat /\ p[1] < p[2]
    OBVIOUS
  <2>2. p \in R
    BY <2>1, Zenon
  <2> QED
    BY <1>3, <2>2
<1> QED
  BY <1>4 DEF Min

\* Every item of a lane has an age and a floor.
LEMMA AgeTyped ==
    ASSUME TypeOK, NEW w \in ScopedWork, NEW lane \in DOMAIN w, NEW i \in w[lane]
    PROVE AgeOf(lane, i) \in Nat /\ FloorOf(lane) \in Nat
<1>1. FloorOf(lane) \in Nat
  BY ScanAssumption DEF FloorOf, Floors
<1>2. AgeOf(lane, i) \in Nat
  BY DEF AgeOf, TypeOK, ScopedWork, Clock
<1> QED
  BY <1>1, <1>2

\* Work that is deferred has a due time.
LEMMA EarliestDueTyped ==
    ASSUME TypeOK, NEW w \in ScopedWork
    PROVE /\ EarliestDue(Deferred(w)) \in Nat \cup {None}
          /\ Deferred(w) # NoWork => EarliestDue(Deferred(w)) # None
<1> DEFINE later == Deferred(w)
           dues == UNION {{FloorOf(lane) - AgeOf(lane, i) : i \in later[lane]} :
                              lane \in DOMAIN later}
<1>1. later \in ScopedWork /\ DOMAIN later = DOMAIN w
  BY NowTyped DEF Deferred
<1>2. \A lane \in DOMAIN later : \A i \in later[lane] :
          AgeOf(lane, i) \in Nat /\ FloorOf(lane) \in Nat /\ AgeOf(lane, i) < FloorOf(lane)
  <2> SUFFICES ASSUME NEW lane \in DOMAIN later, NEW i \in later[lane]
               PROVE AgeOf(lane, i) \in Nat /\ FloorOf(lane) \in Nat
                        /\ AgeOf(lane, i) < FloorOf(lane)
    OBVIOUS
  <2>1. AgeOf(lane, i) < FloorOf(lane)
    BY DEF Deferred
  <2>2. AgeOf(lane, i) \in Nat /\ FloorOf(lane) \in Nat
    BY <1>1, AgeTyped
  <2> QED
    BY <2>1, <2>2
<1>3. dues \subseteq Nat
  BY <1>2
<1>4. ASSUME later # NoWork
      PROVE dues # {}
  <2>1. PICK lane \in DOMAIN later : later[lane] # {}
    BY <1>1, <1>4 DEF ScopedWork, NoWork
  <2>2. PICK i \in later[lane] : TRUE
    BY <2>1
  <2>3. FloorOf(lane) - AgeOf(lane, i) \in dues
    BY <2>2
  <2> QED
    BY <2>3
<1>5. dues # {} => Min(dues) \in Nat
  BY <1>3, LeastTyped
<1>6. None \notin Nat
  BY NoneAssumption
<1>7. EarliestDue(later) = IF dues = {} THEN None ELSE Min(dues)
  BY DEF EarliestDue
<1> QED
  BY <1>4, <1>5, <1>6, <1>7

\* Floors::stamp leaves the due time alone.
LEMMA StampTyped ==
    ASSUME NEW c \in Clock, NEW w \in ScopedWork
    PROVE Stamp(c, w) \in Clock /\ Stamp(c, w).due = c.due
  BY DEF Stamp, Clock, ScopedWork

\* A pass that starts has the type of a pass.
LEMMA StartPassTyped ==
    ASSUME TypeOK, NEW by \in {"scheduler", "command"}, NEW scope \in SUBSET Sources,
           NEW history \in BOOLEAN, NEW whole \in BOOLEAN,
           StartPass(by, scope, history, whole)
    PROVE pass' \in Pass /\ owed' \in BOOLEAN
  BY DEF TypeOK, StartPass, Pass

\* What the tasks do to the shared state keeps its type.
LEMMA ControllerTyped ==
    ASSUME NEW c \in Controller
    PROVE /\ \A t \in Trigger : Request(c, t) \in Controller
          /\ \A b \in WatchBurst : PushBurst(c, b) \in Controller
          /\ \A left \in {"nothing", "work", "overflow"} : Release(c, left) \in Controller
          /\ Burst(c.burst) \in WatchBurst
<1>1. \A d \in Controller : \A t \in Trigger : Request(d, t) \in Controller
  BY DEF Controller, Request
<1>2. Burst(c.burst) \in WatchBurst
  BY DEF Controller, WatchBurst, Burst, NoBurst
<1>3. \A b \in WatchBurst : PushBurst(c, b) \in Controller
  BY <1>2 DEF Controller, WatchBurst, PushBurst, MergeBurst
<1>4. ASSUME NEW left \in {"nothing", "work", "overflow"}
      PROVE Release(c, left) \in Controller
  <2> DEFINE asked == IF left = "overflow" \/ (left = "work" /\ c.burst = None)
                      THEN Request(c, "routine") ELSE c
  <2>1. asked \in Controller
    BY <1>1 DEF Trigger
  <2>2. Release(c, left) = [asked EXCEPT !.cancel = FALSE, !.kick = TRUE]
    BY DEF Release
  <2> HIDE DEF asked
  <2> QED
    BY <2>1, <2>2 DEF Controller
<1> QED
  BY <1>1, <1>2, <1>3, <1>4

\* The scope of work is a set of sources.
LEMMA ScopeTyped == \A w : ScopeOf(w) \in SUBSET Sources
  BY DEF ScopeOf

\* The bounds count on.
LEMMA UsedTyped ==
    ASSUME TypeOK
    PROVE /\ used \in [changes : Nat, events : Nat]
          /\ [used EXCEPT !.events = @ + 1] \in [changes : Nat, events : Nat]
          /\ [used EXCEPT !.changes = @ + 1] \in [changes : Nat, events : Nat]
  BY DEF TypeOK

\* A wake keeps the types.
LEMMA WokenTyped ==
    ASSUME TypeOK, NEW c \in Controller, NEW k \in Clock, NEW tick \in BOOLEAN,
           Woken(c, k, tick), sched.at = "wait"
    PROVE TypeOK'
<1> DEFINE burst == Burst(c.burst)
           classified == IF burst.overflowed THEN NoWork ELSE ClassifyBurst(burst.paths)
<1>1. burst \in WatchBurst
  BY ControllerTyped
<1>2. classified \in ScopedWork
  BY <1>1, WorkTyped DEF WatchBurst
<1>3. MergeWork(work.pending, classified) \in ScopedWork
  BY <1>2, WorkTyped DEF TypeOK
<1>4. /\ controller' = [c EXCEPT !.burst = None]
      /\ \/ /\ used' = IF reader.paused THEN used ELSE [used EXCEPT !.events = @ + 1]
            /\ clock' = [k EXCEPT !.due = None]
            /\ sched' = [sched EXCEPT !.blind = ~ reader.paused]
            /\ adrift' = adrift \cup (IF burst.overflowed THEN dirty ELSE burst.paths \cap dirty)
            /\ UNCHANGED <<work, outstanding, told>>
         \/ /\ clock' = k
            /\ work' = [work EXCEPT !.pending = MergeWork(@, classified)]
            /\ outstanding' = outstanding \cup classified.agents \cup classified.db
            /\ told' = told \cup {s \in burst.paths \cap dirty :
                                      AgentOf[s] \in classified.agents \cup classified.db}
            /\ sched' = [sched EXCEPT !.at = "refresh", !.tick = tick,
                                       !.over = burst.overflowed, !.blind = FALSE]
            /\ UNCHANGED <<used, adrift>>
      /\ UNCHANGED <<dirty, gathered, pass, reader, owed>>
  BY DEF Woken
<1> HIDE DEF burst, classified
<1>5. controller' \in Controller
  BY <1>4 DEF Controller
<1>6. clock' \in Clock
  BY <1>4 DEF Clock
<1>7. sched' \in Loop
  BY <1>1, <1>4 DEF TypeOK, Loop, WatchBurst
<1>8. work' \in [pending : ScopedWork, retry : ScopedWork]
  BY <1>3, <1>4 DEF TypeOK
<1>9. used' \in [changes : Nat, events : Nat]
  BY <1>4 DEF TypeOK
<1>10. outstanding' \subseteq Agents
  BY <1>2, <1>4 DEF TypeOK, ScopedWork
<1>11. told' \subseteq Sources /\ adrift' \subseteq Sources
  BY <1>1, <1>4 DEF TypeOK, WatchBurst
<1> QED
  BY <1>4, <1>5, <1>6, <1>7, <1>8, <1>9, <1>10, <1>11 DEF TypeOK

\* The types hold at the start.
LEMMA InitTyped == Init => TypeOK
<1> SUFFICES ASSUME Init PROVE TypeOK
  OBVIOUS
<1>1. clock \in Clock
  BY MaxAgeTyped, ScanAssumption DEF Init, Clock
<1>2. work \in [pending : ScopedWork, retry : ScopedWork]
  BY WorkTyped DEF Init
<1>3. controller \in Controller /\ sched \in Loop
  BY DEF Init, Controller, Loop
<1> QED
  BY <1>1, <1>2, <1>3 DEF Init, TypeOK

\* A full pass that supersedes the scoped work keeps the types.
LEMMA SupersededTyped ==
    ASSUME TypeOK, Superseded
    PROVE /\ work' \in [pending : ScopedWork, retry : ScopedWork]
          /\ clock' \in Clock /\ sched' \in Loop
<1>1. Stamp(Stamp(clock, work.pending), work.retry) \in Clock
  BY StampTyped DEF TypeOK
<1>2. clock' \in Clock
  BY <1>1, ScanAssumption DEF Superseded, Clock
<1> QED
  BY <1>2, WorkTyped DEF Superseded, TypeOK, Loop

\* What the loop goes on with when its pass has ended, by the point it is at.
LEMMA ResumesAt ==
    ASSUME TypeOK, SchedulerResumes
    PROVE \/ /\ sched.at = "launch" /\ sched' = [sched EXCEPT !.at = "wait"]
             /\ UNCHANGED <<work, clock>>
          \/ /\ sched.at = "source" /\ sched' = [sched EXCEPT !.at = "decide"]
             /\ UNCHANGED <<work, clock>>
          \/ sched.at = "full" /\ Superseded
          \/ /\ sched.at \notin {"launch", "source", "full"}
             /\ sched' = [sched EXCEPT !.jobs = Tail(@)]
             /\ UNCHANGED <<work, clock>>
  BY Zenon DEF SchedulerResumes

\* The end of a pass keeps the types.
LEMMA PassEndsTyped ==
    ASSUME TypeOK, LoopInv, PassEnds
    PROVE TypeOK'
<1>1. pass \in Pass /\ pass' = None /\ UNCHANGED <<gathered, reader>>
  BY DEF PassEnds, TypeOK
<1>2. used' \in [changes : Nat, events : Nat] /\ owed' \in BOOLEAN
  BY DEF PassEnds, TypeOK
<1>3. dirty' \subseteq Sources /\ told' \subseteq Sources
  BY DEF PassEnds, TypeOK, Describe
<1>4. adrift' \subseteq Sources
  <2>1. Charge \subseteq Sources
    BY DEF Charge, TypeOK
  <2> QED
    BY <2>1 DEF PassEnds, TypeOK
<1>5. controller' \in Controller
  <2>1. PICK left \in {"nothing", "work", "overflow"}, auto \in BOOLEAN :
            controller' = IF auto THEN Request(Release(controller, left), "history")
                          ELSE Release(controller, left)
    BY DEF PassEnds
  <2>2. Release(controller, left) \in Controller
    BY ControllerTyped DEF TypeOK
  <2>3. Request(Release(controller, left), "history") \in Controller
    BY <2>2, ControllerTyped DEF Trigger
  <2> QED
    BY <2>1, <2>2, <2>3
<1>6. outstanding' \subseteq Agents
  BY DEF PassEnds, TypeOK
<1>7. /\ work' \in [pending : ScopedWork, retry : ScopedWork]
      /\ clock' \in Clock /\ sched' \in Loop
  <2>1. CASE pass.by # "scheduler"
    BY <2>1 DEF PassEnds, TypeOK
  <2>2. CASE pass.by = "scheduler"
    <3>1. SchedulerResumes
      BY <2>2 DEF PassEnds
    <3>2. ~ Idle
      BY <2>2 DEF PassEnds, Idle
    <3>3. CASE sched.at = "full"
      BY <3>1, <3>3, ResumesAt, SupersededTyped
    <3>4. CASE sched.at \in {"launch", "source"}
      BY <3>1, <3>4, ResumesAt DEF TypeOK, Loop
    <3>5. CASE sched.at \notin {"launch", "source", "full"}
      <4>1. sched.jobs \in Seq(ScopedWork) /\ sched.jobs # <<>>
        BY <3>2, <3>5 DEF LoopInv, TypeOK, Loop
      <4>2. Tail(sched.jobs) \in Seq(ScopedWork)
        BY <4>1
      <4> QED
        BY <3>1, <3>5, <4>2, ResumesAt DEF TypeOK, Loop
    <3> QED
      BY <3>3, <3>4, <3>5
  <2> QED
    BY <2>1, <2>2
<1> QED
  BY <1>1, <1>2, <1>3, <1>4, <1>5, <1>6, <1>7 DEF TypeOK

\* The steps of the loop between two wakes keep the types.
LEMMA LoopStepTyped ==
    ASSUME TypeOK, LoopInv,
           Launch \/ RefreshSources \/ Decide \/ RunLane \/ AdmitWork \/ ArmDeferred
    PROVE TypeOK'
<1>0. Sources \in SUBSET Sources /\ TRUE \in BOOLEAN /\ FALSE \in BOOLEAN
  OBVIOUS
<1>1. CASE Launch
  <2>1. pass' \in Pass \cup {None} /\ owed' \in BOOLEAN
    BY <1>0, <1>1, StartPassTyped DEF Launch, StartFullPass, TypeOK
  <2>2. controller' \in Controller
    BY <1>1 DEF Launch, TypeOK, Controller
  <2>3. sched' \in Loop
    BY <1>1 DEF Launch, TypeOK, Loop
  <2>4. used' \in [changes : Nat, events : Nat]
    BY <1>1, UsedTyped DEF Launch
  <2> QED
    BY <1>1, <2>1, <2>2, <2>3, <2>4 DEF Launch, scanVars, TypeOK
<1>2. CASE RefreshSources
  <2>1. pass' \in Pass \cup {None} /\ owed' \in BOOLEAN
    <3>1. {s \in Sources : AgentOf[s] \in controller.refreshes} \in SUBSET Sources
      OBVIOUS
    <3> QED
      BY <1>0, <1>2, <3>1, StartPassTyped DEF RefreshSources, TypeOK
  <2>2. controller' \in Controller
    BY <1>2 DEF RefreshSources, TypeOK, Controller
  <2>3. sched' \in Loop
    BY <1>2 DEF RefreshSources, TypeOK, Loop
  <2>4. adrift' \subseteq Sources
    BY <1>2 DEF RefreshSources, TypeOK
  <2> QED
    BY <1>2, <2>1, <2>2, <2>3, <2>4 DEF RefreshSources, scanVars, TypeOK
<1>3. CASE Decide
  <2> DEFINE history == controller.trigger = "history"
             full == controller.trigger # None \/ sched.over \/ sched.tick
             taken == [controller EXCEPT !.trigger = None]
  <2>0. taken \in Controller
    BY DEF TypeOK, Controller
  <2>1. UNCHANGED <<dirty, gathered, outstanding, reader, used, told>>
    BY <1>3 DEF Decide
  <2>2. CASE /\ full /\ StartFullPass("scheduler", history)
             /\ controller' = [taken EXCEPT !.cancel = FALSE]
             /\ sched' = [sched EXCEPT !.at = "full"]
             /\ UNCHANGED <<work, clock, adrift>>
    <3>1. pass' \in Pass /\ owed' \in BOOLEAN
      BY <1>0, <2>2, StartPassTyped DEF StartFullPass
    <3>2. controller' \in Controller
      BY <2>2 DEF TypeOK, Controller
    <3>3. sched' \in Loop
      BY <2>2 DEF TypeOK, Loop
    <3> QED
      BY <2>1, <2>2, <3>1, <3>2, <3>3 DEF TypeOK
  <2>3. CASE /\ full /\ pass # None
             /\ controller' = IF history THEN Request(taken, "history") ELSE taken
             /\ adrift' = adrift \cup Charge
             /\ Superseded
             /\ UNCHANGED <<pass, owed>>
    <3>1. Charge \subseteq Sources
      BY DEF Charge, TypeOK
    <3>2. controller' \in Controller
      <4> HIDE DEF taken
      <4> QED
        BY <2>0, <2>3, ControllerTyped DEF Trigger
    <3> QED
      BY <2>1, <2>3, <3>1, <3>2, SupersededTyped DEF TypeOK
  <2>4. CASE /\ ~ full
             /\ sched' = [sched EXCEPT !.at = "retrying", !.jobs = LanesOf(work.retry)]
             /\ work' = [work EXCEPT !.retry = NoWork]
             /\ UNCHANGED <<controller, pass, clock, adrift, owed>>
    <3>1. LanesOf(work.retry) \in Seq(ScopedWork)
      BY LanesTyped DEF TypeOK
    <3>2. sched' \in Loop
      BY <2>4, <3>1 DEF TypeOK, Loop
    <3>3. work' \in [pending : ScopedWork, retry : ScopedWork]
      BY <2>4, WorkTyped DEF TypeOK
    <3> QED
      BY <2>1, <2>4, <3>2, <3>3 DEF TypeOK
  <2> QED
    BY <1>3, <2>2, <2>3, <2>4 DEF Decide
<1>4. CASE RunLane
  <2> DEFINE job == Head(sched.jobs)
  <2>1. job \in ScopedWork /\ Tail(sched.jobs) \in Seq(ScopedWork)
    BY <1>4 DEF RunLane, TypeOK, Loop
  <2>2. ScopeOf(job) \in SUBSET Sources /\ (Rediscovered(job) # {}) \in BOOLEAN
    BY ScopeTyped
  <2>3. pass' \in Pass \cup {None} /\ owed' \in BOOLEAN
    BY <1>0, <1>4, <2>2, StartPassTyped DEF RunLane, TypeOK
  <2>4. controller' \in Controller
    BY <1>4 DEF RunLane, TypeOK, Controller
  <2>5. sched' \in Loop
    BY <1>4, <2>1 DEF RunLane, TypeOK, Loop
  <2>6. work' \in [pending : ScopedWork, retry : ScopedWork]
    <3>1. MergeWork(work.retry, job) \in ScopedWork
      BY <2>1, WorkTyped DEF TypeOK
    <3> QED
      BY <1>4, <3>1 DEF RunLane, TypeOK
  <2> QED
    BY <1>4, <2>3, <2>4, <2>5, <2>6 DEF RunLane, TypeOK
<1>5. CASE AdmitWork
  <2> DEFINE now == RunNow(work.pending)
             later == Deferred(work.pending)
  <2>1. now \in ScopedWork /\ later \in ScopedWork
    BY NowTyped DEF TypeOK
  <2>2. LanesOf(now) \in Seq(ScopedWork)
    BY <2>1, LanesTyped
  <2>3. Stamp(clock, now) \in Clock /\ EarliestDue(later) \in Nat \cup {None}
    BY <2>1, StampTyped, EarliestDueTyped DEF TypeOK
  <2>4. /\ sched' = [sched EXCEPT !.at = "admitted", !.jobs = LanesOf(now)]
        /\ work' = [work EXCEPT !.pending = later]
        /\ clock' = [Stamp(clock, now) EXCEPT !.due = EarliestDue(later)]
        /\ UNCHANGED <<dirty, gathered, controller, pass, outstanding, reader, used,
                       adrift, told, owed>>
    BY <1>5 DEF AdmitWork
  <2> HIDE DEF now, later
  <2>5. sched' \in Loop
    BY <2>2, <2>4 DEF TypeOK, Loop
  <2>6. work' \in [pending : ScopedWork, retry : ScopedWork]
    BY <2>1, <2>4 DEF TypeOK
  <2>7. clock' \in Clock
    BY <2>3, <2>4 DEF Clock
  <2> QED
    BY <2>4, <2>5, <2>6, <2>7 DEF TypeOK
<1>6. CASE ArmDeferred
  <2>1. sched' \in Loop
    BY <1>6 DEF ArmDeferred, TypeOK, Loop
  <2>2. clock' \in Clock
    BY <1>6 DEF ArmDeferred, TypeOK, Clock
  <2> QED
    BY <1>6, <2>1, <2>2 DEF ArmDeferred, TypeOK
<1> QED
  BY <1>1, <1>2, <1>3, <1>4, <1>5, <1>6

\* The watcher, and a pass that reads, keep the types.
LEMMA WatcherTyped ==
    ASSUME TypeOK,
           \/ \E s \in Sources : Change(s)
           \/ IgnoredEvent \/ DebouncePushes \/ LivePoll \/ PassReads
    PROVE TypeOK'
<1>1. ASSUME NEW s \in Sources, Change(s)
      PROVE TypeOK'
  <2>1. gathered' \in WatchBurst \cup {None}
    <3>1. Burst(gathered) \in WatchBurst
      BY DEF TypeOK, Burst, NoBurst, WatchBurst
    <3>2. \A b \in WatchBurst : /\ MergeBurst(b, {s}, FALSE) \in WatchBurst
                               /\ MergeBurst(b, {}, TRUE) \in WatchBurst
      BY DEF MergeBurst, WatchBurst
    <3> QED
      BY <1>1, <3>1, <3>2 DEF Change, TypeOK
  <2>2. used' \in [changes : Nat, events : Nat]
    BY <1>1, UsedTyped DEF Change
  <2> QED
    BY <1>1, <2>1, <2>2 DEF Change, TypeOK, scanVars
<1>2. CASE IgnoredEvent
  <2>1. NoBurst \in WatchBurst
    BY DEF NoBurst, WatchBurst
  <2> QED
    BY <1>2, <2>1 DEF IgnoredEvent, TypeOK, scanVars
<1>3. CASE DebouncePushes
  <2>1. controller' \in Controller
    BY <1>3, ControllerTyped DEF DebouncePushes, TypeOK
  <2> QED
    BY <1>3, <2>1 DEF DebouncePushes, TypeOK, scanVars
<1>4. CASE PassReads
  <2>1. pass' \in Pass
    BY <1>4 DEF PassReads, TypeOK, Pass
  <2> QED
    BY <1>4, <2>1 DEF PassReads, Describe, TypeOK, scanVars
<1>5. CASE LivePoll
  <2>1. \A S \in SUBSET Polled, over \in BOOLEAN :
            [paths |-> IF over THEN {} ELSE S, overflowed |-> over] \in WatchBurst
    BY DEF Polled, WatchBurst
  <2>2. controller' \in Controller
    <3>1. PICK S \in SUBSET Polled, over \in BOOLEAN :
              controller' = PushBurst(controller, [paths |-> IF over THEN {} ELSE S,
                                                   overflowed |-> over])
      BY <1>5 DEF LivePoll
    <3> QED
      BY <2>1, <3>1, ControllerTyped DEF TypeOK
  <2>3. used' \in [changes : Nat, events : Nat]
    BY <1>5, UsedTyped DEF LivePoll
  <2>4. adrift' \subseteq adrift
    BY <1>5 DEF LivePoll
  <2> QED
    BY <1>5, <2>2, <2>3, <2>4 DEF LivePoll, TypeOK, scanVars
<1> QED
  BY <1>1, <1>2, <1>3, <1>4, <1>5

\* The three ways to wake keep the types.
LEMMA WakeTyped ==
    ASSUME TypeOK, WakeOnKick \/ WakeOnTick \/ WakeOnDue
    PROVE TypeOK'
<1>1. [controller EXCEPT !.kick = FALSE] \in Controller /\ controller \in Controller
  BY DEF TypeOK, Controller
<1>2. [clock EXCEPT !.tickIn = TickInterval] \in Clock /\ clock \in Clock
  BY ScanAssumption DEF TypeOK, Clock
<1>3. CASE WakeOnKick
  BY <1>1, <1>2, <1>3, WokenTyped DEF WakeOnKick
<1>4. CASE WakeOnTick
  BY <1>1, <1>2, <1>4, WokenTyped DEF WakeOnTick
<1>5. CASE WakeOnDue
  BY <1>1, <1>2, <1>5, WokenTyped DEF WakeOnDue
<1> QED
  BY <1>3, <1>4, <1>5

\* The commands of the reader keep the types.
LEMMA ReaderTyped ==
    ASSUME TypeOK,
           \/ \E history \in BOOLEAN : CommandScan(history)
           \/ RequestScan \/ BacklogDrains \/ (\E a \in Agents : RequestSourceRefresh(a))
           \/ CancelChecks \/ CancelStores \/ Pause \/ ResumeSaves \/ ResumeRequests
    PROVE TypeOK'
<1>0. /\ \A t \in Trigger : Request(controller, t) \in Controller
      /\ "routine" \in Trigger /\ "history" \in Trigger
  BY ControllerTyped DEF TypeOK, Trigger
<1>1. ASSUME NEW history \in BOOLEAN, CommandScan(history)
      PROVE TypeOK'
  <2>1. pass' \in Pass \cup {None} /\ owed' \in BOOLEAN
    <3>1. CASE StartFullPass("command", history)
      BY <3>1, StartPassTyped DEF StartFullPass
    <3>2. CASE owed' = TRUE /\ UNCHANGED pass
      BY <3>2 DEF TypeOK
    <3> QED
      BY <1>1, <3>1, <3>2 DEF CommandScan
  <2>2. controller' \in Controller
    <3>1. [controller EXCEPT !.cancel = FALSE] \in Controller
      BY DEF TypeOK, Controller
    <3> QED
      BY <1>0, <1>1, <3>1 DEF CommandScan
  <2>3. used' \in [changes : Nat, events : Nat]
    BY <1>1, UsedTyped DEF CommandScan
  <2> QED
    BY <1>1, <2>1, <2>2, <2>3 DEF CommandScan, TypeOK, scanVars
<1>2. CASE RequestScan \/ BacklogDrains
  <2>1. used' \in [changes : Nat, events : Nat]
    BY <1>2, UsedTyped DEF RequestScan, BacklogDrains
  <2>2. controller' \in Controller
    BY <1>0, <1>2 DEF RequestScan, BacklogDrains
  <2> QED
    BY <1>2, <2>1, <2>2 DEF RequestScan, BacklogDrains, TypeOK, scanVars
<1>3. ASSUME NEW a \in Agents, RequestSourceRefresh(a)
      PROVE TypeOK'
  <2>1. used' \in [changes : Nat, events : Nat]
    BY <1>3, UsedTyped DEF RequestSourceRefresh
  <2>2. controller' \in Controller
    BY <1>3 DEF RequestSourceRefresh, TypeOK, Controller
  <2> QED
    BY <1>3, <2>1, <2>2 DEF RequestSourceRefresh, TypeOK, scanVars
<1>4. CASE CancelChecks
  <2>1. used' \in [changes : Nat, events : Nat]
    BY <1>4, UsedTyped DEF CancelChecks
  <2>2. reader' \in [paused : BOOLEAN, resuming : BOOLEAN, cancelling : BOOLEAN]
    BY <1>4 DEF CancelChecks, TypeOK
  <2> QED
    BY <1>4, <2>1, <2>2 DEF CancelChecks, TypeOK, scanVars
<1>5. CASE CancelStores
  <2>1. controller' \in Controller
    BY <1>5 DEF CancelStores, TypeOK, Controller
  <2> QED
    BY <1>5, <2>1 DEF CancelStores, TypeOK, scanVars
<1>6. CASE Pause
  <2>1. used' \in [changes : Nat, events : Nat]
    BY <1>6, UsedTyped DEF Pause
  <2>2. reader' \in [paused : BOOLEAN, resuming : BOOLEAN, cancelling : BOOLEAN]
    BY <1>6 DEF Pause, TypeOK
  <2> QED
    BY <1>6, <2>1, <2>2 DEF Pause, TypeOK, scanVars
<1>7. CASE ResumeSaves
  BY <1>7 DEF ResumeSaves, TypeOK, scanVars
<1>8. CASE ResumeRequests
  <2>1. controller' \in Controller
    BY <1>0, <1>8 DEF ResumeRequests
  <2> QED
    BY <1>8, <2>1 DEF ResumeRequests, TypeOK, scanVars
<1> QED
  BY <1>1, <1>2, <1>3, <1>4, <1>5, <1>6, <1>7, <1>8

\* Time keeps the types, and a due time stays one.
LEMMA TimeTyped ==
    ASSUME TypeOK, TimePasses
    PROVE TypeOK' /\ (clock.due # None => clock'.due # None)
<1>1. clock \in Clock /\ clock.tickIn \in Nat /\ clock.due \in Nat \cup {None}
  BY DEF TypeOK, Clock
<1>2. /\ Older(clock.sessions) \in [Sources -> Nat]
      /\ Older(clock.titles) \in [Agents -> Nat]
      /\ Older(clock.agents) \in [Agents -> Nat]
  BY OlderTyped DEF TypeOK, Clock
<1>3. \A n \in Nat : Max({0, n - 1}) \in Nat
  <2> SUFFICES ASSUME NEW n \in Nat PROVE Max({0, n - 1}) \in Nat
    OBVIOUS
  <2> DEFINE m == n - 1
  <2>1. 0 \in Int /\ m \in Int
    OBVIOUS
  <2> HIDE DEF m
  <2>2. Max({0, m}) \in {0, m} /\ Max({0, m}) >= 0
    BY <2>1, PairTyped, Zenon
  <2>3. Max({0, m}) \in Nat
    BY <2>1, <2>2
  <2> QED
    BY <2>3 DEF m
<1> DEFINE due == IF clock.due = None THEN None ELSE Max({0, clock.due - 1})
<1>4. due \in Nat \cup {None} /\ (clock.due # None => due \in Nat)
  BY <1>1, <1>3
<1>5. clock' = [clock EXCEPT !.sessions = Older(@), !.titles = Older(@), !.agents = Older(@),
                             !.tickIn = Max({0, @ - 1}), !.due = due]
  BY DEF TimePasses
<1> HIDE DEF due
<1>6. clock' \in Clock /\ clock'.due = due
  BY <1>1, <1>2, <1>3, <1>4, <1>5 DEF Clock
<1> QED
  BY <1>4, <1>6, NoneAssumption DEF TimePasses, TypeOK

\* Every step keeps the types.
LEMMA TypeStep ==
    ASSUME TypeOK, LoopInv, [Next]_vars
    PROVE TypeOK'
<1>1. CASE UNCHANGED vars
  BY <1>1 DEF vars, TypeOK
<1>2. CASE Next
  BY <1>2, WatcherTyped, PassEndsTyped, WakeTyped, LoopStepTyped, ReaderTyped, TimeTyped DEF Next
<1> QED
  BY <1>1, <1>2

-----------------------------------------------------------------------------
(* The point of the loop.                                                       *)

\* Steps of others, which move neither the loop nor the slot.
Elsewhere ==
    \/ \E s \in Sources : Change(s)
    \/ IgnoredEvent \/ DebouncePushes \/ LivePoll
    \/ RequestScan \/ BacklogDrains \/ (\E a \in Agents : RequestSourceRefresh(a))
    \/ CancelChecks \/ CancelStores \/ Pause \/ ResumeSaves \/ ResumeRequests
    \/ TimePasses

\* What the steps of others leave alone.
LEMMA ElsewhereKeeps == Elsewhere => UNCHANGED <<sched, pass, work, outstanding>>
  BY DEF Elsewhere, Change, IgnoredEvent, DebouncePushes, LivePoll, RequestScan, BacklogDrains,
         RequestSourceRefresh, CancelChecks, CancelStores, Pause, ResumeSaves, ResumeRequests,
         TimePasses, scanVars

\* The steps, sorted by who takes them.
LEMMA NextCases ==
    Next => \/ Elsewhere \/ PassReads \/ PassEnds
            \/ (WakeOnKick \/ WakeOnTick \/ WakeOnDue)
            \/ Launch \/ RefreshSources \/ Decide \/ RunLane \/ AdmitWork \/ ArmDeferred
            \/ \E history \in BOOLEAN : CommandScan(history)
  BY DEF Next, Elsewhere

\* A pass that starts.
LEMMA StartPassIs ==
    ASSUME TypeOK, NEW by \in {"scheduler", "command"}, NEW scope \in SUBSET Sources,
           NEW history \in BOOLEAN, NEW whole \in BOOLEAN,
           StartPass(by, scope, history, whole)
    PROVE /\ pass = None /\ pass' # None /\ pass' \in Pass
          /\ pass'.by = by /\ pass'.scope = scope /\ pass'.read = FALSE
          /\ pass'.covers = {a \in outstanding : by = "scheduler" /\ whole
                                 /\ \E s \in scope : AgentOf[s] = a}
          /\ owed' = (owed /\ ~ history)
<1>1. pass' \in Pass
  BY StartPassTyped
<1> QED
  BY <1>1, NoneAssumption DEF StartPass

\* A full pass that starts.
LEMMA FullPassIs ==
    ASSUME TypeOK, NEW by \in {"scheduler", "command"}, NEW history \in BOOLEAN,
           StartFullPass(by, history)
    PROVE /\ pass = None /\ pass' # None /\ pass' \in Pass
          /\ pass'.by = by /\ pass'.scope = Sources /\ pass'.read = FALSE
          /\ pass'.covers \subseteq outstanding
          /\ by = "command" => pass'.covers = {}
          /\ owed' = (owed /\ ~ history)
<1>1. StartPass(by, Sources, history, TRUE)
  BY DEF StartFullPass
<1>2. Sources \in SUBSET Sources /\ TRUE \in BOOLEAN
  OBVIOUS
<1>3. pass' \in Pass
  BY <1>1, <1>2, StartPassTyped
<1> QED
  BY <1>1, <1>3, NoneAssumption DEF StartPass

\* A wake leaves the slot alone and moves the loop to its first point, or leaves it.
LEMMA WakeIs ==
    ASSUME TypeOK, WakeOnKick \/ WakeOnTick \/ WakeOnDue
    PROVE /\ UNCHANGED <<pass, owed, reader, gathered, dirty>>
          /\ sched.at = "wait" /\ sched'.at \in {"wait", "refresh"}
          /\ sched'.jobs = sched.jobs
          /\ sched'.at = "wait" => sched'.over = sched.over
          /\ controller'.trigger = controller.trigger
          /\ controller'.refreshes = controller.refreshes
          /\ controller'.burst = None
          /\ sched'.at = "wait" => reader.paused \/ sched'.blind
<1>0. /\ controller.trigger = [controller EXCEPT !.kick = FALSE].trigger
      /\ controller.refreshes = [controller EXCEPT !.kick = FALSE].refreshes
      /\ [controller EXCEPT !.kick = FALSE] \in Controller
  BY DEF TypeOK, Controller
<1>1. ASSUME NEW c \in Controller, NEW k, NEW tick, Woken(c, k, tick), sched.at = "wait"
      PROVE /\ UNCHANGED <<pass, owed, reader, gathered, dirty>>
            /\ sched'.at \in {"wait", "refresh"} /\ sched'.jobs = sched.jobs
            /\ sched'.at = "wait" => sched'.over = sched.over
            /\ controller'.trigger = c.trigger /\ controller'.refreshes = c.refreshes
            /\ controller'.burst = None
            /\ sched'.at = "wait" => reader.paused \/ sched'.blind
  <2>1. /\ \/ sched' = [sched EXCEPT !.blind = ~ reader.paused]
           \/ \E t, o : sched' = [sched EXCEPT !.at = "refresh", !.tick = t, !.over = o,
                                             !.blind = FALSE]
        /\ controller' = [c EXCEPT !.burst = None]
        /\ UNCHANGED <<pass, owed, reader, gathered, dirty>>
    BY <1>1 DEF Woken
  <2> QED
    BY <1>1, <2>1 DEF TypeOK, Loop, Controller
<1>2. CASE WakeOnKick
  BY <1>0, <1>1, <1>2 DEF WakeOnKick
<1>3. CASE WakeOnTick
  BY <1>0, <1>1, <1>3 DEF WakeOnTick, TypeOK
<1>4. CASE WakeOnDue
  BY <1>0, <1>1, <1>4 DEF WakeOnDue, TypeOK
<1> QED
  BY <1>2, <1>3, <1>4

\* A pass that reads its scope.
LEMMA PassReadsIs ==
    ASSUME TypeOK, PassReads
    PROVE /\ pass # None /\ pass' # None /\ pass \in Pass /\ pass' \in Pass
          /\ pass'.by = pass.by /\ pass'.scope = pass.scope /\ pass'.covers = pass.covers
          /\ ~ pass.read /\ pass'.read
<1>1. pass # None /\ pass \in Pass /\ ~ pass.read /\ pass' = [pass EXCEPT !.read = TRUE]
  BY DEF TypeOK, PassReads
<1>2. /\ pass' \in Pass /\ pass'.by = pass.by /\ pass'.scope = pass.scope
      /\ pass'.covers = pass.covers /\ pass'.read
  BY <1>1 DEF Pass
<1> QED
  BY <1>1, <1>2, NoneAssumption

\* Every step keeps what LoopInv says of the point of the loop.
LEMMA LoopStep ==
    ASSUME TypeOK, LoopInv, TypeOK', [Next]_vars
    PROVE LoopInv'
<1>0. sched \in Loop /\ sched' \in Loop /\ sched.jobs \in Seq(ScopedWork)
  BY DEF TypeOK, Loop
<1>1. CASE UNCHANGED <<sched, pass>>
  BY <1>1 DEF LoopInv, Idle
<1>2. CASE PassReads
  BY <1>0, <1>2, PassReadsIs DEF PassReads, LoopInv, Idle
<1>3. CASE PassEnds
  <2>1. Idle'
    BY <1>3 DEF PassEnds, Idle
  <2>2. CASE pass.by # "scheduler"
    BY <1>3, <2>1, <2>2 DEF PassEnds, LoopInv
  <2>3. CASE pass.by = "scheduler"
    <3>1. SchedulerResumes /\ ~ Idle
      BY <1>3, <2>3 DEF PassEnds, Idle
    <3>2. CASE sched.at = "full" /\ Superseded
      BY <1>0, <2>1, <3>2 DEF LoopInv, Superseded, Loop
    <3>3. CASE sched.at # "full"
      BY <1>0, <2>1, <3>1, <3>3, ResumesAt DEF LoopInv, Loop
    <3> QED
      BY <3>1, <3>2, <3>3, ResumesAt
  <2> QED
    BY <2>2, <2>3
<1>4. CASE WakeOnKick \/ WakeOnTick \/ WakeOnDue
  BY <1>0, <1>4, WakeIs DEF LoopInv, Idle
<1>5. CASE Launch
  <2>1. CASE StartFullPass("scheduler", FALSE) /\ UNCHANGED sched
    BY <1>0, <1>5, <2>1, StartPassIs DEF Launch, StartFullPass, LoopInv, Idle
  <2>2. CASE sched' = [sched EXCEPT !.at = "wait"] /\ UNCHANGED pass
    BY <1>0, <1>5, <2>2 DEF Launch, LoopInv, Idle, Loop
  <2> QED
    BY <1>5, <2>1, <2>2 DEF Launch
<1>6. CASE RefreshSources
  <2>0. Idle
    BY <1>6 DEF RefreshSources, LoopInv
  <2>1. CASE sched' = [sched EXCEPT !.at = "decide"] /\ UNCHANGED pass
    BY <1>0, <1>6, <2>0, <2>1 DEF RefreshSources, LoopInv, Idle, Loop
  <2>2. CASE /\ StartPass("scheduler", {s \in Sources : AgentOf[s] \in controller.refreshes},
                           FALSE, TRUE)
             /\ sched' = [sched EXCEPT !.at = "source"]
    <3>1. sched'.at = "source" /\ sched'.jobs = <<>>
      BY <1>0, <1>6, <2>2 DEF RefreshSources, LoopInv, Loop
    <3> QED
      BY <3>1 DEF LoopInv
  <2>3. CASE /\ sched' = [sched EXCEPT !.at = "wait", !.over = FALSE, !.tick = FALSE]
             /\ UNCHANGED pass
    BY <1>0, <1>6, <2>0, <2>3 DEF RefreshSources, LoopInv, Idle, Loop
  <2> QED
    BY <1>6, <2>1, <2>2, <2>3 DEF RefreshSources
<1>7. CASE Decide
  <2>1. sched.at = "decide" /\ Idle /\ sched.jobs = <<>>
    BY <1>7 DEF Decide, LoopInv
  <2>2. CASE /\ \E history \in BOOLEAN : StartFullPass("scheduler", history)
             /\ sched' = [sched EXCEPT !.at = "full"]
    <3>1. pass' # None /\ pass'.scope = Sources
      BY <2>2, FullPassIs
    <3> QED
      BY <1>0, <2>1, <2>2, <3>1 DEF LoopInv, Loop
  <2>3. CASE Superseded /\ UNCHANGED pass
    BY <1>0, <2>1, <2>3 DEF Superseded, LoopInv, Idle, Loop
  <2>4. CASE /\ ~ sched.over /\ UNCHANGED pass
             /\ sched' = [sched EXCEPT !.at = "retrying", !.jobs = LanesOf(work.retry)]
    BY <1>0, <2>1, <2>4 DEF LoopInv, Idle, Loop
  <2> QED
    BY <1>7, <2>2, <2>3, <2>4 DEF Decide
<1>8. CASE RunLane
  <2>0. sched.at \in {"retrying", "admitted"} /\ Idle /\ sched.jobs # <<>>
    BY <1>8 DEF RunLane
  <2>1. CASE /\ StartPass("scheduler", ScopeOf(Head(sched.jobs)), FALSE,
                          Rediscovered(Head(sched.jobs)) # {})
             /\ UNCHANGED sched
    <3>1. pass' # None /\ pass'.scope = ScopeOf(Head(sched.jobs))
      BY <2>1, ScopeTyped, StartPassIs
    <3> QED
      BY <2>0, <2>1, <3>1 DEF LoopInv
  <2>2. CASE sched' = [sched EXCEPT !.jobs = Tail(@)] /\ UNCHANGED pass
    BY <1>0, <2>0, <2>2 DEF LoopInv, Idle, Loop
  <2> QED
    BY <1>8, <2>1, <2>2 DEF RunLane
<1>9. CASE AdmitWork
  BY <1>0, <1>9 DEF AdmitWork, LoopInv, Idle, Loop
<1>10. CASE ArmDeferred
  BY <1>0, <1>10 DEF ArmDeferred, LoopInv, Idle, Loop
<1>11. CASE \E history \in BOOLEAN : CommandScan(history)
  <2>1. PICK history \in BOOLEAN : CommandScan(history)
    BY <1>11
  <2>2. CASE StartFullPass("command", history)
    <3>1. pass' # None /\ pass'.by = "command" /\ pass = None
      BY <2>2, StartPassIs DEF StartFullPass
    <3> QED
      BY <2>1, <3>1 DEF CommandScan, LoopInv, Idle
  <2> QED
    BY <1>1, <2>1, <2>2 DEF CommandScan
<1> QED
  BY <1>1, <1>2, <1>3, <1>4, <1>5, <1>6, <1>7, <1>8, <1>9, <1>10, <1>11, NextCases,
     ElsewhereKeeps DEF vars

-----------------------------------------------------------------------------
(* Lanes.                                                                       *)

\* The elements of a concatenation are those of its parts.
LEMMA ConcatElements ==
    ASSUME NEW S, NEW a \in Seq(S), NEW b \in Seq(S)
    PROVE ToSet(a \o b) = ToSet(a) \cup ToSet(b)
<1> DEFINE ab == a \o b
<1>1. ASSUME NEW i \in DOMAIN ab
      PROVE ab[i] \in ToSet(a) \cup ToSet(b)
  <2>1. CASE i <= Len(a)
    <3>1. i \in DOMAIN a /\ ab[i] = a[i]
      BY <2>1
    <3> QED
      BY <3>1 DEF ToSet
  <2>2. CASE i > Len(a)
    <3>1. i - Len(a) \in DOMAIN b /\ ab[i] = b[i - Len(a)]
      BY <2>2
    <3> QED
      BY <3>1 DEF ToSet
  <2> QED
    BY <2>1, <2>2
<1>2. ASSUME NEW j \in DOMAIN a
      PROVE a[j] \in ToSet(ab)
  <2>1. j \in DOMAIN ab /\ ab[j] = a[j]
    OBVIOUS
  <2> QED
    BY <2>1 DEF ToSet
<1>3. ASSUME NEW j \in DOMAIN b
      PROVE b[j] \in ToSet(ab)
  <2>1. j + Len(a) \in DOMAIN ab /\ ab[j + Len(a)] = b[j]
    OBVIOUS
  <2> HIDE DEF ab
  <2> QED
    BY <2>1 DEF ToSet
<1> HIDE DEF ab
<1>4. ToSet(ab) = ToSet(a) \cup ToSet(b)
  BY <1>1, <1>2, <1>3 DEF ToSet
<1> QED
  BY <1>4 DEF ab

\* The lanes of work are its three parts that are not empty.
LEMMA LanesAre ==
    ASSUME NEW w \in ScopedWork
    PROVE ToSet(LanesOf(w)) = {[NoWork EXCEPT !.sessions = w.sessions],
                               [NoWork EXCEPT !.titles = w.titles],
                               [w EXCEPT !.sessions = {}, !.titles = {}]} \ {NoWork}
<1> DEFINE a == [NoWork EXCEPT !.sessions = w.sessions]
           b == [NoWork EXCEPT !.titles = w.titles]
           c == [w EXCEPT !.sessions = {}, !.titles = {}]
<1>1. a \in ScopedWork /\ b \in ScopedWork /\ c \in ScopedWork
  BY DEF NoWork, ScopedWork
<1>2. LanesOf(w) = (OneLane(a) \o OneLane(b)) \o OneLane(c)
  BY DEF LanesOf
<1> HIDE DEF a, b, c
<1>3. ASSUME NEW job \in ScopedWork
      PROVE OneLane(job) \in Seq(ScopedWork) /\ ToSet(OneLane(job)) = {job} \ {NoWork}
  BY DEF OneLane, ToSet
<1>4. OneLane(a) \o OneLane(b) \in Seq(ScopedWork)
  BY <1>1, <1>3
<1>5. ToSet(OneLane(a) \o OneLane(b)) = {a, b} \ {NoWork}
  <2>1. ToSet(OneLane(a) \o OneLane(b)) = ToSet(OneLane(a)) \cup ToSet(OneLane(b))
    BY <1>1, <1>3, ConcatElements
  <2> QED
    BY <1>1, <1>3, <2>1
<1>6. ToSet(LanesOf(w)) = ToSet(OneLane(a) \o OneLane(b)) \cup ToSet(OneLane(c))
  <2> DEFINE ab == OneLane(a) \o OneLane(b)
             cc == OneLane(c)
  <2>1. ab \in Seq(ScopedWork) /\ cc \in Seq(ScopedWork) /\ LanesOf(w) = ab \o cc
    BY <1>1, <1>2, <1>3, <1>4
  <2> HIDE DEF ab, cc
  <2>2. ToSet(ab \o cc) = ToSet(ab) \cup ToSet(cc)
    BY <2>1, ConcatElements
  <2> QED
    BY <2>1, <2>2 DEF ab, cc
<1>7. ToSet(LanesOf(w)) = {a, b, c} \ {NoWork}
  BY <1>1, <1>3, <1>5, <1>6
<1> QED
  BY <1>7 DEF a, b, c

\* A lane that rediscovers has nothing else in it.
LEMMA LanesWhole ==
    ASSUME NEW w \in ScopedWork, NEW i \in DOMAIN LanesOf(w),
           Rediscovered(LanesOf(w)[i]) # {}
    PROVE LanesOf(w)[i].sessions = {} /\ LanesOf(w)[i].titles = {}
<1>0. LanesOf(w)[i] \in ToSet(LanesOf(w))
  BY DEF ToSet
<1>1. LanesOf(w)[i] \in {[NoWork EXCEPT !.sessions = w.sessions],
                         [NoWork EXCEPT !.titles = w.titles],
                         [w EXCEPT !.sessions = {}, !.titles = {}]}
  BY <1>0, LanesAre
<1> QED
  BY <1>1 DEF Rediscovered, NoWork, ScopedWork

\* The lanes of work have the scope of the work.
LEMMA LanesCover ==
    ASSUME NEW w \in ScopedWork, NEW s \in ScopeOf(w)
    PROVE \E i \in DOMAIN LanesOf(w) : s \in ScopeOf(LanesOf(w)[i])
<1> DEFINE a == [NoWork EXCEPT !.sessions = w.sessions]
           b == [NoWork EXCEPT !.titles = w.titles]
           c == [w EXCEPT !.sessions = {}, !.titles = {}]
<1>1. PICK job \in {a, b, c} : s \in ScopeOf(job)
  <2>1. CASE s \in w.sessions
    BY <2>1 DEF ScopeOf, NoWork
  <2>2. CASE AgentOf[s] \in Rediscovered(w)
    BY <2>2 DEF ScopeOf, Rediscovered, ScopedWork
  <2>3. CASE Lane[s] = "titles" /\ AgentOf[s] \in w.titles
    BY <2>3 DEF ScopeOf, NoWork
  <2> QED
    BY <2>1, <2>2, <2>3 DEF ScopeOf
<1>2. ScopeOf(NoWork) = {}
  BY DEF ScopeOf, NoWork, Rediscovered
<1>3. job \in ToSet(LanesOf(w))
  BY <1>1, <1>2, LanesAre
<1> QED
  BY <1>1, <1>3 DEF ToSet

\* Every step keeps the lanes in hand pure.
LEMMA LaneStep ==
    ASSUME TypeOK, LoopInv, LaneInv, TypeOK', [Next]_vars
    PROVE LaneInv'
<1>0. sched \in Loop /\ sched.jobs \in Seq(ScopedWork)
  BY DEF TypeOK, Loop
<1>1. CASE sched'.jobs = sched.jobs
  BY <1>1 DEF LaneInv
<1>2. CASE sched'.jobs = Tail(sched.jobs) /\ sched.jobs # <<>>
  <2>1. \A i \in DOMAIN sched'.jobs :
            i + 1 \in DOMAIN sched.jobs /\ sched'.jobs[i] = sched.jobs[i + 1]
    BY <1>0, <1>2
  <2> QED
    BY <2>1 DEF LaneInv
<1>3. CASE \E w \in ScopedWork : sched'.jobs = LanesOf(w)
  BY <1>3, LanesWhole DEF LaneInv
<1>4. \/ sched'.jobs = sched.jobs
      \/ sched'.jobs = Tail(sched.jobs) /\ sched.jobs # <<>>
      \/ \E w \in ScopedWork : sched'.jobs = LanesOf(w)
  <2>1. CASE UNCHANGED sched
    BY <2>1
  <2>2. CASE WakeOnKick \/ WakeOnTick \/ WakeOnDue
    BY <2>2, WakeIs
  <2>3. CASE PassEnds
    <3>1. CASE pass.by = "scheduler"
      BY <1>0, <2>3, <3>1, ResumesAt DEF PassEnds, Superseded, LoopInv, Idle, Loop
    <3> QED
      BY <2>3, <3>1 DEF PassEnds
  <2>4. CASE Launch \/ RefreshSources \/ ArmDeferred
    BY <1>0, <2>4 DEF Launch, RefreshSources, ArmDeferred, Loop
  <2>5. CASE Decide
    <3>1. CASE sched' = [sched EXCEPT !.at = "retrying", !.jobs = LanesOf(work.retry)]
      BY <1>0, <3>1 DEF TypeOK, Loop
    <3>2. CASE Superseded \/ sched' = [sched EXCEPT !.at = "full"]
      BY <1>0, <3>2 DEF Superseded, Loop
    <3> QED
      BY <2>5, <3>1, <3>2 DEF Decide
  <2>6. CASE RunLane
    BY <1>0, <2>6 DEF RunLane, Loop
  <2>7. CASE AdmitWork
    <3>1. RunNow(work.pending) \in ScopedWork
      BY NowTyped DEF TypeOK
    <3> QED
      BY <1>0, <2>7, <3>1 DEF AdmitWork, Loop
  <2>8. CASE PassReads \/ \E history \in BOOLEAN : CommandScan(history)
    BY <2>1, <2>8 DEF PassReads, CommandScan
  <2> QED
    BY <2>1, <2>2, <2>3, <2>4, <2>5, <2>6, <2>7, <2>8, NextCases, ElsewhereKeeps DEF vars
<1> QED
  BY <1>1, <1>2, <1>3, <1>4

-----------------------------------------------------------------------------
(* The ledger of anonymous activity, and the historical trigger.                *)

\* What a pass may cover when it starts: whole agents that are outstanding.
LEMMA StartCovers ==
    ASSUME TypeOK, NEW by \in {"scheduler", "command"}, NEW scope \in SUBSET Sources,
           NEW history \in BOOLEAN, NEW whole \in BOOLEAN,
           StartPass(by, scope, history, whole),
           whole => \A s, t \in Sources : s \in scope /\ AgentOf[s] = AgentOf[t] => t \in scope
    PROVE CoverInv'
<1>1. /\ pass' # None /\ pass'.by = by /\ pass'.scope = scope /\ pass'.read = FALSE
      /\ pass'.covers = {a \in outstanding : by = "scheduler" /\ whole
                             /\ \E s \in scope : AgentOf[s] = a}
  <2>1. pass' # None
    BY StartPassIs
  <2> QED
    BY <2>1 DEF StartPass
<1>2. by = "command" => pass'.covers = {}
  BY <1>1
<1>3. ASSUME NEW t \in Sources, AgentOf[t] \in pass'.covers
      PROVE t \in pass'.scope
  <2>1. PICK s \in scope : AgentOf[s] = AgentOf[t]
    BY <1>1, <1>3
  <2> QED
    BY <1>1, <1>3, <2>1
<1> QED
  BY <1>1, <1>2, <1>3 DEF CoverInv

\* Every step keeps covers honest: only a pass that read the sources of an agent
\* takes the agent out of the ledger.
LEMMA CoverStep ==
    ASSUME TypeOK, LoopInv, LaneInv, CoverInv, CoverHonest, [Next]_vars
    PROVE CoverInv' /\ CoverHonest'
<1>1. CASE UNCHANGED <<pass, outstanding>> /\ told' \subseteq told
  BY <1>1 DEF CoverInv, CoverHonest
<1>2. CASE Elsewhere
  <2>1. told' \subseteq told
    BY <1>2 DEF Elsewhere, Change, IgnoredEvent, DebouncePushes, LivePoll, RequestScan,
                BacklogDrains, RequestSourceRefresh, CancelChecks, CancelStores, Pause, ResumeSaves,
                ResumeRequests, TimePasses
  <2> QED
    BY <1>1, <1>2, <2>1, ElsewhereKeeps
<1>3. CASE PassReads
  <2>1. UNCHANGED outstanding /\ told' \subseteq told \ pass.scope
    BY <1>3 DEF PassReads, Describe, scanVars
  <2> QED
    BY <1>3, <2>1, PassReadsIs DEF CoverInv, CoverHonest, TypeOK
<1>4. CASE PassEnds
  <2>1. CoverInv'
    BY <1>4 DEF PassEnds, CoverInv
  <2>2. told' \subseteq told
    BY <1>4 DEF PassEnds, Describe
  <2>3. CASE outstanding' = outstanding
    BY <2>1, <2>2, <2>3 DEF CoverHonest
  <2>4. CASE outstanding' = outstanding \ pass.covers /\ pass.read
    BY <1>4, <2>1, <2>2, <2>4 DEF CoverHonest, CoverInv, PassEnds
  <2> QED
    BY <1>4, <2>3, <2>4 DEF PassEnds, PassCovers
<1>5. CASE WakeOnKick \/ WakeOnTick \/ WakeOnDue
  <2>1. UNCHANGED pass /\ sched.at = "wait"
    BY <1>5, WakeIs
  <2>2. pass # None => pass.covers = {}
    BY <2>1 DEF LoopInv, CoverInv, Idle, TypeOK, Pass
  <2>3. \A c, k, tick : Woken(c, k, tick) => CoverHonest'
    BY DEF Woken, CoverHonest
  <2> QED
    BY <1>5, <2>1, <2>2, <2>3 DEF CoverInv, WakeOnKick, WakeOnTick, WakeOnDue
<1>6. ASSUME NEW by \in {"scheduler", "command"}, NEW scope \in SUBSET Sources,
             NEW history \in BOOLEAN, NEW whole \in BOOLEAN,
             StartPass(by, scope, history, whole),
             whole => \A s, t \in Sources :
                          s \in scope /\ AgentOf[s] = AgentOf[t] => t \in scope,
             UNCHANGED <<told, outstanding>>
      PROVE CoverInv' /\ CoverHonest'
  BY <1>6, StartCovers DEF CoverHonest
<1>7. Sources \in SUBSET Sources /\ TRUE \in BOOLEAN /\ FALSE \in BOOLEAN
  OBVIOUS
<1>8. ASSUME NEW by \in {"scheduler", "command"}, NEW history \in BOOLEAN,
             StartFullPass(by, history), UNCHANGED <<told, outstanding>>
      PROVE CoverInv' /\ CoverHonest'
  BY <1>6, <1>7, <1>8 DEF StartFullPass
<1>9. CASE Launch
  BY <1>1, <1>7, <1>8, <1>9 DEF Launch, scanVars
<1>10. CASE RefreshSources
  <2>1. CASE StartPass("scheduler", {s \in Sources : AgentOf[s] \in controller.refreshes},
                       FALSE, TRUE)
    <3> DEFINE scope == {s \in Sources : AgentOf[s] \in controller.refreshes}
    <3>1. scope \in SUBSET Sources
      OBVIOUS
    <3>2. \A s, t \in Sources : s \in scope /\ AgentOf[s] = AgentOf[t] => t \in scope
      OBVIOUS
    <3>3. StartPass("scheduler", scope, FALSE, TRUE)
      BY <2>1
    <3> HIDE DEF scope
    <3> QED
      BY <1>6, <1>7, <1>10, <3>1, <3>2, <3>3 DEF RefreshSources, scanVars
  <2> QED
    BY <1>1, <1>10, <2>1 DEF RefreshSources, scanVars
<1>11. CASE Decide
  BY <1>1, <1>8, <1>11 DEF Decide
<1>12. CASE RunLane
  <2> DEFINE job == Head(sched.jobs)
             scope == ScopeOf(job)
             whole == Rediscovered(job) # {}
  <2>1. scope \in SUBSET Sources /\ whole \in BOOLEAN
    BY ScopeTyped
  <2>2. ASSUME whole, NEW s \in Sources, NEW t \in Sources,
               s \in scope, AgentOf[s] = AgentOf[t]
        PROVE t \in scope
    <3>1. sched.jobs \in Seq(ScopedWork) /\ sched.jobs # <<>>
      BY <1>12 DEF RunLane, TypeOK, Loop
    <3>2. 1 \in DOMAIN sched.jobs /\ job = sched.jobs[1]
      BY <3>1
    <3>3. job.sessions = {} /\ job.titles = {}
      BY <2>2, <3>2 DEF LaneInv
    <3> QED
      BY <2>2, <3>3 DEF ScopeOf
  <2>3. CASE StartPass("scheduler", scope, FALSE, whole)
    <3>1. whole => \A s, t \in Sources :
                       s \in scope /\ AgentOf[s] = AgentOf[t] => t \in scope
      BY <2>2
    <3>2. UNCHANGED <<told, outstanding>>
      BY <1>12 DEF RunLane
    <3> HIDE DEF scope, whole
    <3> QED
      BY <1>6, <1>7, <2>1, <2>3, <3>1, <3>2
  <2> QED
    BY <1>1, <1>12, <2>3 DEF RunLane
<1>13. CASE AdmitWork \/ ArmDeferred
  BY <1>1, <1>13 DEF AdmitWork, ArmDeferred
<1>14. CASE \E history \in BOOLEAN : CommandScan(history)
  BY <1>1, <1>8, <1>14 DEF CommandScan, scanVars
<1>15. CASE UNCHANGED vars
  BY <1>1, <1>15 DEF vars
<1> QED
  BY <1>2, <1>3, <1>4, <1>5, <1>9, <1>10, <1>11, <1>12, <1>13, <1>14, <1>15, NextCases

\* What a request leaves of a trigger.
LEMMA RequestKeepsHistory ==
    ASSUME NEW c \in Controller, c.trigger = "history", NEW t \in Trigger
    PROVE Request(c, t).trigger = "history"
  BY NoneAssumption DEF Controller, Request, Trigger

\* A historical request replaces every trigger.
LEMMA RequestHistory ==
    ASSUME NEW c \in Controller
    PROVE Request(c, "history").trigger = "history"
  BY DEF Controller, Request

\* ScanOwnership::release keeps the historical trigger.
LEMMA ReleaseKeepsHistory ==
    ASSUME NEW c \in Controller, c.trigger = "history",
           NEW left \in {"nothing", "work", "overflow"}
    PROVE Release(c, left).trigger = "history"
<1> DEFINE asked == IF left = "overflow" \/ (left = "work" /\ c.burst = None)
                    THEN Request(c, "routine") ELSE c
<1>1. asked \in Controller /\ asked.trigger = "history"
  BY ControllerTyped, RequestKeepsHistory DEF Trigger
<1>2. Release(c, left) = [asked EXCEPT !.cancel = FALSE, !.kick = TRUE]
  BY DEF Release
<1> HIDE DEF asked
<1> QED
  BY <1>1, <1>2 DEF Controller

\* Every step keeps a historical request pending until a historical pass starts.
LEMMA HistoryStep ==
    ASSUME TypeOK, HistoryKept, [Next]_vars
    PROVE HistoryKept'
<1>0. controller \in Controller /\ "routine" \in Trigger /\ "history" \in Trigger
  BY DEF TypeOK, Trigger
<1>1. CASE (owed' => owed) /\ (owed => controller'.trigger = controller.trigger)
  BY <1>1 DEF HistoryKept
<1>12. CASE BacklogDrains
  BY <1>0, <1>12, RequestHistory DEF BacklogDrains, HistoryKept
<1>2. CASE Elsewhere /\ ~ BacklogDrains
  <2>1. owed' = owed
    BY <1>2 DEF Elsewhere, Change, IgnoredEvent, DebouncePushes, LivePoll, RequestScan,
                RequestSourceRefresh, CancelChecks, CancelStores, Pause, ResumeSaves,
                ResumeRequests, TimePasses
  <2>2. CASE owed
    <3>1. controller.trigger = "history"
      BY <2>2 DEF HistoryKept
    <3>2. Request(controller, "routine").trigger = "history"
      BY <1>0, <3>1, RequestKeepsHistory
    <3>3. ASSUME NEW b PROVE PushBurst(controller, b).trigger = "history"
      BY <1>0, <3>1 DEF PushBurst, Controller
    <3>4. controller'.trigger = "history"
      <4>1. CASE controller' = controller
        BY <3>1, <4>1
      <4>2. CASE \/ controller' = Request(controller, "routine")
                \/ \E b : controller' = PushBurst(controller, b)
        BY <3>2, <3>3, <4>2
      <4>3. CASE \/ \E a \in Agents : controller' =
                      [controller EXCEPT !.refreshes = @ \cup {a}, !.kick = TRUE]
                \/ controller' = [controller EXCEPT !.cancel = TRUE]
        BY <1>0, <3>1, <4>3 DEF Controller
      <4> QED
        BY <1>2, <4>1, <4>2, <4>3
           DEF Elsewhere, Change, IgnoredEvent, DebouncePushes, LivePoll, RequestScan,
               RequestSourceRefresh, CancelChecks, CancelStores, Pause, ResumeSaves,
               ResumeRequests, TimePasses
    <3> QED
      BY <3>4 DEF HistoryKept
  <2> QED
    BY <2>1, <2>2 DEF HistoryKept
<1>3. CASE PassReads
  BY <1>1, <1>3 DEF PassReads
<1>4. CASE PassEnds
  <2>1. PICK left \in {"nothing", "work", "overflow"}, auto \in BOOLEAN :
            /\ owed' = (owed \/ auto)
            /\ controller' = IF auto THEN Request(Release(controller, left), "history")
                             ELSE Release(controller, left)
    BY <1>4 DEF PassEnds
  <2>2. CASE auto
    BY <1>0, <2>1, <2>2, ControllerTyped, RequestHistory DEF HistoryKept
  <2>3. CASE ~ auto
    BY <1>0, <2>1, <2>3, ReleaseKeepsHistory DEF HistoryKept
  <2> QED
    BY <2>2, <2>3
<1>5. CASE WakeOnKick \/ WakeOnTick \/ WakeOnDue
  BY <1>1, <1>5, WakeIs
<1>6. CASE Launch
  <2>1. owed' => owed
    BY <1>6, FullPassIs DEF Launch
  <2>2. controller'.trigger = controller.trigger
    BY <1>0, <1>6 DEF Launch, Controller
  <2> QED
    BY <1>1, <2>1, <2>2
<1>7. CASE RefreshSources
  <2>1. owed' => owed
    BY <1>7 DEF RefreshSources, StartPass
  <2>2. controller'.trigger = controller.trigger
    BY <1>0, <1>7 DEF RefreshSources, Controller
  <2> QED
    BY <1>1, <2>1, <2>2
<1>8. CASE Decide
  <2> DEFINE history == controller.trigger = "history"
             taken == [controller EXCEPT !.trigger = None]
  <2>0. taken \in Controller
    BY <1>0 DEF Controller
  <2>1. CASE StartFullPass("scheduler", history)
    <3>1. owed' = FALSE
      BY <2>1, FullPassIs DEF HistoryKept, TypeOK
    <3> QED
      BY <3>1 DEF HistoryKept
  <2>2. CASE UNCHANGED owed /\ controller' = IF history THEN Request(taken, "history") ELSE taken
    <3> HIDE DEF taken
    <3> QED
      BY <2>0, <2>2, RequestHistory DEF HistoryKept
  <2>3. CASE UNCHANGED <<owed, controller>>
    BY <1>1, <2>3
  <2> QED
    BY <1>8, <2>1, <2>2, <2>3 DEF Decide
<1>9. CASE RunLane
  <2>1. owed' => owed
    BY <1>9 DEF RunLane, StartPass
  <2>2. controller'.trigger = controller.trigger
    BY <1>0, <1>9 DEF RunLane, Controller
  <2> QED
    BY <1>1, <2>1, <2>2
<1>10. CASE AdmitWork \/ ArmDeferred \/ UNCHANGED vars
  BY <1>1, <1>10 DEF AdmitWork, ArmDeferred, vars
<1>11. ASSUME NEW history \in BOOLEAN, CommandScan(history)
       PROVE HistoryKept'
  <2>1. CASE StartFullPass("command", history) /\ controller' = [controller EXCEPT !.cancel = FALSE]
    <3>1. owed' => owed
      BY <2>1, FullPassIs
    <3>2. controller'.trigger = controller.trigger
      BY <1>0, <2>1 DEF Controller
    <3> QED
      BY <1>1, <3>1, <3>2
  <2>2. CASE controller' = Request(controller, "history")
    BY <1>0, <2>2, RequestHistory DEF HistoryKept
  <2> QED
    BY <1>11, <2>1, <2>2 DEF CommandScan
<1> QED
  BY <1>2, <1>3, <1>4, <1>5, <1>6, <1>7, <1>8, <1>9, <1>10, <1>11,
     <1>12, NextCases

-----------------------------------------------------------------------------
(* Wakes.                                                                       *)

\* A step that leaves the loop alone keeps what is said of wakes when it gives the
\* permit, or adds nothing that waits and ends no excuse.
LEMMA WakeKept ==
    ASSUME WakeInv, UNCHANGED <<sched, work>>, clock.due # None => clock'.due # None,
           \/ controller'.kick
           \/ /\ controller'.burst = controller.burst
              /\ controller'.trigger = controller.trigger
              /\ controller'.refreshes = controller.refreshes
              /\ controller'.kick = controller.kick
              /\ Excused => Excused'
    PROVE WakeInv'
  BY DEF WakeInv

\* A request and a push give the permit.
LEMMA PermitGiven ==
    ASSUME NEW c \in Controller
    PROVE /\ \A t : Request(c, t).kick
          /\ \A b : PushBurst(c, b).kick
          /\ \A left : Release(c, left).kick
<1>1. ASSUME NEW t PROVE Request(c, t).kick
  BY DEF Request, Controller
<1>2. ASSUME NEW b PROVE PushBurst(c, b).kick
  BY DEF PushBurst, Controller
<1>3. ASSUME NEW left PROVE Release(c, left).kick
  BY DEF Release, Request, Controller
<1> QED
  BY <1>1, <1>2, <1>3

\* The steps of others keep what is said of wakes.
LEMMA ElsewhereWakes ==
    ASSUME TypeOK, WakeInv, Elsewhere
    PROVE WakeInv'
<1>0. controller \in Controller /\ UNCHANGED <<sched, work>>
  BY ElsewhereKeeps DEF TypeOK
<1>1. CASE controller'.kick /\ UNCHANGED clock
  BY <1>0, <1>1, WakeKept
<1>2. CASE UNCHANGED <<controller, clock>> /\ (Excused => Excused')
  BY <1>0, <1>2, WakeKept
<1>3. CASE (\E s \in Sources : Change(s)) \/ IgnoredEvent \/ CancelChecks
  <2>1. UNCHANGED <<controller, clock, sched>>
    BY <1>3 DEF Change, IgnoredEvent, CancelChecks, scanVars
  <2>2. Excused => Excused'
    BY <1>3 DEF Change, IgnoredEvent, CancelChecks, Excused, TypeOK
  <2> QED
    BY <1>2, <2>1, <2>2
<1>4. CASE Pause \/ ResumeSaves
  <2>1. UNCHANGED <<controller, clock, sched>>
    BY <1>4 DEF Pause, ResumeSaves, scanVars
  <2>2. reader'.paused \/ reader'.resuming
    BY <1>4 DEF Pause, ResumeSaves, TypeOK
  <2> QED
    BY <1>2, <2>1, <2>2 DEF Excused
<1>5. CASE DebouncePushes \/ LivePoll \/ RequestScan \/ BacklogDrains \/ ResumeRequests
  BY <1>0, <1>1, <1>5, PermitGiven
     DEF DebouncePushes, LivePoll, RequestScan, BacklogDrains, ResumeRequests, scanVars
<1>6. CASE \E a \in Agents : RequestSourceRefresh(a)
  <2>1. controller'.kick
    BY <1>0, <1>6 DEF RequestSourceRefresh, Controller
  <2> QED
    BY <1>1, <1>6, <2>1 DEF RequestSourceRefresh, scanVars
<1>7. CASE CancelStores
  <2>1. /\ controller'.burst = controller.burst /\ controller'.trigger = controller.trigger
        /\ controller'.refreshes = controller.refreshes /\ controller'.kick = controller.kick
    BY <1>0, <1>7 DEF CancelStores, Controller
  <2>2. Excused => Excused'
    BY <1>7 DEF CancelStores, Excused, TypeOK
  <2> QED
    BY <1>0, <1>7, <2>1, <2>2, WakeKept DEF CancelStores, scanVars
<1>8. CASE TimePasses
  <2>1. clock.due # None => clock'.due # None
    BY <1>8, TimeTyped
  <2>2. Excused => Excused'
    BY <1>8 DEF TimePasses, Excused
  <2> QED
    BY <1>0, <1>8, <2>1, <2>2, WakeKept DEF TimePasses
<1> QED
  BY <1>3, <1>4, <1>5, <1>6, <1>7, <1>8 DEF Elsewhere

\* Every step keeps what is said of wakes.
LEMMA WakeStep ==
    ASSUME TypeOK, LoopInv, WakeInv, TypeOK', [Next]_vars
    PROVE WakeInv'
<1>0. controller \in Controller /\ sched \in Loop
  BY DEF TypeOK
<1>1. CASE UNCHANGED <<controller, sched, work, clock, reader>>
  BY <1>1 DEF WakeInv, Excused
<1>2. CASE PassReads
  BY <1>1, <1>2 DEF PassReads, scanVars
<1>3. CASE PassEnds
  <2>1. controller'.kick
    <3>1. PICK left \in {"nothing", "work", "overflow"}, auto \in BOOLEAN :
              controller' = IF auto THEN Request(Release(controller, left), "history")
                            ELSE Release(controller, left)
      BY <1>3 DEF PassEnds
    <3>2. Release(controller, left) \in Controller
      BY <1>0, ControllerTyped
    <3> QED
      BY <1>0, <3>1, <3>2, PermitGiven
  <2>2. CASE pass.by # "scheduler"
    BY <1>3, <2>1, <2>2, WakeKept DEF PassEnds
  <2>3. CASE pass.by = "scheduler"
    <3>1. SchedulerResumes
      BY <1>3, <2>3 DEF PassEnds
    <3>2. CASE sched.at = "full" /\ Superseded
      BY <1>0, <2>1, <3>2 DEF WakeInv, Superseded, Loop
    <3>3. CASE sched.at # "full"
      BY <1>0, <2>1, <3>1, <3>3, ResumesAt DEF WakeInv, Loop
    <3> QED
      BY <3>1, <3>2, <3>3, ResumesAt
  <2> QED
    BY <2>2, <2>3
<1>4. CASE WakeOnKick \/ WakeOnTick \/ WakeOnDue
  <2>1. sched'.at = "wait" => Excused'
    BY <1>4, WakeIs DEF Excused
  <2> QED
    BY <1>4, <2>1, WakeIs DEF WakeInv
<1>5. CASE Launch
  <2>1. /\ controller'.burst = controller.burst /\ controller'.trigger = controller.trigger
        /\ controller'.refreshes = controller.refreshes /\ controller'.kick = controller.kick
    BY <1>0, <1>5 DEF Launch, Controller
  <2>2. sched.at = "launch" /\ sched'.at \in {"launch", "wait"} /\ UNCHANGED work
    BY <1>0, <1>5 DEF Launch, Loop, scanVars
  <2> QED
    BY <2>1, <2>2 DEF WakeInv, Excused
<1>6. CASE RefreshSources
  <2>0. sched.at = "refresh"
    BY <1>6 DEF RefreshSources
  <2>1. CASE /\ controller.refreshes = {} /\ UNCHANGED controller
             /\ sched' = [sched EXCEPT !.at = "decide"]
    BY <1>0, <2>0, <2>1 DEF WakeInv, Excused, Loop
  <2>2. CASE /\ controller' = [controller EXCEPT !.refreshes = {}, !.cancel = FALSE]
             /\ sched' = [sched EXCEPT !.at = "source"]
    BY <1>0, <2>0, <2>2 DEF WakeInv, Excused, Loop, Controller
  <2>3. CASE /\ controller' = [controller EXCEPT !.kick = TRUE]
             /\ sched' = [sched EXCEPT !.at = "wait", !.over = FALSE, !.tick = FALSE]
    BY <1>0, <2>0, <2>3 DEF WakeInv, Loop, Controller
  <2> QED
    BY <1>6, <2>1, <2>2, <2>3 DEF RefreshSources
<1>7. CASE Decide
  <2>0. sched.at = "decide"
    BY <1>7 DEF Decide
  <2> DEFINE taken == [controller EXCEPT !.trigger = None]
  <2>1. /\ taken \in Controller /\ taken.trigger = None /\ taken.burst = controller.burst
        /\ taken.refreshes = controller.refreshes /\ taken.kick = controller.kick
    BY <1>0 DEF Controller
  <2>2. CASE /\ controller' = [taken EXCEPT !.cancel = FALSE]
             /\ sched' = [sched EXCEPT !.at = "full"]
    BY <1>0, <2>0, <2>2 DEF WakeInv, Excused, Loop, Controller
  <2>3. CASE controller' = Request(taken, "history") /\ Superseded
    <3>1. controller'.kick
      BY <2>1, <2>3, PermitGiven
    <3> QED
      BY <1>0, <2>3, <3>1 DEF WakeInv, Superseded, Loop
  <2>4. CASE controller' = taken /\ Superseded
    <3> HIDE DEF taken
    <3> QED
      BY <1>0, <2>0, <2>1, <2>4 DEF WakeInv, Excused, Superseded, Loop
  <2>5. CASE /\ controller.trigger = None /\ UNCHANGED controller
             /\ sched' = [sched EXCEPT !.at = "retrying", !.jobs = LanesOf(work.retry)]
    BY <1>0, <2>0, <2>5 DEF WakeInv, Excused, Loop
  <2> QED
    BY <1>7, <2>2, <2>3, <2>4, <2>5 DEF Decide
<1>8. CASE RunLane
  <2>1. /\ controller'.burst = controller.burst /\ controller'.trigger = controller.trigger
        /\ controller'.refreshes = controller.refreshes /\ controller'.kick = controller.kick
    BY <1>0, <1>8 DEF RunLane, Controller
  <2>2. /\ sched.at \in {"retrying", "admitted"} /\ sched'.at = sched.at /\ UNCHANGED clock
        /\ work'.pending = work.pending
    BY <1>0, <1>8 DEF RunLane, Loop, TypeOK
  <2> QED
    BY <2>1, <2>2 DEF WakeInv, Excused
<1>9. CASE AdmitWork
  <2> DEFINE now == RunNow(work.pending)
             later == Deferred(work.pending)
  <2>1. work.pending \in ScopedWork /\ clock \in Clock
    BY DEF TypeOK
  <2>2. later # NoWork => EarliestDue(later) # None
    BY <2>1, EarliestDueTyped
  <2>3. Stamp(clock, now) \in Clock
    BY <2>1, NowTyped, StampTyped
  <2>4. /\ sched.at = "retrying" /\ UNCHANGED controller
        /\ sched' = [sched EXCEPT !.at = "admitted", !.jobs = LanesOf(now)]
        /\ work' = [work EXCEPT !.pending = later]
        /\ clock' = [Stamp(clock, now) EXCEPT !.due = EarliestDue(later)]
    BY <1>9 DEF AdmitWork
  <2> HIDE DEF now, later
  <2>5. sched'.at = "admitted" /\ work'.pending = later /\ clock'.due = EarliestDue(later)
    BY <1>0, <2>3, <2>4 DEF Loop, TypeOK, Clock
  <2> QED
    BY <2>2, <2>4, <2>5 DEF WakeInv, Excused
<1>10. CASE ArmDeferred
  <2>1. /\ sched.at = "admitted" /\ sched'.at = "wait" /\ UNCHANGED <<controller, work>>
        /\ clock' = IF work.retry = NoWork THEN clock ELSE [clock EXCEPT !.due = 0]
    BY <1>0, <1>10 DEF ArmDeferred, Loop
  <2>2. work.retry # NoWork => clock'.due # None
    BY <2>1, NoneAssumption DEF TypeOK, Clock
  <2> QED
    BY <2>1, <2>2 DEF WakeInv, Excused
<1>11. ASSUME NEW history \in BOOLEAN, CommandScan(history)
       PROVE WakeInv'
  <2>1. UNCHANGED <<sched, work, clock, reader>>
    BY <1>11 DEF CommandScan, scanVars
  <2>2. CASE controller' = [controller EXCEPT !.cancel = FALSE]
    <3>1. /\ controller'.burst = controller.burst /\ controller'.trigger = controller.trigger
          /\ controller'.refreshes = controller.refreshes /\ controller'.kick = controller.kick
      BY <1>0, <2>2 DEF Controller
    <3> QED
      BY <2>1, <3>1, WakeKept DEF Excused
  <2>3. CASE controller' = Request(controller, "history")
    <3>1. controller'.kick
      BY <1>0, <2>3, PermitGiven
    <3> QED
      BY <2>1, <3>1, WakeKept
  <2> QED
    BY <1>11, <2>2, <2>3 DEF CommandScan
<1> QED
  BY <1>1, <1>2, <1>3, <1>4, <1>5, <1>6, <1>7, <1>8, <1>9, <1>10, <1>11, NextCases,
     ElsewhereWakes DEF vars

-----------------------------------------------------------------------------
(* Where a change waits.                                                        *)

\* The loop has the change in hand.
InHand(s) ==
    \/ sched.over
    \/ s \in ScopeOf(work.pending) \cup ScopeOf(work.retry)
    \/ \E i \in DOMAIN sched.jobs : s \in ScopeOf(sched.jobs[i]) /\ ~ (i = 1 /\ Reading)

\* A held change is in a burst or in hand.
LEMMA HeldIs == \A s : Held(s) <=> InBurst(s) \/ InHand(s)
  BY DEF Held, InBurst, InHand

\* The same of the next state.
LEMMA HeldIsNext == \A s : Held(s)' <=> InBurst(s)' \/ InHand(s)'
  BY DEF Held, InBurst, InHand

\* A step after which the sources that wait are no more than before, and each of
\* them is still in a burst or in hand.
LEMMA HeldKept ==
    ASSUME NoSilentLoss,
           \A s \in dirty' \ adrift' : s \in dirty \ adrift,
           \A s \in dirty' \ adrift' :
               (InBurst(s) => InBurst(s)' \/ InHand(s)') /\ (InHand(s) => InBurst(s)' \/ InHand(s)')
    PROVE NoSilentLoss'
  BY HeldIs, HeldIsNext DEF NoSilentLoss

\* A step that leaves both bursts alone leaves what is in them.
LEMMA BurstSame ==
    ASSUME gathered' = gathered, controller'.burst = controller.burst
    PROVE \A s : InBurst(s) <=> InBurst(s)'
  BY DEF InBurst

\* A burst that is merged with another keeps what it has.
LEMMA MergeKeeps ==
    ASSUME NEW b \in WatchBurst \cup {None}, NEW paths \in SUBSET Sources,
           NEW over \in BOOLEAN
    PROVE LET m == MergeBurst(Burst(b), paths, over)
          IN /\ m # None
             /\ m.paths = Burst(b).paths \cup paths
             /\ m.overflowed = (Burst(b).overflowed \/ over)
<1> DEFINE m == MergeBurst(Burst(b), paths, over)
<1>1. Burst(b) \in WatchBurst
  BY DEF Burst, NoBurst, WatchBurst
<1>2. m \in WatchBurst
  BY <1>1 DEF MergeBurst, WatchBurst
<1> QED
  BY <1>2, NoneAssumption DEF MergeBurst

\* A change that the watcher sees is in the burst it gathers.
LEMMA ChangeHeld ==
    ASSUME TypeOK, NEW t \in Sources, Change(t), NEW s \in dirty' \ adrift'
    PROVE /\ s \notin dirty \ adrift => InBurst(s)'
          /\ InBurst(s) => InBurst(s)'
<1>0. UNCHANGED controller /\ gathered \in WatchBurst \cup {None} /\ {t} \in SUBSET Sources
      /\ {} \in SUBSET Sources
  BY DEF Change, TypeOK
<1>1. CASE gathered' = MergeBurst(Burst(gathered), {t}, FALSE) /\ UNCHANGED adrift
  <2>1. /\ gathered' # None /\ gathered'.paths = Burst(gathered).paths \cup {t}
        /\ Burst(gathered).overflowed => gathered'.overflowed
    BY <1>0, <1>1, MergeKeeps
  <2>2. s = t \/ s \in dirty \ adrift
    BY <1>1 DEF Change
  <2> QED
    BY <1>0, <2>1, <2>2 DEF InBurst, Burst
<1>2. CASE gathered' = MergeBurst(Burst(gathered), {}, TRUE) /\ UNCHANGED adrift
  <2>1. gathered' # None /\ gathered'.overflowed
    BY <1>0, <1>2, MergeKeeps
  <2> QED
    BY <2>1 DEF InBurst
<1>3. CASE adrift' = adrift \cup {t} /\ UNCHANGED gathered
  BY <1>0, <1>3 DEF Change, InBurst
<1> QED
  BY <1>1, <1>2, <1>3 DEF Change

\* The steps of others lose nothing that is in a burst.
LEMMA ElsewhereHeld ==
    ASSUME TypeOK, Elsewhere, NEW s \in dirty' \ adrift'
    PROVE /\ s \notin dirty \ adrift => InBurst(s)'
          /\ InBurst(s) => InBurst(s)'
<1>0. controller \in Controller
  BY DEF TypeOK
<1>1. CASE /\ UNCHANGED <<dirty, adrift, gathered>>
           /\ controller'.burst = controller.burst
  BY <1>1, BurstSame
<1>2. CASE \E t \in Sources : Change(t)
  BY <1>2, ChangeHeld
<1>3. CASE IgnoredEvent
  <2>1. UNCHANGED <<dirty, adrift, controller>> /\ gathered = None
    BY <1>3 DEF IgnoredEvent
  <2> QED
    BY <2>1 DEF InBurst
<1>4. CASE DebouncePushes
  <2>1. /\ gathered # None /\ UNCHANGED <<dirty, adrift>>
        /\ controller' = PushBurst(controller, gathered)
    BY <1>4 DEF DebouncePushes
  <2>2. gathered \in WatchBurst /\ controller.burst \in WatchBurst \cup {None}
    BY <2>1 DEF TypeOK, Controller
  <2>3. controller'.burst = MergeBurst(Burst(controller.burst), gathered.paths, gathered.overflowed)
    BY <1>0, <2>1 DEF PushBurst, Controller
  <2>4. gathered.paths \in SUBSET Sources /\ gathered.overflowed \in BOOLEAN
    BY <2>2 DEF WatchBurst
  <2>5. /\ controller'.burst # None
        /\ controller'.burst.paths = Burst(controller.burst).paths \cup gathered.paths
        /\ controller'.burst.overflowed =
               (Burst(controller.burst).overflowed \/ gathered.overflowed)
    BY <2>2, <2>3, <2>4, MergeKeeps
  <2> QED
    BY <2>1, <2>5 DEF InBurst, Burst
<1>5. CASE RequestScan \/ BacklogDrains \/ ResumeRequests
  <2>1. controller'.burst = controller.burst
    BY <1>0, <1>5 DEF RequestScan, BacklogDrains, ResumeRequests, Request, Controller
  <2> QED
    BY <1>1, <1>5, <2>1 DEF RequestScan, BacklogDrains, ResumeRequests
<1>6. CASE (\E a \in Agents : RequestSourceRefresh(a)) \/ CancelStores
  <2>1. controller'.burst = controller.burst
    BY <1>0, <1>6 DEF RequestSourceRefresh, CancelStores, Controller
  <2> QED
    BY <1>1, <1>6, <2>1 DEF RequestSourceRefresh, CancelStores
<1>7. CASE CancelChecks \/ Pause \/ ResumeSaves \/ TimePasses
  BY <1>1, <1>7 DEF CancelChecks, Pause, ResumeSaves, TimePasses
<1>8. CASE LivePoll
  <2>1. PICK S \in (SUBSET Polled) \ {{}}, over \in BOOLEAN :
            /\ controller' = PushBurst(controller, [paths |-> IF over THEN {} ELSE S,
                                                    overflowed |-> over])
            /\ adrift' = adrift \ S
    BY <1>8 DEF LivePoll
  <2> DEFINE P == IF over THEN {} ELSE S
  <2>2. P \in SUBSET Sources /\ controller.burst \in WatchBurst \cup {None}
    BY <1>0 DEF Polled, Controller
  <2>3. controller'.burst = MergeBurst(Burst(controller.burst), P, over)
    BY <1>0, <2>1 DEF PushBurst, Controller
  <2>4. /\ controller'.burst # None
        /\ controller'.burst.paths = Burst(controller.burst).paths \cup P
        /\ controller'.burst.overflowed = (Burst(controller.burst).overflowed \/ over)
    BY <2>2, <2>3, MergeKeeps
  <2>5. UNCHANGED <<dirty, gathered>>
    BY <1>8 DEF LivePoll
  <2>6. InBurst(s) => InBurst(s)'
    BY <2>4, <2>5 DEF InBurst, Burst
  <2>7. ASSUME s \in S PROVE InBurst(s)'
    BY <2>4, <2>7 DEF InBurst
  <2> QED
    BY <2>1, <2>5, <2>6, <2>7
<1> QED
  BY <1>2, <1>3, <1>4, <1>5, <1>6, <1>7, <1>8 DEF Elsewhere

\* What classify_burst makes of a path has the path in its scope.
LEMMA ClassifiedScope ==
    ASSUME NEW paths \in SUBSET Sources, NEW s \in paths
    PROVE s \in ScopeOf(ClassifyBurst(paths))
<1> DEFINE w == ClassifyBurst(paths)
           owners(lane) == {AgentOf[p] : p \in {q \in paths : Lane[q] = lane}}
<1>1. Lane[s] \in {"sessions", "titles", "agents", "db", "quiet"} /\ s \in Sources
  BY ScanAssumption
<1>2. /\ w.sessions = {p \in paths : Lane[p] = "sessions"}
      /\ w.titles = owners("titles") \ (owners("agents") \cup (owners("db") \ owners("agents")))
      /\ w.agents = owners("agents")
      /\ w.db = owners("db") \ owners("agents")
      /\ w.quiet = owners("quiet") \ (owners("agents") \cup (owners("db") \ owners("agents")))
  BY DEF ClassifyBurst
<1>3. \A lane : Lane[s] = lane => AgentOf[s] \in owners(lane)
  OBVIOUS
<1> HIDE DEF w, owners
<1>4. \/ s \in w.sessions \/ AgentOf[s] \in Rediscovered(w)
      \/ Lane[s] = "titles" /\ AgentOf[s] \in w.titles
  <2>1. CASE Lane[s] = "sessions"
    BY <1>2, <2>1
  <2>2. CASE Lane[s] # "sessions"
    BY <1>1, <1>2, <1>3, <2>2 DEF Rediscovered
  <2> QED
    BY <2>1, <2>2
<1>5. s \in ScopeOf(w)
  BY <1>1, <1>4 DEF ScopeOf
<1> QED
  BY <1>5 DEF w

\* Merged work has the scope of both parts.
LEMMA MergeScope ==
    ASSUME NEW a \in ScopedWork, NEW b \in ScopedWork
    PROVE ScopeOf(a) \cup ScopeOf(b) \subseteq ScopeOf(MergeWork(a, b))
<1> DEFINE m == MergeWork(a, b)
<1>1. /\ m.sessions = a.sessions \cup b.sessions /\ m.titles = a.titles \cup b.titles
      /\ m.agents = a.agents \cup b.agents /\ m.db = a.db \cup b.db
      /\ m.quiet = a.quiet \cup b.quiet
  BY DEF MergeWork, NoWork
<1> HIDE DEF m
<1>2. ScopeOf(a) \cup ScopeOf(b) \subseteq ScopeOf(m)
  BY <1>1 DEF ScopeOf, Rediscovered
<1> QED
  BY <1>2 DEF m

\* Work is what runs now and what is deferred.
LEMMA AdmitScope ==
    ASSUME TypeOK, NEW w \in ScopedWork
    PROVE ScopeOf(w) \subseteq ScopeOf(RunNow(w)) \cup ScopeOf(Deferred(w))
<1> DEFINE now == RunNow(w)
           later == Deferred(w)
           lanes == {"sessions", "titles", "agents", "db", "quiet"}
<1>1. DOMAIN w = lanes
  BY DEF ScopedWork
<1>2. ASSUME NEW lane \in lanes, NEW i \in w[lane]
      PROVE i \in now[lane] \/ i \in later[lane]
  <2>1. AgeOf(lane, i) \in Nat /\ FloorOf(lane) \in Nat
    BY <1>1, AgeTyped
  <2>2. AgeOf(lane, i) >= FloorOf(lane) \/ AgeOf(lane, i) < FloorOf(lane)
    BY <2>1
  <2> QED
    BY <1>1, <2>2 DEF RunNow, Deferred
<1> HIDE DEF now, later
<1>3. /\ w.sessions \subseteq now.sessions \cup later.sessions
      /\ w.titles \subseteq now.titles \cup later.titles
      /\ w.agents \subseteq now.agents \cup later.agents
      /\ w.db \subseteq now.db \cup later.db
      /\ w.quiet \subseteq now.quiet \cup later.quiet
  BY <1>2
<1>4. ScopeOf(w) \subseteq ScopeOf(now) \cup ScopeOf(later)
  BY <1>3 DEF ScopeOf, Rediscovered
<1> QED
  BY <1>4 DEF now, later

\* A wake takes the burst into the scoped work, remembers an overflow, or leaves the
\* changes to the tick.
LEMMA WokenHeld ==
    ASSUME TypeOK, LoopInv, NoSilentLoss, NEW c \in Controller, NEW k, NEW tick,
           c.burst = controller.burst, Woken(c, k, tick), sched.at = "wait"
    PROVE NoSilentLoss'
<1> DEFINE burst == Burst(c.burst)
           classified == IF burst.overflowed THEN NoWork ELSE ClassifyBurst(burst.paths)
<1>1. /\ controller' = [c EXCEPT !.burst = None]
      /\ \/ /\ sched' = [sched EXCEPT !.blind = ~ reader.paused]
            /\ adrift' = adrift \cup (IF burst.overflowed THEN dirty ELSE burst.paths \cap dirty)
            /\ UNCHANGED work
         \/ /\ work' = [work EXCEPT !.pending = MergeWork(@, classified)]
            /\ sched' = [sched EXCEPT !.at = "refresh", !.tick = tick,
                                       !.over = burst.overflowed, !.blind = FALSE]
            /\ UNCHANGED adrift
      /\ UNCHANGED <<dirty, gathered, pass>>
  BY DEF Woken
<1>2. burst \in WatchBurst /\ burst.paths \in SUBSET Sources /\ burst.overflowed \in BOOLEAN
  BY ControllerTyped DEF WatchBurst
<1>3. classified \in ScopedWork
  BY <1>2, WorkTyped
<1>4. ~ sched.over /\ sched.jobs = <<>> /\ sched \in Loop
  BY DEF LoopInv, TypeOK
<1> HIDE DEF burst, classified
<1>5. SUFFICES ASSUME NEW s \in dirty' \ adrift'
               PROVE InBurst(s)' \/ InHand(s)'
  BY HeldIsNext DEF NoSilentLoss
<1>6. s \in dirty \ adrift /\ s \in Sources
  BY <1>1 DEF TypeOK
<1>7. InBurst(s) \/ InHand(s)
  BY <1>6, HeldIs DEF NoSilentLoss
<1>8. CASE \E b \in {gathered} \ {None} : s \in b.paths \/ b.overflowed
  BY <1>1, <1>8 DEF InBurst
<1>9. CASE s \in ScopeOf(work.pending) \cup ScopeOf(work.retry)
  <2>1. CASE UNCHANGED work
    BY <1>9, <2>1 DEF InHand
  <2>2. CASE work' = [work EXCEPT !.pending = MergeWork(@, classified)]
    <3>1. work.pending \in ScopedWork
      BY DEF TypeOK
    <3>2. work'.pending = MergeWork(work.pending, classified) /\ work'.retry = work.retry
      BY <2>2 DEF TypeOK
    <3> QED
      BY <1>3, <1>9, <3>1, <3>2, MergeScope DEF InHand
  <2> QED
    BY <1>1, <2>1, <2>2
<1>10. CASE c.burst # None /\ (s \in burst.paths \/ burst.overflowed)
  <2>1. work' = [work EXCEPT !.pending = MergeWork(@, classified)] /\ sched'.over = burst.overflowed
    BY <1>1, <1>4, <1>6, <1>10 DEF Loop
  <2>2. CASE burst.overflowed
    BY <2>1, <2>2 DEF InHand
  <2>3. CASE ~ burst.overflowed
    <3>1. s \in ScopeOf(ClassifyBurst(burst.paths))
      BY <1>2, <1>10, <2>3, ClassifiedScope
    <3>2. s \in ScopeOf(classified)
      BY <2>3, <3>1 DEF classified
    <3>3. work.pending \in ScopedWork /\ work'.pending = MergeWork(work.pending, classified)
      BY <2>1 DEF TypeOK
    <3> QED
      BY <1>3, <3>2, <3>3, MergeScope DEF InHand
  <2> QED
    BY <2>2, <2>3
<1>11. InHand(s) => s \in ScopeOf(work.pending) \cup ScopeOf(work.retry)
  BY <1>4 DEF InHand
<1>12. InBurst(s) => \/ \E b \in {gathered} \ {None} : s \in b.paths \/ b.overflowed
                     \/ c.burst # None /\ (s \in burst.paths \/ burst.overflowed)
  BY DEF InBurst, burst, Burst
<1> QED
  BY <1>7, <1>8, <1>9, <1>10, <1>11, <1>12

\* What Charge is at the points of the loop that have work in hand.
LEMMA ChargeIs ==
    ASSUME TypeOK
    PROVE /\ sched.at \in {"decide", "full"} =>
                Charge = IF sched.over THEN dirty
                         ELSE dirty \cap (ScopeOf(work.pending) \cup ScopeOf(work.retry))
          /\ sched.at \in {"retrying", "admitted"} =>
                Charge = dirty \cap ScopeOf(Head(sched.jobs))
  BY Zenon DEF Charge

\* The lanes behind the first one stay in hand when the first one is done.
LEMMA TailInHand ==
    ASSUME TypeOK, sched.jobs # <<>>, sched'.jobs = Tail(sched.jobs), ~ Reading',
           NEW i \in DOMAIN sched.jobs, i # 1, NEW s, s \in ScopeOf(sched.jobs[i])
    PROVE InHand(s)'
<1>1. sched.jobs \in Seq(ScopedWork)
  BY DEF TypeOK, Loop
<1>2. i - 1 \in DOMAIN sched'.jobs /\ sched'.jobs[i - 1] = sched.jobs[i]
  BY <1>1
<1> QED
  BY <1>2 DEF InHand

\* The end of a pass drops only work that the pass has described or that was left to
\* the tick.
LEMMA PassEndsHeld ==
    ASSUME TypeOK, LoopInv, FullInv, NoSilentLoss, PassEnds
    PROVE NoSilentLoss'
<1>1. PICK left \in {"nothing", "work", "overflow"}, auto \in BOOLEAN,
           part \in SUBSET Sources :
          /\ dirty' = dirty \ part
          /\ adrift' = (IF pass.by = "scheduler" /\ ~ pass.read
                        THEN adrift \cup Charge ELSE adrift) \ part
          /\ controller' = IF auto THEN Request(Release(controller, left), "history")
                           ELSE Release(controller, left)
  BY DEF PassEnds, Describe, TypeOK
<1>2. pass # None /\ pass' = None /\ gathered' = gathered /\ ~ Reading'
  BY DEF PassEnds, Reading
<1>3. controller'.burst = controller.burst
  <2>0. controller \in Controller
    BY DEF TypeOK
  <2>1. Release(controller, left).burst = controller.burst
    BY <2>0 DEF Release, Request, Controller
  <2>2. Release(controller, left) \in Controller
    BY <2>0, ControllerTyped
  <2>3. \A d \in Controller : Request(d, "history").burst = d.burst
    BY DEF Request, Controller
  <2> QED
    BY <1>1, <2>1, <2>2, <2>3
<1>4. SUFFICES ASSUME NEW s \in dirty' \ adrift'
               PROVE InBurst(s)' \/ InHand(s)'
  BY HeldIsNext DEF NoSilentLoss
<1>5. /\ s \in dirty \ adrift
      /\ pass.by = "scheduler" /\ ~ pass.read => s \notin Charge
  BY <1>1
<1>6. InBurst(s) \/ InHand(s)
  BY <1>5, HeldIs DEF NoSilentLoss
<1>7. CASE InBurst(s)
  BY <1>2, <1>3, <1>7, BurstSame
<1>8. CASE InHand(s) /\ pass.by # "scheduler"
  <2>1. UNCHANGED <<sched, work>>
    BY <1>8 DEF PassEnds
  <2> QED
    BY <1>2, <1>8, <2>1 DEF InHand
<1>9. CASE InHand(s) /\ pass.by = "scheduler"
  <2>1. SchedulerResumes /\ ~ Idle /\ sched \in Loop
    BY <1>2, <1>9 DEF PassEnds, Idle, TypeOK
  <2>2. CASE sched.at \in {"launch", "source"}
    <3>1. sched'.over = sched.over /\ UNCHANGED work /\ sched.jobs = <<>>
      BY <2>1, <2>2, ResumesAt DEF Loop, LoopInv
    <3> QED
      BY <1>9, <3>1 DEF InHand
  <2>3. CASE sched.at = "full"
    <3>1. sched.jobs = <<>>
      BY <2>3 DEF LoopInv
    <3>2. CASE pass.read
      <4>1. Reading
        BY <1>2, <1>9, <3>2 DEF Reading
      <4> QED
        BY <1>5, <1>7, <2>3, <4>1 DEF FullInv
    <3>3. CASE ~ pass.read
      <4>1. s \notin Charge
        BY <1>5, <1>9, <3>3
      <4> QED
        BY <1>5, <1>9, <2>3, <3>1, <4>1, ChargeIs DEF InHand
    <3> QED
      BY <3>2, <3>3
  <2>4. CASE sched.at \notin {"launch", "source", "full"}
    <3>1. sched' = [sched EXCEPT !.jobs = Tail(@)] /\ UNCHANGED work
      BY <2>1, <2>4, ResumesAt
    <3>2. sched'.jobs = Tail(sched.jobs) /\ sched'.over = sched.over
      BY <2>1, <3>1 DEF Loop
    <3>3. sched.at \in {"retrying", "admitted"} /\ sched.jobs # <<>>
      BY <2>1, <2>4 DEF LoopInv
    <3>4. CASE sched.over \/ s \in ScopeOf(work.pending) \cup ScopeOf(work.retry)
      BY <3>1, <3>2, <3>4 DEF InHand
    <3>5. ASSUME NEW i \in DOMAIN sched.jobs, s \in ScopeOf(sched.jobs[i]),
                 ~ (i = 1 /\ Reading)
          PROVE InHand(s)'
      <4>1. CASE i # 1
        BY <1>2, <3>2, <3>3, <3>5, <4>1, TailInHand
      <4>2. CASE i = 1
        <5>1. ~ pass.read
          BY <1>2, <1>9, <3>5, <4>2 DEF Reading
        <5>2. sched.jobs[1] = Head(sched.jobs)
          BY <3>3 DEF TypeOK, Loop
        <5> QED
          BY <1>5, <1>9, <3>3, <3>5, <4>2, <5>1, <5>2, ChargeIs
      <4> QED
        BY <4>1, <4>2
    <3> QED
      BY <1>9, <3>4, <3>5 DEF InHand
  <2> QED
    BY <2>2, <2>3, <2>4
<1> QED
  BY <1>6, <1>7, <1>8, <1>9

\* A step of the loop that leaves the bursts alone.
LEMMA LoopHeld ==
    ASSUME TypeOK, LoopInv, NoSilentLoss,
           Launch \/ RefreshSources \/ Decide \/ RunLane \/ AdmitWork \/ ArmDeferred
    PROVE NoSilentLoss'
<1>0. controller \in Controller /\ sched \in Loop /\ sched.jobs \in Seq(ScopedWork)
      /\ work.pending \in ScopedWork /\ work.retry \in ScopedWork
  BY DEF TypeOK, Loop
<1>1. gathered' = gathered /\ controller'.burst = controller.burst
  <2>1. CASE controller' = controller
    BY <2>1 DEF Launch, RefreshSources, Decide, RunLane, AdmitWork, ArmDeferred
  <2>2. CASE Decide
    <3> DEFINE taken == [controller EXCEPT !.trigger = None]
    <3>1. taken \in Controller /\ taken.burst = controller.burst
      BY <1>0 DEF Controller
    <3>2. \A d \in Controller : /\ Request(d, "history").burst = d.burst
                               /\ [d EXCEPT !.cancel = FALSE].burst = d.burst
      BY DEF Request, Controller
    <3>3. controller' \in {[taken EXCEPT !.cancel = FALSE], Request(taken, "history"), taken,
                           controller}
      BY <2>2 DEF Decide
    <3> HIDE DEF taken
    <3> QED
      BY <2>2, <3>1, <3>2, <3>3 DEF Decide
  <2>3. CASE Launch \/ RefreshSources \/ RunLane
    BY <1>0, <2>3 DEF Launch, RefreshSources, RunLane, Controller
  <2>4. CASE AdmitWork \/ ArmDeferred
    BY <2>1, <2>4 DEF AdmitWork, ArmDeferred
  <2> QED
    BY <2>2, <2>3, <2>4
<1>2. UNCHANGED dirty /\ adrift \subseteq adrift'
  BY DEF Launch, RefreshSources, Decide, RunLane, AdmitWork, ArmDeferred
<1>3. ~ Reading'
  <2>1. Idle
    BY DEF Launch, RefreshSources, Decide, RunLane, AdmitWork, ArmDeferred, LoopInv
  <2>2. CASE UNCHANGED pass
    BY <2>1, <2>2 DEF Idle, Reading
  <2>3. CASE \E by, scope, history, whole : StartPass(by, scope, history, whole)
    BY <2>3 DEF StartPass, Reading
  <2> QED
    BY <2>2, <2>3 DEF Launch, RefreshSources, Decide, RunLane, AdmitWork, ArmDeferred,
                      StartFullPass
<1>4. SUFFICES ASSUME NEW s \in dirty \ adrift', InHand(s)
               PROVE InHand(s)'
  BY <1>1, <1>2, HeldKept, BurstSame
<1>5. s \in dirty /\ s \in Sources
  BY DEF TypeOK
<1>6. CASE sched'.over = sched.over /\ sched'.jobs = sched.jobs /\ UNCHANGED work
  BY <1>3, <1>4, <1>6 DEF InHand
<1>7. CASE Launch
  <2>1. sched'.over = sched.over /\ sched'.jobs = sched.jobs
    BY <1>0, <1>7 DEF Launch, Loop
  <2> QED
    BY <1>6, <1>7, <2>1 DEF Launch, scanVars
<1>8. CASE RefreshSources
  <2>1. sched'.jobs = sched.jobs /\ UNCHANGED work
    BY <1>0, <1>8 DEF RefreshSources, Loop, scanVars
  <2>2. CASE \/ sched' = [sched EXCEPT !.at = "decide"]
             \/ sched' = [sched EXCEPT !.at = "source"]
    <3>1. sched'.over = sched.over
      BY <1>0, <2>2 DEF Loop
    <3> QED
      BY <1>6, <2>1, <3>1
  <2>3. CASE /\ sched' = [sched EXCEPT !.at = "wait", !.over = FALSE, !.tick = FALSE]
             /\ adrift' = IF sched.over THEN adrift \cup dirty ELSE adrift
    <3>1. ~ sched.over
      BY <1>4, <1>5, <2>3
    <3> QED
      BY <1>3, <1>4, <2>1, <3>1 DEF InHand
  <2> QED
    BY <1>8, <2>2, <2>3 DEF RefreshSources
<1>9. CASE Decide
  <2>0. sched.at = "decide" /\ sched.jobs = <<>>
    BY <1>9 DEF Decide, LoopInv
  <2>1. CASE sched' = [sched EXCEPT !.at = "full"] /\ UNCHANGED work
    BY <1>0, <1>6, <2>1 DEF Loop
  <2>2. CASE adrift' = adrift \cup Charge
    <3>1. s \notin Charge
      BY <1>4, <2>2
    <3> QED
      BY <1>4, <1>5, <2>0, <3>1, ChargeIs DEF InHand
  <2>3. CASE /\ ~ sched.over
             /\ sched' = [sched EXCEPT !.at = "retrying", !.jobs = LanesOf(work.retry)]
             /\ work' = [work EXCEPT !.retry = NoWork]
    <3>1. sched'.jobs = LanesOf(work.retry) /\ work'.pending = work.pending
      BY <1>0, <2>3 DEF Loop, TypeOK
    <3>2. CASE s \in ScopeOf(work.pending)
      BY <3>1, <3>2 DEF InHand
    <3>3. CASE s \in ScopeOf(work.retry)
      BY <1>0, <1>3, <3>1, <3>3, LanesCover DEF InHand
    <3> QED
      BY <1>4, <2>0, <2>3, <3>2, <3>3 DEF InHand
  <2> QED
    BY <1>9, <2>1, <2>2, <2>3 DEF Decide
<1>10. CASE RunLane
  <2>1. CASE UNCHANGED <<sched, work>>
    BY <1>6, <2>1
  <2>2. CASE /\ sched' = [sched EXCEPT !.jobs = Tail(@)]
             /\ work' = [work EXCEPT !.retry = MergeWork(@, Head(sched.jobs))]
    <3>1. sched.jobs # <<>>
      BY <1>10 DEF RunLane
    <3>2. sched'.jobs = Tail(sched.jobs) /\ sched'.over = sched.over
      BY <1>0, <2>2 DEF Loop
    <3>3. work'.pending = work.pending /\ work'.retry = MergeWork(work.retry, Head(sched.jobs))
      BY <2>2 DEF TypeOK
    <3>4. Head(sched.jobs) \in ScopedWork /\ Head(sched.jobs) = sched.jobs[1]
      BY <1>0, <3>1
    <3>5. ScopeOf(work.retry) \cup ScopeOf(sched.jobs[1]) \subseteq ScopeOf(work'.retry)
      BY <1>0, <3>3, <3>4, MergeScope
    <3>6. CASE sched.over \/ s \in ScopeOf(work.pending) \cup ScopeOf(work.retry)
      BY <3>2, <3>3, <3>5, <3>6 DEF InHand
    <3>7. ASSUME NEW i \in DOMAIN sched.jobs, s \in ScopeOf(sched.jobs[i])
          PROVE InHand(s)'
      <4>1. CASE i = 1
        BY <3>5, <3>7, <4>1 DEF InHand
      <4>2. CASE i # 1
        BY <1>3, <3>1, <3>2, <3>7, <4>2, TailInHand
      <4> QED
        BY <4>1, <4>2
    <3> QED
      BY <1>4, <3>6, <3>7 DEF InHand
  <2> QED
    BY <1>10, <2>1, <2>2 DEF RunLane
<1>11. CASE AdmitWork
  <2>1. /\ ~ sched.over /\ sched.jobs = <<>>
        /\ sched' = [sched EXCEPT !.at = "admitted", !.jobs = LanesOf(RunNow(work.pending))]
        /\ work' = [work EXCEPT !.pending = Deferred(work.pending)]
    BY <1>11 DEF AdmitWork, LoopInv
  <2>2. /\ sched'.jobs = LanesOf(RunNow(work.pending))
        /\ work'.pending = Deferred(work.pending) /\ work'.retry = work.retry
    BY <1>0, <2>1 DEF Loop, TypeOK
  <2>3. CASE s \in ScopeOf(work.retry)
    BY <2>2, <2>3 DEF InHand
  <2>4. CASE s \in ScopeOf(work.pending)
    <3>1. CASE s \in ScopeOf(Deferred(work.pending))
      BY <2>2, <3>1 DEF InHand
    <3>2. CASE s \in ScopeOf(RunNow(work.pending))
      BY <1>0, <1>3, <2>2, <3>2, NowTyped, LanesCover DEF InHand
    <3> QED
      BY <1>0, <2>4, <3>1, <3>2, AdmitScope
  <2> QED
    BY <1>4, <2>1, <2>3, <2>4 DEF InHand
<1>12. CASE ArmDeferred
  <2>1. sched'.over = sched.over /\ sched'.jobs = sched.jobs
    BY <1>0, <1>12 DEF ArmDeferred, Loop
  <2> QED
    BY <1>6, <1>12, <2>1 DEF ArmDeferred
<1> QED
  BY <1>7, <1>8, <1>9, <1>10, <1>11, <1>12

\* Every step keeps each delivered change somewhere.
LEMMA HeldStep ==
    ASSUME TypeOK, LoopInv, FullInv, NoSilentLoss, TypeOK', LoopInv', [Next]_vars
    PROVE FullInv' /\ NoSilentLoss'
<1>1. CASE Elsewhere
  <2>1. UNCHANGED <<sched, pass, work>>
    BY <1>1, ElsewhereKeeps
  <2>2. \A s : InHand(s) <=> InHand(s)'
    BY <2>1 DEF InHand, Reading
  <2>3. NoSilentLoss'
    BY <1>1, <2>2, ElsewhereHeld, HeldIs, HeldIsNext DEF NoSilentLoss
  <2>4. FullInv'
    BY <1>1, <2>1, ElsewhereHeld DEF FullInv, Reading
  <2> QED
    BY <2>3, <2>4
<1>2. CASE PassReads
  <2>1. PICK hints \in {{}} \cup LiveHints :
            /\ dirty' = dirty \ (pass.scope \cup hints)
            /\ adrift' = adrift \ (pass.scope \cup hints)
    BY <1>2 DEF PassReads, Describe
  <2>2. UNCHANGED <<gathered, controller, sched, work>>
    BY <1>2 DEF PassReads, scanVars
  <2>3. ASSUME NEW s \in dirty' \ adrift', InHand(s)
        PROVE InHand(s)'
    <3>1. s \notin pass.scope
      BY <2>1
    <3>2. CASE sched.over \/ s \in ScopeOf(work.pending) \cup ScopeOf(work.retry)
      BY <2>2, <3>2 DEF InHand
    <3>3. ASSUME NEW i \in DOMAIN sched.jobs, s \in ScopeOf(sched.jobs[i])
          PROVE InHand(s)'
      <4>1. CASE ~ (i = 1 /\ Reading')
        BY <2>2, <3>3, <4>1 DEF InHand
      <4>2. CASE i = 1 /\ Reading'
        <5>1. ~ Idle
          BY <1>2, <4>2, PassReadsIs DEF Reading, Idle
        <5>2. sched.jobs # <<>> /\ sched.jobs \in Seq(ScopedWork)
          BY <3>3 DEF TypeOK, Loop
        <5>3. pass.scope = ScopeOf(Head(sched.jobs)) /\ Head(sched.jobs) = sched.jobs[1]
          BY <5>1, <5>2 DEF LoopInv
        <5> QED
          BY <3>1, <3>3, <4>2, <5>3
      <4> QED
        BY <4>1, <4>2
    <3> QED
      BY <2>3, <3>2, <3>3 DEF InHand
  <2>4. NoSilentLoss'
    BY <2>1, <2>2, <2>3, HeldKept, BurstSame
  <2>5. ASSUME sched'.at = "full", Reading'
        PROVE dirty' = {}
    <3>1. ~ Idle
      BY <1>2, <2>5, PassReadsIs DEF Reading, Idle
    <3>2. pass.scope = Sources
      BY <2>2, <2>5, <3>1 DEF LoopInv
    <3> QED
      BY <2>1, <3>2 DEF TypeOK
  <2> QED
    BY <2>4, <2>5 DEF FullInv
<1>3. CASE PassEnds
  <2>1. FullInv'
    BY <1>3 DEF PassEnds, FullInv, Reading
  <2> QED
    BY <1>3, <2>1, PassEndsHeld
<1>4. CASE WakeOnKick \/ WakeOnTick \/ WakeOnDue
  <2>1. FullInv'
    BY <1>4, WakeIs DEF FullInv
  <2>2. /\ controller \in Controller /\ [controller EXCEPT !.kick = FALSE] \in Controller
        /\ [controller EXCEPT !.kick = FALSE].burst = controller.burst
    BY DEF TypeOK, Controller
  <2>3. NoSilentLoss'
    BY <1>4, <2>2, WokenHeld DEF WakeOnKick, WakeOnTick, WakeOnDue
  <2> QED
    BY <2>1, <2>3
<1>5. CASE Launch \/ RefreshSources \/ Decide \/ RunLane \/ AdmitWork \/ ArmDeferred
  <2>1. sched'.at = "full" => ~ Reading'
    <3>1. sched \in Loop
      BY DEF TypeOK
    <3>2. CASE Decide
      <4>1. CASE \E history : StartFullPass("scheduler", history)
        BY <4>1 DEF StartFullPass, StartPass, Reading
      <4>2. CASE UNCHANGED pass /\ Idle
        BY <4>2 DEF Idle, Reading
      <4> QED
        BY <3>2, <4>1, <4>2 DEF Decide
    <3>3. CASE Launch \/ RefreshSources \/ RunLane \/ AdmitWork \/ ArmDeferred
      BY <3>1, <3>3 DEF Launch, RefreshSources, RunLane, AdmitWork, ArmDeferred, Loop
    <3> QED
      BY <1>5, <3>2, <3>3
  <2> QED
    BY <1>5, <2>1, LoopHeld DEF FullInv
<1>6. ASSUME NEW history \in BOOLEAN, CommandScan(history)
      PROVE FullInv' /\ NoSilentLoss'
  <2>1. UNCHANGED <<dirty, gathered, sched, work, adrift>>
    BY <1>6 DEF CommandScan, scanVars
  <2>2. controller'.burst = controller.burst
    BY <1>6 DEF CommandScan, Request, TypeOK, Controller
  <2>3. Reading' <=> Reading
    BY <1>6 DEF CommandScan, StartFullPass, StartPass, Reading
  <2>4. \A s : InHand(s) <=> InHand(s)'
    BY <2>1, <2>3 DEF InHand
  <2> QED
    BY <2>1, <2>2, <2>3, <2>4, BurstSame, HeldKept DEF FullInv
<1>7. CASE UNCHANGED vars
  BY <1>7 DEF vars, FullInv, NoSilentLoss, Held, InBurst, Reading
<1> QED
  BY <1>1, <1>2, <1>3, <1>4, <1>5, <1>6, <1>7, NextCases

-----------------------------------------------------------------------------
(* The theorems.                                                                *)

\* The invariant holds at the start.
LEMMA InitScan == Init => ScanInv
<1> SUFFICES ASSUME Init PROVE ScanInv
  OBVIOUS
<1>1. TypeOK
  BY InitTyped
<1>2. LoopInv /\ LaneInv /\ CoverInv /\ WakeInv /\ FullInv
  BY DEF Init, LoopInv, LaneInv, CoverInv, WakeInv, FullInv, Idle, Reading
<1>3. HistoryKept /\ CoverHonest /\ NoSilentLoss
  BY DEF Init, HistoryKept, CoverHonest, NoSilentLoss
<1> QED
  BY <1>1, <1>2, <1>3 DEF ScanInv

\* The invariant is inductive.
LEMMA StepScan == ScanInv /\ [Next]_vars => ScanInv'
<1> SUFFICES ASSUME ScanInv, [Next]_vars PROVE ScanInv'
  OBVIOUS
<1>0. /\ TypeOK /\ LoopInv /\ LaneInv /\ CoverInv /\ WakeInv /\ FullInv
      /\ HistoryKept /\ CoverHonest /\ NoSilentLoss
  BY DEF ScanInv
<1>1. TypeOK'
  BY <1>0, TypeStep
<1>2. LoopInv'
  BY <1>0, <1>1, LoopStep
<1>3. LaneInv' /\ WakeInv'
  BY <1>0, <1>1, LaneStep, WakeStep
<1>4. CoverInv' /\ CoverHonest' /\ HistoryKept'
  BY <1>0, CoverStep, HistoryStep
<1>5. FullInv' /\ NoSilentLoss'
  BY <1>0, <1>1, <1>2, HeldStep
<1> QED
  BY <1>1, <1>2, <1>3, <1>4, <1>5 DEF ScanInv

\* The inductive invariant of the scheduler: types, the point of the loop, pure lanes,
\* honest covers, permits for everything that waits, and nothing delivered forgotten.
THEOREM ScanInvAlways == Spec => []ScanInv
  BY InitScan, StepScan, PTL DEF Spec

\* A change that the watcher delivered waits in a burst, in the scoped work or as an
\* overflow until a pass describes it, except where spawn_scheduler leaves it to the
\* tick: for every number of sources, whatever passes, floors and failures do.
THEOREM NoSilentLossAlways == Spec => []NoSilentLoss
<1>1. ScanInv => NoSilentLoss
  BY DEF ScanInv
<1> QED
  BY <1>1, ScanInvAlways, PTL

\* The loop of spawn_scheduler never waits on a burst, a trigger or a refresh without
\* the permit of the kick, nor on scoped work without a due time.
THEOREM NeverSleepsOnScanAlways == Spec => []NeverSleepsOnScan
<1>1. ScanInv => NeverSleepsOnScan
  BY DEF ScanInv, WakeInv, Excused, NeverSleepsOnScan
<1> QED
  BY <1>1, ScanInvAlways, PTL

\* Anonymous activity leaves the ledger only with a pass that described the change
\* behind it (AnonymousLedger, pass_covers).
THEOREM CoverHonestAlways == Spec => []CoverHonest
<1>1. ScanInv => CoverHonest
  BY DEF ScanInv
<1> QED
  BY <1>1, ScanInvAlways, PTL

\* A historical pass that was requested stays the pending trigger until one starts
\* (ScanController::request).
THEOREM HistoryKeptAlways == Spec => []HistoryKept
<1>1. ScanInv => HistoryKept
  BY DEF ScanInv
<1> QED
  BY <1>1, ScanInvAlways, PTL
=============================================================================
