------------------------- MODULE ForwardSync_proofs -------------------------
(***************************************************************************)
(* Proofs about ForwardSync: its type invariant, and that the cursor       *)
(* passes only what was sent or is excused, for any number of schedulers,  *)
(* targets and entries, whatever fails and restarts.                       *)
(***************************************************************************)
EXTENDS ForwardSync, FiniteSetTheorems, NaturalsInduction, WellFoundedInduction, TLAPS

\* The definitions below say their state, so that the next one can be meant.
Last(ss) == IF ss = <<>> THEN 0 ELSE ss[Len(ss)]
Pushed(e, ss) ==
  (\E f \in (1 .. Len(ss)) \ {e} : ss[f] = ss[e]) \/ Len(ss) - e >= Page

\* The times of the trail grow, by one at most.
Trail(ss) ==
  /\ ss \in Seq(Stamp \ {0}) /\ Len(ss) <= MaxLogged
  /\ \A e, f \in 1 .. Len(ss) : e <= f => ss[e] <= ss[f]
  /\ \A e \in 1 .. Len(ss) : ss[e] <= e

\* Entries that need not be sent any more: that were, or that a pod is without.
Done == served \cup lost

\* A cursor that is not ahead of the trail, and has passed nothing unsent.
Good(c, ss, sv) ==
  /\ c \in Nat /\ c <= Last(ss)
  /\ \A e \in 1 .. Len(ss) : ss[e] <= c => e \in sv \/ Pushed(e, ss)

\* What a writer holds: a good cursor; a batch that, once sent, makes a good
\* cursor of its newest time; such a time.
Sound(t, ss, sv) ==
  /\ Good(t.cfg.cursor, ss, sv)
  /\ t.at = "send" => t.batch \subseteq 1 .. Len(ss) /\ Good(t.newest, ss, sv \cup t.batch)
  /\ t.at = "record" => Good(t.newest, ss, sv)

\* What a pod does not list is lost.
Listable == \A p \in Pods : Logged \ trail[p] \subseteq lost

ForwardInv ==
  /\ ForwardTypeOK /\ Trail(stamps) /\ Listable
  /\ Good(conf.cursor, stamps, Done)
  /\ \A w \in Writers : Sound(task[w], stamps, Done)

-----------------------------------------------------------------------------
LEMMA GoodZero == ASSUME NEW ss, Trail(ss), NEW sv PROVE Good(0, ss, sv)
<1>1. Len(ss) \in Nat /\ \A e \in 1 .. Len(ss) : ss[e] \in Stamp \ {0}
  BY DEF Trail
<1>2. \A e \in 1 .. Len(ss) : ss[e] \in Nat /\ ss[e] # 0
  BY <1>1, ForwardAssumption DEF Stamp
<1>3. ss # <<>> => Len(ss) \in 1 .. Len(ss)
  BY DEF Trail
<1> QED BY <1>2, <1>3 DEF Good, Last

\* What was sent stays sent.
LEMMA GoodMore ==
  ASSUME NEW c, NEW ss, NEW sv, NEW more, Good(c, ss, sv), sv \subseteq more
  PROVE  Good(c, ss, more)
BY DEF Good

\* A new entry is after every cursor, or shares its time with another.
LEMMA GoodLogged ==
  ASSUME NEW c, NEW ss, NEW sv, Trail(ss), Good(c, ss, sv),
         NEW t \in Stamp \ {0}, t \in {Last(ss), Last(ss) + 1}
  PROVE  Good(c, Append(ss, t), sv)
<1> DEFINE tt == Append(ss, t)
<1>1. /\ Len(ss) \in Nat /\ Len(tt) = Len(ss) + 1 /\ tt[Len(ss) + 1] = t
      /\ \A e \in 1 .. Len(ss) : tt[e] = ss[e] /\ ss[e] \in Nat
      /\ t \in Nat /\ tt # <<>>
  <2>1. ss \in Seq(Stamp \ {0}) /\ Stamp \ {0} \subseteq Nat
    BY ForwardAssumption DEF Trail, Stamp
  <2>2. /\ Len(ss) \in Nat /\ Len(tt) = Len(ss) + 1 /\ tt[Len(ss) + 1] = t
        /\ \A e \in 1 .. Len(ss) : tt[e] = ss[e]
    BY <2>1
  <2>3. tt # <<>>
    BY <2>1
  <2>4. \A e \in 1 .. Len(ss) : ss[e] \in Nat
    BY <2>1
  <2> QED BY <2>1, <2>2, <2>3, <2>4
<1>2. Last(ss) \in Nat /\ Last(tt) = t
  <2>1. ss # <<>> => Len(ss) \in 1 .. Len(ss)
    BY DEF Trail
  <2> QED BY <1>1, <2>1 DEF Last
<1>3. c \in Nat /\ c <= Last(tt)
  BY <1>2 DEF Good
<1>4. ASSUME NEW e \in 1 .. Len(ss), ss[e] <= c PROVE e \in sv \/ Pushed(e, tt)
  <2>1. CASE e \in sv
    BY <2>1
  <2>2. ASSUME NEW f \in (1 .. Len(ss)) \ {e}, ss[f] = ss[e] PROVE Pushed(e, tt)
    BY <1>1, <2>2 DEF Pushed
  <2>3. CASE Len(ss) - e >= Page
    BY <1>1, <2>3, ForwardAssumption DEF Pushed
  <2> QED BY <1>4, <2>1, <2>2, <2>3 DEF Good, Pushed
<1>5. ASSUME tt[Len(ss) + 1] <= c PROVE Pushed(Len(ss) + 1, tt)
  <2>1. t = Last(ss) /\ ss # <<>>
    BY <1>1, <1>2, <1>5 DEF Good, Last
  <2>2. Len(ss) \in (1 .. Len(tt)) \ {Len(ss) + 1} /\ tt[Len(ss)] = tt[Len(ss) + 1]
    <3>1. Len(ss) \in 1 .. Len(ss)
      BY <2>1 DEF Trail
    <3> QED BY <1>1, <2>1, <3>1 DEF Last
  <2> QED BY <2>2 DEF Pushed
<1>6. \A e \in 1 .. Len(tt) : e \in 1 .. Len(ss) \/ e = Len(ss) + 1
  BY <1>1
<1> HIDE DEF tt
<1>7. \A e \in 1 .. Len(tt) : tt[e] <= c => e \in sv \/ Pushed(e, tt)
  BY <1>1, <1>4, <1>5, <1>6
<1>8. Good(c, tt, sv)
  BY <1>3, <1>7 DEF Good
<1> QED BY <1>8 DEF tt

LEMMA TrailLogged ==
  ASSUME NEW ss, Trail(ss), Len(ss) < MaxLogged, NEW t \in {Last(ss), Last(ss) + 1} \ {0}
  PROVE  Trail(Append(ss, t)) /\ t \in Stamp \ {0}
<1> DEFINE tt == Append(ss, t)
<1>1. Len(ss) \in Nat /\ (ss # <<>> => Len(ss) \in 1 .. Len(ss))
      /\ \A e \in 1 .. Len(ss) : ss[e] \in Nat
  BY ForwardAssumption DEF Trail, Stamp
<1>2. Last(ss) \in Nat /\ Last(ss) <= Len(ss) /\ \A e \in 1 .. Len(ss) : ss[e] <= Last(ss)
  BY <1>1 DEF Trail, Last
<1>3. t \in Nat /\ t # 0 /\ t <= Len(ss) + 1 /\ Last(ss) <= t
  BY <1>1, <1>2
<1>4. t \in Stamp \ {0}
  BY <1>1, <1>3, ForwardAssumption DEF Stamp
<1>5. tt \in Seq(Stamp \ {0}) /\ Len(tt) = Len(ss) + 1 /\ tt[Len(ss) + 1] = t
      /\ \A e \in 1 .. Len(ss) : tt[e] = ss[e]
  BY <1>4 DEF Trail
<1>6. \A e \in 1 .. Len(tt) : e \in 1 .. Len(ss) \/ e = Len(ss) + 1
  BY <1>1, <1>5
<1> HIDE DEF tt
<1>7. \A e, f \in 1 .. Len(tt) : e <= f => tt[e] <= tt[f]
  <2> SUFFICES ASSUME NEW e \in 1 .. Len(tt), NEW f \in 1 .. Len(tt), e <= f PROVE tt[e] <= tt[f]
    OBVIOUS
  <2>1. CASE f \in 1 .. Len(ss)
    BY <1>1, <1>5, <1>6, <2>1 DEF Trail
  <2>2. CASE f = Len(ss) + 1 /\ e \in 1 .. Len(ss)
    BY <1>1, <1>2, <1>3, <1>5, <2>2
  <2>3. CASE f = Len(ss) + 1 /\ e = f
    BY <1>3, <1>5, <2>3
  <2> QED BY <1>6, <2>1, <2>2, <2>3
<1>8. \A e \in 1 .. Len(tt) : tt[e] <= e
  BY <1>1, <1>3, <1>5, <1>6 DEF Trail
<1> QED BY <1>1, <1>4, <1>5, <1>7, <1>8, ForwardAssumption DEF Trail, tt

-----------------------------------------------------------------------------
LEMMA FreshTask ==
  /\ Fresh \in Task /\ Fresh.at = "load" /\ Fresh.cfg.cursor = 0 /\ DefaultConfig \in Config
  /\ \A t : Waiting(t) \in Task /\ Waiting(t).at = "idle" /\ Waiting(t).cfg.cursor = 0
<1>1. 0 \in Stamp
  BY ForwardAssumption DEF Stamp
<1>2. DefaultConfig \in Config /\ DefaultConfig.cursor = 0
  BY <1>1 DEF Config, DefaultConfig
<1>3. Fresh \in Task /\ Fresh.at = "load" /\ Fresh.cfg = DefaultConfig
  BY <1>1, <1>2 DEF Fresh, Task
<1>4. ASSUME NEW t PROVE Waiting(t) \in Task /\ Waiting(t).at = "idle" /\ Waiting(t).cfg = DefaultConfig
  BY <1>3 DEF Waiting, Task
<1> QED BY <1>2, <1>3, <1>4

LEMMA FreshSound ==
  ASSUME ForwardInv
  PROVE  /\ Sound(Fresh, stamps, Done) /\ Good(DefaultConfig.cursor, stamps, Done)
         /\ \A t : Sound(Waiting(t), stamps, Done)
<1>1. Good(0, stamps, Done)
  BY GoodZero DEF ForwardInv
<1> QED BY <1>1, FreshTask DEF Sound, DefaultConfig

LEMMA InitInv == ForwardInit => ForwardInv
<1> SUFFICES ASSUME ForwardInit PROVE ForwardInv
  OBVIOUS
<1>1. Trail(stamps) /\ Good(0, stamps, Done)
  BY ForwardAssumption DEF ForwardInit, Trail, Good, Last
<1>2. \A w \in Writers : task[w] = Fresh \/ task[w] = Waiting(Fresh)
  BY DEF ForwardInit
<1>3. conf \in Config /\ conf.cursor = 0
  <2>1. StoredConfig \in Config /\ StoredConfig.cursor = 0
    BY ForwardAssumption DEF StoredConfig, Config, Stamp
  <2>2. DefaultConfig \in Config /\ DefaultConfig.cursor = 0
    BY FreshTask DEF DefaultConfig
  <2> QED BY <2>1, <2>2 DEF ForwardInit
<1>4. ForwardTypeOK
  <2>1. stamps \in Seq(Stamp \ {0}) /\ Len(stamps) <= MaxLogged /\ 0 \in 0 .. MaxEdits
    BY ForwardAssumption DEF ForwardInit
  <2>2. task \in [Writers -> Task]
    BY FreshTask DEF ForwardInit
  <2>3. trail \in [Pods -> SUBSET Logged] /\ saved \subseteq Logged /\ lost \subseteq Logged
    BY DEF ForwardInit
  <2> QED BY <1>3, <2>1, <2>2, <2>3 DEF ForwardInit, ForwardTypeOK
<1>5. \A w \in Writers : Sound(task[w], stamps, Done)
  BY <1>1, <1>2, FreshTask DEF Sound
<1>6. Listable
  BY DEF ForwardInit, Listable, Logged
<1> QED BY <1>1, <1>3, <1>4, <1>5, <1>6 DEF ForwardInv

\* Writers go on, and what is done stays done; the trail stays.
LEMMA TasksKeep ==
  ASSUME ForwardInv, UNCHANGED <<auditVars, rests>>, task' \in [Writers -> Task],
         conf' \in Config, served' \subseteq Logged, edits' \in 0 .. MaxEdits,
         Good(conf'.cursor, stamps, Done'),
         \A w \in Writers : Sound(task'[w], stamps, Done')
  PROVE  ForwardInv'
<1>1. /\ store' = store /\ stamps' = stamps /\ trail' = trail /\ saved' = saved /\ lost' = lost
      /\ rests' = rests
  BY DEF auditVars
<1>2. ForwardTypeOK'
  BY <1>1 DEF ForwardInv, ForwardTypeOK, Logged
<1>3. Trail(stamps') /\ Listable'
  BY <1>1 DEF ForwardInv, Listable, Logged
<1> QED BY <1>1, <1>2, <1>3 DEF ForwardInv

\* One writer goes on; the Secret and the trail stay.
LEMMA OneBecomes ==
  ASSUME ForwardInv, NEW w \in Writers, NEW t \in Task, Becomes(w, t),
         Sound(t, stamps, Done), UNCHANGED <<auditVars, conf, served, rests>>,
         edits' \in 0 .. MaxEdits
  PROVE  ForwardInv'
<1>1. task' \in [Writers -> Task] /\ \A v \in Writers : task'[v] = IF v = w THEN t ELSE task[v]
  BY DEF Becomes, ForwardInv, ForwardTypeOK
<1>2. Done' = Done /\ conf' = conf /\ served' = served /\ served \subseteq Logged /\ conf \in Config
  BY DEF Done, auditVars, ForwardInv, ForwardTypeOK
<1>3. \A v \in Writers : Sound(task'[v], stamps, Done')
  BY <1>1, <1>2 DEF ForwardInv
<1>4. Good(conf'.cursor, stamps, Done')
  BY <1>2 DEF ForwardInv
<1> QED BY <1>1, <1>2, <1>3, <1>4, TasksKeep

LEMMA SoundMore ==
  ASSUME NEW t, NEW ss, NEW sv, NEW more, Sound(t, ss, sv), sv \subseteq more
  PROVE  Sound(t, ss, more)
<1>1. sv \cup t.batch \subseteq more \cup t.batch
  OBVIOUS
<1> QED BY <1>1, GoodMore DEF Sound

LEMMA LogKeeps == ASSUME ForwardInv, Log PROVE ForwardInv'
<1> DEFINE n == Len(stamps) + 1
<1>1. PICK t \in Times(Last(stamps)) : stamps' = Append(stamps, t)
  BY DEF Log, Last
<1>2. PICK readers \in Readers :
        /\ trail' = [p \in Pods |-> IF p \in readers THEN trail[p] \cup {n} ELSE trail[p]]
        /\ lost' = IF readers = Pods THEN lost ELSE lost \cup {n}
  BY DEF Log
<1>3. Trail(stamps) /\ Len(stamps) < MaxLogged /\ Len(stamps) \in Nat
      /\ UNCHANGED <<store, saved, conf, task, served, edits, rests>>
  BY DEF Log, ForwardInv, Trail
<1>4. t \in {Last(stamps), Last(stamps) + 1} \ {0}
  <2>1. Last(stamps) \in Nat
    <3>1. stamps # <<>> => Len(stamps) \in 1 .. Len(stamps)
      BY DEF ForwardInv, Trail
    <3> QED BY <3>1, ForwardAssumption DEF ForwardInv, Trail, Last, Stamp
  <2> QED BY <2>1 DEF Times
<1>5. Trail(stamps') /\ t \in Stamp \ {0}
  BY <1>1, <1>3, <1>4, TrailLogged
<1>6. ASSUME NEW c, NEW sv, Good(c, stamps, sv) PROVE Good(c, stamps', sv)
  BY <1>1, <1>3, <1>4, <1>5, <1>6, GoodLogged
<1>7. Logged' = Logged \cup {n} /\ stamps' \in Seq(Stamp \ {0}) /\ Len(stamps') <= MaxLogged
  <2>1. Len(stamps') = n
    BY <1>1, <1>3, <1>5 DEF Trail
  <2> QED BY <1>3, <1>5, <2>1 DEF Trail, Logged
<1> HIDE DEF n
<1>8. trail' \in [Pods -> SUBSET Logged'] /\ lost' \subseteq Logged'
  BY <1>2, <1>7 DEF ForwardInv, ForwardTypeOK
<1>9. ForwardTypeOK'
  BY <1>3, <1>7, <1>8 DEF ForwardInv, ForwardTypeOK
<1>10. Listable'
  <2> SUFFICES ASSUME NEW p \in Pods, NEW e \in Logged', e \notin trail'[p] PROVE e \in lost'
    BY DEF Listable
  <2>1. e \in Logged \/ e = n
    BY <1>7
  <2>2. trail[p] \subseteq trail'[p] /\ (p \in readers => n \in trail'[p]) /\ lost \subseteq lost'
    BY <1>2
  <2>3. e \in Logged => e \in lost
    BY <2>2 DEF ForwardInv, Listable
  <2>4. p \notin readers => n \in lost'
    BY <1>2
  <2> QED BY <2>1, <2>2, <2>3, <2>4
<1>11. Done \subseteq Done'
  BY <1>2, <1>3 DEF Done
<1>12. ASSUME NEW w \in Writers PROVE Sound(task'[w], stamps', Done')
  <2>1. Sound(task[w], stamps', Done)
    BY <1>6, <1>7 DEF Sound, ForwardInv, Logged
  <2> QED BY <1>3, <1>11, <2>1, SoundMore
<1>13. Good(conf'.cursor, stamps', Done')
  BY <1>3, <1>6, <1>11, GoodMore DEF ForwardInv
<1> QED BY <1>5, <1>9, <1>10, <1>12, <1>13 DEF ForwardInv

LEMMA RunLoadsKeeps == ASSUME ForwardInv, NEW p \in Pods, RunLoads(p) PROVE ForwardInv'
<1>1. PICK c \in {conf, DefaultConfig} :
        Becomes(p, IF c.to # {} THEN [Fresh EXCEPT !.at = "collect", !.cfg = c]
                   ELSE Waiting(task[p]))
  BY DEF RunLoads
<1>2. p \in Writers /\ c \in Config /\ Good(c.cursor, stamps, Done) /\ edits' \in 0 .. MaxEdits
  BY FreshTask, FreshSound DEF Writers, RunLoads, ForwardInv, ForwardTypeOK
<1>3. UNCHANGED <<auditVars, conf, served, rests>>
  BY DEF RunLoads
<1>4. CASE c.to # {}
  <2> DEFINE t == [Fresh EXCEPT !.at = "collect", !.cfg = c]
  <2>1. t \in Task /\ t.at = "collect" /\ t.cfg = c
    BY <1>2, FreshTask DEF Task
  <2>2. Sound(t, stamps, Done)
    BY <1>2, <2>1 DEF Sound
  <2> QED BY <1>1, <1>2, <1>3, <1>4, <2>1, <2>2, OneBecomes
<1>5. CASE c.to = {}
  BY <1>1, <1>2, <1>3, <1>5, FreshTask, FreshSound, OneBecomes
<1> QED BY <1>4, <1>5

\* A set of numbers with an upper bound has a largest.
LEMMA Latest ==
  ASSUME NEW n \in Nat, NEW S \in SUBSET (1 .. n), S # {}
  PROVE  \E i \in S : \A j \in S : j <= i
<1> DEFINE T == {n - i : i \in S}
           R == OpToRel(<, Nat)
<1>1. T \subseteq Nat /\ T # {}
  <2>1. \A i \in S : n - i \in Nat
    OBVIOUS
  <2>2. PICK i \in S : TRUE
    OBVIOUS
  <2>3. n - i \in T
    OBVIOUS
  <2> QED BY <2>1, <2>3
<1>2. IsWellFoundedOn(R, Nat)
  BY NatLessThanWellFounded
<1>3. PICK x \in T : \A y \in T : ~ (<<y, x>> \in R)
  <2> HIDE DEF T, R
  <2> QED BY <1>1, <1>2, WFMin
<1>4. \A y \in T : ~ (y < x)
  BY <1>1, <1>3 DEF OpToRel
<1>5. PICK i \in S : x = n - i
  OBVIOUS
<1>6. ASSUME NEW j \in S PROVE j <= i
  <2>1. ~ (n - j < n - i)
    BY <1>4, <1>5
  <2>2. i \in Nat /\ j \in Nat
    BY <1>5
  <2> QED BY <2>1, <2>2
<1> QED BY <1>5, <1>6

\* What is not on the page of a pod's trail has a page of entries after it.
LEMMA OffThePage ==
  ASSUME ForwardInv, NEW p \in Pods, NEW e \in Logged,
         ~ (Cardinality({f \in trail[p] : f > e}) < Page)
  PROVE  Len(stamps) - e >= Page
<1> DEFINE later == {f \in trail[p] : f > e}
<1>1. Len(stamps) \in Nat /\ e \in Nat /\ e <= Len(stamps) /\ trail[p] \subseteq Logged
  BY DEF ForwardInv, ForwardTypeOK, Trail, Logged
<1> DEFINE after == (e + 1) .. Len(stamps)
<1>2. later \subseteq after
  BY <1>1 DEF Logged
<1>3. IsFiniteSet(after) /\ Cardinality(after) = Len(stamps) - e
  <2>1. e + 1 \in Int /\ Len(stamps) \in Int
    BY <1>1
  <2>2. /\ IsFiniteSet(after)
        /\ Cardinality(after) = IF e + 1 > Len(stamps) THEN 0 ELSE Len(stamps) - (e + 1) + 1
    BY <2>1, FS_Interval
  <2> HIDE DEF after
  <2> QED BY <1>1, <2>2
<1>4. Cardinality(later) <= Len(stamps) - e /\ IsFiniteSet(later)
  BY <1>2, <1>3, FS_Subset
<1>5. Cardinality(later) \in Nat
  BY <1>4, FS_CardinalityType
<1>6. ~ (Cardinality(later) < Page)
  OBVIOUS
<1> HIDE DEF later
<1> QED BY <1>1, <1>4, <1>5, <1>6, ForwardAssumption

\* What collectAudit finds, and the newest time in it: once it is sent, nothing
\* before that time is owed.
LEMMA BatchGood ==
  ASSUME ForwardInv, NEW p \in Pods, NEW c, Good(c, stamps, Done)
  PROVE  /\ After(p, c) \subseteq Logged /\ Newest(After(p, c)) \in Stamp
         /\ Good(Newest(After(p, c)), stamps, Done \cup After(p, c))
<1> DEFINE b == After(p, c)
<1>1. Trail(stamps) /\ Len(stamps) \in Nat /\ c \in Nat
      /\ \A e \in Logged : stamps[e] \in Stamp /\ stamps[e] \in Nat
  BY ForwardAssumption DEF ForwardInv, Trail, Good, Logged, Stamp
<1>2. b \subseteq Logged
  BY DEF After, ForwardInv, ForwardTypeOK
<1>3. CASE b = {}
  <2>1. Newest(b) = 0
    BY <1>3 DEF Newest
  <2> QED BY <1>1, <1>2, <1>3, <2>1, GoodZero, ForwardAssumption DEF Stamp
<1>4. CASE b # {}
  <2>1. PICK i \in b : \A j \in b : j <= i
    <3> HIDE DEF b
    <3> QED BY <1>1, <1>2, <1>4, Latest DEF Logged
  <2>2. \A e \in b : stamps[e] <= stamps[i]
    BY <1>1, <1>2, <2>1 DEF Trail, Logged
  <2>3. \E t \in {stamps[e] : e \in b} : \A e \in b : stamps[e] <= t
    BY <2>1, <2>2
  <2>4. Newest(b) \in {stamps[e] : e \in b}
    BY <1>4, <2>3 DEF Newest
  <2>5. Newest(b) \in Stamp /\ Newest(b) \in Nat /\ Newest(b) <= Last(stamps)
    <3>1. PICK e \in b : Newest(b) = stamps[e]
      BY <2>4
    <3>2. e \in Logged /\ Len(stamps) \in Logged /\ stamps # <<>> /\ e <= Len(stamps)
      BY <1>1, <1>2, <3>1 DEF Logged
    <3>3. stamps[e] <= stamps[Len(stamps)] /\ Last(stamps) = stamps[Len(stamps)]
      BY <3>2 DEF ForwardInv, Trail, Logged, Last
    <3> QED BY <1>1, <3>1, <3>2, <3>3
  <2>6. ASSUME NEW e \in Logged PROVE e \in Done \cup b \/ Pushed(e, stamps)
    <3>1. CASE stamps[e] <= c
      BY <3>1 DEF Good, Logged
    <3>2. CASE e \notin trail[p]
      BY <3>2 DEF ForwardInv, Listable, Done
    <3>3. CASE e \in trail[p] /\ stamps[e] > c /\ Cardinality({f \in trail[p] : f > e}) < Page
      BY <3>3 DEF After
    <3>4. CASE ~ (Cardinality({f \in trail[p] : f > e}) < Page)
      BY <3>4, OffThePage DEF Pushed
    <3> QED BY <1>1, <3>1, <3>2, <3>3, <3>4
  <2>7. Good(Newest(b), stamps, Done \cup b)
    BY <2>5, <2>6 DEF Good, Logged
  <2> QED BY <1>2, <2>5, <2>7
<1> QED BY <1>3, <1>4

LEMMA RunCollectsKeeps == ASSUME ForwardInv, NEW p \in Pods, RunCollects(p) PROVE ForwardInv'
<1>1. p \in Writers /\ task[p] \in Task /\ Good(task[p].cfg.cursor, stamps, Done)
      /\ edits' \in 0 .. MaxEdits /\ Trail(stamps)
  BY DEF Writers, RunCollects, ForwardInv, ForwardTypeOK, Sound
<1>2. PICK batch \in Batches(p) :
        Becomes(p, [task[p] EXCEPT !.at = "send", !.batch = batch, !.newest = Newest(batch)])
  BY DEF RunCollects
<1> DEFINE t == [task[p] EXCEPT !.at = "send", !.batch = batch, !.newest = Newest(batch)]
<1>3. batch \subseteq Logged /\ Newest(batch) \in Stamp /\ Good(Newest(batch), stamps, Done \cup batch)
  <2>1. batch = After(p, task[p].cfg.cursor) \/ batch = {}
    BY <1>2 DEF Batches
  <2>2. CASE batch = After(p, task[p].cfg.cursor)
    BY <1>1, <2>2, BatchGood
  <2>3. CASE batch = {}
    BY <1>1, <2>3, GoodZero, ForwardAssumption DEF Newest, Stamp
  <2> QED BY <2>1, <2>2, <2>3
<1>4. batch \subseteq 1 .. MaxLogged
  BY <1>1, <1>3, ForwardAssumption DEF Trail, Logged
<1>5. Becomes(p, t) /\ UNCHANGED <<auditVars, conf, served, rests>>
  BY <1>2 DEF RunCollects
<1>6. t \in Task /\ t.at = "send" /\ t.cfg = task[p].cfg /\ t.batch = batch /\ t.newest = Newest(batch)
  BY <1>1, <1>3, <1>4 DEF Task
<1> HIDE DEF t
<1>7. Sound(t, stamps, Done)
  BY <1>1, <1>3, <1>6 DEF Sound, Logged
<1> QED BY <1>1, <1>5, <1>6, <1>7, OneBecomes

LEMMA RunSendsKeeps == ASSUME ForwardInv, NEW p \in Pods, RunSends(p) PROVE ForwardInv'
<1>1. PICK failed, took :
        /\ task[p].cfg.to \ (failed \cup Syslog) \subseteq took
        /\ Becomes(p, [Fresh EXCEPT !.at = "record", !.newest = Kept(task[p], failed)])
        /\ served' = IF task[p].cfg.to \subseteq took \cup Syslog
                     THEN served \cup task[p].batch ELSE served
  BY DEF RunSends
<1> DEFINE t == [Fresh EXCEPT !.at = "record", !.newest = Kept(task[p], failed)]
<1>2. /\ p \in Writers /\ task[p] \in Task /\ task[p].at = "send" /\ Trail(stamps)
      /\ UNCHANGED <<auditVars, conf, edits, rests>> /\ lost' = lost
      /\ task[p].batch \subseteq Logged /\ Good(task[p].newest, stamps, Done \cup task[p].batch)
  BY DEF Writers, RunSends, ForwardInv, ForwardTypeOK, Sound, Logged, auditVars
<1>3. Good(Kept(task[p], failed), stamps, Done') /\ Kept(task[p], failed) \in Stamp
  <2>1. CASE failed = {}
    <3>1. Done' = Done \cup task[p].batch /\ Kept(task[p], failed) = task[p].newest
      BY <1>1, <1>2, <2>1 DEF Kept, Done
    <3> QED BY <1>2, <3>1 DEF Task
  <2>2. CASE failed # {}
    BY <1>2, <2>2, GoodZero, ForwardAssumption DEF Kept, Stamp
  <2> QED BY <2>1, <2>2
<1>4. t \in Task /\ t.at = "record" /\ t.cfg.cursor = 0 /\ t.newest = Kept(task[p], failed)
  BY <1>3, FreshTask DEF Task
<1>5. served' \subseteq Logged /\ Done \subseteq Done'
  BY <1>1, <1>2 DEF ForwardInv, ForwardTypeOK, Done
<1>6. Becomes(p, t)
  BY <1>1
<1> HIDE DEF t
<1>7. Sound(t, stamps, Done')
  BY <1>2, <1>3, <1>4, GoodZero DEF Sound
<1>8. task' \in [Writers -> Task] /\ \A v \in Writers : task'[v] = IF v = p THEN t ELSE task[v]
  BY <1>2, <1>4, <1>6 DEF Becomes, ForwardInv, ForwardTypeOK
<1>9. \A v \in Writers : Sound(task'[v], stamps, Done')
  BY <1>5, <1>7, <1>8, SoundMore DEF ForwardInv
<1>10. conf' \in Config /\ Good(conf'.cursor, stamps, Done') /\ edits' \in 0 .. MaxEdits
  BY <1>2, <1>5, GoodMore DEF ForwardInv, ForwardTypeOK
<1> QED BY <1>2, <1>5, <1>8, <1>9, <1>10, TasksKeep

LEMMA RunRecordsKeeps == ASSUME ForwardInv, NEW p \in Pods, RunRecords(p) PROVE ForwardInv'
<1>1. /\ p \in Writers /\ task[p] \in Task /\ edits' \in 0 .. MaxEdits /\ conf \in Config
      /\ Good(conf.cursor, stamps, Done) /\ Good(task[p].newest, stamps, Done)
      /\ UNCHANGED <<auditVars, conf, served, rests>>
  BY DEF Writers, RunRecords, ForwardInv, ForwardTypeOK, Sound
<1>2. CASE Becomes(p, [Fresh EXCEPT !.at = "get", !.cfg = Recorded(conf, task[p].newest)])
  <2> DEFINE c == Recorded(conf, task[p].newest)
             t == [Fresh EXCEPT !.at = "get", !.cfg = c]
  <2>1. c \in Config /\ Good(c.cursor, stamps, Done)
    BY <1>1 DEF Recorded, Config, Task
  <2> HIDE DEF c
  <2>2. t \in Task /\ t.at = "get" /\ t.cfg = c
    BY <2>1, FreshTask DEF Task
  <2>3. Sound(t, stamps, Done) /\ Becomes(p, t)
    BY <1>2, <2>1, <2>2 DEF Sound, c
  <2> QED BY <1>1, <2>2, <2>3, OneBecomes
<1>3. CASE Becomes(p, Waiting(task[p]))
  BY <1>1, <1>3, FreshTask, FreshSound, OneBecomes
<1> QED BY <1>2, <1>3 DEF RunRecords

LEMMA RunAgainKeeps == ASSUME ForwardInv, NEW p \in Pods, RunAgain(p) PROVE ForwardInv'
<1>1. p \in Writers /\ edits' \in 0 .. MaxEdits /\ Becomes(p, Fresh)
      /\ UNCHANGED <<auditVars, conf, served, rests>>
  BY DEF Writers, RunAgain, ForwardInv, ForwardTypeOK
<1> QED BY <1>1, FreshTask, FreshSound, OneBecomes

LEMMA FlushKeeps == ASSUME ForwardInv, NEW p \in Pods, Flush(p) PROVE ForwardInv'
<1>1. /\ UNCHANGED <<store, stamps, trail, lost, conf, task, served, edits, rests>>
      /\ saved' \subseteq Logged
  BY DEF Flush, ForwardInv, ForwardTypeOK
<1>2. ForwardTypeOK' /\ Listable' /\ Done' = Done
  BY <1>1 DEF ForwardInv, ForwardTypeOK, Listable, Logged, Done
<1> QED BY <1>1, <1>2 DEF ForwardInv

\* What a restart loses is lost; what it finds was saved.
LEMMA RestartKeeps == ASSUME ForwardInv, NEW p \in Pods, Restart(p) PROVE ForwardInv'
<1>1. PICK found \in Found(p) :
        trail' = [trail EXCEPT ![p] = found] /\ lost' = lost \cup (trail[p] \ found)
  BY DEF Restart
<1>2. UNCHANGED <<store, stamps, saved, conf, served, edits, rests>> /\ Becomes(p, Fresh)
  BY DEF Restart
<1>3. found \subseteq Logged /\ trail \in [Pods -> SUBSET Logged] /\ lost \subseteq Logged
  BY DEF Found, ForwardInv, ForwardTypeOK
<1>4. task' \in [Writers -> Task] /\ \A v \in Writers : task'[v] = Fresh \/ task'[v] = task[v]
  BY <1>2, FreshTask DEF Becomes, ForwardInv, ForwardTypeOK
<1>5. ForwardTypeOK'
  <2>1. trail' \in [Pods -> SUBSET Logged] /\ lost' \subseteq Logged
    BY <1>1, <1>3
  <2> QED BY <1>2, <1>4, <2>1 DEF ForwardInv, ForwardTypeOK, Logged
<1>6. Listable'
  <2> SUFFICES ASSUME NEW q \in Pods, NEW e \in Logged, e \notin trail'[q] PROVE e \in lost'
    BY <1>2 DEF Listable, Logged
  <2>1. CASE q = p
    BY <1>1, <1>3, <2>1 DEF ForwardInv, Listable
  <2>2. CASE q # p
    BY <1>1, <1>3, <2>2 DEF ForwardInv, Listable
  <2> QED BY <2>1, <2>2
<1>7. Done \subseteq Done'
  BY <1>1, <1>2 DEF Done
<1>8. \A v \in Writers : Sound(task'[v], stamps', Done')
  <2> SUFFICES ASSUME NEW v \in Writers PROVE Sound(task'[v], stamps, Done')
    BY <1>2
  <2>1. Sound(task'[v], stamps, Done)
    BY <1>4, FreshSound DEF ForwardInv
  <2> QED BY <1>7, <2>1, SoundMore
<1>9. Good(conf'.cursor, stamps', Done') /\ Trail(stamps')
  BY <1>2, <1>7, GoodMore DEF ForwardInv
<1> QED BY <1>5, <1>6, <1>8, <1>9 DEF ForwardInv

LEMMA PutConfigKeeps == ASSUME ForwardInv, PutConfig PROVE ForwardInv'
<1>1. PICK audit \in BOOLEAN, to \in Choices, c \in {conf, DefaultConfig} :
        Becomes(Editor, [Fresh EXCEPT !.at = "get",
                           !.cfg = [there |-> TRUE, audit |-> audit,
                                    to |-> to, cursor |-> c.cursor]])
  BY DEF PutConfig
<1> DEFINE k == [there |-> TRUE, audit |-> audit, to |-> to, cursor |-> c.cursor]
           t == [Fresh EXCEPT !.at = "get", !.cfg = k]
<1>2. Editor \in Writers /\ edits' \in 0 .. MaxEdits /\ UNCHANGED <<auditVars, conf, served, rests>>
  BY ForwardAssumption DEF Writers, PutConfig, ForwardInv, ForwardTypeOK
<1>3. c \in Config /\ Good(c.cursor, stamps, Done)
  BY FreshTask, FreshSound DEF ForwardInv, ForwardTypeOK
<1>4. k \in Config /\ k.cursor = c.cursor
  BY <1>3, ForwardAssumption DEF Config
<1>5. Becomes(Editor, t)
  BY <1>1
<1> HIDE DEF k
<1>6. t \in Task /\ t.at = "get" /\ t.cfg = k
  BY <1>4, FreshTask DEF Task
<1> HIDE DEF t
<1>7. Sound(t, stamps, Done)
  BY <1>3, <1>4, <1>6 DEF Sound
<1> QED BY <1>2, <1>5, <1>6, <1>7, OneBecomes

LEMMA SaveGetsKeeps == ASSUME ForwardInv, NEW w \in Writers, SaveGets(w) PROVE ForwardInv'
<1>1. PICK h \in {"none", "current"} : Becomes(w, [task[w] EXCEPT !.at = "write", !.holds = h])
  BY DEF SaveGets
<1> DEFINE t == [task[w] EXCEPT !.at = "write", !.holds = h]
<1>2. task[w] \in Task /\ Sound(task[w], stamps, Done) /\ edits' \in 0 .. MaxEdits
      /\ UNCHANGED <<auditVars, conf, served, rests>>
  BY DEF SaveGets, ForwardInv, ForwardTypeOK
<1>3. t \in Task /\ t.at = "write" /\ t.cfg = task[w].cfg
  BY <1>2 DEF Task
<1>4. Sound(t, stamps, Done)
  BY <1>2, <1>3 DEF Sound
<1> QED BY <1>1, <1>2, <1>3, <1>4, OneBecomes

LEMMA SaveWritesKeeps == ASSUME ForwardInv, NEW w \in Writers, SaveWrites(w) PROVE ForwardInv'
<1>1. /\ task \in [Writers -> Task] /\ \A v \in Writers : Sound(task[v], stamps, Done)
      /\ UNCHANGED <<auditVars, served, edits, rests>> /\ edits' \in 0 .. MaxEdits
      /\ Done' = Done /\ served' \subseteq Logged
  BY DEF SaveWrites, ForwardInv, ForwardTypeOK, Done, auditVars
<1>2. CASE /\ conf' = task[w].cfg
           /\ task' = [v \in Writers |->
                         IF v = w THEN Waiting(task[v])
                         ELSE [task[v] EXCEPT !.holds = IF @ = "none" THEN @ ELSE "old"]]
  <2>1. conf' \in Config /\ Good(conf'.cursor, stamps, Done')
    BY <1>1, <1>2 DEF Task, Sound
  <2>2. ASSUME NEW v \in Writers PROVE task'[v] \in Task /\ Sound(task'[v], stamps, Done')
    <3>1. CASE v = w
      BY <1>1, <1>2, <3>1, FreshTask, FreshSound
    <3>2. CASE v # w
      <4> DEFINE t == [task[v] EXCEPT !.holds = IF @ = "none" THEN @ ELSE "old"]
      <4>1. t \in Task /\ t.at = task[v].at /\ t.cfg = task[v].cfg /\ t.batch = task[v].batch
            /\ t.newest = task[v].newest
        BY <1>1 DEF Task
      <4>2. task'[v] = t
        BY <1>2, <3>2
      <4> HIDE DEF t
      <4> QED BY <1>1, <4>1, <4>2 DEF Sound
    <3> QED BY <3>1, <3>2
  <2>3. task' \in [Writers -> Task]
    BY <1>2, <2>2
  <2> QED BY <1>1, <2>1, <2>2, <2>3, TasksKeep
<1>3. CASE Becomes(w, Waiting(task[w])) /\ UNCHANGED conf
  BY <1>1, <1>3, FreshTask, FreshSound, OneBecomes
<1> QED BY <1>2, <1>3 DEF SaveWrites

-----------------------------------------------------------------------------
LEMMA ForwardInductive == ForwardSpec => []ForwardInv
<1>1. ForwardInv /\ [ForwardNext]_forwardVars => ForwardInv'
  <2> SUFFICES ASSUME ForwardInv, [ForwardNext]_forwardVars PROVE ForwardInv'
    OBVIOUS
  <2>1. CASE UNCHANGED forwardVars
    BY <2>1 DEF forwardVars, auditVars, ForwardInv, ForwardTypeOK, Listable, Logged, Done
  <2>2. ASSUME NEW p \in Pods, Run(p) \/ Flush(p) \/ Restart(p) PROVE ForwardInv'
    <3>1. p \in Writers
      BY DEF Writers
    <3> QED BY <2>2, <3>1, RunLoadsKeeps, RunCollectsKeeps, RunSendsKeeps, RunRecordsKeeps,
                 SaveGetsKeeps, SaveWritesKeeps, RunAgainKeeps, FlushKeeps, RestartKeeps DEF Run
  <2>3. CASE PutConfig \/ SaveGets(Editor) \/ SaveWrites(Editor)
    BY <2>3, PutConfigKeeps, SaveGetsKeeps, SaveWritesKeeps DEF Writers
  <2>4. CASE ForwardRests
    BY <2>4 DEF ForwardRests, auditVars, ForwardInv, ForwardTypeOK, Listable, Logged, Done
  <2> QED BY <2>1, <2>2, <2>3, <2>4, LogKeeps DEF ForwardNext
<1> QED BY <1>1, InitInv, PTL DEF ForwardSpec

\* The trail, the Secret and every writer keep their types.
THEOREM ForwardTypeCorrect == ForwardSpec => []ForwardTypeOK
<1>1. ForwardInv => ForwardTypeOK
  BY DEF ForwardInv
<1> QED BY <1>1, ForwardInductive, PTL

\* The cursor passes nothing that was not given to every target of a run but
\* syslog, except entries that share their second with another, were pushed off
\* the page, or that some pod was without.
THEOREM CursorSkipsOnlyExcused == ForwardSpec => []NoneSkipped
<1>1. ForwardInv => NoneSkipped
  BY DEF ForwardInv, Good, Done, NoneSkipped, Logged, Excused, Pushed
<1> QED BY <1>1, ForwardInductive, PTL
=============================================================================
