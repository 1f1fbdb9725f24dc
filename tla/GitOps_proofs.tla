----------------------------- MODULE GitOps_proofs -----------------------------
(***************************************************************************)
(* Proofs about GitOps: its type invariant, the honesty of the status and  *)
(* the two action properties, for any sources, requests and bounds.        *)
(***************************************************************************)
EXTENDS GitOps, TLAPS

\* The sources of a list are honest, and detect-only unless a user consented.
ListOK(list, c) ==
    \A id \in Ids : list[id] # Absent =>
        /\ Honest(list[id])
        /\ list[id].auto => id \in c

\* A job's copy of the source it works on: LastError is clear from the fetch on, and
\* an apply is under way only for drift the source's users asked to have applied.
JobOK(j, c) ==
    /\ j \in Job /\ Holds(j) /\ ListOK(j.list, c)
    /\ j.at \in {"plan", "apply", "applying", "replan"} => ~j.list[j.cur].failed
    /\ j.at \in {"apply", "applying"} => j.list[j.cur].auto /\ ~j.list[j.cur].inSync

IInv ==
    /\ TypeOK
    /\ ListOK(store, consent)
    /\ \A w \in Workers : JobOK(job[w], consent)

-----------------------------------------------------------------------------
(* Jobs *)

LEMMA NoJobOK == ASSUME NEW c PROVE JobOK(NoJob, c)
<1>1. NoJob.cur \in Ids
  BY IdsAssumption DEF NoJob
<1>2. NoJob \in Job
  <2> DEFINE l == [id \in Ids |-> Absent]
             x == CHOOSE id \in Ids : TRUE
  <2>1. l \in List /\ x \in Ids
    BY IdsAssumption DEF List
  <2>2. NoJob = [at |-> "idle", list |-> l, todo |-> {}, cur |-> x, man |-> 0, mixed |-> FALSE]
    BY DEF NoJob
  <2>3. 0 \in 0..MaxRev
    BY BoundAssumption
  <2> HIDE DEF l, x
  <2> QED BY <2>1, <2>2, <2>3 DEF Job, Step
<1> QED BY <1>2 DEF JobOK, Holds, ListOK, NoJob, Present

\* Putting back the source a job works on.
LEMMA WithSource ==
    ASSUME NEW c, NEW j, JobOK(j, c), j.list[j.cur] # Absent,
           NEW s \in Source, s.auto = j.list[j.cur].auto, Honest(s)
    PROVE  LET l == [j.list EXCEPT ![j.cur] = s]
           IN  l \in List /\ ListOK(l, c) /\ Present(l) = Present(j.list) /\ l[j.cur] = s
<1>1. j.list \in List /\ j.cur \in Ids
  BY DEF JobOK, Job
<1>2. s # Absent
  BY AbsentAssumption DEF Source
<1> QED BY <1>1, <1>2 DEF JobOK, ListOK, List, Present

LEMMA ReconciledOK ==
    ASSUME NEW c, NEW j, JobOK(j, c), j.list[j.cur] # Absent,
           NEW s \in Source, s.auto = j.list[j.cur].auto, Honest(s)
    PROVE  JobOK(Reconciled(j, s), c)
<1> DEFINE l == [j.list EXCEPT ![j.cur] = s]
           r == Reconciled(j, s)
<1>1. l \in List /\ ListOK(l, c) /\ Present(l) = Present(j.list) /\ l[j.cur] = s
  BY WithSource
<1>2. j \in Job
  BY DEF JobOK
<1>3. r = [at |-> IF j.todo = {} THEN "save" ELSE "pick", list |-> l, todo |-> j.todo,
           cur |-> j.cur, man |-> 0, mixed |-> FALSE]
  <2>1. j = [at |-> j.at, list |-> j.list, todo |-> j.todo, cur |-> j.cur, man |-> j.man, mixed |-> j.mixed]
    BY <1>2 DEF Job
  <2>2. r = [[[[j EXCEPT !.at = IF j.todo = {} THEN "save" ELSE "pick"] EXCEPT !.list = l] EXCEPT !.man = 0] EXCEPT !.mixed = FALSE]
    BY <2>1 DEF Reconciled
  <2> QED BY <1>2, <2>1, <2>2 DEF Job
<1> HIDE DEF l, r
<1>4. r \in Job
  BY <1>1, <1>2, <1>3, BoundAssumption DEF Job, Step
<1>5. s # Absent
  BY AbsentAssumption DEF Source
<1>6. Holds(r)
  BY <1>1, <1>3, <1>5 DEF JobOK, Holds
<1> QED BY <1>1, <1>3, <1>4, <1>6 DEF JobOK, r

LEMMA Sources ==
    ASSUME NEW s \in Source
    PROVE  /\ [s EXCEPT !.failed = FALSE] \in Source
           /\ [s EXCEPT !.failed = TRUE] \in Source
           /\ Fail(s) \in Source /\ Honest(Fail(s)) /\ Fail(s).auto = s.auto
           /\ Honest(s) => Honest([s EXCEPT !.failed = FALSE])
           /\ [s EXCEPT !.failed = FALSE].failed = FALSE
           /\ [s EXCEPT !.failed = FALSE].auto = s.auto
           /\ [s EXCEPT !.failed = TRUE].auto = s.auto
           /\ ~s.inSync => Honest([s EXCEPT !.failed = TRUE])
  BY DEF Source, Fail, Honest

\* A job in the middle of a source, with another status for it.
LEMMA FetchedOK ==
    ASSUME NEW c, NEW j, JobOK(j, c), j.list[j.cur] # Absent,
           NEW s \in Source, s.auto = j.list[j.cur].auto, Honest(s), ~s.failed,
           NEW m \in Revs
    PROVE  JobOK([j EXCEPT !.at = "plan", !.list[j.cur] = s, !.man = m], c)
<1> DEFINE l == [j.list EXCEPT ![j.cur] = s]
           r == [j EXCEPT !.at = "plan", !.list[j.cur] = s, !.man = m]
<1>1. l \in List /\ ListOK(l, c) /\ Present(l) = Present(j.list) /\ l[j.cur] = s
  BY WithSource
<1>2. j \in Job
  BY DEF JobOK
<1> HIDE DEF r
<1>3. r = [at |-> "plan", list |-> l, todo |-> j.todo, cur |-> j.cur, man |-> m, mixed |-> j.mixed]
  <2>1. j = [at |-> j.at, list |-> j.list, todo |-> j.todo, cur |-> j.cur, man |-> j.man, mixed |-> j.mixed]
    BY <1>2 DEF Job
  <2>2. r = [[[j EXCEPT !.at = "plan"] EXCEPT !.list = l] EXCEPT !.man = m]
    BY <2>1 DEF r
  <2> QED BY <1>2, <2>1, <2>2 DEF Job
<1> HIDE DEF l
<1>4. r \in Job
  BY <1>1, <1>2, <1>3, BoundAssumption DEF Job, Step, Revs
<1>5. s # Absent
  BY AbsentAssumption DEF Source
<1>6. Holds(r)
  BY <1>1, <1>3, <1>5 DEF JobOK, Holds
<1> QED BY <1>1, <1>3, <1>4, <1>6 DEF JobOK, r

LEMMA PlannedOK ==
    ASSUME NEW c, NEW j, JobOK(j, c), j.at = "plan",
           NEW s \in Source, s.auto = j.list[j.cur].auto, Honest(s), ~s.failed,
           s.auto, ~s.inSync
    PROVE  JobOK([j EXCEPT !.at = "apply", !.list[j.cur] = s], c)
<1> DEFINE l == [j.list EXCEPT ![j.cur] = s]
           r == [j EXCEPT !.at = "apply", !.list[j.cur] = s]
<1>1. l \in List /\ ListOK(l, c) /\ Present(l) = Present(j.list) /\ l[j.cur] = s
  BY WithSource DEF JobOK, Holds
<1>2. j \in Job
  BY DEF JobOK
<1> HIDE DEF r
<1>3. r = [at |-> "apply", list |-> l, todo |-> j.todo, cur |-> j.cur, man |-> j.man, mixed |-> j.mixed]
  <2>1. j = [at |-> j.at, list |-> j.list, todo |-> j.todo, cur |-> j.cur, man |-> j.man, mixed |-> j.mixed]
    BY <1>2 DEF Job
  <2>2. r = [[j EXCEPT !.at = "apply"] EXCEPT !.list = l]
    BY <2>1 DEF r
  <2> QED BY <1>2, <2>1, <2>2 DEF Job
<1> HIDE DEF l
<1>4. r \in Job
  BY <1>1, <1>2, <1>3, BoundAssumption DEF Job, Step, Revs
<1>5. s # Absent
  BY AbsentAssumption DEF Source
<1>6. Holds(r)
  BY <1>1, <1>3, <1>5 DEF JobOK, Holds
<1> QED BY <1>1, <1>3, <1>4, <1>6 DEF JobOK, r

\* A job that goes on with the same list.
LEMMA MovedOK ==
    ASSUME NEW c, NEW j, JobOK(j, c), j.at \in {"apply", "applying"}
    PROVE  /\ JobOK([j EXCEPT !.at = "replan"], c)
           /\ JobOK([j EXCEPT !.mixed = TRUE], c)
           /\ j.at = "apply" => /\ JobOK([j EXCEPT !.at = "applying", !.mixed = TRUE], c)
                                /\ JobOK([j EXCEPT !.at = "applying", !.mixed = FALSE], c)
  BY DEF JobOK, Job, Step, Holds

-----------------------------------------------------------------------------
(* Steps *)

Quiet == UNCHANGED <<store, git, live, edits, consent, calm>>

\* A step of one worker alone.
LEMMA JobStep ==
    ASSUME IInv, NEW w \in Workers, NEW j, JobOK(j, consent), SetJob(w, j), Quiet
    PROVE  IInv'
<1>1. job' \in [Workers -> Job] /\ \A v \in Workers : JobOK(job'[v], consent)
  BY DEF IInv, TypeOK, SetJob, JobOK
<1>2. \A v \in Workers : Holds(job'[v])
  BY <1>1 DEF JobOK
<1> QED BY <1>1, <1>2 DEF IInv, TypeOK, Quiet

LEMMA Consents ==
    ASSUME NEW c, NEW d, c \subseteq d
    PROVE  /\ \A list : ListOK(list, c) => ListOK(list, d)
           /\ \A j : JobOK(j, c) => JobOK(j, d)
  BY DEF ListOK, JobOK

LEMMA Worker == ASSUME IInv, NEW w \in Workers
                PROVE  /\ job[w] \in Job /\ JobOK(job[w], consent) /\ Holds(job[w])
                       /\ job[w].cur \in Ids /\ job[w].list \in List
  BY DEF IInv, JobOK, Job

\* The status a plan leaves
LEMMA Planned ==
    ASSUME NEW id \in Ids, NEW m, NEW p \in Plans(id, m), NEW s \in Source
    PROVE  /\ WithPlan(s, p) \in Source /\ WithPlan(s, p).auto = s.auto
           /\ WithPlan(s, p).inSync = p.inSync
           /\ WithPlan(s, p).failed = s.failed
           /\ ~s.failed => Honest(WithPlan(s, p))
<1>1. p.inSync \in BOOLEAN /\ p.errors \in BOOLEAN /\ (p.inSync => ~p.errors)
  <2>1. CASE p = [inSync |-> live[id] = m, errors |-> FALSE]
    <3>1. CASE live[id] = m
      BY <2>1, <3>1, Zenon
    <3>2. CASE live[id] # m
      BY <2>1, <3>2, Zenon
    <3> QED BY <3>1, <3>2
  <2>2. CASE p \in [inSync : {FALSE}, errors : BOOLEAN]
    BY <2>2
  <2> QED BY <2>1, <2>2 DEF Plans
<1> QED BY <1>1 DEF WithPlan, Source, Honest

LEMMA WorldKeeps == ASSUME IInv, World PROVE IInv'
<1>1. ASSUME NEW id \in Ids, NEW auto \in BOOLEAN, CreateSource(id, auto) PROVE IInv'
  <2>1. New(auto) \in Source /\ Honest(New(auto)) /\ New(auto).auto = auto
    BY DEF New, Source, Honest
  <2>2. ASSUME store[id] # Absent
        PROVE  LET n == [store[id] EXCEPT !.auto = auto]
               IN  n \in Source /\ Honest(n) /\ n.auto = auto
    BY <2>2 DEF IInv, TypeOK, List, ListOK, Source, Honest
  <2>3. PICK n \in Source : Honest(n) /\ n.auto = auto /\ store' = [store EXCEPT ![id] = n]
    BY <1>1, <2>1, <2>2 DEF CreateSource, IInv, TypeOK, List
  <2>4. consent \subseteq consent' /\ consent' \subseteq Ids /\ (auto => id \in consent')
    BY <1>1 DEF CreateSource, IInv, TypeOK
  <2>5. store' \in List /\ ListOK(store', consent')
    BY <2>3, <2>4 DEF IInv, TypeOK, List, ListOK
  <2>6. \A w \in Workers : JobOK(job[w], consent')
    BY <2>4, Consents DEF IInv
  <2>7. edits' \in 0..MaxEdits
    BY <1>1, BoundAssumption DEF CreateSource, IInv, TypeOK
  <2> QED BY <1>1, <2>4, <2>5, <2>6, <2>7 DEF CreateSource, IInv, TypeOK
<1>2. ASSUME NEW id \in Ids, DeleteSource(id) PROVE IInv'
  <2>1. store' \in List /\ ListOK(store', consent)
    BY <1>2 DEF DeleteSource, IInv, TypeOK, List, ListOK
  <2>2. edits' \in 0..MaxEdits
    BY <1>2, BoundAssumption DEF DeleteSource, IInv, TypeOK
  <2> QED BY <1>2, <2>1, <2>2 DEF DeleteSource, IInv, TypeOK
<1>3. ASSUME NEW id \in Ids, Push(id) PROVE IInv'
  <2>1. git' \in [Ids -> Revs]
    BY <1>3, BoundAssumption DEF Push, IInv, TypeOK, Revs
  <2> QED BY <1>3, <2>1 DEF Push, IInv, TypeOK
<1>4. ASSUME NEW id \in Ids, Drift(id) PROVE IInv'
  <2>1. live' \in [Ids -> 0..MaxRev]
    BY <1>4, BoundAssumption DEF Drift, IInv, TypeOK, Mixed
  <2> QED BY <1>4, <2>1 DEF Drift, IInv, TypeOK
<1>5. CASE CalmsDown
  BY <1>5 DEF CalmsDown, IInv, TypeOK
<1> QED BY <1>1, <1>2, <1>3, <1>4, <1>5 DEF World

LEMMA StartsKeep ==
    ASSUME IInv, NEW w \in Workers, NEW due \in SUBSET Ids, due \subseteq Present(store),
           SetJob(w, [NoJob EXCEPT !.at = "pick", !.list = store, !.todo = due]), Quiet
    PROVE  IInv'
<1> DEFINE j == [NoJob EXCEPT !.at = "pick", !.list = store, !.todo = due]
<1>1. JobOK(NoJob, consent) /\ store \in List /\ ListOK(store, consent)
  BY NoJobOK DEF IInv, TypeOK
<1>2. JobOK(j, consent)
  BY <1>1 DEF JobOK, Holds, Job, Step
<1> QED BY <1>2, JobStep

LEMMA PickKeeps == ASSUME IInv, NEW w \in Workers, Pick(w) PROVE IInv'
<1>1. PICK id \in job[w].todo :
        SetJob(w, [job[w] EXCEPT !.at = "fetch", !.cur = id, !.todo = @ \ {id}])
  BY DEF Pick
<1> DEFINE j == [job[w] EXCEPT !.at = "fetch", !.cur = id, !.todo = @ \ {id}]
<1>2. JobOK(j, consent)
  <2>1. job[w] \in Job /\ Holds(job[w]) /\ JobOK(job[w], consent)
    BY Worker
  <2>2. id \in Ids /\ job[w].list[id] # Absent
    BY <2>1 DEF Job, Holds, Present
  <2> QED BY <2>1, <2>2 DEF JobOK, Holds, Job, Step
<1> QED BY <1>1, <1>2, JobStep DEF Pick, Quiet

\* The source a job works on, past the pick
LEMMA Current ==
    ASSUME IInv, NEW w \in Workers, job[w].at \notin {"idle", "pick"}
    PROVE  LET j == job[w]
               s == j.list[j.cur]
           IN  /\ s # Absent /\ s \in Source /\ Honest(s)
               /\ s.auto => j.cur \in consent
  BY Worker DEF Holds, List, JobOK, ListOK

LEMMA FetchKeeps == ASSUME IInv, NEW w \in Workers, Fetch(w) PROVE IInv'
<1> DEFINE j == job[w]
           o == j.list[j.cur]
           s == [o EXCEPT !.failed = FALSE]
<1>1. JobOK(j, consent) /\ j.cur \in Ids
  BY Worker
<1>2. o # Absent /\ o \in Source /\ Honest(o)
  BY Current DEF Fetch
<1>3. s \in Source /\ s.auto = o.auto /\ Honest(s) /\ ~s.failed
  BY <1>2, Sources
<1>4. /\ Fail(s) \in Source /\ Honest(Fail(s)) /\ Fail(s).auto = o.auto
  BY <1>3, Sources
<1>5. FetchManifests(j.cur) \in Revs
  BY <1>1 DEF FetchManifests, IInv, TypeOK
<1>6. JobOK([j EXCEPT !.at = "plan", !.list[j.cur] = s, !.man = FetchManifests(j.cur)], consent)
  BY <1>1, <1>2, <1>3, <1>5, FetchedOK
<1>7. JobOK(Reconciled(j, Fail(s)), consent)
  BY <1>1, <1>2, <1>4, ReconciledOK
<1>8. Quiet
  BY DEF Fetch, Quiet
<1>9. \/ SetJob(w, [j EXCEPT !.at = "plan", !.list[j.cur] = s, !.man = FetchManifests(j.cur)])
      \/ SetJob(w, Reconciled(j, Fail(s)))
  BY DEF Fetch
<1> QED BY <1>6, <1>7, <1>8, <1>9, JobStep

LEMMA PlanKeeps == ASSUME IInv, NEW w \in Workers, Plan(w) PROVE IInv'
<1> DEFINE j == job[w]
           s == j.list[j.cur]
<1>1. JobOK(j, consent) /\ j.cur \in Ids /\ j.at = "plan" /\ ~s.failed
  BY Worker DEF Plan, JobOK
<1>2. s # Absent /\ s \in Source /\ Honest(s)
  BY <1>1, Current
<1>3. Quiet
  BY DEF Plan, Quiet
<1>4. ASSUME NEW p \in Plans(j.cur, j.man), Applies(s, p),
             SetJob(w, [j EXCEPT !.at = "apply", !.list[j.cur] = WithPlan(s, p)])
      PROVE  IInv'
  <2> DEFINE q == WithPlan(s, p)
  <2>1. q \in Source /\ q.auto = s.auto /\ Honest(q) /\ ~q.failed /\ q.inSync = p.inSync
    BY <1>1, <1>2, Planned
  <2>2. q.auto /\ ~q.inSync
    BY <1>4, <2>1 DEF Applies
  <2> HIDE DEF q
  <2>3. JobOK([j EXCEPT !.at = "apply", !.list[j.cur] = q], consent)
    BY <1>1, <2>1, <2>2, PlannedOK
  <2> QED BY <1>3, <1>4, <2>3, JobStep DEF q
<1>5. ASSUME NEW p \in Plans(j.cur, j.man), SetJob(w, Reconciled(j, WithPlan(s, p)))
      PROVE  IInv'
  <2>1. JobOK(Reconciled(j, WithPlan(s, p)), consent)
    BY <1>1, <1>2, Planned, ReconciledOK
  <2> QED BY <1>3, <1>5, <2>1, JobStep
<1>6. ASSUME SetJob(w, Reconciled(j, Fail(s))) PROVE IInv'
  <2>1. JobOK(Reconciled(j, Fail(s)), consent)
    BY <1>1, <1>2, Sources, ReconciledOK
  <2> QED BY <1>3, <1>6, <2>1, JobStep
<1> QED BY <1>4, <1>5, <1>6 DEF Plan

LEMMA ApplyStartsKeeps == ASSUME IInv, NEW w \in Workers, ApplyStarts(w) PROVE IInv'
<1>1. job[w] \in Job /\ job[w].at = "apply" /\ job[w].cur \in Ids
  BY Worker DEF ApplyStarts
<1>2. live' \in [Ids -> 0..MaxRev]
  <2>1. live[job[w].cur] \in 0..MaxRev /\ Mixed \in 0..MaxRev
    BY <1>1, BoundAssumption DEF IInv, TypeOK, Mixed
  <2>2. PICK r \in 0..MaxRev : live' = [live EXCEPT ![job[w].cur] = r]
    BY <2>1 DEF ApplyStarts
  <2> QED BY <2>2 DEF IInv, TypeOK
<1>3. \A v \in Workers : JobOK(job'[v], consent)
  <2> SUFFICES ASSUME NEW v \in Workers PROVE JobOK(job'[v], consent)
    OBVIOUS
  <2>1. JobOK(job[v], consent)
    BY Worker
  <2>2. CASE v = w
    <3>1. job'[v] = [job[v] EXCEPT !.at = "applying", !.mixed = Rivals(w) # {}]
      BY <2>2 DEF ApplyStarts
    <3>2. job'[v] = [job[v] EXCEPT !.at = "applying", !.mixed = TRUE] \/
          job'[v] = [job[v] EXCEPT !.at = "applying", !.mixed = FALSE]
      <4>1. CASE Rivals(w) # {}
        BY <3>1, <4>1, Zenon
      <4>2. CASE Rivals(w) = {}
        BY <3>1, <4>2, Zenon
      <4> QED BY <4>1, <4>2
    <3>3. job[v].at = "apply" /\ job[v].at \in {"apply", "applying"}
      BY <1>1, <2>2
    <3>4. /\ JobOK([job[v] EXCEPT !.at = "applying", !.mixed = TRUE], consent)
          /\ JobOK([job[v] EXCEPT !.at = "applying", !.mixed = FALSE], consent)
      BY <2>1, <3>3, MovedOK
    <3> QED BY <3>2, <3>4, Zenon
  <2>3. CASE v # w /\ v \in Rivals(w)
    <3>1. job'[v] = [job[v] EXCEPT !.mixed = TRUE] /\ job[v].at = "applying"
      BY <2>3 DEF ApplyStarts, Rivals
    <3>2. job[v].at \in {"apply", "applying"}
      BY <3>1
    <3>3. JobOK([job[v] EXCEPT !.mixed = TRUE], consent)
      BY <2>1, <3>2, MovedOK
    <3> QED BY <3>1, <3>3, Zenon
  <2>4. CASE v # w /\ v \notin Rivals(w)
    BY <2>1, <2>4 DEF ApplyStarts
  <2> QED BY <2>2, <2>3, <2>4
<1>4. job' \in [Workers -> Job] /\ \A v \in Workers : Holds(job'[v])
  BY <1>3 DEF JobOK, ApplyStarts
<1> QED BY <1>2, <1>3, <1>4 DEF IInv, TypeOK, ApplyStarts

LEMMA ApplyEndsKeeps == ASSUME IInv, NEW w \in Workers, ApplyEnds(w) PROVE IInv'
<1>1. job[w].at \in {"apply", "applying"} /\ JobOK(job[w], consent)
  BY Worker DEF ApplyEnds
<1> DEFINE j == [job[w] EXCEPT !.at = "replan"]
<1>2. JobOK(j, consent) /\ SetJob(w, j)
  BY <1>1, MovedOK DEF ApplyEnds
<1> HIDE DEF j
<1>3. job' \in [Workers -> Job] /\ \A v \in Workers : JobOK(job'[v], consent)
  BY <1>2 DEF IInv, TypeOK, SetJob, JobOK
<1>4. \A v \in Workers : Holds(job'[v])
  BY <1>3 DEF JobOK
<1>5. live' \in [Ids -> 0..MaxRev]
  <2>1. PICK r \in {job[w].man, Mixed} : live' = [live EXCEPT ![job[w].cur] = r]
    BY DEF ApplyEnds
  <2>2. r \in 0..MaxRev
    BY <1>1, BoundAssumption DEF JobOK, Job, Mixed
  <2> QED BY <2>1, <2>2 DEF IInv, TypeOK
<1> QED BY <1>3, <1>4, <1>5 DEF IInv, TypeOK, ApplyEnds

LEMMA ApplyFailsKeeps == ASSUME IInv, NEW w \in Workers, ApplyFails(w) PROVE IInv'
<1> DEFINE j == job[w]
           o == j.list[j.cur]
           s == [o EXCEPT !.failed = TRUE]
<1>1. JobOK(j, consent) /\ ~o.inSync
  BY Worker DEF JobOK, ApplyFails
<1>2. o # Absent /\ o \in Source /\ Honest(o)
  BY Current DEF ApplyFails
<1>3. s \in Source /\ s.auto = o.auto /\ Honest(s)
  BY <1>1, <1>2, Sources
<1>4. JobOK(Reconciled(j, s), consent)
  BY <1>1, <1>2, <1>3, ReconciledOK
<1>5. SetJob(w, Reconciled(j, s)) /\ Quiet
  BY DEF ApplyFails, Quiet
<1> QED BY <1>4, <1>5, JobStep

LEMMA ReplanKeeps == ASSUME IInv, NEW w \in Workers, Replan(w) PROVE IInv'
<1> DEFINE j == job[w]
           s == j.list[j.cur]
<1>1. JobOK(j, consent) /\ j.cur \in Ids /\ ~s.failed
  BY Worker DEF Replan, JobOK
<1>2. s # Absent /\ s \in Source /\ Honest(s)
  BY Current DEF Replan
<1>3. Quiet
  BY DEF Replan, Quiet
<1>4. ASSUME NEW p \in Plans(j.cur, j.man), SetJob(w, Reconciled(j, WithPlan(s, p)))
      PROVE  IInv'
  <2>1. JobOK(Reconciled(j, WithPlan(s, p)), consent)
    BY <1>1, <1>2, Planned, ReconciledOK
  <2> QED BY <1>3, <1>4, <2>1, JobStep
<1>5. ASSUME SetJob(w, Reconciled(j, s)) PROVE IInv'
  <2>1. JobOK(Reconciled(j, s), consent)
    BY <1>1, <1>2, ReconciledOK
  <2> QED BY <1>3, <1>5, <2>1, JobStep
<1> QED BY <1>4, <1>5 DEF Replan

\* The end of a job, whatever it saves.
LEMMA EndKeeps ==
    ASSUME IInv, NEW w \in Workers, SetJob(w, NoJob), store' \in List, ListOK(store', consent),
           UNCHANGED <<git, live, edits, consent, calm>>
    PROVE  IInv'
<1>1. job' \in [Workers -> Job] /\ \A v \in Workers : JobOK(job'[v], consent)
  BY NoJobOK DEF IInv, TypeOK, SetJob, JobOK
<1>2. \A v \in Workers : Holds(job'[v])
  BY <1>1 DEF JobOK
<1> QED BY <1>1, <1>2 DEF IInv, TypeOK

LEMMA PersistStatusKeeps == ASSUME IInv, NEW w \in Workers, PersistStatus(w)
                            PROVE  IInv' /\ Present(store') = Present(store)
<1> DEFINE id == job[w].cur
           s == job[w].list[id]
<1>1. id \in Ids /\ s # Absent /\ s \in Source /\ Honest(s) /\ (s.auto => id \in consent)
  BY Worker, Current DEF PersistStatus
<1>2. store' = [store EXCEPT ![id] = IF store[id] = Absent THEN store[id] ELSE s]
  BY DEF PersistStatus, Persisted
<1>3. store' \in List /\ ListOK(store', consent) /\ Present(store') = Present(store)
  BY <1>1, <1>2 DEF IInv, TypeOK, List, ListOK, Present
<1> QED BY <1>3, EndKeeps DEF PersistStatus

LEMMA NextKeeps == ASSUME IInv, [Next]_vars PROVE IInv'
<1>1. CASE World
  BY <1>1, WorldKeeps
<1>2. ASSUME NEW due \in SUBSET Ids, Tick(due) PROVE IInv'
  BY <1>2, StartsKeep DEF Tick, Workers, Quiet
<1>3. CASE SaveList
  <2>1. store' \in List /\ ListOK(store', consent)
    BY <1>3, Worker DEF SaveList, Workers, JobOK
  <2> QED BY <1>3, <2>1, EndKeeps DEF SaveList, Workers
<1>4. ASSUME NEW w \in Syncers, PersistStatus(w) PROVE IInv'
  BY <1>4, PersistStatusKeeps DEF Workers
<1>5. ASSUME NEW w \in Syncers, NEW id \in Ids, SyncSource(w, id) PROVE IInv'
  <2>1. {id} \in SUBSET Ids /\ {id} \subseteq Present(store) /\ w \in Workers
    BY <1>5 DEF SyncSource, Present, Workers
  <2> QED BY <1>5, <2>1, StartsKeep DEF SyncSource, Quiet
<1>6. ASSUME NEW w \in Workers, Reconcile(w) PROVE IInv'
  BY <1>6, PickKeeps, FetchKeeps, PlanKeeps, ApplyStartsKeeps, ApplyEndsKeeps, ApplyFailsKeeps,
     ReplanKeeps DEF Reconcile
<1>7. ASSUME NEW w \in Workers, SaveFails(w) PROVE IInv'
  <2>1. store' \in List /\ ListOK(store', consent)
    BY <1>7 DEF SaveFails, IInv, TypeOK
  <2> QED BY <1>7, <2>1, EndKeeps DEF SaveFails
<1>8. CASE UNCHANGED vars
  BY <1>8 DEF vars, IInv, TypeOK
<1> QED BY <1>1, <1>2, <1>3, <1>4, <1>5, <1>6, <1>7, <1>8 DEF Next

LEMMA InitHolds == Init => IInv
<1> SUFFICES ASSUME Init PROVE IInv
  OBVIOUS
<1>1. /\ New(TRUE) \in Source /\ Honest(New(TRUE))
      /\ New(FALSE) \in Source /\ Honest(New(FALSE)) /\ ~New(FALSE).auto
  BY DEF New, Source, Honest
<1>2. /\ \A id \in Ids : store[id] = Absent \/ store[id] = New(TRUE) \/ store[id] = New(FALSE)
      /\ store \in [Ids -> {Absent, New(TRUE), New(FALSE)}]
  BY DEF Init
<1>3. store \in List
  BY <1>1, <1>2 DEF List
<1>4. ListOK(store, consent)
  BY <1>1, <1>2 DEF ListOK, Init
<1>5. job \in [Workers -> Job] /\ \A w \in Workers : JobOK(job[w], consent) /\ Holds(job[w])
  BY NoJobOK DEF Init, JobOK
<1>6. /\ git \in [Ids -> Revs] /\ live \in [Ids -> 0..MaxRev] /\ edits \in 0..MaxEdits
      /\ consent \subseteq Ids /\ calm \in BOOLEAN
  <2>1. 1 \in Revs /\ 0 \in 0..MaxRev /\ 0 \in 0..MaxEdits
    BY BoundAssumption DEF Revs
  <2> QED BY <2>1 DEF Init, Mixed
<1> QED BY <1>3, <1>4, <1>5, <1>6 DEF IInv, TypeOK

LEMMA Inductive == Spec => []IInv
<1>1. IInv /\ [Next]_vars => IInv'
  BY NextKeeps
<1> QED BY <1>1, InitHolds, PTL DEF Spec

-----------------------------------------------------------------------------
(* Theorems *)

\* Every variable keeps its type, and nothing is planned or applied that reconcile
\* did not fetch.
THEOREM TypeCorrect == Spec => []TypeOK
  BY Inductive, PTL DEF IInv

\* A stored source never says "in sync" next to an error, whoever saved it last.
THEOREM StatusIsHonest == Spec => []StatusHonest
<1>1. IInv => StatusHonest
  BY DEF IInv, ListOK, StatusHonest
<1> QED BY <1>1, Inductive, PTL

\* No worker changes what the cluster runs of a source whose users never turned
\* auto_apply on.
THEOREM DetectOnlyIsUntouched == Spec => DetectOnlyUntouched
<1> DEFINE A == \A id \in Ids \ consent : live'[id] # live[id] => UNCHANGED job
<1>1. IInv /\ [Next]_vars => [A]_vars
  <2> SUFFICES ASSUME IInv, Next, NEW id \in Ids \ consent, live'[id] # live[id]
               PROVE  UNCHANGED job
    OBVIOUS
  <2>1. CASE World
    BY <2>1 DEF World, CreateSource, DeleteSource, Push, Drift, CalmsDown
  <2>2. ASSUME NEW w \in Workers, ApplyStarts(w) \/ ApplyEnds(w) PROVE FALSE
    <3>1. job[w].at \in {"apply", "applying"}
      BY <2>2 DEF ApplyStarts, ApplyEnds
    <3>2. job[w].cur \in consent
      BY <3>1, Worker, Current DEF JobOK
    <3>3. \E r : live' = [live EXCEPT ![job[w].cur] = r]
      BY <2>2 DEF ApplyStarts, ApplyEnds
    <3> QED BY <3>2, <3>3 DEF IInv, TypeOK
  <2>3. ASSUME NEW w \in Workers,
               Pick(w) \/ Fetch(w) \/ Plan(w) \/ ApplyFails(w) \/ Replan(w) \/ SaveFails(w)
        PROVE  FALSE
    BY <2>3 DEF Pick, Fetch, Plan, ApplyFails, Replan, SaveFails
  <2>4. ASSUME NEW due \in SUBSET Ids, Tick(due) PROVE FALSE
    BY <2>4 DEF Tick
  <2>5. CASE SaveList
    BY <2>5 DEF SaveList
  <2>6. ASSUME NEW w \in Syncers, NEW i \in Ids, SyncSource(w, i) PROVE FALSE
    BY <2>6 DEF SyncSource
  <2>7. ASSUME NEW w \in Syncers, PersistStatus(w) PROVE FALSE
    BY <2>7 DEF PersistStatus
  <2> QED BY <2>1, <2>2, <2>3, <2>4, <2>5, <2>6, <2>7 DEF Next, Reconcile
<1> QED BY <1>1, Inductive, PTL DEF Spec, DetectOnlyUntouched

\* SyncSource's save neither brings back a deleted source nor loses one.
THEOREM SyncKeepsTheSources == Spec => SyncKeepsSources
<1> DEFINE A == \A w \in Syncers : job[w].at = "save" /\ job'[w].at = "idle"
                                     => Present(store') = Present(store)
<1>1. IInv /\ [Next]_vars => [A]_vars
  <2> SUFFICES ASSUME IInv, Next, NEW w \in Syncers, job[w].at = "save", job'[w].at = "idle"
               PROVE  Present(store') = Present(store)
    OBVIOUS
  <2> USE DEF SetJob
  <2>1. w \in Workers /\ w # Scheduler /\ Scheduler \in Workers /\ job \in [Workers -> Job]
    BY WorkersAssumption DEF Workers, IInv, TypeOK
  <2>2. CASE World
    BY <2>2 DEF World, CreateSource, DeleteSource, Push, Drift, CalmsDown
  <2>3. CASE SaveList
    BY <2>1, <2>3 DEF SaveList
  <2>4. ASSUME NEW v \in Syncers, PersistStatus(v) PROVE Present(store') = Present(store)
    BY <2>4, PersistStatusKeeps DEF Workers
  <2>5. CASE UNCHANGED store
    BY <2>5
  <2>6. Next => World \/ SaveList \/ (\E v \in Syncers : PersistStatus(v)) \/ UNCHANGED store
    BY DEF Next, Tick, SyncSource, Reconcile, Pick, Fetch, Plan, ApplyStarts, ApplyEnds,
           ApplyFails, Replan, SaveFails
  <2> QED BY <2>2, <2>3, <2>4, <2>5, <2>6
<1> QED BY <1>1, Inductive, PTL DEF Spec, SyncKeepsSources
==============================================================================
