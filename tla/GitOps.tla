-------------------------------- MODULE GitOps --------------------------------
(***************************************************************************)
(* GitOps-lite (GitOpsHandler): sources kept in one ConfigMap, reconciled  *)
(* by the scheduler, which saves the whole list it loaded, and by SyncSource*)
(* requests, which save one source, while users create, edit and delete    *)
(* them.  Every save runs under h.mu with its own fresh Get, so a save, and *)
(* the whole of CreateSource and DeleteSource, is one step; loads outside  *)
(* the lock, and the minutes a reconcile takes, are not.                   *)
(*                                                                         *)
(* A repository's content is a revision number.  What the cluster runs of  *)
(* a source is the revision it equals, or Mixed.                           *)
(***************************************************************************)
EXTENDS Naturals, FiniteSets

CONSTANTS
    Ids,        \* source ids
    Syncers,    \* SyncSource requests at once
    MaxRev,     \* bound: revisions pushed to a repository
    MaxEdits,   \* bound: users' CreateSource and DeleteSource
    Scheduler,  \* the process RunScheduler
    Absent      \* no source with that id

ASSUME IdsAssumption == Ids # {}
ASSUME WorkersAssumption == Scheduler \notin Syncers
ASSUME AbsentAssumption ==
    Absent \notin [auto : BOOLEAN, inSync : BOOLEAN, errors : BOOLEAN, failed : BOOLEAN]
ASSUME BoundAssumption == MaxRev \in Nat \ {0} /\ MaxEdits \in Nat

VARIABLES
    store,  \* the ConfigMap: store[id] is a source, or Absent
    git,    \* git[id]: the revision the repository holds
    live,   \* live[id]: what the cluster runs of it
    job,    \* job[w]: the load-reconcile-save under way in worker w
    edits,  \* edits made so far
    consent,\* history: sources whose users ever turned auto_apply on
    calm    \* from here on no push, edit, drift or failure

vars == <<store, git, live, job, edits, consent, calm>>

Workers == Syncers \cup {Scheduler}
Revs == 1..MaxRev
Mixed == 0

\* auto is the editable field that matters; the rest is status: the counters say
\* in sync, or that documents failed to plan; LastError is set or not.
Source == [auto : BOOLEAN, inSync : BOOLEAN, errors : BOOLEAN, failed : BOOLEAN]
New(auto) == [auto |-> auto, inSync |-> FALSE, errors |-> FALSE, failed |-> FALSE]

Present(list) == {id \in Ids : list[id] # Absent}

Step == {"idle", "pick", "fetch", "plan", "apply", "applying", "replan", "save"}
List == [Ids -> Source \cup {Absent}]
Job == [at : Step, list : List, todo : SUBSET Ids, cur : Ids,
        man : 0..MaxRev, mixed : BOOLEAN]

\* A job at rest
NoJob == [at |-> "idle", list |-> [id \in Ids |-> Absent], todo |-> {},
          cur |-> CHOOSE id \in Ids : TRUE, man |-> 0, mixed |-> FALSE]

-----------------------------------------------------------------------------
(* The sources' users, the repositories and the cluster *)

CreateSource(id, auto) ==
    /\ ~calm /\ edits < MaxEdits
    /\ store' = [store EXCEPT ![id] =
                    IF @ = Absent THEN New(auto) ELSE [@ EXCEPT !.auto = auto]]
    /\ edits' = edits + 1
    /\ consent' = IF auto THEN consent \cup {id} ELSE consent
    /\ UNCHANGED <<git, live, job, calm>>

DeleteSource(id) ==
    /\ ~calm /\ edits < MaxEdits
    /\ store[id] # Absent
    /\ store' = [store EXCEPT ![id] = Absent]
    /\ edits' = edits + 1
    /\ UNCHANGED <<git, live, job, consent, calm>>

Push(id) ==
    /\ ~calm /\ git[id] < MaxRev
    /\ git' = [git EXCEPT ![id] = @ + 1]
    /\ UNCHANGED <<store, live, job, edits, consent, calm>>

\* Somebody changes the cluster by other means.
Drift(id) ==
    /\ ~calm
    /\ live' = [live EXCEPT ![id] = Mixed]
    /\ UNCHANGED <<store, git, job, edits, consent, calm>>

CalmsDown ==
    /\ ~calm
    /\ calm' = TRUE
    /\ UNCHANGED <<store, git, live, job, edits, consent>>

-----------------------------------------------------------------------------
(* A job: load, reconcile each source to do, save *)

SetJob(w, j) == job' = [job EXCEPT ![w] = j]

\* A tick: the sources due by now are any of those stored.
Tick(due) ==
    /\ job[Scheduler].at = "idle"
    /\ due # {} /\ due \subseteq Present(store)
    /\ SetJob(Scheduler, [NoJob EXCEPT !.at = "pick", !.list = store, !.todo = due])
    /\ UNCHANGED <<store, git, live, edits, consent, calm>>

SyncSource(w, id) ==
    /\ job[w].at = "idle"
    /\ store[id] # Absent
    /\ SetJob(w, [NoJob EXCEPT !.at = "pick", !.list = store, !.todo = {id}])
    /\ UNCHANGED <<store, git, live, edits, consent, calm>>

Pick(w) ==
    /\ job[w].at = "pick"
    /\ \E id \in job[w].todo :
         SetJob(w, [job[w] EXCEPT !.at = "fetch", !.cur = id, !.todo = @ \ {id}])
    /\ UNCHANGED <<store, git, live, edits, consent, calm>>

\* reconcile is done with the source: s is its status
Reconciled(j, s) ==
    [j EXCEPT !.at = IF j.todo = {} THEN "save" ELSE "pick", !.list[j.cur] = s,
              !.man = 0, !.mixed = FALSE]

\* A fault: an error leaves the last in_sync on display.
FailShowsSync(s) == [s EXCEPT !.failed = TRUE]

\* s.LastError, s.InSync = err.Error(), false
Fail(s) == [s EXCEPT !.failed = TRUE, !.inSync = FALSE]

\* The manifests a clone of source id finds
FetchManifests(id) == git[id]

\* A fault: the error of FetchManifests is ignored.
FetchIgnoresError(w) ==
    /\ job[w].at = "fetch"
    /\ LET j == job[w]
           s == [j.list[j.cur] EXCEPT !.failed = FALSE]
       IN  \/ SetJob(w, [j EXCEPT !.at = "plan", !.list[j.cur] = s, !.man = FetchManifests(j.cur)])
           \/ ~calm /\ SetJob(w, [j EXCEPT !.at = "plan", !.list[j.cur] = s])
    /\ UNCHANGED <<store, git, live, edits, consent, calm>>

\* Clone the repository.  LastError is cleared first.
Fetch(w) ==
    /\ job[w].at = "fetch"
    /\ LET j == job[w]
           s == [j.list[j.cur] EXCEPT !.failed = FALSE]
       IN  \/ SetJob(w, [j EXCEPT !.at = "plan", !.list[j.cur] = s, !.man = FetchManifests(j.cur)])
           \/ ~calm /\ SetJob(w, Reconciled(j, Fail(s)))
    /\ UNCHANGED <<store, git, live, edits, consent, calm>>

\* What PlanManifest can say of source id and manifests man: in sync or not, or, with
\* the apiserver failing, not in sync (unreadable counts as to create) or errors.
Plans(id, man) ==
    {[inSync |-> live[id] = man, errors |-> FALSE]} \cup
    (IF calm THEN {} ELSE [inSync : {FALSE}, errors : BOOLEAN])

WithPlan(s, p) == [s EXCEPT !.inSync = p.inSync, !.errors = p.errors]

\* A fault: auto_apply is not asked.
AppliesAlways(s, p) == ~p.inSync /\ ~p.errors

\* A fault: only a source that was in sync is applied again.
AppliesOnDrift(s, p) == s.auto /\ s.inSync /\ ~p.inSync /\ ~p.errors

Applies(s, p) == s.auto /\ ~p.inSync /\ ~p.errors

Plan(w) ==
    /\ job[w].at = "plan"
    /\ LET j == job[w]
           s == j.list[j.cur]
       IN  \/ \E p \in Plans(j.cur, j.man) :
                IF Applies(s, p)
                THEN SetJob(w, [j EXCEPT !.at = "apply", !.list[j.cur] = WithPlan(s, p)])
                ELSE SetJob(w, Reconciled(j, WithPlan(s, p)))
           \/ ~calm /\ SetJob(w, Reconciled(j, Fail(s)))
    /\ UNCHANGED <<store, git, live, edits, consent, calm>>

\* The other workers that are applying another revision of the same source
Rivals(w) ==
    {v \in Workers \ {w} : /\ job[v].at = "applying" /\ job[v].cur = job[w].cur
                           /\ job[v].man # job[w].man}

\* ApplyManifest works document by document: from the first on the source is mixed
\* (unless it ran that revision already), and two applies at once can leave
\* documents of each.
ApplyStarts(w) ==
    /\ job[w].at = "apply"
    /\ live' = [live EXCEPT ![job[w].cur] = IF @ = job[w].man THEN @ ELSE Mixed]
    /\ job' = [v \in Workers |->
                 IF v = w THEN [job[w] EXCEPT !.at = "applying", !.mixed = Rivals(w) # {}]
                 ELSE IF v \in Rivals(w) THEN [job[v] EXCEPT !.mixed = TRUE]
                 ELSE job[v]]
    /\ UNCHANGED <<store, git, edits, consent, calm>>

ApplyEnds(w) ==
    /\ job[w].at = "applying"
    /\ \E r \in {job[w].man} \cup (IF job[w].mixed THEN {Mixed} ELSE {}) :
         live' = [live EXCEPT ![job[w].cur] = r]
    /\ SetJob(w, [job[w] EXCEPT !.at = "replan"])
    /\ UNCHANGED <<store, git, edits, consent, calm>>

\* A document is refused (conflict, protection, webhook), the first or a later one:
\* LastError is set, the counters keep the plan that found drift.
ApplyFails(w) ==
    /\ ~calm
    /\ job[w].at \in {"apply", "applying"}
    /\ LET j == job[w] IN SetJob(w, Reconciled(j, [j.list[j.cur] EXCEPT !.failed = TRUE]))
    /\ UNCHANGED <<store, git, live, edits, consent, calm>>

\* Plan again for the status; an error here is ignored.
Replan(w) ==
    /\ job[w].at = "replan"
    /\ LET j == job[w]
           s == j.list[j.cur]
       IN  \/ \E p \in Plans(j.cur, j.man) : SetJob(w, Reconciled(j, WithPlan(s, p)))
           \/ ~calm /\ SetJob(w, Reconciled(j, s))
    /\ UNCHANGED <<store, git, live, edits, consent, calm>>

\* save(srcs): the whole list as it was loaded, with the new status
SaveList ==
    /\ job[Scheduler].at = "save"
    /\ store' = job[Scheduler].list
    /\ SetJob(Scheduler, NoJob)
    /\ UNCHANGED <<git, live, edits, consent, calm>>

\* A fault: a source that is gone is appended again.
PersistAppends(s, id) == [store EXCEPT ![id] = s]

\* persistStatus: load again, replace the source if it is still there, save
Persisted(s, id) == [store EXCEPT ![id] = IF @ = Absent THEN @ ELSE s]

PersistStatus(w) ==
    /\ job[w].at = "save"
    /\ store' = Persisted(job[w].list[job[w].cur], job[w].cur)
    /\ SetJob(w, NoJob)
    /\ UNCHANGED <<git, live, edits, consent, calm>>

\* The error of save and persistStatus is dropped.
SaveFails(w) ==
    /\ ~calm
    /\ job[w].at = "save"
    /\ SetJob(w, NoJob)
    /\ UNCHANGED <<store, git, live, edits, consent, calm>>

-----------------------------------------------------------------------------
Init ==
    /\ store \in [Ids -> {Absent, New(TRUE), New(FALSE)}]
    /\ consent = {id \in Ids : store[id] = New(TRUE)}
    /\ git = [id \in Ids |-> 1]
    /\ live = [id \in Ids |-> Mixed]
    /\ job = [w \in Workers |-> NoJob]
    /\ edits = 0
    /\ calm = FALSE

Reconcile(w) ==
    Pick(w) \/ Fetch(w) \/ Plan(w) \/ ApplyStarts(w) \/ ApplyEnds(w) \/ ApplyFails(w) \/ Replan(w)

World ==
    \/ \E id \in Ids : DeleteSource(id) \/ Push(id) \/ Drift(id)
    \/ \E id \in Ids, auto \in BOOLEAN : CreateSource(id, auto)
    \/ CalmsDown

Next ==
    \/ World
    \/ \E due \in SUBSET Ids : Tick(due)
    \/ SaveList
    \/ \E w \in Syncers : PersistStatus(w) \/ \E id \in Ids : SyncSource(w, id)
    \/ \E w \in Workers : Reconcile(w) \/ SaveFails(w)

Spec == Init /\ [][Next]_vars

\* A worker that started goes on.  A stored source is due again and again: its
\* interval passes, and a list that is saved gives the scheduler its next tick.
Fairness ==
    /\ \A w \in Workers : WF_vars(Reconcile(w))
    /\ WF_vars(SaveList)
    /\ \A w \in Syncers : WF_vars(PersistStatus(w))
    /\ \A id \in Ids : SF_vars(\E due \in SUBSET Ids : id \in due /\ Tick(due))

FairSpec == Spec /\ Fairness

-----------------------------------------------------------------------------
(* Properties *)

\* A worker that plans or applies holds manifests it fetched, of a source it loaded.
Holds(j) ==
    /\ j.at \notin {"idle", "pick"} => j.list[j.cur] # Absent
    /\ j.at \in {"plan", "apply", "applying", "replan"} => j.man \in Revs
    /\ j.todo \subseteq Present(j.list)

\* Every variable has its type, and nothing is planned or applied that was not
\* fetched (every error path of reconcile returns).
TypeOK ==
    /\ store \in List
    /\ git \in [Ids -> Revs]
    /\ live \in [Ids -> 0..MaxRev]
    /\ job \in [Workers -> Job] /\ \A w \in Workers : Holds(job[w])
    /\ edits \in 0..MaxEdits /\ consent \subseteq Ids /\ calm \in BOOLEAN

Honest(s) == s.inSync => ~s.errors /\ ~s.failed

\* "In sync" is never shown next to an error: whichever call of reconcile fails,
\* at the first attempt or after a sync that worked, and whoever's copy of the
\* source is saved last, in_sync excludes errors and last_error.
StatusHonest == \A id \in Ids : store[id] # Absent => Honest(store[id])

\* A detect-only source is never applied: whatever races with its reconciliation,
\* only others change what the cluster runs of it (AutoApply: "apply drift
\* automatically, else detect-only").
DetectOnlyUntouched ==
    [][\A id \in Ids \ consent : live'[id] # live[id] => UNCHANGED job]_vars

\* SyncSource neither brings back a source deleted while it reconciled nor loses
\* one: persistStatus loads the list again under the lock.
SyncKeepsSources ==
    [][\A w \in Syncers : job[w].at = "save" /\ job'[w].at = "idle"
          => Present(store') = Present(store)]_vars

\* When pushes, edits, drift and failures have stopped, every auto-applied source
\* ends up running its repository's last revision and says so, although a worker
\* may still apply an older one, or save an older list, after that.
AutoSyncConverges ==
    <>[](calm => \A id \in Ids :
                    store[id] # Absent /\ store[id].auto => live[id] = git[id] /\ store[id].inSync)

\* "Status (updated by the reconciler)" and "persistStatus writes back one source's
\* latest status": the workers' saves leave alone which sources there are and
\* what the users set.
WorkersKeepConfig ==
    [][UNCHANGED edits =>
          /\ Present(store') = Present(store)
          /\ \A id \in Present(store) : store'[id].auto = store[id].auto]_vars
==============================================================================
