------------------------------ MODULE AuditStore ------------------------------
(***************************************************************************)
(* The audit trail: AuditRecorder's entries in the in-memory ring of each  *)
(* pod (MemoryStore), flushed to one ConfigMap (ConfigMapStore) by a       *)
(* ticker and by main on SIGTERM, and loaded again by the next pod.  Pods  *)
(* may overlap (a rolling update starts the new one before the old one     *)
(* stops), crash, and meet an apiserver that fails a call.                 *)
(*                                                                         *)
(* An entry is the request it records and the id the ring gave it.         *)
(***************************************************************************)
EXTENDS Integers, Sequences, FiniteSets

CONSTANTS
    Pods,   \* pods of the Deployment, over its life
    Cap,    \* capacity of the ring (2000 in the code)
    MaxOps, \* bound: mutating requests
    Before  \* bound: how many entries earlier pods may have left behind

ASSUME CapAssumption == Cap \in Nat \ {0}
ASSUME OpsAssumption == MaxOps \in Nat
ASSUME BeforeAssumption == Before \subseteq 0..Cap

VARIABLES
    phase,    \* main: "down", "running", "flushing", "draining"
    log,      \* m.entries and m.nextID of each pod
    dirty,    \* s.dirty
    asked,    \* number of requests made so far
    inflight, \* requests whose handler runs
    marking,  \* requests recorded in the ring, s.dirty not set yet
    flush,    \* the Flush calls of each pod: the ticker's and main's
    cm,       \* the ConfigMap: what its blob holds
    exists,   \* the ConfigMap exists
    disturbed \* history: since it started, a call of the pod failed, or another
              \* pod wrote the ConfigMap

podVars == <<phase, log, dirty, inflight, marking>>
vars == <<podVars, asked, flush, cm, exists, disturbed>>

Flushers == {"ticker", "main"}
Earlier == 0    \* a request of an earlier day
Entry == [id : Nat, op : {Earlier} \cup 1..MaxOps]

\* auditBlob: the ring and the next id
Log == [entries : Seq(Entry), nextID : Nat]
Empty == [entries |-> <<>>, nextID |-> 0]
Left(n) == [entries |-> [i \in 1..n |-> [id |-> i, op |-> Earlier]], nextID |-> n]

\* A Flush: not running, called, holding a snapshot, holding the ConfigMap too
FlushState == [at : {"idle", "called", "snapped", "got"}, log : Log, fresh : BOOLEAN]
NoFlush == [at |-> "idle", log |-> Empty, fresh |-> FALSE]
Called == [NoFlush EXCEPT !.at = "called"]

Up(p) == phase[p] # "down"

\* A fault: a full ring keeps its oldest entries.
Oldest(s, n) == IF Len(s) > n THEN SubSeq(s, 1, n) ELSE s

Newest(s, n) == IF Len(s) > n THEN SubSeq(s, Len(s) - n + 1, Len(s)) ELSE s

-----------------------------------------------------------------------------
(* MemoryStore *)

Record(l, op) ==
    [entries |-> Newest(Append(l.entries, [id |-> l.nextID + 1, op |-> op]), Cap),
     nextID |-> l.nextID + 1]

\* A fault: the ids go on from the oldest entry.
RestoreOldest(l) == [entries |-> Newest(l.entries, Cap), nextID |-> l.nextID - Cap]

\* A fault: the ids start again.
RestoreEntries(l) == [entries |-> Newest(l.entries, Cap), nextID |-> Len(l.entries)]

Restore(l) == [entries |-> Newest(l.entries, Cap), nextID |-> l.nextID]

-----------------------------------------------------------------------------
(* Requests *)

\* The server accepts requests until srv.Shutdown.
Request(p) ==
    /\ phase[p] \in {"running", "flushing"}
    /\ asked < MaxOps
    /\ asked' = asked + 1
    /\ inflight' = [inflight EXCEPT ![p] = @ \cup {asked'}]
    /\ UNCHANGED <<phase, log, dirty, marking, flush, cm, exists, disturbed>>

\* The handler returns, AuditRecorder calls Record: first the ring ...
AppendEntry(p, op) ==
    /\ Up(p) /\ op \in inflight[p]
    /\ log' = [log EXCEPT ![p] = Record(@, op)]
    /\ inflight' = [inflight EXCEPT ![p] = @ \ {op}]
    /\ marking' = [marking EXCEPT ![p] = @ \cup {op}]
    /\ UNCHANGED <<phase, dirty, asked, flush, cm, exists, disturbed>>

\* A fault: a Flush under way is trusted to take the entry along.
MarkDirtyUnlessFlushing(p, op) ==
    /\ Up(p) /\ op \in marking[p]
    /\ dirty' = [dirty EXCEPT ![p] = @ \/ flush[p]["ticker"].at = "idle"]
    /\ marking' = [marking EXCEPT ![p] = @ \ {op}]
    /\ UNCHANGED <<phase, log, inflight, asked, flush, cm, exists, disturbed>>

\* ... then the flag.
MarkDirty(p, op) ==
    /\ Up(p) /\ op \in marking[p]
    /\ dirty' = [dirty EXCEPT ![p] = TRUE]
    /\ marking' = [marking EXCEPT ![p] = @ \ {op}]
    /\ UNCHANGED <<phase, log, inflight, asked, flush, cm, exists, disturbed>>

\* The handler panics through AuditRecorder: nothing is recorded.
Panic(p, op) ==
    /\ Up(p) /\ op \in inflight[p]
    /\ inflight' = [inflight EXCEPT ![p] = @ \ {op}]
    /\ UNCHANGED <<phase, log, dirty, marking, asked, flush, cm, exists, disturbed>>

-----------------------------------------------------------------------------
(* Flush *)

SetFlush(p, f, s) == flush' = [flush EXCEPT ![p][f] = s]

\* Run: if s.dirty.Swap(false) { s.Flush }
Tick(p) ==
    /\ Up(p) /\ dirty[p] /\ flush[p]["ticker"].at = "idle"
    /\ dirty' = [dirty EXCEPT ![p] = FALSE]
    /\ SetFlush(p, "ticker", Called)
    /\ UNCHANGED <<phase, log, inflight, marking, asked, cm, exists, disturbed>>

Snapshot(p, f) ==
    /\ flush[p][f].at = "called"
    /\ SetFlush(p, f, [at |-> "snapped", log |-> log[p], fresh |-> FALSE])
    /\ UNCHANGED <<podVars, asked, cm, exists, disturbed>>

\* Get answers with the ConfigMap, or that there is none.
GetConfigMap(p, f) ==
    /\ flush[p][f].at = "snapped"
    /\ SetFlush(p, f, [flush[p][f] EXCEPT !.at = "got", !.fresh = TRUE])
    /\ UNCHANGED <<podVars, asked, cm, exists, disturbed>>

\* A fault: a successful write clears s.dirty.
PutClears(p, f) ==
    /\ flush[p][f].at = "got" /\ flush[p][f].fresh
    /\ cm' = flush[p][f].log
    /\ exists' = TRUE
    /\ flush' = [q \in Pods |-> [g \in Flushers |->
                    IF q = p /\ g = f THEN NoFlush
                    ELSE [flush[q][g] EXCEPT !.fresh = FALSE]]]
    /\ disturbed' = [q \in Pods |-> disturbed[q] \/ (q # p /\ Up(q))]
    /\ dirty' = [dirty EXCEPT ![p] = FALSE]
    /\ UNCHANGED <<phase, log, inflight, marking, asked>>

\* Update or Create succeeds: nobody wrote the ConfigMap since Get.  Every other
\* Flush now holds a resourceVersion (or an absence) of the past.
Put(p, f) ==
    /\ flush[p][f].at = "got" /\ flush[p][f].fresh
    /\ cm' = flush[p][f].log
    /\ exists' = TRUE
    /\ flush' = [q \in Pods |-> [g \in Flushers |->
                    IF q = p /\ g = f THEN NoFlush
                    ELSE [flush[q][g] EXCEPT !.fresh = FALSE]]]
    /\ disturbed' = [q \in Pods |-> disturbed[q] \/ (q # p /\ Up(q))]
    /\ UNCHANGED <<podVars, asked>>

\* Get fails, the write meets a conflict or AlreadyExists, or fails: a warning in
\* the log, and Flush returns.
FlushFails(p, f) ==
    /\ flush[p][f].at \in {"snapped", "got"}
    /\ SetFlush(p, f, NoFlush)
    /\ disturbed' = [disturbed EXCEPT ![p] = TRUE]
    /\ UNCHANGED <<podVars, asked, cm, exists>>

-----------------------------------------------------------------------------
(* main *)

\* NewConfigMapStore: load, then serve
StartWith(p, l, lost) ==
    /\ ~Up(p)
    /\ phase' = [phase EXCEPT ![p] = "running"]
    /\ log' = [log EXCEPT ![p] = l]
    /\ disturbed' = [disturbed EXCEPT ![p] = lost]
    /\ UNCHANGED <<dirty, inflight, marking, asked, flush, cm, exists>>

Start(p) == StartWith(p, IF exists THEN Restore(cm) ELSE Empty, FALSE)

\* load cannot read the ConfigMap: "start fresh"
StartFresh(p) == StartWith(p, Empty, TRUE)

\* SIGTERM: main calls Flush while the server and the ticker go on.
Terminate(p) ==
    /\ phase[p] = "running"
    /\ phase' = [phase EXCEPT ![p] = "flushing"]
    /\ SetFlush(p, "main", Called)
    /\ UNCHANGED <<log, dirty, inflight, marking, asked, cm, exists, disturbed>>

\* srv.Shutdown: no new requests
Shutdown(p) ==
    /\ phase[p] = "flushing" /\ flush[p]["main"].at = "idle"
    /\ phase' = [phase EXCEPT ![p] = "draining"]
    /\ UNCHANGED <<log, dirty, inflight, marking, asked, flush, cm, exists, disturbed>>

\* The process is gone, with everything it kept in memory.
Gone(p) ==
    /\ phase' = [phase EXCEPT ![p] = "down"]
    /\ log' = [log EXCEPT ![p] = Empty]
    /\ dirty' = [dirty EXCEPT ![p] = FALSE]
    /\ inflight' = [inflight EXCEPT ![p] = {}]
    /\ marking' = [marking EXCEPT ![p] = {}]
    /\ flush' = [flush EXCEPT ![p] = [f \in Flushers |-> NoFlush]]
    /\ disturbed' = [disturbed EXCEPT ![p] = FALSE]
    /\ UNCHANGED <<asked, cm, exists>>

\* Every request was answered, or the 15 seconds are over.
Exit(p) == phase[p] = "draining" /\ Gone(p)

\* Killed: out of memory, a failed probe, the node
Crash(p) == phase[p] \in {"running", "flushing"} /\ Gone(p)

-----------------------------------------------------------------------------
Init ==
    /\ phase = [p \in Pods |-> "down"]
    /\ log = [p \in Pods |-> Empty]
    /\ dirty = [p \in Pods |-> FALSE]
    /\ asked = 0
    /\ inflight = [p \in Pods |-> {}]
    /\ marking = [p \in Pods |-> {}]
    /\ flush = [p \in Pods |-> [f \in Flushers |-> NoFlush]]
    /\ \E n \in Before : cm = Left(n) /\ exists = (n > 0)
    /\ disturbed = [p \in Pods |-> FALSE]

Marks(p) == \E op \in marking[p] : MarkDirty(p, op)

Serve(p) ==
    \/ Request(p)
    \/ \E op \in inflight[p] : AppendEntry(p, op) \/ Panic(p, op)
    \/ Marks(p)

FlushStep(p, f) == Snapshot(p, f) \/ GetConfigMap(p, f) \/ Put(p, f) \/ FlushFails(p, f)

Main(p) ==
    \/ Start(p) \/ StartFresh(p)
    \/ Terminate(p) \/ Shutdown(p)
    \/ Exit(p) \/ Crash(p)

Next == \E p \in Pods :
    \/ Serve(p)
    \/ Tick(p)
    \/ \E f \in Flushers : FlushStep(p, f)
    \/ Main(p)

Spec == Init /\ [][Next]_vars

\* The ticker ticks, and its goroutine and the requests' run; calls are answered.
Fairness == \A p \in Pods :
    /\ WF_vars(Tick(p))
    /\ WF_vars(FlushStep(p, "ticker"))
    /\ WF_vars(Marks(p))

FairSpec == Spec /\ Fairness

-----------------------------------------------------------------------------
(* Properties *)

\* Every variable has its type; a pod that is down holds nothing.
TypeOK ==
    /\ phase \in [Pods -> {"down", "running", "flushing", "draining"}]
    /\ log \in [Pods -> Log]
    /\ dirty \in [Pods -> BOOLEAN]
    /\ asked \in 0..MaxOps
    /\ inflight \in [Pods -> SUBSET (1..MaxOps)]
    /\ marking \in [Pods -> SUBSET (1..MaxOps)]
    /\ flush \in [Pods -> [Flushers -> FlushState]]
    /\ cm \in Log /\ exists \in BOOLEAN
    /\ disturbed \in [Pods -> BOOLEAN]

\* The ids of a ring are consecutive and end at nextID, within its capacity.
Contiguous(l) ==
    /\ Len(l.entries) <= Cap
    /\ \A i \in 1..Len(l.entries) : l.entries[i].id = l.nextID - Len(l.entries) + i

\* The trail has no holes: whatever crashes, overlaps or fails, every ring, every
\* snapshot being flushed and the ConfigMap itself number their entries without
\* a gap or a duplicate, up to the last one (restore goes on from where the
\* ring it loaded stopped).
NoHoles ==
    /\ Contiguous(cm)
    /\ \A p \in Pods : Contiguous(log[p])
    /\ \A p \in Pods, f \in Flushers : Contiguous(flush[p][f].log)

Quiet(p) == phase[p] = "running" /\ ~disturbed[p]

\* The dirty flag is never lost: on a running pod whose flag is down, with no
\* Record half-way and no Flush under way, everything in the ring is in the
\* ConfigMap, unless a call failed or another pod wrote.
CleanMeansPersisted ==
    \A p \in Pods :
        Quiet(p) /\ ~dirty[p] /\ marking[p] = {} /\ flush[p]["ticker"].at = "idle"
            => cm = log[p]

\* l is a later state of the trail k: nothing of k is gone but what l evicted.
Continues(l, k) ==
    /\ k.nextID <= l.nextID
    /\ \A i \in 1..Len(k.entries) :
         k.entries[i].id > l.nextID - Cap => \E j \in 1..Len(l.entries) : l.entries[j] = k.entries[i]

\* A restart continues the trail: what a running pod holds, and so what it will
\* flush over the ConfigMap, contains every entry persisted before it started
\* that the ring has not evicted, unless a call failed or another pod wrote.
TrailContinues == \A p \in Pods : Quiet(p) => Continues(log[p], cm)

Holds(l, op) == \E i \in 1..Len(l.entries) : l.entries[i].op = op

\* Every entry reaches the ConfigMap (or is evicted): once recorded, the trail is
\* flushed while the pod runs, unless a call fails or another pod writes.
EventuallyPersisted ==
    \A op \in 1..MaxOps :
        (\E p \in Pods : op \in marking[p])
            ~> Holds(cm, op) \/ \A p \in Pods : Quiet(p) => ~Holds(log[p], op)

\* "Persist the last audit entries before exit." (main.go): a pod that leaves in
\* good order, every request answered and no call failed, leaves its whole ring
\* in the ConfigMap.
ExitPersists ==
    [][\A p \in Pods :
          phase[p] = "draining" /\ phase'[p] = "down"
          /\ inflight[p] = {} /\ marking[p] = {} /\ ~disturbed[p]
              => cm = log[p]]_vars
==============================================================================
