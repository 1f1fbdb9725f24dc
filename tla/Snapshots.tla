------------------------------ MODULE Snapshots ------------------------------
(***************************************************************************)
(* The drift timeline of one resource of a tracked namespace               *)
(* (internal/snapshot): the snapshotter of each pod and SnapshotNow        *)
(* requests list the resource, and append what they saw to a ring in a     *)
(* ConfigMap, unless it is what the ring ends with.                        *)
(***************************************************************************)
EXTENDS Naturals, Sequences

CONSTANTS Contents,    \* what the resource can be, noise stripped
          Skipped,     \* of those: no resource, or too large to store
          Captors,     \* what captures: snapshotters and SnapshotNow requests
          Tickers,     \* of those: the snapshotters, which capture again and again
          Keep,        \* maxSnapshotsPerResource
          MaxChanges   \* changes of the resource, bounds the model

ASSUME SnapshotAssumption ==
  /\ Skipped \subseteq Contents /\ Tickers \subseteq Captors
  /\ Keep \in Nat \ {0} /\ MaxChanges \in Nat

VARIABLES live,      \* the resource
          changes,   \* how often it has changed
          ring,      \* the ConfigMap's index, in the order of arrival; empty: none
          capture,   \* what each captor is doing
          settled    \* nothing changes or fails any more

snapVars == <<live, changes, ring, capture, settled>>

\* A stored snapshot; late: one taken after it was stored before it.
Snapshot == [content : Contents \ Skipped, late : BOOLEAN]

\* Of a captor: how far it is, what it has listed, whether the ConfigMap is
\* still the one it got, whether a capture begun later has stored before it,
\* and which captures had begun before.
Capture == [at : {"idle", "begun", "listed", "got"}, content : Contents,
            current : BOOLEAN, overtaken : BOOLEAN, after : SUBSET Captors]

SnapTypeOK ==
  /\ live \in Contents /\ changes \in 0 .. MaxChanges /\ settled \in BOOLEAN
  /\ ring \in Seq(Snapshot) /\ Len(ring) <= Keep
  /\ capture \in [Captors -> Capture]

Resting(c) == [capture[c] EXCEPT !.at = "idle", !.current = FALSE, !.overtaken = FALSE,
                                 !.after = {}]

-----------------------------------------------------------------------------
\* SnapshotNamespace notes the time, which becomes that of its snapshots.
Begin(c) ==
  /\ capture[c].at = "idle"
  /\ capture' = [d \in Captors |->
       IF d = c THEN [capture[c] EXCEPT !.at = "begun",
                                        !.after = {e \in Captors : capture[e].at # "idle"}]
       ELSE [capture[d] EXCEPT !.after = @ \ {c}]]
  /\ UNCHANGED <<live, changes, ring, settled>>

\* List of the kind; what is too large is dropped by Put before it gets anything.
ListKind(c) ==
  /\ capture[c].at = "begun"
  /\ capture' = [capture EXCEPT ![c] = IF live \in Skipped THEN Resting(c)
                                       ELSE [@ EXCEPT !.at = "listed", !.content = live]]
  /\ UNCHANGED <<live, changes, ring, settled>>

\* A fault: the hash is looked for in the whole ring.
KnownAnywhere(content) == \E i \in DOMAIN ring : ring[i].content = content

\* The hash of the last snapshot that arrived.
Known(content) == ring # <<>> /\ ring[Len(ring)].content = content

\* Put: Get of the ConfigMap, and nothing more if the last snapshot is the same.
GetRing(c) ==
  /\ capture[c].at = "listed"
  /\ capture' = [capture EXCEPT ![c] = IF Known(capture[c].content) THEN Resting(c)
                                       ELSE [@ EXCEPT !.at = "got", !.current = TRUE]]
  /\ UNCHANGED <<live, changes, ring, settled>>

\* The newest of a ring, as many as there may be or as the size budget allows.
Pruned(r) ==
  {SubSeq(r, Len(r) - n + 1, Len(r)) : n \in 1 .. IF Len(r) < Keep THEN Len(r) ELSE Keep}

\* Create, or Update of the version that was got; otherwise a conflict, and the
\* snapshot is dropped.
Store(c) ==
  /\ capture[c].at = "got"
  /\ IF capture[c].current
     THEN /\ ring' \in Pruned(Append(ring, [content |-> capture[c].content,
                                            late |-> capture[c].overtaken]))
          /\ capture' = [d \in Captors |->
               IF d = c THEN Resting(c)
               ELSE [capture[d] EXCEPT !.current = FALSE,
                                       !.overtaken = @ \/ d \in capture[c].after,
                                       !.after = @ \ {c}]]
     ELSE capture' = [capture EXCEPT ![c] = Resting(c)] /\ UNCHANGED ring
  /\ UNCHANGED <<live, changes, settled>>

\* A call fails, or the pod is replaced.
CaptureFails(c) ==
  /\ ~settled /\ capture[c].at # "idle"
  /\ capture' = [capture EXCEPT ![c] = Resting(c)]
  /\ UNCHANGED <<live, changes, ring, settled>>

Changes ==
  /\ ~settled /\ changes < MaxChanges /\ changes' = changes + 1
  /\ live' \in Contents \ {live}
  /\ UNCHANGED <<ring, capture, settled>>

Settles ==
  /\ ~settled /\ settled' = TRUE
  /\ UNCHANGED <<live, changes, ring, capture>>

-----------------------------------------------------------------------------
SnapInit ==
  /\ live \in Contents /\ changes = 0 /\ ring = <<>> /\ settled = FALSE
  /\ capture = [c \in Captors |-> [at |-> "idle", content |-> live, current |-> FALSE,
                                   overtaken |-> FALSE, after |-> {}]]

CaptureStep(c) == ListKind(c) \/ GetRing(c) \/ Store(c)

SnapNext ==
  \/ \E c \in Captors : Begin(c) \/ CaptureStep(c) \/ CaptureFails(c)
  \/ Changes \/ Settles

SnapSpec == SnapInit /\ [][SnapNext]_snapVars

-----------------------------------------------------------------------------
\* Timeline, sorted by time taken: the newest, or none.
Shown ==
  LET intime == {i \in DOMAIN ring : ~ring[i].late}
      newest == IF intime = {} THEN Len(ring) ELSE CHOOSE i \in intime : \A j \in intime : j <= i
  IN  {ring[i].content : i \in {newest} \ {0}}

\* Put's dedupe holds across its two calls: however captures interleave, no
\* snapshot is what the one that arrived before it was.
NoRepeat == \A i \in 1 .. Len(ring) - 1 : ring[i].content # ring[i + 1].content

\* The timeline ends with the resource as it is, whatever changed, failed,
\* raced or was dropped before; unless the last snapshot to arrive was taken
\* before another one: a resource that is back to that is not captured again.
TimelineSettles ==
  settled /\ live \notin Skipped
    ~> [](Known(live) /\ (Shown = {live} \/ ring[Len(ring)].late))
=============================================================================
