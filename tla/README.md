# SkyVirt KubeUI: a TLA+ model

KubeUI is one Go binary (chi, client-go) that serves a React console for a
Kubernetes cluster. It keeps little state of its own: an audit trail, a list of
GitOps sources, a forwarding configuration and resource snapshots, all in
ConfigMaps or Secrets of its namespace. What makes it hard to test is concurrency:
browser callbacks, WebSockets, watches that expire, background schedulers, an
apiserver that fails calls, and pods that are replaced while they work.

These modules model that state and those interleavings. TLC checks them on small
instances; TLAPS proves the invariants for every instance.

## Inventory

| Part | State | Operations | Hard behaviour | Right when |
|---|---|---|---|---|
| Watch connection (`useWatch.ts`) | `ws`, `backoff`, `reconnectTimer`, `closed`, `openedAt`, `sawError` per watch | socket callbacks, reconnect timer, visibility, closer | several sockets share one closure; handlers of dying sockets act on the newest | a visible page's watch is never dead, and ends open |
| Live indicator (`useLiveResources`) | last status and sticky `unavailable` per kind and run of the effect | aggregate, pause, resume, another namespace | kinds fail, hide and disappear independently; sockets outlive the run that opened them | "live" means live, and comes back |
| Live list (`useLiveResource.ts`, `useResource.ts`) | rows, current fetch, coalescing timer | delta, signal, fetch, refresh | answers overtaken by signals and by newer fetches | ends equal to the cluster |
| Watch stream (`api/watch.go`, `k8s/watch.go`) | `*rv`, watch.Interface | watch, send, bookmark, restart | watch expires half-way, 410, dropped socket | nothing lost that a signal would have announced |
| Audit trail (`internal/audit`, `api/audit.go`, `main.go`) | ring, `nextID`, dirty flag, ConfigMap | record, flush, load, shutdown | crash, failed flush, two pods, requests in flight at SIGTERM | no holes; what is clean is persisted; restart continues |
| GitOps-lite (`api/gitops.go`, `k8s/gitops*.go`) | sources in a ConfigMap | create, delete, sync, scheduler | list loaded minutes before it is saved; two applies at once | status honest; config untouched; auto sources converge |
| SIEM forwarding (`api/forward.go`) | config, cursor and last result in a Secret | put config, run, record | read-modify-write without a lock; one target of several fails | the cursor skips nothing; nothing waits for ever |
| Drift snapshots (`internal/snapshot`) | index and blobs in a ConfigMap per resource | put, prune, timeline | concurrent puts; order of arrival against time | timeline is the history |
| Protection and apply (`api/protection.go`, `k8s/apply.go`) | an annotation | protect, delete, apply, update | check then act; lookups that fail | a protected object is not destroyed |
| Drain (`k8s/nodes.go`) | pods left to evict | cordon, evict, retry | budgets, deadline, pods replaced under a name | the report tells the truth |
| Gateway (`internal/auth`, `api/authz.go`, `api/auth_handler.go`) | none | authenticate, authorize, exchange | order of middlewares, odd answers | writes need a role; only console tokens leave |
| Pages and dialogs (`web/src/pages`, `components`) | what is fetched, loading and error, open dialogs, busy flags | fetch, change namespace, tab or row, send a write | answers and writes in any order; one flag for several rows and acts | what is shown settles on what is selected; nothing is sent twice; no button stays disabled |
| Table views (`useUrlState`, `usePagination`, `useSortableTable`) | search, labels, sort, page, size in the URL | setters, reload, links | setters that keep an old query; lists that shrink | every page is reachable; what is chosen is shown |
| Selection and bulk actions (`useRowSelection`, `BulkActionBar`) | ticked keys, running flag | tick, execute, runBulk | rows come and go while workers run; writes fail | each item is tried once; the toast is true |
| Workload operations, CRUD handlers, exec, logs, Helm, Velero, Postgres, AI, theme | none or external | one or two calls each | little of their own | |
| Analyzers (`k8s/security.go`, ...), UI libraries (`web/src/lib`) | none | pure functions | edge cases | equal to a reference definition |

How they interact: a page opens one watch per kind (watch connection) and feeds
its list (live list) from the stream; every mutating request passes through
AuditRecorder into the trail; the forwarder reads the trail by time; GitOps and
the apply page share ApplyManifest, which consults protection. Schedulers (audit
flush, GitOps, forwarding, snapshots) run as goroutines beside the requests.

`PROJECT.json` lists each component with its status, every hazard at its line, and
for each definition the lines it models.

## Modules

### WatchConn

The closure of `openWatchConnection`, one per kind, and `useLiveResources` over
several. A closure is a record with the closure's variables; each callback is an
operator from record to record (`OnOpen`, `OnErrorFrame`, `OnClose`, `OnErrorClose`,
`OnTimer`, `OnHide`, `Close`, `Connect`), and each action applies one callback and
recomputes the indicator. Sockets live in slots. The browser's side (when a socket
opens, fails or closes, that `close()` on an opening socket makes it fail) is the
environment. Time is the age of `openedAt`: never, recent, stable (`STABLE_MS`).

The effect of `useLiveResources` depends on the kinds, the namespace and the toggle:
`TearDown` is its cleanup with updates paused, `Remount` its cleanup followed by new
closures with statuses of their own. `conn[m][s]` is the closure of kind `s` in run `m`.
The closers close the socket `ws` holds and no other, and neither `onopen` nor
`onmessage` tests `closed`: a socket that `ws` no longer held lives on, and when it opens
or is told of an error its old run sets the indicator to the aggregate of its own
statuses. `teller` is the run that set the indicator last, and `Haunted` says that it is
not the last run.

- `NeverDead`: visible and not closed implies a socket or a timer is pending.
- `IndicatorHonest`: with updates on, "live" implies an open socket of the last run for
  every available kind, unless `Haunted`.
- `Recovers`, `IndicatorRecovers`: visible page and healthy server lead to an open
  socket for good, and to "live", unless the kind was given up or, for the indicator,
  an old run has the last word.
- `ResetEarned` fails (run `watch_backoff`): `openedAt` survives from an older
  connection, so an attempt that never opened resets the backoff.

`NeverDead` is about pending work, not about a kind given up: WatchResource reports
every error of kind resolution as "not installed", a discovery outage included, and a
closure that is told so never comes back. The model has that frame (`ErrorFrame`); the
properties say "unless given up".

### LiveList

One list end to end: cluster, handler, socket, page. A resourceVersion is an index
in the log of changes. In patch mode a delta changes a row; otherwise it arms the
timer that fetches. `useResource`'s `cancelled` flag is the pair `fetch` (current)
and `old` (superseded).

- `SignalsConverge`: a list fed by signals ends equal to the cluster, except after
  an error shown to the user and except when the last object vanished in a gap.
- `RefreshHeals`: in both modes a later fetch repairs the list for good.
- `NeverBackInTime`: an overtaken answer is never shown.
- `SelfHeals` fails (run `list_heals`): the design document says that in Phase 1, where
  signals make the list fetch, expired watches and dropped connections heal because the
  client fetches on (re)connect. It does not: the property is about that mode only, and a
  list whose last object is deleted while its watch breaks stays wrong, since the next
  watch starts from an empty list and has nothing to signal.

### AuditStore

Each pod's ring, dirty flag, requests in flight and Flush calls, and the ConfigMap.
`Record` is two steps (ring, flag), a Flush four (called, snapshot, Get, write); an
Update succeeds only if nobody wrote since Get (resourceVersion). Entries an earlier
deployment left (`Before`) may fill the ring before the first request. `disturbed` is a
history variable: a call of this pod failed, or another pod wrote. Pods may overlap
and crash at any step.

- `NoHoles`, `TrailContinues`, `CleanMeansPersisted`, `EventuallyPersisted`.
- `ExitPersists` fails (run `audit_exit`): main flushes before it drains.

A Flush that fails does not set the flag again, and a load that fails starts an
empty trail that the next Flush writes over the old one. Both are in the model and
are why three properties are about undisturbed pods.

### GitOps

Sources, the scheduler's job and the SyncSource requests' jobs, the repositories and
the cluster. A repository's content is a revision; the cluster's state of a source is
the revision it equals, or `Mixed` (half-applied, drifted, or two applies at once).
`job[w]` is the local state of load-reconcile-save: every call of `reconcile` is a
step of its own and can fail. Saves hold `h.mu`, take a fresh Get and are one step;
loads outside the lock are not. One pod is assumed: the lock is a process's.

- `StatusHonest`, `DetectOnlyUntouched`, `SyncKeepsSources`.
- `AutoSyncConverges`: once pushes, edits, drift and failures stop, auto-applied
  sources run their last revision, although an older apply or save may come last.
- `WorkersKeepConfig` fails (run `gitops_config`): the scheduler writes back the whole
  list it loaded before it reconciled.

### ForwardSync

One scheduler per pod and PutConfig, over one Secret with the configuration and the
cursor. `task[w]` is the local state of a cycle: `RunLoads`, `RunCollects`, `RunSends`,
`RunRecords` (loadConfig again), then saveConfig as a Get and a Create or Update, which
PutConfig shares. Every call can fail, and a load that fails reads as the default
configuration, as in the code. At the start the configuration is absent or stored.

An entry is its time. `store` is the backend main has chosen: a table, which all pods list
and whose times are cut to the second, so that several entries have one; or a ring in each
pod's memory with times of its own. `trail[p]` is what pod `p` can list. A ring is flushed
to the ConfigMap now and then (`Flush`, in one step: AuditStore has its steps), and a pod
that is replaced starts from what is there, or from nothing if the load fails (`Found`).
`lost` collects the entries some pod could not list, now or once.

`Syslog` are the targets told by datagrams. sendSyslog drops the error of every
`conn.Write` and returns none, so a batch it counts as sent need not have been written,
and nothing is claimed of these targets; `served` is about the others.

- `NoneSkipped`: what the cursor has passed was given to every target of a run but syslog.
- `AuditReaches`: once nothing fails and forwarding is on, so is every entry.

Both exempt three kinds of entry (`Excused`): of the same time as another; pushed off the
page of 1000 before a run saw it; and lost. The last are the unflushed entries of a ring
whose pod died, and, with more than one pod and rings, every entry: each is in one ring,
and the cursor is moved by all. So nothing is promised of several pods without a database.
The code does skip all three, and what syslog does not write, although the comment at
forward.go:190-191 has the SOC get each console action once and the one at forward.go:394
says that a failed send does not advance the cursor. Nor is "once" kept in the other
direction: one failing target, or a lost save of the cursor, sends a batch again to those
that took it. And recordRun saves the configuration it
has just loaded: a PutConfig between its load and its Get is undone
(forward.go:359 says "without clobbering config").

### Drain

`DrainNode` for several drains of one node: cordon, list, passes of evictions by name,
the sleep and the deadline, while pods end and come back and others uncordon. `Evicted`
is by name, so a drain may evict a successor elsewhere; the model has that.

- `NodeEmptied`: nothing remaining in the report means nothing left on the node.
- `DrainEnds`: also under a budget that never yields.

### Protection

One object, its annotation with the managers that set it, and requests to delete,
update or apply that check first and act in a second call. `late` marks a request whose
object became protected after its check, `blind` one whose check was skipped (a kind that
discovery does not resolve, a Get that fails in ApplyManifest).

- `GuardHolds`: protection and life are lost only to requests that are late or blind.
- `EditKeepsProtection`: an edit with a resourceVersion cannot even be late.

### Snapshots

The ring of one resource, filled by snapshotters and SnapshotNow requests: `Begin` notes
the time, `ListKind` reads the resource, `GetRing` and `Store` are Put. An entry knows
only whether it arrived after one taken later (`late`), which is what the order of
Timeline turns on. Pruning may leave fewer than `Keep`, for the size budget.

- `TimelineSettles`: whatever raced or failed, the newest of the timeline ends as the
  resource is.
- `NoRepeat`: no snapshot repeats the one that arrived before it ("deduped by hash
  against the latest", store.go:62), although Put looks and stores in two calls. It is
  proved and not part of a run.

It exempts one case, in which the code does not keep snapshotter.go:51 "a change is
captured within one interval": capture 1 begins and lists content a, capture 2 begins
later, lists b and stores first, capture 1 stores a behind it. Put compares with the last to
arrive, a, so a resource that is a again is not captured, and the timeline, sorted by
time, keeps showing b as its newest.

### Page, Widgets and the Pages modules

`Page` is a machine that runs one page: its feeds (what it fetches) and its acts (what
its user can write). Fetches are started, read by the server and answered in any order;
writes likewise; dialogs open and close; busy flags are set and released; the selection
a feed depends on changes. `Widgets` has a constructor per hook and dialog
(`UseResource`, `UseLiveResource`, `ConfirmAction`, `EditYAMLModal`, `BulkActionBar`, ...): its
fields are what those differ in (a cancelled flag, a loading flag per fetch, an error
that is swallowed, a flag per row or per page). The button in a row that opens a dialog is
disabled by a flag of the page (`rows`: `ByRow`, `ByFlag`), which need not be the flag of
the write the dialog sends. `PagesWorkloads`, `PagesNetworking`,
`PagesConfig`, `PagesOperations` and `PagesObservability` describe every page in these
terms; the map leads from each definition to the hooks, handlers, buttons and JSX it
stands for.

- `EmptyExplained`: a page without an answer says that it is loading or that it failed.
  It may render its empty row beside the failure, and several do ("No deployments",
  Deployments.tsx:378; Pods.tsx:290, ConfigMaps.tsx:269, NodeOperations.tsx:266); it never
  renders that alone.
- `SettlesOnScope`, `NeverBack`: an answer for a former selection, or an older one,
  does not stay.
- `WritesShown`: what the user was told is done is on the screen once all is quiet.
- `OnceEach`: no button sends a write again while it is on its way.
- `LocksReleased`: no busy flag outlives the writes.

Each but the last exempts a set of named pages, feeds and acts, at the end of the Pages
modules; the code there does not have the property, and the sets are a list to
work from:

- `...Unsaid`: a first load or its failure is not rendered, or only as a toast, such as
  `CICD`'s sources, `Drift`'s lists, the inputs of `Cost` and `Monitoring`, the detail of a
  row of `ConfigMaps`. `SiemForwarder` shows the
  defaults when getForwardConfig fails, and its Save button then stores them.
- `...Overtaken`: a fetch without a cancelled flag (YAML tabs, logs, Helm's charts,
  Dashboard, the detail of a row of ConfigMaps).
- `...Unasked`: a detail page that refreshes the object and not the pods or revisions
  its write changes.
- `...Repeats`: acts that can be sent again while on their way (`scale` of Deployments
  and StatefulSets, `suspend`, `taint`, the sources of CICD; in every delete dialog Enter
  sends again what it is sending: `Retyped`).

### ListView

The view of a table in the URL. A setter of `useUrlState` is memoized, so it writes into
the query of the moment the page was mounted (`mount`): that is `Set`.

- `WindowLeads`: the footer offers first, last, current and neighbouring pages, and only
  pages that exist.
- `SizeTakes`: choosing a size works although two setters write into the same query.
- `ShowsChosen` fails (run `view`): search, then turn the sort order, and the search is
  gone. So it is after any other control.

### Bulk and EachOnce

`Bulk` is the selection, the bar and runBulk's workers over a list that changes under
them. `EachOnce` is the abstract specification: an action tries each of its items once
and is over before the next. `TriesEachOnce == Each!Spec` is the refinement
(`left <- queue \cup flying`, `over <- ~running`), checked and proved.

- `NoIdleWorker`: a failure does not stop its worker.
- `ToastTrue`: "complete" only if nothing failed.

Not wrong by these properties, but visible in the model: ticked keys of rows that left
stay selected and count again when a row of that name returns; rows ticked during a run are
cleared at its end; the bar vanishes when its rows leave.

### MCConsole and MCServer

These extend parts that share no state: `part` is chosen at the start, the others stand
still. One run each keeps the constants and the fairness of a half of the system
together. The cfg of MCConsole gives `Page` the tables of the Pages modules
(`Pages <- AllPages`, `Unsaid <- AllUnsaid`, ...).

`Page` states as assumptions what its proofs need of a page (next section). TLC
evaluates them at the start of `ui` and `view` on every page of the console, so they are
checked facts about these pages, and not only hypotheses.

## Runs and bounds

| Run | Instance | Shows |
|---|---|---|
| `watch` | 1 kind, 2 sockets, backoff 1..2, 2 runs of the effect | all socket races of one closure, and of an old one against a new one |
| `watch_page` | 2 kinds, one not installed, 1 socket each, 1 run of the effect | the aggregate |
| `watch_backoff` | 1 kind, 2 sockets, backoff 1..4, 1 run of the effect | `ResetEarned` violated |
| `list` | 2 objects, 3 changes, 1 message in flight | convergence, repair |
| `list_heals` | same | `SelfHeals` violated, in the mode of signals |
| `audit` | 2 pods, ring of 2 found full, 2 requests | holes, eviction, lost flag, overlap, crash |
| `audit_exit` | 1 pod, ring of 2 found with up to 1 entry, 2 requests | `ExitPersists` violated |
| `gitops` | 1 source, scheduler and 1 request, 2 revisions, 2 edits | two workers on one source |
| `gitops_config` | 2 sources, 1 edit | `WorkersKeepConfig` violated |
| `ui` | every page, per behaviour one feed with at most one act or two acts that share a flag; 2 rows, 2 scopes, 3 fetches, 2 writes with a feed, 3 without; tables of 0, 20 and 260 rows, 3 changes; 3 keys and 2 workers | pages, tables, bulk actions |
| `view` | the tables alone | `ShowsChosen` violated |
| `server` | 1 scheduler and PutConfig, a table or a ring, 2 targets of which 1 is syslog, both or none chosen, 3 entries on a page of 2, 1 edit; 2 drains, 2 pod names of which 1 exempt; 2 requests on an object; 1 snapshotter and 1 SnapshotNow, 3 contents of which 1 skipped, a ring of 2, 2 changes | forwarding, drain, protection, snapshots |

Why these suffice: a closure only tells "the socket `ws` holds" from the others, so two
sockets are the current one and one it has lost. With two runs of the effect they are
also one that the closed run has left behind and one of the run that shows. A third
socket is a second leaked one, whose events are those of the first. Backoff 1..2 has a
value below the cap and the cap itself. In `watch_page` the question is the aggregate, so
each kind has one socket and the effect runs once: what a second run adds is in `watch`. Three changes with one object present at the start allow a create, an
update and a delete of either object in a gap; one message in flight is enough to be
lost or to be late, since messages do not overtake each other. At most two
fetches are on their way at once (`Refetch`): a superseded answer is ignored whatever
its number. A ring of two has neighbours between which a gap or a duplicate would
show, and found full it evicts with every request; two requests replace it entirely. The
second pod gives overlap and conflicts, and a pod can be started again after it stops. Two workers are what
the GitOps code can have on a source that differ in kind.

In `ui`, feeds of a page do not share state, and acts meet in pairs, over a flag or over
a dialog; so a run needs no more than one feed or two acts at a time. Three fetches are one
overtaken, one overtaking and one that a write asks for; two scopes are the old and the
new. Three writes are two on two rows that share a flag and one sent after the flag is
wrongly free. 260 rows at 25 a page are 11 pages, more than the 7 the footer shows
whole; 20 rows are fewer than a page; 0 is the edge. Rows and keys are only compared,
never ordered, so `Symmetry` over the rows is sound. Three keys and two workers give an item
that waits.

In `server`, one scheduler suffices since pods that share a table meet only in the Secret,
where the other writer is PutConfig, and a pod that restarts half-way leaves the same
traces; the theorem `CursorSkipsOnlyExcused` has any number. A page of 2 under 3 entries
pushes one off. One edit turns forwarding off, on, or the audit signal off, from a
configuration that is absent or stored; two targets are syslog and one that is not.
Two drains and two requests are an actor and a disturber. A ring of 2 is pruned by the
third capture.

The theorems below do not depend on these bounds. Deadlock is checked except in GitOps,
where a system with no source and no user has nothing to do, and in MCConsole and
MCServer, whose behaviours stop when the bounded counters are used up, a drain has
reported or a page is at rest.

Each property has a mutant: a plausible fault in one operator (`A fault:` in the
modules), under which TLC finds that property violated.

## Fairness

- WatchConn: timers fire and the browser settles sockets (WF). SF on `Opens`:
  an attempt takes less time than the backoff, so retries are not all cut off by an
  older socket's close event. Runs of the effect are not told apart: a slot belongs to one
  at a time, and only the last has timers. Visibility, pauses and the server are free.
- LiveList: the handler pumps, the socket delivers, timers fire, the connection comes
  back (WF, the last is `Recovers`). SF on the answer to the current fetch: a user who
  keeps refreshing cannot cancel every answer for ever. The cluster and the
  user owe nothing.
- AuditStore: the ticker ticks, its Flush and the request's goroutine go on (WF);
  starting, crashing and requests are free.
- GitOps: a worker goes on (WF); a stored source becomes due again and again (SF, since
  its interval passes between ticks that serve other sources).

- MCServer: the schedulers' loops and their calls go on; a drain that has begun goes on
  and its deadline passes; a snapshotter ticks and a capture that has begun goes on (WF).
  Requests of users owe no start, and everything may fail until `rests` or `settled`.
- MCConsole states no liveness, and so no fairness: a user owes nothing.

`calm` in LiveList and GitOps, `rests` in ForwardSync and `settled` in Snapshots mark the
point after which the environment stops failing and changing; it may never come, and
liveness is stated from it on.

## Proofs

The `_proofs` modules prove every safety invariant and every action property the passing
runs check, for all values of the constants. The assumptions are the ones the modules
name: non-empty or finite sets, positive capacities and bounds, distinct model values
and, for `Page`, what the pages have. `Console_proofs` holds Bulk, ListView and the
console as a whole, `Server_proofs` Drain, Protection, Snapshots and the gateway as a
whole:

| Theorem | Inductive invariant and why it is needed |
|---|---|
| WatchConn: `TypeCorrect`, `WatchNeverDead`, `IndicatorIsHonest` | `IInv`: a running closure that shows "live" has an open socket; while updates are on and no old run has had the last word, the indicator is the aggregate of the last run's closures; of those only one marked unavailable is closed, and all those of other runs are. The indicator is computed at each status call, so the proof shows that handlers which do not call `onStatus` leave statuses alone. |
| AuditStore: `TypeCorrect`, `TrailHasNoHoles`, `CleanIsPersisted`, `RestartContinues` | `IInv`: contiguous ids in ring, snapshots and ConfigMap; nothing persisted while there is no ConfigMap; and per undisturbed pod, what each Flush carries lies between the ConfigMap and the ring, and an unflushed ring is dirty, being marked, or in a ticker's Flush. |
| GitOps: `TypeCorrect`, `StatusIsHonest`, `DetectOnlyIsUntouched`, `SyncKeepsTheSources` | `IInv`: every stored source and every copy a worker holds is honest and, if auto-applied, consented to; a worker past the fetch has cleared the error of its copy; one that applies works on an auto source that is not in sync. The property is about the store, but copies are saved over it, so the copies carry it. |
| LiveList: `TypeCorrect`, `NeverGoesBack` | `IInv`: an answer on its way to the page is of a moment that has been, and not older than the list's snapshot. Rows come from `StateAt`, a choice of the last change, so the proof needs that a set of numbers with a bound has a largest (`Largest`, by well-foundedness). |
| ForwardSync: `ForwardTypeCorrect`, `CursorSkipsOnlyExcused` | `ForwardInv`: the times grow by at most one; what a pod does not list is lost; every cursor is no newer than the last entry and has passed nothing that is neither sent nor lost, that of the Secret and those of the copies the writers hold (they are saved over each other); a batch that is about to be sent makes such a cursor of its newest time. |
| Drain: `DrainTypeCorrect`, `DrainEmptiesNode` | `DrainInv`: while nobody has uncordoned since a drain began, the node is cordoned, and from the list on the pods on it are among the remaining ones. |
| Protection: `GuardTypeCorrect`, `TheGuardHolds`, `EditsKeepProtection` | `GuardInv`: what the check let pass would pass now, for a request that acts and is neither late nor blind, and for any edit whose version is current. |
| Snapshots: `SnapTypeCorrect`, `TheRingHasNoRepeat` | `SnapInv`: what a captor has listed could be stored. `RingInv`: a captor that may still store, its ConfigMap being current, has seen a ring that does not end with what it holds; a store makes every other captor's ConfigMap old, and pruning keeps neighbours neighbours. |
| Bulk: `BulkTypeCorrect`, `WorkersKeepBusy`, `TheToastIsTrue`, `BarTriesEachOnce` | `BulkInv`: items waiting, on their way and tried are disjoint; outside a run none is waiting; an action to confirm excludes a run. The last theorem is the step simulation of EachOnce. |
| ListView: `ViewTypeCorrect`, `TheWindowLeads`, `TheSizeTakes` | `ViewInv`: a view that is paged never has the size zero, neither in the query of now nor in the one of the mount, which setters bring back: `PageCount` divides by it. The window is proved for every page and page count, by the cases of its clamped ends. |
| Page: `PageTypeCorrect`, `EmptinessIsExplained`, `ItSettlesOnScope`, `ItNeverGoesBack`, `WritesAreShown`, `SentOnceEach`, `LocksAreReleased` | `PageAll`, below. |
| MCConsole, MCServer: `ConsoleIsItsParts`, `ConsoleTypeCorrect`, `ConsoleKeepsItsPromises`; `ServerIsItsParts`, `ServerTypeCorrect`, `ServerKeepsItsPromises` | None: a step of the whole is a step of one part that leaves the others' variables alone, so the whole implements the specification of each, and inherits its theorems. |

### The inductive invariant of Page

None of the properties of `Page` is inductive: each is about a page at rest, or about
what is shown, and rests on something about the requests that are still on their way.

- `SaysWhy`, for `EmptyExplained`: a feed that shows nothing yet is loading or has failed,
  by the flags of the hook; which of them the screen reads is the page's.
- `InOrder`, for `NeverBack`: at most one fetch is on its way whose answer counts, and once
  the server has read for it, it is no older than what is shown.
- `Heading`, for `SettlesOnScope`: every fetch that counts is for what is selected; with
  none, what is shown is, or the feed has failed.
- `Told`, for `WritesShown`: a fetch that counts and has been read, or with none what is
  shown, is no older than the last write the user was told is done.
- `Held`, for `LocksReleased`: a busy flag that is set has a write of its on its way.
- `OnePerInstance` and `OneForAll`, for `OnceEach`: an act whose flag is its dialog's or
  row's own is on its way once for each; if all acts that share a flag wait for it, one
  write of them all is on its way, with its flag set, its dialog the only one open.

They need of a page what the code of that page has, unless the page, feed or act is in the
exempt sets: `UnsaidAssumption` (loading and error are set and rendered),
`OvertakenAssumption` (old answers are dropped, or there are never two),
`SettlesAssumption`, `UnaskedAssumption` (a write refreshes what it changes) and
`RepeatsAssumption` (an act waits for its flag, as do those it shares it with). So the
theorems say which of the page's fields carry a property, for pages yet to be written as
well: a new page needs no run of the machine, only that its fields satisfy the assumptions.

### Only model-checked

Liveness, which needs fairness and `ENABLED`: `Recovers`, `IndicatorRecovers`,
`SignalsConverge`, `RefreshHeals`, `EventuallyPersisted`, `AutoSyncConverges`,
`AuditReaches`, `DrainEnds`, `TimelineSettles`. And the five properties that fail.

## Not modelled, and why

- Handlers that make one apiserver call and convert the answer (resource CRUD, workload
  operations, labels and taints), exec and logs: no state of their own between two steps.
- The gateway's authentication and authorization: one decision per request.
- Programs KubeUI runs (git, helm, velero) beyond their success or failure; Postgres and
  its migrations; the language model; the theme.
- Analyzers, diff, drift and form libraries: pure functions of one listing, which their
  unit tests reach.
- In the browser: `Login`, `DesignTokens`, the list of integrations kept in local storage,
  the terminal's and PodDetail's exec socket, charts, columns and the texts of forms.
- In the parts modelled: field-level diffing of manifests, the text of audit entries, JSON
  and gzip, sizes beyond a budget being exceeded, token handling of sockets, who changed
  a snapshot (matchAudit), the forwarding signals other than audit (sent whole every
  time), manifests of several documents (several requests one after the other).
  `wouldChange` is modelled by its answer: in sync iff the cluster runs the manifests.

## Further differences between code and text

Met while modelling, outside what a run checks:

- A socket that an old run of `useLiveResources`' effect has left behind can set the
  indicator of a page that is paused or shows another namespace (`Haunted`), and stays open,
  although useWatch.ts:132 says "Closes on unmount, when disabled" and
  DESIGN-realtime-watch.md:93 that the "frontend closes the WS on unmount / route change".
- NodeLabels removes a label by a merge patch without the key, which keeps it, though the
  toast says "Label removed".
- CreateServiceModal drops `appProtocol` when it edits a service (CHANGELOG.md:643-647).
- The backdrop of CreateYAML closes it (CHANGELOG.md:429-430).
- VeleroConsole.tsx:86-95 deletes with the tab of the moment the dialog opened.
- Refresh on Cost, Diagnostics, Monitoring, the heatmap, the resource map and the service
  mesh asks again for one feed only; the Dashboard's banner does not count its security
  sources' failures.
