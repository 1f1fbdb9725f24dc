------------------------------- MODULE LiveList -------------------------------
(***************************************************************************)
(* A live resource list, end to end: the cluster's objects, the server's   *)
(* watch stream (WatchHandler.Watch, streamWatch), the socket, and the     *)
(* page's list (useLiveResource over useResource).                         *)
(*                                                                         *)
(* A resourceVersion is an index into the log of changes, 0 is "".  A row  *)
(* is the resourceVersion of the object state it shows, 0 is no row.  In   *)
(* patch mode (keyOf given: Pod, Deployment, Service) a delta patches the  *)
(* list in place; otherwise it is a signal to fetch the list again.  The   *)
(* socket is abstracted to up or down: WatchConn has its life in detail.   *)
(***************************************************************************)
EXTENDS Naturals, Sequences

CONSTANTS
    Objs,       \* object names of the kind
    MaxChanges, \* bound: changes made to the cluster
    MaxWire     \* bound: messages in flight on the socket

ASSUME ObjsAssumption == Objs # {}
ASSUME BoundAssumption == MaxChanges \in Nat \ {0} /\ MaxWire \in Nat \ {0}

VARIABLES
    log,        \* the changes of the kind: [obj, gone], log[rv]
    up,         \* the WebSocket is up
    watching,   \* the server's watch.Interface is established
    rv,         \* *rv of the handler
    initial,    \* objects of the watch's initial list not yet sent
    pos,        \* the watch has delivered the log up to here
    wire,       \* messages on the socket: [obj, row]
    patch,      \* the page uses typed deltas
    rows,       \* the list shown
    base,       \* the snapshot of the last fetch applied
    fetch,      \* the current fetch of useResource
    old,        \* the fetch it superseded (cancelled = true)
    timer,      \* the coalescing timer is armed
    calm        \* from here on nothing changes, fails or disconnects

serverVars  == <<watching, rv, initial, pos>>
clientVars  == <<rows, base, fetch, old, timer>>
vars == <<log, up, watching, rv, initial, pos, wire, patch,
          rows, base, fetch, old, timer, calm>>

Now == Len(log)

\* The state of the cluster after n changes, as a list of rows
StateAt(n) ==
    [o \in Objs |->
        LET touched == {i \in 1..n : log[i].obj = o}
            last == CHOOSE i \in touched : \A j \in touched : j <= i
        IN  IF touched = {} \/ log[last].gone THEN 0 ELSE last]

\* A fetch: none, asked of the server, answered with the snapshot of a moment, or
\* failed: useResource shows the error until a later fetch is answered.
Idle == [state |-> "idle", at |-> 0]
Asked == [state |-> "asked", at |-> 0]
Failed == [state |-> "failed", at |-> 0]
Answered(n) == [state |-> "answered", at |-> n]
Fetch == [state : {"idle", "asked", "answered", "failed"}, at : 0..MaxChanges]

-----------------------------------------------------------------------------
(* The cluster *)

Change(o) ==
    /\ ~calm
    /\ Now < MaxChanges
    /\ \E gone \in BOOLEAN :
         /\ gone => StateAt(Now)[o] # 0
         /\ log' = Append(log, [obj |-> o, gone |-> gone])
    /\ UNCHANGED <<up, wire, patch, calm, serverVars, clientVars>>

-----------------------------------------------------------------------------
(* The server's end of the socket *)

\* The client connects: a new handler, *rv = "".
Connects ==
    /\ ~up
    /\ up' = TRUE
    /\ watching' = FALSE
    /\ rv' = 0
    /\ initial' = {}
    /\ pos' = 0
    /\ wire' = <<>>
    /\ UNCHANGED <<log, patch, calm, clientVars>>

\* WatchResource: from "" the watch starts with the objects that exist, from a
\* version it continues after it.
Watches ==
    /\ up /\ ~watching
    /\ watching' = TRUE
    /\ initial' = IF rv = 0 THEN {o \in Objs : StateAt(Now)[o] # 0} ELSE {}
    /\ pos' = IF rv = 0 THEN Now ELSE rv
    /\ UNCHANGED <<log, up, wire, patch, calm, clientVars, rv>>

\* A watch.Error event: a version too old is refused (410 Gone), or the watch
\* breaks.  Start over from "".
WatchError ==
    /\ up
    /\ \/ ~watching /\ rv # 0
       \/ watching /\ ~calm
    /\ watching' = FALSE
    /\ rv' = 0
    /\ initial' = {}
    /\ pos' = 0
    /\ UNCHANGED <<log, up, wire, patch, calm, clientVars>>

\* The apiserver ends the watch: watch again from *rv.
WatchExpires ==
    /\ up /\ watching /\ ~calm
    /\ watching' = FALSE
    /\ initial' = {}
    /\ pos' = 0
    /\ UNCHANGED <<log, up, wire, patch, calm, clientVars, rv>>

Send(o, row) == Len(wire) < MaxWire /\ wire' = Append(wire, [obj |-> o, row |-> row])

\* One object of the initial list, an ADDED event; they come in any order.
StateWhenWatched(o) == StateAt(pos)[o]

SendInitial(o) ==
    /\ up /\ watching
    /\ o \in initial
    /\ Send(o, StateWhenWatched(o))
    /\ initial' = initial \ {o}
    /\ rv' = StateWhenWatched(o)
    /\ UNCHANGED <<log, up, watching, pos, patch, calm, clientVars>>

\* A fault: the resourceVersion kept is one ahead of the event sent.
SendEventAhead ==
    /\ up /\ watching
    /\ initial = {} /\ pos < Now
    /\ LET e == log[pos + 1] IN Send(e.obj, IF e.gone THEN 0 ELSE pos + 1)
    /\ pos' = pos + 1
    /\ rv' = pos + 2
    /\ UNCHANGED <<log, up, watching, initial, patch, calm, clientVars>>

SendEvent ==
    /\ up /\ watching
    /\ initial = {} /\ pos < Now
    /\ LET e == log[pos + 1] IN Send(e.obj, IF e.gone THEN 0 ELSE pos + 1)
    /\ pos' = pos + 1
    /\ rv' = pos + 1
    /\ UNCHANGED <<log, up, watching, initial, patch, calm, clientVars>>

\* A bookmark advances *rv and is not sent on.
Bookmark ==
    /\ up /\ watching
    /\ initial = {} /\ rv < pos
    /\ rv' = pos
    /\ UNCHANGED <<log, up, watching, initial, pos, wire, patch, calm, clientVars>>

\* The socket drops: the browser or the server goes away, a ping or a write
\* fails, WatchResource fails, the tab is hidden or live updates are paused.
Drops ==
    /\ up /\ ~calm
    /\ up' = FALSE
    /\ watching' = FALSE
    /\ rv' = 0
    /\ initial' = {}
    /\ pos' = 0
    /\ wire' = <<>>
    /\ UNCHANGED <<log, patch, calm, clientVars>>

-----------------------------------------------------------------------------
(* The page *)

\* A fault: a signal is dropped while a fetch is on its way.
ReceiveUnlessLoading ==
    /\ wire # <<>>
    /\ wire' = Tail(wire)
    /\ LET m == Head(wire)
       IN  IF patch
           THEN rows' = [rows EXCEPT ![m.obj] = m.row] /\ UNCHANGED timer
           ELSE timer' = (timer \/ fetch.state = "idle") /\ UNCHANGED rows
    /\ UNCHANGED <<log, up, patch, calm, serverVars, base, fetch, old>>

\* onEvent: patch the row in place, or arm the coalescing timer
Receive ==
    /\ wire # <<>>
    /\ wire' = Tail(wire)
    /\ LET m == Head(wire)
       IN  IF patch
           THEN rows' = [rows EXCEPT ![m.obj] = m.row] /\ UNCHANGED timer
           ELSE timer' = TRUE /\ UNCHANGED rows
    /\ UNCHANGED <<log, up, patch, calm, serverVars, base, fetch, old>>

\* refresh(): a new tick cancels the fetch in flight and asks again.
Refetch ==
    /\ fetch' = Asked
    /\ IF fetch.state \in {"asked", "answered"}
       THEN old = Idle /\ old' = fetch  \* bound: two requests on their way at once
       ELSE UNCHANGED old

TimerFires ==
    /\ timer
    /\ timer' = FALSE
    /\ Refetch
    /\ UNCHANGED <<log, up, wire, patch, calm, serverVars, rows, base>>

\* The user's refresh button, or a page's own refresh after an operation
UserRefresh ==
    /\ Refetch
    /\ UNCHANGED <<log, up, wire, patch, calm, serverVars, rows, base, timer>>

\* The list endpoint answers with the cluster as it is at that moment.
ListAnswers ==
    /\ fetch = Asked
    /\ fetch' = Answered(Now)
    /\ UNCHANGED <<log, up, wire, patch, calm, serverVars, rows, base, old, timer>>

OldListAnswers ==
    /\ old = Asked
    /\ old' = Answered(Now)
    /\ UNCHANGED <<log, up, wire, patch, calm, serverVars, rows, base, fetch, timer>>

\* A fault: the cancelled flag of useResource's effect is not tested.
SettleUncancelled(n, cancelled) ==
    rows' = StateAt(n) /\ base' = n

\* A fault: the patchable copy is taken from the first answer only.
SettleOnce(n, cancelled) ==
    IF cancelled \/ base > 0
    THEN UNCHANGED <<rows, base>>
    ELSE rows' = StateAt(n) /\ base' = n

\* .then: unless cancelled, the list (and its patchable copy) is the answer
Settle(n, cancelled) ==
    IF cancelled
    THEN UNCHANGED <<rows, base>>
    ELSE rows' = StateAt(n) /\ base' = n

FetchArrives ==
    /\ fetch.state = "answered"
    /\ Settle(fetch.at, FALSE)
    /\ fetch' = Idle
    /\ UNCHANGED <<log, up, wire, patch, calm, serverVars, old, timer>>

OldFetchArrives ==
    /\ old.state = "answered"
    /\ Settle(old.at, TRUE)
    /\ old' = Idle
    /\ UNCHANGED <<log, up, wire, patch, calm, serverVars, fetch, timer>>

\* .catch: the error is shown, the rows stay, and nothing asks again.
FetchFails ==
    /\ ~calm
    /\ fetch.state \in {"asked", "answered"}
    /\ fetch' = Failed
    /\ UNCHANGED <<log, up, wire, patch, calm, serverVars, rows, base, old, timer>>

CalmsDown ==
    /\ ~calm
    /\ calm' = TRUE
    /\ UNCHANGED <<log, up, wire, patch, serverVars, clientVars>>

-----------------------------------------------------------------------------
\* The page opens on a cluster that already holds an object of the kind.
Init ==
    /\ \E o \in Objs : log = <<[obj |-> o, gone |-> FALSE]>>
    /\ up = FALSE /\ watching = FALSE /\ rv = 0 /\ initial = {} /\ pos = 0
    /\ wire = <<>>
    /\ patch \in BOOLEAN
    /\ rows = [o \in Objs |-> 0] /\ base = 0
    /\ fetch = Asked /\ old = Idle
    /\ timer = FALSE /\ calm = FALSE

Next ==
    \/ \E o \in Objs : Change(o) \/ SendInitial(o)
    \/ CalmsDown
    \/ Connects \/ Drops
    \/ Watches \/ WatchError \/ WatchExpires \/ SendEvent \/ Bookmark
    \/ Receive \/ TimerFires \/ UserRefresh
    \/ ListAnswers \/ OldListAnswers
    \/ FetchArrives \/ OldFetchArrives \/ FetchFails

Spec == Init /\ [][Next]_vars

\* The handler pumps, the socket delivers, timers fire, requests are answered and
\* WatchConn reconnects; the cluster and the user owe nothing.  A user who keeps
\* refreshing cancels fetches, but not always before they are answered: that is
\* the strong fairness of the answer to the current fetch.
Fairness ==
    /\ WF_vars(Connects) /\ WF_vars(Watches) /\ WF_vars(SendEvent)
    /\ \A o \in Objs : WF_vars(SendInitial(o))
    /\ WF_vars(Receive) /\ WF_vars(TimerFires)
    /\ SF_vars(ListAnswers) /\ SF_vars(FetchArrives)

FairSpec == Spec /\ Fairness

-----------------------------------------------------------------------------
(* Properties *)

\* The stream, the socket and the list have their types.
TypeOK ==
    /\ log \in Seq([obj : Objs, gone : BOOLEAN]) /\ Len(log) <= MaxChanges
    /\ rv \in 0..Now /\ pos \in 0..Now
    /\ up \in BOOLEAN /\ watching \in BOOLEAN /\ initial \subseteq Objs
    /\ wire \in Seq([obj : Objs, row : 0..Now]) /\ Len(wire) <= MaxWire
    /\ rows \in [Objs -> 0..Now] /\ base \in 0..Now
    /\ fetch \in Fetch /\ old \in Fetch
    /\ {patch, timer, calm} \subseteq BOOLEAN

UpToDate == rows = StateAt(Now)

\* Where change signals make the page fetch again, the list ends up equal to the
\* cluster: signals lost in a gap, answers older than a signal, a watch expiring
\* half-way through its initial list leave no lasting trace, unless the page
\* shows the error of a fetch or the last object vanished in a gap (no signal).
SignalsConverge ==
    <>[](calm /\ ~patch /\ fetch # Failed /\ StateAt(Now) # StateAt(0) => UpToDate)

\* In both modes a fetch asked for after the cluster came to rest repairs the
\* list for good: no replayed event or late answer undoes it.
RefreshHeals ==
    <>[]calm /\ []<>(fetch = Asked) => <>[]UpToDate

\* A page fed by signals never goes back in time: an answer overtaken by a newer
\* fetch is not shown (the cancelled flag of useResource's effect).
NeverBackInTime == [][base' >= base]_vars

\* The list is right, the stream has caught up and nothing is on its way.
InSync ==
    /\ UpToDate /\ fetch = Idle /\ old = Idle /\ ~timer
    /\ up /\ watching /\ initial = {} /\ pos = Now /\ wire = <<>>

\* "Phase 1 refetches on (re)connect, so expired-RV and dropped connections
\* self-heal" (docs/DESIGN-realtime-watch.md).  Phase 1 is the mode of signals: a
\* list fed by signals that was in sync is right again once the cluster and the
\* connection are calm, whatever dropped between.
SelfHeals == ~patch /\ InSync ~> [](calm /\ fetch # Failed => <>UpToDate)
==============================================================================
