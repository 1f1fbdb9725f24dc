------------------------------ MODULE WatchConn ------------------------------
(***************************************************************************)
(* The browser's live-watch connections: openWatchConnection (one closure  *)
(* per watched kind) and useLiveResources, which drives several closures   *)
(* behind one indicator.  useWatch is the case of a single subscription.   *)
(* Pausing, resuming and another namespace run the effect again: the old   *)
(* closures are closed, new ones opened.  Each such mount has closures and *)
(* statuses of its own, and those of an old mount are not gone: a socket   *)
(* that ws no longer held when its closure was closed may still open and   *)
(* report, since onopen and onmessage do not test closed.                  *)
(*                                                                         *)
(* A closure is a record: its handlers are operators from record to record *)
(* and an action applies one handler.  A socket lives in a slot from       *)
(* `new WebSocket' to its close event; a closed socket has no further      *)
(* event, so its slot is free again, and `ws' pointing to a closed socket  *)
(* is the same as ws = null (every use tests "!ws || CLOSED" or is a       *)
(* no-op on a closed socket).  close() on a socket that is still opening   *)
(* makes it fail (an error event precedes its close event); on an open one *)
(* it starts the closing handshake.  Neither delivers messages any more.   *)
(***************************************************************************)
EXTENDS Naturals

CONSTANTS
    Subs,           \* the watched kinds of one page
    NotInstalled,   \* those whose kind has no endpoint in this cluster
    Slots,          \* bound: sockets of one kind that exist at once
    Null,           \* ws = null, or ws closed
    BaseBackoff,    \* BASE_BACKOFF
    MaxBackoff,     \* MAX_BACKOFF
    MaxMounts       \* bound: runs of the effect that open closures

ASSUME SubsAssumption == Subs # {} /\ NotInstalled \subseteq Subs
ASSUME SlotsAssumption == Slots # {} /\ Null \notin Slots
ASSUME BackoffAssumption ==
    /\ BaseBackoff \in Nat \ {0}
    /\ MaxBackoff \in Nat
    /\ BaseBackoff <= MaxBackoff
ASSUME MountsAssumption == MaxMounts \in Nat \ {0}

VARIABLES
    conn,       \* conn[m][s]: the closure openWatchConnection made for s in mount m
    mount,      \* the last mount
    hidden,     \* document.hidden
    live,       \* the live toggle of useLiveResources; FALSE once torn down
    indicator,  \* the aggregated watchStatus shown to the user
    teller,     \* the mount that set it last
    healthy     \* the server accepts watches and keeps them open

vars == <<conn, mount, hidden, live, indicator, teller, healthy>>

Mounts == 1..MaxMounts

Status == {"connecting", "live", "paused", "error", "unavailable"}
SocketState == {"free", "connecting", "open", "failing", "closing"}

(***************************************************************************)
(* Time is the age of openedAt: never opened, opened less than STABLE_MS   *)
(* ago, or at least that long ago.                                         *)
(***************************************************************************)
Age == {"never", "recent", "stable"}

Connection ==
    [ws : Slots \cup {Null}, sock : [Slots -> SocketState],
     backoff : BaseBackoff..MaxBackoff, timer : BOOLEAN, closed : BOOLEAN,
     openedAt : Age, sawError : BOOLEAN, status : Status, unavailable : BOOLEAN]

\* A closure as it begins, and one there is not yet.
Fresh ==
    [ws |-> Null, sock |-> [k \in Slots |-> "free"], backoff |-> BaseBackoff,
     timer |-> FALSE, closed |-> FALSE, openedAt |-> "never", sawError |-> FALSE,
     status |-> "connecting", unavailable |-> FALSE]
Unborn == [Fresh EXCEPT !.closed = TRUE]

\* No handler of a closed closure reads its backoff, openedAt or sawError, and the
\* socket of its ws is closing already.
Tidy(c) ==
    IF c.closed
    THEN [c EXCEPT !.ws = Null, !.backoff = BaseBackoff,
                   !.openedAt = "never", !.sawError = FALSE]
    ELSE c

\* Where the next socket of a kind goes: slots are only names, so any free one
\* will do.
Free(s, k) == \A m \in Mounts : conn[m][s].sock[k] = "free"
Room(s) == \E k \in Slots : Free(s, k)
FreeSlot(s) == CHOOSE k \in Slots : Free(s, k)

-----------------------------------------------------------------------------
(* The handlers of one closure. *)

\* A fault: "unavailable" lasts until the next status.
OnStatusForgets(c, st) ==
    [c EXCEPT !.status = st, !.unavailable = st = "unavailable"]

\* onStatus as useLiveResources passes it: "unavailable" is sticky.
OnStatus(c, st) ==
    [c EXCEPT !.status = st, !.unavailable = @ \/ st = "unavailable"]

\* ws?.close()
CloseWs(c) ==
    [c EXCEPT !.sock = [k \in Slots |->
        IF k # c.ws THEN c.sock[k]
        ELSE IF c.sock[k] = "connecting" THEN "failing"
        ELSE IF c.sock[k] = "open" THEN "closing"
        ELSE c.sock[k]]]

\* connect() with document.hidden = hid; k is the slot of the socket it creates
Connect(c, hid, k) ==
    IF c.closed \/ hid
    THEN c
    ELSE [OnStatus(c, "connecting") EXCEPT !.ws = k, !.sock[k] = "connecting"]

ScheduleReconnect(c) == [c EXCEPT !.timer = @ \/ ~c.closed]

OnOpen(c, k) ==
    [OnStatus(c, "live") EXCEPT
        !.sock[k] = "open", !.openedAt = "recent", !.sawError = FALSE]

\* onmessage of an ERROR frame
OnErrorFrame(c, code) ==
    IF code = "not_installed"
    THEN CloseWs(OnStatus([c EXCEPT !.sawError = TRUE, !.closed = TRUE], "unavailable"))
    ELSE OnStatus([c EXCEPT !.sawError = TRUE], "error")

\* The socket of slot k reaches readyState CLOSED.
Release(c, k) ==
    [c EXCEPT !.sock[k] = "free", !.ws = IF @ = k THEN Null ELSE @]

EarnsReset(c) == ~c.sawError /\ c.openedAt = "stable"

\* A fault: onclose reconnects but leaves the status as it was.
OnCloseSilent(c) ==
    IF c.closed
    THEN c
    ELSE ScheduleReconnect([c EXCEPT !.backoff = IF EarnsReset(c) THEN BaseBackoff ELSE @])

OnClose(c) ==
    IF c.closed
    THEN c
    ELSE ScheduleReconnect(
           OnStatus([c EXCEPT !.backoff = IF EarnsReset(c) THEN BaseBackoff ELSE @],
                    IF c.sawError THEN "error" ELSE "connecting"))

\* A fault: onerror detaches onclose.
OnErrorOnly(c, k) == CloseWs(Release(c, k))

\* onerror closes whatever ws holds now, which need not be the socket that failed
OnErrorClose(c, k) == OnClose(CloseWs(Release(c, k)))

\* A fault: Math.min is dropped.
OnTimerUncapped(c) == [c EXCEPT !.timer = FALSE, !.backoff = 2 * @]

OnTimer(c) ==
    [c EXCEPT !.timer = FALSE,
              !.backoff = IF 2 * @ < MaxBackoff THEN 2 * @ ELSE MaxBackoff]

OnHide(c) == CloseWs(OnStatus(c, "paused"))

\* The function openWatchConnection returns
Close(c) == CloseWs([c EXCEPT !.closed = TRUE, !.timer = FALSE])

-----------------------------------------------------------------------------
(* useLiveResources *)

\* A fault: one live watch is enough to say "live".
AggregateSome(cs) ==
    LET active == {s \in Subs : ~cs[s].unavailable}
    IN  IF \A s \in Subs : cs[s].status = "paused" THEN "paused"
        ELSE IF active = {} THEN "unavailable"
        ELSE IF \E s \in active : cs[s].status = "live" THEN "live"
        ELSE "connecting"

Aggregate(cs) ==
    LET active == {s \in Subs : ~cs[s].unavailable}
        All(S, st) == \A s \in S : cs[s].status = st
    IN  IF All(Subs, "paused") THEN "paused"
        ELSE IF active = {} THEN "unavailable"
        ELSE IF All(active, "live") THEN "live"
        ELSE IF All(active, "error") THEN "error"
        ELSE "connecting"

\* Mount m shows the aggregate of its closures.
Tell(m) == indicator' = Aggregate(conn'[m]) /\ teller' = m
Silent == UNCHANGED <<indicator, teller>>

\* Handler result c for s of mount m, with (tell) or without a call of onStatus.
Apply(m, s, c, tell) ==
    /\ conn' = [conn EXCEPT ![m] = [@ EXCEPT ![s] = Tidy(c)]]
    /\ IF tell THEN Tell(m) ELSE Silent
    /\ UNCHANGED mount

Unsettled(c, k) == c.sock[k] \in {"connecting", "open"}

SocketOpens(m, s, k) ==
    /\ healthy
    /\ conn[m][s].sock[k] = "connecting"
    /\ Apply(m, s, OnOpen(conn[m][s], k), TRUE)
    /\ UNCHANGED <<hidden, live, healthy>>

\* The upgrade is refused or the connection is lost: error event, then close event.
SocketFails(m, s, k) ==
    /\ \/ ~healthy /\ Unsettled(conn[m][s], k)
       \/ conn[m][s].sock[k] = "failing"
    /\ Apply(m, s, OnErrorClose(conn[m][s], k), ~conn[m][s].closed)
    /\ UNCHANGED <<hidden, live, healthy>>

\* A clean close: the connection is lost, or what close() or the server started ends.
SocketCloses(m, s, k) ==
    /\ \/ ~healthy /\ conn[m][s].sock[k] = "open"
       \/ conn[m][s].sock[k] = "closing"
    /\ Apply(m, s, OnClose(Release(conn[m][s], k)), ~conn[m][s].closed)
    /\ UNCHANGED <<hidden, live, healthy>>

\* The server hangs up after an ERROR frame.
HangUp(c, k) == [c EXCEPT !.sock[k] = "closing"]

\* WatchResource reports every error of resolveGVR as "not installed", also a
\* discovery that fails because the API server is unreachable.
ErrorFrame(m, s, k) ==
    /\ conn[m][s].sock[k] = "open"
    /\ \E code \in {"not_installed", "watch_failed"} :
         /\ ~healthy \/ (code = "not_installed" /\ s \in NotInstalled)
         /\ Apply(m, s, OnErrorFrame(HangUp(conn[m][s], k), code), TRUE)
    /\ UNCHANGED <<hidden, live, healthy>>

TimerFires(m, s) ==
    /\ conn[m][s].timer /\ Room(s)
    /\ Apply(m, s, Connect(OnTimer(conn[m][s]), hidden, FreeSlot(s)),
             ~conn[m][s].closed /\ ~hidden)
    /\ UNCHANGED <<hidden, live, healthy>>

StableElapses(m, s) ==
    /\ conn[m][s].openedAt = "recent"
    /\ Apply(m, s, [conn[m][s] EXCEPT !.openedAt = "stable"], FALSE)
    /\ UNCHANGED <<hidden, live, healthy>>

\* Every closure of the mount becomes new[s].
Becomes(new) == conn' = [conn EXCEPT ![mount] = new]

\* visibilitychange reaches every closure that is not torn down, also one that
\* closed itself on "not_installed".
Hide ==
    /\ ~hidden
    /\ hidden' = TRUE
    /\ IF live
       THEN Becomes([s \in Subs |-> OnHide(conn[mount][s])]) /\ Tell(mount)
       ELSE UNCHANGED conn /\ Silent
    /\ UNCHANGED <<mount, live, healthy>>

\* A fault: onVisibility tests !ws only, not readyState CLOSED.
ReopensFirst(c) == ~c.closed /\ c.ws = Null /\ c.openedAt = "never"

Reopens(c) == ~c.closed /\ c.ws = Null

Show ==
    /\ hidden
    /\ hidden' = FALSE
    /\ IF live
       THEN LET c == conn[mount] IN
            /\ \A s \in Subs : Reopens(c[s]) => Room(s)
            /\ Becomes([s \in Subs |->
                  IF Reopens(c[s]) THEN Connect(c[s], FALSE, FreeSlot(s)) ELSE c[s]])
            /\ Tell(mount)
       ELSE UNCHANGED conn /\ Silent
    /\ UNCHANGED <<mount, live, healthy>>

\* Every closer of the mount has run; running again changes nothing.
Closed == [s \in Subs |-> Tidy(Close(conn[mount][s]))]

\* The user pauses live updates, selects another namespace while they are
\* paused, or leaves the page.
TearDown ==
    /\ live' = FALSE
    /\ Becomes(Closed)
    /\ indicator' = "paused" /\ teller' = mount
    /\ UNCHANGED <<mount, hidden, healthy>>

\* The user resumes, or selects another namespace: the old closers run, and the
\* effect opens new closures, with new statuses.
Remount ==
    /\ mount < MaxMounts /\ mount' = mount + 1
    /\ live' = TRUE
    /\ \A s \in Subs : Room(s)
    /\ conn' = [conn EXCEPT ![mount] = Closed,
                   ![mount + 1] = [s \in Subs |-> Connect(Fresh, hidden, FreeSlot(s))]]
    /\ IF hidden THEN Silent ELSE Tell(mount + 1)
    /\ UNCHANGED <<hidden, healthy>>

ServerChanges ==
    /\ healthy' = ~healthy
    /\ UNCHANGED <<conn, mount, hidden, live, indicator, teller>>

-----------------------------------------------------------------------------
Init ==
    /\ hidden \in BOOLEAN
    /\ conn = [m \in Mounts |-> [s \in Subs |->
                  IF m = 1 THEN Connect(Fresh, hidden, CHOOSE k \in Slots : TRUE) ELSE Unborn]]
    /\ mount = 1 /\ teller = 1
    /\ live = TRUE
    /\ indicator = "connecting"
    /\ healthy \in BOOLEAN

Next ==
    \/ \E m \in 1..mount, s \in Subs, k \in Slots :
         \/ SocketOpens(m, s, k)
         \/ SocketFails(m, s, k)
         \/ SocketCloses(m, s, k)
         \/ ErrorFrame(m, s, k)
    \/ \E m \in 1..mount, s \in Subs : TimerFires(m, s) \/ StableElapses(m, s)
    \/ Hide
    \/ Show
    \/ TearDown
    \/ Remount
    \/ ServerChanges

Spec == Init /\ [][Next]_vars

\* The browser settles every socket that is opening or closing; its timers fire.
\* An attempt opens in less time than the backoff takes, so attempts made again
\* and again are not all cut short by the close event of an older socket: that
\* is the strong fairness of Opens.  A slot is one mount's at a time, and only the
\* last mount has timers, so fairness need not tell the mounts apart.
Opens(s, k) == \E m \in Mounts : SocketOpens(m, s, k)

Settles(s, k) ==
    \E m \in Mounts :
        /\ conn[m][s].sock[k] \in {"connecting", "failing", "closing"}
        /\ SocketOpens(m, s, k) \/ SocketFails(m, s, k) \/ SocketCloses(m, s, k)

Fires(s) == \E m \in Mounts : TimerFires(m, s)

Fairness ==
    \A s \in Subs :
        /\ WF_vars(Fires(s))
        /\ \A k \in Slots : WF_vars(Settles(s, k)) /\ SF_vars(Opens(s, k))

FairSpec == Spec /\ Fairness

-----------------------------------------------------------------------------
(* Properties *)

\* Every closure, its sockets and the indicator have their types.
TypeOK ==
    /\ conn \in [Mounts -> [Subs -> Connection]]
    /\ mount \in Mounts /\ teller \in Mounts
    /\ hidden \in BOOLEAN
    /\ live \in BOOLEAN
    /\ indicator \in Status
    /\ healthy \in BOOLEAN

HasOpenSocket(c) == \E k \in Slots : c.sock[k] = "open"

\* A visible page never loses a watch for good: as long as the closure is not
\* closed, a socket that will report its fate or the reconnect timer is pending,
\* whatever order visibility changes, failures and timers come in (lines 55-121).
NeverDead ==
    \A m \in Mounts, s \in Subs :
        ~hidden /\ ~conn[m][s].closed => conn[m][s].timer \/ conn[m][s].ws # Null

\* A closure of an old mount has set the indicator after the last mount did.
Haunted == teller # mount

\* While live updates are on, the indicator says "live" only if every watch that
\* is available here has an open socket: no stale "live" from a socket that was
\* closed by another socket's handler, hidden away, given up or left to an old
\* mount; unless an old mount, which cannot know, has had the last word.
IndicatorHonest ==
    live /\ indicator = "live" /\ ~Haunted =>
        \A s \in Subs : conn[mount][s].unavailable \/ HasOpenSocket(conn[mount][s])

\* Once the page stays visible and the server stays up, every watch that is not
\* given up ends with an open socket, although handlers of dying sockets close
\* whatever socket `ws' holds.
Recovers ==
    \A s \in Subs :
        <>[](healthy /\ ~hidden /\ live)
            => <>[](conn[mount][s].closed \/ HasOpenSocket(conn[mount][s]))

\* The indicator of a page ends up saying "live" as well, unless every kind is given
\* up: a kind that is not installed, whose closure still reports "paused" whenever
\* the page is hidden, must not hold the other kinds' indicator back.  (Nor if an
\* old mount has the last word.)
IndicatorRecovers ==
    <>[](healthy /\ ~hidden /\ live)
        => <>[](indicator = "live" \/ Haunted \/ \A s \in Subs : conn[mount][s].unavailable)

\* "Only a connection that stayed up and healthy earns a fast retry; otherwise
\* keep backing off" (the comment in onclose): the backoff falls only when a
\* socket closes that was open.
ResetEarned ==
    [][\A m \in Mounts, s \in Subs :
          conn'[m][s].backoff < conn[m][s].backoff =>
              \E k \in Slots : conn[m][s].sock[k] \in {"open", "closing"}
                               /\ conn'[m][s].sock[k] = "free"]_vars
==============================================================================
