-------------------------- MODULE WatchConn_proofs --------------------------
(***************************************************************************)
(* Proofs about WatchConn for any number of subscriptions, sockets and     *)
(* mounts and any backoff bounds: types, NeverDead and IndicatorHonest.    *)
(***************************************************************************)
EXTENDS WatchConn, TLAPS

\* A closure that still runs and shows "live" has an open socket.
ShowsTruth(c) == ~c.closed /\ c.status = "live" => HasOpenSocket(c)

\* What a closure satisfies between two handlers
ConnOK(c) == c \in Connection /\ ShowsTruth(c)

\* The inductive invariant: while the page is live and no old mount has had the
\* last word, the indicator is the aggregate of the last mount's closures; only
\* "not_installed" has closed any of them, and those of the other mounts are closed.
IInv ==
    /\ TypeOK
    /\ NeverDead
    /\ teller <= mount
    /\ \A m \in Mounts, s \in Subs : ShowsTruth(conn[m][s])
    /\ live /\ ~Haunted => indicator = Aggregate(conn[mount])
    /\ live => \A s \in Subs : conn[mount][s].closed => conn[mount][s].unavailable
    /\ ~live => \A s \in Subs : conn[mount][s].closed
    /\ \A m \in Mounts \ {mount}, s \in Subs : conn[m][s].closed

\* Closing ws changes sockets only, and keeps the record a connection.
LEMMA CloseWsType ==
    ASSUME NEW c \in Connection
    PROVE  /\ CloseWs(c) \in Connection
           /\ \A f \in {"ws", "backoff", "timer", "closed", "openedAt", "sawError",
                        "status", "unavailable"} : CloseWs(c)[f] = c[f]
<1> DEFINE sk == [k \in Slots |->
        IF k # c.ws THEN c.sock[k]
        ELSE IF c.sock[k] = "connecting" THEN "failing"
        ELSE IF c.sock[k] = "open" THEN "closing"
        ELSE c.sock[k]]
<1>1. sk \in [Slots -> SocketState]
  BY DEF Connection, SocketState
<1>2. CloseWs(c) = [c EXCEPT !.sock = sk]
  BY DEF CloseWs
<1> HIDE DEF sk
<1> QED
  BY <1>1, <1>2 DEF Connection

LEMMA OnStatusType ==
    ASSUME NEW c \in Connection, NEW st \in Status
    PROVE  /\ OnStatus(c, st) \in Connection
           /\ OnStatus(c, st).status = st
           /\ \A f \in {"ws", "sock", "backoff", "timer", "closed", "openedAt",
                        "sawError"} : OnStatus(c, st)[f] = c[f]
           /\ c.unavailable => OnStatus(c, st).unavailable
           /\ st = "unavailable" => OnStatus(c, st).unavailable
           /\ st # "unavailable" => OnStatus(c, st).unavailable = c.unavailable
  BY DEF OnStatus, Connection

\* Writing one slot keeps the socket table's type and every other slot.
LEMMA SlotUpdate ==
    ASSUME NEW f \in [Slots -> SocketState], NEW k \in Slots, NEW v \in SocketState
    PROVE  /\ [f EXCEPT ![k] = v] \in [Slots -> SocketState]
           /\ [f EXCEPT ![k] = v][k] = v
           /\ \A j \in Slots \ {k} : [f EXCEPT ![k] = v][j] = f[j]
  OBVIOUS

\* connect() leaves the closure as it is or starts a socket that ws refers to.
LEMMA ConnectOK ==
    ASSUME NEW c \in Connection, NEW hid \in BOOLEAN, NEW k \in Slots
    PROVE  /\ Connect(c, hid, k) \in Connection
           /\ ShowsTruth(c) => ShowsTruth(Connect(c, hid, k))
           /\ Connect(c, hid, k).closed = c.closed
           /\ c.unavailable => Connect(c, hid, k).unavailable
           /\ ~c.closed /\ ~hid => Connect(c, hid, k).ws = k
           /\ c.closed \/ hid => Connect(c, hid, k) = c
<1> DEFINE d == OnStatus(c, "connecting")
           sk == [d.sock EXCEPT ![k] = "connecting"]
<1>1. CASE c.closed \/ hid
  BY <1>1 DEF Connect
<1>2. CASE ~(c.closed \/ hid)
  <2>1. /\ d \in Connection
        /\ d.status = "connecting"
        /\ d.closed = c.closed
        /\ c.unavailable => d.unavailable
    BY OnStatusType DEF Status
  <2>2. sk \in [Slots -> SocketState]
    <3>1. d.sock \in [Slots -> SocketState]
      BY <2>1 DEF Connection
    <3> QED
      BY <3>1, SlotUpdate DEF SocketState
  <2>3. Connect(c, hid, k) = [d EXCEPT !.ws = k, !.sock = sk]
    <3>1. Connect(c, hid, k) = [d EXCEPT !.ws = k, !.sock[k] = "connecting"]
      BY <1>2 DEF Connect
    <3>2. d.sock = [d EXCEPT !.ws = k].sock
      BY <2>1 DEF Connection
    <3> QED
      BY <3>1, <3>2
  <2> HIDE DEF d, sk
  <2> QED
    BY <1>2, <2>1, <2>2, <2>3 DEF Connection, ShowsTruth
<1> QED
  BY <1>1, <1>2

\* onopen: the closure shows "live" and its socket is open.
LEMMA OnOpenOK ==
    ASSUME NEW c \in Connection, NEW k \in Slots
    PROVE  /\ OnOpen(c, k) \in Connection
           /\ ShowsTruth(OnOpen(c, k))
           /\ OnOpen(c, k).closed = c.closed
           /\ OnOpen(c, k).ws = c.ws
           /\ OnOpen(c, k).timer = c.timer
           /\ c.unavailable => OnOpen(c, k).unavailable
<1> DEFINE d == OnStatus(c, "live")
           sk == [d.sock EXCEPT ![k] = "open"]
<1>1. /\ d \in Connection
      /\ d.closed = c.closed
      /\ d.ws = c.ws
      /\ d.timer = c.timer
      /\ c.unavailable => d.unavailable
  BY OnStatusType DEF Status
<1>2. sk \in [Slots -> SocketState] /\ sk[k] = "open"
  <2>1. d.sock \in [Slots -> SocketState]
    BY <1>1 DEF Connection
  <2> QED
    BY <2>1, SlotUpdate DEF SocketState
<1>3. OnOpen(c, k) = [d EXCEPT !.sock = sk, !.openedAt = "recent", !.sawError = FALSE]
  BY DEF OnOpen
<1> HIDE DEF d, sk
<1>4. OnOpen(c, k).sock = sk
  BY <1>1, <1>3 DEF Connection
<1>5. HasOpenSocket(OnOpen(c, k))
  BY <1>2, <1>4 DEF HasOpenSocket
<1> QED
  BY <1>1, <1>2, <1>3, <1>5 DEF Connection, ShowsTruth, Age

\* A socket is gone: ws no longer refers to it, the status is as before.
LEMMA ReleaseType ==
    ASSUME NEW c \in Connection, NEW k \in Slots
    PROVE  /\ Release(c, k) \in Connection
           /\ \A f \in {"backoff", "timer", "closed", "openedAt", "sawError",
                        "status", "unavailable"} : Release(c, k)[f] = c[f]
           /\ Release(c, k).ws = IF c.ws = k THEN Null ELSE c.ws
<1> DEFINE sk == [c.sock EXCEPT ![k] = "free"]
<1>1. sk \in [Slots -> SocketState]
  <2>1. c.sock \in [Slots -> SocketState]
    BY DEF Connection
  <2> QED
    BY <2>1, SlotUpdate DEF SocketState
<1>2. Release(c, k) = [c EXCEPT !.sock = sk, !.ws = IF c.ws = k THEN Null ELSE c.ws]
  BY DEF Release, Connection
<1> HIDE DEF sk
<1> QED
  BY <1>1, <1>2 DEF Connection

\* onclose: a closure that still runs stops showing "live" and arms its timer.
LEMMA OnCloseOK ==
    ASSUME NEW c \in Connection
    PROVE  /\ OnClose(c) \in Connection
           /\ ShowsTruth(OnClose(c))
           /\ OnClose(c).closed = c.closed
           /\ ~c.closed => OnClose(c).timer
           /\ c.unavailable => OnClose(c).unavailable
           /\ c.closed => OnClose(c) = c
<1>1. CASE c.closed
  BY <1>1 DEF OnClose, ShowsTruth
<1>2. CASE ~c.closed
  <2> DEFINE st == IF c.sawError THEN "error" ELSE "connecting"
             b  == [c EXCEPT !.backoff = IF EarnsReset(c) THEN BaseBackoff ELSE c.backoff]
             d  == OnStatus(b, st)
  <2>1. b \in Connection /\ b.closed = FALSE /\ b.unavailable = c.unavailable
    BY <1>2, BackoffAssumption DEF Connection
  <2>2. st \in Status /\ st # "live"
    BY DEF Status
  <2>3. OnClose(c) = [d EXCEPT !.timer = d.timer \/ ~d.closed]
    BY <1>2 DEF OnClose, ScheduleReconnect
  <2> HIDE DEF b, st
  <2>4. /\ d \in Connection
        /\ d.status = st
        /\ d.closed = FALSE
        /\ c.unavailable => d.unavailable
    BY <2>1, <2>2, OnStatusType
  <2> HIDE DEF d
  <2>5. (d.timer \/ ~d.closed) = TRUE
    BY <2>4
  <2>6. OnClose(c) = [d EXCEPT !.timer = TRUE]
    BY <2>3, <2>5
  <2> QED
    BY <1>2, <2>2, <2>4, <2>6 DEF Connection, ShowsTruth
<1> QED
  BY <1>1, <1>2

\* An ERROR frame never leaves the closure showing "live"; "not_installed" closes
\* it and marks it unavailable.
LEMMA OnErrorFrameOK ==
    ASSUME NEW c \in Connection, NEW code \in {"not_installed", "watch_failed"}
    PROVE  /\ OnErrorFrame(c, code) \in Connection
           /\ ShowsTruth(OnErrorFrame(c, code))
           /\ OnErrorFrame(c, code).ws = c.ws
           /\ OnErrorFrame(c, code).timer = c.timer
           /\ c.closed => OnErrorFrame(c, code).closed
           /\ OnErrorFrame(c, code).closed /\ (c.closed => c.unavailable)
                => OnErrorFrame(c, code).unavailable
<1>1. CASE code = "not_installed"
  <2> DEFINE b == [c EXCEPT !.sawError = TRUE, !.closed = TRUE]
             d == OnStatus(b, "unavailable")
  <2>1. b \in Connection /\ b.closed = TRUE /\ b.ws = c.ws /\ b.timer = c.timer
    BY DEF Connection
  <2> HIDE DEF b
  <2>2. /\ d \in Connection
        /\ d.closed = TRUE
        /\ d.unavailable
        /\ d.ws = c.ws
        /\ d.timer = c.timer
    BY <2>1, OnStatusType DEF Status
  <2> HIDE DEF d
  <2>3. OnErrorFrame(c, code) = CloseWs(d)
    BY <1>1 DEF OnErrorFrame, d, b
  <2>4. /\ CloseWs(d) \in Connection
        /\ CloseWs(d).closed = d.closed
        /\ CloseWs(d).unavailable = d.unavailable
        /\ CloseWs(d).ws = d.ws
        /\ CloseWs(d).timer = d.timer
    BY <2>2, CloseWsType
  <2> QED
    BY <2>2, <2>3, <2>4 DEF ShowsTruth
<1>2. CASE code = "watch_failed"
  <2> DEFINE b == [c EXCEPT !.sawError = TRUE]
  <2>1. /\ b \in Connection
        /\ b.closed = c.closed
        /\ b.ws = c.ws
        /\ b.timer = c.timer
        /\ b.unavailable = c.unavailable
    BY DEF Connection
  <2>2. OnErrorFrame(c, code) = OnStatus(b, "error")
    BY <1>2 DEF OnErrorFrame
  <2> HIDE DEF b
  <2> QED
    BY <2>1, <2>2, OnStatusType DEF Status, ShowsTruth
<1> QED
  BY <1>1, <1>2

\* A failed socket: the handler closes what ws holds and the close event follows.
LEMMA OnErrorCloseOK ==
    ASSUME NEW c \in Connection, NEW k \in Slots
    PROVE  /\ OnErrorClose(c, k) \in Connection
           /\ ShowsTruth(OnErrorClose(c, k))
           /\ OnErrorClose(c, k).closed = c.closed
           /\ ~c.closed => OnErrorClose(c, k).timer
           /\ c.unavailable => OnErrorClose(c, k).unavailable
           /\ c.closed => /\ OnErrorClose(c, k).status = c.status
                         /\ OnErrorClose(c, k).unavailable = c.unavailable
<1> DEFINE d == CloseWs(Release(c, k))
<1>1. /\ d \in Connection
      /\ d.closed = c.closed
      /\ d.status = c.status
      /\ d.unavailable = c.unavailable
  BY ReleaseType, CloseWsType
<1>2. OnErrorClose(c, k) = OnClose(d)
  BY DEF OnErrorClose
<1> HIDE DEF d
<1> QED
  BY <1>1, <1>2, OnCloseOK

\* A clean close event.
LEMMA CleanCloseOK ==
    ASSUME NEW c \in Connection, NEW k \in Slots
    PROVE  LET d == OnClose(Release(c, k))
           IN  /\ d \in Connection
               /\ ShowsTruth(d)
               /\ d.closed = c.closed
               /\ ~c.closed => d.timer
               /\ c.unavailable => d.unavailable
               /\ c.closed => d.status = c.status /\ d.unavailable = c.unavailable
<1> DEFINE b == Release(c, k)
<1>1. /\ b \in Connection
      /\ b.closed = c.closed
      /\ b.status = c.status
      /\ b.unavailable = c.unavailable
  BY ReleaseType
<1> HIDE DEF b
<1>2. /\ OnClose(b) \in Connection
      /\ ShowsTruth(OnClose(b))
      /\ OnClose(b).closed = b.closed
      /\ ~b.closed => OnClose(b).timer
      /\ b.unavailable => OnClose(b).unavailable
      /\ b.closed => OnClose(b) = b
  BY <1>1, OnCloseOK
<1>3. /\ OnClose(b) \in Connection
      /\ ShowsTruth(OnClose(b))
      /\ OnClose(b).closed = c.closed
      /\ ~c.closed => OnClose(b).timer
      /\ c.unavailable => OnClose(b).unavailable
      /\ c.closed => OnClose(b).status = c.status /\ OnClose(b).unavailable = c.unavailable
  BY <1>1, <1>2
<1> QED
  BY <1>3 DEF b

\* The reconnect timer: the backoff stays within its bounds.
LEMMA OnTimerOK ==
    ASSUME NEW c \in Connection
    PROVE  /\ OnTimer(c) \in Connection
           /\ ShowsTruth(c) => ShowsTruth(OnTimer(c))
           /\ \A f \in {"ws", "sock", "closed", "openedAt", "sawError", "status",
                        "unavailable"} : OnTimer(c)[f] = c[f]
<1> DEFINE b == IF 2 * c.backoff < MaxBackoff THEN 2 * c.backoff ELSE MaxBackoff
<1>1. b \in BaseBackoff..MaxBackoff
  BY BackoffAssumption DEF Connection
<1>2. OnTimer(c) = [c EXCEPT !.timer = FALSE, !.backoff = b]
  BY DEF OnTimer, Connection
<1> HIDE DEF b
<1> QED
  BY <1>1, <1>2 DEF Connection, ShowsTruth, HasOpenSocket

\* Hiding the tab: the closure shows "paused".
LEMMA OnHideOK ==
    ASSUME NEW c \in Connection
    PROVE  /\ OnHide(c) \in Connection
           /\ ShowsTruth(OnHide(c))
           /\ OnHide(c).closed = c.closed
           /\ c.unavailable => OnHide(c).unavailable
<1> DEFINE d == OnStatus(c, "paused")
<1>1. /\ d \in Connection
      /\ d.status = "paused"
      /\ d.closed = c.closed
      /\ c.unavailable => d.unavailable
  BY OnStatusType DEF Status
<1>2. OnHide(c) = CloseWs(d)
  BY DEF OnHide
<1> HIDE DEF d
<1> QED
  BY <1>1, <1>2, CloseWsType DEF ShowsTruth

\* Tearing a closure down closes it.
LEMMA CloseOK ==
    ASSUME NEW c \in Connection
    PROVE  Close(c) \in Connection /\ Close(c).closed = TRUE
<1> DEFINE b == [c EXCEPT !.closed = TRUE, !.timer = FALSE]
<1>1. b \in Connection /\ b.closed = TRUE
  BY DEF Connection
<1>2. Close(c) = CloseWs(b)
  BY DEF Close
<1> HIDE DEF b
<1> QED
  BY <1>1, <1>2, CloseWsType

\* Tidying forgets only what no handler of a closed closure reads.
LEMMA TidyOK ==
    ASSUME NEW c \in Connection
    PROVE  /\ Tidy(c) \in Connection
           /\ ShowsTruth(c) => ShowsTruth(Tidy(c))
           /\ \A f \in {"sock", "timer", "closed", "status", "unavailable"} :
                Tidy(c)[f] = c[f]
           /\ ~c.closed => Tidy(c) = c
<1>1. CASE c.closed
  <2>1. BaseBackoff \in BaseBackoff..MaxBackoff
    BY BackoffAssumption
  <2>2. Tidy(c) = [c EXCEPT !.ws = Null, !.backoff = BaseBackoff,
                            !.openedAt = "never", !.sawError = FALSE]
    BY <1>1 DEF Tidy
  <2>3. Tidy(c) \in Connection
    BY <2>1, <2>2 DEF Connection, Age
  <2>4. \A f \in {"sock", "timer", "closed", "status", "unavailable"} : Tidy(c)[f] = c[f]
    BY <2>2 DEF Connection
  <2> QED
    BY <1>1, <2>3, <2>4 DEF ShowsTruth
<1>2. CASE ~c.closed
  BY <1>2 DEF Tidy
<1> QED
  BY <1>1, <1>2

\* The slot of a new socket is a slot.
LEMMA FreeSlotIn ==
    ASSUME NEW s \in Subs, Room(s) PROVE FreeSlot(s) \in Slots
  BY DEF Room, FreeSlot

\* A closure that begins: it connects unless the page is hidden.
LEMMA BeginOK ==
    ASSUME NEW hid \in BOOLEAN, NEW k \in Slots
    PROVE  /\ Connect(Fresh, hid, k) \in Connection
           /\ ShowsTruth(Connect(Fresh, hid, k))
           /\ ~Connect(Fresh, hid, k).closed
           /\ ~hid => Connect(Fresh, hid, k).ws = k
           /\ Connect(Fresh, hid, k).status = "connecting"
           /\ ~Connect(Fresh, hid, k).unavailable
<1>1. Fresh \in Connection /\ ShowsTruth(Fresh) /\ ~Fresh.closed
  <2>1. [k0 \in Slots |-> "free"] \in [Slots -> SocketState]
    BY DEF SocketState
  <2> QED
    BY <2>1, BackoffAssumption DEF Fresh, Connection, Age, Status, ShowsTruth
<1>2. /\ Connect(Fresh, hid, k) \in Connection
      /\ ShowsTruth(Connect(Fresh, hid, k))
      /\ ~Connect(Fresh, hid, k).closed
      /\ ~hid => Connect(Fresh, hid, k).ws = k
  BY <1>1, ConnectOK
<1>3. /\ Connect(Fresh, hid, k).status = "connecting"
      /\ ~Connect(Fresh, hid, k).unavailable
  BY <1>1 DEF Connect, Fresh, OnStatus, Connection
<1> QED
  BY <1>2, <1>3

\* A mount whose closers have run has closed closures only.
LEMMA ClosedOK ==
    ASSUME TypeOK
    PROVE  /\ Closed \in [Subs -> Connection]
           /\ \A s \in Subs : Closed[s].closed = TRUE /\ ShowsTruth(Closed[s])
<1>1. ASSUME NEW s \in Subs
      PROVE  /\ Tidy(Close(conn[mount][s])) \in Connection
             /\ Tidy(Close(conn[mount][s])).closed = TRUE
  <2>1. conn[mount][s] \in Connection
    BY DEF TypeOK
  <2> DEFINE c == Close(conn[mount][s])
  <2>2. c \in Connection /\ c.closed = TRUE
    BY <2>1, CloseOK
  <2> HIDE DEF c
  <2>3. Tidy(c) \in Connection /\ Tidy(c).closed = TRUE
    BY <2>2, TidyOK
  <2> QED
    BY <2>3 DEF c
<1> QED
  BY <1>1 DEF Closed, ShowsTruth

-----------------------------------------------------------------------------
\* The aggregate is a status, and depends on the subs' statuses and sticky flags only.
LEMMA AggregateType ==
    ASSUME NEW cs PROVE Aggregate(cs) \in Status
  BY DEF Aggregate, Status

LEMMA AggregateSame ==
    ASSUME NEW cs, NEW ds,
           \A s \in Subs : cs[s].status = ds[s].status
                          /\ cs[s].unavailable = ds[s].unavailable
    PROVE  Aggregate(cs) = Aggregate(ds)
<1>1. {s \in Subs : ~cs[s].unavailable} = {s \in Subs : ~ds[s].unavailable}
  OBVIOUS
<1>2. \A S \in SUBSET Subs : \A st :
        (\A s \in S : cs[s].status = st) <=> (\A s \in S : ds[s].status = st)
  OBVIOUS
<1> DEFINE A == {s \in Subs : ~cs[s].unavailable}
<1>3. A \subseteq Subs
  OBVIOUS
<1> QED
  BY <1>1, <1>2, <1>3 DEF Aggregate

\* The invariant makes the indicator honest.
LEMMA HonestFromIInv == IInv => IndicatorHonest
<1> SUFFICES ASSUME IInv, live, indicator = "live", ~Haunted,
                    NEW s \in Subs, ~conn[mount][s].unavailable
             PROVE  HasOpenSocket(conn[mount][s])
  BY DEF IndicatorHonest
<1>1. conn[mount][s].status = "live"
  BY DEF IInv, Aggregate
<1>2. ~conn[mount][s].closed
  BY DEF IInv
<1> QED
  BY <1>1, <1>2 DEF IInv, TypeOK, ShowsTruth

\* One handler of one closure: the invariant needs only what the handler's
\* lemma says of the record it returns.
LEMMA ApplyStep ==
    ASSUME IInv, NEW m \in 1..mount, NEW s \in Subs, NEW c \in Connection,
           NEW tell \in BOOLEAN,
           Apply(m, s, c, tell), UNCHANGED <<hidden, live, healthy>>,
           ShowsTruth(c),
           ~hidden /\ ~c.closed => c.timer \/ c.ws # Null,
           m = mount /\ live /\ c.closed => c.unavailable,
           conn[m][s].closed => c.closed,
           ~tell => /\ c.status = conn[m][s].status
                    /\ c.unavailable = conn[m][s].unavailable
    PROVE  IInv'
<1> DEFINE d == Tidy(c)
<1>0. m \in Mounts /\ m <= mount
  BY MountsAssumption DEF IInv, TypeOK, Mounts
<1>1. /\ d \in Connection /\ ShowsTruth(d)
      /\ d.closed = c.closed /\ d.status = c.status /\ d.unavailable = c.unavailable
      /\ ~hidden /\ ~d.closed => d.timer \/ d.ws # Null
  BY TidyOK
<1>2. /\ conn \in [Mounts -> [Subs -> Connection]] /\ mount \in Mounts
      /\ conn' = [conn EXCEPT ![m] = [@ EXCEPT ![s] = d]]
      /\ mount' = mount
  BY DEF IInv, TypeOK, Apply
<1> HIDE DEF d
<1>3. /\ conn' \in [Mounts -> [Subs -> Connection]]
      /\ \A n \in Mounts, r \in Subs :
           conn'[n][r] = IF n = m /\ r = s THEN d ELSE conn[n][r]
  BY <1>0, <1>1, <1>2
<1>4. IF tell THEN indicator' = Aggregate(conn'[m]) /\ teller' = m
              ELSE indicator' = indicator /\ teller' = teller
  BY DEF Apply, Tell, Silent
<1>5. TypeOK' /\ (teller <= mount)'
  BY <1>0, <1>2, <1>3, <1>4, AggregateType DEF IInv, TypeOK
<1>6. NeverDead'
  BY <1>1, <1>3 DEF IInv, NeverDead
<1>7. (\A n \in Mounts, r \in Subs : ShowsTruth(conn[n][r]))'
  BY <1>1, <1>3 DEF IInv, ShowsTruth, HasOpenSocket
<1>8. (live /\ ~Haunted => indicator = Aggregate(conn[mount]))'
  <2>1. CASE tell
    BY <1>2, <1>4, <2>1 DEF Haunted
  <2>2. CASE ~tell
    <3>0. \A r \in Subs : /\ conn[mount][r].status = conn'[mount][r].status
                          /\ conn[mount][r].unavailable = conn'[mount][r].unavailable
      BY <1>1, <1>2, <1>3, <2>2
    <3>1. Aggregate(conn[mount]) = Aggregate(conn'[mount])
      <4> DEFINE cs == conn[mount]
                 ds == conn'[mount]
      <4>1. \A r \in Subs : cs[r].status = ds[r].status /\ cs[r].unavailable = ds[r].unavailable
        BY <3>0
      <4> HIDE DEF cs, ds
      <4>2. Aggregate(cs) = Aggregate(ds)
        BY <4>1, AggregateSame
      <4> QED
        BY <4>2 DEF cs, ds
    <3> QED
      BY <1>2, <1>4, <2>2, <3>1 DEF IInv, Haunted
  <2> QED
    BY <2>1, <2>2
<1>9. (live => \A r \in Subs : conn[mount][r].closed => conn[mount][r].unavailable)'
  BY <1>1, <1>2, <1>3 DEF IInv
<1>10. (~live => \A r \in Subs : conn[mount][r].closed)'
  BY <1>1, <1>2, <1>3 DEF IInv
<1>11. (\A n \in Mounts \ {mount}, r \in Subs : conn[n][r].closed)'
  BY <1>1, <1>2, <1>3 DEF IInv
<1> QED
  BY <1>5, <1>6, <1>7, <1>8, <1>9, <1>10, <1>11 DEF IInv

\* A step that rewrites every closure of the last mount of a live page and
\* aggregates afresh.
LEMMA PageStep ==
    ASSUME IInv, live, NEW new \in [Subs -> Connection],
           Becomes(new), Tell(mount), UNCHANGED <<mount, live, healthy>>,
           hidden' \in BOOLEAN,
           \A s \in Subs :
              /\ ShowsTruth(new[s])
              /\ new[s].closed => new[s].unavailable
              /\ ~hidden' /\ ~new[s].closed => new[s].timer \/ new[s].ws # Null
    PROVE  IInv'
<1>1. /\ conn' \in [Mounts -> [Subs -> Connection]]
      /\ \A m \in Mounts : conn'[m] = IF m = mount THEN new ELSE conn[m]
      /\ mount \in Mounts
  BY DEF Becomes, IInv, TypeOK
<1>2. indicator' = Aggregate(conn'[mount]) /\ teller' = mount
  BY DEF Tell
<1>3. TypeOK' /\ (teller <= mount)'
  <2>1. mount <= mount
    BY <1>1 DEF Mounts
  <2> QED
    BY <1>1, <1>2, <2>1, AggregateType DEF IInv, TypeOK
<1>4. NeverDead'
  BY <1>1 DEF IInv, NeverDead
<1>5. (\A m \in Mounts, s \in Subs : ShowsTruth(conn[m][s]))'
  BY <1>1 DEF IInv, ShowsTruth, HasOpenSocket
<1>6. (live => \A s \in Subs : conn[mount][s].closed => conn[mount][s].unavailable)'
  BY <1>1
<1>7. (\A m \in Mounts \ {mount}, s \in Subs : conn[m][s].closed)'
  BY <1>1 DEF IInv
<1> QED
  BY <1>1, <1>2, <1>3, <1>4, <1>5, <1>6, <1>7 DEF IInv

LEMMA InitIInv == Init => IInv
<1> SUFFICES ASSUME Init PROVE IInv
  OBVIOUS
<1> DEFINE k == CHOOSE k \in Slots : TRUE
           c == Connect(Fresh, hidden, k)
<1>1. k \in Slots
  BY SlotsAssumption
<1>2. hidden \in BOOLEAN /\ mount = 1 /\ teller = 1 /\ live /\ indicator = "connecting"
      /\ live \in BOOLEAN /\ healthy \in BOOLEAN
  BY DEF Init
<1>3. 1 \in Mounts
  BY MountsAssumption DEF Mounts
<1>4. conn = [m \in Mounts |-> [s \in Subs |-> IF m = 1 THEN c ELSE Unborn]]
  BY DEF Init
<1> HIDE DEF k
<1>5. /\ c \in Connection /\ ShowsTruth(c) /\ ~c.closed
      /\ ~hidden => c.ws = k
      /\ c.status = "connecting" /\ ~c.unavailable
  BY <1>1, <1>2, BeginOK
<1>6. Unborn \in Connection /\ Unborn.closed = TRUE /\ ShowsTruth(Unborn)
  <2>1. [k0 \in Slots |-> "free"] \in [Slots -> SocketState]
    BY DEF SocketState
  <2>2. Fresh \in Connection
    BY <2>1, BackoffAssumption DEF Fresh, Connection, Age, Status
  <2> QED
    BY <2>2 DEF Unborn, Connection, ShowsTruth
<1> HIDE DEF c
<1>7. /\ conn \in [Mounts -> [Subs -> Connection]]
      /\ \A s \in Subs : conn[1][s] = c
      /\ \A m \in Mounts \ {1}, s \in Subs : conn[m][s] = Unborn
  BY <1>3, <1>4, <1>5, <1>6
<1>8. Aggregate(conn[1]) = "connecting"
  BY <1>5, <1>7, SubsAssumption DEF Aggregate
<1>9. TypeOK
  BY <1>2, <1>3, <1>7 DEF TypeOK, Status
<1>10. NeverDead
  BY <1>1, <1>5, <1>6, <1>7, SlotsAssumption DEF NeverDead
<1> QED
  BY <1>2, <1>3, <1>5, <1>6, <1>7, <1>8, <1>9, <1>10 DEF IInv

LEMMA NextIInv == IInv /\ [Next]_vars => IInv'
<1> SUFFICES ASSUME IInv, [Next]_vars PROVE IInv'
  OBVIOUS
<1>m. \A m \in 1..mount : m \in Mounts
  BY MountsAssumption DEF IInv, TypeOK, Mounts
<1>0. /\ \A m \in Mounts, s \in Subs :
           /\ conn[m][s] \in Connection /\ ShowsTruth(conn[m][s])
           /\ conn[m][s].closed \in BOOLEAN
           /\ ~hidden /\ ~conn[m][s].closed => conn[m][s].timer \/ conn[m][s].ws # Null
           /\ m = mount /\ live /\ conn[m][s].closed => conn[m][s].unavailable
      /\ hidden \in BOOLEAN /\ live \in BOOLEAN /\ mount \in Mounts
  BY DEF IInv, TypeOK, NeverDead, Connection
<1>1. ASSUME NEW m \in 1..mount, NEW s \in Subs, NEW k \in Slots, SocketOpens(m, s, k) PROVE IInv'
  <2> DEFINE c == OnOpen(conn[m][s], k)
             tell == TRUE
  <2>1. Apply(m, s, c, tell) /\ UNCHANGED <<hidden, live, healthy>>
    BY <1>1 DEF SocketOpens
  <2>2. /\ c \in Connection
        /\ ShowsTruth(c)
        /\ ~c.closed => c.timer \/ c.ws # Null \/ hidden
        /\ m = mount /\ live /\ c.closed => c.unavailable
        /\ conn[m][s].closed => c.closed
        /\ ~tell => c.status = conn[m][s].status /\ c.unavailable = conn[m][s].unavailable
    BY <1>m, <1>0, OnOpenOK
  <2>3. tell \in BOOLEAN
    BY <1>m, <1>0
  <2> HIDE DEF c, tell
  <2> QED
    BY <1>m, <1>0, <2>1, <2>2, <2>3, ApplyStep
<1>2. ASSUME NEW m \in 1..mount, NEW s \in Subs, NEW k \in Slots, SocketFails(m, s, k) PROVE IInv'
  <2> DEFINE c == OnErrorClose(conn[m][s], k)
             tell == ~conn[m][s].closed
  <2>1. Apply(m, s, c, tell) /\ UNCHANGED <<hidden, live, healthy>>
    BY <1>2 DEF SocketFails
  <2>2. /\ c \in Connection
        /\ ShowsTruth(c)
        /\ ~c.closed => c.timer \/ c.ws # Null \/ hidden
        /\ m = mount /\ live /\ c.closed => c.unavailable
        /\ conn[m][s].closed => c.closed
        /\ ~tell => c.status = conn[m][s].status /\ c.unavailable = conn[m][s].unavailable
    BY <1>m, <1>0, OnErrorCloseOK
  <2>3. tell \in BOOLEAN
    BY <1>m, <1>0
  <2> HIDE DEF c, tell
  <2> QED
    BY <1>m, <1>0, <2>1, <2>2, <2>3, ApplyStep
<1>3. ASSUME NEW m \in 1..mount, NEW s \in Subs, NEW k \in Slots, SocketCloses(m, s, k) PROVE IInv'
  <2> DEFINE c == OnClose(Release(conn[m][s], k))
             tell == ~conn[m][s].closed
  <2>1. Apply(m, s, c, tell) /\ UNCHANGED <<hidden, live, healthy>>
    BY <1>3 DEF SocketCloses
  <2>2. /\ c \in Connection
        /\ ShowsTruth(c)
        /\ ~c.closed => c.timer \/ c.ws # Null \/ hidden
        /\ m = mount /\ live /\ c.closed => c.unavailable
        /\ conn[m][s].closed => c.closed
        /\ ~tell => c.status = conn[m][s].status /\ c.unavailable = conn[m][s].unavailable
    BY <1>m, <1>0, CleanCloseOK
  <2>3. tell \in BOOLEAN
    BY <1>m, <1>0
  <2> HIDE DEF c, tell
  <2> QED
    BY <1>m, <1>0, <2>1, <2>2, <2>3, ApplyStep
<1>4. ASSUME NEW m \in 1..mount, NEW s \in Subs, NEW k \in Slots, ErrorFrame(m, s, k) PROVE IInv'
  <2>1. PICK code \in {"not_installed", "watch_failed"} :
          Apply(m, s, OnErrorFrame(HangUp(conn[m][s], k), code), TRUE)
    BY <1>4 DEF ErrorFrame
  <2> DEFINE d == HangUp(conn[m][s], k)
             c == OnErrorFrame(d, code)
  <2>0. /\ d \in Connection /\ d.ws = conn[m][s].ws /\ d.timer = conn[m][s].timer
        /\ d.closed = conn[m][s].closed /\ d.unavailable = conn[m][s].unavailable
    BY <1>m, <1>0, SlotUpdate DEF HangUp, Connection, SocketState
  <2> HIDE DEF d
  <2>2. /\ c \in Connection
        /\ ShowsTruth(c)
        /\ ~c.closed => c.timer \/ c.ws # Null \/ hidden
        /\ m = mount /\ live /\ c.closed => c.unavailable
        /\ conn[m][s].closed => c.closed
    BY <1>m, <1>0, <2>0, OnErrorFrameOK
  <2>3. Apply(m, s, c, TRUE) /\ UNCHANGED <<hidden, live, healthy>>
    BY <1>4, <2>1 DEF ErrorFrame, d
  <2> HIDE DEF c
  <2> QED
    BY <1>m, <1>0, <2>2, <2>3, ApplyStep
<1>5. ASSUME NEW m \in 1..mount, NEW s \in Subs, TimerFires(m, s) PROVE IInv'
  <2> DEFINE k == FreeSlot(s)
             d == OnTimer(conn[m][s])
             c == Connect(d, hidden, k)
             tell == ~conn[m][s].closed /\ ~hidden
  <2>1. k \in Slots
    BY <1>5, FreeSlotIn DEF TimerFires
  <2>2. Apply(m, s, c, tell) /\ UNCHANGED <<hidden, live, healthy>>
    BY <1>5 DEF TimerFires
  <2>3. /\ d \in Connection
        /\ ShowsTruth(d)
        /\ d.closed = conn[m][s].closed
        /\ d.status = conn[m][s].status
        /\ d.unavailable = conn[m][s].unavailable
    BY <1>m, <1>0, OnTimerOK
  <2> HIDE DEF d, k
  <2>4. /\ c \in Connection
        /\ ShowsTruth(c)
        /\ c.closed = d.closed
        /\ d.unavailable => c.unavailable
        /\ ~d.closed /\ ~hidden => c.ws = k
        /\ d.closed \/ hidden => c = d
    BY <1>m, <1>0, <2>1, <2>3, ConnectOK
  <2> HIDE DEF c
  <2>5. /\ ~hidden /\ ~c.closed => c.timer \/ c.ws # Null
        /\ m = mount /\ live /\ c.closed => c.unavailable
        /\ conn[m][s].closed => c.closed
        /\ ~tell => c.status = conn[m][s].status /\ c.unavailable = conn[m][s].unavailable
        /\ tell \in BOOLEAN
    BY <1>m, <1>0, <2>1, <2>3, <2>4, SlotsAssumption
  <2> HIDE DEF tell
  <2> QED
    BY <1>m, <1>0, <2>2, <2>4, <2>5, ApplyStep
<1>6. ASSUME NEW m \in 1..mount, NEW s \in Subs, StableElapses(m, s) PROVE IInv'
  <2> DEFINE c == [conn[m][s] EXCEPT !.openedAt = "stable"]
  <2>1. /\ c \in Connection
        /\ \A f \in {"ws", "sock", "timer", "closed", "status", "unavailable"} :
             c[f] = conn[m][s][f]
    BY <1>m, <1>0 DEF Connection, Age
  <2>2. Apply(m, s, c, FALSE) /\ UNCHANGED <<hidden, live, healthy>>
    BY <1>6 DEF StableElapses
  <2>3. ShowsTruth(c)
    BY <1>m, <1>0, <2>1 DEF ShowsTruth, HasOpenSocket
  <2> HIDE DEF c
  <2> QED
    BY <1>m, <1>0, <2>1, <2>2, <2>3, ApplyStep
<1>7. CASE Hide
  <2>1. CASE live
    <3> DEFINE new == [s \in Subs |-> OnHide(conn[mount][s])]
    <3>1. Becomes(new) /\ Tell(mount) /\ hidden' = TRUE /\ UNCHANGED <<mount, live, healthy>>
      BY <1>7, <2>1 DEF Hide
    <3>2. \A s \in Subs :
            /\ new[s] \in Connection
            /\ ShowsTruth(new[s])
            /\ new[s].closed => new[s].unavailable
      BY <1>m, <1>0, <2>1, OnHideOK
    <3>3. new \in [Subs -> Connection]
      BY <3>2
    <3> HIDE DEF new
    <3> QED
      BY <2>1, <3>1, <3>2, <3>3, PageStep
  <2>2. CASE ~live
    <3>1. UNCHANGED <<conn, mount, indicator, teller, live, healthy>> /\ hidden' = TRUE
      BY <1>7, <2>2 DEF Hide, Silent
    <3> QED
      BY <2>2, <3>1 DEF IInv, TypeOK, NeverDead, ShowsTruth, HasOpenSocket
  <2> QED
    BY <2>1, <2>2
<1>8. CASE Show
  <2>1. CASE live
    <3> DEFINE new == [s \in Subs |->
                         IF Reopens(conn[mount][s])
                         THEN Connect(conn[mount][s], FALSE, FreeSlot(s))
                         ELSE conn[mount][s]]
    <3>1. /\ Becomes(new) /\ Tell(mount) /\ hidden' = FALSE
          /\ UNCHANGED <<mount, live, healthy>>
          /\ \A s \in Subs : Reopens(conn[mount][s]) => Room(s)
      BY <1>8, <2>1 DEF Show
    <3>3. ASSUME NEW s \in Subs
          PROVE  /\ new[s] \in Connection
                 /\ ShowsTruth(new[s])
                 /\ new[s].closed => new[s].unavailable
                 /\ ~new[s].closed => new[s].ws # Null
      <4>1. CASE Reopens(conn[mount][s])
        <5>1. /\ conn[mount][s] \in Connection /\ ShowsTruth(conn[mount][s])
              /\ ~conn[mount][s].closed
          BY <1>m, <1>0, <4>1 DEF Reopens
        <5>2. FreeSlot(s) \in Slots
          BY <3>1, <4>1, FreeSlotIn
        <5> DEFINE c == Connect(conn[mount][s], FALSE, FreeSlot(s))
        <5>3. /\ c \in Connection
              /\ ShowsTruth(c)
              /\ c.closed = conn[mount][s].closed
              /\ c.ws = FreeSlot(s)
          BY <5>1, <5>2, ConnectOK
        <5>4. new[s] = c
          BY <4>1
        <5> HIDE DEF c, new
        <5> QED
          BY <5>1, <5>2, <5>3, <5>4, SlotsAssumption
      <4>2. CASE ~Reopens(conn[mount][s])
        <5>1. new[s] = conn[mount][s]
          BY <4>2
        <5> QED
          BY <1>m, <1>0, <2>1, <4>2, <5>1 DEF Reopens
      <4> QED
        BY <4>1, <4>2
    <3>4. new \in [Subs -> Connection]
      BY <3>3
    <3> HIDE DEF new
    <3> QED
      BY <2>1, <3>1, <3>3, <3>4, PageStep
  <2>2. CASE ~live
    <3>1. UNCHANGED <<conn, mount, indicator, teller, live, healthy>> /\ hidden' = FALSE
      BY <1>8, <2>2 DEF Show, Silent
    <3>2. \A m \in Mounts, s \in Subs : conn[m][s].closed
      BY <2>2 DEF IInv
    <3> QED
      BY <2>2, <3>1, <3>2 DEF IInv, TypeOK, NeverDead, ShowsTruth, HasOpenSocket
  <2> QED
    BY <2>1, <2>2
<1>9. CASE TearDown
  <2>1. /\ Closed \in [Subs -> Connection]
        /\ \A s \in Subs : Closed[s].closed = TRUE /\ ShowsTruth(Closed[s])
    BY ClosedOK DEF IInv
  <2>2. /\ live' = FALSE /\ indicator' = "paused" /\ teller' = mount
        /\ UNCHANGED <<mount, hidden, healthy>>
        /\ conn' = [conn EXCEPT ![mount] = Closed]
    BY <1>9 DEF TearDown, Becomes
  <2>3. /\ conn' \in [Mounts -> [Subs -> Connection]]
        /\ \A m \in Mounts : conn'[m] = IF m = mount THEN Closed ELSE conn[m]
    BY <2>1, <2>2 DEF IInv, TypeOK
  <2>4. \A m \in Mounts, s \in Subs : conn'[m][s].closed /\ ShowsTruth(conn'[m][s])
    BY <2>1, <2>3 DEF IInv
  <2>5. TypeOK' /\ (teller <= mount)'
    <3>1. mount <= mount
      BY <1>m, <1>0 DEF Mounts
    <3> QED
      BY <2>2, <2>3, <3>1 DEF IInv, TypeOK, Status
  <2>6. NeverDead'
    BY <2>4 DEF NeverDead
  <2>7. (\A m \in Mounts, s \in Subs : ShowsTruth(conn[m][s]))'
    BY <2>4 DEF ShowsTruth, HasOpenSocket
  <2> QED
    BY <1>m, <1>0, <2>2, <2>4, <2>5, <2>6, <2>7 DEF IInv
<1>10. CASE Remount
  <2> DEFINE n == mount + 1
             new == [s \in Subs |-> Connect(Fresh, hidden, FreeSlot(s))]
  <2>1. n \in Mounts /\ n # mount
    BY <1>m, <1>0, <1>10, MountsAssumption DEF Remount, Mounts
  <2>2. /\ Closed \in [Subs -> Connection]
        /\ \A s \in Subs : Closed[s].closed = TRUE /\ ShowsTruth(Closed[s])
    BY ClosedOK DEF IInv
  <2>3. ASSUME NEW s \in Subs
        PROVE  /\ new[s] \in Connection
               /\ ShowsTruth(new[s])
               /\ ~new[s].closed
               /\ ~hidden => new[s].ws # Null
    <3>1. FreeSlot(s) \in Slots
      BY <1>10, FreeSlotIn DEF Remount
    <3> QED
      BY <1>m, <1>0, <3>1, BeginOK, SlotsAssumption
  <2>4. new \in [Subs -> Connection]
    BY <2>3
  <2>5. /\ live' = TRUE /\ mount' = n /\ UNCHANGED <<hidden, healthy>>
        /\ conn' = [conn EXCEPT ![mount] = Closed, ![n] = new]
        /\ IF hidden THEN indicator' = indicator /\ teller' = teller
                     ELSE indicator' = Aggregate(conn'[n]) /\ teller' = n
    BY <1>10 DEF Remount, Tell, Silent
  <2> HIDE DEF new, n
  <2>6. /\ conn' \in [Mounts -> [Subs -> Connection]]
        /\ \A m \in Mounts :
             conn'[m] = IF m = n THEN new ELSE IF m = mount THEN Closed ELSE conn[m]
    BY <2>1, <2>2, <2>4, <2>5 DEF IInv, TypeOK
  <2>7. TypeOK' /\ (teller <= mount)'
    <3>1. n <= n /\ (teller <= mount => teller <= n)
      BY <1>m, <1>0 DEF n, Mounts, IInv, TypeOK
    <3> QED
      BY <2>1, <2>5, <2>6, <3>1, AggregateType DEF IInv, TypeOK
  <2>8. (\A m \in Mounts \ {mount}, s \in Subs : conn[m][s].closed)'
    BY <2>2, <2>5, <2>6 DEF IInv
  <2>9. NeverDead'
    BY <2>1, <2>3, <2>5, <2>6, <2>8 DEF NeverDead
  <2>10. (\A m \in Mounts, s \in Subs : ShowsTruth(conn[m][s]))'
    <3>1. ASSUME NEW m \in Mounts, NEW s \in Subs PROVE ShowsTruth(conn'[m][s])
      BY <2>2, <2>3, <2>6 DEF IInv
    <3> QED
      BY <3>1 DEF ShowsTruth, HasOpenSocket
  <2>11. (live /\ ~Haunted => indicator = Aggregate(conn[mount]))'
    <3>1. CASE hidden
      <4>1. teller <= mount /\ teller \in Nat /\ mount \in Nat
        BY DEF IInv, TypeOK, Mounts
      <4>2. teller' # mount'
        BY <2>5, <3>1, <4>1 DEF n
      <4> QED
        BY <4>2 DEF Haunted
    <3>2. CASE ~hidden
      BY <2>5, <3>2
    <3> QED
      BY <3>1, <3>2
  <2>12. (live => \A s \in Subs : conn[mount][s].closed => conn[mount][s].unavailable)'
    BY <2>1, <2>3, <2>5, <2>6
  <2> QED
    BY <2>5, <2>7, <2>8, <2>9, <2>10, <2>11, <2>12 DEF IInv
<1>11. CASE ServerChanges
  BY <1>11 DEF ServerChanges, IInv, TypeOK, NeverDead, ShowsTruth, HasOpenSocket, Aggregate,
               Haunted
<1>12. CASE UNCHANGED vars
  BY <1>12 DEF vars, IInv, TypeOK, NeverDead, ShowsTruth, HasOpenSocket, Aggregate, Haunted
<1> QED
  BY <1>1, <1>2, <1>3, <1>4, <1>5, <1>6, <1>7, <1>8, <1>9, <1>10, <1>11, <1>12 DEF Next

-----------------------------------------------------------------------------
\* Every behaviour keeps the types of closures, sockets and indicator.
THEOREM TypeCorrect == Spec => []TypeOK
<1>1. IInv => TypeOK
  BY DEF IInv
<1> QED
  BY <1>1, InitIInv, NextIInv, PTL DEF Spec

\* A visible, unclosed watch always has a socket or a timer that will act: no
\* order of visibility changes, failures, frames and timers strands it.
THEOREM WatchNeverDead == Spec => []NeverDead
<1>1. IInv => NeverDead
  BY DEF IInv
<1> QED
  BY <1>1, InitIInv, NextIInv, PTL DEF Spec

\* The page shows "live" only while every available watch of its last mount has an
\* open socket, as long as no closure of an older mount has had the last word.
THEOREM IndicatorIsHonest == Spec => []IndicatorHonest
<1> QED
  BY HonestFromIInv, InitIInv, NextIInv, PTL DEF Spec
==============================================================================
