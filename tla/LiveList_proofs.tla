---------------------------- MODULE LiveList_proofs ----------------------------
(***************************************************************************)
(* Theorems about LiveList, for any objects and bounds.                    *)
(***************************************************************************)
EXTENDS LiveList, WellFoundedInduction, TLAPS

\* A fetch that has been answered was answered with a moment that has been.
Past(f) == f \in Fetch /\ f.at <= Now

\* The inductive invariant: the list's snapshot is no newer than the answer on its
\* way to the page.
IInv ==
  /\ TypeOK
  /\ Past(fetch) /\ Past(old)
  /\ fetch.state = "answered" => base <= fetch.at

-----------------------------------------------------------------------------
\* A set of numbers with an upper bound has a largest.
LEMMA Largest ==
  ASSUME NEW n \in Nat, NEW S \in SUBSET (1 .. n), S # {}
  PROVE  \E i \in S : \A j \in S : j <= i
<1> DEFINE T == {n - i : i \in S}
           R == OpToRel(<, Nat)
<1>1. T \subseteq Nat /\ T # {}
  <2>1. \A i \in S : i \in Nat /\ i <= n
    OBVIOUS
  <2>2. \A i \in S : n - i \in Nat
    BY <2>1
  <2>3. PICK i \in S : TRUE
    OBVIOUS
  <2>4. n - i \in T
    OBVIOUS
  <2> QED  BY <2>2, <2>4
<1>2. IsWellFoundedOn(R, Nat)
  BY NatLessThanWellFounded
<1>3. \E x \in T : \A y \in T : ~ (<<y, x>> \in R)
  <2> HIDE DEF T, R
  <2> QED  BY <1>1, <1>2, WFMin
<1>4. PICK x \in T : \A y \in T : ~ (<<y, x>> \in R)
  BY <1>3
<1>5. \A y \in T : ~ (y < x)
  BY <1>1, <1>4 DEF OpToRel
<1>6. PICK i \in S : x = n - i
  OBVIOUS
<1>7. ASSUME NEW j \in S PROVE j <= i
  <2>1. ~ (n - j < n - i)
    BY <1>5, <1>6
  <2> QED  BY <2>1
<1> QED  BY <1>7

\* What the cluster held after n changes is a list of rows not newer than n.
LEMMA StateAtType ==
  ASSUME TypeOK, NEW n \in 0 .. Now
  PROVE  StateAt(n) \in [Objs -> 0 .. n]
<1> SUFFICES ASSUME NEW o \in Objs PROVE StateAt(n)[o] \in 0 .. n
  BY DEF StateAt
<1> DEFINE touched == {i \in 1 .. n : log[i].obj = o}
           last == CHOOSE i \in touched : \A j \in touched : j <= i
<1>0. n \in Nat
  BY DEF TypeOK, Now
<1>1. StateAt(n)[o] = IF touched = {} \/ log[last].gone THEN 0 ELSE last
  BY DEF StateAt
<1>2. CASE touched = {}
  BY <1>0, <1>1, <1>2
<1>3. CASE touched # {}
  <2>1. \E i \in touched : \A j \in touched : j <= i
    BY <1>0, <1>3, Largest
  <2>2. last \in touched
    BY <2>1
  <2>3. last \in 1 .. n
    BY <2>2
  <2> QED  BY <1>0, <1>1, <2>3
<1> QED  BY <1>2, <1>3

-----------------------------------------------------------------------------
LEMMA InitInv == Init => IInv
<1> SUFFICES ASSUME Init PROVE IInv
  OBVIOUS
<1>1. PICK o \in Objs : log = <<[obj |-> o, gone |-> FALSE]>>
  BY DEF Init
<1>2. log \in Seq([obj : Objs, gone : BOOLEAN]) /\ Now = 1 /\ 1 <= MaxChanges
  BY <1>1, BoundAssumption DEF Now
<1>3. wire \in Seq([obj : Objs, row : 0 .. Now]) /\ Len(wire) <= MaxWire
  BY BoundAssumption DEF Init
<1>4. TypeOK
  <2>1. rv \in 0 .. Now /\ pos \in 0 .. Now /\ rows \in [Objs -> 0 .. Now] /\ base \in 0 .. Now
    BY <1>2 DEF Init
  <2>2. fetch \in Fetch /\ old \in Fetch
    BY BoundAssumption DEF Init, Fetch, Asked, Idle
  <2>3. up \in BOOLEAN /\ watching \in BOOLEAN /\ initial \subseteq Objs
        /\ {patch, timer, calm} \subseteq BOOLEAN
    BY DEF Init
  <2> QED  BY <1>2, <1>3, <2>1, <2>2, <2>3 DEF TypeOK, Now
<1> QED  BY <1>2, <1>4, BoundAssumption DEF Init, IInv, Past, Fetch, Asked, Idle

\* The cluster's change moves the present and nothing of the list.
LEMMA ChangeInv ==
  ASSUME IInv, NEW o \in Objs, Change(o)
  PROVE  IInv'
<1> USE DEF IInv, Past
<1>1. PICK gone \in BOOLEAN : log' = Append(log, [obj |-> o, gone |-> gone])
  BY DEF Change
<1>2. log' \in Seq([obj : Objs, gone : BOOLEAN]) /\ Now' = Now + 1 /\ Now' <= MaxChanges
      /\ Now \in Nat
  BY <1>1, BoundAssumption DEF TypeOK, Now, Change
<1>3. UNCHANGED <<up, watching, rv, initial, pos, wire, patch, rows, base, fetch, old, timer, calm>>
  BY DEF Change, serverVars, clientVars
<1>4. 0 .. Now \subseteq 0 .. Now'
  BY <1>2
<1>5. wire' \in Seq([obj : Objs, row : 0 .. Now'])
  <2>1. wire \in Seq([obj : Objs, row : 0 .. Now])
    BY DEF TypeOK
  <2> DEFINE M == [obj : Objs, row : 0 .. Now]
             M2 == [obj : Objs, row : 0 .. Now']
  <2>2. \A m \in M : m \in M2
    BY <1>4
  <2>3. wire \in Seq(M) /\ wire' = wire
    BY <1>3, <2>1
  <2> HIDE DEF M, M2
  <2>4. wire' \in Seq(M2)
    BY <2>2, <2>3
  <2> QED  BY <2>4 DEF M2
<1>6. rows' \in [Objs -> 0 .. Now']
  BY <1>3, <1>4 DEF TypeOK
<1>7. TypeOK'
  BY <1>2, <1>3, <1>4, <1>5, <1>6 DEF TypeOK, Now
<1> QED  BY <1>2, <1>3, <1>7 DEF TypeOK, Fetch

\* The server's steps and the socket's: nothing of the list changes.
LEMMA ServerInv ==
  ASSUME IInv,
         \/ \E o \in Objs : SendInitial(o)
         \/ Connects \/ Drops \/ Watches \/ WatchError \/ WatchExpires \/ SendEvent \/ Bookmark
  PROVE  IInv'
<1> USE DEF IInv, Past
<1>0. Now \in Nat /\ log \in Seq([obj : Objs, gone : BOOLEAN]) /\ Now <= MaxChanges
  BY DEF TypeOK, Now
<1>1. UNCHANGED <<log, patch, calm, rows, base, fetch, old, timer>>
  BY DEF SendInitial, Connects, Drops, Watches, WatchError, WatchExpires, SendEvent, Bookmark,
         clientVars
<1>2. SUFFICES /\ rv' \in 0 .. Now /\ pos' \in 0 .. Now
               /\ up' \in BOOLEAN /\ watching' \in BOOLEAN /\ initial' \subseteq Objs
               /\ wire' \in Seq([obj : Objs, row : 0 .. Now]) /\ Len(wire') <= MaxWire
  BY <1>1 DEF TypeOK, Now
<1>3. CASE \E o \in Objs : SendInitial(o)
  <2>1. PICK o \in Objs : SendInitial(o)
    BY <1>3
  <2>2. StateWhenWatched(o) \in 0 .. Now
    <3>1. pos \in 0 .. Now
      BY DEF TypeOK
    <3>2. StateAt(pos) \in [Objs -> 0 .. pos]
      BY <3>1, StateAtType
    <3> QED  BY <1>0, <3>1, <3>2 DEF StateWhenWatched
  <2>3. wire' = Append(wire, [obj |-> o, row |-> StateWhenWatched(o)]) /\ Len(wire) < MaxWire
    BY <2>1 DEF SendInitial, Send
  <2>4. wire' \in Seq([obj : Objs, row : 0 .. Now]) /\ Len(wire') <= MaxWire
    BY <2>2, <2>3, BoundAssumption DEF TypeOK
  <2> QED  BY <2>1, <2>2, <2>4 DEF SendInitial, TypeOK
<1>4. CASE Connects \/ Drops \/ WatchError \/ WatchExpires
  <2>1. /\ rv' \in {0, rv} /\ pos' = 0 /\ up' \in BOOLEAN /\ watching' = FALSE
        /\ initial' = {} /\ wire' \in {<<>>, wire}
    BY <1>4 DEF Connects, Drops, WatchError, WatchExpires, TypeOK
  <2>2. <<>> \in Seq([obj : Objs, row : 0 .. Now]) /\ Len(<<>>) <= MaxWire
    BY BoundAssumption
  <2>3. wire \in Seq([obj : Objs, row : 0 .. Now]) /\ Len(wire) <= MaxWire /\ rv \in 0 .. Now
    BY DEF TypeOK
  <2>4. wire' \in Seq([obj : Objs, row : 0 .. Now]) /\ Len(wire') <= MaxWire
    BY <2>1, <2>2, <2>3
  <2>5. rv' \in 0 .. Now /\ pos' \in 0 .. Now
    BY <1>0, <2>1, <2>3
  <2> QED  BY <2>1, <2>4, <2>5
<1>5. CASE Watches \/ Bookmark
  <2>1. /\ rv' \in {rv, pos} /\ pos' \in {Now, rv, pos} /\ initial' \subseteq Objs
        /\ watching' \in BOOLEAN /\ UNCHANGED <<up, wire>>
    BY <1>5 DEF Watches, Bookmark, TypeOK
  <2> QED  BY <1>0, <2>1 DEF TypeOK
<1>6. CASE SendEvent
  <2> DEFINE e == log[pos + 1]
             row == IF e.gone THEN 0 ELSE pos + 1
  <2>1. pos + 1 \in 1 .. Now
    BY <1>0, <1>6 DEF SendEvent, TypeOK
  <2>2. e \in [obj : Objs, gone : BOOLEAN]
    <3> DEFINE E == [obj : Objs, gone : BOOLEAN]
    <3>1. log \in Seq(E) /\ pos + 1 \in 1 .. Len(log)
      BY <1>0, <2>1 DEF Now
    <3> HIDE DEF E
    <3>2. log[pos + 1] \in E
      BY <3>1
    <3> QED  BY <3>2 DEF E
  <2>3. row \in 0 .. Now
    BY <1>0, <2>1
  <2>4. wire' = Append(wire, [obj |-> e.obj, row |-> row]) /\ Len(wire) < MaxWire
    BY <1>6 DEF SendEvent, Send
  <2>5. wire' \in Seq([obj : Objs, row : 0 .. Now]) /\ Len(wire') <= MaxWire
    <3>1. [obj |-> e.obj, row |-> row] \in [obj : Objs, row : 0 .. Now]
      BY <2>2, <2>3
    <3> HIDE DEF e, row
    <3> QED  BY <2>4, <3>1, BoundAssumption DEF TypeOK
  <2> QED  BY <1>0, <1>6, <2>1, <2>5 DEF SendEvent, TypeOK
<1> QED  BY <1>3, <1>4, <1>5, <1>6

\* A message that arrives is a row the cluster has had, or arms the timer.
LEMMA ReceiveInv ==
  ASSUME IInv, Receive
  PROVE  IInv'
<1> USE DEF IInv, Past
<1> DEFINE m == Head(wire)
<1>1. UNCHANGED <<log, up, patch, calm, watching, rv, initial, pos, base, fetch, old>>
  BY DEF Receive, serverVars
<1>2. m \in [obj : Objs, row : 0 .. Now] /\ wire' \in Seq([obj : Objs, row : 0 .. Now])
      /\ Len(wire') <= MaxWire
  <2> DEFINE M == [obj : Objs, row : 0 .. Now]
  <2>1. wire \in Seq(M) /\ wire # <<>> /\ wire' = Tail(wire) /\ Len(wire) <= MaxWire
    BY DEF Receive, TypeOK
  <2> HIDE DEF M
  <2>2. Head(wire) \in M /\ wire' \in Seq(M) /\ Len(wire') <= MaxWire
    BY <2>1, BoundAssumption
  <2> QED  BY <2>2 DEF M
<1>3. rows' \in [Objs -> 0 .. Now] /\ timer' \in BOOLEAN
  <2>1. CASE patch
    <3>1. rows' = [rows EXCEPT ![m.obj] = m.row] /\ timer' = timer
      BY <2>1 DEF Receive
    <3> HIDE DEF m
    <3> QED  BY <1>2, <3>1 DEF TypeOK
  <2>2. CASE ~patch
    BY <2>2 DEF Receive, TypeOK
  <2> QED  BY <2>1, <2>2
<1> HIDE DEF m
<1> QED  BY <1>1, <1>2, <1>3 DEF TypeOK, Now

\* Asking again supersedes the fetch on its way; the new one has no answer yet.
LEMMA RefetchInv ==
  ASSUME IInv, TimerFires \/ UserRefresh
  PROVE  IInv'
<1> USE DEF IInv, Past
<1>1. UNCHANGED <<log, up, wire, patch, calm, watching, rv, initial, pos, rows, base>>
      /\ timer' \in BOOLEAN
  BY DEF TimerFires, UserRefresh, serverVars, TypeOK
<1>2. fetch' = Asked /\ old' \in {fetch, old}
  BY DEF TimerFires, UserRefresh, Refetch
<1> QED  BY <1>1, <1>2, BoundAssumption DEF TypeOK, Now, Fetch, Asked

\* Answers are the cluster of the moment; one that is shown was current.
LEMMA FetchInv ==
  ASSUME IInv, ListAnswers \/ OldListAnswers \/ FetchArrives \/ OldFetchArrives \/ FetchFails
  PROVE  IInv'
<1> USE DEF IInv, Past
<1>0. Now \in Nat /\ Now <= MaxChanges
  BY DEF TypeOK, Now
<1>1. UNCHANGED <<log, up, wire, patch, calm, watching, rv, initial, pos, timer>>
  BY DEF ListAnswers, OldListAnswers, FetchArrives, OldFetchArrives, FetchFails, serverVars
<1>2. SUFFICES /\ rows' \in [Objs -> 0 .. Now] /\ base' \in 0 .. Now
               /\ Past(fetch') /\ Past(old')
               /\ fetch'.state = "answered" => base' <= fetch'.at
  BY <1>1 DEF TypeOK, Now
<1>3. CASE ListAnswers \/ OldListAnswers
  <2>1. Past(Answered(Now)) /\ base <= Answered(Now).at
    BY <1>0 DEF Answered, Fetch, TypeOK
  <2>2. rows' = rows /\ base' = base /\ fetch' \in {fetch, Answered(Now)}
        /\ old' \in {old, Answered(Now)}
    BY <1>3 DEF ListAnswers, OldListAnswers
  <2> QED  BY <1>0, <2>1, <2>2 DEF TypeOK
<1>4. CASE FetchArrives
  <2>1. rows' = StateAt(fetch.at) /\ base' = fetch.at /\ fetch' = Idle /\ old' = old
    BY <1>4 DEF FetchArrives, Settle
  <2>2. fetch.at \in 0 .. Now
    BY <1>0 DEF Fetch
  <2>3. StateAt(fetch.at) \in [Objs -> 0 .. fetch.at]
    BY <2>2, StateAtType
  <2> QED  BY <1>0, <2>1, <2>2, <2>3, BoundAssumption DEF Idle, Fetch
<1>5. CASE OldFetchArrives
  <2>1. UNCHANGED <<rows, base, fetch>> /\ old' = Idle
    BY <1>5 DEF OldFetchArrives, Settle
  <2>2. Past(Idle)
    BY <1>0, BoundAssumption DEF Idle, Fetch
  <2> QED  BY <1>0, <2>1, <2>2 DEF TypeOK
<1>6. CASE FetchFails
  <2>1. UNCHANGED <<rows, base, old>> /\ fetch' = Failed
    BY <1>6 DEF FetchFails
  <2>2. Past(Failed) /\ Failed.state # "answered"
    BY <1>0, BoundAssumption DEF Failed, Fetch
  <2> QED  BY <1>0, <2>1, <2>2 DEF TypeOK
<1> QED  BY <1>3, <1>4, <1>5, <1>6

LEMMA StepInv == IInv /\ [Next]_vars => IInv'
<1> SUFFICES ASSUME IInv, [Next]_vars PROVE IInv'
  OBVIOUS
<1>1. CASE \E o \in Objs : Change(o)
  BY <1>1, ChangeInv
<1>2. CASE \/ \E o \in Objs : SendInitial(o)
           \/ Connects \/ Drops \/ Watches \/ WatchError \/ WatchExpires \/ SendEvent \/ Bookmark
  BY <1>2, ServerInv
<1>3. CASE Receive
  BY <1>3, ReceiveInv
<1>4. CASE TimerFires \/ UserRefresh
  BY <1>4, RefetchInv
<1>5. CASE ListAnswers \/ OldListAnswers \/ FetchArrives \/ OldFetchArrives \/ FetchFails
  BY <1>5, FetchInv
<1>6. CASE CalmsDown
  BY <1>6 DEF CalmsDown, serverVars, clientVars, IInv, Past, TypeOK, Now
<1>7. CASE UNCHANGED vars
  BY <1>7 DEF vars, serverVars, clientVars, IInv, Past, TypeOK, Now
<1> QED  BY <1>1, <1>2, <1>3, <1>4, <1>5, <1>6, <1>7 DEF Next

LEMMA Invariance == Spec => []IInv
<1> QED  BY InitInv, StepInv, PTL DEF Spec

\* Cluster, stream, socket and list keep their types: what the page shows of an
\* object is a state the object has had, or nothing, in patch mode too.
THEOREM TypeCorrect == Spec => []TypeOK
<1>1. IInv => TypeOK
  BY DEF IInv
<1> QED  BY <1>1, Invariance, PTL

\* A step of a good list leaves its snapshot or takes the current answer, which
\* is not older.
LEMMA StepForward == IInv /\ [Next]_vars => [base' >= base]_vars
<1> SUFFICES ASSUME IInv, Next PROVE base' >= base
  OBVIOUS
<1>0. base \in Nat
  BY DEF IInv, TypeOK, Now
<1>1. CASE FetchArrives
  BY <1>0, <1>1 DEF FetchArrives, Settle, IInv, Past, Fetch
<1>2. CASE ~FetchArrives
  <2>1. base' = base
    BY <1>2 DEF Next, Change, SendInitial, CalmsDown, Connects, Drops, Watches, WatchError,
                WatchExpires, SendEvent, Bookmark, Receive, TimerFires, UserRefresh, ListAnswers,
                OldListAnswers, OldFetchArrives, Settle, FetchFails, clientVars
  <2> QED  BY <1>0, <2>1
<1> QED  BY <1>1, <1>2

\* The list a page takes from a fetch is never older than the one it had: the
\* cancelled flag of useResource's effect, whatever the order of the answers.
THEOREM NeverGoesBack == Spec => NeverBackInTime
<1> QED  BY Invariance, StepForward, PTL DEF Spec, NeverBackInTime
=============================================================================
