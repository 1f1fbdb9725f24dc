--------------------------- MODULE AuditStore_proofs ---------------------------
(***************************************************************************)
(* Proofs about AuditStore: its type invariant and its three safety        *)
(* invariants, for any pods, any capacity and any number of requests.      *)
(***************************************************************************)
EXTENDS AuditStore, SequenceTheorems, TLAPS

\* What a Flush under way on a quiet pod carries: an earlier state of the trail,
\* and the present one when no Record has raised the flag since.
FlushCarries(p) ==
    LET t == flush[p]["ticker"]
    IN  Quiet(p) /\ t.at \in {"snapped", "got"} =>
            /\ Continues(log[p], t.log)
            /\ ~dirty[p] /\ marking[p] = {} => t.log = log[p]

\* What holds of each pod: main's Flush runs after SIGTERM only, a pod that is down
\* flushes nothing, and the three parts of the two trail properties.
PodOK(p) ==
    /\ phase[p] \in {"down", "running"} => flush[p]["main"].at = "idle"
    /\ phase[p] = "down" => flush[p]["ticker"].at = "idle"
    /\ Quiet(p) => Continues(log[p], cm)
    /\ Quiet(p) /\ ~dirty[p] /\ marking[p] = {} /\ flush[p]["ticker"].at = "idle" => cm = log[p]
    /\ FlushCarries(p)

NothingYet == ~exists => cm = Empty

IInv ==
    /\ TypeOK
    /\ NoHoles
    /\ NothingYet
    /\ \A p \in Pods : PodOK(p)

-----------------------------------------------------------------------------
(* The ring *)

LEMMA NewestIsSuffix ==
    ASSUME NEW S, NEW s \in Seq(S), NEW n \in Nat
    PROVE  /\ Newest(s, n) \in Seq(S)
           /\ Len(Newest(s, n)) = IF Len(s) > n THEN n ELSE Len(s)
           /\ \A i \in 1..Len(Newest(s, n)) :
                Newest(s, n)[i] = s[Len(s) - Len(Newest(s, n)) + i]
<1>1. CASE Len(s) > n
  <2> DEFINE k == Len(s) - n + 1
  <2>1. k \in 1..Len(s)+1 /\ k \in Int /\ Len(s) \in Nat
    BY <1>1, LenProperties
  <2>2. \A i \in k..Len(s) : s[i] \in S
    BY <2>1, ElementOfSeq
  <2>3. /\ SubSeq(s, k, Len(s)) \in Seq(S)
        /\ Len(SubSeq(s, k, Len(s))) = IF k <= Len(s) THEN Len(s) - k + 1 ELSE 0
        /\ \A i \in 1 .. Len(s) - k + 1 : SubSeq(s, k, Len(s))[i] = s[k + i - 1]
    BY <2>1, SubSeqProperties
  <2>4. Newest(s, n) = SubSeq(s, k, Len(s))
    BY <1>1 DEF Newest
  <2>5. Len(s) - k + 1 = n /\ (\A i \in Int : k + i - 1 = Len(s) - n + i)
    BY <2>1
  <2> QED BY <1>1, <2>1, <2>3, <2>4, <2>5
<1>2. CASE ~(Len(s) > n)
  BY <1>2, LenProperties DEF Newest
<1> QED BY <1>1, <1>2

LEMMA ContiguousLog ==
    ASSUME NEW r, NEW n, Len(r) <= Cap,
           \A i \in 1..Len(r) : r[i].id = n - Len(r) + i
    PROVE  Contiguous([entries |-> r, nextID |-> n])
  BY DEF Contiguous

LEMMA ContinuesLog ==
    ASSUME NEW r, NEW n, NEW k, k.nextID <= n,
           \A i \in 1..Len(k.entries) :
             k.entries[i].id > n - Cap => \E j \in 1..Len(r) : r[j] = k.entries[i]
    PROVE  Continues([entries |-> r, nextID |-> n], k)
  BY DEF Continues

LEMMA RecordOK ==
    ASSUME NEW l \in Log, NEW op \in 1..MaxOps
    PROVE  /\ Record(l, op) \in Log
           /\ Contiguous(l) => Contiguous(Record(l, op))
           /\ \A k \in Log : Contiguous(l) /\ Contiguous(k) /\ Continues(l, k)
                               => Continues(Record(l, op), k)
<1> DEFINE e == [id |-> l.nextID + 1, op |-> op]
           a == Append(l.entries, e)
           r == Newest(a, Cap)
<1>1. l.entries \in Seq(Entry) /\ l.nextID \in Nat /\ e \in Entry
  BY DEF Log, Entry
<1>2. /\ a \in Seq(Entry) /\ Len(a) = Len(l.entries) + 1 /\ Len(l.entries) \in Nat
      /\ \A i \in 1..Len(l.entries) : a[i] = l.entries[i]
      /\ a[Len(l.entries) + 1] = e
  BY <1>1, AppendProperties, LenProperties
<1>3. Cap \in Nat \ {0}
  BY CapAssumption
<1>4. /\ r \in Seq(Entry)
      /\ Len(r) = IF Len(a) > Cap THEN Cap ELSE Len(a)
      /\ \A i \in 1..Len(r) : r[i] = a[Len(a) - Len(r) + i]
  BY <1>2, <1>3, NewestIsSuffix
<1>5. Record(l, op) = [entries |-> r, nextID |-> l.nextID + 1]
  BY DEF Record
<1>6. Record(l, op) \in Log
  BY <1>1, <1>4, <1>5 DEF Log
<1>9. Len(a) \in Nat /\ Len(r) \in Nat /\ Len(r) <= Len(a) /\ Len(r) <= Cap
  BY <1>2, <1>3, <1>4
<1>10. e.id = l.nextID + 1
  OBVIOUS
<1> HIDE DEF e, a, r
<1>7. ASSUME Contiguous(l)
      PROVE  Contiguous(Record(l, op))
  <2>1. \A i \in 1..Len(a) : a[i].id = l.nextID + 1 - Len(a) + i
    <3> SUFFICES ASSUME NEW i \in 1..Len(a)
                 PROVE  a[i].id = l.nextID + 1 - Len(a) + i
      OBVIOUS
    <3>1. CASE i = Len(l.entries) + 1
      BY <1>1, <1>2, <1>10, <3>1
    <3>2. CASE i \in 1..Len(l.entries)
      <4>1. l.entries[i].id = l.nextID - Len(l.entries) + i
        BY <1>7, <3>2 DEF Contiguous
      <4>2. a[i] = l.entries[i]
        BY <1>2, <3>2
      <4> QED BY <1>1, <1>2, <3>2, <4>1, <4>2
    <3> QED BY <1>2, <3>1, <3>2
  <2>2. \A i \in 1..Len(r) : /\ Len(a) - Len(r) + i \in 1..Len(a)
                             /\ r[i] = a[Len(a) - Len(r) + i]
    BY <1>4, <1>9
  <2>3. \A i \in 1..Len(r) : r[i].id = l.nextID + 1 - Len(r) + i
    <3> SUFFICES ASSUME NEW i \in 1..Len(r)
                 PROVE  r[i].id = l.nextID + 1 - Len(r) + i
      OBVIOUS
    <3> DEFINE m == Len(a) - Len(r) + i
    <3>1. m \in 1..Len(a) /\ r[i] = a[m]
      BY <2>2
    <3>2. a[m].id = l.nextID + 1 - Len(a) + m
      BY <2>1, <3>1
    <3> QED BY <1>1, <1>9, <3>1, <3>2
  <2>4. Contiguous([entries |-> r, nextID |-> l.nextID + 1])
    <3> DEFINE n == l.nextID + 1
    <3>1. Len(r) <= Cap /\ \A i \in 1..Len(r) : r[i].id = n - Len(r) + i
      BY <1>1, <1>9, <2>3
    <3> HIDE DEF n
    <3>2. Contiguous([entries |-> r, nextID |-> n])
      BY <3>1, ContiguousLog
    <3> QED BY <3>2 DEF n
  <2> QED BY <1>5, <2>4
<1>8. ASSUME NEW k \in Log, Contiguous(l), Contiguous(k), Continues(l, k)
      PROVE  Continues(Record(l, op), k)
  <2>1. k.nextID <= l.nextID + 1
    BY <1>1, <1>8 DEF Continues, Log
  <2>2. ASSUME NEW i \in 1..Len(k.entries), k.entries[i].id > l.nextID + 1 - Cap
        PROVE  \E j \in 1..Len(r) : r[j] = k.entries[i]
    <3>1. k.entries[i].id \in Nat
      <4>1. k.entries \in Seq(Entry)
        BY DEF Log
      <4>2. k.entries[i] \in Entry
        BY <4>1, ElementOfSeq
      <4> QED BY <4>2 DEF Entry
    <3>2. k.entries[i].id > l.nextID - Cap
      BY <1>1, <1>3, <2>2, <3>1
    <3>3. PICK j \in 1..Len(l.entries) : l.entries[j] = k.entries[i]
      BY <1>8, <3>2 DEF Continues
    <3>4. l.nextID - Len(l.entries) + j > l.nextID + 1 - Cap
      BY <1>8, <2>2, <3>3 DEF Contiguous
    <3>5. Len(l.entries) - j < Cap - 1 /\ Len(l.entries) <= Cap
      BY <1>1, <1>2, <1>3, <1>8, <3>3, <3>4 DEF Contiguous
    <3> DEFINE m == j - (Len(a) - Len(r))
    <3>6. m \in 1..Len(r) /\ Len(a) - Len(r) + m = j
      <4>1. Len(a) - Len(r) < j
        <5>1. j \in Nat /\ j >= 1 /\ Len(a) = Len(l.entries) + 1 /\ Len(l.entries) \in Nat
          BY <1>2, <3>3
        <5>2. CASE Len(a) > Cap
          <6>1. Len(r) = Cap
            BY <1>4, <5>2
          <6> QED BY <1>3, <3>5, <5>1, <6>1
        <5>3. CASE ~(Len(a) > Cap)
          <6>1. Len(r) = Len(a)
            BY <1>4, <5>3
          <6> QED BY <5>1, <6>1
        <5> QED BY <5>2, <5>3
      <4>2. Len(l.entries) \in Nat /\ j \in Nat /\ j <= Len(a)
        BY <1>2, <3>3
      <4>3. m \in Int /\ m >= 1 /\ m <= Len(r)
        BY <1>9, <4>1, <4>2
      <4> QED BY <1>9, <4>2, <4>3
    <3>7. r[m] = a[j]
      BY <1>4, <3>6
    <3> QED BY <1>2, <3>3, <3>6, <3>7
  <2>3. Continues([entries |-> r, nextID |-> l.nextID + 1], k)
    <3> DEFINE n == l.nextID + 1
    <3>1. /\ k.nextID <= n
          /\ \A i \in 1..Len(k.entries) :
               k.entries[i].id > n - Cap => \E j \in 1..Len(r) : r[j] = k.entries[i]
      BY <1>1, <1>3, <2>1, <2>2
    <3> HIDE DEF n
    <3>2. Continues([entries |-> r, nextID |-> n], k)
      BY <3>1, ContinuesLog
    <3> QED BY <3>2 DEF n
  <2> QED BY <1>5, <2>3
<1> QED BY <1>6, <1>7, <1>8

LEMMA RestoreOK ==
    ASSUME NEW l \in Log, Contiguous(l)
    PROVE  Restore(l) = l
<1>1. l.entries \in Seq(Entry) /\ Len(l.entries) <= Cap /\ Len(l.entries) \in Nat /\ Cap \in Nat
  BY CapAssumption, LenProperties DEF Log, Contiguous
<1>2. Newest(l.entries, Cap) = l.entries
  BY <1>1 DEF Newest
<1> QED BY <1>2 DEF Restore, Log

LEMMA EmptyOK == Empty \in Log /\ Contiguous(Empty)
<1>1. << >> \in Seq(Entry) /\ Len(<< >>) = 0
  OBVIOUS
<1>2. Empty \in Log
  BY <1>1 DEF Empty, Log
<1>3. Contiguous(Empty)
  BY <1>1, CapAssumption DEF Empty, Contiguous
<1> QED BY <1>2, <1>3

\* What earlier pods left is a trail.
LEMMA LeftOK ==
    ASSUME NEW n \in Before
    PROVE  Left(n) \in Log /\ Contiguous(Left(n)) /\ (n = 0 => Left(n) = Empty)
<1> DEFINE e == [i \in 1..n |-> [id |-> i, op |-> Earlier]]
<1>1. n \in Nat /\ n <= Cap
  BY BeforeAssumption, CapAssumption
<1>2. e \in Seq(Entry) /\ Len(e) = n
  BY <1>1 DEF Entry
<1>3. \A i \in 1..Len(e) : e[i].id = n - Len(e) + i
  BY <1>1, <1>2
<1>4. n = 0 => e = << >>
  BY <1>1
<1>5. Left(n) = [entries |-> e, nextID |-> n]
  BY DEF Left
<1> HIDE DEF e
<1>6. Left(n) \in Log
  BY <1>1, <1>2, <1>5 DEF Log
<1>7. Contiguous(Left(n))
  BY <1>1, <1>2, <1>3, <1>5, ContiguousLog
<1> QED BY <1>4, <1>5, <1>6, <1>7 DEF Empty

LEMMA ContinuesSelf == ASSUME NEW l \in Log PROVE Continues(l, l)
  BY DEF Continues, Log

LEMMA FlushStates ==
    /\ NoFlush \in FlushState /\ Called \in FlushState
    /\ NoFlush.at = "idle" /\ Called.at = "called"
    /\ NoFlush.log = Empty /\ Called.log = Empty
  BY EmptyOK DEF NoFlush, Called, FlushState

LEMMA FlushUpdates ==
    ASSUME NEW s \in FlushState
    PROVE  /\ [s EXCEPT !.fresh = FALSE] \in FlushState
           /\ [s EXCEPT !.fresh = FALSE].at = s.at
           /\ [s EXCEPT !.fresh = FALSE].log = s.log
           /\ [s EXCEPT !.at = "got", !.fresh = TRUE] \in FlushState
           /\ [s EXCEPT !.at = "got", !.fresh = TRUE].at = "got"
           /\ [s EXCEPT !.at = "got", !.fresh = TRUE].log = s.log
  BY DEF FlushState

-----------------------------------------------------------------------------
(* The type invariant *)

LEMMA TypeInit == Init => TypeOK
<1> SUFFICES ASSUME Init PROVE TypeOK
  OBVIOUS
<1>1. flush \in [Pods -> [Flushers -> FlushState]]
  <2>1. [f \in Flushers |-> NoFlush] \in [Flushers -> FlushState]
    BY FlushStates
  <2> QED BY <2>1 DEF Init
<1>2. log \in [Pods -> Log] /\ cm \in Log
  BY EmptyOK, LeftOK DEF Init
<1>3. asked \in 0..MaxOps
  BY OpsAssumption DEF Init
<1>4. phase \in [Pods -> {"down", "running", "flushing", "draining"}]
  BY DEF Init
<1>5. dirty \in [Pods -> BOOLEAN] /\ disturbed \in [Pods -> BOOLEAN] /\ exists \in BOOLEAN
  BY DEF Init
<1>6. inflight \in [Pods -> SUBSET (1..MaxOps)] /\ marking \in [Pods -> SUBSET (1..MaxOps)]
  BY DEF Init
<1> QED BY <1>1, <1>2, <1>3, <1>4, <1>5, <1>6 DEF TypeOK

LEMMA ServeType ==
    ASSUME TypeOK, NEW p \in Pods, Serve(p)
    PROVE  TypeOK'
<1>1. CASE Request(p)
  <2>1. asked' \in 1..MaxOps
    BY <1>1, OpsAssumption DEF Request, TypeOK
  <2> QED BY <1>1, <2>1 DEF Request, TypeOK
<1>2. ASSUME NEW op \in inflight[p], AppendEntry(p, op)
      PROVE  TypeOK'
  <2>1. op \in 1..MaxOps
    BY DEF TypeOK
  <2>2. Record(log[p], op) \in Log
    BY <2>1, RecordOK DEF TypeOK
  <2> QED BY <1>2, <2>1, <2>2 DEF AppendEntry, TypeOK
<1>3. ASSUME NEW op \in inflight[p], Panic(p, op)
      PROVE  TypeOK'
  BY <1>3 DEF Panic, TypeOK
<1>4. ASSUME NEW op \in marking[p], MarkDirty(p, op)
      PROVE  TypeOK'
  BY <1>4 DEF MarkDirty, TypeOK
<1> QED BY <1>1, <1>2, <1>3, <1>4 DEF Serve, Marks

LEMMA SetFlushType ==
    ASSUME TypeOK, NEW p \in Pods, NEW f \in Flushers, NEW s \in FlushState, SetFlush(p, f, s)
    PROVE  flush' \in [Pods -> [Flushers -> FlushState]]
  BY DEF TypeOK, SetFlush

LEMMA FlushType ==
    ASSUME TypeOK, NEW p \in Pods, NEW f \in Flushers, FlushStep(p, f)
    PROVE  TypeOK'
<1>1. CASE Snapshot(p, f)
  <2>1. [at |-> "snapped", log |-> log[p], fresh |-> FALSE] \in FlushState
    BY DEF TypeOK, FlushState
  <2> QED BY <1>1, <2>1, SetFlushType DEF Snapshot, TypeOK, podVars
<1>2. CASE GetConfigMap(p, f)
  <2>1. [flush[p][f] EXCEPT !.at = "got", !.fresh = TRUE] \in FlushState
    <3>1. flush[p][f] \in FlushState
      BY DEF TypeOK
    <3> QED BY <3>1, FlushUpdates
  <2> QED BY <1>2, <2>1, SetFlushType DEF GetConfigMap, TypeOK, podVars
<1>3. CASE Put(p, f)
  <2>1. \A q \in Pods, g \in Flushers : [flush[q][g] EXCEPT !.fresh = FALSE] \in FlushState
    <3>1. \A q \in Pods, g \in Flushers : flush[q][g] \in FlushState
      BY DEF TypeOK
    <3> QED BY <3>1, FlushUpdates
  <2>2. flush' \in [Pods -> [Flushers -> FlushState]]
    BY <1>3, <2>1, FlushStates DEF Put
  <2>3. flush[p][f].log \in Log
    BY DEF TypeOK, FlushState
  <2> QED BY <1>3, <2>2, <2>3 DEF Put, TypeOK, podVars
<1>4. CASE FlushFails(p, f)
  BY <1>4, FlushStates, SetFlushType DEF FlushFails, TypeOK, podVars
<1> QED BY <1>1, <1>2, <1>3, <1>4 DEF FlushStep

LEMMA TickType ==
    ASSUME TypeOK, NEW p \in Pods, Tick(p)
    PROVE  TypeOK'
<1>1. SetFlush(p, "ticker", Called) /\ "ticker" \in Flushers
  BY DEF Tick, Flushers
<1>2. flush' \in [Pods -> [Flushers -> FlushState]]
  BY <1>1, FlushStates, SetFlushType
<1> QED BY <1>2 DEF Tick, TypeOK

LEMMA MainType ==
    ASSUME TypeOK, NoHoles, NEW p \in Pods, Main(p)
    PROVE  TypeOK'
<1>1. CASE Start(p)
  <2>1. Restore(cm) = cm
    BY RestoreOK DEF TypeOK, NoHoles
  <2> QED BY <1>1, <2>1, EmptyOK DEF Start, StartWith, TypeOK
<1>2. CASE StartFresh(p)
  BY <1>2, EmptyOK DEF StartFresh, StartWith, TypeOK
<1>3. CASE Terminate(p)
  <2>1. SetFlush(p, "main", Called) /\ "main" \in Flushers
    BY <1>3 DEF Terminate, Flushers
  <2>2. flush' \in [Pods -> [Flushers -> FlushState]]
    BY <2>1, FlushStates, SetFlushType
  <2> QED BY <1>3, <2>2 DEF Terminate, TypeOK
<1>4. CASE Shutdown(p)
  BY <1>4 DEF Shutdown, TypeOK
<1>5. CASE Gone(p)
  BY <1>5, EmptyOK, FlushStates DEF Gone, TypeOK
<1> QED BY <1>1, <1>2, <1>3, <1>4, <1>5 DEF Main, Exit, Crash

-----------------------------------------------------------------------------
(* The trail has no holes *)

LEMMA SetFlushAt ==
    ASSUME TypeOK, NEW p \in Pods, NEW f \in Flushers, NEW s, SetFlush(p, f, s)
    PROVE  /\ flush'[p][f] = s
           /\ \A q \in Pods, g \in Flushers : q # p \/ g # f => flush'[q][g] = flush[q][g]
           /\ \A q \in Pods : q # p => flush'[q] = flush[q]
  BY DEF TypeOK, SetFlush

LEMMA PutAt ==
    ASSUME TypeOK, NEW p \in Pods, NEW f \in Flushers, Put(p, f)
    PROVE  /\ flush'[p][f] = NoFlush
           /\ \A q \in Pods, g \in Flushers : q # p \/ g # f =>
                flush'[q][g].at = flush[q][g].at /\ flush'[q][g].log = flush[q][g].log
<1>1. flush'[p][f] = NoFlush
  BY DEF Put
<1>2. ASSUME NEW q \in Pods, NEW g \in Flushers, q # p \/ g # f
      PROVE  flush'[q][g].at = flush[q][g].at /\ flush'[q][g].log = flush[q][g].log
  <2>1. flush'[q][g] = [flush[q][g] EXCEPT !.fresh = FALSE]
    BY <1>2 DEF Put
  <2>2. flush[q][g] \in FlushState
    BY DEF TypeOK
  <2> QED BY <2>1, <2>2, FlushUpdates
<1> QED BY <1>1, <1>2

LEMMA HolesStep ==
    ASSUME TypeOK, NoHoles, NEW p \in Pods,
           Serve(p) \/ Tick(p) \/ (\E f \in Flushers : FlushStep(p, f)) \/ Main(p)
    PROVE  NoHoles'
<1> USE DEF NoHoles
<1>1. CASE Request(p)
  BY <1>1 DEF Request
<1>2. ASSUME NEW op \in inflight[p], AppendEntry(p, op)
      PROVE  NoHoles'
  <2>1. op \in 1..MaxOps /\ log[p] \in Log
    BY DEF TypeOK
  <2>2. Contiguous(Record(log[p], op))
    BY <2>1, RecordOK
  <2> QED BY <1>2, <2>2 DEF AppendEntry, TypeOK
<1>3. ASSUME NEW op \in inflight[p], Panic(p, op)
      PROVE  NoHoles'
  BY <1>3 DEF Panic
<1>4. ASSUME NEW op \in marking[p], MarkDirty(p, op)
      PROVE  NoHoles'
  BY <1>4 DEF MarkDirty
<1>5. CASE Tick(p)
  <2>1. SetFlush(p, "ticker", Called) /\ "ticker" \in Flushers /\ UNCHANGED <<log, cm>>
    BY <1>5 DEF Tick, Flushers
  <2> QED BY <2>1, SetFlushAt, FlushStates, EmptyOK
<1>6. ASSUME NEW f \in Flushers, FlushStep(p, f)
      PROVE  NoHoles'
  <2>1. CASE Snapshot(p, f)
    <3> DEFINE s == [at |-> "snapped", log |-> log[p], fresh |-> FALSE]
    <3>1. SetFlush(p, f, s) /\ UNCHANGED <<log, cm>> /\ s.log = log[p]
      BY <2>1 DEF Snapshot, podVars
    <3> HIDE DEF s
    <3> QED BY <3>1, SetFlushAt
  <2>2. CASE GetConfigMap(p, f)
    <3> DEFINE s == [flush[p][f] EXCEPT !.at = "got", !.fresh = TRUE]
    <3>1. SetFlush(p, f, s) /\ UNCHANGED <<log, cm>>
      BY <2>2 DEF GetConfigMap, podVars
    <3>2. s.log = flush[p][f].log
      <4>1. flush[p][f] \in FlushState
        BY DEF TypeOK
      <4> QED BY <4>1, FlushUpdates
    <3> HIDE DEF s
    <3> QED BY <3>1, <3>2, SetFlushAt
  <2>3. CASE Put(p, f)
    <3>1. cm' = flush[p][f].log /\ log' = log
      BY <2>3 DEF Put, podVars
    <3>2. \A q \in Pods, g \in Flushers : Contiguous(flush'[q][g].log)
      BY <2>3, PutAt, FlushStates, EmptyOK
    <3> QED BY <3>1, <3>2
  <2>4. CASE FlushFails(p, f)
    <3>1. SetFlush(p, f, NoFlush) /\ UNCHANGED <<log, cm>>
      BY <2>4 DEF FlushFails, podVars
    <3> QED BY <3>1, SetFlushAt, FlushStates, EmptyOK
  <2> QED BY <1>6, <2>1, <2>2, <2>3, <2>4 DEF FlushStep
<1>7. CASE Start(p)
  <2>1. Restore(cm) = cm
    BY RestoreOK DEF TypeOK
  <2> QED BY <1>7, <2>1, EmptyOK DEF Start, StartWith, TypeOK
<1>8. CASE StartFresh(p)
  BY <1>8, EmptyOK DEF StartFresh, StartWith, TypeOK
<1>9. CASE Terminate(p)
  <2>1. SetFlush(p, "main", Called) /\ "main" \in Flushers /\ UNCHANGED <<log, cm>>
    BY <1>9 DEF Terminate, Flushers
  <2> QED BY <2>1, SetFlushAt, FlushStates, EmptyOK
<1>10. CASE Shutdown(p)
  BY <1>10 DEF Shutdown
<1>11. CASE Gone(p)
  <2>1. /\ \A q \in Pods : log'[q] = IF q = p THEN Empty ELSE log[q]
        /\ \A q \in Pods, g \in Flushers : flush'[q][g] = IF q = p THEN NoFlush ELSE flush[q][g]
        /\ cm' = cm
    BY <1>11 DEF Gone, TypeOK
  <2> QED BY <2>1, EmptyOK, FlushStates
<1> QED BY <1>1, <1>2, <1>3, <1>4, <1>5, <1>6, <1>7, <1>8, <1>9, <1>10, <1>11
        DEF Serve, Marks, Main, Exit, Crash

-----------------------------------------------------------------------------
(* What holds of each pod *)

LEMMA Untouched ==
    ASSUME NEW q \in Pods, PodOK(q), cm' = cm,
           phase'[q] = phase[q], log'[q] = log[q], dirty'[q] = dirty[q],
           marking'[q] = marking[q], disturbed'[q] = disturbed[q],
           flush'[q]["ticker"].at = flush[q]["ticker"].at,
           flush'[q]["ticker"].log = flush[q]["ticker"].log,
           flush'[q]["main"].at = flush[q]["main"].at
    PROVE  PodOK(q)'
  BY DEF PodOK, FlushCarries, Quiet

\* A pod that is not quiet owes only that its flushers are the known ones.
LEMMA NotQuiet ==
    ASSUME NEW q \in Pods, ~Quiet(q)',
           phase'[q] \in {"down", "running"} => flush'[q]["main"].at = "idle",
           phase'[q] = "down" => flush'[q]["ticker"].at = "idle"
    PROVE  PodOK(q)'
  BY DEF PodOK, FlushCarries

LEMMA ServePod ==
    ASSUME IInv, NEW p \in Pods, Serve(p), NEW q \in Pods
    PROVE  PodOK(q)'
<1> USE DEF IInv
<1>1. CASE Request(p)
  BY <1>1, Untouched DEF Request
<1>2. ASSUME NEW op \in inflight[p], AppendEntry(p, op)
      PROVE  PodOK(q)'
  <2>1. CASE q # p
    BY <1>2, <2>1, Untouched DEF AppendEntry, TypeOK
  <2>2. CASE q = p
    <3> DEFINE t == flush[p]["ticker"]
    <3>1. op \in 1..MaxOps /\ log[p] \in Log /\ cm \in Log /\ t.log \in Log
      BY DEF TypeOK, FlushState, Flushers
    <3>2. Contiguous(log[p]) /\ Contiguous(cm) /\ Contiguous(t.log)
      BY DEF NoHoles, Flushers
    <3>3. /\ Continues(log[p], cm) => Continues(Record(log[p], op), cm)
          /\ Continues(log[p], t.log) => Continues(Record(log[p], op), t.log)
      BY <3>1, <3>2, RecordOK
    <3>4. /\ log'[p] = Record(log[p], op) /\ marking'[p] # {}
          /\ UNCHANGED <<phase, dirty, flush, cm, disturbed>>
      BY <1>2 DEF AppendEntry, TypeOK
    <3> QED BY <2>2, <3>3, <3>4 DEF PodOK, FlushCarries, Quiet
  <2> QED BY <2>1, <2>2
<1>3. ASSUME NEW op \in inflight[p], Panic(p, op)
      PROVE  PodOK(q)'
  BY <1>3, Untouched DEF Panic
<1>4. ASSUME NEW op \in marking[p], MarkDirty(p, op)
      PROVE  PodOK(q)'
  <2>1. CASE q # p
    BY <1>4, <2>1, Untouched DEF MarkDirty, TypeOK
  <2>2. CASE q = p
    <3>1. dirty'[p] = TRUE /\ UNCHANGED <<phase, log, flush, cm, disturbed>>
      BY <1>4 DEF MarkDirty, TypeOK
    <3> QED BY <2>2, <3>1 DEF PodOK, FlushCarries, Quiet
  <2> QED BY <2>1, <2>2
<1> QED BY <1>1, <1>2, <1>3, <1>4 DEF Serve, Marks

LEMMA TickPod ==
    ASSUME IInv, NEW p \in Pods, Tick(p), NEW q \in Pods
    PROVE  PodOK(q)'
<1> USE DEF IInv
<1>1. /\ SetFlush(p, "ticker", Called) /\ "ticker" \in Flushers /\ "main" \in Flushers
      /\ UNCHANGED <<phase, log, marking, cm, disturbed>> /\ Up(p)
  BY DEF Tick, Flushers
<1>2. CASE q # p
  BY <1>1, <1>2, Untouched, SetFlushAt DEF Tick, TypeOK
<1>3. CASE q = p
  <2>1. flush'[p]["ticker"].at = "called" /\ flush'[p]["main"] = flush[p]["main"]
    BY <1>1, SetFlushAt, FlushStates
  <2> QED BY <1>1, <1>3, <2>1 DEF PodOK, FlushCarries, Quiet, Up
<1> QED BY <1>2, <1>3

LEMMA FlushPod ==
    ASSUME IInv, NEW p \in Pods, NEW f \in Flushers, FlushStep(p, f), NEW q \in Pods
    PROVE  PodOK(q)'
<1> USE DEF IInv
<1>0. /\ f = "ticker" \/ f = "main"
      /\ "ticker" \in Flushers /\ "main" \in Flushers
      /\ flush[p][f].at # "idle"
  BY DEF Flushers, FlushStep, Snapshot, GetConfigMap, Put, FlushFails
<1>1. phase[p] # "down" /\ (phase[p] = "running" => f = "ticker")
  BY <1>0 DEF PodOK
<1>2. CASE Snapshot(p, f)
  <2> DEFINE s == [at |-> "snapped", log |-> log[p], fresh |-> FALSE]
  <2>1. /\ SetFlush(p, f, s) /\ s.at = "snapped" /\ s.log = log[p]
        /\ UNCHANGED <<phase, log, dirty, marking, cm, disturbed>>
    BY <1>2 DEF Snapshot, podVars
  <2> HIDE DEF s
  <2>2. CASE q # p
    BY <2>1, <2>2, Untouched, SetFlushAt
  <2>3. CASE q = p
    <3>1. CASE phase[p] = "running"
      <4>1. flush'[p]["ticker"] = s /\ flush'[p]["main"] = flush[p]["main"]
        BY <1>0, <1>1, <2>1, <3>1, SetFlushAt
      <4>2. Continues(log[p], log[p])
        BY ContinuesSelf DEF TypeOK
      <4> QED BY <2>1, <2>3, <3>1, <4>1, <4>2 DEF PodOK, FlushCarries, Quiet
    <3>2. CASE phase[p] # "running"
      BY <1>1, <2>1, <2>3, <3>2, NotQuiet DEF Quiet
    <3> QED BY <3>1, <3>2
  <2> QED BY <2>2, <2>3
<1>3. CASE GetConfigMap(p, f)
  <2> DEFINE s == [flush[p][f] EXCEPT !.at = "got", !.fresh = TRUE]
  <2>1. SetFlush(p, f, s) /\ UNCHANGED <<phase, log, dirty, marking, cm, disturbed>>
    BY <1>3 DEF GetConfigMap, podVars
  <2>2. s.log = flush[p][f].log /\ s.at = "got" /\ flush[p][f].at = "snapped"
    <3>1. flush[p][f] \in FlushState
      BY DEF TypeOK
    <3> QED BY <1>3, <3>1, FlushUpdates DEF GetConfigMap
  <2> HIDE DEF s
  <2>3. CASE q # p
    BY <2>1, <2>3, Untouched, SetFlushAt
  <2>4. CASE q = p
    <3>1. CASE phase[p] = "running"
      <4>1. flush'[p]["ticker"] = s /\ flush'[p]["main"] = flush[p]["main"] /\ f = "ticker"
        BY <1>0, <1>1, <2>1, <3>1, SetFlushAt
      <4> QED BY <2>1, <2>2, <2>4, <3>1, <4>1 DEF PodOK, FlushCarries, Quiet
    <3>2. CASE phase[p] # "running"
      BY <1>1, <2>1, <2>4, <3>2, NotQuiet DEF Quiet
    <3> QED BY <3>1, <3>2
  <2> QED BY <2>3, <2>4
<1>4. CASE Put(p, f)
  <2>1. /\ cm' = flush[p][f].log /\ flush[p][f].at = "got"
        /\ UNCHANGED <<phase, log, dirty, marking>>
        /\ disturbed'[q] = (disturbed[q] \/ (q # p /\ phase[q] # "down"))
    BY <1>4 DEF Put, podVars, Up
  <2>2. CASE q # p
    <3>1. ~Quiet(q)'
      BY <2>1, <2>2 DEF Quiet
    <3>2. /\ flush'[q]["ticker"].at = flush[q]["ticker"].at
          /\ flush'[q]["main"].at = flush[q]["main"].at
      BY <1>0, <1>4, <2>2, PutAt
    <3> QED BY <2>1, <3>1, <3>2, NotQuiet DEF PodOK
  <2>3. CASE q = p
    <3>1. CASE phase[p] = "running"
      <4>1. /\ flush'[p]["ticker"].at = "idle"
            /\ flush'[p]["main"].at = flush[p]["main"].at /\ f = "ticker"
        BY <1>0, <1>1, <1>4, <3>1, PutAt, FlushStates
      <4> QED BY <2>1, <2>3, <3>1, <4>1 DEF PodOK, FlushCarries, Quiet
    <3>2. CASE phase[p] # "running"
      BY <1>1, <2>1, <2>3, <3>2, NotQuiet DEF Quiet
    <3> QED BY <3>1, <3>2
  <2> QED BY <2>2, <2>3
<1>5. CASE FlushFails(p, f)
  <2>1. /\ SetFlush(p, f, NoFlush) /\ UNCHANGED <<phase, log, dirty, marking, cm>>
        /\ disturbed'[p] = TRUE /\ (q # p => disturbed'[q] = disturbed[q])
    BY <1>5 DEF FlushFails, podVars, TypeOK
  <2>2. CASE q # p
    BY <2>1, <2>2, Untouched, SetFlushAt
  <2>3. CASE q = p
    <3>1. ~Quiet(p)'
      BY <2>1 DEF Quiet
    <3>2. phase[p] = "running" => flush'[p]["main"] = flush[p]["main"]
      BY <1>0, <1>1, <2>1, SetFlushAt
    <3> QED BY <1>1, <2>1, <2>3, <3>1, <3>2, NotQuiet DEF PodOK
  <2> QED BY <2>2, <2>3
<1> QED BY <1>2, <1>3, <1>4, <1>5 DEF FlushStep

LEMMA MainPod ==
    ASSUME IInv, NEW p \in Pods, Main(p), NEW q \in Pods
    PROVE  PodOK(q)'
<1> USE DEF IInv
<1>1. CASE Start(p)
  <2>1. Restore(cm) = cm /\ cm \in Log
    BY RestoreOK DEF TypeOK, NoHoles
  <2>2. (IF exists THEN Restore(cm) ELSE Empty) = cm
    BY <2>1 DEF NothingYet
  <2>3. /\ phase[p] = "down" /\ log' = [log EXCEPT ![p] = cm] /\ UNCHANGED <<dirty, marking, flush, cm>>
        /\ phase' = [phase EXCEPT ![p] = "running"] /\ disturbed' = [disturbed EXCEPT ![p] = FALSE]
    BY <1>1, <2>2 DEF Start, StartWith, Up
  <2>4. CASE q # p
    BY <2>3, <2>4, Untouched DEF TypeOK
  <2>5. CASE q = p
    <3>1. Continues(cm, cm)
      BY <2>1, ContinuesSelf
    <3>2. log'[p] = cm /\ phase'[p] = "running"
      BY <2>3 DEF TypeOK
    <3> QED BY <2>3, <2>5, <3>1, <3>2 DEF PodOK, FlushCarries
  <2> QED BY <2>4, <2>5
<1>2. CASE StartFresh(p)
  <2>1. CASE q # p
    BY <1>2, <2>1, Untouched DEF StartFresh, StartWith, TypeOK
  <2>2. CASE q = p
    BY <1>2, <2>2, NotQuiet DEF StartFresh, StartWith, TypeOK, PodOK, Quiet, Up
  <2> QED BY <2>1, <2>2
<1>3. CASE Terminate(p)
  <2>1. SetFlush(p, "main", Called) /\ "main" \in Flushers
    BY <1>3 DEF Terminate, Flushers
  <2>2. CASE q # p
    BY <1>3, <2>1, <2>2, Untouched, SetFlushAt DEF Terminate, TypeOK
  <2>3. CASE q = p
    <3>1. phase'[p] = "flushing"
      BY <1>3 DEF Terminate, TypeOK
    <3> QED BY <2>3, <3>1, NotQuiet DEF Quiet
  <2> QED BY <2>2, <2>3
<1>4. CASE Shutdown(p)
  <2>1. CASE q # p
    BY <1>4, <2>1, Untouched DEF Shutdown, TypeOK
  <2>2. CASE q = p
    <3>1. phase'[p] = "draining"
      BY <1>4 DEF Shutdown, TypeOK
    <3> QED BY <2>2, <3>1, NotQuiet DEF Quiet
  <2> QED BY <2>1, <2>2
<1>5. CASE Gone(p)
  <2>1. CASE q # p
    BY <1>5, <2>1, Untouched DEF Gone, TypeOK
  <2>2. CASE q = p
    <3>1. phase'[p] = "down" /\ flush'[p] = [f \in Flushers |-> NoFlush]
      BY <1>5 DEF Gone, TypeOK
    <3>2. flush'[p]["main"].at = "idle" /\ flush'[p]["ticker"].at = "idle"
      BY <3>1, FlushStates DEF Flushers
    <3> QED BY <2>2, <3>1, <3>2, NotQuiet DEF Quiet
  <2> QED BY <2>1, <2>2
<1> QED BY <1>1, <1>2, <1>3, <1>4, <1>5 DEF Main, Exit, Crash

-----------------------------------------------------------------------------
(* The invariant *)

LEMMA InitIInv == Init => IInv
<1> SUFFICES ASSUME Init PROVE IInv
  OBVIOUS
<1>1. TypeOK
  BY TypeInit
<1>2. NoHoles
  BY EmptyOK, LeftOK, FlushStates DEF Init, NoHoles
<1>3. NothingYet
  <2>1. \A n \in Before : ~(n > 0) => n = 0
    BY BeforeAssumption, CapAssumption
  <2> QED BY <2>1, LeftOK DEF Init, NothingYet
<1>4. ASSUME NEW p \in Pods
      PROVE  PodOK(p)
  <2>1. /\ phase[p] = "down"
        /\ flush[p]["main"].at = "idle" /\ flush[p]["ticker"].at = "idle"
    BY FlushStates DEF Init, Flushers
  <2> QED BY <2>1 DEF PodOK, FlushCarries, Quiet
<1> QED BY <1>1, <1>2, <1>3, <1>4 DEF IInv

LEMMA NextIInv == IInv /\ [Next]_vars => IInv'
<1> SUFFICES ASSUME IInv, [Next]_vars
             PROVE  IInv'
  OBVIOUS
<1>1. CASE UNCHANGED vars
  BY <1>1 DEF vars, podVars, IInv, TypeOK, NoHoles, NothingYet, PodOK, FlushCarries, Quiet
<1>2. ASSUME NEW p \in Pods,
             Serve(p) \/ Tick(p) \/ (\E f \in Flushers : FlushStep(p, f)) \/ Main(p)
      PROVE  IInv'
  <2>1. TypeOK'
    BY <1>2, ServeType, TickType, FlushType, MainType DEF IInv
  <2>2. NoHoles'
    BY <1>2, HolesStep DEF IInv
  <2>3. NothingYet'
    <3>1. UNCHANGED <<cm, exists>> \/ exists' = TRUE
      BY <1>2 DEF Serve, Marks, Request, AppendEntry, Panic, MarkDirty, Tick, FlushStep, Snapshot,
                  GetConfigMap, Put, FlushFails, Main, Start, StartFresh, StartWith,
                  Terminate, Shutdown, Exit, Crash, Gone
    <3> QED BY <3>1 DEF NothingYet, IInv
  <2>4. \A q \in Pods : PodOK(q)'
    BY <1>2, ServePod, TickPod, FlushPod, MainPod
  <2> QED BY <2>1, <2>2, <2>3, <2>4 DEF IInv
<1> QED BY <1>1, <1>2 DEF Next

LEMMA Invariance == Spec => []IInv
<1> QED BY InitIInv, NextIInv, PTL DEF Spec

-----------------------------------------------------------------------------
(* The theorems *)

\* Every variable keeps its type, for any number of pods and requests.
THEOREM TypeCorrect == Spec => []TypeOK
<1>1. IInv => TypeOK
  BY DEF IInv
<1> QED BY <1>1, Invariance, PTL

\* The audit trail never has a hole, a duplicate id or more than Cap entries: in no
\* pod's ring, in no snapshot on its way, and not in the ConfigMap, whatever
\* crashes, overlaps or fails (MemoryStore.Record, snapshot, restore; Flush; load).
THEOREM TrailHasNoHoles == Spec => []NoHoles
<1>1. IInv => NoHoles
  BY DEF IInv
<1> QED BY <1>1, Invariance, PTL

\* A ring whose dirty flag is down is in the ConfigMap, on a pod nobody disturbed:
\* Record sets the flag after the ring, Run clears it before the snapshot.
THEOREM CleanIsPersisted == Spec => []CleanMeansPersisted
<1>1. IInv => CleanMeansPersisted
  BY DEF IInv, PodOK, CleanMeansPersisted
<1> QED BY <1>1, Invariance, PTL

\* What an undisturbed pod will write over the ConfigMap contains every persisted
\* entry its ring has not evicted: load and restore continue the trail.
THEOREM RestartContinues == Spec => []TrailContinues
<1>1. IInv => TrailContinues
  BY DEF IInv, PodOK, TrailContinues
<1> QED BY <1>1, Invariance, PTL
==============================================================================
