---------------------------- MODULE Page_proofs -----------------------------
(***************************************************************************)
(* Proofs about Page, for any pages of which its assumptions hold, any     *)
(* rows, and any bounds: its types, what it shows, and its locks.          *)
(***************************************************************************)
EXTENDS Page, FiniteSetTheorems, TLAPS

-----------------------------------------------------------------------------
(* The inductive invariants. *)

\* What a run is about does not change: acts that meet share a flag.
AboutOK ==
  /\ page \in DOMAIN Pages
  /\ watched \in DOMAIN Pages[page].feeds \cup {None}
  /\ used \subseteq DOMAIN Pages[page].acts
  /\ \A a, b \in used : A(a).key = A(b).key

\* The writes the server has not read.
Waiting == {w \in writes : w.at = 0}

\* Every count has a bound: what has been sent is either taken or waiting, and
\* every write on its way may still start a fetch.
CountsOK ==
  /\ asked \in Nat /\ sent \in Nat /\ world \in Nat /\ due \in Nat
  /\ IsFiniteSet(writes)
  /\ asked <= MaxAsked /\ (Watching => asked + Cardinality(writes) <= MaxAsked)
  /\ sent <= IF Watching THEN MaxShown ELSE MaxSent
  /\ world + Cardinality(Waiting) <= sent
  /\ due <= world

Requests == [n : Nat, scope : Scopes, read : BOOLEAN, at : Nat]
Feeds == [scope : Scopes \cup {Nothing}, at : Nat, loading : BOOLEAN,
          failed : BOOLEAN, settled : BOOLEAN, asks : SUBSET Requests]

RequestOK(r) == 1 <= r.n /\ r.n <= asked /\ r.at <= world

FeedOK ==
  /\ feed \in Feeds /\ scope \in Scopes
  /\ feed.at <= world
  /\ \A r \in feed.asks : RequestOK(r)
  /\ feed.asks # {} => Watching

Writes == [n : Nat, act : used, row : Rows, mounted : BOOLEAN, at : Nat]

WriteOK(w) ==
  /\ w \in Writes
  /\ 1 <= w.n /\ w.n <= sent /\ w.at <= world

ActsOK ==
  /\ slot \in [used -> Rows \cup {None}]
  /\ busy \in [Key -> Rows \cup {None}]
  /\ \A w \in writes : WriteOK(w)

PageInv == AboutOK /\ CountsOK /\ FeedOK /\ ActsOK

\* A feed without an answer is loading, or has failed.
SaysWhy ==
  Watching /\ <<page, watched>> \notin Unsaid /\ ~F.manual /\ feed.scope = Nothing
    => feed.loading \/ feed.failed

\* At most one fetch is on its way, and its answer is no older than what is shown.
InOrder ==
  Watching /\ <<page, watched>> \notin Overtaken =>
    /\ \A r, s \in feed.asks : r = s
    /\ \A r \in feed.asks : r.read => feed.at <= r.at

\* Every fetch on its way is for what is selected; and so is what is shown, once
\* none is, unless the last one failed.
Heading ==
  Watching /\ <<page, watched>> \notin Overtaken \cup Unsaid =>
    /\ \A r \in feed.asks : r.scope = scope
    /\ feed.asks = {} => feed.failed \/ feed.scope = scope

\* Every fetch the server has read saw what the user was told is done; and so
\* does what is shown, once none is on its way, unless the last one failed.
Told ==
  (/\ Watching /\ <<page, watched>> \notin Overtaken \cup Unsaid
   /\ \A a \in used : <<page, watched, a>> \notin Unasked) =>
    /\ \A r \in feed.asks : r.read => due <= r.at
    /\ feed.asks = {} => feed.failed \/ due <= feed.at

\* A flag is held by a write on its way.
Held == \A k \in Key : busy[k] # None => \E w \in writes : A(w.act).key = k

\* A dialog with a flag of its own has sent one write for a row.
OnePerInstance ==
  \A v, w \in writes :
    /\ A(v.act).lock = "instance" /\ v.act = w.act /\ v.row = w.row
    /\ v.mounted /\ w.mounted
    => v = w

\* Acts that wait for their flag send one write between them: while the dialog
\* of one is open, the others have none on their way.
OneForAll ==
  (\A a \in used : Waits(page, a)) =>
    /\ \A v, w \in writes : v = w
    /\ \A w \in writes : w.mounted /\ busy[A(w.act).key] # None
    /\ \A a \in used : A(a).lock = "instance" /\ slot[a] # None
                         => \A w \in writes : w.act = a
    /\ \A a, b \in used : /\ A(a).modal /\ slot[a] # None
                          /\ A(b).modal /\ slot[b] # None
                          => a = b

-----------------------------------------------------------------------------
(* What the steps do to the feed. *)

NewAsk(s) == [n |-> asked + 1, scope |-> s, read |-> FALSE, at |-> 0]

\* The steps that leave the feed, and what it is for, alone.
Quiet == Open \/ Leave \/ Send \/ ServerTakes \/ Others \/ Refused \/ UNCHANGED vars

LEMMA QuietIs == Quiet => UNCHANGED <<page, watched, used, scope, feed, asked, due>>
BY DEF Quiet, Open, Leave, Send, ServerTakes, Others, Refused, vars

LEMMA AboutStays == [Next]_vars => UNCHANGED <<page, watched, used>>
BY QuietIs DEF Next, Quiet, Refresh, Rescope, ServerReads, Answer, AskFails, Done

LEMMA AskingIs ==
  ASSUME feed \in Feeds, asked \in Nat, NEW s \in Scopes, NEW g, g = Asking(feed, s)
  PROVE  /\ g \in Feeds
         /\ NewAsk(s) \in Requests
         /\ g.asks = (IF F.drops THEN {} ELSE feed.asks) \cup {NewAsk(s)}
         /\ g.loading = (feed.loading \/ F.waits = "every" \/ (F.waits = "first" /\ ~feed.settled))
         /\ g.failed = (feed.failed /\ F.waits # "every")
         /\ g.scope = IF F.clears THEN Nothing ELSE feed.scope
         /\ g.at = feed.at
<1>1. NewAsk(s) \in Requests
  BY DEF NewAsk, Requests
<1>2. g = [feed EXCEPT
     !.asks = (IF F.drops THEN {} ELSE @) \cup {NewAsk(s)},
     !.loading = @ \/ F.waits = "every" \/ (F.waits = "first" /\ ~feed.settled),
     !.failed = @ /\ F.waits # "every",
     !.scope = IF F.clears THEN Nothing ELSE @]
  BY DEF Asking, NewAsk
<1> HIDE DEF NewAsk, Requests
<1>3. (IF F.drops THEN {} ELSE feed.asks) \cup {NewAsk(s)} \in SUBSET Requests
  BY <1>1 DEF Feeds
<1> QED BY <1>1, <1>2, <1>3 DEF Feeds

LEMMA EmptiedIs ==
  ASSUME feed \in Feeds, NEW g, g = Emptied(feed)
  PROVE  /\ g \in Feeds /\ g.scope = Nothing
         /\ g.asks = feed.asks /\ g.at = feed.at
         /\ g.loading = feed.loading /\ g.failed = feed.failed
BY DEF Emptied, Feeds

\* r, once the server has read its answer.
Read(r) == [r EXCEPT !.read = TRUE, !.at = world]

LEMMA ReadIs ==
  ASSUME NEW r \in Requests, world \in Nat
  PROVE  /\ Read(r) \in Requests
         /\ Read(r).read /\ Read(r).at = world /\ Read(r).scope = r.scope /\ Read(r).n = r.n
BY DEF Read, Requests

LEMMA ServerReadsIs ==
  ASSUME feed \in Feeds, world \in Nat, ServerReads
  PROVE  /\ feed' \in Feeds
         /\ \E r \in feed.asks : feed'.asks = (feed.asks \ {r}) \cup {Read(r)}
         /\ feed'.scope = feed.scope /\ feed'.at = feed.at
         /\ feed'.loading = feed.loading /\ feed'.failed = feed.failed
         /\ UNCHANGED <<page, watched, used, scope, world, asked, due, writes, sent>>
<1>1. PICK r \in feed.asks :
        feed' = [feed EXCEPT !.asks = (@ \ {r}) \cup {Read(r)}]
  BY DEF ServerReads, Read
<1>2. r \in Requests /\ Read(r) \in Requests
  BY ReadIs DEF Feeds
<1>3. (feed.asks \ {r}) \cup {Read(r)} \in SUBSET Requests
  BY <1>2 DEF Feeds
<1> HIDE DEF Requests, Read
<1>4. feed' \in Feeds /\ feed'.asks = (feed.asks \ {r}) \cup {Read(r)}
      /\ feed'.scope = feed.scope /\ feed'.at = feed.at
      /\ feed'.loading = feed.loading /\ feed'.failed = feed.failed
  BY <1>1, <1>3 DEF Feeds
<1> QED BY <1>4 DEF ServerReads

LEMMA AnswerIs ==
  ASSUME feed \in Feeds, Answer
  PROVE  /\ feed' \in Feeds
         /\ \E r \in feed.asks : /\ r.read
                                /\ feed'.asks = feed.asks \ {r}
                                /\ feed'.scope = r.scope /\ feed'.at = r.at
         /\ UNCHANGED <<page, watched, used, scope, world, asked, due, writes, sent>>
<1>1. PICK r \in feed.asks :
        /\ r.read
        /\ feed' = [feed EXCEPT !.asks = @ \ {r}, !.scope = r.scope, !.at = r.at,
                                !.loading = FALSE, !.failed = FALSE, !.settled = TRUE]
  BY DEF Answer, Answered
<1>2. r.scope \in Scopes /\ r.at \in Nat /\ feed.asks \ {r} \in SUBSET Requests
  BY DEF Feeds, Requests
<1> HIDE DEF Requests
<1>3. feed' \in Feeds /\ feed'.asks = feed.asks \ {r}
      /\ feed'.scope = r.scope /\ feed'.at = r.at
  BY <1>1, <1>2 DEF Feeds
<1> QED BY <1>1, <1>3 DEF Answer

LEMMA AskFailsIs ==
  ASSUME feed \in Feeds, AskFails
  PROVE  /\ feed' \in Feeds
         /\ \E r \in feed.asks : feed'.asks = feed.asks \ {r}
         /\ feed'.failed = (feed.failed \/ F.notes)
         /\ feed'.scope = (IF F.forgets THEN Nothing ELSE feed.scope) /\ feed'.at = feed.at
         /\ UNCHANGED <<page, watched, used, scope, world, asked, due, writes, sent>>
<1>1. PICK r \in feed.asks : feed' = Failed(feed, r)
  BY DEF AskFails
<1> DEFINE g == IF F.forgets THEN Emptied(feed) ELSE feed
<1>2. /\ g \in Feeds /\ g.asks = feed.asks /\ g.failed = feed.failed /\ g.at = feed.at
      /\ g.scope = IF F.forgets THEN Nothing ELSE feed.scope
  BY EmptiedIs
<1>3. feed' = [g EXCEPT !.asks = @ \ {r}, !.loading = FALSE,
                        !.failed = @ \/ F.notes, !.settled = TRUE]
  BY <1>1 DEF Failed
<1> HIDE DEF g
<1>4. feed.asks \ {r} \in SUBSET Requests
  BY DEF Feeds
<1> HIDE DEF Requests
<1>5. feed' \in Feeds /\ feed'.asks = feed.asks \ {r} /\ feed'.failed = (feed.failed \/ F.notes)
      /\ feed'.scope = g.scope /\ feed'.at = feed.at
  BY <1>2, <1>3, <1>4 DEF Feeds
<1> QED BY <1>2, <1>5 DEF AskFails

-----------------------------------------------------------------------------
(* What the steps do to the writes. *)

LEMMA ImageIsSmaller ==
  ASSUME NEW S, IsFiniteSet(S), NEW f, NEW T, T = {f[x] : x \in S}
  PROVE  IsFiniteSet(T) /\ Cardinality(T) <= Cardinality(S)
<1> DEFINE g == [x \in S |-> f[x]]
<1>1. g \in Surjection(S, T)
  BY DEF Surjection
<1> QED BY <1>1, FS_Surjection

\* w, after the dialog of act a was left; and once the server has taken it.
Left(a, w) == [w EXCEPT !.mounted = @ /\ w.act # a]
Taken(w) == [w EXCEPT !.at = world + 1]
NewWrite(a, r) == [n |-> sent + 1, act |-> a, row |-> r, mounted |-> TRUE, at |-> 0]

LEMMA LeftIs ==
  ASSUME NEW a \in used, NEW w \in Writes
  PROVE  /\ Left(a, w) \in Writes
         /\ Left(a, w).n = w.n /\ Left(a, w).act = w.act /\ Left(a, w).row = w.row
         /\ Left(a, w).at = w.at /\ Left(a, w).mounted = (w.mounted /\ w.act # a)
BY DEF Left, Writes

LEMMA TakenIs ==
  ASSUME NEW w \in Writes, world \in Nat
  PROVE  /\ Taken(w) \in Writes
         /\ Taken(w).n = w.n /\ Taken(w).act = w.act /\ Taken(w).row = w.row
         /\ Taken(w).at = world + 1 /\ Taken(w).mounted = w.mounted
BY DEF Taken, Writes

LEMMA NewWriteIs ==
  ASSUME NEW a \in used, NEW r \in Rows, sent \in Nat
  PROVE  /\ NewWrite(a, r) \in Writes
         /\ NewWrite(a, r).n = sent + 1 /\ NewWrite(a, r).act = a
         /\ NewWrite(a, r).row = r /\ NewWrite(a, r).at = 0 /\ NewWrite(a, r).mounted
BY DEF NewWrite, Writes

\* Leave changes the writes, or leaves them, one by one.
LEMMA LeaveIs ==
  ASSUME ActsOK, Leave
  PROVE  \E a \in used :
           /\ slot[a] # None /\ slot' = [slot EXCEPT ![a] = None]
           /\ A(a).leave \/ \A w \in writes : w.act # a
           /\ \/ writes' = writes
              \/ A(a).lock = "instance" /\ writes' = {Left(a, w) : w \in writes}
BY DEF Leave, Left, ActsOK, WriteOK

\* A write that is added; one that is taken out, or replaced.
LEMMA OneMore ==
  ASSUME NEW S, IsFiniteSet(S), NEW v, NEW T, T = S \cup {v}
  PROVE  /\ IsFiniteSet(T)
         /\ Cardinality(S) \in Nat /\ Cardinality(T) \in Nat
         /\ Cardinality(T) <= Cardinality(S) + 1
<1>1. Cardinality(S) \in Nat
  BY FS_CardinalityType
<1>2. /\ IsFiniteSet(S \cup {v})
      /\ Cardinality(S \cup {v}) \in {Cardinality(S), Cardinality(S) + 1}
  BY FS_AddElement
<1> QED BY <1>1, <1>2

LEMMA OneLess ==
  ASSUME IsFiniteSet(writes), NEW w \in writes
  PROVE  /\ IsFiniteSet(writes \ {w})
         /\ Cardinality(writes \ {w}) = Cardinality(writes) - 1
         /\ Cardinality(writes) \in Nat /\ Cardinality(writes \ {w}) \in Nat
         /\ \A v : /\ IsFiniteSet((writes \ {w}) \cup {v})
                  /\ Cardinality((writes \ {w}) \cup {v}) <= Cardinality(writes)
<1>1. /\ IsFiniteSet(writes \ {w})
      /\ Cardinality(writes \ {w}) = Cardinality(writes) - 1
      /\ Cardinality(writes) \in Nat /\ Cardinality(writes \ {w}) \in Nat
  BY FS_RemoveElement, FS_CardinalityType
<1> DEFINE others == writes \ {w}
<1> HIDE DEF others
<1>2. ASSUME NEW v
      PROVE  /\ IsFiniteSet(others \cup {v})
             /\ Cardinality(others \cup {v}) <= Cardinality(writes)
  <2>1. IsFiniteSet(others) /\ Cardinality(others) = Cardinality(writes) - 1
        /\ Cardinality(writes) \in Nat
    BY <1>1 DEF others
  <2>2. /\ IsFiniteSet(others \cup {v}) /\ Cardinality(others \cup {v}) \in Nat
        /\ Cardinality(others \cup {v}) <= Cardinality(others) + 1
    BY <2>1, OneMore
  <2> QED BY <2>1, <2>2
<1> QED BY <1>1, <1>2 DEF others

LEMMA WaitingLess ==
  ASSUME IsFiniteSet(writes), NEW w \in writes, w.at = 0
  PROVE  /\ Cardinality(Waiting \ {w}) = Cardinality(Waiting) - 1
         /\ Cardinality(Waiting) \in Nat /\ Cardinality(Waiting \ {w}) \in Nat
<1>1. IsFiniteSet(Waiting) /\ w \in Waiting
  BY FS_Subset DEF Waiting
<1>2. Waiting \ {w} \in SUBSET Waiting
  OBVIOUS
<1>3. IsFiniteSet(Waiting \ {w})
  BY <1>1, <1>2, FS_Subset
<1> QED BY <1>1, <1>3, FS_RemoveElement, FS_CardinalityType

-----------------------------------------------------------------------------
(* Every count keeps its bound. *)

LEMMA FeedCounts ==
  ASSUME PageInv, Refresh \/ Rescope \/ ServerReads \/ Answer \/ AskFails
  PROVE  CountsOK'
<1>1. /\ UNCHANGED <<watched, world, sent, writes, due>>
      /\ asked' = asked \/ (asked' = asked + 1 /\ MayAsk)
  BY DEF Refresh, Rescope, ServerReads, Answer, AskFails
<1>2. Waiting' = Waiting
  BY <1>1 DEF Waiting
<1>3. Cardinality(writes) \in Nat
  BY FS_CardinalityType DEF PageInv, CountsOK
<1> QED BY <1>1, <1>2, <1>3, BoundAssumption DEF PageInv, CountsOK, MayAsk, Watching

LEMMA LeaveCounts == ASSUME PageInv, Leave PROVE CountsOK'
<1>1. PICK a \in used : writes' = writes \/ writes' = {Left(a, w) : w \in writes}
  BY LeaveIs DEF PageInv
<1>2. UNCHANGED <<watched, world, sent, asked, due>>
  BY DEF Leave
<1> DEFINE f == [w \in writes |-> Left(a, w)]
<1>3. CASE writes' = {Left(a, w) : w \in writes}
  <2>1. writes' = {f[w] : w \in writes}
    BY <1>3
  <2>2. IsFiniteSet(writes') /\ Cardinality(writes') <= Cardinality(writes)
    BY <2>1, ImageIsSmaller DEF PageInv, CountsOK
  <2>3. \A w \in writes : Left(a, w).at = w.at
    BY LeftIs DEF PageInv, ActsOK, WriteOK
  <2>4. Waiting' = {f[w] : w \in Waiting}
    BY <1>3, <2>3 DEF Waiting
  <2>5. IsFiniteSet(Waiting)
    BY FS_Subset DEF Waiting, PageInv, CountsOK
  <2>6. IsFiniteSet(Waiting') /\ Cardinality(Waiting') <= Cardinality(Waiting)
    BY <2>4, <2>5, ImageIsSmaller
  <2>7. /\ Cardinality(writes) \in Nat /\ Cardinality(writes') \in Nat
        /\ Cardinality(Waiting) \in Nat /\ Cardinality(Waiting') \in Nat
    BY <2>2, <2>5, <2>6, FS_CardinalityType DEF PageInv, CountsOK
  <2> HIDE DEF f
  <2> QED BY <1>2, <2>2, <2>6, <2>7, BoundAssumption DEF PageInv, CountsOK, Watching
<1>4. CASE writes' = writes
  BY <1>2, <1>4 DEF PageInv, CountsOK, Watching, Waiting
<1> QED BY <1>1, <1>3, <1>4

LEMMA SendCounts == ASSUME PageInv, Send PROVE CountsOK'
<1>1. PICK a \in used, r \in Rows : writes' = writes \cup {NewWrite(a, r)}
  BY DEF Send, NewWrite
<1>2. /\ UNCHANGED <<watched, world, asked, due>> /\ sent' = sent + 1
      /\ IF Watching THEN sent < MaxShown /\ MayAsk ELSE sent < MaxSent
  BY DEF Send
<1>3. Waiting' = Waiting \cup {NewWrite(a, r)}
  BY <1>1, NewWriteIs DEF Waiting, PageInv, CountsOK
<1>4. IsFiniteSet(writes) /\ IsFiniteSet(Waiting)
  BY FS_Subset DEF PageInv, CountsOK, Waiting
<1>5. /\ IsFiniteSet(writes')
      /\ Cardinality(writes) \in Nat /\ Cardinality(writes') \in Nat
      /\ Cardinality(writes') <= Cardinality(writes) + 1
  BY <1>1, <1>4, OneMore
<1>6. /\ Cardinality(Waiting) \in Nat /\ Cardinality(Waiting') \in Nat
      /\ Cardinality(Waiting') <= Cardinality(Waiting) + 1
  BY <1>3, <1>4, OneMore
<1> QED BY <1>2, <1>5, <1>6, BoundAssumption DEF PageInv, CountsOK, MayAsk, Watching

LEMMA ServerTakesCounts == ASSUME PageInv, ServerTakes PROVE CountsOK'
<1>1. PICK w \in writes : w.at = 0 /\ writes' = (writes \ {w}) \cup {Taken(w)}
  BY DEF ServerTakes, Taken
<1>2. UNCHANGED <<watched, sent, asked, due>> /\ world' = world + 1
  BY DEF ServerTakes
<1>3. Taken(w).at # 0
  BY TakenIs DEF PageInv, CountsOK, ActsOK, WriteOK
<1>4. Waiting' = Waiting \ {w}
  BY <1>1, <1>3 DEF Waiting
<1>5. IsFiniteSet(writes') /\ Cardinality(writes') <= Cardinality(writes)
  BY <1>1, OneLess DEF PageInv, CountsOK
<1>6. /\ Cardinality(writes) \in Nat /\ Cardinality(writes') \in Nat
      /\ Cardinality(Waiting') = Cardinality(Waiting) - 1
      /\ Cardinality(Waiting) \in Nat /\ Cardinality(Waiting') \in Nat
  BY <1>1, <1>4, <1>5, WaitingLess, FS_CardinalityType DEF PageInv, CountsOK
<1> QED BY <1>2, <1>5, <1>6, BoundAssumption DEF PageInv, CountsOK, Watching

LEMMA ReturnCounts == ASSUME PageInv, Done \/ Refused PROVE CountsOK'
<1>1. PICK w \in writes :
        /\ writes' = writes \ {w}
        /\ \/ asked' = asked
           \/ asked' = asked + 1 /\ watched \in A(w.act).asks
        /\ due' \in {due, w.at}
        /\ UNCHANGED <<page, watched, used, world, sent>>
  BY DEF Done, Refused
<1>2. w.act \in used /\ w.at \in Nat /\ w.at <= world
  BY DEF PageInv, ActsOK, WriteOK, Writes
<1>3. watched \in A(w.act).asks => Watching
  BY <1>2, PagesAssumption DEF PageInv, AboutOK, A, Watching
<1>4. /\ IsFiniteSet(writes') /\ Cardinality(writes') = Cardinality(writes) - 1
      /\ Cardinality(writes) \in Nat /\ Cardinality(writes') \in Nat
  BY <1>1, OneLess DEF PageInv, CountsOK
<1>5. Waiting' \in SUBSET Waiting /\ IsFiniteSet(Waiting)
  BY <1>1, FS_Subset DEF Waiting, PageInv, CountsOK
<1>6. /\ Cardinality(Waiting') <= Cardinality(Waiting)
      /\ Cardinality(Waiting) \in Nat /\ Cardinality(Waiting') \in Nat
  BY <1>5, FS_Subset, FS_CardinalityType
<1> QED BY <1>1, <1>2, <1>3, <1>4, <1>6, BoundAssumption DEF PageInv, CountsOK, Watching

LEMMA CountsStep == ASSUME PageInv, [Next]_vars PROVE CountsOK'
<1>1. CASE Open \/ UNCHANGED vars
  BY <1>1 DEF Open, vars, PageInv, CountsOK, Watching, Waiting
<1>2. CASE Others
  <2>1. /\ UNCHANGED <<watched, asked, writes, due>> /\ Watching /\ sent < MaxShown
        /\ sent' = sent + 1 /\ world' = world + 1
    BY <1>2 DEF Others
  <2>2. Waiting' = Waiting /\ IsFiniteSet(Waiting)
    BY <2>1, FS_Subset DEF Waiting, PageInv, CountsOK
  <2>3. Cardinality(Waiting) \in Nat
    BY <2>2, FS_CardinalityType
  <2> QED BY <2>1, <2>2, <2>3, BoundAssumption DEF PageInv, CountsOK, Watching
<1> QED BY <1>1, <1>2, FeedCounts, LeaveCounts, SendCounts, ServerTakesCounts, ReturnCounts
     DEF Next

-----------------------------------------------------------------------------
(* The feed and the writes keep their types. *)

\* A fetch starts.
LEMMA AskingKeepsFeed ==
  ASSUME PageInv, NEW s \in Scopes, feed' = Asking(feed, s), scope' = s \/ scope' = scope,
         asked' = asked + 1, Watching, UNCHANGED <<watched, world>>
  PROVE  FeedOK'
<1>1. /\ feed' \in Feeds
      /\ feed'.asks \subseteq feed.asks \cup {NewAsk(s)}
      /\ feed'.at = feed.at
  BY AskingIs DEF PageInv, FeedOK, CountsOK
<1>2. NewAsk(s) \in Requests /\ NewAsk(s).n = asked + 1 /\ NewAsk(s).at = 0
  BY AskingIs DEF NewAsk, PageInv, FeedOK, CountsOK
<1>3. \A r \in feed.asks : /\ r \in Requests /\ r.n \in Nat
                           /\ 1 <= r.n /\ r.n <= asked /\ r.at <= world
  <2>1. \A r \in Requests : r.n \in Nat
    BY DEF Requests
  <2> QED BY <2>1 DEF PageInv, FeedOK, Feeds, RequestOK
<1>4. \A r \in feed'.asks : r \in Requests /\ 1 <= r.n /\ r.n <= asked' /\ r.at <= world'
  <2> SUFFICES ASSUME NEW r \in feed'.asks
               PROVE  r \in Requests /\ 1 <= r.n /\ r.n <= asked + 1 /\ r.at <= world
    OBVIOUS
  <2>1. CASE r \in feed.asks
    BY <1>3, <2>1 DEF PageInv, CountsOK
  <2>2. CASE r = NewAsk(s)
    BY <1>2, <2>2 DEF PageInv, CountsOK
  <2> QED BY <1>1, <2>1, <2>2
<1> QED BY <1>1, <1>4 DEF FeedOK, RequestOK, Watching, PageInv

LEMMA FeedStep == ASSUME PageInv, [Next]_vars PROVE FeedOK'
<1> USE DEF PageInv
<1>1. CASE Refresh
  BY <1>1, AskingKeepsFeed DEF Refresh, FeedOK
<1>2. CASE Rescope
  <2>1. PICK s \in Scopes :
          /\ scope' = s
          /\ \/ feed' = Emptied(feed) /\ UNCHANGED asked
             \/ feed' = Asking(feed, s) /\ asked' = asked + 1
    BY <1>2 DEF Rescope
  <2>2. Watching /\ UNCHANGED <<page, watched, used, world>>
    BY <1>2 DEF Rescope
  <2>3. CASE feed' = Emptied(feed) /\ UNCHANGED asked
    BY <2>1, <2>2, <2>3, EmptiedIs DEF FeedOK, RequestOK, Watching
  <2> QED BY <2>1, <2>2, <2>3, AskingKeepsFeed
<1>3. CASE ServerReads
  <2>1. PICK r \in feed.asks : feed'.asks = (feed.asks \ {r}) \cup {Read(r)}
    BY <1>3, ServerReadsIs DEF FeedOK, CountsOK
  <2>2. /\ feed' \in Feeds /\ feed'.at = feed.at
        /\ UNCHANGED <<watched, world, scope, asked>>
    BY <1>3, ServerReadsIs DEF FeedOK, CountsOK
  <2>3. r \in Requests /\ world \in Nat /\ 1 <= r.n /\ r.n <= asked
    BY DEF FeedOK, Feeds, CountsOK, RequestOK
  <2>6. Read(r) \in Requests /\ Read(r).n = r.n /\ Read(r).at = world
    BY <2>3, ReadIs
  <2>4. RequestOK(Read(r))
    BY <2>3, <2>6 DEF RequestOK
  <2>5. \A q \in feed'.asks : RequestOK(q)
    BY <2>1, <2>4 DEF FeedOK
  <2> QED BY <2>2, <2>5 DEF FeedOK, RequestOK, Watching
<1>4. CASE Answer
  <2>1. PICK r \in feed.asks : /\ feed'.asks = feed.asks \ {r}
                               /\ feed'.scope = r.scope /\ feed'.at = r.at
    BY <1>4, AnswerIs DEF FeedOK
  <2> QED BY <1>4, <2>1, AnswerIs DEF FeedOK, RequestOK, Watching
<1>5. CASE AskFails
  BY <1>5, AskFailsIs DEF FeedOK, RequestOK, Watching
<1>6. CASE Done
  <2>1. PICK w \in writes :
          \/ feed' = Asking(feed, scope) /\ asked' = asked + 1 /\ watched \in A(w.act).asks
          \/ UNCHANGED <<feed, asked>>
    BY <1>6 DEF Done
  <2>2. UNCHANGED <<page, watched, used, scope, world>>
    BY <1>6 DEF Done
  <2>3. watched \in A(w.act).asks => Watching
    BY PagesAssumption DEF AboutOK, A, Watching, ActsOK, WriteOK, Writes
  <2>4. CASE UNCHANGED <<feed, asked>>
    BY <2>2, <2>4 DEF FeedOK, RequestOK, Watching
  <2> QED BY <2>1, <2>2, <2>3, <2>4, AskingKeepsFeed DEF FeedOK
<1>7. CASE Quiet
  <2>1. world \in Nat /\ world' \in Nat /\ world <= world'
    BY <1>7 DEF Quiet, Open, Leave, Send, ServerTakes, Others, Refused, vars, CountsOK
  <2>2. UNCHANGED <<watched, scope, feed, asked>>
    BY <1>7, QuietIs
  <2>3. feed.at \in Nat /\ \A r \in feed.asks : r.at \in Nat
    BY DEF FeedOK, RequestOK, Feeds, Requests
  <2>4. feed.at <= world' /\ \A r \in feed.asks : r.at <= world'
    BY <2>1, <2>3 DEF FeedOK, RequestOK
  <2> QED BY <2>2, <2>4 DEF FeedOK, RequestOK, Watching
<1> QED BY <1>1, <1>2, <1>3, <1>4, <1>5, <1>6, <1>7 DEF Next, Quiet

\* A write that is as before, while the counts may only grow.
LEMMA WriteStays ==
  ASSUME PageInv, NEW w \in Writes, NEW v \in writes, w.n = v.n,
         w.at = v.at \/ w.at <= world',
         used' = used, sent' \in Nat, sent <= sent', world' \in Nat, world <= world'
  PROVE  WriteOK(w)'
<1>1. v.n \in Nat /\ v.at \in Nat /\ 1 <= v.n /\ v.n <= sent /\ v.at <= world
  BY DEF PageInv, ActsOK, WriteOK, Writes
<1>2. w \in Writes'
  BY DEF Writes
<1> QED BY <1>1, <1>2 DEF WriteOK, PageInv, CountsOK

LEMMA ActsStep == ASSUME PageInv, [Next]_vars PROVE ActsOK'
<1>1. used' = used /\ Key' = Key
  BY AboutStays DEF Key, A
<1>2. /\ sent \in Nat /\ sent' \in Nat /\ world \in Nat /\ world' \in Nat
      /\ CountsOK'
  BY CountsStep DEF PageInv, CountsOK
<1>3. /\ slot \in [used -> Rows \cup {None}] /\ busy \in [Key -> Rows \cup {None}]
      /\ \A w \in writes : w \in Writes /\ w.act \in used /\ w.row \in Rows
  BY DEF PageInv, ActsOK, WriteOK, Writes
<1>4. CASE Refresh \/ Rescope \/ ServerReads \/ Answer \/ AskFails \/ UNCHANGED vars
  <2>1. UNCHANGED <<slot, busy, writes, sent, world>>
    BY <1>4 DEF Refresh, Rescope, ServerReads, Answer, AskFails, vars
  <2> QED BY <1>1, <2>1 DEF PageInv, ActsOK, WriteOK, Writes
<1>5. CASE Open
  <2>1. slot' \in [used -> Rows \cup {None}] /\ UNCHANGED <<busy, writes, sent, world>>
    BY <1>3, <1>5 DEF Open
  <2> QED BY <1>1, <2>1 DEF PageInv, ActsOK, WriteOK, Writes
<1>6. CASE Leave
  <2>1. PICK a \in used :
          /\ slot' = [slot EXCEPT ![a] = None]
          /\ writes' = writes \/ writes' = {Left(a, w) : w \in writes}
    BY <1>6, LeaveIs DEF PageInv
  <2>2. UNCHANGED <<busy, sent, world>>
    BY <1>6 DEF Leave
  <2>3. \A w \in writes : WriteOK(w)' /\ WriteOK(Left(a, w))'
    BY <1>1, <1>2, <1>3, <2>2, LeftIs, WriteStays
  <2>4. \A w \in writes' : WriteOK(w)'
    BY <2>1, <2>3
  <2>5. slot' \in [used -> Rows \cup {None}]
    BY <1>3, <2>1
  <2> QED BY <1>1, <1>3, <2>2, <2>4, <2>5 DEF ActsOK
<1>7. CASE Send
  <2>1. PICK a \in used, r \in Rows :
          /\ busy' = [busy EXCEPT ![A(a).key] = r]
          /\ writes' = writes \cup {NewWrite(a, r)}
    BY <1>7 DEF Send, NewWrite
  <2>6. PICK v : v = NewWrite(a, r)
    OBVIOUS
  <2>2. UNCHANGED <<slot, world>> /\ sent' = sent + 1
    BY <1>7 DEF Send
  <2>3. WriteOK(v)'
    BY <1>1, <1>2, <2>2, <2>6, NewWriteIs DEF WriteOK, Writes
  <2>4. \A w \in writes' : WriteOK(w)'
    BY <1>1, <1>2, <1>3, <2>1, <2>2, <2>3, <2>6, WriteStays
  <2>5. busy' \in [Key -> Rows \cup {None}]
    BY <1>3, <2>1
  <2> QED BY <1>1, <1>3, <2>2, <2>4, <2>5 DEF ActsOK
<1>8. CASE ServerTakes
  <2>1. PICK w \in writes : writes' = (writes \ {w}) \cup {Taken(w)}
    BY <1>8 DEF ServerTakes, Taken
  <2>5. PICK v : v = Taken(w)
    OBVIOUS
  <2>2. UNCHANGED <<slot, busy, sent>> /\ world' = world + 1
    BY <1>8 DEF ServerTakes
  <2>3. WriteOK(v)'
    BY <1>1, <1>2, <1>3, <2>2, <2>5, TakenIs, WriteStays
  <2>4. \A u \in writes' : WriteOK(u)'
    BY <1>1, <1>2, <1>3, <2>1, <2>2, <2>3, <2>5, WriteStays
  <2> QED BY <1>1, <1>3, <2>2, <2>4 DEF ActsOK
<1>9. CASE Others
  <2>1. UNCHANGED <<slot, busy, writes>> /\ sent' = sent + 1 /\ world' = world + 1
    BY <1>9 DEF Others
  <2>2. \A v \in writes' : WriteOK(v)'
    BY <1>1, <1>2, <1>3, <2>1, WriteStays
  <2> QED BY <1>1, <1>3, <2>1, <2>2 DEF ActsOK
<1>10. CASE Done \/ Refused
  <2>1. PICK w \in writes :
          /\ writes' = writes \ {w} /\ busy' = [busy EXCEPT ![A(w.act).key] = None]
          /\ slot' = slot \/ slot' = [slot EXCEPT ![w.act] = None]
          /\ UNCHANGED <<sent, world>>
    BY <1>10 DEF Done, Refused, Released
  <2>2. \A v \in writes' : WriteOK(v)'
    BY <1>1, <1>2, <1>3, <2>1, WriteStays
  <2>3. /\ busy' \in [Key -> Rows \cup {None}]
        /\ slot' \in [used -> Rows \cup {None}]
    BY <1>3, <2>1
  <2> QED BY <1>1, <2>2, <2>3 DEF ActsOK
<1> QED BY <1>4, <1>5, <1>6, <1>7, <1>8, <1>9, <1>10 DEF Next

LEMMA PageStep == ASSUME PageInv, [Next]_vars PROVE PageInv'
<1>1. AboutOK'
  BY AboutStays DEF PageInv, AboutOK, A
<1> QED BY <1>1, CountsStep, FeedStep, ActsStep DEF PageInv

LEMMA PageStart == Init => PageInv
<1> SUFFICES ASSUME Init PROVE PageInv
  OBVIOUS
<1>1. AboutOK
  BY DEF Init, Together, AboutOK, A
<1>2. writes = {} /\ Waiting = {} /\ IsFiniteSet(writes)
      /\ Cardinality(writes) = 0 /\ Cardinality(Waiting) = 0
  BY FS_EmptySet DEF Init, Waiting
<1>3. CountsOK
  BY <1>2, BoundAssumption DEF Init, CountsOK
<1>4. FeedOK
  <2>1. \A r \in feed.asks : Watching /\ r = [n |-> 1, scope |-> 1, read |-> FALSE, at |-> 0]
    BY DEF Init
  <2>2. feed \in Feeds
    BY BoundAssumption DEF Init, Feeds, Requests
  <2> QED BY <2>1, <2>2, BoundAssumption DEF Init, FeedOK, RequestOK
<1>5. ActsOK
  BY <1>2 DEF Init, ActsOK
<1> QED BY <1>1, <1>3, <1>4, <1>5 DEF PageInv

LEMMA PageInductive == Spec => []PageInv
<1>1. PageInv /\ [Next]_vars => PageInv'
  BY PageStep
<1> QED BY <1>1, PageStart, PTL DEF Spec

LEMMA PageTyped == PageInv => TypeOK
<1> SUFFICES ASSUME PageInv PROVE TypeOK
  OBVIOUS
<1> USE DEF PageInv
<1>1. Most \in Nat /\ MaxSent <= Most /\ MaxShown <= Most
  BY BoundAssumption DEF Most
<1>2. Cardinality(Waiting) \in Nat
  BY FS_Subset, FS_CardinalityType DEF Waiting, CountsOK
<1>3. /\ sent \in 0 .. Most /\ world \in 0 .. Most /\ asked \in 0 .. MaxAsked
      /\ due \in 0 .. world
  BY <1>1, <1>2, BoundAssumption DEF CountsOK
<1>4. \A r \in feed.asks : r \in Ask
  <2> SUFFICES ASSUME NEW r \in feed.asks PROVE r \in Ask
    OBVIOUS
  <2>1. r \in Requests /\ RequestOK(r)
    BY DEF FeedOK, Feeds
  <2>2. r.n \in 1 .. MaxAsked /\ r.at \in 0 .. Most
    BY <1>3, <2>1, BoundAssumption, <1>1 DEF Requests, RequestOK
  <2> QED BY <2>1, <2>2 DEF Ask, Requests
<1>5. feed \in [scope : Scopes \cup {Nothing}, at : 0 .. Most,
               loading : BOOLEAN, failed : BOOLEAN, settled : BOOLEAN, asks : SUBSET Ask]
  <2>1. feed.at \in 0 .. Most
    BY <1>1, <1>3 DEF FeedOK, Feeds
  <2> QED BY <1>4, <2>1 DEF FeedOK, Feeds
<1>6. writes \subseteq Write
  <2> SUFFICES ASSUME NEW w \in writes PROVE w \in Write
    OBVIOUS
  <2>1. w \in Writes /\ 1 <= w.n /\ w.n <= sent /\ w.at <= world
    BY DEF ActsOK, WriteOK
  <2>2. w.n \in 1 .. Most /\ w.at \in 0 .. Most
    BY <1>1, <1>3, <2>1 DEF Writes
  <2> QED BY <2>1, <2>2 DEF Write, Writes
<1> QED BY <1>3, <1>5, <1>6 DEF TypeOK, AboutOK, FeedOK, ActsOK

-----------------------------------------------------------------------------
(* What is shown. *)

\* The steps that start a fetch, and why they may.
LEMMA AsksIs ==
  ASSUME PageInv, Refresh \/ Rescope \/ Done
  PROVE  /\ UNCHANGED <<page, watched, used, world>>
         /\ \/ UNCHANGED <<feed, scope, asked>>
            \/ /\ Watching /\ F.rescoped /\ F.manual /\ scope' \in Scopes
               /\ feed' = Emptied(feed)
            \/ /\ Watching /\ scope' \in Scopes /\ feed' = Asking(feed, scope')
               /\ \/ scope' # scope /\ F.rescoped /\ ~F.manual
                  \/ scope' = scope /\ F.again /\ (F.alone => feed.asks = {})
                  \/ scope' = scope /\ \E a \in used : watched \in A(a).asks
<1>1. CASE Refresh
  BY <1>1 DEF Refresh, PageInv, FeedOK
<1>2. CASE Rescope
  BY <1>2 DEF Rescope
<1>3. CASE Done
  <2>1. PICK w \in writes :
          \/ feed' = Asking(feed, scope) /\ watched \in A(w.act).asks
          \/ UNCHANGED <<feed, asked>>
    BY <1>3 DEF Done
  <2>2. w.act \in used
    BY DEF PageInv, ActsOK, WriteOK, Writes
  <2>3. watched \in A(w.act).asks => Watching
    BY <2>2, PagesAssumption DEF A, Watching, PageInv, AboutOK
  <2> QED BY <1>3, <2>1, <2>2, <2>3 DEF Done, PageInv, FeedOK
<1> QED BY <1>1, <1>2, <1>3

\* Every step does one of these.
LEMMA Kinds ==
  ASSUME [Next]_vars
  PROVE  Quiet \/ (Refresh \/ Rescope \/ Done) \/ ServerReads \/ Answer \/ AskFails
BY DEF Next, Quiet

\* A watched feed that is said sets its flags and its error.
LEMMA Said ==
  ASSUME PageInv, Watching, <<page, watched>> \notin Unsaid, ~F.manual
  PROVE  /\ {"loading", "error"} \subseteq Pages[page].screen[watched]
         /\ F.notes /\ F.waits # "never" /\ (F.clears => F.waits = "every")
BY UnsaidAssumption DEF PageInv, AboutOK, F, Watching

LEMMA SaysWhyStep == ASSUME PageInv, SaysWhy, [Next]_vars PROVE SaysWhy'
<1> SUFFICES ASSUME Watching', <<page, watched>>' \notin Unsaid, ~F.manual', feed'.scope = Nothing
             PROVE  feed'.loading \/ feed'.failed
  BY DEF SaysWhy
<1>1. UNCHANGED <<page, watched>> /\ Watching /\ <<page, watched>> \notin Unsaid /\ ~F.manual
  BY AboutStays DEF F, Watching
<1>2. /\ feed.scope = Nothing => feed.loading \/ feed.failed
      /\ F.notes /\ F.waits # "never" /\ (F.clears => F.waits = "every")
  BY <1>1, Said DEF SaysWhy
<1>3. feed \in Feeds /\ scope \in Scopes /\ asked \in Nat /\ world \in Nat
      /\ \A r \in feed.asks : r.scope \in Scopes
  BY DEF PageInv, FeedOK, CountsOK, Feeds, Requests
<1>4. CASE Quiet
  BY <1>2, <1>4, QuietIs
<1>5. CASE Refresh \/ Rescope \/ Done
  <2>1. \/ UNCHANGED feed
        \/ scope' \in Scopes /\ feed' = Asking(feed, scope')
    BY <1>1, <1>5, AsksIs
  <2>2. CASE scope' \in Scopes /\ feed' = Asking(feed, scope')
    BY <1>2, <1>3, <2>2, AskingIs
  <2> QED BY <1>2, <2>1, <2>2
<1>6. CASE ServerReads
  BY <1>2, <1>3, <1>6, ServerReadsIs
<1>7. CASE Answer
  BY <1>3, <1>7, AnswerIs, BoundAssumption DEF Nothing
<1>8. CASE AskFails
  BY <1>2, <1>3, <1>8, AskFailsIs
<1> QED BY <1>4, <1>5, <1>6, <1>7, <1>8, Kinds

\* A feed that is not overtaken.
LEMMA AloneOrDropping ==
  ASSUME PageInv, Watching, <<page, watched>> \notin Overtaken
  PROVE  \/ F.drops
         \/ /\ ~F.rescoped /\ (F.again => F.alone)
            /\ \A a \in used : watched \notin A(a).asks
BY OvertakenAssumption DEF PageInv, AboutOK, F, A, Watching

LEMMA InOrderStep == ASSUME PageInv, InOrder, [Next]_vars PROVE InOrder'
<1> SUFFICES ASSUME Watching', <<page, watched>>' \notin Overtaken
             PROVE  /\ \A r, s \in feed'.asks : r = s
                    /\ \A r \in feed'.asks : r.read => feed'.at <= r.at
  BY DEF InOrder
<1>1. UNCHANGED <<page, watched>> /\ Watching /\ <<page, watched>> \notin Overtaken
  BY AboutStays DEF Watching
<1>2. /\ \A r, s \in feed.asks : r = s
      /\ \A r \in feed.asks : r.read => feed.at <= r.at
  BY <1>1 DEF InOrder
<1>3. feed \in Feeds /\ scope \in Scopes /\ asked \in Nat /\ world \in Nat
      /\ feed.at <= world /\ \A r \in feed.asks : r \in Requests
  BY DEF PageInv, FeedOK, CountsOK, Feeds
<1>4. CASE Quiet
  BY <1>2, <1>4, QuietIs
<1>5. CASE Refresh \/ Rescope \/ Done
  <2>1. \/ UNCHANGED feed
        \/ feed' = Emptied(feed)
        \/ /\ scope' \in Scopes /\ feed' = Asking(feed, scope')
           /\ F.drops \/ feed.asks = {}
    BY <1>5, <1>1, AsksIs, AloneOrDropping
  <2>2. CASE feed' = Emptied(feed)
    BY <1>2, <1>3, <2>2, EmptiedIs
  <2>3. CASE /\ scope' \in Scopes /\ feed' = Asking(feed, scope')
             /\ F.drops \/ feed.asks = {}
    <3>1. feed'.asks = {NewAsk(scope')}
      BY <1>3, <2>3, AskingIs
    <3> QED BY <3>1 DEF NewAsk
  <2> QED BY <1>2, <2>1, <2>2, <2>3
<1>6. CASE ServerReads
  <2>1. PICK r \in feed.asks : feed'.asks = (feed.asks \ {r}) \cup {Read(r)}
    BY <1>3, <1>6, ServerReadsIs
  <2>2. feed'.asks = {Read(r)}
    BY <1>2, <2>1
  <2>3. Read(r).at = world /\ feed'.at = feed.at
    BY <1>3, <1>6, ReadIs, ServerReadsIs
  <2> QED BY <1>3, <2>2, <2>3
<1>7. CASE Answer
  BY <1>2, <1>3, <1>7, AnswerIs
<1>8. CASE AskFails
  BY <1>2, <1>3, <1>8, AskFailsIs
<1> QED BY <1>4, <1>5, <1>6, <1>7, <1>8, Kinds

\* A feed of which an error is seen, and that drops old answers if it has any.
LEMMA Settling ==
  ASSUME PageInv, Watching, <<page, watched>> \notin Overtaken \cup Unsaid
  PROVE  /\ "error" \in Pages[page].screen[watched] /\ F.notes
         /\ F.rescoped => F.drops /\ ~F.manual
BY SettlesAssumption DEF PageInv, AboutOK, F, Watching

LEMMA HeadingStep == ASSUME PageInv, Heading, [Next]_vars PROVE Heading'
<1> SUFFICES ASSUME Watching', <<page, watched>>' \notin Overtaken \cup Unsaid
             PROVE  /\ \A r \in feed'.asks : r.scope = scope'
                    /\ feed'.asks = {} => feed'.failed \/ feed'.scope = scope'
  BY DEF Heading
<1>1. UNCHANGED <<page, watched>> /\ Watching /\ <<page, watched>> \notin Overtaken \cup Unsaid
  BY AboutStays DEF Watching
<1>2. /\ \A r \in feed.asks : r.scope = scope
      /\ feed.asks = {} => feed.failed \/ feed.scope = scope
      /\ F.notes /\ (F.rescoped => F.drops /\ ~F.manual)
  BY <1>1, Settling DEF Heading
<1>3. feed \in Feeds /\ scope \in Scopes /\ asked \in Nat /\ world \in Nat
      /\ \A r \in feed.asks : r \in Requests
  BY DEF PageInv, FeedOK, CountsOK, Feeds
<1>4. CASE Quiet
  BY <1>2, <1>4, QuietIs
<1>5. CASE Refresh \/ Rescope \/ Done
  <2>1. \/ UNCHANGED <<feed, scope>>
        \/ /\ scope' \in Scopes /\ feed' = Asking(feed, scope')
           /\ F.drops \/ scope' = scope
    BY <1>2, <1>5, AsksIs
  <2>2. CASE /\ scope' \in Scopes /\ feed' = Asking(feed, scope')
             /\ F.drops \/ scope' = scope
    <3>1. feed'.asks = (IF F.drops THEN {} ELSE feed.asks) \cup {NewAsk(scope')}
      BY <1>3, <2>2, AskingIs
    <3>2. NewAsk(scope').scope = scope'
      BY DEF NewAsk
    <3> QED BY <1>2, <2>2, <3>1, <3>2
  <2> QED BY <1>2, <2>1, <2>2
<1>6. CASE ServerReads
  <2>1. PICK r \in feed.asks : feed'.asks = (feed.asks \ {r}) \cup {Read(r)}
    BY <1>3, <1>6, ServerReadsIs
  <2>2. scope' = scope /\ Read(r).scope = r.scope
    BY <1>3, <1>6, ReadIs, ServerReadsIs
  <2> QED BY <1>2, <2>1, <2>2
<1>7. CASE Answer
  BY <1>2, <1>3, <1>7, AnswerIs
<1>8. CASE AskFails
  BY <1>2, <1>3, <1>8, AskFailsIs
<1> QED BY <1>4, <1>5, <1>6, <1>7, <1>8, Kinds

LEMMA ToldStep == ASSUME PageInv, Told, [Next]_vars PROVE Told'
<1> SUFFICES ASSUME Watching', <<page, watched>>' \notin Overtaken \cup Unsaid,
                    \A a \in used' : <<page, watched, a>>' \notin Unasked
             PROVE  /\ \A r \in feed'.asks : r.read => due' <= r.at
                    /\ feed'.asks = {} => feed'.failed \/ due' <= feed'.at
  BY DEF Told
<1>1. /\ UNCHANGED <<page, watched, used>> /\ Watching
      /\ <<page, watched>> \notin Overtaken \cup Unsaid
      /\ \A a \in used : <<page, watched, a>> \notin Unasked
  BY AboutStays DEF Watching
<1>2. /\ \A r \in feed.asks : r.read => due <= r.at
      /\ feed.asks = {} => feed.failed \/ due <= feed.at
      /\ F.notes /\ (F.rescoped => ~F.manual)
  BY <1>1, Settling DEF Told
<1>3. feed \in Feeds /\ scope \in Scopes /\ asked \in Nat /\ world \in Nat
      /\ due <= world /\ \A r \in feed.asks : r \in Requests
  BY DEF PageInv, FeedOK, CountsOK, Feeds
<1>4. CASE Quiet
  BY <1>2, <1>4, QuietIs
<1>5. CASE Refresh \/ Rescope
  <2>1. due' = due
    BY <1>5 DEF Refresh, Rescope
  <2>2. UNCHANGED feed \/ (scope' \in Scopes /\ feed' = Asking(feed, scope'))
    BY <1>2, <1>5, AsksIs
  <2>3. CASE scope' \in Scopes /\ feed' = Asking(feed, scope')
    <3>1. feed'.asks = (IF F.drops THEN {} ELSE feed.asks) \cup {NewAsk(scope')}
      BY <1>3, <2>3, AskingIs
    <3>2. ~NewAsk(scope').read
      BY DEF NewAsk
    <3> QED BY <1>2, <2>1, <3>1, <3>2
  <2> QED BY <1>2, <2>1, <2>2, <2>3
<1>6. CASE Done
  <2>1. PICK w \in writes :
          /\ IF watched \in A(w.act).asks THEN feed' = Asking(feed, scope) ELSE UNCHANGED feed
          /\ due' = due \/ watched \in A(w.act).shows
    BY <1>6 DEF Done
  <2>2. w.act \in used /\ w.act \in DOMAIN Pages[page].acts /\ watched \in DOMAIN Pages[page].feeds
    BY <1>1 DEF PageInv, ActsOK, WriteOK, Writes, AboutOK, Watching
  <2>3. watched \in A(w.act).shows => F.drops /\ watched \in A(w.act).asks
    BY <1>1, <2>2, UnaskedAssumption DEF PageInv, AboutOK, F, A
  <2>4. CASE feed' = Asking(feed, scope)
    <3>1. feed'.asks = (IF F.drops THEN {} ELSE feed.asks) \cup {NewAsk(scope)}
      BY <1>3, <2>4, AskingIs
    <3>2. ~NewAsk(scope).read
      BY DEF NewAsk
    <3> QED BY <1>2, <2>1, <2>3, <3>1, <3>2
  <2>5. CASE watched \notin A(w.act).asks
    BY <1>2, <2>1, <2>3, <2>5
  <2> QED BY <2>1, <2>4, <2>5
<1>7. CASE ServerReads
  <2>1. PICK r \in feed.asks : feed'.asks = (feed.asks \ {r}) \cup {Read(r)}
    BY <1>3, <1>7, ServerReadsIs
  <2>2. due' = due /\ Read(r).at = world
    BY <1>3, <1>7, ReadIs, ServerReadsIs
  <2> QED BY <1>2, <1>3, <2>1, <2>2
<1>8. CASE Answer
  BY <1>2, <1>3, <1>8, AnswerIs
<1>9. CASE AskFails
  BY <1>2, <1>3, <1>9, AskFailsIs
<1> QED BY <1>4, <1>5, <1>6, <1>7, <1>8, <1>9, Kinds

-----------------------------------------------------------------------------
(* The locks. *)

\* The steps that leave the dialogs, the flags and the writes alone.
Calm == Refresh \/ Rescope \/ ServerReads \/ Answer \/ AskFails \/ Others \/ UNCHANGED vars

LEMMA CalmIs == Calm => UNCHANGED <<page, watched, used, slot, busy, writes>>
BY DEF Calm, Refresh, Rescope, ServerReads, Answer, AskFails, Others, vars

LEMMA ActKinds ==
  ASSUME [Next]_vars
  PROVE  Calm \/ Open \/ Leave \/ Send \/ ServerTakes \/ Done \/ Refused
BY DEF Next, Calm

LEMMA WritesTyped ==
  ASSUME PageInv
  PROVE  /\ \A w \in writes : w \in Writes /\ w.act \in used /\ w.row \in Rows
         /\ slot \in [used -> Rows \cup {None}] /\ busy \in [Key -> Rows \cup {None}]
         /\ \A a \in used : A(a).key \in Key
         /\ world \in Nat /\ sent \in Nat
BY DEF PageInv, ActsOK, WriteOK, Writes, Key, CountsOK

LEMMA SendIs ==
  ASSUME Send
  PROVE  \E a \in used, r \in Rows :
           /\ (A(a).dialog /\ A(a).modal) \/ ~Covered
           /\ A(a).dialog => slot[a] = r
           /\ Free(a, r)
           /\ busy' = [busy EXCEPT ![A(a).key] = r]
           /\ writes' = writes \cup {NewWrite(a, r)}
           /\ UNCHANGED <<page, watched, used, slot>>
BY DEF Send, NewWrite

LEMMA ServerTakesIs ==
  ASSUME ServerTakes
  PROVE  /\ \E w \in writes : writes' = (writes \ {w}) \cup {Taken(w)}
         /\ UNCHANGED <<page, watched, used, slot, busy>>
BY DEF ServerTakes, Taken

LEMMA ReturnIs ==
  ASSUME Done \/ Refused
  PROVE  \E w \in writes :
           /\ writes' = writes \ {w} /\ busy' = [busy EXCEPT ![A(w.act).key] = None]
           /\ slot' = slot \/ slot' = [slot EXCEPT ![w.act] = None]
           /\ UNCHANGED <<page, watched, used>>
BY DEF Done, Refused, Released

LEMMA HeldStep == ASSUME PageInv, Held, [Next]_vars PROVE Held'
<1> SUFFICES ASSUME NEW k \in Key', busy'[k] # None
             PROVE  \E w \in writes' : A(w.act)'.key = k
  BY DEF Held, A
<1>1. Key' = Key /\ (\A a : A(a)' = A(a)) /\ k \in Key
  BY AboutStays DEF Key, A
<1>2. /\ \A w \in writes : w \in Writes /\ w.act \in used /\ A(w.act).key \in Key
      /\ busy \in [Key -> Rows \cup {None}] /\ world \in Nat /\ sent \in Nat
  BY WritesTyped
<1>3. busy[k] # None => \E w \in writes : A(w.act).key = k
  BY <1>1 DEF Held
<1>4. CASE Calm \/ Open
  BY <1>1, <1>3, <1>4, CalmIs DEF Open
<1>5. CASE Leave
  <2>1. busy' = busy
    BY <1>5 DEF Leave
  <2>2. PICK w \in writes : A(w.act).key = k
    BY <1>3, <2>1
  <2>3. PICK a \in used : writes' = writes \/ writes' = {Left(a, v) : v \in writes}
    BY <1>5, LeaveIs DEF PageInv
  <2>4. Left(a, w).act = w.act
    BY <1>2, LeftIs
  <2> QED BY <1>1, <2>2, <2>3, <2>4
<1>6. CASE Send
  <2>1. PICK a \in used, r \in Rows : /\ busy' = [busy EXCEPT ![A(a).key] = r]
                                      /\ writes' = writes \cup {NewWrite(a, r)}
    BY <1>6, SendIs
  <2>2. NewWrite(a, r).act = a
    BY DEF NewWrite
  <2> QED BY <1>1, <1>2, <1>3, <2>1, <2>2
<1>7. CASE ServerTakes
  <2>1. PICK w \in writes : writes' = (writes \ {w}) \cup {Taken(w)}
    BY <1>7, ServerTakesIs
  <2>2. busy' = busy /\ Taken(w).act = w.act
    BY <1>2, <1>7, ServerTakesIs, TakenIs
  <2> QED BY <1>1, <1>3, <2>1, <2>2
<1>8. CASE Done \/ Refused
  <2>1. PICK w \in writes : /\ writes' = writes \ {w}
                            /\ busy' = [busy EXCEPT ![A(w.act).key] = None]
    BY <1>8, ReturnIs
  <2>2. A(w.act).key # k /\ busy[k] # None
    BY <1>1, <1>2, <2>1
  <2> QED BY <1>1, <1>3, <2>1, <2>2
<1> QED BY <1>4, <1>5, <1>6, <1>7, <1>8, ActKinds

LEMMA OnePerInstanceStep ==
  ASSUME PageInv, OnePerInstance, [Next]_vars
  PROVE  OnePerInstance'
<1> DEFINE Same(v, w) == /\ A(v.act).lock = "instance" /\ v.act = w.act /\ v.row = w.row
                         /\ v.mounted /\ w.mounted
<1> SUFFICES ASSUME NEW v \in writes', NEW w \in writes', Same(v, w)
             PROVE  v = w
  BY AboutStays DEF OnePerInstance, A
<1>1. \A p, q \in writes : Same(p, q) => p = q
  BY DEF OnePerInstance
<1>2. (\A p \in writes : p \in Writes) /\ world \in Nat /\ sent \in Nat
  BY WritesTyped
<1>3. CASE Calm \/ Open
  BY <1>1, <1>3, CalmIs DEF Open
<1>4. CASE Leave
  <2>1. PICK a \in used : writes' = writes \/ writes' = {Left(a, p) : p \in writes}
    BY <1>4, LeaveIs DEF PageInv
  <2>2. CASE writes' = {Left(a, p) : p \in writes}
    <3>1. PICK p \in writes, q \in writes : v = Left(a, p) /\ w = Left(a, q)
      BY <2>2
    <3>2. Same(p, q)
      BY <1>2, <3>1, LeftIs
    <3> QED BY <1>1, <3>1, <3>2
  <2> QED BY <1>1, <2>1, <2>2
<1>5. CASE Send
  <2>1. PICK a \in used, r \in Rows :
          Free(a, r) /\ writes' = writes \cup {NewWrite(a, r)}
    BY <1>5, SendIs
  <2>2. NewWrite(a, r).act = a /\ NewWrite(a, r).row = r
    BY DEF NewWrite
  <2>3. A(a).lock = "instance" => \A p \in writes : p.act = a /\ p.row = r => ~p.mounted
    BY <2>1 DEF Free
  <2> QED BY <1>1, <2>1, <2>2, <2>3
<1>6. CASE ServerTakes
  <2>1. PICK p \in writes : writes' = (writes \ {p}) \cup {Taken(p)}
    BY <1>6, ServerTakesIs
  <2>2. /\ Taken(p).act = p.act /\ Taken(p).row = p.row /\ Taken(p).mounted = p.mounted
    BY <1>2, TakenIs
  <2> QED BY <1>1, <2>1, <2>2
<1>7. CASE Done \/ Refused
  BY <1>1, <1>7, ReturnIs
<1> QED BY <1>3, <1>4, <1>5, <1>6, <1>7, ActKinds

LEMMA OneForAllStep == ASSUME PageInv, OneForAll, [Next]_vars PROVE OneForAll'
<1>1. UNCHANGED <<page, watched, used>> /\ (\A a : A(a)' = A(a) /\ Waits(page, a)' = Waits(page, a))
  BY AboutStays DEF A
<1> SUFFICES ASSUME \A a \in used : Waits(page, a)
             PROVE  /\ \A v, w \in writes' : v = w
                    /\ \A w \in writes' : w.mounted /\ busy'[A(w.act).key] # None
                    /\ \A a \in used : A(a).lock = "instance" /\ slot'[a] # None
                                         => \A w \in writes' : w.act = a
                    /\ \A a, b \in used : /\ A(a).modal /\ slot'[a] # None
                                          /\ A(b).modal /\ slot'[b] # None
                                          => a = b
  BY <1>1 DEF OneForAll
<1>2. /\ \A v, w \in writes : v = w
      /\ \A w \in writes : w.mounted /\ busy[A(w.act).key] # None
      /\ \A a \in used : A(a).lock = "instance" /\ slot[a] # None
                           => \A w \in writes : w.act = a
      /\ \A a, b \in used : /\ A(a).modal /\ slot[a] # None
                            /\ A(b).modal /\ slot[b] # None
                            => a = b
  BY DEF OneForAll
<1>3. \A a \in used : \/ A(a).lock = "idle"
                       \/ /\ A(a).lock = "instance" /\ A(a).dialog /\ A(a).modal /\ ~A(a).leave
                          /\ RowLock(a).lock = "idle" /\ RowLock(a).key = A(a).key
  BY DEF Waits, A, RowLock
<1>4. \A a, b \in used : A(a).key = A(b).key
  BY DEF PageInv, AboutOK
<1>5. /\ \A w \in writes : w \in Writes /\ w.act \in used /\ w.row \in Rows
      /\ slot \in [used -> Rows \cup {None}] /\ busy \in [Key -> Rows \cup {None}]
      /\ \A a \in used : A(a).key \in Key
      /\ world \in Nat /\ sent \in Nat
  BY WritesTyped
<1>6. \A a \in used : busy[A(a).key] = None => writes = {}
  BY <1>2, <1>4, <1>5
<1>7. CASE Calm
  BY <1>2, <1>7, CalmIs
<1>8. CASE Open
  <2>1. PICK a \in used, r \in Rows :
          ~Covered /\ RowFree(a, r) /\ slot' = [slot EXCEPT ![a] = r]
    BY <1>8 DEF Open
  <2>2. UNCHANGED <<busy, writes>>
    BY <1>8 DEF Open
  <2>3. \A b \in used : A(b).modal => slot[b] = None
    BY <2>1 DEF Covered
  <2>4. \A b \in used : A(b).modal /\ slot'[b] # None => b = a
    BY <1>5, <2>1, <2>3
  <2>5. A(a).lock = "instance" => writes = {}
    <3> HAVE A(a).lock = "instance"
    <3>1. busy[A(a).key] = None
      BY <1>3, <1>5, <2>1 DEF RowFree, Allows, Flag
    <3> QED BY <1>6, <3>1
  <2>6. \A b \in used : A(b).lock = "instance" /\ slot'[b] # None => writes = {}
    BY <1>3, <2>4, <2>5
  <2> QED BY <1>2, <2>2, <2>4, <2>6
<1>9. CASE Leave
  <2>1. PICK a \in used :
          /\ slot' = [slot EXCEPT ![a] = None]
          /\ A(a).leave \/ \A w \in writes : w.act # a
          /\ \/ writes' = writes
             \/ A(a).lock = "instance" /\ writes' = {Left(a, w) : w \in writes}
    BY <1>9, LeaveIs DEF PageInv
  <2>2. busy' = busy
    BY <1>9 DEF Leave
  <2>3. \A b \in used : slot'[b] # None => slot[b] # None
    BY <1>5, <2>1
  <2>4. CASE A(a).lock = "instance" /\ writes' = {Left(a, w) : w \in writes}
    <3>1. \A w \in writes : /\ Left(a, w).act = w.act
                             /\ Left(a, w).mounted = (w.mounted /\ w.act # a)
                             /\ w.act # a
      BY <1>3, <1>5, <2>1, <2>4, LeftIs
    <3>2. \A v \in writes' : \E w \in writes : v = Left(a, w)
      BY <2>4
    <3>3. ASSUME NEW v \in writes' PROVE v.mounted /\ busy[A(v.act).key] # None
      <4>1. PICK w \in writes : v = Left(a, w)
        BY <3>2
      <4>2. v.act = w.act /\ v.mounted = (w.mounted /\ w.act # a) /\ w.act # a
        BY <3>1, <4>1
      <4> QED BY <1>2, <4>2
    <3>4. \A v, w \in writes' : v = w
      BY <1>2, <3>2
    <3>5. ASSUME NEW b \in used, A(b).lock = "instance", slot'[b] # None
          PROVE  \A w \in writes' : w.act = b
      <4>1. \A w \in writes : w.act = b
        BY <1>2, <2>3, <3>5
      <4> QED BY <3>1, <3>2, <4>1
    <3> QED BY <1>2, <2>2, <2>3, <3>3, <3>4, <3>5
  <2> QED BY <1>2, <2>1, <2>2, <2>3, <2>4
<1>10. CASE Send
  <2>1. PICK a \in used, r \in Rows :
           /\ (A(a).dialog /\ A(a).modal) \/ ~Covered
           /\ A(a).dialog => slot[a] = r
           /\ Free(a, r)
           /\ busy' = [busy EXCEPT ![A(a).key] = r]
           /\ writes' = writes \cup {NewWrite(a, r)}
           /\ slot' = slot
    BY <1>10, SendIs
  <2>2. r # None /\ busy'[A(a).key] # None
    BY <1>5, <2>1, BoundAssumption
  <2>3. NewWrite(a, r).act = a /\ NewWrite(a, r).mounted
    BY DEF NewWrite
  <2>4. writes = {}
    <3>1. CASE A(a).lock = "idle"
      BY <1>5, <1>6, <2>1, <3>1 DEF Free, Allows, Flag
    <3>2. CASE A(a).lock = "instance"
      <4>1. A(a).dialog /\ slot[a] # None
        BY <1>3, <2>1, <2>2, <3>2
      <4>2. \A w \in writes : w.act = a /\ w.mounted
        BY <1>2, <3>2, <4>1
      <4>3. \A w \in writes : ~(w.act = a /\ w.mounted)
        BY <2>1, <3>2, <4>1 DEF Free
      <4> QED BY <4>2, <4>3
    <3> QED BY <1>3, <3>1, <3>2
  <2>5. writes' = {NewWrite(a, r)}
    BY <2>1, <2>4
  <2>6. \A b \in used : A(b).lock = "instance" /\ slot[b] # None => b = a
    <3> SUFFICES ASSUME NEW b \in used, A(b).lock = "instance", slot[b] # None PROVE b = a
      OBVIOUS
    <3>1. A(b).modal /\ Covered
      BY <1>3 DEF Covered
    <3> QED BY <1>2, <2>1, <2>2, <3>1
  <2> QED BY <1>2, <2>1, <2>2, <2>3, <2>5, <2>6
<1>11. CASE ServerTakes
  <2>1. PICK w \in writes : writes' = (writes \ {w}) \cup {Taken(w)}
    BY <1>11, ServerTakesIs
  <2>2. UNCHANGED <<slot, busy>> /\ writes' = {Taken(w)}
    BY <1>2, <1>11, <2>1, ServerTakesIs
  <2>3. Taken(w).act = w.act /\ Taken(w).mounted = w.mounted
    BY <1>5, TakenIs
  <2> QED BY <1>2, <2>2, <2>3
<1>12. CASE Done \/ Refused
  <2>1. PICK w \in writes :
          /\ writes' = writes \ {w}
          /\ slot' = slot \/ slot' = [slot EXCEPT ![w.act] = None]
    BY <1>12, ReturnIs
  <2>2. writes' = {}
    BY <1>2, <2>1
  <2>3. \A b \in used : slot'[b] # None => slot[b] # None
    BY <1>5, <2>1
  <2> QED BY <1>2, <2>2, <2>3
<1> QED BY <1>7, <1>8, <1>9, <1>10, <1>11, <1>12, ActKinds

-----------------------------------------------------------------------------
(* All of it is inductive. *)

PageAll == /\ PageInv /\ SaysWhy /\ InOrder /\ Heading /\ Told
           /\ Held /\ OnePerInstance /\ OneForAll

LEMMA AllStart == Init => PageAll
<1> SUFFICES ASSUME Init PROVE PageAll
  OBVIOUS
<1>1. PageInv
  BY PageStart
<1>2. writes = {} /\ (\A a \in used : slot[a] = None) /\ (\A k \in Key : busy[k] = None)
  BY DEF Init
<1>3. /\ feed.loading = (Watching /\ F.waits # "never") /\ scope = 1
      /\ \A r \in feed.asks : r = [n |-> 1, scope |-> 1, read |-> FALSE, at |-> 0]
      /\ Watching => feed.asks # {}
  BY DEF Init
<1>4. SaysWhy
  BY <1>1, <1>3, Said DEF SaysWhy
<1>8. ASSUME NEW r \in feed.asks PROVE r.scope = scope /\ ~r.read
  <2>1. r = [n |-> 1, scope |-> 1, read |-> FALSE, at |-> 0]
    BY <1>3
  <2> QED BY <1>3, <2>1
<1>5. \A r, s \in feed.asks : r = s
  BY <1>3
<1>7. InOrder /\ Heading /\ Told
  BY <1>3, <1>5, <1>8 DEF InOrder, Heading, Told
<1>6. Held /\ OnePerInstance /\ OneForAll
  BY <1>2 DEF Held, OnePerInstance, OneForAll
<1> QED BY <1>1, <1>4, <1>6, <1>7 DEF PageAll

LEMMA AllStep == ASSUME PageAll, [Next]_vars PROVE PageAll'
BY PageStep, SaysWhyStep, InOrderStep, HeadingStep, ToldStep, HeldStep,
   OnePerInstanceStep, OneForAllStep
   DEF PageAll

LEMMA AllInductive == Spec => []PageAll
BY AllStart, AllStep, PTL DEF Spec

-----------------------------------------------------------------------------
\* Every variable of a page keeps its type, and every count its bound.
THEOREM PageTypeCorrect == Spec => []TypeOK
BY PageTyped, PageInductive, PTL

LEMMA AllEmptyExplained == PageAll => EmptyExplained
BY Said DEF PageAll, SaysWhy, EmptyExplained, SaysLoading, SaysError

\* A page without an answer, because none has come yet or because the fetch has
\* failed, says which of the two it is, beside whatever else it renders: except
\* for the feeds in Unsaid.
THEOREM EmptinessIsExplained == Spec => []EmptyExplained
BY AllEmptyExplained, AllInductive, PTL

LEMMA AllSettlesOnScope == PageAll => SettlesOnScope
BY Settling DEF PageAll, Heading, SettlesOnScope, SaysError

\* When nothing is on its way, what is shown is for what is selected, or an
\* error is: whatever order the answers came in.
THEOREM ItSettlesOnScope == Spec => []SettlesOnScope
BY AllSettlesOnScope, AllInductive, PTL

LEMMA AllWritesShown == PageAll => WritesShown
<1> SUFFICES ASSUME PageAll, Watching, feed.asks = {},
                    <<page, watched>> \notin Overtaken \cup Unsaid,
                    \A a \in used : <<page, watched, a>> \notin Unasked
             PROVE  SaysError \/ feed.at >= due
  BY DEF WritesShown
<1>1. feed.at \in Nat /\ due \in Nat
  BY DEF PageAll, PageInv, FeedOK, Feeds, CountsOK
<1> QED BY <1>1, Settling DEF PageAll, Told, SaysError

\* When nothing is on its way, what the user was told is done is shown, or an
\* error is.
THEOREM WritesAreShown == Spec => []WritesShown
BY AllWritesShown, AllInductive, PTL

LEMMA AllOnceEach == PageAll => OnceEach
<1> SUFFICES ASSUME PageAll, NEW v \in writes, NEW w \in writes,
                    v.act = w.act, v.row = w.row, v.mounted, w.mounted,
                    <<page, v.act>> \notin Repeats
             PROVE  v = w
  BY DEF OnceEach
<1>1. v.act \in used /\ page \in DOMAIN Pages /\ used \subseteq DOMAIN Pages[page].acts
      /\ \A b \in used : A(b).key = A(v.act).key
  BY WritesTyped DEF PageAll, PageInv, AboutOK
<1>2. CASE A(v.act).lock = "instance"
  BY <1>2 DEF PageAll, OnePerInstance
<1>3. CASE A(v.act).lock # "instance"
  <2>1. \A b \in DOMAIN Pages[page].acts : A(b).key = A(v.act).key => Waits(page, b)
    BY <1>1, <1>3, RepeatsAssumption DEF A
  <2>2. \A b \in used : Waits(page, b)
    BY <1>1, <2>1
  <2> QED BY <2>2 DEF PageAll, OneForAll
<1> QED BY <1>2, <1>3

\* No write is sent twice at once, by acts with flags of their own or shared.
THEOREM SentOnceEach == Spec => []OnceEach
BY AllOnceEach, AllInductive, PTL

LEMMA AllLocksReleased == PageAll => LocksReleased
BY DEF PageAll, Held, LocksReleased

\* With nothing on its way, no button stays disabled, whatever has failed.
THEOREM LocksAreReleased == Spec => []LocksReleased
BY AllLocksReleased, AllInductive, PTL

LEMMA AllNeverBack ==
  ASSUME PageAll, [Next]_vars, <<page, watched>> \notin Overtaken, feed'.scope = feed.scope
  PROVE  feed'.at >= feed.at
<1>1. /\ feed \in Feeds /\ feed.at \in Nat /\ asked \in Nat /\ world \in Nat
      /\ \A r \in feed.asks : r.at \in Nat
  BY DEF PageAll, PageInv, FeedOK, CountsOK, Feeds, Requests
<1>2. CASE Answer
  <2>1. PICK r \in feed.asks : r.read /\ feed'.at = r.at
    BY <1>1, <1>2, AnswerIs
  <2>2. feed.at <= r.at
    BY <2>1 DEF PageAll, PageInv, FeedOK, InOrder
  <2> QED BY <1>1, <2>1, <2>2
<1>3. CASE Refresh \/ Rescope \/ Done
  BY <1>1, <1>3, AsksIs, AskingIs, EmptiedIs DEF PageAll
<1> QED BY <1>1, <1>2, <1>3, Kinds, QuietIs, ServerReadsIs, AskFailsIs

\* What is shown of a scope is never replaced by something older, if the fetch
\* drops old answers or never has two on their way.
THEOREM ItNeverGoesBack == Spec => NeverBack
BY AllNeverBack, AllInductive, PTL DEF NeverBack, Spec
=============================================================================
