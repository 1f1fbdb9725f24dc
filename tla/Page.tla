-------------------------------- MODULE Page --------------------------------
(***************************************************************************)
(* One mounted page of the console (web/src/pages), as data and as a       *)
(* machine that runs it.                                                   *)
(*                                                                         *)
(* A page is a record:                                                     *)
(*   feeds  - what it fetches, and by which hook or handler               *)
(*   screen - of each feed, whether its loading state and its error are    *)
(*            rendered                                                     *)
(*   acts   - what its user can make it write, by which dialog or button   *)
(*   rows   - by which flag of the page the button of an act in its row is *)
(*            disabled; "always" enabled if absent                         *)
(*                                                                         *)
(* The machine runs one page at a time, and of it either one feed with at  *)
(* most one act, or two acts and no feed: feeds do not depend on each      *)
(* other, and acts meet in pairs, over a busy flag they share or a dialog  *)
(* that covers the page.  Rows are the objects of its table.               *)
(***************************************************************************)
EXTENDS Naturals, FiniteSets

CONSTANTS Pages,      \* the pages, by name
          Rows,       \* objects an act can be about
          None,       \* no row
          MaxSent,    \* writes during a run without a feed
          MaxShown,   \* writes, by anyone, during a run that watches a feed
          MaxAsked,   \* fetches a run starts
          Scopes,     \* values of what a feed depends on: namespace, tab, row
          Unsaid,     \* <<page, feed>> whose first load or failure is not rendered
          Overtaken,  \* <<page, feed>> where an old answer can replace a new one
          Unasked,    \* <<page, feed, act>>: act changes feed and does not refresh it
          Repeats     \* <<page, act>> that can be sent again while it is on its way

ASSUME BoundAssumption ==
  /\ MaxSent \in Nat /\ MaxShown \in Nat /\ MaxAsked \in Nat \ {0}
  /\ Scopes \subseteq Nat \ {0} /\ 1 \in Scopes
  /\ None \notin Rows

\* The pages are well formed: what a write refreshes is a feed of its page.
ASSUME PagesAssumption ==
  \A p \in DOMAIN Pages :
    /\ None \notin DOMAIN Pages[p].feeds
    /\ \A a \in DOMAIN Pages[p].acts : Pages[p].acts[a].asks \subseteq DOMAIN Pages[p].feeds

\* The four sets of exceptions below are all there is to except: of every other
\* feed and act, the page's code has what the properties at the end rest on.

\* A feed whose loading and failure are rendered sets the flags they are
\* rendered from, and its error for good.
ASSUME UnsaidAssumption ==
  \A p \in DOMAIN Pages : \A f \in DOMAIN Pages[p].feeds :
    LET fetch == Pages[p].feeds[f] IN
      <<p, f>> \notin Unsaid /\ ~fetch.manual =>
        /\ {"loading", "error"} \subseteq Pages[p].screen[f]
        /\ fetch.notes /\ fetch.waits # "never"
        /\ fetch.clears => fetch.waits = "every"

\* A feed that is not overtaken drops old answers, or never has two on their way.
ASSUME OvertakenAssumption ==
  \A p \in DOMAIN Pages : \A f \in DOMAIN Pages[p].feeds :
    LET fetch == Pages[p].feeds[f] IN
      <<p, f>> \notin Overtaken =>
        \/ fetch.drops
        \/ /\ ~fetch.rescoped /\ (fetch.again => fetch.alone)
           /\ \A a \in DOMAIN Pages[p].acts : f \notin Pages[p].acts[a].asks

\* A feed that is neither sets its error and renders it, and what only a button
\* fetches depends on nothing that changes.
ASSUME SettlesAssumption ==
  \A p \in DOMAIN Pages : \A f \in DOMAIN Pages[p].feeds :
    LET fetch == Pages[p].feeds[f] IN
      <<p, f>> \notin Overtaken \cup Unsaid =>
        /\ "error" \in Pages[p].screen[f] /\ fetch.notes
        /\ fetch.rescoped => fetch.drops /\ ~fetch.manual

\* An act that changes such a feed refreshes it, and then older answers are
\* dropped.
ASSUME UnaskedAssumption ==
  \A p \in DOMAIN Pages : \A f \in DOMAIN Pages[p].feeds, a \in DOMAIN Pages[p].acts :
    /\ <<p, f>> \notin Overtaken \cup Unsaid /\ <<p, f, a>> \notin Unasked
    /\ f \in Pages[p].acts[a].shows
    => Pages[p].feeds[f].drops /\ f \in Pages[p].acts[a].asks

RowLockOf(p, a) ==
  IF a \in DOMAIN Pages[p].rows THEN Pages[p].rows[a] ELSE [lock |-> "always", key |-> None]

\* An act that waits for its flag: its button does, or the button that opens its
\* dialog does, which then covers the page until the write has returned.
Waits(p, a) ==
  LET act == Pages[p].acts[a] IN
    \/ act.lock = "idle"
    \/ /\ act.lock = "instance" /\ act.dialog /\ act.modal /\ ~act.leave
       /\ RowLockOf(p, a) = [lock |-> "idle", key |-> act.key]

\* An act that is not repeated has a flag of its own, or shares one only with
\* acts that wait for it too.
ASSUME RepeatsAssumption ==
  \A p \in DOMAIN Pages : \A a \in DOMAIN Pages[p].acts :
    <<p, a>> \notin Repeats =>
      \/ Pages[p].acts[a].lock = "instance"
      \/ \A b \in DOMAIN Pages[p].acts :
           Pages[p].acts[b].key = Pages[p].acts[a].key => Waits(p, b)

VARIABLES page, watched, used,   \* what this run is about
          scope,                 \* what the watched feed depends on, now
          world,                 \* writes the server has taken, from anyone
          feed,                  \* the watched feed
          asked, sent,           \* fetches started, writes started by anyone
          slot,                  \* the row each dialog is open for
          busy,                  \* the busy flags, by name
          writes,                \* writes on their way
          due                    \* the last write the page knows to be done

vars == <<page, watched, used, scope, world, feed, asked, sent, slot, busy,
          writes, due>>

Watching == watched # None
F == Pages[page].feeds[watched]
A(a) == Pages[page].acts[a]
RowLock(a) == RowLockOf(page, a)
Key == {A(a).key : a \in used}
Nothing == 0                     \* no answer yet; also: not read, not landed

Most == MaxSent + MaxShown
Ask == [n : 1 .. MaxAsked, scope : Scopes, read : BOOLEAN, at : 0 .. Most]
Write == [n : 1 .. Most, act : used, row : Rows, mounted : BOOLEAN,
          at : 0 .. Most]

TypeOK ==
  /\ page \in DOMAIN Pages
  /\ watched \in DOMAIN Pages[page].feeds \cup {None}
  /\ used \subseteq DOMAIN Pages[page].acts
  /\ scope \in Scopes
  /\ world \in 0 .. Most /\ sent \in 0 .. Most /\ asked \in 0 .. MaxAsked
  /\ feed \in [scope : Scopes \cup {Nothing}, at : 0 .. Most,
               loading : BOOLEAN, failed : BOOLEAN, settled : BOOLEAN,
               asks : SUBSET Ask]
  /\ slot \in [used -> Rows \cup {None}]
  /\ busy \in [Key -> Rows \cup {None}]
  /\ writes \subseteq Write
  /\ due \in 0 .. world

-----------------------------------------------------------------------------
(* The feed. *)

\* A fault: the effect has no cancelled flag.
AskingKeeps(fd, s) ==
  [fd EXCEPT !.asks = @ \cup {[n |-> asked + 1, scope |-> s, read |-> FALSE, at |-> 0]},
             !.failed = @ /\ F.waits # "every"]

\* A fault: nothing is fetched while a fetch is on its way.
AskingUnlessBusy(fd, s) ==
  IF fd.asks # {} THEN fd
  ELSE [fd EXCEPT !.asks = {[n |-> asked + 1, scope |-> s, read |-> FALSE, at |-> 0]},
                  !.failed = @ /\ F.waits # "every"]

\* fd after a fetch of scope s has started: useResource's effect, or a handler
\* that fetches.  An effect with a cancelled flag forgets the fetches before it.
Asking(fd, s) ==
  [fd EXCEPT
     !.asks = (IF F.drops THEN {} ELSE @)
                \cup {[n |-> asked + 1, scope |-> s, read |-> FALSE, at |-> 0]},
     !.loading = @ \/ F.waits = "every" \/ (F.waits = "first" /\ ~fd.settled),
     !.failed = @ /\ F.waits # "every",
     !.scope = IF F.clears THEN Nothing ELSE @]

\* There is room for one more fetch, and for those of the writes on their way.
MayAsk == asked + Cardinality(writes) < MaxAsked

\* The Refresh button, a poll, or the watch behind a live list.
Refresh ==
  /\ Watching /\ F.again /\ (F.alone => feed.asks = {}) /\ MayAsk
  /\ feed' = Asking(feed, scope) /\ asked' = asked + 1
  /\ UNCHANGED <<page, watched, used, scope, world, sent, slot, busy, writes, due>>

\* Another namespace is chosen, a tab or a row is opened: what the feed shows
\* depends on it.  What only a button fetches is emptied, and not asked for.
Emptied(fd) == [fd EXCEPT !.scope = Nothing]

Rescope ==
  /\ Watching /\ F.rescoped /\ MayAsk
  /\ \E s \in Scopes \ {scope} :
       /\ scope' = s
       /\ IF F.manual
          THEN feed' = Emptied(feed) /\ UNCHANGED asked
          ELSE feed' = Asking(feed, s) /\ asked' = asked + 1
  /\ UNCHANGED <<page, watched, used, world, sent, slot, busy, writes, due>>

\* The server reads its answer to a fetch.
ServerReads ==
  /\ \E r \in feed.asks :
       /\ ~r.read
       /\ feed' = [feed EXCEPT !.asks = (@ \ {r})
                                 \cup {[r EXCEPT !.read = TRUE, !.at = world]}]
  /\ UNCHANGED <<page, watched, used, scope, world, asked, sent, slot, busy, writes, due>>

\* The answer arrives.
Answered(fd, r) ==
  [fd EXCEPT !.asks = @ \ {r}, !.scope = r.scope, !.at = r.at,
             !.loading = FALSE, !.failed = FALSE, !.settled = TRUE]

Answer ==
  /\ \E r \in feed.asks : r.read /\ feed' = Answered(feed, r)
  /\ UNCHANGED <<page, watched, used, scope, world, asked, sent, slot, busy, writes, due>>

\* A fault: catch ends the loading and keeps the error to itself.
FailedSilently(fd, r) == [fd EXCEPT !.asks = @ \ {r}, !.loading = FALSE, !.settled = TRUE]

\* The fetch fails: the rows stay, unless a failure reads as an empty answer,
\* and the error is set, unless the code swallows it.
Failed(fd, r) ==
  [(IF F.forgets THEN Emptied(fd) ELSE fd)
     EXCEPT !.asks = @ \ {r}, !.loading = FALSE, !.failed = @ \/ F.notes, !.settled = TRUE]

AskFails ==
  /\ \E r \in feed.asks : feed' = Failed(feed, r)
  /\ UNCHANGED <<page, watched, used, scope, world, asked, sent, slot, busy, writes, due>>

-----------------------------------------------------------------------------
(* The acts. *)

\* A dialog that covers the page is open.
Covered == \E a \in used : A(a).modal /\ slot[a] # None

\* What a flag of the page names; it names no row if no act of this run sets it.
Flag(key) == IF key \in Key THEN busy[key] ELSE None

\* A button for row r with this lock is not disabled by flag key.
Allows(lock, key, r) ==
  /\ lock = "row" => Flag(key) # r
  /\ lock = "idle" => Flag(key) = None

\* The button in the row, which opens the dialog of a or sends.
RowFree(a, r) == Allows(RowLock(a).lock, RowLock(a).key, r)

\* A fault: a dialog's own flag does not disable its button.
FreeUnlessShared(a, r) == Allows(A(a).lock, A(a).key, r)

\* The button that sends a for r.
Free(a, r) ==
  /\ Allows(A(a).lock, A(a).key, r)
  /\ A(a).lock = "instance" =>
       \A w \in writes : w.act = a /\ (A(a).dialog \/ w.row = r) => ~w.mounted

\* The dialog of an act is opened for a row.
Open ==
  /\ ~Covered
  /\ \E a \in used, r \in Rows :
       /\ A(a).dialog /\ slot[a] # r /\ RowFree(a, r)
       /\ slot' = [slot EXCEPT ![a] = r]
  /\ UNCHANGED <<page, watched, used, scope, world, feed, asked, sent, busy, writes, due>>

\* Cancel, the cross, Escape or the backdrop.  A dialog mounted for each use
\* is unmounted with what it has sent still on its way.
Leave ==
  /\ \E a \in used :
       /\ slot[a] # None
       /\ A(a).leave \/ \A w \in writes : w.act # a
       /\ slot' = [slot EXCEPT ![a] = None]
       /\ writes' = IF A(a).lock = "instance"
                    THEN {[w EXCEPT !.mounted = @ /\ w.act # a] : w \in writes}
                    ELSE writes
  /\ UNCHANGED <<page, watched, used, scope, world, feed, asked, sent, busy, due>>

\* A write starts: from a dialog that is open, or from a button of the row.
Send ==
  /\ IF Watching THEN sent < MaxShown /\ MayAsk ELSE sent < MaxSent
  /\ \E a \in used, r \in Rows :
       /\ (A(a).dialog /\ A(a).modal) \/ ~Covered
       /\ IF A(a).dialog THEN slot[a] = r ELSE RowFree(a, r)
       /\ Free(a, r)
       /\ busy' = [busy EXCEPT ![A(a).key] = r]
       /\ writes' = writes \cup {[n |-> sent + 1, act |-> a, row |-> r,
                                  mounted |-> TRUE, at |-> 0]}
  /\ sent' = sent + 1
  /\ UNCHANGED <<page, watched, used, scope, world, feed, asked, slot, due>>

ServerTakes ==
  /\ \E w \in writes :
       /\ w.at = 0
       /\ writes' = (writes \ {w}) \cup {[w EXCEPT !.at = world + 1]}
  /\ world' = world + 1
  /\ UNCHANGED <<page, watched, used, scope, feed, asked, sent, slot, busy, due>>

\* Another client changes what the feed shows.
Others ==
  /\ Watching /\ sent < MaxShown
  /\ sent' = sent + 1 /\ world' = world + 1
  /\ UNCHANGED <<page, watched, used, scope, feed, asked, slot, busy, writes, due>>

\* The busy flag of w, after w has returned; a dialog that was left keeps none.
Released(w) == [busy EXCEPT ![A(w.act).key] = None]

\* The write returns: the handler closes its dialog, whoever has it open now,
\* and refreshes what it refreshes.
Done ==
  \E w \in writes :
    /\ w.at # 0
    /\ writes' = writes \ {w}
    /\ busy' = Released(w)
    /\ slot' = IF A(w.act).closes THEN [slot EXCEPT ![w.act] = None] ELSE slot
    /\ IF watched \in A(w.act).asks
       THEN feed' = Asking(feed, scope) /\ asked' = asked + 1
       ELSE UNCHANGED <<feed, asked>>
    /\ due' = IF watched \in A(w.act).shows /\ w.at > due THEN w.at ELSE due
    /\ UNCHANGED <<page, watched, used, scope, world, sent>>

\* A fault: the flag is released in then, not in finally.
RefusedKeepsFlag ==
  \E w \in writes :
    /\ w.at = 0
    /\ writes' = writes \ {w}
    /\ UNCHANGED <<page, watched, used, scope, world, feed, asked, sent, slot, busy, due>>

\* The write is refused: the dialog stays and the flag is released.
Refused ==
  \E w \in writes :
    /\ w.at = 0
    /\ writes' = writes \ {w}
    /\ busy' = Released(w)
    /\ UNCHANGED <<page, watched, used, scope, world, feed, asked, sent, slot, due>>

-----------------------------------------------------------------------------
\* The acts that meet: one alone, or two that share a flag.
Together(acts) ==
  LET shared == {{a, b} : a, b \in DOMAIN acts}
  IN IF acts = <<>> THEN {{}}
     ELSE {s \in shared : \A a, b \in s :
                             a = b \/ (acts[a].key = acts[b].key /\ acts[a].key # "own")}

Init ==
  /\ page \in DOMAIN Pages
  /\ watched \in DOMAIN Pages[page].feeds \cup {None}
  /\ used \in Together(Pages[page].acts)
  /\ Watching => Cardinality(used) <= 1
  /\ scope \in Scopes /\ scope = 1
  /\ world = 0 /\ sent = 0 /\ due = 0
  /\ slot = [a \in used |-> None] /\ busy = [k \in Key |-> None]
  /\ writes = {}
  /\ asked = 1
  /\ feed = [scope |-> Nothing, at |-> 0, loading |-> Watching /\ F.waits # "never",
             failed |-> FALSE, settled |-> FALSE,
             asks |-> IF Watching
                      THEN {[n |-> 1, scope |-> 1, read |-> FALSE, at |-> 0]} ELSE {}]

Next == \/ Refresh \/ Rescope \/ ServerReads \/ Answer \/ AskFails
        \/ Open \/ Leave \/ Send \/ ServerTakes \/ Others \/ Done \/ Refused

Spec == Init /\ [][Next]_vars

-----------------------------------------------------------------------------
(* What the screen says of the feed. *)
SaysLoading == feed.loading /\ "loading" \in Pages[page].screen[watched]
SaysError == feed.failed /\ "error" \in Pages[page].screen[watched]

\* A page that has no answer says that it is loading or that it failed.  Some
\* tables show their empty row beside the error ("No deployments",
\* Deployments.tsx:378; Pods.tsx:290, ConfigMaps.tsx:269): it is then not all
\* that is said.  (What only a button fetches is empty before it.)
EmptyExplained ==
  Watching /\ <<page, watched>> \notin Unsaid /\ ~F.manual /\ feed.scope = Nothing
    => SaysLoading \/ SaysError

\* When nothing is on its way, a page that reports no error shows what is
\* selected now, however the answers to earlier selections were ordered.
SettlesOnScope ==
  Watching /\ <<page, watched>> \notin Overtaken \cup Unsaid /\ feed.asks = {}
    => SaysError \/ feed.scope = scope

\* What is shown of one scope is never replaced by something older.
NeverBack ==
  [][<<page, watched>> \notin Overtaken /\ feed'.scope = feed.scope
       => feed'.at >= feed.at]_vars

\* What the user was told is done is on the screen once nothing is on its way:
\* every handler refreshes the feeds its write changes, after the write.
WritesShown ==
  (/\ Watching /\ feed.asks = {} /\ writes = {}
   /\ <<page, watched>> \notin Overtaken \cup Unsaid
   /\ \A a \in used : <<page, watched, a>> \notin Unasked)
  => SaysError \/ feed.at >= due

\* No write is sent again while it is on its way: disabling the button holds
\* under flags that several rows and several acts share.
OnceEach ==
  \A v, w \in writes :
    (/\ v.act = w.act /\ v.row = w.row /\ v.mounted /\ w.mounted
     /\ <<page, v.act>> \notin Repeats)
    => v = w

\* No row stays disabled: with nothing on its way, no busy flag is set.
LocksReleased == writes = {} => \A k \in Key : busy[k] = None
=============================================================================
