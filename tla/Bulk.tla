-------------------------------- MODULE Bulk --------------------------------
(***************************************************************************)
(* The selection of a table (web/src/hooks/useRowSelection.ts) and the bar *)
(* that acts on it (web/src/components/BulkActionBar.tsx), over a list     *)
(* that a watch may change at any time.  runBulk starts a few workers that *)
(* take the items one after another; its order is left out.                *)
(***************************************************************************)
EXTENDS Naturals, FiniteSets

CONSTANTS Keys,     \* keys of the rows, "namespace/name"
          Workers   \* runBulk's concurrency

ASSUME BulkAssumption == IsFiniteSet(Keys) /\ Workers \in Nat \ {0}

VARIABLES present,   \* rows of the list
          selected,  \* keys ticked; some may have left the list
          pending,   \* the bar asks to confirm an action
          running,   \* the bar runs an action
          queue,     \* items no worker has taken
          flying,    \* items whose write is on its way
          tried,     \* items whose write has returned
          failed,    \* those of them that failed
          told       \* what the last toast said

bulkVars == <<present, selected, pending, running, queue, flying, tried, failed, told>>

BulkTypeOK ==
  /\ present \subseteq Keys /\ selected \subseteq Keys
  /\ pending \in BOOLEAN /\ running \in BOOLEAN
  /\ queue \subseteq Keys /\ flying \subseteq Keys
  /\ tried \subseteq Keys /\ failed \subseteq tried
  /\ told \in {"nothing", "complete", "failures"}

\* selectedRows: the ticked rows that are in the list.  Without any, there is
\* no bar.
Selected == selected \cap present
Idle == Selected # {} /\ ~pending /\ ~running

BulkInit ==
  /\ present \in SUBSET Keys /\ selected = {} /\ pending = FALSE /\ running = FALSE
  /\ queue = {} /\ flying = {} /\ tried = {} /\ failed = {} /\ told = "nothing"

\* A refresh, or the watch.
ListChanges ==
  /\ present' \in SUBSET Keys
  /\ UNCHANGED <<selected, pending, running, queue, flying, tried, failed, told>>

\* toggleAll on the rows of the page, or toggle on one row: ticks them all, or,
\* when they all are, unticks them.
Toggled(rows) == IF rows \subseteq selected THEN selected \ rows ELSE selected \cup rows

ToggleAll ==
  /\ \E rows \in SUBSET present \ {{}} : selected' = Toggled(rows)
  /\ UNCHANGED <<present, pending, running, queue, flying, tried, failed, told>>

\* The buttons of the bar: clear, choose an action, cancel it.
Clear ==
  /\ Idle /\ selected' = {}
  /\ UNCHANGED <<present, pending, running, queue, flying, tried, failed, told>>

Choose ==
  /\ Idle /\ pending' = TRUE
  /\ UNCHANGED <<present, selected, running, queue, flying, tried, failed, told>>

Cancel ==
  /\ Selected # {} /\ pending /\ pending' = FALSE
  /\ UNCHANGED <<present, selected, running, queue, flying, tried, failed, told>>

\* execute: the workers start at once, each with the item it takes first.
Execute ==
  /\ pending /\ Selected # {}
  /\ pending' = FALSE /\ running' = TRUE
  /\ flying' \in SUBSET Selected
  /\ Cardinality(flying') = IF Cardinality(Selected) < Workers
                            THEN Cardinality(Selected) ELSE Workers
  /\ queue' = Selected \ flying'
  /\ tried' = {} /\ failed' = {}
  /\ UNCHANGED <<present, selected, told>>

\* A fault: the shared index is not advanced.
NextOfStays(k) ==
  /\ flying' = (flying \ {k}) \cup (IF queue = {} THEN {} ELSE {CHOOSE next \in queue : TRUE})
  /\ UNCHANGED queue

\* A write returns, with an error or without; its worker takes the next item.
NextOf(k) ==
  IF queue = {} THEN flying' = flying \ {k} /\ UNCHANGED queue
  ELSE \E next \in queue :
         flying' = (flying \ {k}) \cup {next} /\ queue' = queue \ {next}

\* A fault: an error ends its worker.
ReturnsOrStops ==
  /\ \E k \in flying :
       /\ tried' = tried \cup {k}
       /\ \/ NextOf(k) /\ UNCHANGED failed
          \/ flying' = flying \ {k} /\ failed' = failed \cup {k} /\ UNCHANGED queue
  /\ UNCHANGED <<present, selected, pending, running, told>>

Returns ==
  /\ \E k \in flying :
       /\ NextOf(k)
       /\ tried' = tried \cup {k}
       /\ failed' \in {failed, failed \cup {k}}
  /\ UNCHANGED <<present, selected, pending, running, told>>

\* A fault: the toast says "complete" when any item succeeded.
FinishMostly ==
  /\ running /\ queue = {} /\ flying = {}
  /\ running' = FALSE
  /\ told' = IF failed # tried THEN "complete" ELSE "failures"
  /\ selected' = {}
  /\ UNCHANGED <<present, pending, queue, flying, tried, failed>>

\* All workers have returned: the toast, onClear, and onComplete's refresh.
Finish ==
  /\ running /\ queue = {} /\ flying = {}
  /\ running' = FALSE
  /\ told' = IF failed = {} THEN "complete" ELSE "failures"
  /\ selected' = {}
  /\ UNCHANGED <<present, pending, queue, flying, tried, failed>>

BulkNext == ListChanges \/ ToggleAll \/ Clear \/ Choose \/ Cancel \/ Execute \/ Returns \/ Finish

BulkSpec == BulkInit /\ [][BulkNext]_bulkVars

-----------------------------------------------------------------------------
Each == INSTANCE EachOnce WITH Items <- Keys, left <- queue \cup flying,
                               tried <- tried, over <- ~running

\* The bar does what it promises: one action at a time, every item of the
\* selection tried once, one's failure not stopping the others.
TriesEachOnce == Each!Spec

\* While items wait, every worker is busy: none has stopped at a failure.
NoIdleWorker == queue # {} => Cardinality(flying) = Workers

\* The toast says "complete" only if no write of the run failed, also when rows
\* left the list, or were ticked, while it ran.
ToastTrue == ~running /\ told = "complete" => failed = {}
=============================================================================
