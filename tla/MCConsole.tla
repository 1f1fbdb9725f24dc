----------------------------- MODULE MCConsole ------------------------------
(***************************************************************************)
(* The pages of the console, the view of their tables and the actions on   *)
(* their selections.  The three do not share state, and a behaviour is     *)
(* about one of them: part says which, and the others stand still.         *)
(***************************************************************************)
EXTENDS PagesWorkloads, PagesNetworking, PagesConfig, PagesOperations,
        PagesObservability, Page, ListView, Bulk

VARIABLE part   \* what this behaviour is about

\* What the run gives the constants Pages, Views, Unsaid and so on.
AllPages == WorkloadPages @@ NetworkingPages @@ ConfigPages @@ OperationsPages
              @@ ObservabilityPages
AllViews == WorkloadViews \cup NetworkingViews \cup ConfigViews \cup OperationsViews
              \cup ObservabilityViews
AllUnsaid == WorkloadUnsaid \cup NetworkingUnsaid \cup ConfigUnsaid \cup OperationsUnsaid
               \cup ObservabilityUnsaid
AllOvertaken == WorkloadOvertaken \cup NetworkingOvertaken \cup ConfigOvertaken
                  \cup OperationsOvertaken \cup ObservabilityOvertaken
AllUnasked == WorkloadUnasked \cup NetworkingUnasked \cup ConfigUnasked
                \cup OperationsUnasked \cup ObservabilityUnasked
AllRepeats == WorkloadRepeats \cup NetworkingRepeats \cup ConfigRepeats
                \cup OperationsRepeats \cup ObservabilityRepeats

\* A page, a view and a selection at rest.
PageOff == page = "Pods" /\ watched = None /\ used = {"delete"} /\ Init
ViewOff == view = PodsView /\ all = 0 /\ query = Default /\ ViewInit
BulkOff == present = {} /\ BulkInit

PageVars == <<page, watched, used, scope, world, feed, asked, sent, slot, busy, writes, due>>
ViewVars == <<view, query, mount, chosen, all, some, turns>>

ConsoleInit ==
  \/ part = "page" /\ Init /\ ViewOff /\ BulkOff
  \/ part = "view" /\ PageOff /\ ViewInit /\ BulkOff
  \/ part = "bulk" /\ PageOff /\ ViewOff /\ BulkInit

ConsoleNext ==
  /\ UNCHANGED part
  /\ \/ part = "page" /\ Next /\ UNCHANGED ViewVars /\ UNCHANGED bulkVars
     \/ part = "view" /\ ViewNext /\ UNCHANGED PageVars /\ UNCHANGED bulkVars
     \/ part = "bulk" /\ BulkNext /\ UNCHANGED PageVars /\ UNCHANGED ViewVars

ConsoleSpec == ConsoleInit /\ [][ConsoleNext]_<<part, PageVars, ViewVars, bulkVars>>

ConsoleTypeOK == TypeOK /\ ViewTypeOK /\ BulkTypeOK

\* The view alone.
ViewOnlySpec == part = "view" /\ ConsoleSpec

Symmetry == Permutations(Rows)
=============================================================================
