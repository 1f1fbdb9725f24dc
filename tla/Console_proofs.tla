--------------------------- MODULE Console_proofs ---------------------------
(***************************************************************************)
(* Proofs about the console, for any pages, views and rows, and any number *)
(* of workers: those of Page_proofs, of the selection and its bar, of the  *)
(* view of a table, and of the three as MCConsole puts them together.      *)
(***************************************************************************)
EXTENDS MCConsole, Page_proofs

-----------------------------------------------------------------------------
(* The selection and its bar: types, toast, workers, and EachOnce. *)

\* Nothing is left or asked for but while it should be, and no item is in two
\* places.
BulkInv ==
  /\ BulkTypeOK
  /\ ~running => queue = {} /\ flying = {}
  /\ pending => ~running
  /\ queue \cap flying = {} /\ (queue \cup flying) \cap tried = {}
  /\ NoIdleWorker /\ ToastTrue

LEMMA BulkStart == BulkInit => BulkInv
BY DEF BulkInit, BulkInv, BulkTypeOK, NoIdleWorker, ToastTrue

\* The workers start with as many items as there are, or as they are.
LEMMA ExecuteKeeps == ASSUME BulkInv, Execute PROVE BulkInv'
<1>1. /\ flying' \subseteq Selected /\ queue' = Selected \ flying'
      /\ Cardinality(flying') = IF Cardinality(Selected) < Workers
                                THEN Cardinality(Selected) ELSE Workers
      /\ ~pending' /\ running' /\ running' \in BOOLEAN /\ pending' \in BOOLEAN
      /\ tried' = {} /\ failed' = {} /\ UNCHANGED <<present, selected, told>>
  BY DEF Execute
<1>2. Selected \subseteq Keys /\ IsFiniteSet(Selected)
  BY BulkAssumption, FS_Subset DEF Selected, BulkInv, BulkTypeOK
<1>3. queue' # {} => Cardinality(flying') = Workers
  <2> SUFFICES ASSUME Cardinality(Selected) < Workers, queue' # {} PROVE FALSE
    BY <1>1
  <2>1. flying' # Selected
    BY <1>1
  <2>2. Cardinality(flying') < Cardinality(Selected)
    BY <1>1, <1>2, <2>1, FS_Subset, FS_CardinalityType
  <2> QED BY <1>1, <1>2, <2>2, FS_CardinalityType
<1> QED BY <1>1, <1>2, <1>3 DEF BulkInv, BulkTypeOK, NoIdleWorker, ToastTrue

\* A worker that is done takes the next item, if there is one.
LEMMA ReturnsKeeps == ASSUME BulkInv, Returns PROVE BulkInv'
<1>1. PICK k \in flying :
        /\ NextOf(k) /\ tried' = tried \cup {k} /\ failed' \in {failed, failed \cup {k}}
  BY DEF Returns
<1>2. UNCHANGED <<present, selected, pending, running, told>> /\ running
  BY <1>1 DEF Returns, BulkInv
<1>3. queue' \subseteq queue /\ flying' \subseteq (flying \ {k}) \cup (queue \ queue')
      /\ queue' \cap flying' = {}
  BY <1>1 DEF NextOf, BulkInv
<1>4. NoIdleWorker'
  <2>1. CASE queue = {}
    BY <1>1, <2>1 DEF NextOf, NoIdleWorker
  <2>2. CASE queue # {}
    <3>1. PICK next \in queue : flying' = (flying \ {k}) \cup {next}
      BY <1>1, <2>2 DEF NextOf
    <3>2. IsFiniteSet(flying) /\ IsFiniteSet(flying \ {k}) /\ next \notin flying \ {k}
      BY BulkAssumption, FS_Subset DEF BulkInv, BulkTypeOK
    <3>3. Cardinality(flying \ {k}) = Cardinality(flying) - 1
      BY <1>1, <3>2, FS_RemoveElement
    <3>4. Cardinality(flying') = Cardinality(flying \ {k}) + 1
      BY <3>1, <3>2, FS_AddElement
    <3>5. Cardinality(flying) \in Nat
      BY <3>2, FS_CardinalityType
    <3>6. Cardinality(flying') = Cardinality(flying)
      BY <3>3, <3>4, <3>5
    <3> QED BY <2>2, <3>6 DEF BulkInv, NoIdleWorker
  <2> QED BY <2>1, <2>2
<1> QED BY <1>1, <1>2, <1>3, <1>4 DEF BulkInv, BulkTypeOK, ToastTrue

\* Everything else leaves the items alone.
LEMMA BulkRestKeeps ==
  ASSUME BulkInv, ListChanges \/ ToggleAll \/ Clear \/ Choose \/ Cancel \/ Finish
  PROVE  BulkInv'
<1>1. CASE ListChanges
  BY <1>1 DEF ListChanges, BulkInv, BulkTypeOK, NoIdleWorker, ToastTrue
<1>2. CASE ToggleAll
  BY <1>2 DEF ToggleAll, Toggled, BulkInv, BulkTypeOK, NoIdleWorker, ToastTrue
<1>3. CASE Clear
  BY <1>3 DEF Clear, BulkInv, BulkTypeOK, NoIdleWorker, ToastTrue
<1>4. CASE Choose \/ Cancel
  <2>1. /\ UNCHANGED <<present, selected, running, queue, flying, tried, failed, told>>
        /\ pending' \in BOOLEAN
    BY <1>4 DEF Choose, Cancel
  <2>2. pending' => ~running'
    BY <1>4 DEF Choose, Cancel, Idle
  <2> QED BY <2>1, <2>2 DEF BulkInv, BulkTypeOK, NoIdleWorker, ToastTrue
<1>5. CASE Finish
  BY <1>5 DEF Finish, BulkInv, BulkTypeOK, NoIdleWorker, ToastTrue
<1> QED BY <1>1, <1>2, <1>3, <1>4, <1>5

LEMMA BulkInductive == BulkSpec => []BulkInv
<1>1. BulkInv /\ UNCHANGED bulkVars => BulkInv'
  BY DEF bulkVars, BulkInv, BulkTypeOK, NoIdleWorker, ToastTrue
<1>2. BulkInv /\ [BulkNext]_bulkVars => BulkInv'
  BY <1>1, ExecuteKeeps, ReturnsKeeps, BulkRestKeeps DEF BulkNext
<1> QED BY <1>2, BulkStart, PTL DEF BulkSpec

-----------------------------------------------------------------------------
\* The selection and the bar keep their types.
THEOREM BulkTypeCorrect == BulkSpec => []BulkTypeOK
<1>1. BulkInv => BulkTypeOK
  BY DEF BulkInv
<1> QED BY <1>1, BulkInductive, PTL

\* While items wait, no worker is idle, whatever has failed.
THEOREM WorkersKeepBusy == BulkSpec => []NoIdleWorker
<1>1. BulkInv => NoIdleWorker
  BY DEF BulkInv
<1> QED BY <1>1, BulkInductive, PTL

\* The toast says "complete" only of a run in which nothing failed.
THEOREM TheToastIsTrue == BulkSpec => []ToastTrue
<1>1. BulkInv => ToastTrue
  BY DEF BulkInv
<1> QED BY <1>1, BulkInductive, PTL

\* The bar implements EachOnce: it starts with the selection, tries every item
\* once, and ends when none is left.
THEOREM BarTriesEachOnce == BulkSpec => TriesEachOnce
<1>1. BulkInit => Each!Init
  BY DEF BulkInit, Each!Init
<1>2. BulkInv /\ [BulkNext]_bulkVars => [Each!Next]_Each!vars
  <2> SUFFICES ASSUME BulkInv, [BulkNext]_bulkVars PROVE [Each!Next]_Each!vars
    OBVIOUS
  <2>1. CASE Execute
    <3>1. Selected \in SUBSET Keys
      BY DEF Selected, BulkInv, BulkTypeOK
    <3>2. Each!Start(Selected)
      BY <2>1 DEF Execute, Each!Start, BulkInv
    <3> QED BY <3>1, <3>2 DEF Each!Next
  <2>2. CASE Returns
    <3>1. PICK k \in flying : NextOf(k) /\ tried' = tried \cup {k}
      BY <2>2 DEF Returns
    <3>2. Each!Try(k)
      BY <2>2, <3>1 DEF Returns, NextOf, Each!Try, BulkInv
    <3> QED BY <3>1, <3>2 DEF Each!Next
  <2>3. CASE Finish
    BY <2>3 DEF Finish, Each!Next, Each!End
  <2>4. CASE ListChanges \/ ToggleAll \/ Clear \/ Choose \/ Cancel \/ UNCHANGED bulkVars
    BY <2>4 DEF ListChanges, ToggleAll, Clear, Choose, Cancel, bulkVars, Each!vars
  <2> QED BY <2>1, <2>2, <2>3, <2>4 DEF BulkNext
<1> QED BY <1>1, <1>2, BulkInductive, PTL DEF BulkSpec, TriesEachOnce, Each!Spec

-----------------------------------------------------------------------------
(* The view of a table: its types, the window of its footer, its size. *)

\* A view that is paged has a size to be divided by, also in the query of the
\* moment it was mounted, which its setters write into.
Dividable(q) == q \in Query /\ (Paged => q.size # 0)
ViewInv == ViewTypeOK /\ Dividable(query) /\ Dividable(mount)

\* usePagination counts from one.
LEMMA PageCountIs ==
  ASSUME NEW q, q.size \in Nat \ {0}, some \in Nat, all \in Nat
  PROVE  PageCount(q) \in Nat \ {0}
<1>1. Total(q) \in Nat
  BY DEF Total
<1>2. ASSUME NEW t \in Nat \ {0}, NEW k \in Nat \ {0}
      PROVE  (t + k - 1) \div k \in Nat \ {0}
  <2>1. t + k - 1 \in Nat /\ t + k - 1 >= k
    OBVIOUS
  <2> QED BY <2>1
<1> QED BY <1>1, <1>2 DEF PageCount

\* The window offers pages that exist.
LEMMA PageWindowIs ==
  ASSUME NEW count \in Nat \ {0}, NEW n
  PROVE  PageWindow(n, count) \subseteq 1 .. count
BY DEF PageWindow

\* A setter keeps the type of a query, and the value it sets.
LEMMA SetIs ==
  ASSUME Dividable(mount), NEW q, Dividable(q)
  PROVE  /\ \A f \in Filters, v \in {"", "x"} : Dividable(Set(q, f, v))
         /\ \A v \in {"name", "age"} : Dividable(Set(q, "sort", v))
         /\ \A v \in {"asc", "desc"} : Dividable(Set(q, "dir", v))
         /\ \A v \in Nat \ {0} : Dividable(Set(q, "page", v))
         /\ \A v \in Sizes : Dividable(Set(q, "size", v)) /\ Set(q, "size", v).size = v
<1>1. \A v \in Sizes : v # 0
  BY ViewsAssumption
<1>2. q \in Query /\ mount \in Query
  BY DEF Dividable
<1>3. /\ \A f \in Filters, v \in {"", "x"} : Set(q, f, v) \in Query
      /\ \A v \in {"name", "age"} : Set(q, "sort", v) \in Query
      /\ \A v \in {"asc", "desc"} : Set(q, "dir", v) \in Query
      /\ \A v \in Nat \ {0} : Set(q, "page", v) \in Query
      /\ \A v \in Sizes : Set(q, "size", v) \in Query
  BY <1>2 DEF Set, Query, Filters
<1>4. /\ \A v : \A f \in Filters \cup {"sort", "dir", "page"} :
           Set(q, f, v).size \in {q.size, mount.size}
      /\ \A v \in Sizes : Set(q, "size", v).size = v
  BY <1>2 DEF Set, Query, Filters
<1> HIDE DEF Set
<1> QED BY <1>1, <1>3, <1>4 DEF Dividable, Filters

LEMMA SearchedIs ==
  ASSUME NEW q \in Query, NEW n \in {1, 3}
  PROVE  /\ [q EXCEPT !.q = "x", !.page = n] \in Query
         /\ [q EXCEPT !.q = "x", !.page = n].size = q.size
<1> DEFINE searched == [q EXCEPT !.q = "x"]
<1>1. searched \in Query /\ searched.size = q.size
  BY DEF Query
<1> HIDE DEF searched
<1>2. n \in Nat \ {0}
  OBVIOUS
<1>3. [searched EXCEPT !.page = n] \in Query /\ [searched EXCEPT !.page = n].size = q.size
  BY <1>1, <1>2 DEF Query
<1> QED BY <1>3 DEF searched

LEMMA SizedIs ==
  ASSUME NEW q \in Query, NEW p \in Nat \ {0}, NEW n \in Sizes
  PROVE  [q EXCEPT !.page = p, !.size = n] \in Query
<1> DEFINE paged == [q EXCEPT !.page = p]
<1>1. paged \in Query
  BY DEF Query
<1> HIDE DEF paged
<1>2. [paged EXCEPT !.size = n] \in Query
  BY <1>1 DEF Query
<1> QED BY <1>2 DEF paged

LEMMA ViewStart == ViewInit => ViewInv
<1> SUFFICES ASSUME ViewInit PROVE ViewInv
  OBVIOUS
<1>1. view.size \in Sizes \cup {0}
  BY ViewsAssumption DEF ViewInit
<1>2. Dividable(Default) /\ Default \in Query
  BY <1>1 DEF Default, Query, Dividable, Paged
<1>3. ASSUME NEW n \in {1, 3} PROVE Dividable([Default EXCEPT !.q = "x", !.page = n])
  <2>1. /\ [Default EXCEPT !.q = "x", !.page = n] \in Query
        /\ [Default EXCEPT !.q = "x", !.page = n].size = Default.size
    BY <1>2, SearchedIs
  <2> QED BY <1>2, <2>1 DEF Dividable
<1>4. Dividable(query) /\ mount = query /\ chosen = query
  BY <1>2, <1>3 DEF ViewInit
<1> QED BY <1>4, ViewsAssumption DEF ViewInit, ViewInv, ViewTypeOK, Dividable

\* What the user chooses is of the type of a query.
LEMMA ChosenStep == ASSUME ViewInv, ViewNext PROVE chosen' \in Query
<1>1. chosen \in Query /\ view.size \in Sizes \cup {0}
  BY ViewsAssumption DEF ViewInv, ViewTypeOK
<1>2. CASE SetFilter
  BY <1>1, <1>2 DEF SetFilter, Query, Filters
<1>3. CASE ToggleSort
  BY <1>1, <1>3 DEF ToggleSort, Query
<1>4. CASE SetPage \/ Clamp
  <2>1. some \in Nat /\ all \in Nat /\ (Paged => query.size \in Nat \ {0})
    BY ViewsAssumption DEF ViewInv, ViewTypeOK, Dividable, Query
  <2>2. Paged => PageCount(query) \in Nat \ {0}
    BY <2>1, PageCountIs, ViewsAssumption DEF ViewInv, ViewTypeOK
  <2>3. Paged => PageWindow(query.page, PageCount(query)) \subseteq Nat \ {0}
    BY <2>2, PageWindowIs
  <2>4. \E n \in Nat \ {0} : chosen' = [chosen EXCEPT !.page = n]
    BY <1>4, <2>2, <2>3 DEF SetPage, Clamp
  <2> QED BY <1>1, <2>4 DEF Query
<1>5. CASE SetPageSize
  <2>1. PICK n \in Sizes : chosen' = [chosen EXCEPT !.page = 1, !.size = n]
    BY <1>5 DEF SetPageSize
  <2>2. chosen \in Query /\ 1 \in Nat \ {0}
    BY <1>1
  <2> QED BY <2>1, <2>2, SizedIs
<1>6. CASE RowsChange
  BY <1>1, <1>6 DEF RowsChange
<1>7. CASE Reload
  <2>1. view.size \in Sizes \cup {0}
    BY <1>1
  <2>2. Default \in Query
    BY <2>1 DEF Default, Query
  <2> QED BY <1>1, <1>7, <2>2 DEF Reload
<1> QED BY <1>2, <1>3, <1>4, <1>5, <1>6, <1>7 DEF ViewNext

\* The query keeps its type, and a size to be divided by.
LEMMA QueryStep == ASSUME ViewInv, ViewNext PROVE Dividable(query)' /\ Dividable(mount)'
<1>1. Dividable(query) /\ Dividable(mount) /\ view' = view
  BY DEF ViewInv, ViewNext, SetFilter, ToggleSort, SetPage, SetPageSize, Clamp, RowsChange, Reload
<1>2. \A q : q = query' /\ Dividable(q) => Dividable(query)'
  BY <1>1 DEF Dividable, Paged, Query
<1>3. \A q : q = mount' /\ Dividable(q) => Dividable(mount)'
  BY <1>1 DEF Dividable, Paged, Query
<1>4. CASE SetFilter
  <2>1. PICK f \in Filters, v \in {"", "x"} : query' = Set(query, f, v)
    BY <1>4 DEF SetFilter, Filters
  <2>2. Dividable(Set(query, f, v)) /\ mount' = mount
    BY <1>1, <1>4, SetIs DEF SetFilter
  <2> QED BY <1>1, <1>2, <1>3, <2>1, <2>2
<1>5. CASE ToggleSort
  <2>1. \/ \E flip \in {"asc", "desc"} : query' = Set(query, "dir", flip)
        \/ \E key \in {"name", "age"} : query' = Set(Set(query, "sort", key), "dir", "asc")
    BY <1>5 DEF ToggleSort
  <2>2. Dividable(query') /\ mount' = mount
    <3>1. \A flip \in {"asc", "desc"} : Dividable(Set(query, "dir", flip))
      BY <1>1, SetIs
    <3>2. \A key \in {"name", "age"} : Dividable(Set(query, "sort", key))
      BY <1>1, SetIs
    <3>3. \A key \in {"name", "age"} : Dividable(Set(Set(query, "sort", key), "dir", "asc"))
      BY <1>1, <3>2, SetIs
    <3> QED BY <1>5, <2>1, <3>1, <3>3 DEF ToggleSort
  <2> QED BY <1>1, <1>2, <1>3, <2>2
<1>6. CASE SetPage \/ Clamp
  <2>1. some \in Nat /\ all \in Nat /\ (Paged => query.size \in Nat \ {0})
    BY <1>1, ViewsAssumption DEF ViewInv, ViewTypeOK, Dividable, Query
  <2>2. Paged => PageCount(query) \in Nat \ {0}
    BY <2>1, PageCountIs
  <2>3. Paged => PageWindow(query.page, PageCount(query)) \subseteq Nat \ {0}
    BY <2>2, PageWindowIs
  <2>4. PICK n \in Nat \ {0} : query' = Set(query, "page", n)
    BY <1>6, <2>2, <2>3 DEF SetPage, Clamp
  <2>5. Dividable(Set(query, "page", n)) /\ mount' = mount
    BY <1>1, <1>6, SetIs DEF SetPage, Clamp
  <2> QED BY <1>1, <1>2, <1>3, <2>4, <2>5
<1>7. CASE SetPageSize
  <2>1. PICK n \in Sizes : query' = Set(Set(query, "page", 1), "size", n)
    BY <1>7 DEF SetPageSize, Sized
  <2>4. 1 \in Nat \ {0}
    OBVIOUS
  <2>2. Dividable(Set(query, "page", 1))
    BY <1>1, <2>4, SetIs
  <2>3. Dividable(Set(Set(query, "page", 1), "size", n)) /\ mount' = mount
    BY <1>1, <1>7, <2>2, SetIs DEF SetPageSize
  <2> QED BY <1>1, <1>2, <1>3, <2>1, <2>3
<1>8. CASE RowsChange
  BY <1>1, <1>2, <1>3, <1>8 DEF RowsChange
<1>9. CASE Reload
  <2>1. view.size \in Sizes \cup {0}
    BY ViewsAssumption DEF ViewInv, ViewTypeOK
  <2>2. Dividable(Default)
    BY <2>1 DEF Default, Query, Dividable, Paged
  <2> QED BY <1>1, <1>2, <1>3, <1>9, <2>2 DEF Reload
<1> QED BY <1>4, <1>5, <1>6, <1>7, <1>8, <1>9 DEF ViewNext

LEMMA ViewStep == ASSUME ViewInv, [ViewNext]_viewVars PROVE ViewInv'
<1>1. CASE ViewNext
  <2>1. view' = view /\ (turns' = turns \/ (turns < MaxTurns /\ turns' = turns + 1))
    BY <1>1 DEF ViewNext, SetFilter, ToggleSort, SetPage, SetPageSize, Clamp, RowsChange,
                Reload, Turn
  <2>3. /\ view' \in Views /\ turns' \in 0 .. MaxTurns
    BY <2>1, ViewsAssumption DEF ViewInv, ViewTypeOK
  <2>4. \/ UNCHANGED <<all, some>>
        \/ all' \in Counts /\ some' \in Counts /\ some' <= all'
    BY <1>1 DEF ViewNext, SetFilter, ToggleSort, SetPage, SetPageSize, Clamp, RowsChange, Reload
  <2>2. query' \in Query /\ mount' \in Query /\ chosen' \in Query
    BY <1>1, QueryStep, ChosenStep DEF Dividable, Query
  <2> QED BY <1>1, <2>2, <2>3, <2>4, QueryStep DEF ViewInv, ViewTypeOK
<1>2. CASE UNCHANGED viewVars
  BY <1>2 DEF viewVars, ViewInv, ViewTypeOK, Dividable, Paged
<1> QED BY <1>1, <1>2

LEMMA ViewInductive == ViewSpec => []ViewInv
BY ViewStart, ViewStep, PTL DEF ViewSpec

\* A view keeps its types: it never asks for a page before the first, nor
\* divides by a size of zero.
THEOREM ViewTypeCorrect == ViewSpec => []ViewTypeOK
<1>1. ViewInv => ViewTypeOK
  BY DEF ViewInv
<1> QED BY <1>1, ViewInductive, PTL

LEMMA ViewWindowLeads == ViewInv => WindowLeads
<1> SUFFICES ASSUME ViewInv, Paged, query.page <= PageCount(query) PROVE
        LET offered == PageWindow(query.page, PageCount(query)) IN
          /\ {1, query.page, PageCount(query)} \subseteq offered
          /\ \A n \in {query.page - 1, query.page + 1} \ {0, PageCount(query) + 1} : n \in offered
          /\ offered \subseteq 1 .. PageCount(query)
  BY DEF WindowLeads
<1>1. some \in Nat /\ all \in Nat /\ query.size \in Nat \ {0} /\ query.page \in Nat \ {0}
  BY ViewsAssumption DEF ViewInv, ViewTypeOK, Dividable, Query
<1>2. PageCount(query) \in Nat \ {0}
  BY <1>1, PageCountIs
<1> QED BY <1>1, <1>2 DEF PageWindow

\* The footer leads to the first and the last page and to both neighbours, and
\* nowhere else than to pages there are, for any rows and any page size.
THEOREM TheWindowLeads == ViewSpec => []WindowLeads
BY ViewWindowLeads, ViewInductive, PTL

LEMMA ViewSizeTakes == ASSUME ViewInv, SetPageSize PROVE query'.size = chosen'.size
<1>1. PICK n \in Sizes : /\ query' = Set(Set(query, "page", 1), "size", n)
                          /\ chosen' = [chosen EXCEPT !.page = 1, !.size = n]
  BY DEF SetPageSize, Sized
<1>5. 1 \in Nat \ {0}
  OBVIOUS
<1>2. Dividable(Set(query, "page", 1)) /\ Dividable(mount)
  BY <1>5, SetIs DEF ViewInv
<1>3. query'.size = n
  BY <1>1, <1>2, SetIs
<1>4. chosen'.size = n
  BY <1>1 DEF ViewInv, ViewTypeOK, Query
<1> QED BY <1>3, <1>4

\* The size the user chooses is the size that is shown.
THEOREM TheSizeTakes == ViewSpec => SizeTakes
BY ViewSizeTakes, ViewInductive, PTL DEF SizeTakes, ViewSpec

-----------------------------------------------------------------------------
(* The three together. *)

\* The console behaves as each of its parts, with the others standing still: so
\* every theorem about one of them is one about the console.
THEOREM ConsoleIsItsParts == ConsoleSpec => Spec /\ ViewSpec /\ BulkSpec
<1>1. ConsoleInit => Init /\ ViewInit /\ BulkInit
  BY DEF ConsoleInit, PageOff, ViewOff, BulkOff
<1>2. [ConsoleNext]_<<part, PageVars, ViewVars, bulkVars>>
        => [Next]_vars /\ [ViewNext]_viewVars /\ [BulkNext]_bulkVars
  BY DEF ConsoleNext, PageVars, ViewVars, vars, viewVars, bulkVars
<1> QED BY <1>1, <1>2, PTL DEF ConsoleSpec, Spec, ViewSpec, BulkSpec

\* The console keeps its types, whatever its pages, views and rows are.
THEOREM ConsoleTypeCorrect == ConsoleSpec => []ConsoleTypeOK
<1>1. TypeOK /\ ViewTypeOK /\ BulkTypeOK => ConsoleTypeOK
  BY DEF ConsoleTypeOK
<1> QED BY <1>1, ConsoleIsItsParts, PageTypeCorrect, ViewTypeCorrect, BulkTypeCorrect, PTL

\* And it keeps every promise of its pages, its tables and its bar.
THEOREM ConsoleKeepsItsPromises ==
  ConsoleSpec =>
    /\ [](EmptyExplained /\ SettlesOnScope /\ WritesShown /\ OnceEach /\ LocksReleased)
    /\ [](WindowLeads /\ NoIdleWorker /\ ToastTrue)
    /\ NeverBack /\ SizeTakes /\ TriesEachOnce
BY ConsoleIsItsParts, EmptinessIsExplained, ItSettlesOnScope, WritesAreShown, SentOnceEach,
   LocksAreReleased, TheWindowLeads, WorkersKeepBusy, TheToastIsTrue, ItNeverGoesBack,
   TheSizeTakes, BarTriesEachOnce, PTL
=============================================================================
