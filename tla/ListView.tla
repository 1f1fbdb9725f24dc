------------------------------ MODULE ListView ------------------------------
(***************************************************************************)
(* The view of a table: search, label filter, sort and page.  In most      *)
(* pages it lives in the query of the URL (web/src/hooks/useUrlState.ts),  *)
(* written by setters that are made once, when the page is mounted         *)
(* (useCallback), and so write into the query of that moment.              *)
(***************************************************************************)
EXTENDS Naturals, Sequences

CONSTANTS Views,      \* the views of the pages, as Widgets!View makes them
          Counts,     \* how many rows there may be
          Sizes,      \* the page sizes offered
          MaxTurns    \* things that happen to a view

\* A view that is paged begins with one of the sizes offered.
ASSUME ViewsAssumption ==
  /\ \A v \in Views : v.size \in Sizes \cup {0}
  /\ Sizes \subseteq Nat \ {0} /\ Counts \subseteq Nat /\ MaxTurns \in Nat

VARIABLES view,     \* the view of this run
          query,    \* the values of its parameters, in the URL or in local state
          mount,    \* the query when the page was mounted
          chosen,   \* what the user last chose for each of them
          all, some,\* rows of the list; rows that pass the filters
          turns

viewVars == <<view, query, mount, chosen, all, some, turns>>

Filters == {"q", "labels"}
Default == [q |-> "", labels |-> "", sort |-> "name", dir |-> "asc",
            page |-> 1, size |-> view.size]
Query == [q : {"", "x"}, labels : {"", "x"}, sort : {"name", "age"}, dir : {"asc", "desc"},
          page : Nat \ {0}, size : Sizes \cup {0}]

ViewTypeOK ==
  /\ view \in Views /\ turns \in 0 .. MaxTurns
  /\ query \in Query /\ mount \in Query /\ chosen \in Query
  /\ all \in Counts /\ some \in Counts /\ some <= all

\* usePagination
Total(q) == IF \E f \in Filters : q[f] # "" THEN some ELSE all
\* A fault: Math.max(1, ...) is dropped.
PageCountUnclamped(q) == (Total(q) + q.size - 1) \div q.size

PageCount(q) ==
  IF Total(q) = 0 THEN 1 ELSE (Total(q) + q.size - 1) \div q.size
Paged == view.size # 0

\* A fault: the window begins at the page itself.
PageWindowAhead(page, count) ==
  IF count <= 7 THEN 1 .. count
  ELSE {1, count} \cup {n \in 2 .. count - 1 : n >= page /\ n <= page + 1}

\* pageWindow: the page numbers the footer offers.
PageWindow(page, count) ==
  IF count <= 7 THEN 1 .. count
  ELSE {1, count} \cup {n \in 2 .. count - 1 : n + 1 >= page /\ n <= page + 1}

-----------------------------------------------------------------------------
\* useMaybeUrlState's setter: q after p is set to v.
Set(q, p, v) == IF view.url THEN [mount EXCEPT ![p] = v] ELSE [q EXCEPT ![p] = v]

Turn == turns < MaxTurns /\ turns' = turns + 1

SetFilter ==
  /\ Turn
  /\ \E f \in IF view.labels THEN Filters ELSE {"q"}, v \in {"", "x"} :
       /\ v # query[f]
       /\ query' = Set(query, f, v) /\ chosen' = [chosen EXCEPT ![f] = v]
  /\ UNCHANGED <<view, mount, all, some>>

\* toggleSort
ToggleSort ==
  /\ Turn
  /\ \E key \in {"name", "age"} :
       IF key = query.sort
       THEN LET flip == IF query.dir = "asc" THEN "desc" ELSE "asc" IN
              /\ query' = Set(query, "dir", flip)
              /\ chosen' = [chosen EXCEPT !.dir = flip]
       ELSE /\ query' = Set(Set(query, "sort", key), "dir", "asc")
            /\ chosen' = [chosen EXCEPT !.sort = key, !.dir = "asc"]
  /\ UNCHANGED <<view, mount, all, some>>

SetPage ==
  /\ Turn /\ Paged /\ Total(query) > 0
  /\ \E n \in PageWindow(query.page, PageCount(query)) :
       query' = Set(query, "page", n) /\ chosen' = [chosen EXCEPT !.page = n]
  /\ UNCHANGED <<view, mount, all, some>>

\* A fault: first the size, then the page.
SizedFirst(q, n) == Set(Set(q, "size", n), "page", 1)

\* setPageSize: first the page, then the size.
Sized(q, n) == Set(Set(q, "page", 1), "size", n)

SetPageSize ==
  /\ Turn /\ Paged /\ Total(query) > 0
  /\ \E n \in Sizes :
       query' = Sized(query, n) /\ chosen' = [chosen EXCEPT !.page = 1, !.size = n]
  /\ UNCHANGED <<view, mount, all, some>>

\* The effect that brings the page back when there are fewer rows.
Clamp ==
  /\ Paged /\ query.page > PageCount(query)
  /\ query' = Set(query, "page", PageCount(query))
  /\ chosen' = [chosen EXCEPT !.page = PageCount(query)]
  /\ UNCHANGED <<view, mount, all, some, turns>>

\* The list changes.
RowsChange ==
  /\ Turn
  /\ all' \in Counts /\ some' \in Counts /\ some' <= all'
  /\ UNCHANGED <<view, query, mount, chosen>>

\* A reload, or coming back by a copied link: the URL stays, local state does not.
Reload ==
  /\ Turn
  /\ LET kept == IF view.url THEN query ELSE Default IN
       query' = kept /\ mount' = kept /\ chosen' = IF view.url THEN chosen ELSE Default
  /\ UNCHANGED <<view, all, some>>

ViewInit ==
  /\ view \in Views /\ turns = 0
  /\ all \in Counts /\ some \in Counts /\ some <= all
  /\ \/ query = Default
     \/ view.url /\ \E v \in {"x"}, n \in {1, 3} : query = [Default EXCEPT !.q = v, !.page = n]
  /\ mount = query /\ chosen = query

ViewNext == SetFilter \/ ToggleSort \/ SetPage \/ SetPageSize \/ Clamp \/ RowsChange \/ Reload

ViewSpec == ViewInit /\ [][ViewNext]_viewVars

-----------------------------------------------------------------------------
\* The size the user chooses is the size that is shown, although both setters
\* of setPageSize write into the same old query.
SizeTakes == [][SetPageSize => query'.size = chosen'.size]_viewVars

\* The footer leads everywhere: it offers the first and the last page, this
\* one, its neighbours, and no page that does not exist.
WindowLeads ==
  Paged /\ query.page <= PageCount(query) =>
    LET offered == PageWindow(query.page, PageCount(query)) IN
      /\ {1, query.page, PageCount(query)} \subseteq offered
      /\ \A n \in {query.page - 1, query.page + 1} \ {0, PageCount(query) + 1} : n \in offered
      /\ offered \subseteq 1 .. PageCount(query)

\* What was searched for, by text or label, stays in force until it is changed,
\* whatever other control is used after it: "writes merge into the existing
\* params", useUrlState.ts.
ShowsChosen == \A f \in Filters : query[f] = chosen[f]
=============================================================================
