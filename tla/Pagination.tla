----------------------------- MODULE Pagination -----------------------------
(***************************************************************************)
(* Reading a long list page by page while it changes.  The server answers  *)
(* the limit rows below a cursor in descending order of id and fetches one *)
(* more row to know whether there is a further page; ids are ULIDs, so new *)
(* rows come first.  The console keeps the pages it has fetched, shows one *)
(* of them, and refetches all of them one after another.                   *)
(***************************************************************************)
EXTENDS Naturals, FiniteSetsExt, Sequences

CONSTANTS
  MaxId,      \* ids in the order in which rows are made
  Limit       \* rows of a page

ASSUME PaginationAssumption == MaxId \in Nat /\ Limit \in Nat \ {0}

None == 0     \* no cursor

VARIABLES
  rows,       \* the rows that exist and match the filter
  newest,     \* the id made last
  pages,      \* the pages in the query cache
  fresh,      \* those of a refetch under way, or of the first fetch
  index,      \* the page that is shown
  fetching,   \* "no", "next" or "all"
  mishap      \* history: a fetch failed or was given up or found fewer
              \* pages, and the page that is shown is not in the cache since

pageVars == <<rows, newest, pages, fresh, index, fetching, mishap>>

-----------------------------------------------------------------------------
Id == 1..MaxId

(* A walk through the list: its pages, and the rows that were there all    *)
(* the time since its first page was asked for.                            *)
Page == [items : SUBSET Id, next : Id \cup {None}]
Walk == [list : Seq(Page), steady : SUBSET Id]
NoWalk == [list |-> <<>>, steady |-> {}]

PageTypeOK ==
  /\ rows \subseteq Id /\ newest \in 0..MaxId
  /\ pages \in Walk /\ fresh \in Walk
  /\ index \in Nat \ {0}
  /\ fetching \in {"no", "next", "all"}
  /\ mishap \in BOOLEAN

PageInit ==
  /\ newest \in 0..MaxId
  /\ rows = 1..newest
  /\ pages = NoWalk /\ fresh = NoWalk
  /\ index = 1
  /\ fetching = "no"
  /\ mishap = FALSE

-----------------------------------------------------------------------------
(* The server                                                              *)

Below(cursor) == {i \in rows : cursor = None \/ i < cursor}

First(S, n) == {i \in S : Cardinality({j \in S : j > i}) < n}

\* Mutant: the cursor is the row fetched to see whether there is more.
PageUpToExtra(cursor) ==
  LET found == First(Below(cursor), Limit + 1) IN
  IF Cardinality(found) > Limit
  THEN [items |-> First(found, Limit), next |-> Min(found)]
  ELSE [items |-> found, next |-> None]

ToCursorPage(cursor) ==
  LET found == First(Below(cursor), Limit + 1)
      items == First(found, Limit) IN
  [items |-> items,
   next  |-> IF Cardinality(found) > Limit THEN Min(items) ELSE None]

-----------------------------------------------------------------------------
(* The console                                                             *)

Last(walk) == walk.list[Len(walk.list)]
NextCursor(walk) == IF walk.list = <<>> THEN None ELSE Last(walk).next
MorePages(walk) == walk.list = <<>> \/ Last(walk).next # None

(* The walk with one more page; a new walk starts with what is there now.  *)
Extended(walk) ==
  [list   |-> Append(walk.list, ToCursorPage(NextCursor(walk))),
   steady |-> IF walk.list = <<>> THEN rows ELSE walk.steady]

(* A page is shown that is not in the cache of a list that is.              *)
Missing == pages.list # <<>> /\ index > Len(pages.list)

(* A mishap is forgotten when the page that is shown is in the cache again. *)
Recall(loss) == mishap' = (Missing' /\ (mishap \/ loss))

(* The first fetch, and a refetch of a stale list after a remount or a      *)
(* reconnect: only if nothing is fetched.                                  *)
Refetch ==
  /\ fetching = "no"
  /\ fetching' = "all"
  /\ fresh' = NoWalk
  /\ UNCHANGED <<rows, newest, pages, index, mishap>>

(* A mutation has succeeded, perhaps of a page that was left meanwhile: the *)
(* list is refetched, and whatever was being fetched is given up.          *)
Invalidate ==
  /\ pages.list # <<>>
  /\ fetching' = "all"
  /\ fresh' = NoWalk
  /\ UNCHANGED <<rows, newest, pages, index>>
  /\ Recall(fetching = "next")

(* As many pages as there were, or as there are.                           *)
RefetchPage ==
  /\ fetching = "all"
  /\ LET walk == Extended(fresh) IN
     IF MorePages(walk) /\ Len(walk.list) < Len(pages.list)
     THEN fresh' = walk /\ UNCHANGED <<pages, fetching>>
     ELSE pages' = walk /\ fresh' = NoWalk /\ fetching' = "no"
  /\ UNCHANGED <<rows, newest, index>>
  /\ Recall(Len(pages'.list) < Len(pages.list))

FetchNextPage ==
  /\ fetching = "next"
  /\ pages' = Extended(pages)
  /\ fetching' = "no"
  /\ UNCHANGED <<rows, newest, fresh, index>>
  /\ Recall(FALSE)

FetchFails ==
  /\ fetching # "no"
  /\ fetching' = "no" /\ fresh' = NoWalk
  /\ UNCHANGED <<rows, newest, pages, index>>
  /\ Recall(TRUE)

\* Mutant: the next page is shown whether or not there is one.
GoToAnyPage ==
  /\ fetching # "next" /\ pages.list # <<>> /\ index < MaxId + 2
  /\ index' = index + 1
  /\ UNCHANGED <<rows, newest, pages, fresh, fetching>>
  /\ Recall(FALSE)

(* Asking for a further page gives up a refetch under way.                 *)
GoToNextPage ==
  /\ fetching # "next" /\ pages.list # <<>>
  /\ index < MaxId + 2          \* bound, for the pages that never come
  /\ \/ /\ index + 1 <= Len(pages.list)
        /\ UNCHANGED <<fresh, fetching>>
     \/ /\ index + 1 > Len(pages.list) /\ MorePages(pages)
        /\ fetching' = "next" /\ fresh' = NoWalk
  /\ index' = index + 1
  /\ UNCHANGED <<rows, newest, pages>>
  /\ Recall(FALSE)

GoToPreviousPage ==
  /\ index > 1
  /\ index' = index - 1
  /\ UNCHANGED <<rows, newest, pages, fresh, fetching>>
  /\ Recall(FALSE)

-----------------------------------------------------------------------------
(* The list changes: rows are made, and rows go, come back or stop and     *)
(* start to match the filter.                                              *)

RowMade ==
  /\ newest < MaxId
  /\ newest' = newest + 1
  /\ rows' = rows \cup {newest'}
  /\ UNCHANGED <<pages, fresh, index, fetching, mishap>>

RowGone(i) ==
  /\ i \in rows
  /\ rows' = rows \ {i}
  /\ pages' = [pages EXCEPT !.steady = @ \ {i}]
  /\ fresh' = [fresh EXCEPT !.steady = @ \ {i}]
  /\ UNCHANGED <<newest, index, fetching, mishap>>

RowMatches(i) ==
  /\ i \in (1..newest) \ rows
  /\ rows' = rows \cup {i}
  /\ UNCHANGED <<newest, pages, fresh, index, fetching, mishap>>

PageNext ==
  \/ Refetch \/ Invalidate \/ RefetchPage \/ FetchNextPage \/ FetchFails
  \/ GoToNextPage \/ GoToPreviousPage
  \/ RowMade
  \/ \E i \in Id : RowGone(i) \/ RowMatches(i)

PageSpec == PageInit /\ [][PageNext]_pageVars

-----------------------------------------------------------------------------
(* However the list changes between two fetches, its order is kept over    *)
(* the pages, so no row is on two of them.                                 *)
InOrder ==
  \A walk \in {pages, fresh} :
    \A m, n \in 1..Len(walk.list) : m < n =>
      \A i \in walk.list[m].items, j \in walk.list[n].items : i > j

(* A row that was there all the time is not lost between two pages: it is  *)
(* on one that was fetched or still to come.                               *)
NothingSkipped ==
  \A walk \in {pages, fresh} : walk.list # <<>> =>
    \A i \in walk.steady :
      \/ \E n \in 1..Len(walk.list) : i \in walk.list[n].items
      \/ i < Last(walk).next

(* A walk goes on below the rows it has fetched, and counts as steady only  *)
(* rows that still exist.                                                  *)
GoesOnBelow ==
  \A walk \in {pages, fresh} :
    /\ walk.steady \subseteq rows
    /\ walk.list # <<>> /\ Last(walk).next # None =>
         \A n \in 1..Len(walk.list) :
           \A i \in walk.list[n].items : Last(walk).next <= i

(* A page is fetched only if the one before it says that there is one.     *)
FetchesOnlyMore ==
  /\ fetching = "all" => MorePages(fresh)
  /\ fetching = "next" => pages.list # <<>> /\ MorePages(pages)
  /\ pages.list = <<>> => index = 1

PagesConsistent ==
  /\ PageTypeOK
  /\ InOrder
  /\ NothingSkipped
  /\ GoesOnBelow
  /\ FetchesOnlyMore

(* A page that is shown is in the cache or on its way; or it has been       *)
(* missing since a fetch failed, a refetch found fewer pages or a mutation  *)
(* gave up the fetch of that very page.  Then the list says "loading"       *)
(* although nothing is, until the administrator turns a page.              *)
ShownOrComing ==
  Missing => (index = Len(pages.list) + 1 /\ fetching = "next") \/ mishap
=============================================================================
