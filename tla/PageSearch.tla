----------------------------- MODULE PageSearch -----------------------------
(***************************************************************************)
(* BoardListener._get_page_contain_url_num: the binary search for the page *)
(* of a board on which an article belongs, one request per step, while     *)
(* articles are deleted.  A page whose articles are all deleted tells      *)
(* nothing; the search then looks at a random page of what is left.        *)
(*                                                                         *)
(* Urls are the numbers get_url_compare_num gives them.  BoardListener     *)
(* uses the search through its result, PageOf there; the names here differ *)
(* from those there, so that BoardListenerProofs can speak of both.        *)
(***************************************************************************)
EXTENDS Integers

CONSTANTS
  MaxPage,     \* max_page_idx
  Nums,        \* the numbers urls may have
  MaxDeletes   \* bound: articles deleted during a search

ASSUME MaxPageAssumption == MaxPage \in Nat \ {0}
ASSUME NumsAssumption == Nums \subseteq Int
ASSUME MaxDeletesAssumption == MaxDeletes \in Nat

Pages == 1..MaxPage

VARIABLES
  pages,   \* the urls on each page of the board
  num,     \* url_num
  lower, upper, mid,
  pc,      \* "loop" before a round, "look" at page mid, "read" the result, "done"
  deletes

searchVars == <<pages, num, lower, upper, mid, pc, deletes>>

\* Articles are on the pages in the order of their numbers; two of the same
\* second have the same number and may be on different pages.
InOrder(ps) ==
  \A p, q \in Pages : p < q => \A u \in ps[p], v \in ps[q] : u <= v

\* url_num < get_url_compare_num(urls[0]), the oldest url of the page
Before(p) == \A u \in pages[p] : num < u

\* get_url_compare_num(urls[-1]) < url_num, the newest url of the page
After(p) == \A u \in pages[p] : u < num

Loop ==
  /\ pc = "loop"
  /\ IF lower < upper
     THEN mid' = (lower + upper) \div 2 /\ pc' = "look"
     ELSE mid' = mid /\ pc' = "read"
  /\ UNCHANGED <<pages, num, lower, upper, deletes>>

\* Page mid is empty and at an end of the range: the range shrinks.
DropEnd ==
  /\ pc = "look" /\ pages[mid] = {}
  /\ mid \in {lower, upper}
  /\ lower' = IF mid = lower THEN lower + 1 ELSE lower
  /\ upper' = IF mid = lower THEN upper ELSE upper - 1
  /\ pc' = "loop"
  /\ UNCHANGED <<pages, num, mid, deletes>>

\* mid = random.randint(lower, upper)
TryAnother(m) ==
  /\ pc = "look" /\ pages[mid] = {}
  /\ mid \notin {lower, upper}
  /\ m \in lower..upper
  /\ mid' = m
  /\ UNCHANGED <<pages, num, lower, upper, pc, deletes>>

\* Fault: page mid is dropped although url_num is on it.
NarrowTooFar ==
  /\ pc = "look" /\ pages[mid] # {}
  /\ lower' = IF Before(mid) THEN lower ELSE mid + 1
  /\ upper' = IF Before(mid) THEN mid - 1 ELSE upper
  /\ pc' = "loop"
  /\ UNCHANGED <<pages, num, mid, deletes>>

\* Fault: a page that is too new stays in the range.
NarrowKeepsMid ==
  /\ pc = "look" /\ pages[mid] # {}
  /\ lower' = IF After(mid) THEN mid ELSE lower
  /\ upper' = IF Before(mid) THEN mid - 1 ELSE upper
  /\ pc' = "loop"
  /\ UNCHANGED <<pages, num, mid, deletes>>

Narrow ==
  /\ pc = "look" /\ pages[mid] # {}
  /\ lower' = IF Before(mid) THEN lower ELSE IF After(mid) THEN mid + 1 ELSE mid
  /\ upper' = IF Before(mid) THEN mid - 1 ELSE IF After(mid) THEN upper ELSE mid
  /\ pc' = "loop"
  /\ UNCHANGED <<pages, num, mid, deletes>>

\* The page found is requested again; a request for a page that does not exist
\* is repeated for ever.
ReadResult ==
  /\ pc = "read"
  /\ lower \in Pages
  /\ pc' = "done"
  /\ UNCHANGED <<pages, num, lower, upper, mid, deletes>>

\* Someone deletes an article of the board.
DeleteUrl(p) ==
  /\ deletes < MaxDeletes
  /\ deletes' = deletes + 1
  /\ \E u \in pages[p] : pages' = [pages EXCEPT ![p] = @ \ {u}]
  /\ UNCHANGED <<num, lower, upper, mid, pc>>

BoardInit ==
  /\ \E place \in [Nums -> Pages \cup {0}], twins \in SUBSET Nums :
       pages = [p \in Pages |-> {u \in Nums : place[u] = p \/ (u \in twins /\ place[u] = p - 1)}]
  /\ InOrder(pages)
  /\ num \in Nums
  /\ deletes = 0

WholeRange == lower = 1 /\ upper = MaxPage /\ mid = 1 /\ pc = "loop"

SearchInit == BoardInit /\ WholeRange

SearchStep == Loop \/ DropEnd \/ Narrow \/ ReadResult

SearchNext ==
  \/ SearchStep
  \/ \E m \in Pages : TryAnother(m)
  \/ \E p \in Pages : DeleteUrl(p)

SearchSpec == SearchInit /\ [][SearchNext]_searchVars

\* The thread is scheduled, and a random number comes up in the long run.
FairSearch ==
  /\ SearchSpec
  /\ WF_searchVars(SearchStep \/ \E m \in Pages : TryAnother(m))
  /\ \A m \in Pages : SF_searchVars(TryAnother(m))

-----------------------------------------------------------------------------
TypeOK ==
  /\ pages \in [Pages -> SUBSET Nums]
  /\ num \in Nums
  /\ lower \in 1..(MaxPage + 1) /\ upper \in 0..MaxPage /\ mid \in Pages
  /\ pc \in {"loop", "look", "read", "done"}
  /\ deletes \in 0..MaxDeletes

\* The answer: every article older than url_num is on the page found or before
\* it, every newer one on it or after it.  The estimate of the number of new
\* articles and the thread that fills in the old ones count on both.
FoundPage ==
  pc = "done" =>
    \A p \in Pages : \A u \in pages[p] :
      /\ u < num => p <= lower
      /\ num < u => lower <= p

\* The search comes to an end on every board whose last page keeps an article
\* that is not older than url_num, whatever is deleted elsewhere.  Without such
\* an article a random page may be the last one, the search then ends beyond the
\* board, and the request for that page is repeated for ever.
SearchEnds == [](\E u \in pages[MaxPage] : num <= u) => <>(pc = "done")
=============================================================================
