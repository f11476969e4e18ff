--------------------------- MODULE BoardListener ---------------------------
(***************************************************************************)
(* The thread that keeps the mirror of a board up to date,                 *)
(* src/miner/modules/l2_miner/board_listener.py.  Round after round it     *)
(* looks at both ends of the mirror and at the pages of the board, and     *)
(* starts update threads that add the new documents above the newest one   *)
(* and the old ones below the oldest one, each from new to old.  Articles  *)
(* are posted and deleted meanwhile, update threads of several rounds      *)
(* overlap, and stop() has to catch them all.                              *)
(*                                                                         *)
(* The storage is seen through its interface: newest_doc, oldest_doc and   *)
(* add_doc, whose test for the file and whose write are two steps.  The    *)
(* binary search for a page is replaced by what it promises, PageOf.       *)
(***************************************************************************)
EXTENDS Integers, Sequences, SequencesExt, FiniteSets, FiniteSetsExt

CONSTANTS
  Threads,       \* bound: the update threads that may run at one time
  MaxArt,        \* bound: the articles ever posted
  MaxId,         \* bound: the largest document id
  PageSize,      \* articles on a page of the board
  TightPages,    \* the number of pages beyond which the estimate is rough (50)
  InitialPosted, \* articles on the board when the listener starts
  MaxDeleted,    \* bound: articles ever deleted
  MaxFails,      \* bound: requests that fail
  Quiet,         \* whether the board holds still while a round looks at it
  MayStop        \* bound: whether stop() may be called in this instance

Ids == 0..MaxId
Arts == 1..MaxArt

ASSUME BoundsAssumption ==
  /\ MaxId \in Nat /\ MaxArt \in Nat /\ PageSize \in Nat \ {0} /\ TightPages \in Nat
  /\ InitialPosted \in 1..MaxArt /\ InitialPosted <= MaxId + 1

\* A url is the number get_url_compare_num gives it, doubled: article k is
\* 2k + 1, and the placeholder made from its url 2k ("- 0.5").
Article(k) == 2 * k + 1
Low == 1
Bad == 0
Missing == -1

\* prev_url[: -len('.X.XXX.html')] + '_x'.  Of a placeholder one digit is left
\* (Low), and of less than that a text get_url_compare_num cannot read (Bad).
Placeholder(u) ==
  IF u > Low /\ u % 2 = 1 THEN u - 1
  ELSE IF u > Low THEN Low
  ELSE Bad
Urls == {Article(k) : k \in Arts} \cup {2 * k : k \in Arts} \cup {Low, Bad}

VARIABLES
  posted,   \* the articles 1..posted were posted
  deleted,  \* those of them that were deleted
  mirror,   \* url of the document in each file of the storage
  maxId,    \* _max_id of the storage
  ln,       \* the thread of the listener
  thr,      \* the update threads
  listed,   \* _update_threads
  died,     \* _died_threads
  stopFlag, \* _stop_flag
  stopper,  \* where stop() is
  fails,    \* requests that have failed
  mixedUp   \* history: whether something happened that mixes up ids and urls

boardVars == <<posted, deleted, mixedUp>>
mirrorVars == <<mirror, maxId>>
listVars == <<listed, died>>
stopVars == <<stopFlag, stopper>>
vars == <<boardVars, mirrorVars, ln, thr, listVars, stopVars, fails>>

-----------------------------------------------------------------------------
\* The board.

Online == {Article(k) : k \in (1..posted) \ deleted}
NumPages == (posted + PageSize - 1) \div PageSize

\* Fault: the last article of a page is overlooked.
PageUrlsShort(p) == Online \cap {Article(k) : k \in ((p - 1) * PageSize + 1)..(p * PageSize - 1)}

\* _get_page_urls(p)
PageUrls(p) == Online \cap {Article(k) : k \in ((p - 1) * PageSize + 1)..(p * PageSize)}

\* The pages _get_page_contain_url_num(num, maxPage) may answer with.
PageOf(num, maxPage) ==
  {p \in 1..maxPage :
     \A q \in 1..maxPage : \A u \in PageUrls(q) :
       (q < p => u < num) /\ (q > p => u > num)}

\* _estimate_num_urls_between, once the page was found to be p.
NumUrls(num, p, maxPage) ==
  Cardinality({u \in PageUrls(p) : u > num})
    + IF maxPage - p > TightPages
      THEN (maxPage - p) * PageSize
      ELSE Cardinality(UNION {PageUrls(q) : q \in (p + 1)..maxPage})

\* Fault: the oldest document itself is among those to fill in.
OlderOrEqual(p, num) == {u \in PageUrls(p) : u <= num}

\* The urls of page p that are older than num.
OlderOnPage(p, num) == {u \in PageUrls(p) : u < num}

\* With Quiet the board changes only while the listener sleeps.
MayChange == Quiet => ln.pc = "sleep"

\* A round that has read the newest document and has not yet the urls of the
\* newest page: articles that come or go meanwhile make the count wrong.
Looking == ln.pc \in {"newest", "oldest", "pages", "estimate", "fetch"}
Mirrored(u) == \E i \in Ids : mirror[i] = u

Post ==
  /\ posted < MaxArt
  /\ MayChange
  /\ posted' = posted + 1
  /\ mixedUp' = (mixedUp \/ Looking)
  /\ UNCHANGED <<deleted, mirrorVars, ln, thr, listVars, stopVars, fails>>

\* The ids of the documents above a gap count the articles that belong into it:
\* one that is deleted before it is mirrored leaves an id too many.
Delete(k) ==
  /\ k \in (1..posted) \ deleted
  /\ Cardinality(deleted) < MaxDeleted
  /\ MayChange
  /\ deleted' = deleted \cup {k}
  /\ mixedUp' = (mixedUp \/ Looking \/ ~Mirrored(Article(k)))
  /\ UNCHANGED <<posted, mirrorVars, ln, thr, listVars, stopVars, fails>>

-----------------------------------------------------------------------------
\* Update threads.  pc: "next" in the generator, "adding" between add_doc's test
\* for the file and its write, "dying" after an exception, "done" at the end.
IsFile(i) == mirror[i] # Missing

NoThread == [pc |-> "done", id |-> -1, min |-> -1, page |-> 0, urls |-> {},
             prev |-> Bad, url |-> Bad, stop |-> FALSE]

\* list.remove(t), if t is there: it is never there twice.
Without(s, t) ==
  IF t \in ToSet(s) THEN RemoveAt(s, CHOOSE k \in DOMAIN s : s[k] = t) ELSE s

\* Fault: a thread is started whether stop() was called or not.
AlwaysStarts == TRUE

\* with self._sync_lock: if not self._stop_flag
MayStart == ~stopFlag

\* _start_update_thread(id, min, page, urls, prev).  A slot of a finished thread
\* is used again: joining a finished thread returns at once.
StartThread(id, min, page, urls, prev) ==
  IF ~MayStart
  THEN UNCHANGED <<thr, listed>>
  ELSE \E t \in Threads :
         /\ thr[t].pc = "done" /\ t \notin died
         /\ thr' = [thr EXCEPT ![t] = [NoThread EXCEPT !.pc = "next", !.id = id, !.min = min,
                                         !.page = page, !.urls = urls, !.prev = prev]]
         /\ listed' = Append(Without(listed, t), t)

\* Fault: the page is counted down twice.
PageBeforeSkips(t) ==
  /\ thr[t].pc = "next" /\ thr[t].urls = {} /\ thr[t].page > 1
  /\ LET urls == PageUrls(thr[t].page - 2)
     IN  /\ thr' = [thr EXCEPT ![t] = [@ EXCEPT !.page = thr[t].page - 2, !.urls = urls]]
         /\ mixedUp' = (mixedUp \/ (thr[t].prev # Bad /\ \E u \in urls : thr[t].prev <= u))
  /\ UNCHANGED <<posted, deleted, mirrorVars, ln, listVars, stopVars, fails>>

\* The generator has run out of urls and turns to the page before.  A thread that
\* fills in old documents starts with urls of the right page but counts down from
\* the last one (_run_fill_old_docs), so the page may have a url that is not older.
PageBefore(t) ==
  /\ thr[t].pc = "next" /\ thr[t].urls = {} /\ thr[t].page > 1
  /\ LET urls == PageUrls(thr[t].page - 1)
     IN  /\ thr' = [thr EXCEPT ![t] = [@ EXCEPT !.page = thr[t].page - 1, !.urls = urls]]
         /\ mixedUp' = (mixedUp \/ (thr[t].prev # Bad /\ \E u \in urls : thr[t].prev <= u))
  /\ UNCHANGED <<posted, deleted, mirrorVars, ln, listVars, stopVars, fails>>

\* The request for that page raises.
PageFails(t) ==
  /\ thr[t].pc = "next" /\ thr[t].urls = {} /\ thr[t].page > 1
  /\ fails < MaxFails
  /\ fails' = fails + 1
  /\ thr' = [thr EXCEPT ![t] = [@ EXCEPT !.pc = "dying"]]
  /\ UNCHANGED <<boardVars, mirrorVars, ln, listVars, stopVars>>

\* The generator's next url, a placeholder when there is none above min, and the
\* first half of add_doc: the thread ends if the document is there.
NextUrl(t) ==
  /\ thr[t].pc = "next" /\ (thr[t].urls # {} \/ thr[t].page <= 1)
  /\ LET c == thr[t]
         curr == Max(c.urls)
         isNew == c.urls # {} /\ curr > c.min
     IN  thr' = [thr EXCEPT ![t] =
           IF IsFile(c.id)
           THEN NoThread
           ELSE [c EXCEPT !.pc = "adding",
                          !.urls = IF c.urls = {} THEN {} ELSE c.urls \ {curr},
                          !.prev = IF isNew THEN curr ELSE c.prev,
                          !.url = IF isNew THEN curr ELSE Placeholder(c.prev)]]
  /\ UNCHANGED <<boardVars, mirrorVars, ln, listVars, stopVars, fails>>

\* The second half of add_doc, and the tests of run's loop.  Another thread may have
\* added the document since the first half.
AddDoc(t) ==
  /\ thr[t].pc = "adding"
  /\ LET c == thr[t]
     IN  /\ mirror' = [mirror EXCEPT ![c.id] = c.url]
         /\ maxId' = IF c.id > maxId THEN c.id ELSE maxId
         /\ thr' = [thr EXCEPT ![t] =
              IF c.id = 0 \/ c.stop THEN NoThread
              ELSE [c EXCEPT !.pc = "next", !.id = c.id - 1]]
  /\ UNCHANGED <<boardVars, ln, listVars, stopVars, fails>>

\* Fault: the callback needs the lock that stop() holds while it joins.
DiedCallbackBlocked(t) ==
  /\ thr[t].pc = "dying"
  /\ ~stopFlag
  /\ died' = died \cup {t}
  /\ listed' = Without(listed, t)
  /\ thr' = [thr EXCEPT ![t] = NoThread]
  /\ UNCHANGED <<boardVars, mirrorVars, ln, stopVars, fails>>

\* _update_thread_died_callback, and the end of the thread
DiedCallback(t) ==
  /\ thr[t].pc = "dying"
  /\ IF stopFlag THEN UNCHANGED listVars
     ELSE /\ died' = died \cup {t}
          /\ listed' = Without(listed, t)
  /\ thr' = [thr EXCEPT ![t] = NoThread]
  /\ UNCHANGED <<boardVars, mirrorVars, ln, stopVars, fails>>

-----------------------------------------------------------------------------
\* The listener.  A round: newest_doc, oldest_doc, the number of pages, the
\* estimate, the thread for the new documents, the thread for the old ones.
NewRound == [pc |-> "top", id |-> -1, num |-> -1, top |-> -1, old |-> -1,
             oldUrl |-> Bad, maxPage |-> 0, n |-> 0]

ListenerGoesTo(l) ==
  /\ ln' = l
  /\ UNCHANGED <<boardVars, mirrorVars, thr, listVars, stopVars, fails>>

ReadNewest ==
  /\ ln.pc = "top"
  /\ ListenerGoesTo(
       IF stopFlag THEN [ln EXCEPT !.pc = "end"]
       ELSE [NewRound EXCEPT !.pc = "newest", !.id = maxId,
                             !.num = IF maxId >= 0 THEN mirror[maxId] ELSE -1])

\* oldest_doc reads _max_id once ...
ReadTop ==
  /\ ln.pc = "newest"
  /\ ListenerGoesTo([ln EXCEPT !.pc = "oldest", !.top = maxId])

\* Fault: no gap is ever seen.
ReadOldestNone ==
  /\ ln.pc = "oldest"
  /\ ListenerGoesTo([ln EXCEPT !.pc = "pages"])

\* ... and walks down from it to the first gap.
ReadOldest ==
  /\ ln.pc = "oldest"
  /\ LET gaps == {i \in 0..ln.top : ~IsFile(i)}
     IN  ListenerGoesTo(
           IF gaps = {} THEN [ln EXCEPT !.pc = "pages"]
           ELSE [ln EXCEPT !.pc = "pages", !.old = Max(gaps) + 1,
                           !.oldUrl = mirror[Max(gaps) + 1]])

GetMaxPageIdx ==
  /\ ln.pc = "pages"
  /\ ListenerGoesTo([ln EXCEPT !.pc = "estimate", !.maxPage = NumPages])

\* A url that cannot be read raises, and the round is over.  The rough estimate may
\* count too many: then the thread has ids left for which there are no urls.
Estimate ==
  /\ ln.pc = "estimate"
  /\ \/ ln.num = Bad /\ ListenerGoesTo([ln EXCEPT !.pc = "sleep"])
     \/ /\ ln.num # Bad
        /\ \E p \in PageOf(ln.num, ln.maxPage) :
             LET n == NumUrls(ln.num, p, ln.maxPage)
             IN  /\ ln' = [ln EXCEPT !.pc = IF n > 0 THEN "fetch" ELSE "fill", !.n = n]
                 /\ mixedUp' = (mixedUp \/ ln.maxPage - p > TightPages)
        /\ UNCHANGED <<posted, deleted, mirrorVars, thr, listVars, stopVars, fails>>

\* The newest page is read again and its urls go to the thread.
FetchNewDocs ==
  /\ ln.pc = "fetch"
  /\ ln.id + ln.n <= MaxId
  /\ StartThread(ln.id + ln.n, ln.num, ln.maxPage, PageUrls(ln.maxPage), Bad)
  /\ ln' = [ln EXCEPT !.pc = "fill"]
  /\ UNCHANGED <<boardVars, mirrorVars, died, stopVars, fails>>

\* 'Great, the mirror is complete.', or a url that cannot be read.
NothingToFill ==
  /\ ln.pc = "fill"
  /\ ln.old = -1 \/ ln.oldUrl = Bad
  /\ ListenerGoesTo([ln EXCEPT !.pc = IF ln.old = -1 THEN "complete" ELSE "sleep"])

FillOldDocs ==
  /\ ln.pc = "fill"
  /\ ln.old # -1 /\ ln.oldUrl # Bad
  /\ \E p \in PageOf(ln.oldUrl, ln.maxPage) :
       StartThread(ln.old - 1, -1, ln.maxPage, OlderOnPage(p, ln.oldUrl), ln.oldUrl)
  /\ ln' = [ln EXCEPT !.pc = "sleep"]
  /\ UNCHANGED <<boardVars, mirrorVars, died, stopVars, fails>>

\* A request of the round raises.
RoundFails ==
  /\ ln.pc \in {"pages", "estimate", "fetch"} \/ (ln.pc = "fill" /\ ln.old # -1)
  /\ fails < MaxFails
  /\ fails' = fails + 1
  /\ ln' = [ln EXCEPT !.pc = "sleep"]
  /\ UNCHANGED <<boardVars, mirrorVars, thr, listVars, stopVars>>

\* sleep_if polls _clean_and_check_should_continue.
Sleep ==
  /\ ln.pc \in {"sleep", "complete"}
  /\ IF stopFlag
     THEN ln' = [ln EXCEPT !.pc = "end"] /\ died' = died
     ELSE ln' = NewRound /\ died' = {}
  /\ UNCHANGED <<boardVars, mirrorVars, thr, listed, stopVars, fails>>

-----------------------------------------------------------------------------
\* stop(): stopper is the position in _update_threads of the thread it joins,
\* then Len(listed) + 1 while it cleans up, and -1 once it has returned.
TellToStop(k) ==
  thr' = IF k <= Len(listed) THEN [thr EXCEPT ![listed[k]].stop = TRUE] ELSE thr

Stop ==
  /\ MayStop
  /\ stopper = 0
  /\ stopFlag' = TRUE
  /\ stopper' = 1
  /\ TellToStop(1)
  /\ UNCHANGED <<boardVars, mirrorVars, ln, listVars, fails>>

Joined ==
  /\ stopper \in 1..Len(listed)
  /\ thr[listed[stopper]].pc = "done"
  /\ stopper' = stopper + 1
  /\ TellToStop(stopper + 1)
  /\ UNCHANGED <<boardVars, mirrorVars, ln, listVars, stopFlag, fails>>

StopReturns ==
  /\ stopper = Len(listed) + 1
  /\ stopper' = -1
  /\ listed' = <<>>
  /\ died' = {}
  /\ UNCHANGED <<boardVars, mirrorVars, ln, thr, stopFlag, fails>>

-----------------------------------------------------------------------------
\* The board may have been mirrored down to some article before, when the
\* process was stopped.
Init ==
  /\ posted = InitialPosted
  /\ deleted = {}
  /\ \E lo \in 0..InitialPosted :
       /\ mirror = [i \in Ids |-> IF i \in lo..(InitialPosted - 1) THEN Article(i + 1) ELSE Missing]
       /\ maxId = IF lo = InitialPosted THEN -1 ELSE InitialPosted - 1
  /\ ln = NewRound
  /\ thr = [t \in Threads |-> NoThread]
  /\ listed = <<>> /\ died = {}
  /\ stopFlag = FALSE /\ stopper = 0
  /\ fails = 0 /\ mixedUp = FALSE

ListenerStep ==
  \/ ReadNewest \/ ReadTop \/ ReadOldest \/ GetMaxPageIdx \/ Estimate
  \/ FetchNewDocs \/ NothingToFill \/ FillOldDocs \/ Sleep

ThreadStep(t) == PageBefore(t) \/ NextUrl(t) \/ AddDoc(t) \/ DiedCallback(t)

Next ==
  \/ ListenerStep \/ RoundFails
  \/ \E t \in Threads : ThreadStep(t) \/ PageFails(t)
  \/ Stop \/ Joined \/ StopReturns
  \/ Post
  \/ \E k \in Arts : Delete(k)

Spec == Init /\ [][Next]_vars

\* Threads are scheduled; nobody has to post, delete, fail or stop.
FairSpec ==
  /\ Spec
  /\ WF_vars(ListenerStep)
  /\ \A t \in Threads : WF_vars(ThreadStep(t))
  /\ WF_vars(Joined \/ StopReturns)

-----------------------------------------------------------------------------
\* Urls grow with the ids, and no article is mirrored under two: what
\* Storage.get_doc_by_url's search relies on.  It holds however the threads of
\* several rounds overlap, whichever of them die, and whatever is deleted that was
\* mirrored already, as long as none of the things that mixedUp remembers happens
\* (board_listener.py:75).
MirrorInOrder ==
  ~mixedUp =>
    \A i, j \in Ids :
      i < j /\ IsFile(i) /\ IsFile(j) => mirror[i] < mirror[j]

\* And between the documents of two consecutive ids there is no article.
NothingSkipped ==
  ~mixedUp =>
    \A i \in Ids \ {MaxId} :
      IsFile(i) /\ IsFile(i + 1)
        => \A u \in Online : ~ (mirror[i] < u /\ u < mirror[i + 1])

\* Once stop() has returned no update thread runs, and none is started by the
\* round that may still be under way.
NoThreadAfterStop == stopper = -1 => \A t \in Threads : thr[t].pc = "done"

\* stop() returns and the listener ends, however many threads have to be joined.
StopEnds == stopFlag ~> (stopper = -1 /\ ln.pc = "end")

\* Every article on the board is mirrored at last, although requests fail and
\* threads die on the way, if the ids do not get mixed up.
CatchesUp == <>[](stopFlag \/ mixedUp \/ \A u \in Online : Mirrored(u))

\* 'Great, the mirror is complete.' (board_listener.py:167): every article up to
\* the newest document the round saw is mirrored, as long as the ids did not get
\* mixed up.
CompleteIsComplete ==
  ~mixedUp /\ ln.pc = "complete" => \A u \in Online : u <= ln.num => Mirrored(u)
=============================================================================
