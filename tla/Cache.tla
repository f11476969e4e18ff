------------------------------- MODULE Cache -------------------------------
(***************************************************************************)
(* The in-memory document cache of a board in the second generation miner, *)
(* src/miner/modules/l2_miner/cache.py: a sliding window of documents      *)
(* [min_id, max_id] with an index from urls to ids, filled by the threads  *)
(* that serve queries and flushed by the thread that periodically          *)
(* re-fetches the newest documents.                                        *)
(*                                                                         *)
(* Every critical section of cache_lock is one action.  Between two of     *)
(* them a thread holds a document it read from the storage earlier, and    *)
(* any other thread may run.                                               *)
(*                                                                         *)
(* The storage is seen through its interface only: store[i] is 0 while     *)
(* document i is not available, and otherwise the version of its page that *)
(* is stored.  Storage.tla is the component.                               *)
(***************************************************************************)
EXTENDS Integers, Sequences, Functions

CONSTANTS
  Readers,    \* threads that serve queries
  MaxId,      \* bound: the largest document id the board reaches
  MaxVer,     \* bound: how often the content of a document changes
  MayStop,    \* bound: whether the backend may be shut down in this instance
  CacheSize,  \* cache_size of the board configuration
  Urls,       \* the urls a query may name
  Url,        \* Url[i]: the url of document i
  Num         \* Num[u]: url_num_getter(u), the time stamp in the url

Ids == 0..MaxId

ASSUME MaxIdAssumption == MaxId \in Nat
ASSUME MaxVerAssumption == MaxVer \in Nat \ {0}
ASSUME CacheSizeAssumption == CacheSize \in Nat
ASSUME UrlAssumption == Url \in [Ids -> Urls]
ASSUME NumAssumption == Num \in [Urls -> Int]

\* The urls of distinct documents differ.  The board page gives every article
\* its own url; deleted articles may share a placeholder (board_listener.py).
UrlsAreUnique == IsInjective(Url)

\* No two of the urls carry the same time stamp.
NumsAreUnique == IsInjective(Num)

Doc == [idid: Ids, ver: 1..MaxVer]
NoDoc == [idid |-> -1, ver |-> 0]     \* None in a slot of the cache
UrlOf(d) == Url[d.idid]

VARIABLES
  docs,        \* _docs: the slots of the window, oldest first
  minId,       \* _min_id
  maxId,       \* _max_id
  urlToId,     \* _url_to_id
  store,       \* the storage: version of each document, 0 when unavailable
  storeMax,    \* _max_id of the storage
  storageStop, \* _stop_flag of the storage
  rd,          \* the query in progress of each reader
  upd,         \* where the update thread is
  updStop,     \* _stop_flag of the update thread
  uCur,        \* idid of the loop in update_after_time
  uMin,        \* min_id in update_after_time
  uMax         \* max_id in update_after_time

cacheVars == <<docs, minId, maxId, urlToId>>
storageVars == <<store, storeMax, storageStop>>
updVars == <<upd, updStop, uCur, uMin, uMax>>
vars == <<cacheVars, storageVars, rd, updVars>>

-----------------------------------------------------------------------------
\* The window and the index.

InWindow(i) == minId <= i /\ i <= maxId
Slot(i) == i - minId + 1
Cached(i) == InWindow(i) /\ docs[Slot(i)] # NoDoc

\* The positions of lo..hi at which _clean_cache_entry raises KeyError when
\* the slots are cleaned in order: the url is not in the index, or a slot
\* cleaned before had the same url.
CleanFails(lo, hi) ==
  {p \in lo..hi :
     /\ docs[p] # NoDoc
     /\ \/ UrlOf(docs[p]) \notin DOMAIN urlToId
        \/ \E q \in lo..(p - 1) : docs[q] # NoDoc /\ UrlOf(docs[q]) = UrlOf(docs[p])}

\* The slot at which the loop over lo..hi stops with the KeyError.
FirstFailure(lo, hi, p) ==
  p \in CleanFails(lo, hi) /\ \A q \in CleanFails(lo, hi) : p <= q

CleanDocs(lo, hi) ==
  [p \in 1..Len(docs) |-> IF p \in lo..hi THEN NoDoc ELSE docs[p]]

\* Fault: the index keeps the urls of the cleaned slots.
CleanUrlsForgets(lo, hi) == urlToId

CleanUrls(lo, hi) ==
  Restrict(urlToId,
           {u \in DOMAIN urlToId :
              ~ \E p \in lo..hi : docs[p] # NoDoc /\ UrlOf(docs[p]) = u})

\* Fault: the index holds the slot instead of the id.
IndexWithSlot(index, d) ==
  [u \in DOMAIN index \cup {UrlOf(d)} |-> IF u = UrlOf(d) THEN d.idid - minId ELSE index[u]]

\* self._docs[idid - self._min_id] = doc; self._url_to_id[doc.url] = idid
IndexWith(index, d) ==
  [u \in DOMAIN index \cup {UrlOf(d)} |-> IF u = UrlOf(d) THEN d.idid ELSE index[u]]

\* _cache_doc_if_ok of a document newer than the window that the window cannot
\* reach by growing: the cache restarts with that document alone.
ResetTo(d) ==
  /\ docs' = <<d>>
  /\ minId' = d.idid
  /\ maxId' = d.idid
  /\ urlToId' = IndexWith(<<>>, d)

\* How many of the oldest slots _shrink_cache_size drops for document d.
NumDropped(d) ==
  LET size == CacheSize - (d.idid - maxId)
  IN  IF Len(docs) > size THEN Len(docs) - size ELSE 0

\* _cache_doc_if_ok of a newer document within reach: the window drops its
\* oldest slots, grows up to d.idid and takes d in the last slot.
GrowUpTo(d) ==
  LET n == NumDropped(d)
      len == Len(docs) - n + (d.idid - maxId)
  IN  /\ CleanFails(1, n) = {}
      /\ docs' = [p \in 1..len |-> IF p = len THEN d
                                   ELSE IF p + n <= Len(docs) THEN docs[p + n]
                                   ELSE NoDoc]
      /\ minId' = minId + n
      /\ maxId' = d.idid
      /\ urlToId' = IndexWith(CleanUrls(1, n), d)

\* Fault: the slot that raised is counted as dropped, but still there.
GrowFailsMiscounts(d) ==
  \E p \in 1..NumDropped(d) :
    /\ FirstFailure(1, NumDropped(d), p)
    /\ docs' = SubSeq(docs, p, Len(docs))
    /\ minId' = minId + p
    /\ maxId' = maxId
    /\ urlToId' = CleanUrls(1, p - 1)

\* The same when _clean_cache_entry raises: the slots before the culprit are
\* gone, the document is not cached and the caller sees the KeyError.
GrowFails(d) ==
  \E p \in 1..NumDropped(d) :
    /\ FirstFailure(1, NumDropped(d), p)
    /\ docs' = SubSeq(docs, p, Len(docs))
    /\ minId' = minId + p - 1
    /\ maxId' = maxId
    /\ urlToId' = CleanUrls(1, p - 1)

\* Slots put in front of the window for document d.
GrownDown(d) ==
  [p \in 1..(Len(docs) + minId - d.idid) |->
     IF p = 1 THEN d
     ELSE IF p <= minId - d.idid THEN NoDoc
     ELSE docs[p - (minId - d.idid)]]

\* Fault: _min_id stays where it was.
GrowDownKeepsMin(d) ==
  docs' = GrownDown(d) /\ urlToId' = IndexWith(urlToId, d) /\ UNCHANGED <<minId, maxId>>

\* _cache_doc_if_ok of a document below the window that still fits in it.
GrowDownTo(d) ==
  /\ docs' = GrownDown(d)
  /\ minId' = d.idid
  /\ maxId' = maxId
  /\ urlToId' = IndexWith(urlToId, d)

\* _cache_doc_if_ok of a document whose id is in the window.
FillSlot(d) ==
  /\ docs' = [docs EXCEPT ![Slot(d.idid)] = d]
  /\ urlToId' = IndexWith(urlToId, d)
  /\ UNCHANGED <<minId, maxId>>

Newer(d) == maxId < d.idid
\* Fault: an off-by-one throws the window away when it could just be shifted.
ReachableTooShort(d) == d.idid - maxId < CacheSize - 1

Reachable(d) == d.idid - maxId < CacheSize
FitsBelow(d) == d.idid < minId /\ maxId - d.idid + 1 <= CacheSize

\* _cache_doc_if_ok(d) returns normally.
CacheDocIfOk(d) ==
  \/ Newer(d) /\ ~Reachable(d) /\ ResetTo(d)
  \/ Newer(d) /\ Reachable(d) /\ GrowUpTo(d)
  \/ ~Newer(d) /\ FitsBelow(d) /\ GrowDownTo(d)
  \/ ~Newer(d) /\ InWindow(d.idid) /\ FillSlot(d)
  \/ ~Newer(d) /\ ~FitsBelow(d) /\ ~InWindow(d.idid) /\ UNCHANGED cacheVars

-----------------------------------------------------------------------------
\* Queries.  A reader runs one at a time:
\*   "id"   get_doc_real_data(arg), get_url_by_id(arg), or one turn of the loop of
\*          yield_doc_meta_data_reversed_from_id, which is at document arg
\*   "url"  get_id_by_url(arg)
\* pc is "read" before storage.get_doc_by_id looks for the file and "wait"
\* once it waits for it, "search" in storage.get_doc_by_url with the loop at
\* cur, "cache" when it holds the document got and is about to cache it,
\* "done" with the answer ans, "failed" when the cache raised the KeyError of a
\* slot, "raised" when the storage gave no document.

Idle == [pc |-> "idle", op |-> "none", arg |-> -1, cur |-> -1, got |-> NoDoc, ans |-> -1]

Query(pc, op, arg, cur, got, ans) ==
  [pc |-> pc, op |-> op, arg |-> arg, cur |-> cur, got |-> got, ans |-> ans]

\* The first critical section of _safe_get_doc_by_id.
AskById(r, i) ==
  /\ rd[r].pc = "idle"
  /\ rd' = [rd EXCEPT ![r] =
              IF Cached(i)
              THEN Query("done", "id", i, -1, NoDoc, docs[Slot(i)].idid)
              ELSE Query("read", "id", i, i, NoDoc, -1)]
  /\ UNCHANGED <<cacheVars, storageVars, updVars>>

\* The caller has its answer (or the exception); the thread is free again.
Return(r) ==
  /\ rd[r].pc \in {"done", "failed", "raised"}
  /\ rd' = [rd EXCEPT ![r] = Idle]
  /\ UNCHANGED <<cacheVars, storageVars, updVars>>

Loaded(i) == [idid |-> i, ver |-> store[i]]

\* storage.get_doc_by_id: the file is there at once, or it is waited for.
ReadStorage(r) ==
  /\ rd[r].pc = "read"
  /\ rd' = [rd EXCEPT ![r] =
              IF store[rd[r].cur] = 0
              THEN [@ EXCEPT !.pc = "wait"]
              ELSE [@ EXCEPT !.pc = "cache", !.got = Loaded(rd[r].cur)]]
  /\ UNCHANGED <<cacheVars, storageVars, updVars>>

\* Fault: a waiting reader does not look at the stop flag.
WaitOverDeaf(r) ==
  /\ rd[r].pc = "wait"
  /\ store[rd[r].cur] > 0
  /\ rd' = [rd EXCEPT ![r] = [@ EXCEPT !.pc = "cache", !.got = Loaded(rd[r].cur)]]
  /\ UNCHANGED <<cacheVars, storageVars, updVars>>

\* A waiting reader wakes (notify_all or wait(1) timing out), looks at the stop
\* flag first and at the file after it.  None has no meta_data: caching it raises.
WaitOver(r) ==
  /\ rd[r].pc = "wait"
  /\ storageStop \/ store[rd[r].cur] > 0
  /\ rd' = [rd EXCEPT ![r] =
              IF storageStop
              THEN [Idle EXCEPT !.pc = "raised"]
              ELSE [@ EXCEPT !.pc = "cache", !.got = Loaded(rd[r].cur)]]
  /\ UNCHANGED <<cacheVars, storageVars, updVars>>

\* The file is there, but cannot be unpickled: it has no end.
LoadRaises(r) ==
  /\ rd[r].pc \in {"read", "wait", "search"}
  /\ rd[r].cur \in Ids /\ store[rd[r].cur] > 0
  /\ rd' = [rd EXCEPT ![r] = [Idle EXCEPT !.pc = "raised"]]
  /\ UNCHANGED <<cacheVars, storageVars, updVars>>

\* The first critical section of get_id_by_url.
AskByUrl(r, u) ==
  /\ rd[r].pc = "idle"
  /\ rd' = [rd EXCEPT ![r] =
              IF u \in DOMAIN urlToId
              THEN Query("done", "url", u, -1, NoDoc, urlToId[u])
              ELSE Query("search", "url", u, storeMax, NoDoc, -1)]
  /\ UNCHANGED <<cacheVars, storageVars, updVars>>

\* One turn of the loop of storage.get_doc_by_url.
SearchStep(r) ==
  /\ rd[r].pc = "search"
  /\ LET i == rd[r].cur
         u == rd[r].arg
         there == i \in Ids /\ store[i] > 0
     IN  rd' = [rd EXCEPT ![r] =
           IF i < 0 \/ (there /\ Num[Url[i]] < Num[u])
           THEN [@ EXCEPT !.pc = "done", !.cur = -1]
           ELSE IF there /\ Num[Url[i]] = Num[u]
           THEN [@ EXCEPT !.pc = "cache", !.got = Loaded(i)]
           ELSE [@ EXCEPT !.cur = i - 1]]
  /\ UNCHANGED <<cacheVars, storageVars, updVars>>

\* The second critical section: the document is cached and answered, or the
\* KeyError of a slot being dropped reaches the caller.
CacheDoc(r) ==
  /\ rd[r].pc = "cache"
  /\ LET d == rd[r].got
     IN  \/ /\ CacheDocIfOk(d)
            /\ rd' = [rd EXCEPT ![r] =
                        [@ EXCEPT !.pc = "done", !.cur = -1, !.got = NoDoc, !.ans = d.idid]]
         \/ /\ Newer(d) /\ Reachable(d) /\ GrowFails(d)
            /\ rd' = [rd EXCEPT ![r] = [@ EXCEPT !.pc = "failed", !.cur = -1, !.got = NoDoc]]
  /\ UNCHANGED <<storageVars, updVars>>

-----------------------------------------------------------------------------
\* The storage around the cache: the board listener adds documents, newest and
\* oldest ends alike, and shutdown raises the stop flag.

\* Two threads that fill the same gap may both find a document missing; the later
\* one writes over the other's what it has read, whatever is stored by then.
StorageAdd(i) ==
  /\ \E v \in 1..MaxVer :
       /\ store[i] = 0 => v = 1
       /\ store' = [store EXCEPT ![i] = v]
  /\ storeMax' = IF i > storeMax THEN i ELSE storeMax
  /\ UNCHANGED <<cacheVars, storageStop, rd, updVars>>

\* RealBackend.destroy joins the update thread (stop_auto_update) before this.
NotifyStop ==
  /\ upd \in {"stopped", "dead", "raised"}
  /\ storageStop' = TRUE
  /\ UNCHANGED <<cacheVars, store, storeMax, rd, updVars>>

-----------------------------------------------------------------------------
\* The update thread: _CacheUpdateNotifier.run calling _update_nearest_docs.

RequestStop ==
  /\ MayStop
  /\ updStop' = TRUE
  /\ UNCHANGED <<cacheVars, storageVars, rd, upd, uCur, uMin, uMax>>

\* Fault: the thread sleeps through the request.
SleepStepDeaf ==
  /\ upd = "sleep"
  /\ upd' = "due"
  /\ UNCHANGED <<cacheVars, storageVars, rd, updStop, uCur, uMin, uMax>>

\* sleep_if polls the flag once a second; after the last poll a round is due.
SleepStep ==
  /\ upd = "sleep"
  /\ upd' = IF updStop THEN "stopped" ELSE "due"
  /\ UNCHANGED <<cacheVars, storageVars, rd, updStop, uCur, uMin, uMax>>

UpdateStart ==
  /\ upd = "due"
  /\ upd' = "walk"
  /\ uCur' = storeMax
  /\ uMin' = storeMax
  /\ uMax' = storeMax
  /\ UNCHANGED <<cacheVars, storageVars, rd, updStop>>

SkipMissing ==
  /\ upd = "walk"
  /\ uCur \in Ids
  /\ store[uCur] = 0
  /\ uCur' = uCur - 1
  /\ UNCHANGED <<cacheVars, storageVars, rd, upd, updStop, uMin, uMax>>

\* _update_doc: the page is fetched again, changed or not.  Storage.tla says when
\* what was read is older than what an add has written in the meantime.
Refetch ==
  /\ upd = "walk"
  /\ uCur \in Ids
  /\ store[uCur] > 0
  /\ \E v \in 1..MaxVer : store' = [store EXCEPT ![uCur] = v]
  /\ uMin' = uCur
  /\ uCur' = uCur - 1
  /\ UNCHANGED <<cacheVars, storeMax, storageStop, rd, upd, updStop, uMax>>

\* A file without an end, a page that cannot be fetched or pickled: the
\* exception ends the thread, and what the walk has re-fetched is not flushed.
WalkRaises ==
  /\ upd = "walk"
  /\ uCur \in Ids
  /\ store[uCur] > 0
  /\ upd' = "raised"
  /\ uCur' = -1 /\ uMin' = -1 /\ uMax' = -1
  /\ UNCHANGED <<cacheVars, storageVars, rd, updStop>>

\* The loop ends below document 0 or at a document posted before last_time.
WalkEnds ==
  /\ upd = "walk"
  /\ uCur \in Ids => store[uCur] > 0
  /\ upd' = "flush"
  /\ uCur' = -1
  /\ UNCHANGED <<cacheVars, storageVars, rd, updStop, uMin, uMax>>

\* Positions of the window that the flush visits, from FlushLo to FlushHi.
FlushLo == Slot(IF minId >= uMin THEN minId ELSE uMin)
\* Fault: the last document of the range is left out.
FlushHiExclusive == Slot(IF maxId <= uMax THEN maxId ELSE uMax) - 1

FlushHi == Slot(IF maxId <= uMax THEN maxId ELSE uMax)

\* The flush under cache_lock; a KeyError ends the thread half way.
Flush ==
  /\ upd = "flush"
  /\ \/ /\ CleanFails(FlushLo, FlushHi) = {}
        /\ docs' = CleanDocs(FlushLo, FlushHi)
        /\ urlToId' = CleanUrls(FlushLo, FlushHi)
        /\ upd' = "sleep"
     \/ \E p \in FlushLo..FlushHi :
          /\ FirstFailure(FlushLo, FlushHi, p)
          /\ docs' = CleanDocs(FlushLo, p - 1)
          /\ urlToId' = CleanUrls(FlushLo, p - 1)
          /\ upd' = "dead"
  /\ uCur' = -1 /\ uMin' = -1 /\ uMax' = -1
  /\ UNCHANGED <<minId, maxId, storageVars, rd, updStop>>

-----------------------------------------------------------------------------
Init ==
  /\ docs = <<>> /\ minId = 0 /\ maxId = -1 /\ urlToId = <<>>
  /\ store = [i \in Ids |-> 0] /\ storeMax = -1 /\ storageStop = FALSE
  /\ rd = [r \in Readers |-> Idle]
  /\ upd = "sleep" /\ updStop = FALSE
  /\ uCur = -1 /\ uMin = -1 /\ uMax = -1

ReaderStep(r) ==
  \/ Return(r) \/ ReadStorage(r) \/ WaitOver(r)
  \/ LoadRaises(r) \/ SearchStep(r) \/ CacheDoc(r)

Ask(r) ==
  \/ \E i \in Ids : AskById(r, i)
  \/ \E u \in Urls : AskByUrl(r, u)

UpdStep ==
  \/ SleepStep \/ UpdateStart \/ SkipMissing \/ Refetch \/ WalkRaises \/ WalkEnds \/ Flush

Next ==
  \/ \E r \in Readers : Ask(r) \/ ReaderStep(r)
  \/ UpdStep
  \/ RequestStop
  \/ NotifyStop
  \/ \E i \in Ids : StorageAdd(i)

Spec == Init /\ [][Next]_vars

\* The threads of the process are scheduled; nobody has to ask or to stop.
FairSpec == Spec /\ WF_vars(UpdStep) /\ \A r \in Readers : WF_vars(ReaderStep(r))

-----------------------------------------------------------------------------
Queries ==
  [pc: {"idle", "read", "wait", "search", "cache", "done", "failed", "raised"},
   op: {"none", "id", "url"},
   arg: Ids \cup Urls \cup {-1}, cur: Ids \cup {-1},
   got: Doc \cup {NoDoc}, ans: Ids \cup {-1}]

TypeOK ==
  /\ docs \in Seq(Doc \cup {NoDoc})
  /\ minId \in Ids
  /\ maxId \in Ids \cup {-1}
  /\ DOMAIN urlToId \subseteq Urls
  /\ \A u \in DOMAIN urlToId : urlToId[u] \in Ids
  /\ store \in [Ids -> 0..MaxVer] /\ storeMax \in Ids \cup {-1}
  /\ storageStop \in BOOLEAN /\ updStop \in BOOLEAN
  /\ rd \in [Readers -> Queries]
  /\ upd \in {"sleep", "due", "walk", "flush", "dead", "raised", "stopped"}
  /\ uCur \in Ids \cup {-1} /\ uMin \in Ids \cup {-1} /\ uMax \in Ids \cup {-1}

\* The slots are those of [min_id, max_id], at most cache_size of them (one,
\* when cache_size is 0), and a document sits in the slot of its own id
\* (cache.py: every resize in _cache_doc_if_ok and _shrink_cache_size).
WindowInv ==
  /\ Len(docs) = maxId - minId + 1
  /\ Len(docs) <= (IF CacheSize = 0 THEN 1 ELSE CacheSize)
  /\ \A p \in 1..Len(docs) : docs[p] = NoDoc \/ docs[p].idid = minId + p - 1

\* When urls are unique the index holds exactly the cached documents, under
\* their urls.  This is what keeps "del self._url_to_id[doc.url]" from raising.
IndexInv ==
  UrlsAreUnique =>
    /\ \A u \in DOMAIN urlToId :
         \E p \in 1..Len(docs) :
           docs[p] # NoDoc /\ UrlOf(docs[p]) = u /\ docs[p].idid = urlToId[u]
    /\ \A p \in 1..Len(docs) :
         docs[p] # NoDoc =>
           UrlOf(docs[p]) \in DOMAIN urlToId /\ urlToId[UrlOf(docs[p])] = docs[p].idid

\* With unique urls _clean_cache_entry never raises: neither the update thread
\* nor a query dies of a KeyError.
NoKeyError ==
  UrlsAreUnique => upd # "dead" /\ \A r \in Readers : rd[r].pc # "failed"

\* A query by id is answered with the document of that id, whatever the window
\* did between its lookup and its answer (_safe_get_doc_by_id).
AnswersTheId ==
  \A r \in Readers :
    rd[r].pc = "done" /\ rd[r].op = "id" => rd[r].ans = rd[r].arg

\* A query by url is answered with the document at that url or with none
\* ("Gets the document's identity by url.", backend_interface.py:102), as long as
\* no two articles were posted in the same second.
AnswersTheUrl ==
  \A r \in Readers :
    rd[r].pc = "done" /\ rd[r].op = "url" /\ rd[r].ans # -1
      => Url[rd[r].ans] = rd[r].arg

\* Document i is cached in another version than the storage has.
Stale(i) == Cached(i) /\ docs[Slot(i)].ver # store[i]

\* Stale documents that no flush on its way will drop.
LeftStale ==
  {i \in Ids : Stale(i) /\ ~ (upd \in {"walk", "flush"} /\ uMin <= i /\ i <= uMax)}

\* What is cached in this step, what the update thread leaves when an exception
\* ends it, and what is added again by somebody else.
Inserted == {rd[r].got.idid : r \in {q \in Readers : rd[q].pc = "cache" /\ rd'[q].pc # "cache"}}
Unflushed == IF upd \in {"walk", "flush"} /\ upd' \in {"raised", "dead"} THEN uMin..uMax ELSE {}
AddedAgain == {i \in Ids : store'[i] # store[i] /\ uCur' = uCur}

\* A stale document is left behind only by a reader that caches what it read
\* before a re-fetch, by an exception between a re-fetch and its flush, and by a
\* fill thread that adds what was there: the range the walk returns covers all it
\* re-fetched and the flush drops all of it (update_after_time, _update_nearest_docs).
OnlyLateInsertsGoStale ==
  [][LeftStale' \subseteq LeftStale \cup Inserted \cup Unflushed \cup AddedAgain]_vars

\* Caching a document evicts no other document of the cache_size newest ids up
\* to the new max_id; in particular an old document never evicts a newer one.
EvictsOnlyTheOldest ==
  [][upd' = upd =>
       \A i \in Ids : Cached(i) /\ ~Cached(i)' => i <= maxId' - CacheSize]_vars

\* stop_auto_update's join returns, even when it comes in the middle of a round
\* (sleep_if polls the flag that run tests).
StopJoins == updStop ~> upd \in {"stopped", "dead", "raised"}

\* A query that waits for a document goes on once the document is added or the
\* storage is stopped (the loop around wait(1) in get_doc_by_id): a deleted article,
\* which is never added, holds no thread after the shutdown.
WaitersAreServed ==
  \A r \in Readers :
    (rd[r].pc = "wait" /\ (store[rd[r].cur] > 0 \/ storageStop)) ~> rd[r].pc # "wait"
=============================================================================
