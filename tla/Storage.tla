------------------------------ MODULE Storage ------------------------------
(***************************************************************************)
(* The on-disk mirror of a board, src/miner/modules/l2_miner/storage.py:   *)
(* one pickle file per document, named after its id, shared by the threads *)
(* of the board listener that add documents, the thread that re-fetches    *)
(* the newest ones and the threads that serve queries.                     *)
(*                                                                         *)
(* A page is crawled outside the lock and written inside it, and existence *)
(* tests are made outside it, so these are separate steps.  A file that is *)
(* opened for writing is empty until the write; the writer holds the lock  *)
(* meanwhile, but a crash does not care.                                   *)
(***************************************************************************)
EXTENDS Integers

CONSTANTS
  Adders,     \* update threads of the board listener
  Assigned,   \* Assigned[a]: the ids that adder a calls add_doc for
  Readers,    \* threads that serve queries
  MaxId,      \* bound: the largest document id
  MaxVer,     \* bound: how often the pages of the board change
  MayUpdate,  \* bound: whether update_after_time is called in this instance
  MayFail,    \* bound: whether a crawl may fail in this instance
  MayStop,    \* bound: whether notify_stop may be called in this instance
  MaxCrashes, \* bound: how often the process dies and is started again
  Num         \* Num[i]: url_num_getter of the url of document i

Ids == 0..MaxId

ASSUME MaxIdAssumption == MaxId \in Nat
ASSUME MaxVerAssumption == MaxVer \in Nat \ {0}
ASSUME AssignedAssumption == Assigned \in [Adders -> SUBSET Ids]
ASSUME NumAssumption == Num \in [Ids -> Int]
ASSUME MaxCrashesAssumption == MaxCrashes \in Nat

\* What a file holds: nothing yet, or a document as of version ver of its page;
\* ok is FALSE for the empty document that stands for a page that could not be
\* fetched.
Doc == [ver: 1..MaxVer, ok: BOOLEAN]
Missing == [ver |-> 0, ok |-> FALSE]
Torn == [ver |-> 0, ok |-> TRUE]

VARIABLES
  files,   \* the data directory
  maxId,   \* _max_id
  updated, \* _updated
  stop,    \* _stop_flag
  web,     \* version of the pages on the server
  ad,      \* the add_doc call of each adder
  up,      \* the update_after_time call of the update thread
  rd,      \* the call of each reader
  crashes, \* how often the process was started again
  since,   \* history: what the page was when each adder found the file missing
  raced,   \* history: the adders overtaken since, their file opened by another
  upSince, \* history: the same of the document that is being fetched again
  upRaced

history == <<since, raced, upSince, upRaced>>
vars == <<files, maxId, updated, stop, web, ad, up, rd, crashes, history>>

IsFile(i) == files[i] # Missing
IsNewest(m) == (m \in Ids => IsFile(m)) /\ \A i \in Ids : IsFile(i) => i <= m

\* Fault: the lock is not taken.
LockIgnored == TRUE

\* The lock outlives a step only while its owner is writing a file.
LockFree == up.pc # "writing" /\ \A a \in Adders : ad[a].pc # "writing"

-----------------------------------------------------------------------------
\* Crewer.get_doc_by_url of page i: the page as it is now, or the empty document
\* after an error.
Crawled == {d \in Doc : d.ver = web /\ (d.ok \/ MayFail)}

\* add_doc(i, url).  pc: "crawl" once the file was found missing, "dump" with the
\* document at hand, "writing" with the lock, "mark" after it, then the answer.
NoAdd == [pc |-> "idle", id |-> -1, doc |-> Missing]

Pending(call) == call.pc \in {"crawl", "dump"}
Overtaken(i) == {a \in Adders : Pending(ad[a]) /\ ad[a].id = i}

\* Fault: the file is not looked for.
AddCheckBlind(a, i) ==
  /\ ad[a].pc \in {"idle", "added", "refused"}
  /\ i \in Assigned[a]
  /\ ad' = [ad EXCEPT ![a] = [NoAdd EXCEPT !.pc = "crawl", !.id = i]]
  /\ since' = [since EXCEPT ![a] = web]
  /\ UNCHANGED <<files, maxId, updated, stop, web, up, rd, crashes, raced, upSince, upRaced>>

AddCheck(a, i) ==
  /\ ad[a].pc \in {"idle", "added", "refused"}
  /\ i \in Assigned[a]
  /\ ad' = [ad EXCEPT ![a] =
              [NoAdd EXCEPT !.pc = IF IsFile(i) THEN "refused" ELSE "crawl",
                            !.id = IF IsFile(i) THEN -1 ELSE i]]
  /\ since' = [since EXCEPT ![a] = IF IsFile(i) THEN 0 ELSE web]
  /\ UNCHANGED <<files, maxId, updated, stop, web, up, rd, crashes, raced, upSince, upRaced>>

AddCrawl(a) ==
  /\ ad[a].pc = "crawl"
  /\ \E d \in Crawled : ad' = [ad EXCEPT ![a] = [@ EXCEPT !.pc = "dump", !.doc = d]]
  /\ UNCHANGED <<files, maxId, updated, stop, web, up, rd, crashes, history>>

\* with self._lock: open(..., 'wb') truncates
AddOpen(a) ==
  /\ ad[a].pc = "dump"
  /\ LockFree
  /\ files' = [files EXCEPT ![ad[a].id] = Torn]
  /\ ad' = [ad EXCEPT ![a] = [@ EXCEPT !.pc = "writing"]]
  /\ since' = [since EXCEPT ![a] = 0]
  /\ raced' = (raced \cup Overtaken(ad[a].id)) \ {a}
  /\ upRaced' = (upRaced \/ (Pending(up) /\ up.cur = ad[a].id))
  /\ UNCHANGED <<maxId, updated, stop, web, up, rd, crashes, upSince>>

\* Fault: max_id is the last document added.
AddWriteLast(a) ==
  /\ ad[a].pc = "writing"
  /\ files' = [files EXCEPT ![ad[a].id] = ad[a].doc]
  /\ maxId' = ad[a].id
  /\ ad' = [ad EXCEPT ![a] = [@ EXCEPT !.pc = "mark"]]
  /\ UNCHANGED <<updated, stop, web, up, rd, crashes, history>>

\* f.write(s), _max_id, notify_all; the lock is released
AddWrite(a) ==
  /\ ad[a].pc = "writing"
  /\ files' = [files EXCEPT ![ad[a].id] = ad[a].doc]
  /\ maxId' = IF ad[a].id > maxId THEN ad[a].id ELSE maxId
  /\ ad' = [ad EXCEPT ![a] = [@ EXCEPT !.pc = "mark"]]
  /\ UNCHANGED <<updated, stop, web, up, rd, crashes, history>>

AddMark(a) ==
  /\ ad[a].pc = "mark"
  /\ updated' = TRUE
  /\ ad' = [ad EXCEPT ![a] = [NoAdd EXCEPT !.pc = "added"]]
  /\ UNCHANGED <<files, maxId, stop, web, up, rd, crashes, history>>

-----------------------------------------------------------------------------
\* update_after_time(last).  Document i was posted at time i; the empty document
\* of a failed crawl has post time _TIME_INF.  there and done are history: the
\* files there when the walk began and the documents it has re-fetched.
NoUpdate == [pc |-> "sleep", cur |-> -1, last |-> 0, lo |-> -1, hi |-> -1,
             doc |-> Missing, there |-> {}, done |-> {}]

\* Fault: the empty document counts as old.
PostTimeOld(i, d) == IF d.ok THEN i ELSE -1

PostTime(i, d) == IF d.ok THEN i ELSE MaxId + 1

UpdateStart(last) ==
  /\ MayUpdate
  /\ up.pc \in {"sleep", "end"}
  /\ up' = [NoUpdate EXCEPT !.pc = "walk", !.cur = maxId, !.last = last,
                            !.lo = maxId, !.hi = maxId,
                            !.there = {i \in Ids : files[i] \in Doc}]
  /\ UNCHANGED <<files, maxId, updated, stop, web, ad, rd, crashes, history>>

\* for idid in range(max_id, -1, -1): a missing file is skipped, get_doc_by_id
\* loads the others, and the walk ends at the first one posted before last.
UpdateWalk ==
  /\ up.pc = "walk"
  /\ LET i == up.cur IN
     IF i < 0 THEN up' = [up EXCEPT !.pc = "end"]
     ELSE IF ~IsFile(i) THEN up' = [up EXCEPT !.cur = i - 1]
     ELSE /\ LockFree
          /\ up' = IF files[i] = Torn THEN [NoUpdate EXCEPT !.pc = "dead"]
                   ELSE IF PostTime(i, files[i]) < up.last
                   THEN [up EXCEPT !.pc = "end"]
                   ELSE [up EXCEPT !.pc = "crawl"]
  /\ upSince' = IF up'.pc = "crawl" THEN web ELSE 0
  /\ UNCHANGED <<files, maxId, updated, stop, web, ad, rd, crashes, since, raced, upRaced>>

UpdateCrawl ==
  /\ up.pc = "crawl"
  /\ \E d \in Crawled : up' = [up EXCEPT !.pc = "dump", !.doc = d]
  /\ UNCHANGED <<files, maxId, updated, stop, web, ad, rd, crashes, history>>

UpdateOpen ==
  /\ up.pc = "dump"
  /\ LockFree
  /\ files' = [files EXCEPT ![up.cur] = Torn]
  /\ up' = [up EXCEPT !.pc = "writing"]
  /\ raced' = raced \cup Overtaken(up.cur)
  /\ upSince' = 0
  /\ upRaced' = FALSE
  /\ UNCHANGED <<maxId, updated, stop, web, ad, rd, crashes, since>>

UpdateWrite ==
  /\ up.pc = "writing"
  /\ files' = [files EXCEPT ![up.cur] = up.doc]
  /\ maxId' = IF up.cur > maxId THEN up.cur ELSE maxId
  /\ up' = [up EXCEPT !.pc = "walk", !.cur = @ - 1, !.lo = up.cur, !.doc = Missing,
                      !.done = @ \cup {up.cur}]
  /\ UNCHANGED <<updated, stop, web, ad, rd, crashes, history>>

-----------------------------------------------------------------------------
\* Queries.  op: "id" get_doc_by_id(cur), "newest" newest_doc, "oldest"
\* oldest_doc, "url" get_doc_by_url(arg).  res is the id of the document returned,
\* -1 for None.  had is history: whether the document was there at the start.
Idle == [pc |-> "idle", op |-> "none", arg |-> -1, cur |-> -1, top |-> -1,
         had |-> FALSE, res |-> -1]

Begin(r, q) ==
  /\ rd[r].pc \in {"idle", "done", "failed"}
  /\ rd' = [rd EXCEPT ![r] = q]
  /\ UNCHANGED <<files, maxId, updated, stop, web, ad, up, crashes, history>>

AskById(r, i) == Begin(r, [Idle EXCEPT !.pc = "get", !.op = "id", !.arg = i, !.cur = i])

\* a = self.max_id; get_doc_by_id(a) if a >= 0 else None
AskNewest(r) ==
  /\ LockFree
  /\ Begin(r, [Idle EXCEPT !.pc = IF maxId >= 0 THEN "get" ELSE "done",
                           !.op = "newest", !.cur = maxId])

AskOldest(r) ==
  Begin(r, [Idle EXCEPT !.pc = "down", !.op = "oldest", !.cur = maxId, !.top = maxId])

AskByUrl(r, u) ==
  Begin(r, [Idle EXCEPT !.pc = "search", !.op = "url", !.arg = u, !.cur = maxId,
                        !.had = \E i \in Ids : files[i] \in Doc /\ Num[i] = u])

Loaded(q, i) ==
  IF files[i] = Torn THEN [q EXCEPT !.pc = "failed"]
                     ELSE [q EXCEPT !.pc = "done", !.res = i]

ReaderGoesTo(r, q) ==
  /\ LockFree
  /\ rd' = [rd EXCEPT ![r] = q]
  /\ UNCHANGED <<files, maxId, updated, stop, web, ad, up, crashes, history>>

\* get_doc_by_id, from its start to its end or to the first wait(1)
Get(r) ==
  /\ rd[r].pc = "get"
  /\ ReaderGoesTo(r, IF IsFile(rd[r].cur) THEN Loaded(rd[r], rd[r].cur)
                                          ELSE [rd[r] EXCEPT !.pc = "wait"])

\* wait(1) returns, notified or not: the stop flag comes first, then the file.
WakeUp(r) ==
  /\ rd[r].pc = "wait"
  /\ stop \/ IsFile(rd[r].cur)
  /\ ReaderGoesTo(r, IF stop THEN [rd[r] EXCEPT !.pc = "done"]
                             ELSE Loaded(rd[r], rd[r].cur))

\* Fault: the loop goes on below a gap.
OldestStepSkips(r) ==
  /\ rd[r].pc = "down"
  /\ ReaderGoesTo(r, IF rd[r].cur < 0 THEN [rd[r] EXCEPT !.pc = "done"]
                                      ELSE [rd[r] EXCEPT !.cur = @ - 1])

\* One turn of the loop of oldest_doc: the document above the first gap.
OldestStep(r) ==
  /\ rd[r].pc = "down"
  /\ LET i == rd[r].cur
         q == rd[r]
     IN  ReaderGoesTo(r,
           IF i < 0 THEN [q EXCEPT !.pc = "done"]
           ELSE IF IsFile(i) THEN [q EXCEPT !.cur = i - 1]
           ELSE IF i = q.top THEN [q EXCEPT !.pc = "done"]
           ELSE Loaded(q, i + 1))

\* Fault: the search ends at the first gap.
SearchStepStops(r) ==
  /\ rd[r].pc = "search"
  /\ LET i == rd[r].cur
         q == rd[r]
     IN  ReaderGoesTo(r,
           IF i < 0 \/ ~IsFile(i) THEN [q EXCEPT !.pc = "done"]
           ELSE IF Num[i] = q.arg THEN Loaded(q, i)
           ELSE [q EXCEPT !.cur = i - 1])

\* One turn of the loop of get_doc_by_url.
SearchStep(r) ==
  /\ rd[r].pc = "search"
  /\ LET i == rd[r].cur
         q == rd[r]
     IN  ReaderGoesTo(r,
           IF i < 0 THEN [q EXCEPT !.pc = "done"]
           ELSE IF ~IsFile(i) THEN [q EXCEPT !.cur = i - 1]
           ELSE IF files[i] = Torn THEN [q EXCEPT !.pc = "failed"]
           ELSE IF Num[i] = q.arg THEN Loaded(q, i)
           ELSE IF Num[i] < q.arg THEN [q EXCEPT !.pc = "done"]
           ELSE [q EXCEPT !.cur = i - 1])

-----------------------------------------------------------------------------
\* The server changes a page (all pages share one version number).
WebChanges ==
  /\ web < MaxVer
  /\ web' = web + 1
  /\ UNCHANGED <<files, maxId, updated, stop, ad, up, rd, crashes, history>>

NotifyStop ==
  /\ MayStop
  /\ stop' = TRUE
  /\ UNCHANGED <<files, maxId, updated, web, ad, up, rd, crashes, history>>

\* The process dies and starts again: the files stay, __init__ does the rest.
Restart ==
  /\ crashes < MaxCrashes
  /\ crashes' = crashes + 1
  /\ \E m \in Ids \cup {-1} : IsNewest(m) /\ maxId' = m
  /\ updated' = FALSE /\ stop' = FALSE
  /\ ad' = [a \in Adders |-> NoAdd]
  /\ up' = NoUpdate
  /\ rd' = [r \in Readers |-> Idle]
  /\ since' = [a \in Adders |-> 0] /\ raced' = {} /\ upSince' = 0 /\ upRaced' = FALSE
  /\ UNCHANGED <<files, web>>

Init ==
  /\ files = [i \in Ids |-> Missing]
  /\ maxId = -1 /\ updated = FALSE /\ stop = FALSE
  /\ web = 1
  /\ ad = [a \in Adders |-> NoAdd]
  /\ up = NoUpdate
  /\ rd = [r \in Readers |-> Idle]
  /\ crashes = 0
  /\ since = [a \in Adders |-> 0] /\ raced = {} /\ upSince = 0 /\ upRaced = FALSE

AdderStep(a) == AddCrawl(a) \/ AddOpen(a) \/ AddWrite(a) \/ AddMark(a)

UpdateStep == UpdateWalk \/ UpdateCrawl \/ UpdateOpen \/ UpdateWrite

ReaderStep(r) == Get(r) \/ WakeUp(r) \/ OldestStep(r) \/ SearchStep(r)

Ask(r) ==
  \/ \E i \in Ids : AskById(r, i)
  \/ AskNewest(r) \/ AskOldest(r)
  \/ \E i \in Ids : AskByUrl(r, Num[i])

Next ==
  \/ \E a \in Adders : AdderStep(a) \/ \E i \in Ids : AddCheck(a, i)
  \/ UpdateStep \/ \E last \in 0..MaxId : UpdateStart(last)
  \/ \E r \in Readers : ReaderStep(r) \/ Ask(r)
  \/ WebChanges
  \/ NotifyStop
  \/ Restart

Spec == Init /\ [][Next]_vars

-----------------------------------------------------------------------------
AddCalls ==
  [pc: {"idle", "crawl", "dump", "writing", "mark", "added", "refused"},
   id: Ids \cup {-1}, doc: Doc \cup {Missing}]

UpdateCalls ==
  [pc: {"sleep", "walk", "crawl", "dump", "writing", "end", "dead"},
   cur: Ids \cup {-1}, last: Ids, lo: Ids \cup {-1}, hi: Ids \cup {-1},
   doc: Doc \cup {Missing}, there: SUBSET Ids, done: SUBSET Ids]

Queries ==
  [pc: {"idle", "get", "wait", "down", "search", "done", "failed"},
   op: {"none", "id", "newest", "oldest", "url"},
   arg: Int, cur: Ids \cup {-1}, top: Ids \cup {-1}, had: BOOLEAN, res: Ids \cup {-1}]

TypeOK ==
  /\ files \in [Ids -> Doc \cup {Missing, Torn}]
  /\ maxId \in Ids \cup {-1}
  /\ updated \in BOOLEAN /\ stop \in BOOLEAN
  /\ web \in 1..MaxVer
  /\ ad \in [Adders -> AddCalls]
  /\ up \in UpdateCalls
  /\ rd \in [Readers -> Queries]
  /\ crashes \in 0..MaxCrashes
  /\ since \in [Adders -> 0..MaxVer] /\ raced \subseteq Adders
  /\ upSince \in 0..MaxVer /\ upRaced \in BOOLEAN

\* Whoever writes has the lock alone, so a file is incomplete only while it is
\* being written or for good after a crash (_update_doc).
TornOnlyByCrash ==
  /\ \A i \in Ids : files[i] = Torn =>
       \/ crashes > 0
       \/ up.pc = "writing" /\ up.cur = i
       \/ \E a \in Adders : ad[a].pc = "writing" /\ ad[a].id = i
  /\ crashes = 0 => up.pc # "dead" /\ \A r \in Readers : rd[r].pc # "failed"

\* When nobody is writing, max_id is the id of the newest file: newest_doc finds
\* it and no query has to wait for it.
MaxIdIsNewest ==
  /\ LockFree => IsNewest(maxId)
  /\ \A r \in Readers : rd[r].op = "newest" => rd[r].pc # "wait"

\* oldest_doc answers with the document above the first gap below the max_id of its
\* start: when it answers, the document below is missing, which is where the listener
\* goes on filling, and all above are there.  With None there is no gap at all.
OldestIsAboveGap ==
  [][\A r \in Readers :
       rd[r].pc = "down" /\ rd'[r].pc = "done" =>
         LET res == rd'[r].res
         IN  /\ res # -1 => res - 1 \in Ids /\ ~IsFile(res - 1)
             /\ \A i \in Ids : res <= i /\ i <= rd[r].top => IsFile(i)]_vars

\* Urls are numbered in the order of the ids.
UrlsInOrder == \A i, j \in Ids : i < j => Num[i] < Num[j]

\* get_doc_by_url finds a document that was there when the search began, and no
\* other, while documents are added above, below and between.
SearchFinds ==
  \A r \in Readers :
    rd[r].op = "url" /\ rd[r].pc = "done" =>
      IF rd[r].res = -1 THEN UrlsInOrder => ~rd[r].had ELSE Num[rd[r].res] = rd[r].arg

\* A walk that reached its end has re-fetched every document that was there at
\* its beginning and was posted at last_time or later, the failed ones included
\* (update_after_time).
RecentAllRefetched ==
  up.pc = "end" =>
    \A i \in up.there : up.last <= i => i \in up.done

\* The adder that has the lock.
AddWriting == \E a \in Adders : ad[a].pc = "writing"
Writer == CHOOSE a \in Adders : ad[a].pc = "writing"

\* What is or will be found under an id: the lock makes queries wait for whoever is
\* writing, and an incomplete file that nobody is writing never will be complete.
Version(i) ==
  IF up.pc = "writing" /\ up.cur = i THEN up.doc.ver
  ELSE IF AddWriting /\ ad[Writer].id = i THEN ad[Writer].doc.ver
  ELSE IF files[i] = Torn THEN -1 ELSE files[i].ver

\* max_id, or what it will be when the lock is free again.
Top == IF AddWriting /\ ad[Writer].id > maxId THEN ad[Writer].id ELSE maxId

\* The page that a call has still to store, and how old it may be.
ToStore(call, id, ver) ==
  IF Pending(call) THEN [id |-> id, since |-> ver] ELSE [id |-> -1, since |-> 0]

Promise ==
  INSTANCE Mirror WITH
    store <- [i \in Ids |-> Version(i)], top <- Top, page <- web,
    adding <- [a \in Adders |-> ToStore(ad[a], ad[a].id, since[a])],
    fetching <- ToStore(up, up.cur, upSince)

\* The storage is a mirror, whoever adds what: although add_doc looks for the file,
\* crawls the page and writes it at three different times, and the re-fetch crawls
\* outside the lock too, what is stored is never older than the page was when the
\* call that wrote it began, no document disappears while the process lives, and each
\* death of the process costs at most one (_update_doc, add_doc, update_after_time).
MirrorsPages == Promise!Spec

\* add_doc looks for the file long before it writes, and without the lock.  It writes
\* over a document, and a re-fetch replaces one by an older version of its page, only
\* when another call has opened the file since this one looked (storage.py:62, :74).
OnlyRacesOverwrite ==
  [][/\ \A a \in Adders :
          ad[a].pc = "dump" /\ ad'[a].pc = "writing" /\ IsFile(ad[a].id) => a \in raced
     /\ up.pc = "dump" /\ up'.pc = "writing" /\ files[up.cur].ver > up.doc.ver
          => upRaced]_vars
=============================================================================
