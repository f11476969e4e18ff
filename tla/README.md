# A verification project for PTTArticleRecommander

PTTArticleRecommander recommends articles of the PTT bulletin boards: a browser
extension asks an application server which articles relate to the one on the
screen; the server asks an analysis process, and a miner process that mirrors
the boards. This directory holds TLA+ models of the program, the TLC instances
that check them and proofs that TLAPS checks. Paths are relative to
`src/src/`; `l2_miner/` is `miner/modules/l2_miner/`.

Contents: 1 the system; 2 what is modelled; 3 the modules, one by one;
4 the runs; 5 fairness; 6 the proofs; 7 what the models show about the code;
8 what is not modelled; 9 the plan.

## 1. The system

Processes and how they talk:

    browser extension  --HTTPS/JSON-->  app_server  --TCP-->  miner        --HTTP-->  PTT
                                                    --TCP-->  article_analysis --TCP--> miner

| component | state | operations | hard behaviour |
|---|---|---|---|
| cache (`l2_miner/cache.py`) | window `[min_id, max_id]` of documents, index url -> id, flag and thread of the periodic update | queries by id and by url, forwarded `add_doc` and both ends, update round, `stop_auto_update` | a query is three separate critical sections; a flush and other queries come in between |
| storage (`l2_miner/storage.py`, `crewer.py`) | one file per document, `max_id`, `updated`, stop flag | `add_doc`, `update_after_time`, `get_doc_by_id` (blocks), `get_doc_by_url`, `newest_doc`, `oldest_doc`, `notify_stop`, restart | test outside the lock, crawl outside, write inside; waiting queries; crashes |
| board listener (`l2_miner/board_listener.py`) | thread of the rounds, lists of update threads and died threads, stop flag | rounds, update threads, url generator, binary search for a page, `stop` | threads of several rounds overlap; the board changes; a request fails |
| backend (`l2_miner/real_backend.py`, `main.py`) | workers per board, worker lock | queries, first query of a board, `destroy` | waits with a lock held; order of the shutdown |
| miner server (`miner/modules/server.py`) | handlers, stop flag, a connection per handler | accept, receive, delegate, send, `stop` | partial reads, a peer that closes, accepting while stopping |
| codecs (`miner/modules/protocol/`, `article_analysis/protocol/`) | none | pack and unpack | sizes, nesting |
| first generation miner (`miner/modules/build.py`, `mining.py`) | a list of documents, a file for each and one for the list | crawl at the start, the same queries | errors half way, a crash between two files, a restart on what is left |
| proxies (`app_server/modules/proxy_client.py`, `miner.py`, `article_analysis.py`) | one connection each, a cache each | send with reconnects, receive, cached queries | a connection out of step, a lost request, answers that have gone stale |
| request handlers (`app_server/main.py`, `main_handler.py`, `http_request_handler.py`) | none | POST | an exception at any call |
| client (`app_client/inject/`) | lists of documents, counter of updates, listeners | update, answers, loading of the view | answers and the view arrive in any order |
| analysis process (`article_analysis/server`, `miner`, `main.cc`) | one connection | analyse, then accept, answer | one connection at a time; it listens only after the analysis |
| analysts (`article_analysis/analyst/`) | recommended documents per document | the selection of documents | loops over scores and words |
| command line (`article_analysis/arg_parser`, `utils`) | option trees | parse | sequential |

Shared state: the threads of a miner process share the cache under
`cache_lock`, the storage under its condition variable and the lists of the
listener under `_sync_lock`. Callbacks: a dying update thread calls back into
the listener; the periodic thread calls `_update_nearest_docs`. Everything
between processes is a request and a reply on one connection.

What makes each part correct, in the order of importance:

 * cache: a query by id or url is answered with that document; the window and
   the index agree with the slots; a flush leaves no stale document; nothing
   raises half way; shutdown ends.
 * storage: `max_id`, both ends and the search are right while files are added;
   a file is complete unless the process died; a re-fetch misses nothing; what is
   stored is no older than the call that stored it, and a document is written over
   only by calls that overlap; a waiting query ends.
 * listener: articles get ids in the order of their urls, each once and none is
   left out; the mirror becomes complete; no thread survives `stop`.
 * backend and server: every query is answered, and the process can be stopped.
 * proxies: a reply belongs to its call, over all connections that break; a
   remembered answer is the only one that may be old; every POST ends.
 * client: the page shows one update, all of it, once.
 * analysts: the three best by the document's own scores; the constructor ends.
 * first generation miner: an entry is served with its own fields and content.

PROJECT.json lists every hazard at its line with the properties that cover it.

## 2. What is modelled

| module | models | used by |
|---|---|---|
| `Cache` | `cache.py`, with the storage as an array of versions | `MCCache`, `CacheProofs` |
| `Storage` | `storage.py`, with the crawler as a choice of outcomes | `MCStorage`, `StorageProofs` |
| `BoardListener` | `board_listener.py`, with the storage seen through `newest_doc`, `oldest_doc`, `add_doc` | `MCBoardListener`, `BoardListenerProofs` |
| `PageSearch` | `_get_page_contain_url_num` of `board_listener.py` | `MCPageSearch`, `BoardListenerProofs` |
| `MinerServer` | `server.py`, `real_backend.py` and `main.py` of the miner | `MCMinerServer`, `MinerServerProofs` |
| `AppServer` | `proxy_client.py`, `miner.py`, `article_analysis.py`, `main_handler.py`, `http_request_handler.py` and `main.py` of the application server | `MCAppServer`, `AppServerProofs` |
| `Mirror` | nothing in the code: what the users of a board's storage may rely on | `Storage`, as its abstract specification |
| `Exchange` | nothing in the code: what a caller of a remote service may rely on | `AppServer`, as its abstract specification |
| `AppClient` | `model.js`, `view.js`, `event_object.js`, `controller.js`, `main.js` of the extension | `MCAppClient`, `AppClientProofs` |
| `Analyst` | `tf_idf_analyst_title.cc` and `tf_idf_analyst_content.cc`, with the start of the analysis process | `MCAnalyst`, `AnalystProofs` |
| `FirstMiner` | `mining.py`, `build.py` and the start and end of the miner's `main.py` | `MCFirstMiner`, `FirstMinerProofs` |
| `CacheProofs`, `StorageProofs`, `BoardListenerProofs`, `MinerServerProofs`, `AppServerProofs`, `AppClientProofs`, `AnalystProofs`, `FirstMinerProofs` | the proofs about the module each is named for; `BoardListenerProofs` is also about `PageSearch` | |

The modules describe components that call one another. Each takes its
neighbour by the neighbour's interface, and what it assumes of the neighbour is
a property another module checks:

 * `Cache` assumes that a document, once stored, stays, that the storage's newest id
   only grows, and that a document gives way to an older version only when two calls
   overlapped (it lets any version follow any other): the theorem `StoredDocsStay`, which rests on
   the same lemmas as the proof that `Storage` implements `Mirror` (`MirrorsPages`). A
   file without an end, which is what a crash leaves, is one whose loading raises
   (`LoadRaises`, `WalkRaises`); the crash itself ends the cache too.
 * `BoardListener` assumes `newest_doc` and `oldest_doc` answer as
   `MaxIdIsNewest` and `OldestIsAboveGap` of `Storage` say.
 * `Storage` lets any two threads add one id, since a round of `BoardListener` starts a
   thread below the oldest document whether or not an earlier one is still at work
   there (`board_listener.py:157-165`), and `add_doc` looks for the file long before it
   writes (`storage.py:62`). `AddDoc` of `BoardListener` lets the later one write over
   the other.
 * `BoardListener` takes the page search by its result, `PageOf`; that the search
   gives such a page on the pages of `BoardListener` is the theorem `SearchGivesPageOf`
   about both modules. `FoundPage` is what the search gives on any board.
 * `AppServer` takes both servers as its environment: a server answers requests in
   order (`MinerServer` handles one package of a connection at a time), may close a
   connection with a request in hand (the handlers that end in `MinerServer`), die,
   and start again. The miner's answer -1 for an article that is not mirrored is
   the `DocIdentity('', -1)` at the end of `ScanStep`; that the analysis server has
   one list for each article is what `Analyst` computes.
 * `AppClient` takes the application server as answers that come, in any order, or
   do not.
 * `MinerServer` assumes that the joins in `destroy()` end: `StopEnds` of
   `BoardListener` and `StopJoins` of `Cache`.

Operators whose comment begins with "Fault:" are not part of the models: each
is the definition below it with a plausible mistake in it, and serves to show
that a property notices the mistake.

## 3. The modules

### Cache

State: `docs`, `minId`, `maxId`, `urlToId` are the fields of `Cache`; `store`,
`storeMax`, `storageStop` the storage behind it; `rd` the query of each thread
(its `pc`, the document it has in hand and its answer); `upd`, `updStop`,
`uCur`, `uMin`, `uMax` the update thread.

A query is `AskById` or `AskByUrl` (the first critical section: look-up),
`ReadStorage`, `WaitOver` or `SearchStep` (the storage, no lock), `CacheDoc`
(the second critical section, `_cache_doc_if_ok` with the shrinking it
calls) and `Return`. `CacheDocIfOk` has the four cases of the code: restart of
the window with one document, growing up (with the drop of the oldest slots),
growing down, and filling a slot. `GrowFails` is growing up when
`del self._url_to_id[doc.url]` raises, with the window as the code leaves it.
The update thread is `SleepStep`, `UpdateStart`, `SkipMissing`, `Refetch`,
`WalkEnds`, `Flush`. Two exceptions end it: one in the walk, which loads and pickles
documents (`WalkRaises`: what it has fetched again is not flushed), and the KeyError of
`Flush`. `LoadRaises` is a query whose file cannot be loaded. `StorageAdd` is the
listener adding a document, or adding again what another thread has added meanwhile;
`NotifyStop` and `RequestStop` are the shutdown.

`OnlyLateInsertsGoStale` is about the documents cached in another version than is stored
that no flush will drop (`LeftStale`): a step makes one of them only by caching what was
read before a re-fetch (`Inserted`), by an exception before the flush (`Unflushed`), or by
a second add (`AddedAgain`).

Simplified: document contents are versions, and a re-fetch or a second add brings any of
them; `update_after_time` ends its walk anywhere (the time it compares with is
arbitrary); the walk's missing files are skipped one a step; whether a file can be
loaded is decided anew each time.

### Storage

State: `files` (missing, torn, or a document: version of the page and whether
the crawl succeeded), `maxId`, `updated`, `stop`, and the calls in progress:
`ad` (`add_doc`), `up` (`update_after_time`), `rd` (queries). The lock is
implicit: `LockFree` says no thread is between opening a file and writing it,
the one critical section that takes more than one step here.

`AddCheck`, `AddCrawl`, `AddOpen`, `AddWrite`, `AddMark` are the steps of
`add_doc`; `UpdateStart`, `UpdateWalk`, `UpdateCrawl`, `UpdateOpen`,
`UpdateWrite` those of `update_after_time`; `Get`, `WakeUp`, `OldestStep`,
`SearchStep` those of the queries, one turn of a loop each. `Restart` is a
crash and `__init__` on what is in the directory. All pages change together
(one version number `web`), which is enough to tell an old copy from a new one.
Document i is posted at time i.

`since`, `raced`, `upSince` and `upRaced` are history: the version of the page when a call
looked for its file, and whether another call has opened that file since. No guard
reads them.

`Mirror` is the storage as its users see it. A call begins, when its document is missing
(`BeginAdd`) or there (`BeginFetch`), and later stores the page as of some moment in
between (`Add`, `Fetch`); of two that overlap the second may undo the first, but none
brings back what was gone before it began. What is stored stays, the newest id is known,
and when the process dies the calls are gone and at most one document is lost. `Version`,
`Top` and `ToStore` are what it sees of `Storage`.

`OldestIsAboveGap` is a property of the step in which `oldest_doc` answers: the document
below the answer is missing at that moment, and all from the answer up to the `max_id`
the query began with are there.

### BoardListener

State: the board (`posted`, `deleted`), the mirror (`mirror`, `maxId`), the
listener's thread `ln` with the local variables of a round, the update threads
`thr` with their generators, `_update_threads` and `_died_threads`, the stop
flag, and where `stop()` is. `mixedUp` is a history variable: it remembers that
one of these has happened, after which the ids no longer count the articles:

 * a thread turned to a page with urls that are not older than those it has
   handed out (the third item of section 7);
 * an article was posted or deleted while a round was between the newest
   document and the urls of the newest page (`Looking`);
 * an article was deleted that was not mirrored, although documents above and
   below it were counted with it;
 * the estimate was the rough one for more than `TightPages` pages.

The properties of the mirror are stated for mirrors that nothing of this has happened
to; without any one of the four exceptions they fail, and with them they are
proved (section 6).

Urls are represented by the number `get_url_compare_num` gives them, doubled:
article k is `2k + 1`, the placeholder made of its url `2k` ("- 0.5"). A
placeholder made of a placeholder loses all but one digit (`Low`) and one made
of that, or of the empty `prev_url`, cannot be read (`Bad`): reading it
raises and ends the round. Articles have numbers in the order of their
publication, `PageSize` on a page.

A round is `ReadNewest`, `ReadTop`, `ReadOldest`, `GetMaxPageIdx`, `Estimate`,
`FetchNewDocs`, then `FillOldDocs` or `NothingToFill`, then `Sleep`, which
cleans up. `RoundFails` is a request that raises. An update thread is
`PageBefore` (or `PageFails`), `NextUrl` with the test for the file, `AddDoc`;
`DiedCallback` is the callback of a dying thread. `Stop`, `Joined`,
`StopReturns` are `stop()`, one join at a time.

Simplified: the number of pages and the estimate are read in one step each,
although the code makes several requests for them; `Quiet` says the board holds
still during a round and its threads' start (section 7 says what happens
otherwise). The rough estimate for more than `TightPages` pages is in the
model, with the page size for the 20 of the code; no run reaches it. At most as
many threads run at one time as there are `Threads`.

### PageSearch

State: the board (`pages`), `num`, and the local variables `lower`, `upper`,
`mid` of `_get_page_contain_url_num`. `Loop` is the test and the halving;
`DropEnd`, `TryAnother` and `Narrow` look at the page: it is empty and at an end
of the range; empty and a random page is tried next; or it has urls. `DeleteUrl`
deletes articles during the search. Two articles of one second have one number
and may be on different pages.

### MinerServer

State: `main`, the main thread; `listed`, the list of handler threads, and
`joining`, how far `stop()` is with it; `conn`, the handler thread of each
connection with its request; `lock`, the owner of `_worker_lock`; `workers`, the
dictionary in its order of insertion; and of each board how many listeners run,
`updated` and the stop flag of its `Storage`, and which documents are mirrored.

A connection is `Accept`, `StartHandler`, then for each package `Request` or
`RequestUrl`, `GetCache` with `MakeWorker` and `FirstUpdate` for a first query,
`Answer` and `SendPackage`. A query for lists reads the max_id first and calls
`_get_cache` again (`ReadMaxId`), then reads from there down; a query whose documents
are not all there waits, whatever ids it asks for, until they are or the `Storage` has been
told to stop, which never finds a query waiting: `Destroy` comes after the handlers have
ended. `AddDoc` adds documents in any order, and need not add any. `SenderGone` is a peer that closes, `BadPackage` a
package that the delegator refuses, `SeesStop` the polling of the flag. `get_id_by_url` reads the
dictionary without the lock, one key a `ScanStep`, and raises when it has grown.
`Interrupt`, `Join`, `StopReturns` and `Destroy` are the main thread of
`main.py`. An interrupt between `append` and `start()` makes `join()` raise:
`main` is then "raised", and nothing is destroyed.

Simplified: the bytes of packages are left out, as is which exception ends a
handler; a document is there or not, its text and damaged files belong to `Storage`.

### AppServer and Exchange

State: the world (`known`, the articles the miner has; `rels`, the lists of the
running analysis server; `up`; `faults`), each proxy's connection `conn` with
what was sent and not answered (`sent`) and what was answered and not read
(`stream`), the two lists of answers `minerCache` and `analysisCache`, the POST
in progress `job` and the proxy call in progress `call`. `HTTPServer` handles
one request at a time, so there is one of each. `out`, `outcome` and `watch`
are history: what the last call and the last POST came to, and what was true
and remembered when the POST arrived.

`Post`, `GetId`, `GetRel`, `GetUrl`, `Respond` are `do_POST` and `handle_json`;
`BadPost` is a POST that is refused before any call. `Send`, `SendFails`,
`Reconnect`, `RecvHeader`, `RecvBody`, `RecvFails` are the proxies, with the
insertion into the list and its shrinking in `RecvBody`. A socket knows that
the server is gone only after something was sent into it: the states of a
connection are "open", "fin" (closed by the server), "doomed" (then written
into), "rst" (the reset has arrived) and "none" (a connect that failed).

`Exchange` is a remote call as its caller wants it: asked, answered with what is
right at that moment or lost, returned or raised. `AppServer` implements it
with the mapping in `Promise`: `answer` is the complete reply in the stream of
the connection, `data` what the servers would answer now. Violations would be an
answer of an earlier call left in a connection, or a retry answered twice.

Simplified: an article and its url are one value, the header and the body of a
reply are read in one step each, `Tries` is 2 instead of 10, and the sizes of
the lists of documents recommended are at most `MaxRel`.

### AppClient

State: `counter`, `docs` and `posts` of the model, the GETs in flight with what
their callbacks hold (`fetches`: the document, its update and the array it is
pushed into), and of the view whether it has registered, what it shows and the
update that is from. `PostAnswered` does not test the update, as in the code, so
it may create GETs for an update that is over; the callback of the GET does.
`FetchAnswered` is `push` and `emit` together: callbacks are not interrupted.

### Analyst

State: the documents the miner returns (`meta`: whether the good replies
prevail, and whether the document brings a word), the loop variables of the
constructor, `score` and `best` while a document is scored, and the results
`calculated`, `recommended`, `idBase`. The two analysts are one module with
`impl`: they differ in `CountWord` (which index the loop advances), `Stays`
(ties), `StartScore` (whether scores start from 0) and `MinerFails`. `row` is
history: what the scored document alone added to the others.

Simplified: what one document adds to the score of another is any of `Weights`
(NaN left out); a document brings at most one word. In the title analyst the
loop over the words writes `IDF[0]` or a vector of bits for ever once there is a
word; the model lets it run for ever, as a build that keeps the loop does.

### FirstMiner

State: what is on disk (`metaFile`, `files`), the local variables of
`getContent` (`page`, `row`, the working directory `cwd`, `post`, `nextId`, the
fields `meta` in hand and `arr`), the loaded `data` of `BuildData`, and where the
process is. A field is the number of the article it was read from, so that a
field left over from another article shows. `RowBroken`, `PostFails`,
`PostUnwritten` and `PostUnread` are the four `except` branches; two of them name
variables that may be unbound, and then the crawl ends. `PostRead(n)` is an
article whose header has n fields. `Kill` may come at any point. The queries by
id are operators on `data` and `files`.

Simplified: one board, all fields but the title by the number of their
article, every crawl sees the articles in the same order. `AfterId` is the
loop over the entries as a recursive function, which can be proved about.
`Series` is the set of answers: none when `metadata[X]` raises.

## 4. The runs

| run | instance | question |
|---|---|---|
| `CacheSafety` | 2 readers, ids 0..3, window of 2 | index, answers, eviction |
| `CacheStop` | 1 reader, ids 0..2, 2 versions, shutdown, two documents with one url, loads and walks that raise, second adds | the window survives a KeyError; what may leave a document stale; the update thread can be joined; no query waits for ever |
| `StorageQueries` | 2 adders that both add the id in the middle, a walk, 1 reader, ids 0..2, stop, one crash | `max_id`, both ends, search by url, incomplete files |
| `StorageUpdates` | 2 adders that both add ids 0 and 1, re-fetches, failing crawls, 2 versions, one crash | nothing recent is missed; only overtaken calls write over a document or bring an older one; the storage implements `Mirror` |
| `ListenerRounds` | 2 threads, 5 articles, pages of 2, one deletion and one failure | ids and urls in one order, no article twice, none skipped, complete when said so |
| `ListenerStop` | 2 threads, 3 articles, pages of 1, a failure, stop at any point | `stop()` returns and leaves no thread; else every article is mirrored at last |
| `ServerServes` | 2 connections, 2 boards with 2 and 1 documents that may come or not, one name in the urls of both, queries for ids 0 and -1 | one worker a board, none left at the exit; requests and shutdown end, or wait in the storage and nowhere else |
| `PageSearchBoards` | 5 pages, 4 numbers, 2 deletions | the page found is right; the search ends |
| `AppServer` | 2 articles, any of them mirrored, lists of 2 and 1 answers, 2 attempts, 2 deaths or closed connections | every call implements `Exchange`; a reply is right but for what the lists remember; the lists stay within their sizes; POSTs end, and recover |
| `AppClient` | 2 updates, 3 lists of up to 2 documents | one update at a time, each document once, all of it from the first document that the view hears of |
| `Analyst` | up to 5 documents, 3 of them with good replies, 4 weights including ties | the lists of three; only the content analyst comes to serve when there are words |
| `FirstMiner` | 3 articles of 2 titles, 2 crawls, relative and absolute path, killed at any point | own fields, own content, the ids of queries against those of answers |

Why the bounds are enough. Four ids and a window of two reach every case of
`_cache_doc_if_ok` (restart, growth by one with one drop, growth down, fill,
neither) and every order of a reader, another reader and a round. What is stale needs
two versions and one reader, whose late insertion, the walk and a second add make the
three ways; two documents with one url and a third that drops one make a slot raise. In
`StorageQueries` one adder takes the ids from the top and the other from the bottom, so
that a gap opens and closes under a query, and both may add the one in the middle; a
query only reads, so one reader reaches every state a query can be in. In
`StorageUpdates` two calls of `add_doc` and a re-fetch are all of one document, which is
as many as can race, and a second document gives the walk a place to go; two versions
tell which of them read its page first. A thread adds any id again and again there, so
the two adders are alike, and no property names one of them.
Two threads of the listener are the two of a round, or one of each of two
rounds that overlap. Five articles on pages of two give three pages: with two
no thread goes on with a wrong page. Five pages make the binary search narrow
twice from either side and leave room for an empty page strictly inside the
range, the case in which a random page is tried. Two connections and two boards let a first query hold the
lock against a query of the same and of another board, and let a dictionary grow
under a query by url. The symmetry of readers,
adders, threads and lists is used in safety runs only: the models name none of them.

Two articles make the lists of `AppServer` overflow (2 and 1 entries) and let an
answer about one be taken for that about the other; two faults let a server die
while the other proxy's connection is already broken, and let a reconnect find
nobody. Two attempts have the first, which may fail and reconnect, and the last,
after which the call gives up. Two updates of the page script are a late one and
the one it must not disturb. Five documents make a list of three drop one twice,
and three scored documents let what is left of two reach a third. Three articles
give an entry that is first, one in the middle and one that is last, two crawls
one that leaves files behind and one that meets them.

`CHECK_DEADLOCK FALSE` stands where the program really ends: after `stop()`
(`ListenerStop`, `ServerServes`), at the end of a search (`PageSearchBoards`),
when all answers have come (`AppClient`) and when the constructor has returned
or the process has died (`Analyst`).

## 5. Fairness

 * `Cache`: weak fairness of the update thread and of each reader inside a
   query, including one that waits for a document in the storage (`wait(1)` times
   out every second). They are operating-system threads; asking and stopping are
   not fair.
 * `BoardListener`: weak fairness of the listener, of each update thread and of
   the rest of `stop()`. Requests fail only finitely often (`MaxFails`), nobody
   has to post or delete.
 * `MinerServer`: weak fairness of the main thread and of each handler that has a
   request, strong fairness of taking `_worker_lock`: a waiting thread gets it
   some time. Nothing is assumed of the documents: a board may never get the one a
   query waits for, and any integer may be asked for. `RequestsEnd` and
   `ShutdownEnds` name what is then waited for (section 7), and say that nothing
   else keeps a request or the shutdown.
 * `PageSearch`: weak fairness of the thread, and strong fairness of each choice
   of the random page. Together they say that `random.randint` gives every page
   of the range in the long run, which holds with probability one.

 * `AppServer`: weak fairness of its one thread (a sleep ends, a step is taken), and
   of the environment: a server that is up answers, one that died is started
   again, a reset arrives. `recv` has no timeout, so without the first of these a
   POST may hang. Nobody has to post, and nothing has to fail; `Recovers` is about
   behaviours in which POSTs keep coming, since only a send finds a broken connection.
   The end of a server always reaches its peer as the end of the stream or as a
   reset; a host that disappears without either looks like a server that does not answer.
 * `Analyst`: weak fairness of the constructor, one thread of one process; that
   includes its calls of the miner, of which it assumes that they are answered or
   fail. A miner that holds a connection open and says nothing (its first query about
   a board may wait without end, section 7) keeps the constructor where it is.

## 6. The proofs

`CacheProofs` proves, for every number of readers, ids, versions, every cache
size (0 included) and every assignment of urls, that `Inv` is an invariant:

    Inv == TypeOK /\ WindowInv /\ IndexInv /\ NoKeyError /\ ReaderInv

`TypeOK` alone is not inductive: a slot is addressed as `docs[i - minId + 1]`,
so one needs `WindowInv` (as many slots as ids in the window, each document in
its own) to know that it exists. `WindowInv` is not inductive without
`IndexInv`, which says when `_clean_cache_entry` raises; `NoKeyError` follows
from it when urls are unique. `ReaderInv` says what a reader holds between its
critical sections: an existing document with the id, or the url, it asked for.
The four shapes of `_cache_doc_if_ok` and the cleaning of a range are lemmas of
their own (`ResetToInv`, `FillSlotInv`, `GrowDownInv`, `GrowUpInv`,
`GrowFailsInv`, `CleanInv`); `CacheDocInv` puts them together, `ReaderStepInv`
and `UpdStepInv` have a step for each action, and `NextInv` combines them.
From `Inv` follow `TypeCorrect`, `WindowCorrect`, `IndexCorrect`,
`KeyErrorFree`, `IdAnswersCorrect`, `UrlAnswersCorrect` and the action properties
`EvictionCorrect` and `OnlyLateInserts`. The last needs `WalkInv` as well: the
walk goes down, so what it has fetched again lies between `uMin` and `uMax`, and the
flush drops that range whole unless it raises; it holds for any urls, as an exception in
the walk or in the flush is one of the three ways it names. `UrlAnswersCorrect` assumes
`UrlsAreUnique` and `NumsAreUnique`, `EvictionCorrect` assumes `UrlsAreUnique`. The code
does not guarantee them: deleted articles can share a placeholder url
(`board_listener.py:48`), and two articles of one second have equal numbers
(`board_listener.py:131`). `IndexInv` and `NoKeyError` say themselves that they are about
unique urls.

`StorageProofs` proves every property of the two runs of `Storage`, for every number
of adders, readers, ids, versions and crashes, and for any ids that the adders take on,
be they the same. Six invariants build on one another:

 * `Typed` is `TypeOK` with what the program counters say of the other fields.
   `TypeOK` alone is not inductive: `oldest_doc` loads `cur + 1`, which is an id only
   because `cur <= top` while it goes down.
 * `FilesInv` is the lock: at most one writer, the file of the writer is empty,
   an empty file has a writer or is older than a crash, and `max_id` is the newest
   file apart from one being written. `StepKinds` shows that a step opens a file,
   writes it, restarts the process or is `Quiet`, so only these four are looked at.
   With it, `FailInv` says that nothing fails before a crash: `NoTornReads`.
 * `QueriesInv` is what each query knows while it goes down the ids. Files are never
   removed (`FilesStay`), so `QueryKnows` only has to be shown for the query that
   moves (`KnowledgeStays`): `NewestIsThere`, `OldestAnswers`, `SearchAnswers`. That the
   document below the answer of `oldest_doc` is missing is what the last turn of its loop has
   just seen (`OldestEnds`); that those above are there is what it has kept.
 * `WalkInv` does the same for the walk of the update thread: `WalkIsComplete`.
 * `RaceInv` is what a call knows between its look and its write, which are not under one
   lock: what it stores was read since it looked, and as long as nobody has overtaken it
   the file is as it was, missing for an adder (`AddsAfterChecks`), loaded and not newer
   than the page was for the re-fetch (`RefetchesAfterLoads`). It gives `OnlyRaces`: only
   two calls that overlap write over each other.
 * `LowInv` says that the walk does not climb above `max_id`.

It also proves that the storage implements `Mirror` (`MirrorsPagesHolds`). The step of
`Mirror` that adds a document is the write of `add_doc`, but the one that refreshes a
document is the opening of the file, long before the write: the old version is gone by
then, and whoever asks waits for the lock. `Version` says so, and counts an empty file as
lost only if nobody is writing it. With `RaceInv` and `LowInv` (a re-fetch is of a document
that `Mirror` has, and does not move the newest id) and the invariants above, the proof has one
lemma for each kind of call (`AdderMirror`, `UpdateMirror`), which follow the calls through
the moves of `Moves`. After a crash, the newest file is what `__init__` makes `max_id`, and it
is the one `Mirror` has, the lost document included (`RestartMirror`).

What the users of the storage need follows from what a step does to the documents
(`StepEffects`): while the process lives, documents stay, the newest id grows, and a
document is replaced by an older version only when some call was overtaken
(`StoredDocsStay`); and however many threads a crash interrupts, it costs one document at
most (`LossesAreCrashes`).

`BoardListenerProofs` proves the four safety properties of the two runs of the
listener, for any number of threads, articles, pages, failures and deletions, and
for a board that changes during a round as well (`Quiet` is either):

    Inv == TypeInv /\ StopInv /\ (~mixedUp => OrderInv)
    OrderInv == FileInv /\ ThreadsInv /\ RoundKnows(ln)

`StopInv` says that whoever runs is in `_update_threads` and that those before
`stopper` have ended: `NoThreadAfterStop`. It needs that removing one thread from
the list loses no other (`WithoutOthers`). `MirrorInOrder` is far from inductive.
`FileInv` is what makes it true: document i is article i + 1, and nothing was
deleted that is not a document. It is kept because each thread knows
(`ThreadKnows`) that the articles it has still to hand out are as many as the ids
below it, each in its hands, on a page before or mirrored already, and that the url it holds is the
one of its id; and a thread starts with this because of what the round knows
(`RoundKnows`): what was read at its beginning is still so, and the number of new
urls is the number of articles above the newest document. That last fact is
`EstimateIsExact`, about `NumUrls` and the result of the page search; it is where the
rough estimate had to be excluded. `CompleteIsComplete` follows from `RoundKnows`, the
other two from `FileInv`. That a set of numbers with a bound has a largest
(`BoundedSetHasMax`) is a least-counterexample argument.

The attempt to prove `MirrorInOrder` showed that it did not hold as it was
first stated: with two articles deleted before they were mirrored, two documents
can end with one url. The run had one deletion, and did not find it. `mixedUp` now
remembers such a deletion (section 7).

The second part of `BoardListenerProofs` is about `PageSearch`. It proves `TypeOK` and `FoundPage` for boards of
any size with any numbers, any deletions and any random choices. The inductive invariant
`SearchInv` adds to them that every url older than `num` is on a page up to `upper` or
before `lower` in the right order, that is: nothing before `lower` is newer and nothing
after `upper` is older than `num`. On a board where the pages do not share a number
(`Apart`), as those of `BoardListener` do not (`BoardIsSearched`), the same argument with
strict orders (`StrictInv`) gives that the page is one that `PageOf` allows, which is all
that `BoardListener` knows of the search (`SearchGivesPageOf`). Of `SearchEnds` it
proves what is safety: the range gets smaller with each page that is of use and in no
other way (`SearchShrinks`), and is on the board while the newest article is not
older than `num` (`SearchStaysOnBoard`), so only a random page that is never drawn could
keep the search from its end.

`MinerServerProofs` proves the three safety properties of `ServerServes`, and
`TypeOK`, for any connections, boards and numbers of documents:

    Inv == HandlersInv /\ LockInv /\ WorkersInv /\ UpdatesInv /\ StopInv /\ RestInv

`OneWorker` is not inductive: that a second worker is never made needs `LockInv`
(the handler between its look at the dictionary and the first update holds the
lock, and nobody else is there) and the part of `WorkersInv` that says that a handler about
to make a worker has found none. `UpdatesInv` says that a board without an update
has its maker waiting for one, from which `QueriesSeeUpdates` follows for those who
get the lock later. For `NothingRunsAtExit`, `StopInv` says that every handler that
runs is in the list that `stop()` walks through and that those behind `joining` have
ended; so all have when `destroy()` begins, and nobody makes another worker.

`AppServerProofs` proves `CachesBounded`, and that `AppServer` implements
`Exchange` (`AnswersBelong`), for any articles, sizes of the lists, attempts and
number of faults:

    Inv == WorldInv /\ CachesInv /\ JobInv /\ ConnInv

`ConnInv` is the argument: a connection holds only what belongs to the call in
progress, its request or its answer, or a beginning of the answer when the server
has died; when nobody waits for it, it is empty. Hence the reply that is read next is the one to this
request, also in a connection that a failed call has left as it was. The refinement follows
from it step by step: `SendMoves`, `RetryMoves`, `RecvHeaderMoves`, `CutMoves` show
that these steps keep the answer or lose it, `ServeStepMoves` that `Serve` gives it,
`RecvBodyMoves` and `RaiseMoves` that the call ends with it or fails; `PromiseNext`
puts them together.

It also proves `FreshUnlessCached`, with

    FreshInv == WatchInv /\ PostInv /\ AskedInv /\ StreamInv /\ FreshUnlessCached

next to `Inv`: the lists of the proxies are those from when the POST arrived until
it asks them (`WatchInv`); what it has so far, and what is left to ask for, make up
a list that a server gave since, or the proxy had kept before (`PostInv`); the call in progress asks for that
(`AskedInv`), and what is in its connection was right at a moment since
(`StreamInv`). A reply from before the POST cannot be there because `ConnInv` of `Inv`
says that a connection nobody waits for is empty.

`AppClientProofs` proves both properties of `AppClient` for any number of
updates, lists and documents:

    Inv == TypeInv /\ FetchesInv /\ DocsInv /\ ShownInv

`DocsInv` says that a document is on its way or in the arrays and not both, which is why it
is shown once; `FetchesInv` that a callback of the last update holds a reference to
the arrays of this update, which is why an old one never writes into them;
`ShownInv` that the page has all of its update or nothing yet.

`AnalystProofs` proves `AnswersBestThree` for any number of documents, any weights and
both analysts:

    Inv == Typed /\ Counted /\ Picked

`Picked` has `BestSoFar`: the list in the making is in order, and leaves a document
that was looked at out only if it has three and this one is after them.
`InsertKeepsBest` is about one insertion: the new document goes behind the last one that
stays before it (`InsertIs`), and as the list is in order all before that one stay too;
the fourth is dropped, and is after three. That the list at the end is the `Top3` of the
definition (`BestIsTop3`) is counting: the document at place p of an ordered list has
p - 1 before it. The title analyst compares the other way round and
starts from the scores that are there; the proof needs `Counted`, that it comes to
score documents only if no document has a word, and then all scores are 0. This is
also `TitleWithWordsNeverServes`, the half of `OnlyContentServes` that is safety.
`ServedAreOthers` adds what is true of every list at once when the server listens.

`FirstMinerProofs` proves the three properties of `FirstMiner` for any numbers of
articles, pages, titles and crawls:

    Inv == TypeOK /\ CrawlInv /\ FilesInv /\ ServedInv

`ListInv` is what holds of the entries of one crawl: they count from 1, are of later
and later articles, have their own fields or older ones, and the file of an entry is in the
directory of the board if the path is relative or the entry is the first.
`CrawlInv` says it of the list being made, together with what keeps it so: no field, no
file of this crawl and no entry is of a row the crawl has not looked at, and the
working directory is that of the board until the first entry when the path is absolute.
`FilesInv` (one file of a name in a directory, none of a later crawl) makes the file of
an entry the one that is found by its name. `ServedInv` carries `ListInv` over to the
file of the entries and the process that serves them: nobody writes a file of an
article while there is a file of entries. `AfterIs` is about the loop of
`get_doc_meta_data_after_id`, a recursive function: it is the only function that
satisfies its definition, by a least counterexample, and the tail of the list satisfies it.
`SeriesIs` is about the positions of the articles of a title, each answered one further on.

Constants are constrained by named assumptions in the modules that declare them;
TLC evaluates them in every run. Most say that a number is a number. The others:
`FreeAssumption` (`MinerServer`) that the value for an unlocked lock is no
connection; `DocsAssumption` and `NoneAssumption` (`AppServer`) that -1 and "nothing"
are no articles, lists of articles, requests, calls or statuses;
`WeightsAssumption` (`Analyst`) that scores are added up from integers, as weights
can be scaled to be; `UnboundAssumption` (`FirstMiner`) that a variable without a value has no number.

Only model-checked:

 * Liveness and fairness, which the prover cannot handle: `StopJoins`, `StopEnds`,
   `CatchesUp`, `RequestsEnd`, `ShutdownEnds`, `SearchEnds`, `PostsEnd`, `Recovers`
   and the other properties with `<>` or `~>`, among them `OnlyContentServes` as far as
   it says that the content analyst comes to serve.

Every invariant and every action property that a run checks is a theorem.

The library states induction as theorems with an operator as parameter, which
the provers cannot instantiate. Where a proof needs it, it takes a least
counterexample instead: `WFMin` of `WellFoundedInduction` for a set of naturals that is
defined on the spot.

## 7. What the models show about the code

Behaviours of the code that somebody who relies on it should know. The models
contain them, and the properties are stated so that they hold nevertheless; the
hypotheses are these.

 * A query that reads a document before its re-fetch and caches it after the flush
   leaves the old version in the cache until a later round
   (`l2_miner/cache.py:145`). So do an exception in the walk, which skips the flush and
   ends the update thread for good (`l2_miner/cache.py:125`), one in the flush, and a
   fill thread that adds a document again. `OnlyLateInsertsGoStale` says that nothing
   else does.
 * The test for the file in `add_doc` is outside the lock (`l2_miner/storage.py:62`): two
   threads that fill one gap both crawl and write a document, and one that was
   overtaken may bring back the version it read before. `OnlyRacesOverwrite` says that
   only then a document is written over by an add, or replaced by an older one;
   `MirrorsPages` says how old it may be.
 * Deleted articles may share a placeholder url, and then cleaning both slots raises
   `KeyError`, which ends the update thread (`Flush`, `GrowFails`); `WindowInv` still
   holds (`CacheStop`), `IndexInv` and eviction assume unique urls. The search by url
   tells two articles of one second apart by nothing (`NumsAreUnique`, `UrlsInOrder`).
 * The thread that fills in old documents starts its pages at the last page instead of
   the one its first urls are from (`l2_miner/board_listener.py:165`), and files newer
   articles under old ids when there are three pages or more. `mixedUp` marks it.
 * An article posted between the estimate and the reading of the last page costs the
   oldest new article its id, and nobody looks for it again
   (`l2_miner/board_listener.py:152`); `Quiet` excludes it in the runs, `mixedUp`
   marks it.
 * An article that is deleted before it is mirrored leaves the thread with an id
   too many below it, and it makes a document of a placeholder, or of an article
   that another id has; a second one may lose the order of the urls that
   `get_doc_by_url` relies on (`l2_miner/board_listener.py:75`). The rough estimate
   for more than 50 pages does the same when a page is not full
   (`l2_miner/board_listener.py:218`).
 * The page search ends only if the newest article is not older than the one looked
   for (`SearchEnds`): otherwise it may end beyond the board and ask for a page that
   does not exist again and again.
 * The first query about a board waits with the worker lock held until the board
   has something new; so does every other query, and the shutdown, which joins the
   handlers before it raises the flag they look at (`l2_miner/real_backend.py:97`,
   `miner/modules/server.py:323`, `miner/main.py:66`).
 * A query for an id that is not mirrored waits for the file, and if it never comes,
   because the id is negative, beyond the board or of an article nobody adds, its
   handler waits for ever and the shutdown with it (`l2_miner/storage.py:93`).
   `RequestsEnd` and `ShutdownEnds` say that these two are the only ways.
 * A query by author is answered with an iterator, whose packing raises; a package
   that registers a listener raises. Both end the connection, not the server.
 * The application server never forgets an answer but by the size of its lists: it
   repeats -1 for an article that has been mirrored since, and keeps old
   recommendations (`FreshUnlessCached`); with size 0 the lists grow without
   bound (`CachesBounded`). The filter in `main_handler.py` removes nothing, since
   a dictionary with a key is true. Status 400 is buffered and not sent, as
   `end_headers()` is not called.
 * The last of the attempts to send ends in an error although it has just connected
   again (`Reconnect`).
 * In the extension, documents that arrive before the view has loaded its page are
   shown only when a later one arrives (`LateDocumentShowsAll`); the event that nobody
   listens to raises.
 * The title analyst, the default, does not come to serve once a document with good
   replies has a word (`tf_idf_analyst_title.cc:142`); its scores are also not
   reset from document to document, which this hides. Without any recent document both
   analysts read past the end of an empty vector (`FetchMeta`).
 * The first generation miner serves fields of an earlier article for one without a
   complete header, serves contents of the first article only when its path is
   absolute, and counts the ids in its answers from 1 and those it is asked for from
   0: asked with the id of an answer it gives the next article, asked with the id of
   `get_max_id` none, and after an id the articles above it, where
   `backend_interface.py:29-31` says those from it on. A series is one entry off, and
   raises when it has the newest article (`FieldsOfItsPage`, `ContentIsServed`,
   `IdsAreOneApart`). The last page of `--number` is not crawled.

## 8. Not modelled

 * `protocol_codecs`: the layout of packages in bytes. A package is a value in the
   models; that packing and unpacking agree is covered by unit tests of both sides.
 * `command_line`: the C++ option trees and argument parser, sequential code that
   runs before anything else.
 * `utilities_and_logging`: no protocol state.
 * Within modelled components: the text of pages, HTML parsing, pickling and its
   recursion limit; `_get_max_page_idx` by its result; word segmentation,
   stop words and the weights of tf-idf, NaN scores included; the fake and the empty
   analyst, which are constants; the accept loop of the analysis server on its own (it
   handles one connection at a time, and `AppServer` makes one);
   `get_doc_meta_data_after_time` and `get_id_by_url` of the first generation miner,
   which raise on every call (a name that is not imported, an integer in place
   of an identity), its filter by author, and `destroy()`, which it does not have.

## 9. The plan

Done: `Cache` and `Storage`, `BoardListener` and `PageSearch`, `MinerServer`,
`AppServer` with `Exchange`, `AppClient`, `Analyst`, `FirstMiner`, `Mirror`. Next:

1. `Mirror` as the storage of `Cache` too, in place of the theorem `StoredDocsStay`
   that joins them now.
2. The framing of packages (`protocol_codecs`) as a stream of lengths and bodies, with
   partial reads; the argument parser last.
