---------------------------- MODULE MinerServer ----------------------------
(***************************************************************************)
(* The second generation miner as a process: the server of                 *)
(* src/miner/modules/server.py with a thread for each connection, the      *)
(* backend of l2_miner/real_backend.py that starts the threads of a board  *)
(* when the board is first asked about, and the main thread of             *)
(* src/miner/main.py, which stops the one and then destroys the other.     *)
(*                                                                         *)
(* The boards are seen through what the queries wait for: the documents    *)
(* docs[b] are in the storage, updated[b] says that one was added since    *)
(* the board's Storage was made.  Cache, Storage and BoardListener are the *)
(* components behind them.                                                 *)
(***************************************************************************)
EXTENDS Integers, Sequences

CONSTANTS
  Conns,    \* bound: the connections ever made, each with its handler thread
  Boards,   \* the boards that are asked about
  Matches,  \* Matches[b]: the boards whose name occurs in the urls of board b
  MaxDocs,  \* bound, MaxDocs[b]: documents of board b
  AskedIds  \* bound: the ids that queries ask for; the wire carries any integer

ASSUME MatchesAssumption == Matches \in [Boards -> SUBSET Boards]
ASSUME MaxDocsAssumption == MaxDocs \in [Boards -> Nat \ {0}]
ASSUME AskedIdsAssumption == AskedIds \subseteq Int

VARIABLES
  main,     \* the main thread: "run", "stop", "raised", "destroy", "exit"
  joining,  \* position in _handler_threads of the thread that stop() joins
  listed,   \* _handler_threads
  conn,     \* the handler thread of each connection
  lock,     \* who holds _worker_lock
  workers,  \* the keys of _workers, in the order of their insertion
  running,  \* how many listeners of the board run
  updated,  \* updated of the Storage of the board
  halted,   \* the stop flag of that Storage
  docs      \* the documents of the board that are mirrored

serverVars == <<main, joining, listed>>
boardVars == <<running, updated, halted, docs>>
vars == <<serverVars, conn, lock, workers, boardVars>>

Free == "free"      \* _worker_lock is not held
ASSUME FreeAssumption == Free \notin Conns

Ids(b) == 0..(MaxDocs[b] - 1)

\* max_id of the Storage of a board
MaxId(b) == IF docs[b] = {} THEN -1 ELSE CHOOSE i \in docs[b] : \A j \in docs[b] : j <= i

HasWorker(b) == \E k \in 1..Len(workers) : workers[k] = b

-----------------------------------------------------------------------------
\* A handler.  pc: "none" before its connection, "made" until the thread is
\* started, "recv" for a package, "spin" in the body of a package whose sender
\* has gone, "lock" at _get_cache, "make" and "fresh" within it, "query" with the
\* cache, "scan" in get_id_by_url, "send" with the reply, "ended".
\* id is the one asked for, top the max_id that the query has read, and left
\* counts the calls of _get_cache still to come.
Handling(pc, op, b, n, left, size) ==
  [pc |-> pc, stop |-> FALSE, op |-> op, board |-> b, id |-> n, top |-> -1, left |-> left,
   size |-> size, at |-> 0]

Idle(pc) == Handling(pc, "none", "none", -1, 0, 0)

NoConn == Idle("none")

ConnGoesTo(c, h) == conn' = [conn EXCEPT ![c] = h]

\* A thread that has ended has nothing in hand, one with a reply the reply.
Ends(c) == ConnGoesTo(c, [Idle("ended") EXCEPT !.stop = conn[c].stop])
Replies(c) == ConnGoesTo(c, [Idle("send") EXCEPT !.stop = conn[c].stop])

\* run(): accept, _handler_threads.append(thr) ...
Accept(c) ==
  /\ main = "run" /\ conn[c].pc = "none"
  /\ \A d \in Conns : conn[d].pc # "made"
  /\ ConnGoesTo(c, Idle("made"))
  /\ listed' = Append(listed, c)
  /\ UNCHANGED <<main, joining, lock, workers, boardVars>>

\* ... and thr.start()
StartHandler(c) ==
  /\ main = "run" /\ conn[c].pc = "made"
  /\ ConnGoesTo(c, [conn[c] EXCEPT !.pc = "recv"])
  /\ UNCHANGED <<serverVars, lock, workers, boardVars>>

\* A request about board b: "max" is get_max_id, "doc" the queries for document
\* n and "series" the one that answers with its meta data alone; "list" asks for
\* the max_id and then reads down to the first document that is before n, by its
\* id or by its time, and "author" reads down to the end.
Request(c, b, op, n) ==
  /\ conn[c].pc = "recv" /\ ~conn[c].stop
  /\ ConnGoesTo(c, Handling("lock", op, b, n, IF op \in {"list", "author"} THEN 2 ELSE 1, 0))
  /\ UNCHANGED <<serverVars, lock, workers, boardVars>>

\* get_id_by_url starts to walk through the keys of _workers.
RequestUrl(c, b) ==
  /\ conn[c].pc = "recv" /\ ~conn[c].stop
  /\ ConnGoesTo(c, Handling("scan", "url", b, -1, 1, Len(workers)))
  /\ UNCHANGED <<serverVars, lock, workers, boardVars>>

\* A package of an unknown type or of a listener, or whose arguments cannot be
\* unpacked: the delegator raises, and the handler ends.
BadPackage(c) ==
  /\ conn[c].pc = "recv" /\ ~conn[c].stop
  /\ Ends(c)
  /\ UNCHANGED <<serverVars, lock, workers, boardVars>>

\* The sender closes between two packages: an exception, and the handler ends.
\* In the middle of a body recv answers with nothing again and again.
SenderGone(c) ==
  /\ conn[c].pc = "recv" /\ ~conn[c].stop
  /\ \E pc \in {"ended", "spin"} : ConnGoesTo(c, [conn[c] EXCEPT !.pc = pc])
  /\ UNCHANGED <<serverVars, lock, workers, boardVars>>

\* Fault: the flag is not looked at in the middle of a body.
SeesStopBetween(c) ==
  /\ conn[c].pc \in {"recv", "send"} /\ conn[c].stop
  /\ Ends(c)
  /\ UNCHANGED <<serverVars, lock, workers, boardVars>>

\* The flag is polled while receiving and while sending, nowhere else.
SeesStop(c) ==
  /\ conn[c].pc \in {"recv", "spin", "send"} /\ conn[c].stop
  /\ Ends(c)
  /\ UNCHANGED <<serverVars, lock, workers, boardVars>>

\* The next key: a dictionary that has grown in the meantime raises, and at its end
\* the answer is DocIdentity('', -1).
ScanStep(c) ==
  /\ conn[c].pc = "scan"
  /\ LET h == conn[c] IN
     \/ Len(workers) # h.size /\ Ends(c)
     \/ Len(workers) = h.size /\ h.at = h.size /\ Replies(c)
     \/ /\ Len(workers) = h.size /\ h.at < h.size
        /\ ConnGoesTo(c, IF workers[h.at + 1] \in Matches[h.board]
                         THEN [Handling("lock", "url", workers[h.at + 1], -1, 1, 0)
                                 EXCEPT !.stop = h.stop]
                         ELSE [h EXCEPT !.at = @ + 1])
  /\ UNCHANGED <<serverVars, lock, workers, boardVars>>

-----------------------------------------------------------------------------
\* _get_cache

\* Fault: the lock is not taken.
LockIgnored == TRUE

LockFree == lock = Free

\* with self._worker_lock: if board not in self._workers
GetCache(c) ==
  /\ conn[c].pc = "lock"
  /\ LockFree
  /\ IF HasWorker(conn[c].board)
     THEN /\ ConnGoesTo(c, [conn[c] EXCEPT !.pc = "query", !.left = @ - 1])
          /\ lock' = lock
     ELSE /\ ConnGoesTo(c, [conn[c] EXCEPT !.pc = "make"])
          /\ lock' = c
  /\ UNCHANGED <<serverVars, workers, boardVars>>

\* Fault: the lock is released before the first document is there.
MakeWorkerUnlocks(c) ==
  /\ conn[c].pc = "make"
  /\ LET b == conn[c].board
     IN  /\ workers' = Append(workers, b)
         /\ running' = [running EXCEPT ![b] = @ + 1]
         /\ updated' = [updated EXCEPT ![b] = FALSE]
         /\ halted' = [halted EXCEPT ![b] = FALSE]
  /\ ConnGoesTo(c, [conn[c] EXCEPT !.pc = "fresh"])
  /\ lock' = Free
  /\ UNCHANGED <<serverVars, docs>>

\* The Storage, the Cache and the BoardListener are made; the listener starts.
MakeWorker(c) ==
  /\ conn[c].pc = "make"
  /\ LET b == conn[c].board
     IN  /\ workers' = Append(workers, b)
         /\ running' = [running EXCEPT ![b] = @ + 1]
         /\ updated' = [updated EXCEPT ![b] = FALSE]
         /\ halted' = [halted EXCEPT ![b] = FALSE]
  /\ ConnGoesTo(c, [conn[c] EXCEPT !.pc = "fresh"])
  /\ UNCHANGED <<serverVars, lock, docs>>

\* Fault: the lock is kept.
FirstUpdateKeeps(c) ==
  /\ conn[c].pc = "fresh"
  /\ updated[conn[c].board]
  /\ ConnGoesTo(c, [conn[c] EXCEPT !.pc = "query", !.left = @ - 1])
  /\ UNCHANGED <<serverVars, lock, workers, boardVars>>

\* while not c.updated: time.sleep(0.1), with the lock held
FirstUpdate(c) ==
  /\ conn[c].pc = "fresh"
  /\ updated[conn[c].board]
  /\ ConnGoesTo(c, [conn[c] EXCEPT !.pc = "query", !.left = @ - 1])
  /\ lock' = Free
  /\ UNCHANGED <<serverVars, workers, boardVars>>

-----------------------------------------------------------------------------
\* The documents a query reads, from the newest one down.
Reads(h) ==
  CASE h.op = "doc"    -> {h.id}
    [] h.op = "series" -> {h.id} \cap Nat
    [] h.op = "list"   -> {i \in 0..h.top : i >= h.id - 1 \/ i = h.top}
    [] h.op = "author" -> 0..h.top
    [] OTHER           -> {}

Mirrored(h) == Reads(h) \subseteq docs[h.board]

\* The max_id, before _yield_board_meta calls _get_cache again.
ReadMaxId(c) ==
  /\ conn[c].pc = "query" /\ conn[c].left > 0
  /\ ConnGoesTo(c, [conn[c] EXCEPT !.pc = "lock", !.top = MaxId(conn[c].board)])
  /\ UNCHANGED <<serverVars, lock, workers, boardVars>>

\* Storage.get_doc_by_id waits for each document until it is there, whatever its id,
\* or until notify_stop was called, which finds nobody waiting, since destroy() comes
\* after the handlers.  None in place of a document, or one that cannot be read, raises;
\* so does packing the answer to "author", an iterator without len(), or None for a
\* series from a negative id.
Answer(c) ==
  /\ conn[c].pc = "query" /\ conn[c].left = 0
  /\ Mirrored(conn[c]) \/ halted[conn[c].board]
  /\ LET h == conn[c] IN
     \/ Mirrored(h) /\ h.op # "author" /\ ~(h.op = "series" /\ h.id < 0) /\ Replies(c)
     \/ h.op # "max" /\ Ends(c)
  /\ UNCHANGED <<serverVars, lock, workers, boardVars>>

\* The reply is sent, or the peer is not there any more.
SendPackage(c) ==
  /\ conn[c].pc = "send" /\ ~conn[c].stop
  /\ \E pc \in {"recv", "ended"} : ConnGoesTo(c, Idle(pc))
  /\ UNCHANGED <<serverVars, lock, workers, boardVars>>

\* The listener of a board or a thread that fills its gaps adds a document: in any
\* order, and not necessarily each.
AddDoc(b, i) ==
  /\ running[b] > 0
  /\ i \notin docs[b]
  /\ docs' = [docs EXCEPT ![b] = @ \cup {i}]
  /\ updated' = [updated EXCEPT ![b] = TRUE]
  /\ UNCHANGED <<serverVars, conn, lock, workers, running, halted>>

-----------------------------------------------------------------------------
\* The main thread.  The interrupt ends run() wherever it is; stop() and destroy()
\* are called by the same thread.
TellToStop(k) ==
  conn' = IF k <= Len(listed) THEN [conn EXCEPT ![listed[k]].stop = TRUE] ELSE conn

Interrupt ==
  /\ main = "run"
  /\ main' = "stop"
  /\ joining' = 1
  /\ TellToStop(1)
  /\ UNCHANGED <<listed, lock, workers, boardVars>>

\* Fault: the handlers are told to stop and not waited for.
JoinNot ==
  /\ main = "stop" /\ joining <= Len(listed)
  /\ joining' = joining + 1
  /\ main' = main
  /\ TellToStop(joining + 1)
  /\ UNCHANGED <<listed, lock, workers, boardVars>>

\* handler_thread.join(), which raises if the thread was not started.
Join ==
  /\ main = "stop" /\ joining <= Len(listed)
  /\ \/ /\ conn[listed[joining]].pc = "ended"
        /\ joining' = joining + 1
        /\ main' = main
        /\ TellToStop(joining + 1)
     \/ /\ conn[listed[joining]].pc = "made"
        /\ main' = "raised"
        /\ UNCHANGED <<joining, conn>>
  /\ UNCHANGED <<listed, lock, workers, boardVars>>

StopReturns ==
  /\ main = "stop" /\ joining > Len(listed)
  /\ main' = "destroy"
  /\ listed' = <<>>
  /\ UNCHANGED <<joining, conn, lock, workers, boardVars>>

\* destroy(): with self._worker_lock, for every worker: the listener is stopped
\* and joined, the update thread of the cache too, the waiting queries are woken.
Destroy ==
  /\ main = "destroy"
  /\ LockFree
  /\ main' = "exit"
  /\ running' = [b \in Boards |-> IF HasWorker(b) THEN 0 ELSE running[b]]
  /\ halted' = [b \in Boards |-> HasWorker(b) \/ halted[b]]
  /\ workers' = <<>>
  /\ UNCHANGED <<joining, listed, conn, lock, updated, docs>>

-----------------------------------------------------------------------------
\* Boards may have been mirrored before.
Init ==
  /\ main = "run" /\ joining = 0 /\ listed = <<>>
  /\ conn = [c \in Conns |-> NoConn]
  /\ lock = Free /\ workers = <<>>
  /\ running = [b \in Boards |-> 0]
  /\ updated = [b \in Boards |-> FALSE]
  /\ halted = [b \in Boards |-> FALSE]
  /\ docs \in [Boards -> SUBSET UNION {Ids(b) : b \in Boards}]
  /\ \A b \in Boards : docs[b] \subseteq Ids(b)

ConnStep(c) ==
  \/ SeesStop(c) \/ ScanStep(c) \/ GetCache(c) \/ MakeWorker(c)
  \/ FirstUpdate(c) \/ ReadMaxId(c) \/ Answer(c) \/ SendPackage(c)

Asked(c) ==
  \/ \E b \in Boards :
       \/ Request(c, b, "max", -1)
       \/ Request(c, b, "author", -1)
       \/ \E op \in {"doc", "series", "list"}, n \in AskedIds : Request(c, b, op, n)
       \/ RequestUrl(c, b)
  \/ BadPackage(c) \/ SenderGone(c)

MainStep == Join \/ StopReturns \/ Destroy

Next ==
  \/ \E c \in Conns : ConnStep(c) \/ Asked(c) \/ Accept(c) \/ StartHandler(c)
  \/ \E b \in Boards : \E i \in Ids(b) : AddDoc(b, i)
  \/ Interrupt \/ MainStep

Spec == Init /\ [][Next]_vars

\* Threads are scheduled, and a thread that waits for a lock gets it some time.
\* Nobody has to ask or to interrupt, and no board has to have anything to add.
FairSpec ==
  /\ Spec
  /\ WF_vars(MainStep)
  /\ \A c \in Conns : WF_vars(ConnStep(c)) /\ SF_vars(GetCache(c))

-----------------------------------------------------------------------------
TypeOK ==
  /\ main \in {"run", "stop", "raised", "destroy", "exit"}
  /\ joining \in Nat
  /\ listed \in Seq(Conns) /\ workers \in Seq(Boards)
  /\ conn \in
       [Conns ->
          [pc: {"none", "made", "recv", "spin", "lock", "make", "fresh", "query", "scan",
                "send", "ended"},
           stop: BOOLEAN, op: {"none", "max", "doc", "series", "list", "author", "url"},
           board: Boards \cup {"none"}, id: AskedIds \cup {-1}, top: Nat \cup {-1},
           left: 0..2, size: Nat, at: Nat]]
  /\ lock \in Conns \cup {Free}
  /\ running \in [Boards -> Nat]
  /\ updated \in [Boards -> BOOLEAN] /\ halted \in [Boards -> BOOLEAN]
  /\ docs \in [Boards -> SUBSET Nat] /\ \A b \in Boards : docs[b] \subseteq Ids(b)

\* However many first queries about a board arrive at once, one worker is made
\* (_get_cache): two listeners would write into one directory, each Storage with a
\* max_id of its own.
OneWorker ==
  /\ \A b \in Boards : running[b] <= 1
  /\ \A j, k \in 1..Len(workers) : workers[j] = workers[k] => j = k

\* No query sees a cache whose storage has not been updated yet, whoever made the
\* worker: they wait behind the lock (_get_cache).
QueriesSeeUpdates == \A c \in Conns : conn[c].pc = "query" => updated[conn[c].board]

\* When the process leaves main() in the normal way, no handler and no listener
\* of any board runs: server.stop() comes before backend.destroy(), and no handler
\* that still has a request makes a worker after it (main.py).
NothingRunsAtExit ==
  main = "exit" =>
    /\ \A c \in Conns : conn[c].pc \in {"none", "ended"}
    /\ \A b \in Boards : running[b] = 0

\* What a handler may wait for without end: a document in Storage.get_doc_by_id
\* (storage.py:93), the first document of a board in _get_cache
\* (real_backend.py:97), or the lock that another holds while it waits for that.
WaitsForUpdate(c) == conn[c].pc = "fresh" /\ ~updated[conn[c].board]
WaitsForDoc(c) ==
  /\ conn[c].pc = "query" /\ conn[c].left = 0
  /\ ~Mirrored(conn[c]) /\ ~halted[conn[c].board]
Held(c) ==
  \/ WaitsForUpdate(c) \/ WaitsForDoc(c)
  \/ conn[c].pc = "lock" /\ lock # Free /\ WaitsForUpdate(lock)

\* Every request is answered, or its handler ends, although each waits for its
\* board to be set up and for the setting up of others; unless what it waits for
\* in the storage never comes, and nothing else.
RequestsEnd ==
  \A c \in Conns :
    \/ <>[]Held(c)
    \/ conn[c].pc \in {"lock", "scan"} ~> conn[c].pc \in {"recv", "ended"}

\* "Stops the server." (server.py:319) and what follows in main.py come to an end,
\* unless the handler that stop() joins waits in the storage for ever: only
\* destroy(), which comes later, would end its wait (server.py:323, main.py:62).
ShutdownEnds ==
  \/ <>[](main = "stop" /\ joining <= Len(listed) /\ Held(listed[joining]))
  \/ main = "stop" ~> main \in {"exit", "raised"}
=============================================================================
