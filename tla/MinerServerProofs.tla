------------------------- MODULE MinerServerProofs -------------------------
(***************************************************************************)
(* However many connections ask about however many boards at once, each    *)
(* board gets one worker, no query runs before the first update of its     *)
(* board, and nothing is left running at the exit of the process.          *)
(***************************************************************************)
EXTENDS MinerServer, WellFoundedInduction, TLAPS

Handler ==
  [pc: {"none", "made", "recv", "spin", "lock", "make", "fresh", "query", "scan",
        "send", "ended"},
   stop: BOOLEAN, op: {"none", "max", "doc", "series", "list", "author", "url"},
   board: Boards \cup {"none"}, id: AskedIds \cup {-1}, top: Nat \cup {-1},
   left: 0..2, size: Nat, at: Nat]

\* What a handler has in hand where it is: a board and a call of _get_cache.
HandlerOK(h) ==
  /\ h \in Handler
  /\ h.pc \in {"lock", "make", "fresh", "query", "scan"} => h.board \in Boards
  /\ h.pc \in {"lock", "make", "fresh", "scan"} => h.left \in 1..2
  /\ h.pc = "scan" => h.at <= h.size

HandlersInv == conn \in [Conns -> Handler] /\ \A c \in Conns : HandlerOK(conn[c])

\* The lock is held by the handler that makes a worker, from the look at the
\* dictionary to the first update.
LockInv ==
  /\ lock \in Conns \cup {Free}
  /\ \A c \in Conns : lock = c <=> conn[c].pc \in {"make", "fresh"}

\* The dictionary is what runs; who makes a worker has found none.
WorkersInv ==
  /\ workers \in Seq(Boards)
  /\ running \in [Boards -> Nat] /\ updated \in [Boards -> BOOLEAN]
  /\ \A b \in Boards : running[b] = IF HasWorker(b) THEN 1 ELSE 0
  /\ \A j, k \in 1..Len(workers) : workers[j] = workers[k] => j = k
  /\ \A c \in Conns : conn[c].pc = "make" => ~HasWorker(conn[c].board)
  /\ \A c \in Conns : conn[c].pc \in {"fresh", "query"} => HasWorker(conn[c].board)

\* A board without an update has its maker waiting for one.
UpdatesInv ==
  /\ \A b \in Boards : HasWorker(b) =>
       updated[b] \/ \E c \in Conns : conn[c].pc = "fresh" /\ conn[c].board = b
  /\ QueriesSeeUpdates

\* Every handler that runs is in the list that stop() walks through, and those
\* that it has passed have ended.
StopInv ==
  /\ main \in {"run", "stop", "raised", "destroy", "exit"}
  /\ joining \in Nat /\ listed \in Seq(Conns)
  /\ main \in {"run", "stop", "raised"} =>
       \A c \in Conns : conn[c].pc # "none" => \E k \in 1..Len(listed) : listed[k] = c
  /\ main = "stop" =>
       joining > 0 /\ \A k \in 1..Len(listed) : k < joining => conn[listed[k]].pc = "ended"
  /\ main \in {"destroy", "exit"} => \A c \in Conns : conn[c].pc \in {"none", "ended"}
  /\ main = "exit" => workers = <<>>

RestInv ==
  /\ halted \in [Boards -> BOOLEAN]
  /\ docs \in [Boards -> SUBSET Nat] /\ \A b \in Boards : docs[b] \subseteq Ids(b)

Inv == HandlersInv /\ LockInv /\ WorkersInv /\ UpdatesInv /\ StopInv /\ RestInv

\* Nothing runs at the beginning.
LEMMA InitInv == Init => Inv
<1> SUFFICES ASSUME Init PROVE Inv
  OBVIOUS
<1> USE DEF Init
<1>1. NoConn \in Handler /\ NoConn.pc = "none"
  BY DEF NoConn, Idle, Handling, Handler
<1>2. HandlersInv
  BY <1>1 DEF HandlersInv, HandlerOK
<1>3. LockInv
  BY <1>1, FreeAssumption DEF LockInv
<1>4. WorkersInv
  BY <1>1 DEF WorkersInv, HasWorker
<1>5. UpdatesInv
  BY <1>1 DEF UpdatesInv, QueriesSeeUpdates, HasWorker
<1>6. StopInv
  BY <1>1 DEF StopInv
<1>7. RestInv
  BY MaxDocsAssumption DEF RestInv, Ids
<1> QED
  BY <1>2, <1>3, <1>4, <1>5, <1>6, <1>7 DEF Inv

\* A step of a handler that touches nothing but its own record, and neither
\* takes the lock nor begins a query.
LEMMA QuietStep ==
  ASSUME Inv, NEW c \in Conns, NEW h, ConnGoesTo(c, h), HandlerOK(h),
         conn[c].pc \notin {"none", "make", "fresh", "ended"},
         h.pc \notin {"none", "make", "fresh", "query"},
         UNCHANGED <<serverVars, lock, workers, boardVars>>
  PROVE  Inv'
<1> USE DEF serverVars, boardVars
<1>1. /\ conn' = [conn EXCEPT ![c] = h] /\ conn'[c] = h
      /\ \A d \in Conns : d # c => conn'[d] = conn[d]
  BY DEF ConnGoesTo, Inv, HandlersInv
<1>2. HandlersInv'
  BY <1>1 DEF Inv, HandlersInv, HandlerOK
<1>3. LockInv'
  BY <1>1 DEF Inv, LockInv
<1>4. WorkersInv'
  BY <1>1 DEF Inv, WorkersInv, HasWorker
<1>5. UpdatesInv'
  BY <1>1 DEF Inv, UpdatesInv, QueriesSeeUpdates, HasWorker
<1>6. StopInv'
  BY <1>1 DEF Inv, StopInv
<1>7. RestInv'
  BY DEF Inv, RestInv
<1> QED
  BY <1>2, <1>3, <1>4, <1>5, <1>6, <1>7 DEF Inv

\* A handler that ends or has its reply has nothing else in hand.
LEMMA LeaveInv ==
  ASSUME Inv, NEW c \in Conns, Ends(c) \/ Replies(c),
         conn[c].pc \notin {"none", "make", "fresh", "ended"},
         UNCHANGED <<serverVars, lock, workers, boardVars>>
  PROVE  Inv'
<1>1. PICK pc \in {"ended", "send"} : ConnGoesTo(c, [Idle(pc) EXCEPT !.stop = conn[c].stop])
  BY DEF Ends, Replies
<1> DEFINE h == [Idle(pc) EXCEPT !.stop = conn[c].stop]
<1>2. conn[c].stop \in BOOLEAN
  BY DEF Inv, HandlersInv, Handler
<1>3. HandlerOK(h) /\ h.pc = pc
  BY <1>2 DEF HandlerOK, Handler, Handling, Idle
<1> HIDE DEF h
<1> QED
  BY <1>1, <1>3, QuietStep DEF h

\* The max_id of a board is an id, or -1.
LEMMA MaxIdTyped ==
  ASSUME Inv, NEW b \in Boards
  PROVE  MaxId(b) \in Nat \cup {-1}
<1>1. CASE docs[b] = {}
  BY <1>1 DEF MaxId
<1>2. CASE docs[b] # {}
  <2> DEFINE n == MaxDocs[b]
             T == {n - i : i \in docs[b]}
  <2>1. n \in Nat /\ docs[b] \subseteq Nat /\ \A i \in docs[b] : i < n
    BY MaxDocsAssumption DEF Inv, RestInv, Ids
  <2>2. T \subseteq Nat /\ T # {}
    BY <1>2, <2>1
  <2> HIDE DEF T
  <2>3. PICK m \in T : \A l \in T : ~ (<<l, m>> \in OpToRel(<, Nat))
    BY <2>2, WFMin, NatLessThanWellFounded, Zenon
  <2>4. \A l \in T : ~ (l < m)
    BY <2>2, <2>3 DEF OpToRel
  <2> USE DEF T
  <2>5. PICK i \in docs[b] : m = n - i
    OBVIOUS
  <2>6. ASSUME NEW j \in docs[b] PROVE j <= i
    <3>1. ~ (n - j < n - i)
      BY <2>4, <2>5
    <3> QED
      BY <2>1, <3>1
  <2>7. MaxId(b) \in docs[b]
    BY <1>2, <2>6 DEF MaxId
  <2> QED
    BY <2>1, <2>7
<1> QED
  BY <1>1, <1>2

\* What Request, RequestUrl and the others that end a handler make of it.
LEMMA AskedInv ==
  ASSUME Inv, NEW c \in Conns, Asked(c)
  PROVE  Inv'
<1>0. HandlerOK(conn[c])
  BY DEF Inv, HandlersInv
<1>1. ASSUME NEW b \in Boards, NEW op \in {"max", "doc", "series", "list", "author"},
             NEW n \in AskedIds \cup {-1}, Request(c, b, op, n)
      PROVE  Inv'
  <2> DEFINE left == IF op \in {"list", "author"} THEN 2 ELSE 1
  <2> DEFINE h == Handling("lock", op, b, n, left, 0)
  <2>1. left \in 1..2
    OBVIOUS
  <2> HIDE DEF left
  <2>2. HandlerOK(h) /\ h.pc = "lock"
    BY <2>1 DEF HandlerOK, Handler, Handling
  <2>3. /\ ConnGoesTo(c, h) /\ conn[c].pc = "recv"
        /\ UNCHANGED <<serverVars, lock, workers, boardVars>>
    BY <1>1 DEF Request, left
  <2> HIDE DEF h
  <2> QED
    BY <2>2, <2>3, QuietStep
<1>2. ASSUME NEW b \in Boards, RequestUrl(c, b)
      PROVE  Inv'
  <2> DEFINE h == Handling("scan", "url", b, -1, 1, Len(workers))
  <2>1. Len(workers) \in Nat
    BY DEF Inv, WorkersInv
  <2>2. HandlerOK(h) /\ h.pc = "scan"
    BY <2>1 DEF HandlerOK, Handler, Handling
  <2>3. /\ ConnGoesTo(c, h) /\ conn[c].pc = "recv"
        /\ UNCHANGED <<serverVars, lock, workers, boardVars>>
    BY <1>2 DEF RequestUrl
  <2> HIDE DEF h
  <2> QED
    BY <2>2, <2>3, QuietStep
<1>3. ASSUME NEW pc \in {"ended", "spin"}, conn[c].pc = "recv",
             ConnGoesTo(c, [conn[c] EXCEPT !.pc = pc]),
             UNCHANGED <<serverVars, lock, workers, boardVars>>
      PROVE  Inv'
  <2> DEFINE h == [conn[c] EXCEPT !.pc = pc]
  <2>1. HandlerOK(h) /\ h.pc = pc
    BY <1>0 DEF HandlerOK, Handler
  <2> HIDE DEF h
  <2> QED
    BY <1>3, <2>1, QuietStep DEF h
<1>4. CASE BadPackage(c)
  BY <1>4, LeaveInv DEF BadPackage
<1>5. CASE SenderGone(c)
  BY <1>3, <1>5 DEF SenderGone
<1> QED
  BY <1>1, <1>2, <1>4, <1>5 DEF Asked

\* A connection is accepted: its handler is listed and not started yet.
LEMMA AcceptInv ==
  ASSUME Inv, NEW c \in Conns, Accept(c)
  PROVE  Inv'
<1> DEFINE h == Idle("made")
<1>1. HandlerOK(h) /\ h.pc = "made"
  BY DEF HandlerOK, Handler, Handling, Idle
<1>2. /\ main = "run" /\ conn[c].pc = "none" /\ conn' = [conn EXCEPT ![c] = h]
      /\ listed' = Append(listed, c)
      /\ UNCHANGED <<main, joining, lock, workers, running, updated, halted, docs>>
  BY DEF Accept, ConnGoesTo, boardVars
<1>3. conn'[c] = h /\ \A d \in Conns : d # c => conn'[d] = conn[d]
  BY <1>2 DEF Inv, HandlersInv
<1> HIDE DEF h
<1>4. HandlersInv'
  BY <1>1, <1>2, <1>3 DEF Inv, HandlersInv, HandlerOK
<1>5. LockInv'
  BY <1>1, <1>2, <1>3 DEF Inv, LockInv
<1>6. WorkersInv'
  BY <1>1, <1>2, <1>3 DEF Inv, WorkersInv, HasWorker
<1>7. UpdatesInv'
  BY <1>1, <1>2, <1>3 DEF Inv, UpdatesInv, QueriesSeeUpdates, HasWorker
<1>8. StopInv'
  <2>1. /\ listed' \in Seq(Conns) /\ Len(listed') = Len(listed) + 1
        /\ listed'[Len(listed) + 1] = c /\ \A k \in 1..Len(listed) : listed'[k] = listed[k]
        /\ Len(listed) \in Nat
    BY <1>2 DEF Inv, StopInv
  <2> QED
    BY <2>1, <1>2, <1>3 DEF Inv, StopInv
<1>9. RestInv'
  BY <1>2 DEF Inv, RestInv
<1> QED
  BY <1>4, <1>5, <1>6, <1>7, <1>8, <1>9 DEF Inv

\* The steps of a handler outside _get_cache.
LEMMA HandlerInv ==
  ASSUME Inv, NEW c \in Conns,
         \/ StartHandler(c) \/ SeesStop(c) \/ ScanStep(c) \/ SendPackage(c)
         \/ ReadMaxId(c) \/ Answer(c)
  PROVE  Inv'
<1> DEFINE o == conn[c]
<1>0. HandlerOK(o)
  BY DEF Inv, HandlersInv
<1>2. CASE StartHandler(c)
  <2> DEFINE h == [o EXCEPT !.pc = "recv"]
  <2>1. HandlerOK(h) /\ h.pc = "recv"
    BY <1>0 DEF HandlerOK, Handler
  <2>2. o.pc = "made" /\ ConnGoesTo(c, h) /\ UNCHANGED <<serverVars, lock, workers, boardVars>>
    BY <1>2 DEF StartHandler
  <2> HIDE DEF h
  <2> QED
    BY <2>1, <2>2, QuietStep
<1>3. CASE SeesStop(c) \/ Answer(c)
  BY <1>3, LeaveInv DEF SeesStop, Answer
<1>4. CASE ScanStep(c)
  <2>1. o.pc = "scan" /\ UNCHANGED <<serverVars, lock, workers, boardVars>>
    BY <1>4 DEF ScanStep
  <2>2. CASE Ends(c) \/ Replies(c)
    BY <2>1, <2>2, LeaveInv
  <2>3. CASE ~(Ends(c) \/ Replies(c))
    <3>1. Len(workers) = o.size /\ o.at < o.size
      BY <1>4, <2>3 DEF ScanStep
    <3>2. workers[o.at + 1] \in Boards
      BY <1>0, <2>1, <3>1 DEF Inv, WorkersInv, HandlerOK, Handler
    <3>3. CASE workers[o.at + 1] \in Matches[o.board]
      <4> DEFINE h == [Handling("lock", "url", workers[o.at + 1], -1, 1, 0) EXCEPT !.stop = o.stop]
      <4>1. ConnGoesTo(c, h)
        BY <1>4, <2>3, <3>3 DEF ScanStep
      <4>2. HandlerOK(h) /\ h.pc = "lock"
        BY <1>0, <3>2 DEF HandlerOK, Handler, Handling
      <4> HIDE DEF h
      <4> QED
        BY <2>1, <4>1, <4>2, QuietStep
    <3>4. CASE workers[o.at + 1] \notin Matches[o.board]
      <4> DEFINE h == [o EXCEPT !.at = @ + 1]
      <4>1. ConnGoesTo(c, h)
        BY <1>4, <2>3, <3>4 DEF ScanStep
      <4>2. HandlerOK(h) /\ h.pc = "scan"
        BY <1>0, <2>1, <3>1 DEF HandlerOK, Handler
      <4> HIDE DEF h
      <4> QED
        BY <2>1, <4>1, <4>2, QuietStep
    <3> QED
      BY <3>3, <3>4
  <2> QED
    BY <2>2, <2>3
<1>5. CASE ReadMaxId(c)
  <2> DEFINE h == [o EXCEPT !.pc = "lock", !.top = MaxId(o.board)]
  <2>1. /\ o.pc = "query" /\ o.left > 0 /\ ConnGoesTo(c, h)
        /\ UNCHANGED <<serverVars, lock, workers, boardVars>>
    BY <1>5 DEF ReadMaxId
  <2>2. o.board \in Boards
    BY <1>0, <2>1 DEF HandlerOK
  <2>3. MaxId(o.board) \in Nat \cup {-1}
    BY <2>2, MaxIdTyped
  <2>4. HandlerOK(h) /\ h.pc = "lock"
    <3>1. o \in Handler /\ o.left \in 1..2
      BY <1>0, <2>1 DEF HandlerOK, Handler
    <3> DEFINE m == MaxId(o.board)
    <3>2. m \in Nat \cup {-1} /\ h = [o EXCEPT !.pc = "lock", !.top = m]
      BY <2>3
    <3> HIDE DEF m, h
    <3>3. h \in Handler /\ h.pc = "lock" /\ h.board = o.board /\ h.left = o.left
      BY <3>1, <3>2 DEF Handler
    <3> QED
      BY <2>2, <3>1, <3>3 DEF HandlerOK
  <2> HIDE DEF h
  <2> QED
    BY <2>1, <2>4, QuietStep
<1>6. CASE SendPackage(c)
  <2>1. PICK pc \in {"recv", "ended"} : ConnGoesTo(c, Idle(pc))
    BY <1>6 DEF SendPackage
  <2>2. o.pc = "send" /\ UNCHANGED <<serverVars, lock, workers, boardVars>>
    BY <1>6 DEF SendPackage
  <2> DEFINE h == Idle(pc)
  <2>3. HandlerOK(h) /\ h.pc = pc
    BY DEF HandlerOK, Handler, Handling, Idle
  <2> HIDE DEF h
  <2> QED
    BY <2>1, <2>2, <2>3, QuietStep DEF h
<1> QED
  BY <1>2, <1>3, <1>4, <1>5, <1>6

\* The lock is taken if there is no worker; if there is one and nobody holds the
\* lock, nobody waits for its first update any more.
LEMMA GetCacheInv ==
  ASSUME Inv, NEW c \in Conns, GetCache(c)
  PROVE  Inv'
<1> DEFINE o == conn[c]
<1>0. /\ HandlerOK(o) /\ o.pc = "lock" /\ o.board \in Boards /\ o.left \in 1..2
      /\ lock = Free /\ UNCHANGED <<main, joining, listed, workers, boardVars>>
  BY DEF Inv, HandlersInv, HandlerOK, GetCache, LockFree, serverVars
<1>1. main \notin {"destroy", "exit"}
  BY <1>0 DEF Inv, StopInv
<1>2. ASSUME NEW h, HandlerOK(h), h.board = o.board, conn' = [conn EXCEPT ![c] = h],
             \/ h.pc = "query" /\ lock' = lock /\ HasWorker(o.board)
             \/ h.pc = "make" /\ lock' = c /\ ~HasWorker(o.board)
      PROVE  Inv'
  <2> USE DEF boardVars
  <2>1. conn'[c] = h /\ \A d \in Conns : d # c => conn'[d] = conn[d]
    BY <1>2 DEF Inv, HandlersInv
  <2>2. HandlersInv'
    BY <1>2, <2>1 DEF Inv, HandlersInv, HandlerOK
  <2>3. LockInv'
    BY <1>0, <1>2, <2>1, FreeAssumption DEF Inv, LockInv
  <2>4. WorkersInv'
    <3>1. ASSUME NEW d \in Conns
          PROVE  /\ conn'[d].pc = "make" => ~HasWorker(conn'[d].board)
                 /\ conn'[d].pc \in {"fresh", "query"} => HasWorker(conn'[d].board)
      BY <1>2, <2>1 DEF Inv, WorkersInv
    <3> QED
      BY <1>0, <3>1 DEF Inv, WorkersInv, HasWorker
  <2>5. \A d \in Conns : conn[d].pc \notin {"make", "fresh"}
    BY <1>0, FreeAssumption DEF Inv, LockInv
  <2>6. UpdatesInv'
    BY <1>0, <1>2, <2>1, <2>5 DEF Inv, UpdatesInv, QueriesSeeUpdates, HasWorker
  <2>7. StopInv'
    BY <1>0, <1>1, <1>2, <2>1 DEF Inv, StopInv
  <2>8. RestInv'
    BY <1>0 DEF Inv, RestInv
  <2> QED
    BY <2>2, <2>3, <2>4, <2>6, <2>7, <2>8 DEF Inv
<1>3. CASE HasWorker(o.board)
  <2> DEFINE h == [o EXCEPT !.pc = "query", !.left = @ - 1]
  <2>1. HandlerOK(h) /\ h.pc = "query" /\ h.board = o.board
    <3>1. o.left - 1 \in 0..2
      BY <1>0
    <3> QED
      BY <1>0, <3>1 DEF HandlerOK, Handler
  <2>2. conn' = [conn EXCEPT ![c] = h] /\ lock' = lock
    BY <1>3 DEF GetCache, ConnGoesTo
  <2> HIDE DEF h
  <2> QED
    BY <1>2, <1>3, <2>1, <2>2
<1>4. CASE ~HasWorker(o.board)
  <2> DEFINE h == [o EXCEPT !.pc = "make"]
  <2>1. HandlerOK(h) /\ h.pc = "make" /\ h.board = o.board
    BY <1>0 DEF HandlerOK, Handler
  <2>2. conn' = [conn EXCEPT ![c] = h] /\ lock' = c
    BY <1>4 DEF GetCache, ConnGoesTo
  <2> HIDE DEF h
  <2> QED
    BY <1>2, <1>4, <2>1, <2>2
<1> QED
  BY <1>3, <1>4

\* The worker is made by the one that holds the lock and has found none.
LEMMA MakeWorkerInv ==
  ASSUME Inv, NEW c \in Conns, MakeWorker(c)
  PROVE  Inv'
<1> DEFINE o == conn[c]
<1> DEFINE b == conn[c].board
<1> DEFINE h == [conn[c] EXCEPT !.pc = "fresh"]
<1>1. /\ HandlerOK(o) /\ o.pc = "make" /\ b \in Boards /\ ~HasWorker(b) /\ lock = c
  BY DEF Inv, HandlersInv, HandlerOK, MakeWorker, WorkersInv, LockInv
<1>2. /\ workers' = Append(workers, b)
      /\ running' = [running EXCEPT ![b] = @ + 1]
      /\ updated' = [updated EXCEPT ![b] = FALSE]
      /\ halted' = [halted EXCEPT ![b] = FALSE]
      /\ conn' = [conn EXCEPT ![c] = h]
      /\ UNCHANGED <<main, joining, listed, lock, docs>>
  BY DEF MakeWorker, ConnGoesTo, serverVars
<1>3. HandlerOK(h) /\ h.pc = "fresh" /\ h.board = b
  BY <1>1 DEF HandlerOK, Handler
<1>4. conn'[c] = h /\ \A d \in Conns : d # c => conn'[d] = conn[d]
  BY <1>2 DEF Inv, HandlersInv
<1>5. \A d \in Conns : d # c => conn[d].pc \notin {"make", "fresh"}
  BY <1>1 DEF Inv, LockInv
<1>6. main \notin {"destroy", "exit"}
  BY <1>1 DEF Inv, StopInv
<1> HIDE DEF h
<1>7. HandlersInv'
  BY <1>2, <1>3, <1>4 DEF Inv, HandlersInv, HandlerOK
<1>8. LockInv'
  BY <1>1, <1>2, <1>3, <1>4 DEF Inv, LockInv
<1>9. /\ workers' \in Seq(Boards) /\ Len(workers) \in Nat /\ Len(workers') = Len(workers) + 1
      /\ workers'[Len(workers) + 1] = b /\ \A k \in 1..Len(workers) : workers'[k] = workers[k]
      /\ \A k \in 1..Len(workers) : workers[k] # b
  BY <1>1, <1>2 DEF Inv, WorkersInv, HasWorker
<1>10. \A d \in Boards : HasWorker(d)' <=> d = b \/ HasWorker(d)
  BY <1>9 DEF HasWorker
<1>11. WorkersInv'
  <2>1. running' \in [Boards -> Nat] /\ updated' \in [Boards -> BOOLEAN]
    BY <1>1, <1>2 DEF Inv, WorkersInv
  <2>2. \A d \in Boards : running'[d] = IF HasWorker(d)' THEN 1 ELSE 0
    BY <1>1, <1>2, <1>10 DEF Inv, WorkersInv
  <2>3. \A j, k \in 1..Len(workers') : workers'[j] = workers'[k] => j = k
    BY <1>9 DEF Inv, WorkersInv
  <2>4. \A d \in Conns : conn'[d].pc = "make" => ~HasWorker(conn[d].board)'
    BY <1>3, <1>4, <1>5
  <2>5. \A d \in Conns : conn'[d].pc \in {"fresh", "query"} => HasWorker(conn[d].board)'
    <3>1. SUFFICES ASSUME NEW d \in Conns, conn'[d].pc \in {"fresh", "query"}
                   PROVE  HasWorker(conn[d].board)'
      OBVIOUS
    <3>2. CASE d = c
      BY <1>3, <1>4, <1>9, <3>2 DEF HasWorker
    <3>3. CASE d # c
      <4>1. conn'[d] = conn[d] /\ HasWorker(conn[d].board) /\ conn[d].board \in Boards
        BY <1>4, <3>1, <3>3 DEF Inv, WorkersInv, HandlersInv, HandlerOK
      <4> QED
        BY <1>9, <4>1 DEF HasWorker
    <3> QED
      BY <3>2, <3>3
  <2> QED
    BY <1>9, <2>1, <2>2, <2>3, <2>4, <2>5 DEF WorkersInv, HasWorker
<1>12. UpdatesInv'
  <2>1. \A d \in Boards : HasWorker(d)' =>
          updated'[d] \/ \E e \in Conns : conn'[e].pc = "fresh" /\ conn'[e].board = d
    <3>1. SUFFICES ASSUME NEW d \in Boards, HasWorker(d)', d # b
                   PROVE  updated'[d]
      BY <1>3, <1>4
    <3>2. HasWorker(d)
      BY <1>10, <3>1
    <3>3. updated[d]
      BY <1>1, <1>5, <3>2 DEF Inv, UpdatesInv
    <3> QED
      BY <1>2, <3>1, <3>3 DEF Inv, WorkersInv
  <2>2. QueriesSeeUpdates'
    <3>1. SUFFICES ASSUME NEW d \in Conns, conn'[d].pc = "query"
                   PROVE  updated'[conn'[d].board]
      BY DEF QueriesSeeUpdates
    <3>2. d # c /\ conn'[d] = conn[d] /\ HasWorker(conn[d].board) /\ conn[d].board \in Boards
      BY <1>3, <1>4, <3>1 DEF Inv, WorkersInv, HandlersInv, HandlerOK
    <3>3. conn[d].board # b /\ updated[conn[d].board]
      BY <1>1, <3>1, <3>2 DEF Inv, UpdatesInv, QueriesSeeUpdates
    <3> QED
      BY <1>2, <3>2, <3>3 DEF Inv, WorkersInv
  <2> QED
    BY <2>1, <2>2 DEF UpdatesInv
<1>13. StopInv'
  BY <1>1, <1>2, <1>3, <1>4, <1>6 DEF Inv, StopInv
<1>14. RestInv'
  BY <1>2 DEF Inv, RestInv
<1> QED
  BY <1>7, <1>8, <1>11, <1>12, <1>13, <1>14 DEF Inv

\* The lock is given back by the one that has waited for the first update.
LEMMA FirstUpdateInv ==
  ASSUME Inv, NEW c \in Conns, FirstUpdate(c)
  PROVE  Inv'
<1> DEFINE o == conn[c]
<1> DEFINE h == [conn[c] EXCEPT !.pc = "query", !.left = @ - 1]
<1>1. /\ HandlerOK(o) /\ o.pc = "fresh" /\ o.board \in Boards /\ o.left \in 1..2
      /\ updated[o.board] /\ lock = c /\ lock' = Free /\ conn' = [conn EXCEPT ![c] = h]
      /\ UNCHANGED <<main, joining, listed, workers, running, updated, halted, docs>>
  BY DEF Inv, HandlersInv, HandlerOK, FirstUpdate, LockInv, ConnGoesTo, serverVars, boardVars
<1>2. HandlerOK(h) /\ h.pc = "query" /\ h.board = o.board
  <2>1. o.left - 1 \in 0..2
    BY <1>1
  <2> QED
    BY <1>1, <2>1 DEF HandlerOK, Handler
<1>3. conn'[c] = h /\ \A d \in Conns : d # c => conn'[d] = conn[d]
  BY <1>1 DEF Inv, HandlersInv
<1> HIDE DEF h
<1>4. HandlersInv'
  BY <1>1, <1>2, <1>3 DEF Inv, HandlersInv, HandlerOK
<1>5. LockInv'
  BY <1>1, <1>2, <1>3, FreeAssumption DEF Inv, LockInv
<1>6. WorkersInv'
  <2>1. ASSUME NEW d \in Conns
        PROVE  /\ conn'[d].pc = "make" => ~HasWorker(conn'[d].board)
               /\ conn'[d].pc \in {"fresh", "query"} => HasWorker(conn'[d].board)
    BY <1>1, <1>2, <1>3 DEF Inv, WorkersInv
  <2> QED
    BY <1>1, <2>1 DEF Inv, WorkersInv, HasWorker
<1>7. UpdatesInv'
  <2>1. \A b \in Boards : HasWorker(b) =>
          updated[b] \/ \E d \in Conns : conn'[d].pc = "fresh" /\ conn'[d].board = b
    BY <1>1, <1>3 DEF Inv, UpdatesInv
  <2>2. \A d \in Conns : conn'[d].pc = "query" => updated[conn'[d].board]
    BY <1>1, <1>2, <1>3 DEF Inv, UpdatesInv, QueriesSeeUpdates
  <2> QED
    BY <1>1, <2>1, <2>2 DEF UpdatesInv, QueriesSeeUpdates, HasWorker
<1>8. StopInv'
  BY <1>1, <1>2, <1>3 DEF Inv, StopInv
<1>9. RestInv'
  BY <1>1 DEF Inv, RestInv
<1> QED
  BY <1>4, <1>5, <1>6, <1>7, <1>8, <1>9 DEF Inv

LEMMA AddDocInv ==
  ASSUME Inv, NEW b \in Boards, NEW i \in Ids(b), AddDoc(b, i)
  PROVE  Inv'
<1> USE DEF serverVars
<1>1. /\ docs' = [docs EXCEPT ![b] = @ \cup {i}]
      /\ updated' = [updated EXCEPT ![b] = TRUE]
      /\ UNCHANGED <<main, joining, listed, conn, lock, workers, running, halted>>
  BY DEF AddDoc
<1>2. HandlersInv' /\ LockInv' /\ StopInv'
  BY <1>1 DEF Inv, HandlersInv, LockInv, StopInv
<1>3. /\ updated' \in [Boards -> BOOLEAN]
      /\ \A d \in Boards : updated[d] => updated'[d]
  BY <1>1 DEF Inv, WorkersInv
<1>4. WorkersInv'
  BY <1>1, <1>3 DEF Inv, WorkersInv, HasWorker
<1>5. UpdatesInv'
  <2>1. \A c \in Conns : conn[c].pc = "query" => conn[c].board \in Boards
    BY DEF Inv, HandlersInv, HandlerOK
  <2> QED
    BY <1>1, <1>3, <2>1 DEF Inv, UpdatesInv, QueriesSeeUpdates, HasWorker
<1>6. RestInv'
  BY <1>1 DEF Inv, RestInv, Ids
<1> QED
  BY <1>2, <1>4, <1>5, <1>6 DEF Inv

\* The stop flag of a handler is no part of what it has in hand.
LEMMA ToldToStop ==
  ASSUME Inv, NEW k, TellToStop(k), k \in Nat \ {0}
  PROVE  /\ conn' \in [Conns -> Handler]
         /\ \A c \in Conns : HandlerOK(conn'[c])
         /\ \A c \in Conns : conn'[c].pc = conn[c].pc /\ conn'[c].board = conn[c].board
<1>1. CASE k <= Len(listed)
  <2> DEFINE d == listed[k]
  <2> DEFINE h == [conn[d] EXCEPT !.stop = TRUE]
  <2>1. d \in Conns
    BY <1>1 DEF Inv, StopInv
  <2>2. conn' = [conn EXCEPT ![d] = h]
    BY <1>1 DEF TellToStop
  <2>3. HandlerOK(h) /\ h.pc = conn[d].pc /\ h.board = conn[d].board
    BY <2>1 DEF Inv, HandlersInv, HandlerOK, Handler
  <2> HIDE DEF h, d
  <2>4. conn'[d] = h /\ \A c \in Conns : c # d => conn'[c] = conn[c]
    BY <2>1, <2>2 DEF Inv, HandlersInv
  <2> QED
    BY <2>1, <2>2, <2>3, <2>4 DEF Inv, HandlersInv, HandlerOK
<1>2. CASE ~(k <= Len(listed))
  BY <1>2 DEF TellToStop, Inv, HandlersInv
<1> QED
  BY <1>1, <1>2

\* A step of the main thread that only tells a handler to stop keeps all that is
\* not about the main thread.
LEMMA StopStep ==
  ASSUME Inv, UNCHANGED <<listed, lock, workers, boardVars>>,
         conn' \in [Conns -> Handler], \A c \in Conns : HandlerOK(conn'[c]),
         \A c \in Conns : conn'[c].pc = conn[c].pc /\ conn'[c].board = conn[c].board
  PROVE  HandlersInv' /\ LockInv' /\ WorkersInv' /\ UpdatesInv' /\ RestInv'
<1> USE DEF boardVars
<1>1. HandlersInv'
  BY DEF HandlersInv, HandlerOK
<1>2. LockInv'
  BY DEF Inv, LockInv
<1>3. WorkersInv'
  <2>1. ASSUME NEW c \in Conns
        PROVE  /\ conn'[c].pc = "make" => ~HasWorker(conn'[c].board)
               /\ conn'[c].pc \in {"fresh", "query"} => HasWorker(conn'[c].board)
    BY DEF Inv, WorkersInv
  <2> QED
    BY <2>1 DEF Inv, WorkersInv, HasWorker
<1>4. UpdatesInv'
  BY DEF Inv, UpdatesInv, QueriesSeeUpdates, HasWorker
<1>5. RestInv'
  BY DEF Inv, RestInv
<1> QED
  BY <1>1, <1>2, <1>3, <1>4, <1>5

LEMMA InterruptInv ==
  ASSUME Inv, Interrupt
  PROVE  Inv'
<1>1. /\ main = "run" /\ main' = "stop" /\ joining' = 1 /\ TellToStop(1)
      /\ UNCHANGED <<listed, lock, workers, boardVars>>
  BY DEF Interrupt
<1>2. \A c \in Conns : conn'[c].pc = conn[c].pc
  BY <1>1, ToldToStop
<1>3. HandlersInv' /\ LockInv' /\ WorkersInv' /\ UpdatesInv' /\ RestInv'
  BY <1>1, ToldToStop, StopStep
<1>4. StopInv'
  BY <1>1, <1>2 DEF Inv, StopInv
<1> QED
  BY <1>3, <1>4 DEF Inv

\* Join goes on only past a handler that has ended.
LEMMA JoinInv ==
  ASSUME Inv, Join
  PROVE  Inv'
<1>1. main = "stop" /\ joining <= Len(listed) /\ joining \in Nat \ {0}
      /\ UNCHANGED <<listed, lock, workers, boardVars>>
  BY DEF Join, Inv, StopInv
<1>2. CASE /\ conn[listed[joining]].pc = "ended" /\ joining' = joining + 1 /\ main' = main
           /\ TellToStop(joining + 1)
  <2>1. \A c \in Conns : conn'[c].pc = conn[c].pc
    BY <1>1, <1>2, ToldToStop
  <2>2. HandlersInv' /\ LockInv' /\ WorkersInv' /\ UpdatesInv' /\ RestInv'
    BY <1>1, <1>2, ToldToStop, StopStep
  <2>3. \A k \in 1..Len(listed) : listed[k] \in Conns
    BY DEF Inv, StopInv
  <2>4. \A k \in 1..Len(listed) : k < joining + 1 => conn'[listed[k]].pc = "ended"
    BY <1>1, <1>2, <2>1, <2>3 DEF Inv, StopInv
  <2>5. StopInv'
    BY <1>1, <1>2, <2>1, <2>4 DEF Inv, StopInv
  <2> QED
    BY <2>2, <2>5 DEF Inv
<1>3. CASE main' = "raised" /\ UNCHANGED <<joining, conn>>
  <2>1. HandlersInv' /\ LockInv' /\ WorkersInv' /\ UpdatesInv' /\ RestInv'
    BY <1>1, <1>3, StopStep DEF Inv, HandlersInv
  <2>2. StopInv'
    BY <1>1, <1>3 DEF Inv, StopInv
  <2> QED
    BY <2>1, <2>2 DEF Inv
<1> QED
  BY <1>2, <1>3 DEF Join

\* When the walk is over, every handler that was ever started has ended.
LEMMA StopReturnsInv ==
  ASSUME Inv, StopReturns
  PROVE  Inv'
<1>1. /\ main = "stop" /\ joining > Len(listed) /\ main' = "destroy" /\ listed' = <<>>
      /\ UNCHANGED <<joining, conn, lock, workers, running, updated, halted, docs>>
  BY DEF StopReturns, boardVars
<1>2. \A c \in Conns : conn[c].pc \in {"none", "ended"}
  BY <1>1 DEF Inv, StopInv
<1>3. HandlersInv' /\ LockInv' /\ RestInv'
  BY <1>1 DEF Inv, HandlersInv, LockInv, RestInv
<1>4. WorkersInv' /\ UpdatesInv'
  BY <1>1 DEF Inv, WorkersInv, UpdatesInv, QueriesSeeUpdates, HasWorker
<1>5. StopInv'
  BY <1>1, <1>2 DEF Inv, StopInv
<1> QED
  BY <1>3, <1>4, <1>5 DEF Inv

LEMMA DestroyInv ==
  ASSUME Inv, Destroy
  PROVE  Inv'
<1>1. /\ main = "destroy" /\ main' = "exit" /\ workers' = <<>>
      /\ running' = [b \in Boards |-> IF HasWorker(b) THEN 0 ELSE running[b]]
      /\ halted' = [b \in Boards |-> HasWorker(b) \/ halted[b]]
      /\ UNCHANGED <<joining, listed, conn, lock, updated, docs>>
  BY DEF Destroy
<1>2. \A c \in Conns : conn[c].pc \in {"none", "ended"}
  BY <1>1 DEF Inv, StopInv
<1>3. \A b \in Boards : running'[b] = 0
  BY <1>1 DEF Inv, WorkersInv
<1>4. HandlersInv' /\ LockInv'
  BY <1>1 DEF Inv, HandlersInv, LockInv
<1>5. WorkersInv'
  <2>1. /\ running' = [b \in Boards |-> 0] /\ workers' \in Seq(Boards)
        /\ \A b \in Boards : ~HasWorker(b)'
    BY <1>1, <1>3 DEF HasWorker
  <2>2. \A c \in Conns : conn'[c].pc \in {"none", "ended"}
    BY <1>1, <1>2
  <2>3. \A j, k \in 1..Len(workers') : FALSE
    BY <1>1
  <2>4. running' \in [Boards -> Nat] /\ \A b \in Boards : running'[b] = IF HasWorker(b)' THEN 1 ELSE 0
    BY <2>1
  <2>5. updated' \in [Boards -> BOOLEAN]
    BY <1>1 DEF Inv, WorkersInv
  <2> QED
    BY <2>1, <2>2, <2>3, <2>4, <2>5 DEF WorkersInv
<1>6. UpdatesInv'
  BY <1>1, <1>2 DEF UpdatesInv, QueriesSeeUpdates, HasWorker
<1>7. StopInv'
  BY <1>1, <1>2 DEF Inv, StopInv
<1>8. RestInv'
  <2>1. \A b \in Boards : (HasWorker(b) \/ halted[b]) \in BOOLEAN
    BY DEF HasWorker, Inv, RestInv
  <2> QED
    BY <1>1, <2>1 DEF Inv, RestInv
<1> QED
  BY <1>4, <1>5, <1>6, <1>7, <1>8 DEF Inv

LEMMA NextInv == Inv /\ [Next]_vars => Inv'
<1> SUFFICES ASSUME Inv, [Next]_vars PROVE Inv'
  OBVIOUS
<1>1. ASSUME NEW c \in Conns, ConnStep(c) PROVE Inv'
  BY <1>1, HandlerInv, GetCacheInv, MakeWorkerInv, FirstUpdateInv DEF ConnStep
<1>2. ASSUME NEW c \in Conns, Asked(c) \/ Accept(c) \/ StartHandler(c) PROVE Inv'
  BY <1>2, AskedInv, AcceptInv, HandlerInv
<1>3. ASSUME NEW b \in Boards, NEW i \in Ids(b), AddDoc(b, i) PROVE Inv'
  BY <1>3, AddDocInv
<1>4. CASE Interrupt \/ MainStep
  BY <1>4, InterruptInv, JoinInv, StopReturnsInv, DestroyInv DEF MainStep
<1>5. CASE UNCHANGED vars
  <2> USE <1>5 DEF vars, serverVars, boardVars
  <2>1. HandlersInv' /\ LockInv' /\ StopInv' /\ RestInv'
    BY DEF Inv, HandlersInv, LockInv, StopInv, RestInv
  <2>2. WorkersInv' /\ UpdatesInv'
    BY DEF Inv, WorkersInv, UpdatesInv, QueriesSeeUpdates, HasWorker
  <2> QED
    BY <2>1, <2>2 DEF Inv
<1> QED
  BY <1>1, <1>2, <1>3, <1>4, <1>5 DEF Next

-----------------------------------------------------------------------------
\* The strengthening holds in every reachable state: locks, dictionary, first
\* updates and the list that stop() walks through.
THEOREM InvHolds == Spec => []Inv
<1> QED
  BY InitInv, NextInv, PTL DEF Spec

\* The server, its handlers and the boards keep their types.
THEOREM TypeCorrect == Spec => []TypeOK
<1>1. Inv => TypeOK
  BY DEF Inv, HandlersInv, Handler, LockInv, WorkersInv, StopInv, RestInv, TypeOK
<1> QED
  BY <1>1, InvHolds, PTL

\* _get_cache makes one worker a board, however many connections ask at once.
THEOREM OneWorkerHolds == Spec => []OneWorker
<1>1. Inv => OneWorker
  BY DEF Inv, WorkersInv, OneWorker
<1> QED
  BY <1>1, InvHolds, PTL

\* No query runs on a board before the first update of its storage.
THEOREM QueriesSeeUpdatesHolds == Spec => []QueriesSeeUpdates
<1>1. Inv => QueriesSeeUpdates
  BY DEF Inv, UpdatesInv
<1> QED
  BY <1>1, InvHolds, PTL

\* After main() nothing runs: stop() has waited for every handler before destroy()
\* stops every worker.
THEOREM NothingRunsAtExitHolds == Spec => []NothingRunsAtExit
<1>1. Inv => NothingRunsAtExit
  BY DEF Inv, StopInv, WorkersInv, HasWorker, NothingRunsAtExit
<1> QED
  BY <1>1, InvHolds, PTL
=============================================================================
