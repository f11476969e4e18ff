-------------------------- MODULE AppServerProofs --------------------------
(***************************************************************************)
(* Whatever connections break and are made again, a proxy call returns the *)
(* answer to its own request, and the lists of the proxies stay within     *)
(* their sizes: for any articles, sizes, attempts and number of faults.    *)
(***************************************************************************)
EXTENDS AppServer, SequenceTheorems, TLAPS

Identities == Docs \cup {Absent}

\* What may be the answer to a request.
Right(r) ==
  IF r.kind = "id" THEN Identities ELSE IF r.kind = "url" THEN Docs ELSE Lists(Docs)

Values == Identities \cup Lists(Docs)

Pieces == [part : {"header", "body"}, req : Requests, value : Values]
ConnStates == {"none", "open", "fin", "doomed", "rst"}
Conns == [state : ConnStates, sent : Seq(Requests), stream : Seq(Pieces)]
Jobs == [step : {"id", "rel", "absent", "urls"}, url : Docs, doc : Identities \cup {None},
         todo : Seq(Docs), body : Seq(Docs)]
MinerEntries == [url : Docs, doc : Identities]
AnalysisEntries == [doc : Docs, rel : Lists(Docs)]

WorldInv == known \subseteq Docs /\ rels \in [Docs -> Lists(Docs)]

CachesInv ==
  /\ minerCache \in Seq(MinerEntries) /\ analysisCache \in Seq(AnalysisEntries)
  /\ CachesBounded

\* A call belongs to a POST, and one for a url to a POST with documents to do.
JobInv ==
  /\ job # None => job \in Jobs
  /\ job # None /\ job.step = "rel" => job.doc \in Docs
  /\ call # None => call \in Calls /\ job # None
  /\ call # None /\ call.req.kind = "url" => job.todo # <<>>

\* The call in progress has sent its request to p.
Waiting(p) == call # None /\ Here = p /\ call.at \in {"header", "body"}

\* A connection holds the request in progress, or its answer, or what is left of
\* the answer when the server has died, and is empty when nobody waits for it.
Holds(c, req, size) ==
  /\ \/ c.sent = <<>> /\ (c.state = "open" => Len(c.stream) = size)
     \/ c.sent = <<req>> /\ c.stream = <<>> /\ c.state = "open" /\ size = 2
  /\ Len(c.stream) <= size
  /\ size = 2 /\ c.stream # <<>> => /\ c.stream[1].part = "header"
                                    /\ c.stream[1].req.kind = req.kind
  /\ \A i \in 1..Len(c.stream) : c.stream[i].value \in Right(req)

ConnInv ==
  /\ conn \in [Peers -> Conns]
  /\ \A p \in Peers :
       IF Waiting(p) THEN Holds(conn[p], call.req, IF call.at = "header" THEN 2 ELSE 1)
       ELSE conn[p].sent = <<>> /\ conn[p].stream = <<>>

Inv == WorldInv /\ CachesInv /\ JobInv /\ ConnInv

-----------------------------------------------------------------------------
\* What the servers answer is an answer to the request.
LEMMA ListsMonotonic == \A S \in SUBSET Docs : Lists(S) \subseteq Lists(Docs)
<1> SUFFICES ASSUME NEW S \in SUBSET Docs, NEW n \in 0..MaxRel,
                    NEW s \in [1..n -> S], IsInjective(s)
             PROVE  s \in [1..n -> Docs]
  BY DEF Lists
<1> QED
  OBVIOUS

LEMMA ListsAreSeqs == Lists(Docs) \subseteq Seq(Docs)
<1> SUFFICES ASSUME NEW n \in 0..MaxRel, NEW s \in [1..n -> Docs]
             PROVE  s \in Seq(Docs)
  BY DEF Lists
<1>1. n \in Nat
  BY BoundsAssumption
<1> QED
  BY <1>1

LEMMA EmptyIffNoLength ==
  ASSUME NEW S, NEW s \in Seq(S)
  PROVE  Len(s) \in Nat /\ (s = <<>> <=> Len(s) = 0)
  BY EmptySeq

LEMMA AnalysesTyped == \A S \in SUBSET Docs : Analyses(S) \subseteq [Docs -> Lists(Docs)]
  BY ListsMonotonic DEF Analyses

LEMMA ReplyIsRight ==
  ASSUME WorldInv, NEW r \in Requests
  PROVE  Reply(r) \in Right(r) /\ Right(r) \subseteq Values
<1>1. r.kind \in {"id", "url", "rel"} /\ r.doc \in Docs
  BY DEF Requests
<1>2. CASE r.kind = "id"
  BY <1>1, <1>2 DEF Reply, Right, Values, Identities
<1>3. CASE r.kind = "url"
  BY <1>1, <1>3 DEF Reply, Right, Values, Identities
<1>4. CASE r.kind = "rel"
  BY <1>1, <1>4 DEF Reply, Right, Values, Identities, WorldInv
<1> QED
  BY <1>1, <1>2, <1>3, <1>4

\* A list of the proxies is shortened by at least one entry when it is over its
\* size, for every size but 0.
LEMMA ShrinkBounded ==
  ASSUME NEW S, NEW c \in Seq(S), NEW e \in S, NEW max \in Nat,
         max > 0 => Len(c) <= max
  PROVE  /\ Shrink(Append(c, e), max) \in Seq(S)
         /\ max > 0 => Len(Shrink(Append(c, e), max)) <= max
<1> DEFINE d == Append(c, e)
<1> DEFINE half == (max + 1) \div 2
<1>1. d \in Seq(S) /\ Len(d) = Len(c) + 1 /\ Len(d) \in Nat
  OBVIOUS
<1>2. half \in Nat /\ (max > 0 => half >= 1)
  OBVIOUS
<1> HIDE DEF d, half
<1>3. CASE Len(d) > max
  <2>1. Shrink(d, max) = SubSeq(d, half + 1, Len(d))
    BY <1>3 DEF Shrink, half
  <2>2. SubSeq(d, half + 1, Len(d)) \in Seq(S)
    BY <1>1, <1>2
  <2>3. max > 0 => Len(SubSeq(d, half + 1, Len(d))) <= max
    <3>1. SUFFICES ASSUME max > 0 PROVE Len(SubSeq(d, half + 1, Len(d))) <= max
      OBVIOUS
    <3>2. half >= 1 /\ Len(d) <= max + 1
      BY <1>1, <1>2, <3>1
    <3> QED
      BY <1>1, <1>2, <3>1, <3>2
  <2> QED
    BY <2>1, <2>2, <2>3 DEF d
<1>4. CASE ~(Len(d) > max)
  BY <1>1, <1>4 DEF Shrink, d
<1> QED
  BY <1>3, <1>4

LEMMA InitInv == Init => Inv
<1> SUFFICES ASSUME Init PROVE Inv
  OBVIOUS
<1> USE DEF Init
<1>1. WorldInv
  BY AnalysesTyped DEF WorldInv
<1>2. CachesInv
  BY SizeAssumption DEF CachesInv, CachesBounded
<1>3. JobInv
  BY DEF JobInv
<1>4. ConnInv
  BY DEF ConnInv, Waiting, Fresh, Conns, ConnStates
<1> QED
  BY <1>1, <1>2, <1>3, <1>4 DEF Inv

-----------------------------------------------------------------------------
\* A step of the POST with no call in progress: nothing of the proxies changes.
LEMMA JobStep ==
  ASSUME Inv, call = None, UNCHANGED <<world, conn, caches, call>>,
         job' # None => job' \in Jobs /\ (job'.step = "rel" => job'.doc \in Docs)
  PROVE  Inv'
<1> USE DEF world, caches
<1>1. WorldInv' /\ CachesInv'
  BY DEF Inv, WorldInv, CachesInv, CachesBounded
<1>2. JobInv'
  BY DEF JobInv
<1>3. ConnInv'
  BY DEF Inv, ConnInv, Waiting
<1> QED
  BY <1>1, <1>2, <1>3 DEF Inv

LEMMA AskInv ==
  ASSUME Inv, NEW r \in Requests, call = None, job # None, Ask(r.kind, r.doc),
         r.kind = "url" => job.todo # <<>>
  PROVE  Inv'
<1> USE DEF world, caches
<1>1. /\ call' = [req |-> [kind |-> r.kind, doc |-> r.doc], at |-> "send", tries |-> 0]
      /\ UNCHANGED <<world, conn, caches, job>>
  BY DEF Ask
<1>2. call' \in Calls /\ call'.req = r /\ call'.at = "send"
  BY <1>1, TriesAssumption DEF Calls, Requests
<1>3. WorldInv' /\ CachesInv'
  BY <1>1 DEF Inv, WorldInv, CachesInv, CachesBounded
<1>4. JobInv'
  BY <1>1, <1>2 DEF Inv, JobInv
<1>5. ConnInv'
  BY <1>1, <1>2 DEF Inv, ConnInv, Waiting
<1> QED
  BY <1>3, <1>4, <1>5 DEF Inv

\* The three things handle_json goes on with.
LEMMA WithTyped ==
  ASSUME job \in Jobs
  PROVE  /\ \A d \in Identities :
              WithId(d) \in Jobs /\ (WithId(d).step = "rel" => WithId(d).doc \in Docs)
         /\ \A s \in Lists(Docs) : WithRel(s) \in Jobs /\ WithRel(s).step = "urls"
         /\ job.todo # <<>> =>
              \A u \in Docs : /\ WithUrl(u) \in Jobs
                              /\ WithUrl(u).step = job.step /\ WithUrl(u).doc = job.doc
<1>1. ASSUME NEW d \in Identities
      PROVE  WithId(d) \in Jobs /\ (WithId(d).step = "rel" => WithId(d).doc \in Docs)
  BY <1>1 DEF WithId, Jobs, Identities
<1>2. ASSUME NEW s \in Lists(Docs)
      PROVE  WithRel(s) \in Jobs /\ WithRel(s).step = "urls"
  <2>1. s \in Seq(Docs)
    BY ListsAreSeqs
  <2>2. s \o s \o s \in Seq(Docs)
    BY <2>1
  <2> QED
    BY <2>2 DEF WithRel, Jobs
<1>3. ASSUME job.todo # <<>>, NEW u \in Docs
      PROVE  /\ WithUrl(u) \in Jobs
             /\ WithUrl(u).step = job.step /\ WithUrl(u).doc = job.doc
  <2>1. Tail(job.todo) \in Seq(Docs) /\ Append(job.body, u) \in Seq(Docs)
    BY <1>3 DEF Jobs
  <2> QED
    BY <2>1 DEF WithUrl, Jobs
<1> QED
  BY <1>1, <1>2, <1>3

\* handle_json goes on by itself or asks for something that can be asked for.
AsksOrNot ==
  \/ UNCHANGED <<world, conn, call, out>>
  \/ call = None /\ \E r \in Requests : Ask(r.kind, r.doc)

LEMMA HandleInv ==
  ASSUME Inv, Handle \/ BadPost \/ \E u \in Docs : Post(u)
  PROVE  Inv' /\ AsksOrNot
<1>0. job # None => job \in Jobs /\ (job.step = "rel" => job.doc \in Docs)
  BY DEF Inv, JobInv
<1>1. CASE BadPost
  <2>1. job = None /\ UNCHANGED <<world, conn, caches, job, call, out>>
    BY <1>1 DEF BadPost
  <2>2. call = None
    BY <2>1 DEF Inv, JobInv
  <2> QED
    BY <2>1, <2>2, JobStep DEF AsksOrNot
<1>2. ASSUME NEW u \in Docs, Post(u) PROVE Inv' /\ AsksOrNot
  <2>1. /\ job = None /\ UNCHANGED <<world, conn, caches, call, out>>
        /\ job' = [step |-> "id", url |-> u, doc |-> None, todo |-> <<>>, body |-> <<>>]
    BY <1>2 DEF Post
  <2>2. call = None
    BY <2>1 DEF Inv, JobInv
  <2>3. job' \in Jobs /\ job'.step = "id"
    BY <2>1 DEF Jobs
  <2> QED
    BY <2>1, <2>2, <2>3, JobStep DEF AsksOrNot
<1>3. CASE Respond
  BY <1>3, JobStep DEF Respond, AsksOrNot
<1>4. CASE GetId
  <2> DEFINE hits == FirstFit(minerCache, LAMBDA e : e.url = job.url)
  <2>1. job # None /\ call = None
    BY <1>4 DEF GetId
  <2>2. CASE \E e \in hits : Hit(WithId(e.doc))
    <3>1. PICK e \in hits : Hit(WithId(e.doc))
      BY <2>2
    <3>2. e.doc \in Identities
      <4>1. PICK i \in DOMAIN minerCache : e = minerCache[i]
        BY <3>1 DEF FirstFit
      <4>2. minerCache[i] \in MinerEntries
        BY <4>1 DEF Inv, CachesInv
      <4> QED
        BY <4>1, <4>2 DEF MinerEntries
    <3> QED
      BY <1>0, <2>1, <3>1, <3>2, WithTyped, JobStep DEF Hit, AsksOrNot
  <2>3. CASE Ask("id", job.url)
    <3> DEFINE q == [kind |-> "id", doc |-> job.url]
    <3>1. q \in Requests /\ q.kind = "id" /\ q.doc = job.url
      BY <1>0, <2>1 DEF Requests, Jobs
    <3> QED
      BY <2>1, <2>3, <3>1, AskInv DEF AsksOrNot
  <2> QED
    BY <1>4, <2>2, <2>3 DEF GetId
<1>5. CASE GetRel
  <2> DEFINE hits == FirstFit(analysisCache, LAMBDA e : e.doc = job.doc)
  <2>1. job # None /\ call = None /\ job.step = "rel"
    BY <1>5 DEF GetRel
  <2>2. CASE \E e \in hits : Hit(WithRel(e.rel))
    <3>1. PICK e \in hits : Hit(WithRel(e.rel))
      BY <2>2
    <3>2. e.rel \in Lists(Docs)
      <4>1. PICK i \in DOMAIN analysisCache : e = analysisCache[i]
        BY <3>1 DEF FirstFit
      <4>2. analysisCache[i] \in AnalysisEntries
        BY <4>1 DEF Inv, CachesInv
      <4> QED
        BY <4>1, <4>2 DEF AnalysisEntries
    <3> QED
      BY <1>0, <2>1, <3>1, <3>2, WithTyped, JobStep DEF Hit, AsksOrNot
  <2>3. CASE Ask("rel", job.doc)
    <3> DEFINE q == [kind |-> "rel", doc |-> job.doc]
    <3>1. q \in Requests /\ q.kind = "rel" /\ q.doc = job.doc
      BY <1>0, <2>1 DEF Requests
    <3> QED
      BY <2>1, <2>3, <3>1, AskInv DEF AsksOrNot
  <2> QED
    BY <1>5, <2>2, <2>3 DEF GetRel
<1>6. CASE GetUrl
  <2> DEFINE hits == FirstFit(minerCache, LAMBDA e : e.doc = Head(job.todo))
  <2>1. job # None /\ call = None /\ job.step = "urls" /\ job.todo # <<>>
    BY <1>6 DEF GetUrl
  <2>2. CASE \E e \in hits : Hit(WithUrl(e.url))
    <3>1. PICK e \in hits : Hit(WithUrl(e.url))
      BY <2>2
    <3>2. e.url \in Docs
      <4>1. PICK i \in DOMAIN minerCache : e = minerCache[i]
        BY <3>1 DEF FirstFit
      <4>2. minerCache[i] \in MinerEntries
        BY <4>1 DEF Inv, CachesInv
      <4> QED
        BY <4>1, <4>2 DEF MinerEntries
    <3> QED
      BY <1>0, <2>1, <3>1, <3>2, WithTyped, JobStep DEF Hit, AsksOrNot
  <2>3. CASE Ask("url", Head(job.todo))
    <3> DEFINE q == [kind |-> "url", doc |-> Head(job.todo)]
    <3>1. q \in Requests /\ q.kind = "url" /\ q.doc = Head(job.todo)
      BY <1>0, <2>1 DEF Requests, Jobs
    <3> QED
      BY <2>1, <2>3, <3>1, AskInv DEF AsksOrNot
  <2> QED
    BY <1>6, <2>2, <2>3 DEF GetUrl
<1> QED
  BY <1>1, <1>2, <1>3, <1>4, <1>5, <1>6 DEF Handle

\* A call that raises leaves an empty connection.
LEMMA RaiseInv ==
  ASSUME Inv, call # None, Raise, conn' \in [Peers -> Conns],
         \A p \in Peers : p # Here => conn'[p] = conn[p],
         conn'[Here].sent = <<>> /\ conn'[Here].stream = <<>>
  PROVE  Inv'
<1> USE DEF world, caches
<1>1. call' = None /\ job' = None /\ UNCHANGED <<world, caches>>
  BY DEF Raise
<1>2. WorldInv' /\ CachesInv'
  BY <1>1 DEF Inv, WorldInv, CachesInv, CachesBounded
<1>3. JobInv'
  BY <1>1 DEF JobInv
<1>4. ConnInv'
  BY <1>1 DEF Inv, ConnInv, Waiting
<1> QED
  BY <1>2, <1>3, <1>4 DEF Inv

\* A step of a call that goes on.
LEMMA CallStep ==
  ASSUME Inv, call # None, NEW c, conn' = [conn EXCEPT ![Here] = c], c \in Conns,
         call' \in Calls, call'.req = call.req, UNCHANGED <<world, caches, job>>,
         IF call'.at \in {"header", "body"}
         THEN Holds(c, call.req, IF call'.at = "header" THEN 2 ELSE 1)
         ELSE c.sent = <<>> /\ c.stream = <<>>
  PROVE  Inv'
<1> USE DEF world, caches
<1>1. Here \in Peers /\ Here' = Here /\ call' # None
  BY NoneAssumption DEF Inv, JobInv, Calls, Here, PeerOf, Peers
<1>2. WorldInv' /\ CachesInv'
  BY DEF Inv, WorldInv, CachesInv, CachesBounded
<1>3. JobInv'
  BY DEF Inv, JobInv
<1>4. conn'[Here] = c /\ \A p \in Peers : p # Here => conn'[p] = conn[p]
  BY <1>1 DEF Inv, ConnInv
<1>5. ConnInv'
  BY <1>1, <1>4 DEF Inv, ConnInv, Waiting
<1> QED
  BY <1>2, <1>3, <1>5 DEF Inv

\* What is known of the call in progress and of its connection.
LEMMA CallTyped ==
  ASSUME Inv, call # None
  PROVE  /\ call \in Calls /\ call.req \in Requests /\ Here \in Peers /\ conn[Here] \in Conns
         /\ call.at \in {"send", "sleep"} => conn[Here].sent = <<>> /\ conn[Here].stream = <<>>
         /\ call.at = "header" => Holds(conn[Here], call.req, 2)
         /\ call.at = "body" => Holds(conn[Here], call.req, 1)
<1>1. call \in Calls /\ call.req \in Requests
  BY DEF Inv, JobInv, Calls
<1>2. Here \in Peers
  BY <1>1 DEF Requests, Here, PeerOf, Peers
<1> QED
  BY <1>1, <1>2 DEF Inv, ConnInv, Waiting

LEMMA SendInv == Inv /\ Send => Inv'
<1> SUFFICES ASSUME Inv, Send PROVE Inv'
  OBVIOUS
<1> DEFINE k == conn[Here]
<1>1. /\ call # None /\ call.at = "send" /\ k.state \in {"open", "fin", "doomed"}
      /\ call' = [call EXCEPT !.at = "header"] /\ UNCHANGED <<world, caches, job>>
  BY DEF Send, Stage
<1>2. k \in Conns /\ k.sent = <<>> /\ k.stream = <<>> /\ call \in Calls /\ call.req \in Requests
  BY <1>1, CallTyped
<1>3. call' \in Calls /\ call'.at = "header" /\ call'.req = call.req
  BY <1>1, <1>2 DEF Calls
<1>4. CASE k.state = "open"
  <2> DEFINE c == [k EXCEPT !.sent = Append(@, call.req)]
  <2>1. conn' = [conn EXCEPT ![Here] = c]
    BY <1>4 DEF Send
  <2>2. Append(k.sent, call.req) \in Seq(Requests) /\ Append(k.sent, call.req) = <<call.req>>
    BY <1>2
  <2>3. c \in Conns /\ c.sent = <<call.req>> /\ c.stream = <<>> /\ c.state = "open"
    BY <1>2, <1>4, <2>2 DEF Conns
  <2>4. Holds(c, call.req, 2)
    BY <2>3 DEF Holds
  <2> HIDE DEF c
  <2> QED
    BY <1>1, <1>3, <2>1, <2>3, <2>4, CallStep
<1>5. CASE k.state # "open"
  <2> DEFINE c == [k EXCEPT !.state = "doomed"]
  <2>1. conn' = [conn EXCEPT ![Here] = c]
    BY <1>5 DEF Send
  <2>2. c \in Conns /\ c.sent = <<>> /\ c.stream = <<>> /\ c.state = "doomed"
    BY <1>2 DEF Conns, ConnStates
  <2>3. Holds(c, call.req, 2)
    BY <2>2 DEF Holds
  <2> HIDE DEF c
  <2> QED
    BY <1>1, <1>3, <2>1, <2>2, <2>3, CallStep
<1> QED
  BY <1>4, <1>5

LEMMA SendFailsInv == Inv /\ SendFails => Inv'
<1> SUFFICES ASSUME Inv, SendFails PROVE Inv'
  OBVIOUS
<1>1. /\ call # None /\ conn' = [conn EXCEPT ![Here] = Unconnected]
      /\ call' = [call EXCEPT !.at = "sleep"] /\ UNCHANGED <<world, caches, job>>
  BY DEF SendFails, Stage
<1>2. call' \in Calls /\ call'.at = "sleep" /\ call'.req = call.req
  BY <1>1, CallTyped DEF Calls
<1>3. Unconnected \in Conns /\ Unconnected.sent = <<>> /\ Unconnected.stream = <<>>
  BY DEF Unconnected, Conns, ConnStates
<1> QED
  BY <1>1, <1>2, <1>3, CallStep

LEMMA ReconnectInv == Inv /\ Reconnect => Inv'
<1> SUFFICES ASSUME Inv, Reconnect PROVE Inv'
  OBVIOUS
<1> DEFINE c == IF Here \in up THEN Fresh ELSE Unconnected
<1>1. call # None /\ conn' = [conn EXCEPT ![Here] = c]
  BY DEF Reconnect
<1>2. c \in Conns /\ c.sent = <<>> /\ c.stream = <<>>
  BY DEF Fresh, Unconnected, Conns, ConnStates
<1> HIDE DEF c
<1>3. CASE Raise
  <2>1. /\ conn' \in [Peers -> Conns] /\ conn'[Here] = c
        /\ \A p \in Peers : p # Here => conn'[p] = conn[p]
    BY <1>1, <1>2, CallTyped DEF Inv, ConnInv
  <2> QED
    BY <1>1, <1>2, <1>3, <2>1, RaiseInv
<1>4. CASE /\ call.tries + 1 < Tries /\ call' = [call EXCEPT !.at = "send", !.tries = @ + 1]
           /\ UNCHANGED <<world, caches, job>>
  <2>1. call.tries + 1 \in 0..(Tries - 1)
    BY <1>1, <1>4, CallTyped, TriesAssumption DEF Calls
  <2>2. call' \in Calls /\ call'.at = "send" /\ call'.req = call.req
    BY <1>1, <1>4, <2>1, CallTyped DEF Calls
  <2> QED
    BY <1>1, <1>2, <1>4, <2>2, CallStep
<1> QED
  BY <1>3, <1>4 DEF Reconnect

\* What comes first is the header of the answer, of the type that was asked for.
LEMMA RecvHeaderInv ==
  ASSUME Inv, RecvHeader
  PROVE  /\ Inv'
         /\ call' = Stage("body") /\ UNCHANGED <<world, caches, job, out, outcome, watch>>
<1> DEFINE k == conn[Here]
<1>1. /\ call # None /\ call.at = "header" /\ k.stream # <<>>
      /\ conn' = [conn EXCEPT ![Here].stream = Tail(@)]
  BY DEF RecvHeader
<1>2. /\ k \in Conns /\ Holds(k, call.req, 2) /\ call \in Calls
      /\ k.stream[1].part = "header" /\ k.stream[1].req.kind = call.req.kind
  BY <1>1, CallTyped DEF Holds
<1>3. call' = Stage("body") /\ UNCHANGED <<world, caches, job, out, outcome, watch>>
  <2>1. Head(k.stream) = k.stream[1]
    BY <1>1, <1>2 DEF Conns
  <2> QED
    BY <1>2, <2>1 DEF RecvHeader
<1>4. call' \in Calls /\ call'.at = "body" /\ call'.req = call.req
  BY <1>2, <1>3 DEF Calls, Stage
<1> DEFINE c == [k EXCEPT !.stream = Tail(@)]
<1>5. /\ Tail(k.stream) \in Seq(Pieces) /\ Len(Tail(k.stream)) = Len(k.stream) - 1
      /\ Len(k.stream) \in Nat
      /\ \A i \in 1..Len(Tail(k.stream)) : Tail(k.stream)[i] = k.stream[i + 1]
  BY <1>1, <1>2 DEF Conns
<1>6. c \in Conns /\ c.sent = k.sent /\ c.state = k.state /\ c.stream = Tail(k.stream)
  BY <1>2, <1>5 DEF Conns
<1>7. conn' = [conn EXCEPT ![Here] = c]
  BY <1>1
<1> HIDE DEF c
<1>8. Holds(c, call.req, 1)
  <2>1. c.sent = <<>> /\ (c.state = "open" => Len(c.stream) = 1) /\ Len(c.stream) <= 1
    BY <1>1, <1>2, <1>5, <1>6 DEF Holds
  <2>2. \A i \in 1..Len(c.stream) : c.stream[i].value \in Right(call.req)
    BY <1>2, <1>5, <1>6 DEF Holds
  <2> QED
    BY <2>1, <2>2 DEF Holds
<1>9. Inv'
  BY <1>1, <1>3, <1>4, <1>6, <1>7, <1>8, CallStep
<1> QED
  BY <1>3, <1>9

LEMMA RecvFailsInv == Inv /\ RecvFails => Inv'
<1> SUFFICES ASSUME Inv, RecvFails PROVE Inv'
  OBVIOUS
<1>1. /\ call # None /\ call.at \in {"header", "body"} /\ conn[Here].stream = <<>>
      /\ conn[Here].state # "open" /\ Raise /\ conn' = conn
  BY DEF RecvFails
<1>2. conn[Here].sent = <<>>
  BY <1>1, CallTyped DEF Holds
<1> QED
  BY <1>1, <1>2, RaiseInv DEF Inv, ConnInv

\* The body is the answer to the request, and goes into the list of its proxy.
LEMMA RecvBodyInv ==
  ASSUME Inv, RecvBody
  PROVE  /\ Inv'
         /\ call' = None /\ out' = [request |-> call.req, result |-> conn[Here].stream[1].value]
         /\ conn[Here].stream[1].value \in Right(call.req)
<1> DEFINE k == conn[Here]
<1> DEFINE v == k.stream[1].value
<1> DEFINE r == call.req
<1>1. /\ call # None /\ call.at = "body" /\ k.stream # <<>> /\ call' = None
      /\ conn' = [conn EXCEPT ![Here].stream = Tail(@)] /\ UNCHANGED world
  BY DEF RecvBody
<1>2. /\ k \in Conns /\ Holds(k, r, 1) /\ call \in Calls /\ Here \in Peers
      /\ r.kind \in {"id", "url", "rel"} /\ r.doc \in Docs /\ job # None
  BY <1>1, CallTyped DEF Requests, Inv, JobInv
<1>3. Head(k.stream) = k.stream[1] /\ Len(k.stream) = 1 /\ v \in Right(r)
  <2>1. k.stream \in Seq(Pieces)
    BY <1>2 DEF Conns
  <2>2. Len(k.stream) <= 1 /\ \A i \in 1..Len(k.stream) : k.stream[i].value \in Right(r)
    BY <1>2 DEF Holds
  <2>3. Len(k.stream) = 1
    <3>1. Len(k.stream) \in Nat /\ (k.stream = <<>> <=> Len(k.stream) = 0)
      BY <2>1, EmptyIffNoLength
    <3>2. k.stream # <<>> /\ Len(k.stream) <= 1
      BY <1>1, <2>2
    <3>3. Len(k.stream) # 0
      BY <3>1, <3>2
    <3>4. \A n \in Nat : n <= 1 /\ n # 0 => n = 1
      OBVIOUS
    <3> QED
      BY <3>1, <3>2, <3>3, <3>4
  <2>4. Head(k.stream) = k.stream[1]
    BY <2>1, <2>3
  <2>5. v \in Right(r)
    BY <2>2, <2>3
  <2> QED
    BY <2>3, <2>4, <2>5
<1>4. Tail(k.stream) = <<>> /\ k.sent = <<>>
  <2>1. k.stream \in Seq(Pieces)
    BY <1>2 DEF Conns
  <2>2. Tail(k.stream) = <<>>
    <3>1. Tail(k.stream) \in Seq(Pieces) /\ Len(Tail(k.stream)) = 0
      BY <1>3, <2>1
    <3> QED
      BY <3>1, EmptyIffNoLength
  <2>4. k.sent = <<>>
    BY <1>2 DEF Holds
  <2> QED
    BY <2>2, <2>4
<1>5. ConnInv'
  <2> DEFINE c == [k EXCEPT !.stream = <<>>]
  <2>1. c \in Conns /\ c.sent = <<>> /\ c.stream = <<>>
    BY <1>2, <1>4 DEF Conns
  <2>2. conn' = [conn EXCEPT ![Here] = c]
    BY <1>1, <1>4
  <2> HIDE DEF c
  <2>3. conn'[Here] = c /\ \A p \in Peers : p # Here => conn'[p] = conn[p]
    BY <1>2, <2>2 DEF Inv, ConnInv
  <2> QED
    BY <1>1, <1>2, <2>1, <2>2, <2>3 DEF Inv, ConnInv, Waiting
<1>6. WorldInv'
  BY <1>1 DEF Inv, WorldInv, world
<1>7. out' = [request |-> r, result |-> v]
  BY <1>3 DEF RecvBody
<1>8. job \in Jobs /\ (job.step = "rel" => job.doc \in Docs)
  BY <1>2 DEF Inv, JobInv
<1>9. /\ job' # None => job' \in Jobs /\ (job'.step = "rel" => job'.doc \in Docs)
      /\ minerCache' \in Seq(MinerEntries) /\ analysisCache' \in Seq(AnalysisEntries)
      /\ CachesBounded'
  <2>0. /\ minerCache \in Seq(MinerEntries) /\ analysisCache \in Seq(AnalysisEntries)
        /\ MinerSize > 0 => Len(minerCache) <= MinerSize
        /\ AnalysisSize > 0 => Len(analysisCache) <= AnalysisSize
    BY DEF Inv, CachesInv, CachesBounded
  <2>1. CASE r.kind = "id"
    <3> DEFINE e == [url |-> r.doc, doc |-> v]
    <3>1. v \in Identities /\ e \in MinerEntries
      BY <1>2, <1>3, <2>1 DEF Right, MinerEntries
    <3>2. /\ minerCache' = Shrink(Append(minerCache, e), MinerSize) /\ job' = WithId(v)
          /\ analysisCache' = analysisCache
      BY <1>3, <2>1 DEF RecvBody
    <3> HIDE DEF e, v
    <3>3. job' \in Jobs /\ (job'.step = "rel" => job'.doc \in Docs)
      BY <1>8, <3>1, <3>2, WithTyped
    <3> QED
      BY <2>0, <3>1, <3>2, <3>3, ShrinkBounded, SizeAssumption DEF CachesBounded
  <2>2. CASE r.kind = "url"
    <3> DEFINE e == [url |-> v, doc |-> r.doc]
    <3>1. v \in Docs /\ e \in MinerEntries /\ job.todo # <<>>
      BY <1>1, <1>2, <1>3, <2>2 DEF Right, MinerEntries, Identities, Inv, JobInv
    <3>2. /\ minerCache' = Shrink(Append(minerCache, e), MinerSize) /\ job' = WithUrl(v)
          /\ analysisCache' = analysisCache
      BY <1>3, <2>2 DEF RecvBody
    <3> HIDE DEF e, v
    <3>3. job' \in Jobs /\ (job'.step = "rel" => job'.doc \in Docs)
      BY <1>8, <3>1, <3>2, WithTyped
    <3> QED
      BY <2>0, <3>1, <3>2, <3>3, ShrinkBounded, SizeAssumption DEF CachesBounded
  <2>3. CASE r.kind = "rel"
    <3> DEFINE e == [doc |-> r.doc, rel |-> v]
    <3>1. v \in Lists(Docs) /\ e \in AnalysisEntries
      BY <1>2, <1>3, <2>3 DEF Right, AnalysisEntries
    <3>2. /\ analysisCache' = Shrink(Append(analysisCache, e), AnalysisSize)
          /\ job' = WithRel(v) /\ minerCache' = minerCache
      BY <1>3, <2>3 DEF RecvBody
    <3> HIDE DEF e, v
    <3>3. job' \in Jobs /\ (job'.step = "rel" => job'.doc \in Docs)
      BY <1>8, <3>1, <3>2, WithTyped
    <3> QED
      BY <2>0, <3>1, <3>2, <3>3, ShrinkBounded, SizeAssumption DEF CachesBounded
  <2> QED
    BY <1>2, <2>1, <2>2, <2>3
<1>10. JobInv' /\ CachesInv'
  BY <1>1, <1>9 DEF JobInv, CachesInv
<1> QED
  BY <1>1, <1>3, <1>5, <1>6, <1>7, <1>10 DEF Inv

\* A step of a server or of the network that changes one connection.
LEMMA NetworkStep ==
  ASSUME Inv, NEW p \in Peers, NEW c, conn' = [conn EXCEPT ![p] = c], c \in Conns,
         UNCHANGED <<known, rels, caches, job, call>>,
         IF Waiting(p) THEN Holds(c, call.req, IF call.at = "header" THEN 2 ELSE 1)
         ELSE c.sent = <<>> /\ c.stream = <<>>
  PROVE  Inv'
<1> USE DEF caches
<1>1. WorldInv' /\ CachesInv' /\ JobInv'
  BY DEF Inv, WorldInv, CachesInv, CachesBounded, JobInv
<1>2. conn'[p] = c /\ \A q \in Peers : q # p => conn'[q] = conn[q]
  BY DEF Inv, ConnInv
<1>3. \A q \in Peers : Waiting(q)' <=> Waiting(q)
  BY DEF Waiting, Here
<1>4. ConnInv'
  BY <1>2, <1>3 DEF Inv, ConnInv
<1> QED
  BY <1>1, <1>4 DEF Inv

\* A request that a server has is the one in progress.
LEMMA SentIsAsked ==
  ASSUME Inv, NEW p \in Peers, conn[p].sent # <<>>
  PROVE  /\ Waiting(p) /\ call.at = "header" /\ call \in Calls /\ call.req \in Requests
         /\ conn[p].sent = <<call.req>> /\ conn[p].stream = <<>>
<1>1. Waiting(p) /\ Holds(conn[p], call.req, IF call.at = "header" THEN 2 ELSE 1)
  BY DEF Inv, ConnInv
<1> QED
  BY <1>1, CallTyped DEF Waiting, Holds

LEMMA ServeInv ==
  ASSUME Inv, NEW p \in Peers, Serve(p)
  PROVE  /\ Inv'
         /\ conn'[p].stream[2].value = Reply(call.req) /\ Len(conn'[p].stream) = 2
<1> DEFINE k == conn[p]
<1> DEFINE r == call.req
<1> DEFINE piece(part) == [part |-> part, req |-> r, value |-> Reply(r)]
<1>1. /\ k.state = "open" /\ k.sent # <<>>
      /\ UNCHANGED <<world, caches, job, call>>
  BY DEF Serve
<1>2. /\ Waiting(p) /\ call.at = "header" /\ r \in Requests /\ k.sent = <<r>> /\ k.stream = <<>>
  BY <1>1, SentIsAsked
<1>3. k \in Conns /\ Reply(r) \in Right(r) /\ Reply(r) \in Values
  BY <1>2, ReplyIsRight DEF Inv, ConnInv
<1>4. piece("header") \in Pieces /\ piece("body") \in Pieces
  BY <1>2, <1>3 DEF Pieces
<1> DEFINE s == <<piece("header"), piece("body")>>
<1>5. s \in Seq(Pieces) /\ Len(s) = 2 /\ s[1] = piece("header") /\ s[2] = piece("body")
  BY <1>4
<1> DEFINE c == [k EXCEPT !.sent = <<>>, !.stream = s]
<1>6. conn' = [conn EXCEPT ![p].sent = Tail(@), ![p].stream = @ \o s]
  <2>1. Head(k.sent) = r
    BY <1>2
  <2> QED
    BY <2>1 DEF Serve
<1>7. Tail(k.sent) = <<>> /\ k.stream \o s = s
  BY <1>2, <1>5
<1> HIDE DEF s
<1>12. conn' = [conn EXCEPT ![p] = c]
  BY <1>6, <1>7 DEF Inv, ConnInv, Conns
<1>8. c \in Conns /\ c.sent = <<>> /\ c.stream = s /\ c.state = "open"
  <2>1. k.state = "open" /\ <<>> \in Seq(Requests) /\ k \in Conns
    BY <1>1, <1>3
  <2> QED
    BY <1>5, <2>1 DEF Conns
<1> HIDE DEF c
<1>9. Holds(c, r, 2)
  <2>1. \A i \in 1..2 : s[i].value \in Right(r)
    BY <1>3, <1>5
  <2>2. s # <<>>
    <3>1. s \in Seq(Pieces) /\ Len(s) = 2
      BY <1>5
    <3>2. s = <<>> <=> Len(s) = 0
      BY <3>1, EmptyIffNoLength
    <3> QED
      BY <3>1, <3>2
  <2>3. s[1].part = "header" /\ s[1].req.kind = r.kind
    BY <1>5
  <2>4. Len(s) = 2
    BY <1>5
  <2> QED
    BY <1>8, <2>1, <2>2, <2>3, <2>4 DEF Holds
<1>10. Inv'
  BY <1>1, <1>2, <1>8, <1>9, <1>12, NetworkStep DEF world
<1>11. conn'[p] = c
  BY <1>12 DEF Inv, ConnInv
<1> QED
  BY <1>5, <1>8, <1>10, <1>11

\* When a server closes or dies, a prefix of its answer is left.
LEMMA CutInv ==
  ASSUME Inv, NEW p \in Peers, NEW n \in 0..Len(conn[p].stream), NEW st \in {"fin", "rst"},
         conn[p].sent = <<>> \/ n = 0,
         conn' = [conn EXCEPT ![p] = [state |-> st, sent |-> <<>>,
                                      stream |-> SubSeq(conn[p].stream, 1, n)]],
         UNCHANGED <<known, rels, caches, job, call>>
  PROVE  Inv'
<1> DEFINE k == conn[p]
<1> DEFINE t == SubSeq(k.stream, 1, n)
<1> DEFINE c == [state |-> st, sent |-> <<>>, stream |-> t]
<1>1. k \in Conns /\ k.stream \in Seq(Pieces) /\ Len(k.stream) \in Nat
  BY DEF Inv, ConnInv, Conns
<1>2. t \in Seq(Pieces) /\ Len(t) = n /\ \A i \in 1..n : t[i] = k.stream[i]
  BY <1>1
<1> HIDE DEF t
<1>3. c \in Conns /\ c.sent = <<>> /\ c.state # "open" /\ c.stream = t
  BY <1>2 DEF Conns, ConnStates
<1> HIDE DEF c
<1>4. CASE Waiting(p)
  <2> DEFINE size == IF call.at = "header" THEN 2 ELSE 1
  <2>1. Holds(k, call.req, size)
    BY <1>4 DEF Inv, ConnInv
  <2>2. Len(c.stream) <= size
    BY <1>1, <1>2, <1>3, <2>1 DEF Holds
  <2>3. size = 2 /\ c.stream # <<>> => /\ c.stream[1].part = "header"
                                       /\ c.stream[1].req.kind = call.req.kind
    <3>1. c.stream # <<>> => n >= 1 /\ k.stream # <<>> /\ c.stream[1] = k.stream[1]
      BY <1>1, <1>2, <1>3
    <3> QED
      BY <2>1, <3>1 DEF Holds
  <2>4. \A i \in 1..Len(c.stream) : c.stream[i].value \in Right(call.req)
    BY <1>1, <1>2, <1>3, <2>1 DEF Holds
  <2>5. Holds(c, call.req, size)
    BY <1>3, <2>2, <2>3, <2>4 DEF Holds
  <2> QED
    BY <1>3, <1>4, <2>5, NetworkStep DEF c, t
<1>5. CASE ~Waiting(p)
  <2>1. k.stream = <<>>
    BY <1>5 DEF Inv, ConnInv
  <2>2. c.stream = <<>>
    BY <1>2, <1>3, <2>1
  <2> QED
    BY <1>3, <1>5, <2>2, NetworkStep DEF c, t
<1> QED
  BY <1>4, <1>5

LEMMA DropInv ==
  ASSUME Inv, NEW p \in Peers, Drop(p)
  PROVE  Inv'
<1> DEFINE c == [conn[p] EXCEPT !.state = "fin", !.sent = <<>>]
<1>1. /\ conn[p].sent # <<>> /\ conn[p] \in Conns
      /\ UNCHANGED <<known, rels, caches, job, call>>
  BY DEF Drop, Inv, ConnInv
<1>2. conn[p].stream = <<>> /\ Waiting(p) /\ call.at = "header"
  BY <1>1, SentIsAsked
<1>3. conn' = [conn EXCEPT ![p] = c]
  BY <1>1 DEF Drop, Conns, Inv, ConnInv
<1>4. c \in Conns /\ c.sent = <<>> /\ c.stream = <<>> /\ c.state = "fin"
  <2>1. <<>> \in Seq(Requests)
    OBVIOUS
  <2>2. c \in Conns
    BY <1>1, <2>1 DEF Conns, ConnStates
  <2>3. c.sent = <<>> /\ c.stream = conn[p].stream /\ c.state = "fin"
    BY <1>1 DEF Conns
  <2> QED
    BY <1>2, <2>2, <2>3
<1> HIDE DEF c
<1>5. Holds(c, call.req, 2)
  <2>1. Len(c.stream) = 0
    BY <1>4
  <2> QED
    BY <1>4, <2>1 DEF Holds
<1> QED
  BY <1>1, <1>2, <1>3, <1>4, <1>5, NetworkStep

LEMMA DieInv ==
  ASSUME Inv, NEW p \in Peers, Die(p)
  PROVE  Inv'
<1>1. UNCHANGED <<known, rels, caches, job, call>>
  BY DEF Die
<1>2. CASE UNCHANGED conn
  BY <1>1, <1>2 DEF Inv, WorldInv, CachesInv, CachesBounded, JobInv, ConnInv, Waiting, Here,
                    caches
<1>3. ASSUME NEW n \in 0..Len(conn[p].stream), NEW st \in {"fin", "rst"},
             conn' = [conn EXCEPT ![p] = [state |-> st, sent |-> <<>>,
                                          stream |-> SubSeq(@.stream, 1, n)]]
      PROVE  Inv'
  <2>1. conn[p].sent = <<>> \/ n = 0
    <3>1. conn[p].sent # <<>> => conn[p].stream = <<>>
      BY SentIsAsked
    <3>2. conn[p].stream = <<>> => n = 0
      OBVIOUS
    <3> QED
      BY <3>1, <3>2
  <2> QED
    BY <1>1, <1>3, <2>1, CutInv
<1> QED
  BY <1>2, <1>3 DEF Die

LEMMA WorldStep ==
  ASSUME Inv, WorldInv', UNCHANGED <<conn, caches, job, call>>
  PROVE  Inv'
BY DEF Inv, CachesInv, CachesBounded, JobInv, ConnInv, Waiting, Here, caches

LEMMA ResetInv ==
  ASSUME Inv, NEW p \in Peers, ResetArrives(p)
  PROVE  Inv'
<1> DEFINE c == [conn[p] EXCEPT !.state = "rst"]
<1>1. /\ conn[p].state = "doomed" /\ conn' = [conn EXCEPT ![p] = c]
      /\ UNCHANGED <<known, rels, caches, job, call>>
  BY DEF ResetArrives, world
<1>2. /\ c \in Conns /\ c.sent = conn[p].sent /\ c.stream = conn[p].stream
      /\ c.state = "rst"
  BY DEF Inv, ConnInv, Conns, ConnStates
<1> HIDE DEF c
<1>3. IF Waiting(p) THEN Holds(c, call.req, IF call.at = "header" THEN 2 ELSE 1)
      ELSE c.sent = <<>> /\ c.stream = <<>>
  BY <1>1, <1>2 DEF Inv, ConnInv, Holds
<1> QED
  BY <1>1, <1>2, <1>3, NetworkStep

LEMMA NextInv == Inv /\ [Next]_vars => Inv'
<1> SUFFICES ASSUME Inv, [Next]_vars PROVE Inv'
  OBVIOUS
<1>1. CASE Handle \/ BadPost \/ \E u \in Docs : Post(u)
  BY <1>1, HandleInv
<1>2. CASE Proxy
  BY <1>2, SendInv, SendFailsInv, ReconnectInv, RecvHeaderInv, RecvFailsInv, RecvBodyInv
     DEF Proxy
<1>3. ASSUME NEW p \in Peers, Serve(p) \/ Drop(p) \/ Die(p) \/ ResetArrives(p) PROVE Inv'
  BY <1>3, ServeInv, DropInv, DieInv, ResetInv
<1>4. ASSUME NEW p \in Peers, Restart(p) PROVE Inv'
  <2>1. UNCHANGED <<known, conn, caches, job, call>>
    BY <1>4 DEF Restart
  <2>2. rels' \in [Docs -> Lists(Docs)]
    BY <1>4, AnalysesTyped DEF Restart, Inv, WorldInv
  <2> QED
    BY <2>1, <2>2, WorldStep DEF Inv, WorldInv
<1>5. ASSUME NEW d \in Docs, Mirror(d) PROVE Inv'
  BY <1>5, WorldStep DEF Mirror, Inv, WorldInv
<1>6. CASE UNCHANGED vars
  BY <1>6, WorldStep DEF vars, caches, Inv, WorldInv
<1> QED
  BY <1>1, <1>2, <1>3, <1>4, <1>5, <1>6 DEF Next

-----------------------------------------------------------------------------
\* In every reachable state a connection holds only what belongs to the call in
\* progress, and the POST, the lists and the servers keep their types.
THEOREM InvHolds == Spec => []Inv
<1> QED
  BY InitInv, NextInv, PTL DEF Spec

\* The lists stay within their sizes, for every size but 0.
THEOREM CachesStayBounded == Spec => []CachesBounded
<1>1. Inv => CachesBounded
  BY DEF Inv, CachesInv
<1> QED
  BY <1>1, InvHolds, PTL

-----------------------------------------------------------------------------
\* What Exchange sees of a proxy.
AskedOf(p) == IF call # None /\ Here = p THEN call.req ELSE None
AnswerOf(p) == IF call # None /\ Here = p THEN AnswerTo(p) ELSE None
SameData == \A r \in Requests : Reply(r)' = Reply(r)

\* A step that asks nothing, answers nothing and teaches the servers nothing.
LEMMA NothingMoves ==
  ASSUME SameData, out' = out,
         \A p \in Peers : AskedOf(p)' = AskedOf(p) /\ AnswerOf(p)' = AnswerOf(p)
  PROVE  UNCHANGED Promise!vars
BY DEF SameData, AskedOf, AnswerOf, Promise!vars

LEMMA AskMoves ==
  ASSUME SameData, out' = None, NEW p \in Peers, NEW r \in Requests,
         AskedOf(p) = None, AskedOf(p)' = r,
         \A q \in Peers : q # p => AskedOf(q)' = AskedOf(q),
         \A q \in Peers : AnswerOf(q)' = AnswerOf(q)
  PROVE  Promise!Ask(p)
BY DEF SameData, AskedOf, AnswerOf, Promise!Ask

LEMMA ServeMoves ==
  ASSUME SameData, out' = out, NEW p \in Peers, AskedOf(p) # None, AskedOf(p) \in Requests,
         AnswerOf(p) = None, AnswerOf(p)' = Reply(AskedOf(p)),
         \A q \in Peers : AskedOf(q)' = AskedOf(q),
         \A q \in Peers : q # p => AnswerOf(q)' = AnswerOf(q)
  PROVE  Promise!Serve(p)
BY DEF SameData, AskedOf, AnswerOf, Promise!Serve

LEMMA LoseMoves ==
  ASSUME SameData, out' = out, NEW p \in Peers, AskedOf(p) # None, AnswerOf(p)' = Lost,
         \A q \in Peers : AskedOf(q)' = AskedOf(q),
         \A q \in Peers : q # p => AnswerOf(q)' = AnswerOf(q)
  PROVE  Promise!Lose(p)
BY DEF SameData, AskedOf, AnswerOf, Promise!Lose

LEMMA EndMoves ==
  ASSUME SameData, NEW p \in Peers, NEW v, out' = [request |-> AskedOf(p), result |-> v],
         AskedOf(p)' = None, AnswerOf(p)' = None,
         \A q \in Peers : q # p => AskedOf(q)' = AskedOf(q) /\ AnswerOf(q)' = AnswerOf(q)
  PROVE  Promise!End(p, v)
BY DEF SameData, AskedOf, AnswerOf, Promise!End

LEMMA SameWorld == UNCHANGED world => SameData
BY DEF world, SameData, Reply

\* Between the moment a request is sent and the moment its answer is read, the
\* answer is in the connection, to come, or lost.
LEMMA AnswerHere ==
  ASSUME Inv, call # None
  PROVE  /\ Here \in Peers /\ AskedOf(Here) = call.req /\ call.req \in Requests
         /\ call.req # None
         /\ call.at \in {"send", "sleep"} => AnswerOf(Here) = None
         /\ \A p \in Peers : p # Here => AskedOf(p) = None /\ AnswerOf(p) = None
<1>1. Here \in Peers /\ call.req \in Requests
  BY CallTyped
<1> QED
  BY <1>1, NoneAssumption DEF AskedOf, AnswerOf, AnswerTo

LEMMA HandleMoves ==
  ASSUME Inv, Inv', AsksOrNot
  PROVE  [Promise!Next]_(Promise!vars)
<1>1. CASE UNCHANGED <<world, conn, call, out>>
  <2>1. \A p \in Peers : AskedOf(p)' = AskedOf(p) /\ AnswerOf(p)' = AnswerOf(p)
    BY <1>1 DEF AskedOf, AnswerOf, AnswerTo, Here
  <2> QED
    BY <1>1, <2>1, SameWorld, NothingMoves
<1>2. ASSUME call = None, NEW r \in Requests, Ask(r.kind, r.doc)
      PROVE  Promise!Next
  <2>1. /\ call' = [req |-> [kind |-> r.kind, doc |-> r.doc], at |-> "send", tries |-> 0]
        /\ out' = None /\ UNCHANGED world
    BY <1>2 DEF Ask
  <2>2. call' \in Calls /\ call'.req = r /\ call'.at = "send" /\ call' # None
    BY <2>1, TriesAssumption, NoneAssumption DEF Calls, Requests
  <2> DEFINE p == PeerOf(r.kind)
  <2>3. p \in Peers /\ Here' = p
    BY <2>2 DEF Here, PeerOf, Peers
  <2>4. \A q \in Peers : AskedOf(q) = None /\ AnswerOf(q) = None
    BY <1>2 DEF AskedOf, AnswerOf
  <2>5. AskedOf(p)' = r /\ \A q \in Peers : q # p => AskedOf(q)' = None
    BY <2>2, <2>3 DEF AskedOf
  <2>6. \A q \in Peers : AnswerOf(q)' = None
    BY <2>2 DEF AnswerOf, AnswerTo
  <2> HIDE DEF p
  <2>7. Promise!Ask(p)
    BY <2>1, <2>3, <2>4, <2>5, <2>6, SameWorld, AskMoves
  <2> QED
    BY <2>3, <2>7 DEF Promise!Next
<1> QED
  BY <1>1, <1>2 DEF AsksOrNot

\* A call that raises.
LEMMA RaiseMoves ==
  ASSUME Inv, call # None, Raise
  PROVE  Promise!Next
<1>1. /\ out' = [request |-> call.req, result |-> Failed] /\ call' = None /\ UNCHANGED world
  BY DEF Raise
<1>2. \A p \in Peers : AskedOf(p)' = None /\ AnswerOf(p)' = None
  BY <1>1 DEF AskedOf, AnswerOf
<1>3. PICK h \in Peers : h = Here
  BY AnswerHere
<1>4. /\ AskedOf(h) = call.req /\ call.req # None
      /\ \A p \in Peers : p # h => AskedOf(p) = None /\ AnswerOf(p) = None
  BY <1>3, AnswerHere
<1>5. Promise!End(h, Failed)
  BY <1>1, <1>2, <1>4, SameWorld, EndMoves
<1>6. Promise!Raise(h)
  BY <1>4, <1>5 DEF Promise!Raise, AskedOf
<1> QED
  BY <1>6 DEF Promise!Next

\* A step of a call that goes on, with what it makes of the answer.
LEMMA CallMoves ==
  ASSUME Inv, call # None, call' # None, call'.req = call.req, UNCHANGED <<world, out>>,
         NEW h \in Peers, h = Here, AnswerTo(h)' = AnswerTo(h) \/ AnswerTo(h)' = Lost
  PROVE  [Promise!Next]_(Promise!vars)
<1>1. Here' = h
  BY DEF Here
<1>2. \A p \in Peers : AskedOf(p)' = AskedOf(p)
  BY <1>1 DEF AskedOf
<1>3. \A p \in Peers : p # h => AnswerOf(p)' = AnswerOf(p)
  BY <1>1 DEF AnswerOf
<1>4. AnswerOf(h)' = AnswerOf(h) \/ AnswerOf(h)' = Lost
  BY <1>1 DEF AnswerOf
<1>5. CASE AnswerOf(h)' = AnswerOf(h)
  BY <1>2, <1>3, <1>5, SameWorld, NothingMoves
<1>6. CASE AnswerOf(h)' = Lost
  <2>1. AskedOf(h) # None
    BY AnswerHere
  <2>2. Promise!Lose(h)
    BY <1>2, <1>3, <1>6, <2>1, SameWorld, LoseMoves
  <2> QED
    BY <2>2 DEF Promise!Next
<1> QED
  BY <1>4, <1>5, <1>6

LEMMA SendMoves ==
  ASSUME Inv, Send
  PROVE  [Promise!Next]_(Promise!vars)
<1>1. PICK h \in Peers : h = Here
  BY AnswerHere DEF Send
<1>2. /\ call # None /\ call.at = "send" /\ call' = [call EXCEPT !.at = "header"]
      /\ UNCHANGED <<world, out>>
  BY DEF Send, Stage
<1>3. /\ call \in Calls /\ conn \in [Peers -> Conns] /\ conn[h].stream = <<>>
  BY <1>1, <1>2, CallTyped DEF Inv, ConnInv
<1>4. call' \in Calls /\ call'.at = "header" /\ call'.req = call.req /\ call' # None
  BY <1>2, <1>3, NoneAssumption DEF Calls
<1>5. AnswerTo(h) = None
  BY <1>2 DEF AnswerTo
<1>6. conn'[h].stream = <<>> /\ Len(conn'[h].stream) = 0
  BY <1>1, <1>3 DEF Send, Conns
<1>7. conn'[h].state = "open" => AnswerTo(h)' = None
  BY <1>4, <1>6 DEF AnswerTo
<1>8. conn'[h].state # "open" => AnswerTo(h)' = Lost
  BY <1>4, <1>6 DEF AnswerTo
<1> QED
  BY <1>1, <1>2, <1>4, <1>5, <1>7, <1>8, CallMoves

LEMMA RetryMoves ==
  ASSUME Inv, SendFails \/ Reconnect
  PROVE  [Promise!Next]_(Promise!vars)
<1>1. call # None /\ call.at \in {"send", "sleep"}
  BY DEF SendFails, Reconnect
<1>2. PICK h \in Peers : h = Here
  BY <1>1, AnswerHere
<1>3. call \in Calls
  BY <1>1, CallTyped
<1>4. ASSUME call' \in Calls, call'.at \in {"send", "sleep"}, call'.req = call.req,
             UNCHANGED <<world, out>>
      PROVE  [Promise!Next]_(Promise!vars)
  <2>1. AnswerTo(h) = None /\ AnswerTo(h)' = None
    BY <1>1, <1>4 DEF AnswerTo
  <2> QED
    BY <1>1, <1>2, <1>4, <2>1, NoneAssumption, CallMoves
<1>5. CASE SendFails
  BY <1>3, <1>4, <1>5 DEF SendFails, Stage, Calls
<1>6. CASE Reconnect
  <2>1. CASE Raise
    BY <1>1, <2>1, RaiseMoves
  <2>2. CASE /\ call.tries + 1 < Tries /\ call' = [call EXCEPT !.at = "send", !.tries = @ + 1]
             /\ UNCHANGED <<world, out>>
    <3>1. call.tries + 1 \in 0..(Tries - 1)
      BY <1>3, <2>2, TriesAssumption DEF Calls
    <3>2. call' \in Calls /\ call'.at = "send" /\ call'.req = call.req
      BY <1>3, <2>2, <3>1 DEF Calls
    <3> QED
      BY <1>4, <2>2, <3>2
  <2> QED
    BY <1>6, <2>1, <2>2 DEF Reconnect
<1> QED
  BY <1>5, <1>6

\* The answer is the piece after the header.
LEMMA RecvHeaderMoves ==
  ASSUME Inv, RecvHeader
  PROVE  [Promise!Next]_(Promise!vars)
<1>1. PICK h \in Peers : h = Here
  BY AnswerHere DEF RecvHeader
<1> DEFINE s == conn[h].stream
<1>2. /\ call # None /\ call.at = "header" /\ s # <<>>
      /\ conn' = [conn EXCEPT ![h].stream = Tail(@)]
      /\ call' = [call EXCEPT !.at = "body"] /\ UNCHANGED <<world, out>>
  BY <1>1, RecvHeaderInv DEF RecvHeader, Stage
<1>3. /\ call \in Calls /\ conn \in [Peers -> Conns] /\ s \in Seq(Pieces)
  BY <1>1, <1>2, CallTyped DEF Inv, ConnInv, Conns
<1>4. call' \in Calls /\ call'.at = "body" /\ call'.req = call.req /\ call' # None
  BY <1>2, <1>3, NoneAssumption DEF Calls
<1>5. conn'[h].stream = Tail(s) /\ conn'[h].state = conn[h].state
  BY <1>2, <1>3 DEF Conns
<1>6. /\ Len(s) \in Nat /\ Len(Tail(s)) = Len(s) - 1
      /\ \A i \in 1..Len(Tail(s)) : Tail(s)[i] = s[i + 1]
  BY <1>2, <1>3, HeadTailProperties
<1>7. CASE Len(s) >= 2
  <2>1. AnswerTo(h) = s[2].value
    BY <1>2, <1>7 DEF AnswerTo
  <2>2. Len(Tail(s)) >= 1 /\ Tail(s)[1] = s[2]
    BY <1>6, <1>7
  <2>3. AnswerTo(h)' = Tail(s)[1].value
    BY <1>4, <1>5, <2>2 DEF AnswerTo
  <2> QED
    BY <1>1, <1>2, <1>4, <2>1, <2>2, <2>3, CallMoves
<1>8. CASE ~(Len(s) >= 2)
  <2>1. AnswerTo(h) = IF conn[h].state = "open" THEN None ELSE Lost
    BY <1>2, <1>8 DEF AnswerTo
  <2>2. ~(Len(Tail(s)) >= 1)
    BY <1>6, <1>8
  <2>3. AnswerTo(h)' = IF conn[h].state = "open" THEN None ELSE Lost
    BY <1>4, <1>5, <2>2 DEF AnswerTo
  <2> QED
    BY <1>1, <1>2, <1>4, <2>1, <2>3, CallMoves
<1> QED
  BY <1>7, <1>8

\* The call returns the answer it was given.
LEMMA RecvBodyMoves ==
  ASSUME Inv, RecvBody
  PROVE  Promise!Next
<1>1. PICK h \in Peers : h = Here
  BY AnswerHere DEF RecvBody
<1>0. PICK v : v = conn[h].stream[1].value
  OBVIOUS
<1>2. /\ call # None /\ call.at = "body" /\ conn[h].stream # <<>> /\ UNCHANGED world
      /\ call' = None /\ out' = [request |-> call.req, result |-> v]
      /\ v \in Right(call.req)
  BY <1>1, <1>0, RecvBodyInv DEF RecvBody
<1>3. conn[h].stream \in Seq(Pieces) /\ call.req \in Requests
  BY <1>1, <1>2, CallTyped DEF Conns
<1>4. Len(conn[h].stream) >= 1
  <2>1. Len(conn[h].stream) \in Nat /\ (conn[h].stream = <<>> <=> Len(conn[h].stream) = 0)
    BY <1>3, EmptyIffNoLength
  <2>2. Len(conn[h].stream) # 0
    BY <1>2, <2>1
  <2>3. \A n \in Nat : n # 0 => n >= 1
    OBVIOUS
  <2> QED
    BY <2>1, <2>2, <2>3
<1>5. AskedOf(h) = call.req /\ AnswerOf(h) = v
  BY <1>1, <1>2, <1>4, <1>0 DEF AskedOf, AnswerOf, AnswerTo
<1>6. \A p \in Peers : AskedOf(p)' = None /\ AnswerOf(p)' = None
  BY <1>2 DEF AskedOf, AnswerOf
<1>7. \A p \in Peers : p # h => AskedOf(p) = None /\ AnswerOf(p) = None
  BY <1>1, <1>2, AnswerHere
<1>8. v \in Docs \cup {Absent} \cup Lists(Docs)
  BY <1>2 DEF Right, Identities
<1>9. Promise!End(h, v)
  BY <1>2, <1>5, <1>6, <1>7, SameWorld, EndMoves
<1>10. Promise!Return(h)
  BY <1>5, <1>8, <1>9 DEF Promise!Return, Promise!End, AnswerOf
<1> QED
  BY <1>10 DEF Promise!Next

LEMMA RecvFailsMoves == Inv /\ RecvFails => Promise!Next
BY RaiseMoves DEF RecvFails

\* The moment at which the answer is right.
LEMMA ServeStepMoves ==
  ASSUME Inv, NEW p \in Peers, Serve(p)
  PROVE  Promise!Next
<1>1. /\ Waiting(p) /\ call.at = "header" /\ call \in Calls /\ call.req \in Requests
      /\ conn[p].stream = <<>> /\ conn[p].state = "open"
      /\ UNCHANGED <<world, call, out>>
  BY SentIsAsked DEF Serve
<1>2. /\ conn'[p].stream[2].value = Reply(call.req) /\ Len(conn'[p].stream) = 2
      /\ \A q \in Peers : q # p => conn'[q] = conn[q]
  BY ServeInv DEF Serve, Inv, ConnInv
<1>3. AskedOf(p) = call.req /\ call.req # None /\ \A q \in Peers : AskedOf(q)' = AskedOf(q)
  BY <1>1, NoneAssumption DEF AskedOf, Waiting, Here
<1>4. AnswerOf(p) = None
  <2>1. ~(Len(conn[p].stream) >= 2)
    BY <1>1
  <2> QED
    BY <1>1, <2>1 DEF AnswerOf, AnswerTo, Waiting
<1>5. AnswerOf(p)' = Reply(AskedOf(p))
  <2>1. Waiting(p)' /\ call'.at = "header" /\ Len(conn'[p].stream) >= 2
    BY <1>1, <1>2 DEF Waiting, Here
  <2>2. AnswerOf(p)' = conn'[p].stream[2].value
    BY <2>1 DEF AnswerOf, AnswerTo, Waiting
  <2> QED
    BY <1>2, <1>3, <2>2
<1>6. \A q \in Peers : q # p => AnswerOf(q)' = AnswerOf(q)
  BY <1>1, <1>2 DEF AnswerOf, AnswerTo, Here
<1>7. Promise!Serve(p)
  BY <1>1, <1>3, <1>4, <1>5, <1>6, SameWorld, ServeMoves
<1> QED
  BY <1>7 DEF Promise!Next

\* A connection that is closed or cut leaves the answer as it was, or loses it.
LEMMA CutMoves ==
  ASSUME Inv, NEW p \in Peers, UNCHANGED <<known, rels, call, out>>,
         \A q \in Peers : q # p => conn'[q] = conn[q],
         conn'[p].state # "open",
         NEW n \in 0..Len(conn[p].stream), conn'[p].stream = SubSeq(conn[p].stream, 1, n),
         conn[p].state # "open" => n = Len(conn[p].stream)
  PROVE  [Promise!Next]_(Promise!vars)
<1> DEFINE s == conn[p].stream
<1>0. SameData
  BY DEF SameData, Reply
<1>1. /\ \A q \in Peers : AskedOf(q)' = AskedOf(q)
      /\ \A q \in Peers : q # p => AnswerOf(q)' = AnswerOf(q)
  BY DEF AskedOf, AnswerOf, AnswerTo, Here
<1>2. CASE ~Waiting(p)
  <2>1. AnswerOf(p)' = AnswerOf(p)
    <3>1. call # None /\ Here = p => call.at \in {"send", "sleep"}
      BY <1>2, CallTyped DEF Waiting, Calls
    <3> QED
      BY <3>1 DEF AnswerOf, AnswerTo, Here
  <2> QED
    BY <1>0, <1>1, <2>1, NothingMoves
<1>3. CASE Waiting(p)
  <2> DEFINE size == IF call.at = "header" THEN 2 ELSE 1
  <2>1. s \in Seq(Pieces) /\ Len(s) \in Nat
    BY DEF Inv, ConnInv, Conns
  <2>2. /\ Len(conn'[p].stream) = n
        /\ \A i \in 1..n : conn'[p].stream[i] = s[i]
    BY <2>1
  <2>3. AnswerOf(p) = IF Len(s) >= size THEN s[size].value
                      ELSE IF conn[p].state = "open" THEN None ELSE Lost
    BY <1>3 DEF AnswerOf, AnswerTo, Waiting
  <2>4. AnswerOf(p)' = IF n >= size THEN conn'[p].stream[size].value ELSE Lost
    BY <1>3, <2>2 DEF AnswerOf, AnswerTo, Waiting, Here
  <2>5. AnswerOf(p)' = AnswerOf(p) \/ AnswerOf(p)' = Lost
    <3>1. n >= size => conn'[p].stream[size] = s[size] /\ Len(s) >= size
      BY <2>1, <2>2
    <3> QED
      BY <2>3, <2>4, <3>1
  <2>6. CASE AnswerOf(p)' = AnswerOf(p)
    BY <1>0, <1>1, <2>6, NothingMoves
  <2>7. CASE AnswerOf(p)' = Lost
    <3>1. AskedOf(p) # None
      BY <1>3, AnswerHere DEF Waiting
    <3>2. Promise!Lose(p)
      BY <1>0, <1>1, <2>7, <3>1, LoseMoves
    <3> QED
      BY <3>2 DEF Promise!Next
  <2> QED
    BY <2>5, <2>6, <2>7
<1> QED
  BY <1>2, <1>3

LEMMA NetworkMoves ==
  ASSUME Inv, NEW p \in Peers, Drop(p) \/ Die(p) \/ ResetArrives(p)
  PROVE  [Promise!Next]_(Promise!vars)
<1> DEFINE s == conn[p].stream
<1>1. UNCHANGED <<known, rels, call, out>>
  BY DEF Drop, Die, ResetArrives, world
<1>2. conn \in [Peers -> Conns] /\ s \in Seq(Pieces) /\ Len(s) \in Nat
  BY DEF Inv, ConnInv, Conns
<1>3. CASE UNCHANGED conn
  <2>1. \A q \in Peers : AskedOf(q)' = AskedOf(q) /\ AnswerOf(q)' = AnswerOf(q)
    BY <1>1, <1>3 DEF AskedOf, AnswerOf, AnswerTo, Here
  <2>2. SameData
    BY <1>1 DEF SameData, Reply
  <2> QED
    BY <1>1, <2>1, <2>2, NothingMoves
<1>4. ASSUME NEW n \in 0..Len(s), NEW st \in {"fin", "rst"},
             conn[p].state = "open",
             conn' = [conn EXCEPT ![p] = [state |-> st, sent |-> <<>>,
                                          stream |-> SubSeq(s, 1, n)]]
      PROVE  [Promise!Next]_(Promise!vars)
  <2>1. /\ conn'[p].state # "open" /\ conn'[p].stream = SubSeq(s, 1, n)
        /\ \A q \in Peers : q # p => conn'[q] = conn[q]
    BY <1>2, <1>4
  <2> QED
    BY <1>1, <1>4, <2>1, CutMoves
<1>5. CASE Drop(p)
  <2>1. s = <<>> /\ conn[p].state = "open" /\ 0 \in 0..Len(s)
    BY <1>2, <1>5, SentIsAsked DEF Drop
  <2>2. conn' = [conn EXCEPT ![p].state = "fin", ![p].sent = <<>>]
    BY <1>5 DEF Drop
  <2>3. /\ conn'[p].state # "open" /\ conn'[p].stream = s
        /\ \A q \in Peers : q # p => conn'[q] = conn[q]
    BY <1>2, <2>2 DEF Conns
  <2>4. SubSeq(s, 1, 0) = s
    BY <2>1
  <2> QED
    BY <1>1, <2>1, <2>3, <2>4, CutMoves
<1>6. CASE Die(p)
  BY <1>3, <1>4, <1>6 DEF Die
<1>7. CASE ResetArrives(p)
  <2>1. conn[p].state = "doomed" /\ conn' = [conn EXCEPT ![p].state = "rst"]
    BY <1>7 DEF ResetArrives
  <2>2. /\ conn'[p].state # "open" /\ conn'[p].stream = s
        /\ \A q \in Peers : q # p => conn'[q] = conn[q]
    BY <1>2, <2>1 DEF Conns
  <2>3. SubSeq(s, 1, Len(s)) = s /\ Len(s) \in 0..Len(s)
    BY <1>2
  <2> QED
    BY <1>1, <2>1, <2>2, <2>3, CutMoves
<1> QED
  BY <1>5, <1>6, <1>7

\* A server learns something, or computes its lists again.
LEMMA ChangeMoves ==
  ASSUME Inv', UNCHANGED <<conn, call, out>>
  PROVE  Promise!Next
<1>1. \A r \in Requests : Reply(r)' \in Docs \cup {Absent} \cup Lists(Docs)
  <2>1. WorldInv'
    BY DEF Inv
  <2>2. ASSUME NEW r \in Requests PROVE Reply(r)' \in Docs \cup {Absent} \cup Lists(Docs)
    <3>1. r.kind \in {"id", "url", "rel"} /\ r.doc \in Docs
      BY DEF Requests
    <3> QED
      BY <2>1, <3>1 DEF WorldInv, Reply
  <2> QED
    BY <2>2
<1>2. \A q \in Peers : AskedOf(q)' = AskedOf(q) /\ AnswerOf(q)' = AnswerOf(q)
  BY DEF AskedOf, AnswerOf, AnswerTo, Here
<1>3. Promise!Change
  BY <1>1, <1>2 DEF AskedOf, AnswerOf, Promise!Change, Promise!Data
<1> QED
  BY <1>3 DEF Promise!Next

LEMMA PromiseInit ==
  ASSUME Init
  PROVE  Promise!Init
<1>1. WorldInv
  BY AnalysesTyped DEF Init, WorldInv
<1>2. \A r \in Requests : Reply(r) \in Docs \cup {Absent} \cup Lists(Docs)
  BY <1>1, ReplyIsRight DEF Right, Values, Identities
<1> QED
  BY <1>2 DEF Init, Promise!Init, Promise!Data

LEMMA PromiseNext ==
  ASSUME Inv, Inv', [Next]_vars
  PROVE  [Promise!Next]_(Promise!vars)
<1>1. CASE Handle \/ BadPost \/ \E u \in Docs : Post(u)
  BY <1>1, HandleInv, HandleMoves
<1>2. CASE Proxy
  BY <1>2, SendMoves, RetryMoves, RecvHeaderMoves, RecvFailsMoves, RecvBodyMoves DEF Proxy
<1>3. ASSUME NEW p \in Peers, Serve(p) \/ Drop(p) \/ Die(p) \/ ResetArrives(p)
      PROVE  [Promise!Next]_(Promise!vars)
  BY <1>3, ServeStepMoves, NetworkMoves
<1>4. ASSUME NEW p \in Peers, Restart(p) PROVE Promise!Next
  BY <1>4, ChangeMoves DEF Restart
<1>5. ASSUME NEW d \in Docs, Mirror(d) PROVE Promise!Next
  BY <1>5, ChangeMoves DEF Mirror
<1>6. CASE UNCHANGED vars
  <2>1. UNCHANGED <<world, conn, call, out>>
    BY <1>6 DEF vars, world
  <2>2. \A p \in Peers : AskedOf(p)' = AskedOf(p) /\ AnswerOf(p)' = AnswerOf(p)
    BY <2>1 DEF AskedOf, AnswerOf, AnswerTo, Here
  <2> QED
    BY <2>1, <2>2, SameWorld, NothingMoves
<1> QED
  BY <1>1, <1>2, <1>3, <1>4, <1>5, <1>6 DEF Next

\* A proxy call returns the answer that was right between the call and its
\* return, or raises: the application server implements Exchange, for any
\* articles, attempts and number of faults.
THEOREM AnswersBelongHolds == Spec => AnswersBelong
<1> QED
  BY InvHolds, PromiseInit, PromiseNext, PTL DEF Spec, AnswersBelong, Promise!Spec

-----------------------------------------------------------------------------
\* What was true, or remembered, when the POST arrived, and what it has made of it.

FreshEntries == {e \in MinerEntries : e.doc \in {Absent, e.url}}

\* The lists of recommendations for u that a reply may show.
Given(u) ==
  {r[u] : r \in watch.rels} \cup
  {watch.analysis[i].rel : i \in {j \in DOMAIN watch.analysis : watch.analysis[j].doc = u}}

AbsentIsGiven(u) ==
  u \notin watch.known \/ [url |-> u, doc |-> Absent] \in ToSet(watch.miner)

\* Until the POST has its identity, or its list, the lists of the proxies are as
\* they were when it arrived.
WatchInv ==
  /\ watch \in [known : SUBSET Docs, rels : SUBSET [Docs -> Lists(Docs)],
                miner : Seq(MinerEntries), analysis : Seq(AnalysisEntries)]
  /\ watch.known \subseteq known /\ rels \in watch.rels
  /\ minerCache \in Seq(FreshEntries)
  /\ job # None /\ job.step = "id" => minerCache = watch.miner
  /\ job # None /\ job.step \in {"id", "rel"} => analysisCache = watch.analysis

\* The urls found and the documents that are left make up a list that is given.
PostInv ==
  job # None =>
    /\ job.step = "absent" => AbsentIsGiven(job.url)
    /\ job.step \in {"id", "rel"} => job.body = <<>>
    /\ job.step = "rel" => job.doc = job.url
    /\ job.step = "urls" => \E s \in Given(job.url) : job.body \o job.todo = s \o s \o s

\* The call in progress asks for what the POST needs next.
AskedInv ==
  call # None =>
    /\ call.req.kind = "id" => job.step = "id" /\ call.req.doc = job.url
    /\ call.req.kind = "rel" => job.step = "rel" /\ call.req.doc = job.doc
    /\ call.req.kind = "url" => job.step = "urls" /\ call.req.doc = Head(job.todo)

\* v was the answer to r at some moment since the POST arrived.
IsFresh(r, v) ==
  \/ r.kind \in {"id", "url"} /\ v = r.doc
  \/ r.kind = "id" /\ v = Absent /\ r.doc \notin watch.known
  \/ r.kind = "rel" /\ \E l \in watch.rels : v = l[r.doc]

StreamInv ==
  \A p \in Peers : Waiting(p) =>
    \A i \in 1..Len(conn[p].stream) : IsFresh(call.req, conn[p].stream[i].value)

FreshInv == WatchInv /\ PostInv /\ AskedInv /\ StreamInv /\ FreshUnlessCached

\* A list is given for longer, never for shorter, while analysis servers restart.
WatchGrows ==
  /\ watch'.known = watch.known /\ watch'.miner = watch.miner
  /\ watch'.analysis = watch.analysis /\ watch.rels \subseteq watch'.rels

LEMMA GivenStays ==
  ASSUME WatchGrows
  PROVE  /\ \A u : u \in Docs => (Given(u) \subseteq Given(u)')
         /\ \A u : AbsentIsGiven(u)' <=> AbsentIsGiven(u)
         /\ \A r \in Requests : \A v \in Values : IsFresh(r, v) => IsFresh(r, v)'
<1>1. ASSUME NEW u PROVE Given(u) \subseteq Given(u)'
  BY DEF WatchGrows, Given
<1>2. ASSUME NEW u PROVE AbsentIsGiven(u)' <=> AbsentIsGiven(u)
  BY DEF WatchGrows, AbsentIsGiven
<1>3. ASSUME NEW r \in Requests, NEW v \in Values, IsFresh(r, v) PROVE IsFresh(r, v)'
  BY <1>3 DEF WatchGrows, IsFresh
<1> QED
  BY <1>1, <1>2, <1>3

\* A reply that was right stays one that the property allows.
LEMMA OutcomeStays ==
  ASSUME WatchGrows, outcome' = outcome, FreshUnlessCached
  PROVE  FreshUnlessCached'
<1> SUFFICES ASSUME outcome.status = "ok" PROVE FreshUnlessCached'
  BY DEF FreshUnlessCached
<1> DEFINE u == outcome.url
<1>1. CASE outcome.body = Absent
  BY <1>1 DEF WatchGrows, FreshUnlessCached
<1>2. CASE outcome.body # Absent
  BY <1>2 DEF WatchGrows, FreshUnlessCached
<1> QED
  BY <1>1, <1>2

\* A step of the servers, of the network or of a call that goes on: what comes into
\* a connection was there before or is fresh.
LEMMA EnvironmentStep ==
  ASSUME Inv, FreshInv, WatchGrows, UNCHANGED <<caches, job, outcome>>,
         watch' \in [known : SUBSET Docs, rels : SUBSET [Docs -> Lists(Docs)],
                     miner : Seq(MinerEntries), analysis : Seq(AnalysisEntries)],
         known \subseteq known', rels' \in watch'.rels,
         call' # None => call # None /\ call'.req = call.req,
         \A p \in Peers : Waiting(p)' =>
           \A i \in 1..Len(conn'[p].stream) :
             \/ IsFresh(call.req, conn'[p].stream[i].value)
             \/ /\ Waiting(p)
                /\ \E j \in 1..Len(conn[p].stream) : conn'[p].stream[i] = conn[p].stream[j],
         ConnInv'
  PROVE  FreshInv'
<1>1. WatchInv'
  BY DEF FreshInv, WatchInv, WatchGrows, caches
<1>2. PostInv'
  <2> SUFFICES ASSUME job # None PROVE PostInv'
    BY DEF PostInv
  <2>1. job.url \in Docs
    BY DEF Inv, JobInv, Jobs
  <2>2. AbsentIsGiven(job.url)' <=> AbsentIsGiven(job.url)
    BY DEF WatchGrows, AbsentIsGiven
  <2>3. Given(job.url) \subseteq Given(job.url)'
    BY DEF WatchGrows, Given
  <2> QED
    BY <2>2, <2>3 DEF FreshInv, PostInv
<1>3. AskedInv'
  BY DEF FreshInv, AskedInv
<1>4. StreamInv'
  <2> SUFFICES ASSUME NEW p \in Peers, Waiting(p)', NEW i \in 1..Len(conn'[p].stream)
               PROVE  IsFresh(call.req, conn[p].stream[i].value)'
    BY DEF StreamInv
  <2>1. call # None /\ call'.req = call.req /\ call.req \in Requests
    BY CallTyped DEF Waiting
  <2>2. PICK v : v = conn'[p].stream[i].value
    OBVIOUS
  <2>3. v \in Values
    <3>1. conn'[p].stream \in Seq(Pieces)
      BY DEF ConnInv, Conns
    <3>2. conn'[p].stream[i] \in Pieces
      BY <3>1
    <3> QED
      BY <2>2, <3>2 DEF Pieces
  <2>4. IsFresh(call.req, v)
    BY <2>2 DEF FreshInv, StreamInv
  <2>5. PICK r \in Requests : r = call.req
    BY <2>1
  <2>6. IsFresh(r, v)'
    BY <2>3, <2>4, <2>5, GivenStays
  <2> QED
    BY <2>1, <2>2, <2>5, <2>6 DEF IsFresh
<1>5. FreshUnlessCached'
  BY OutcomeStays DEF FreshInv
<1> QED
  BY <1>1, <1>2, <1>3, <1>4, <1>5 DEF FreshInv

\* A call that raises ends the POST.
LEMMA RaiseFresh ==
  ASSUME FreshInv, Raise
  PROVE  FreshInv'
<1>1. /\ call' = None /\ job' = None /\ outcome'.status = "failed"
      /\ UNCHANGED <<known, rels, minerCache, analysisCache, watch>>
  BY DEF Raise, world, caches
<1>2. WatchInv' /\ PostInv' /\ AskedInv'
  BY <1>1 DEF FreshInv, WatchInv, PostInv, AskedInv
<1>3. StreamInv' /\ FreshUnlessCached'
  BY <1>1 DEF StreamInv, Waiting, FreshUnlessCached
<1> QED
  BY <1>2, <1>3 DEF FreshInv

LEMMA ServersFresh ==
  ASSUME Inv, Inv', FreshInv, NEW p \in Peers,
         Serve(p) \/ Drop(p) \/ Die(p) \/ ResetArrives(p) \/ Restart(p)
  PROVE  FreshInv'
<1>0. /\ watch \in [known : SUBSET Docs, rels : SUBSET [Docs -> Lists(Docs)],
                    miner : Seq(MinerEntries), analysis : Seq(AnalysisEntries)]
      /\ rels \in watch.rels /\ ConnInv'
  BY DEF FreshInv, WatchInv, Inv
<1>1. /\ UNCHANGED <<caches, job, call, outcome, known>>
      /\ \A q \in Peers : Waiting(q)' <=> Waiting(q)
  BY DEF Serve, Drop, Die, ResetArrives, Restart, world, Waiting, Here
<1>2. CASE Serve(p)
  <2>1. rels' = rels /\ watch' = watch
    BY <1>2 DEF Serve, world
  <2>2. conn[p].sent # <<>>
    BY <1>2 DEF Serve
  <2>3. Waiting(p) /\ call.req \in Requests /\ conn[p].sent = <<call.req>> /\ conn[p].stream = <<>>
    BY <2>2, SentIsAsked
  <2>4. PICK s : /\ s = <<[part |-> "header", req |-> call.req, value |-> Reply(call.req)],
                          [part |-> "body", req |-> call.req, value |-> Reply(call.req)]>>
                 /\ conn' = [conn EXCEPT ![p].sent = Tail(@), ![p].stream = @ \o s]
    <3>1. Head(conn[p].sent) = call.req
      BY <2>3
    <3> QED
      BY <1>2, <3>1 DEF Serve
  <2>5. conn'[p].stream = s /\ \A q \in Peers : q # p => conn'[q] = conn[q]
    <3>1. <<>> \o s = s
      BY <2>4
    <3> QED
      BY <2>3, <2>4, <3>1 DEF Inv, ConnInv, Conns
  <2>6. IsFresh(call.req, Reply(call.req))
    <3>1. PICK r \in Requests : r = call.req
      BY <2>3
    <3>2. r.kind \in {"id", "url", "rel"} /\ r.doc \in Docs
      BY DEF Requests
    <3>3. watch.known \subseteq known
      BY DEF FreshInv, WatchInv
    <3> QED
      BY <1>0, <3>1, <3>2, <3>3 DEF IsFresh, Reply
  <2>7. \A i \in 1..Len(s) : s[i].value = Reply(call.req)
    <3>1. Len(s) = 2 /\ s[1].value = Reply(call.req) /\ s[2].value = Reply(call.req)
      BY <2>4
    <3> QED
      BY <3>1
  <2>8. ASSUME NEW q \in Peers, Waiting(q)', NEW i \in 1..Len(conn'[q].stream)
        PROVE  \/ IsFresh(call.req, conn'[q].stream[i].value)
               \/ /\ Waiting(q)
                  /\ \E j \in 1..Len(conn[q].stream) : conn'[q].stream[i] = conn[q].stream[j]
    BY <2>8, <2>5, <2>6, <2>7, <1>1
  <2> QED
    BY <1>0, <1>1, <2>1, <2>8, EnvironmentStep DEF WatchGrows
<1>3. CASE Drop(p) \/ Die(p) \/ ResetArrives(p)
  <2>1. rels' = rels /\ watch' = watch
    BY <1>3 DEF Drop, Die, ResetArrives, world
  <2>2. /\ \A q \in Peers : q # p => conn'[q] = conn[q]
        /\ \/ conn'[p].stream = conn[p].stream
           \/ \E n \in 0..Len(conn[p].stream) : conn'[p].stream = SubSeq(conn[p].stream, 1, n)
    BY <1>3 DEF Drop, Die, ResetArrives, Inv, ConnInv, Conns
  <2>3. conn[p].stream \in Seq(Pieces)
    BY DEF Inv, ConnInv, Conns
  <2>4. ASSUME NEW i \in 1..Len(conn'[p].stream)
        PROVE  \E j \in 1..Len(conn[p].stream) : conn'[p].stream[i] = conn[p].stream[j]
    <3>1. CASE conn'[p].stream = conn[p].stream
      BY <3>1
    <3>2. CASE \E n \in 0..Len(conn[p].stream) : conn'[p].stream = SubSeq(conn[p].stream, 1, n)
      <4>1. PICK n \in 0..Len(conn[p].stream) : conn'[p].stream = SubSeq(conn[p].stream, 1, n)
        BY <3>2
      <4>2. PICK s \in Seq(Pieces) : s = conn[p].stream
        BY <2>3
      <4>3. Len(SubSeq(s, 1, n)) = n /\ \A k \in 1..n : SubSeq(s, 1, n)[k] = s[k] /\ k \in 1..Len(s)
        BY <4>1, <4>2
      <4> QED
        BY <4>1, <4>2, <4>3
    <3> QED
      BY <2>2, <3>1, <3>2
  <2>5. ASSUME NEW q \in Peers, Waiting(q)', NEW i \in 1..Len(conn'[q].stream)
        PROVE  /\ Waiting(q)
               /\ \E j \in 1..Len(conn[q].stream) : conn'[q].stream[i] = conn[q].stream[j]
    BY <2>5, <2>2, <2>4, <1>1
  <2> QED
    BY <1>0, <1>1, <2>1, <2>5, EnvironmentStep DEF WatchGrows
<1>4. CASE Restart(p)
  <2>1. conn' = conn
    BY <1>4 DEF Restart
  <2>2. /\ WatchGrows /\ rels' \in watch'.rels
        /\ watch' \in [known : SUBSET Docs, rels : SUBSET [Docs -> Lists(Docs)],
                       miner : Seq(MinerEntries), analysis : Seq(AnalysisEntries)]
    <3>1. CASE p = "miner"
      BY <1>0, <1>4, <3>1 DEF Restart, WatchGrows
    <3>2. CASE p # "miner"
      <4>1. rels' \in [Docs -> Lists(Docs)] /\ watch' = [watch EXCEPT !.rels = @ \cup {rels'}]
        BY <1>4, <3>2 DEF Restart, Inv, WorldInv
      <4> QED
        BY <1>0, <4>1 DEF WatchGrows
    <3> QED
      BY <3>1, <3>2
  <2>3. ASSUME NEW q \in Peers, Waiting(q)', NEW i \in 1..Len(conn'[q].stream)
        PROVE  /\ Waiting(q)
               /\ \E j \in 1..Len(conn[q].stream) : conn'[q].stream[i] = conn[q].stream[j]
    BY <2>3, <2>1, <1>1
  <2> QED
    BY <1>0, <1>1, <2>2, <2>3, EnvironmentStep
<1> QED
  BY <1>2, <1>3, <1>4

\* The steps of a call up to the header of its answer.
LEMMA CallFresh ==
  ASSUME Inv, Inv', FreshInv, Send \/ SendFails \/ Reconnect \/ RecvHeader \/ RecvFails
  PROVE  FreshInv'
<1>0. /\ watch \in [known : SUBSET Docs, rels : SUBSET [Docs -> Lists(Docs)],
                    miner : Seq(MinerEntries), analysis : Seq(AnalysisEntries)]
      /\ rels \in watch.rels /\ ConnInv'
  BY DEF FreshInv, WatchInv, Inv
<1>1. call # None /\ call \in Calls /\ Here \in Peers /\ conn[Here].stream \in Seq(Pieces)
  BY CallTyped DEF Send, SendFails, Reconnect, RecvHeader, RecvFails, Conns
<1>2. CASE Raise
  BY <1>2, RaiseFresh
<1>3. ASSUME UNCHANGED <<world, caches, job, outcome, watch>>, call'.req = call.req,
             call' # None => call.at = "header" \/ conn'[Here].stream = <<>>,
             \A q \in Peers : q # Here => conn'[q] = conn[q],
             \/ conn'[Here].stream = <<>>
             \/ call.at = "header" /\ conn[Here].stream # <<>>
                /\ conn'[Here].stream = Tail(conn[Here].stream)
      PROVE  FreshInv'
  <2>1. Here' = Here
    BY <1>3 DEF Here
  <2>2. ASSUME NEW q \in Peers, Waiting(q)', NEW i \in 1..Len(conn'[q].stream)
        PROVE  /\ Waiting(q)
               /\ \E j \in 1..Len(conn[q].stream) : conn'[q].stream[i] = conn[q].stream[j]
    <3>1. q = Here
      BY <2>1, <2>2 DEF Waiting
    <3>2. conn'[Here].stream # <<>>
      <4>1. Len(<<>>) = 0 /\ ~ (i \in 1..0)
        OBVIOUS
      <4> QED
        BY <2>2, <3>1, <4>1
    <3>3. /\ call.at = "header" /\ conn[Here].stream # <<>>
          /\ conn'[Here].stream = Tail(conn[Here].stream)
      BY <1>3, <3>2
    <3>4. PICK s \in Seq(Pieces) : s = conn[Here].stream /\ s # <<>>
      BY <1>1, <3>3
    <3>5. /\ Len(Tail(s)) = Len(s) - 1 /\ Len(s) \in Nat
          /\ \A k \in 1..Len(Tail(s)) : Tail(s)[k] = s[k + 1] /\ k + 1 \in 1..Len(s)
      BY <3>4
    <3> QED
      BY <1>1, <2>2, <3>1, <3>3, <3>4, <3>5 DEF Waiting
  <2> QED
    BY <1>0, <1>1, <1>3, <2>2, EnvironmentStep DEF WatchGrows, world
<1>4. CASE Send
  <2>1. conn[Here].stream = <<>>
    BY <1>4, CallTyped DEF Send
  <2>2. conn'[Here].stream = <<>> /\ \A q \in Peers : q # Here => conn'[q] = conn[q]
    BY <1>1, <1>4, <2>1 DEF Send, Inv, ConnInv, Conns
  <2>3. call'.req = call.req /\ UNCHANGED <<world, caches, job, outcome, watch>>
    BY <1>1, <1>4 DEF Send, Stage, Calls
  <2> QED
    BY <1>3, <2>2, <2>3
<1>5. CASE SendFails
  <2>1. conn'[Here].stream = <<>> /\ \A q \in Peers : q # Here => conn'[q] = conn[q]
    BY <1>1, <1>5 DEF SendFails, Unconnected, Inv, ConnInv
  <2>2. call'.req = call.req /\ UNCHANGED <<world, caches, job, outcome, watch>>
    BY <1>1, <1>5 DEF SendFails, Stage, Calls
  <2> QED
    BY <1>3, <2>1, <2>2
<1>6. CASE Reconnect /\ ~Raise
  <2>1. conn'[Here].stream = <<>> /\ \A q \in Peers : q # Here => conn'[q] = conn[q]
    BY <1>1, <1>6 DEF Reconnect, Fresh, Unconnected, Inv, ConnInv
  <2>2. call'.req = call.req /\ UNCHANGED <<world, caches, job, outcome, watch>>
    BY <1>1, <1>6 DEF Reconnect, Calls
  <2> QED
    BY <1>3, <2>1, <2>2
<1>7. CASE RecvHeader
  <2>1. /\ call.at = "header" /\ conn[Here].stream # <<>>
        /\ conn' = [conn EXCEPT ![Here].stream = Tail(@)]
    BY <1>7 DEF RecvHeader
  <2>2. /\ conn'[Here].stream = Tail(conn[Here].stream)
        /\ \A q \in Peers : q # Here => conn'[q] = conn[q]
    BY <1>1, <2>1 DEF Inv, ConnInv, Conns
  <2>3. call' = Stage("body") /\ UNCHANGED <<world, caches, job, out, outcome, watch>>
    BY <1>7, RecvHeaderInv
  <2>4. call'.req = call.req
    BY <1>1, <2>3 DEF Stage, Calls
  <2> QED
    BY <1>3, <2>1, <2>2, <2>3, <2>4
<1>8. CASE RecvFails
  BY <1>8, RaiseFresh DEF RecvFails
<1> QED
  BY <1>2, <1>4, <1>5, <1>6, <1>7, <1>8

\* A step of the POST, from which everything but its own part is clear.
LEMMA PostStep ==
  ASSUME FreshInv, UNCHANGED <<known, rels, watch, outcome>>,
         minerCache' \in Seq(FreshEntries),
         job' # None => job'.step \notin {"id", "rel"} \/ UNCHANGED <<minerCache, analysisCache>>,
         job' # None => job # None /\ job'.step # "id" /\ (job'.step = "rel" => job.step = "id"),
         PostInv', AskedInv', StreamInv'
  PROVE  FreshInv'
<1>1. WatchInv'
  BY DEF FreshInv, WatchInv
<1>2. FreshUnlessCached'
  BY OutcomeStays DEF FreshInv, WatchGrows
<1> QED
  BY <1>1, <1>2 DEF FreshInv

\* The POST goes on with an identity, a list, or a url that it may show.
LEMMA WithIdFresh ==
  ASSUME Inv, FreshInv, job # None, job.step = "id", UNCHANGED watch, NEW d \in Identities,
         d = job.url \/ (d = Absent /\ AbsentIsGiven(job.url)), job' = WithId(d)
  PROVE  PostInv' /\ job'.step \in {"rel", "absent"}
<1>1. job \in Jobs /\ job.body = <<>>
  BY DEF Inv, JobInv, FreshInv, PostInv
<1>2. /\ job'.doc = d /\ job'.step = (IF d = Absent THEN "absent" ELSE "rel")
      /\ job'.url = job.url /\ job'.body = <<>>
  BY <1>1 DEF WithId, Jobs
<1>3. AbsentIsGiven(job.url) => AbsentIsGiven(job.url)'
  BY <1>2 DEF AbsentIsGiven
<1>4. d = Absent => AbsentIsGiven(job.url)'
  <2>1. job.url \in Docs
    BY <1>1 DEF Jobs
  <2> QED
    BY <1>3, <2>1, DocsAssumption
<1> QED
  BY <1>2, <1>4 DEF PostInv, AbsentIsGiven

LEMMA WithRelFresh ==
  ASSUME Inv, FreshInv, job # None, job.step = "rel", UNCHANGED watch, NEW s \in Lists(Docs),
         s \in Given(job.url), job' = WithRel(s)
  PROVE  PostInv' /\ job'.step = "urls"
<1>1. job \in Jobs /\ job.body = <<>>
  BY DEF Inv, JobInv, FreshInv, PostInv
<1>2. /\ job'.todo = s \o s \o s /\ job'.step = "urls"
      /\ job'.url = job.url /\ job'.body = <<>>
  BY <1>1 DEF WithRel, Jobs
<1>3. s \in Seq(Docs)
  BY ListsAreSeqs
<1>4. job'.body \o job'.todo = s \o s \o s
  <2>0. s \o s \o s \in Seq(Docs)
    BY <1>3
  <2>1. PICK q \in Seq(Docs) : q = s \o s \o s
    BY <2>0
  <2>2. <<>> \o q = q
    OBVIOUS
  <2> QED
    BY <1>2, <2>1, <2>2
<1>5. s \in Given(job.url)'
  BY <1>2 DEF Given
<1> QED
  BY <1>2, <1>4, <1>5 DEF PostInv

\* Moving the head of a list to the end of another keeps their concatenation.
LEMMA MoveHead ==
  ASSUME NEW S, NEW b \in Seq(S), NEW t \in Seq(S), t # <<>>
  PROVE  Append(b, Head(t)) \o Tail(t) = b \o t
<1> DEFINE c == Append(b, Head(t))
           u == Tail(t)
<1>1. /\ Len(b) \in Nat /\ Len(t) \in Nat \ {0} /\ Head(t) = t[1] /\ t[1] \in S
      /\ u \in Seq(S) /\ Len(u) = Len(t) - 1 /\ \A i \in 1..Len(u) : u[i] = t[i + 1]
  BY EmptyIffNoLength
<1>2. /\ c \in Seq(S) /\ Len(c) = Len(b) + 1 /\ c[Len(b) + 1] = t[1]
      /\ \A i \in 1..Len(b) : c[i] = b[i]
  BY <1>1, AppendProperties
<1> HIDE DEF c, u
<1>3. /\ c \o u \in Seq(S) /\ Len(c \o u) = Len(c) + Len(u)
      /\ \A i \in 1..(Len(c) + Len(u)) : (c \o u)[i] = IF i <= Len(c) THEN c[i] ELSE u[i - Len(c)]
  BY <1>1, <1>2, ConcatProperties
<1>4. /\ b \o t \in Seq(S) /\ Len(b \o t) = Len(b) + Len(t)
      /\ \A i \in 1..(Len(b) + Len(t)) : (b \o t)[i] = IF i <= Len(b) THEN b[i] ELSE t[i - Len(b)]
  BY ConcatProperties
<1>5. Len(c \o u) = Len(b \o t)
  BY <1>1, <1>2, <1>3, <1>4
<1>6. ASSUME NEW i \in 1..Len(b \o t)
      PROVE  (c \o u)[i] = (b \o t)[i]
  <2>1. i \in 1..(Len(c) + Len(u)) /\ i \in 1..(Len(b) + Len(t))
    BY <1>1, <1>2, <1>4
  <2>2. CASE i <= Len(b)
    BY <1>1, <1>2, <1>3, <1>4, <2>1, <2>2
  <2>3. CASE i = Len(b) + 1
    BY <1>1, <1>2, <1>3, <1>4, <2>1, <2>3
  <2>4. CASE i > Len(b) + 1
    <3>1. i - Len(c) \in 1..Len(u) /\ (i - Len(c)) + 1 = i - Len(b)
      BY <1>1, <1>2, <2>1, <2>4
    <3> QED
      <4>1. (c \o u)[i] = u[i - Len(c)]
        BY <1>1, <1>2, <1>3, <2>1, <2>4
      <4>2. (b \o t)[i] = t[i - Len(b)]
        BY <1>1, <1>4, <2>1, <2>4
      <4> QED
        BY <1>1, <3>1, <4>1, <4>2
  <2> QED
    BY <1>1, <2>1, <2>2, <2>3, <2>4
<1>7. c \o u = b \o t
  BY <1>3, <1>4, <1>5, <1>6, SeqEqual
<1> QED
  BY <1>7 DEF c, u

LEMMA WithUrlFresh ==
  ASSUME Inv, FreshInv, job # None, job.step = "urls", job.todo # <<>>, UNCHANGED watch,
         job' = WithUrl(Head(job.todo))
  PROVE  PostInv' /\ job'.step = "urls"
<1>1. job \in Jobs
  BY DEF Inv, JobInv
<1>2. /\ job'.todo = Tail(job.todo) /\ job'.body = Append(job.body, Head(job.todo))
      /\ job'.step = "urls" /\ job'.url = job.url
  BY <1>1 DEF WithUrl, Jobs
<1>3. job'.body \o job'.todo = job.body \o job.todo
  <2>1. PICK b \in Seq(Docs), t \in Seq(Docs) : b = job.body /\ t = job.todo /\ t # <<>>
    BY <1>1 DEF Jobs
  <2>2. Append(b, Head(t)) \o Tail(t) = b \o t
    BY <2>1, MoveHead
  <2> QED
    BY <1>2, <2>1, <2>2
<1>4. PICK s \in Given(job.url) : job.body \o job.todo = s \o s \o s
  BY DEF FreshInv, PostInv
<1>5. s \in Given(job.url)'
  BY <1>2, <1>4 DEF Given
<1> QED
  BY <1>2, <1>3, <1>4, <1>5 DEF PostInv

\* Nobody waits while there is no call.
LEMMA NoCallFresh ==
  ASSUME call' = None
  PROVE  AskedInv' /\ StreamInv'
BY DEF AskedInv, StreamInv, Waiting

\* A call that begins has nothing in its connection.
LEMMA AskFresh ==
  ASSUME FreshInv, NEW r \in Requests, call = None, Ask(r.kind, r.doc), job # None,
         r.kind = "id" => job.step = "id" /\ r.doc = job.url,
         r.kind = "rel" => job.step = "rel" /\ r.doc = job.doc,
         r.kind = "url" => job.step = "urls" /\ r.doc = Head(job.todo)
  PROVE  FreshInv'
<1>1. /\ call'.req = r /\ call'.at = "send"
      /\ UNCHANGED <<known, rels, minerCache, analysisCache, job, outcome, watch>>
  BY DEF Ask, world, caches, Requests
<1>2. StreamInv'
  BY <1>1 DEF StreamInv, Waiting
<1>3. AskedInv'
  BY <1>1 DEF AskedInv
<1>4. WatchInv' /\ PostInv'
  BY <1>1 DEF FreshInv, WatchInv, PostInv, Given, AbsentIsGiven
<1>5. FreshUnlessCached'
  BY <1>1, OutcomeStays DEF FreshInv, WatchGrows
<1> QED
  BY <1>2, <1>3, <1>4, <1>5 DEF FreshInv

\* What a POST takes from the lists of the proxies, and the reply.
LEMMA HandleFresh ==
  ASSUME Inv, FreshInv, Handle
  PROVE  FreshInv'
<1>1. /\ job # None /\ call = None /\ job \in Jobs
      /\ minerCache \in Seq(FreshEntries) /\ analysisCache \in Seq(AnalysisEntries)
  BY DEF Handle, GetId, GetRel, GetUrl, Respond, Inv, JobInv, CachesInv, FreshInv, WatchInv
<1>2. CASE GetId
  <2> DEFINE hits == FirstFit(minerCache, LAMBDA e : e.url = job.url)
  <2>1. CASE \E e \in hits : Hit(WithId(e.doc))
    <3>1. PICK e \in hits : Hit(WithId(e.doc))
      BY <2>1
    <3>2. PICK i \in DOMAIN minerCache : e = minerCache[i] /\ e.url = job.url
      BY <3>1 DEF FirstFit
    <3>3. e \in MinerEntries /\ e.doc \in Identities /\ e.doc \in {Absent, job.url}
      BY <1>1, <3>2 DEF FreshEntries, MinerEntries
    <3>4. job.step = "id" /\ minerCache = watch.miner
      BY <1>1, <1>2 DEF GetId, FreshInv, WatchInv
    <3>5. e.doc = Absent => AbsentIsGiven(job.url)
      <4>1. e = [url |-> e.url, doc |-> e.doc]
        BY <3>3 DEF MinerEntries
      <4>2. e \in ToSet(watch.miner)
        BY <3>2, <3>4 DEF ToSet
      <4> QED
        BY <3>2, <4>1, <4>2 DEF AbsentIsGiven
    <3>6. /\ job' = WithId(e.doc) /\ call' = None
          /\ UNCHANGED <<known, rels, minerCache, analysisCache, watch, outcome>>
      BY <1>1, <3>1 DEF Hit, world, caches
    <3>7. PostInv' /\ job'.step \in {"rel", "absent"}
      <4>1. PICK d \in Identities : d = e.doc
        BY <3>3
      <4>2. d = job.url \/ (d = Absent /\ AbsentIsGiven(job.url))
        <5>1. d = Absent \/ d = job.url
          BY <3>3, <4>1
        <5>2. d = Absent => AbsentIsGiven(job.url)
          BY <3>5, <4>1
        <5> QED
          BY <5>1, <5>2, Zenon
      <4>3. job' = WithId(d) /\ watch' = watch
        BY <3>6, <4>1
      <4> QED
        BY <1>1, <3>4, <4>2, <4>3, WithIdFresh
    <3> QED
      BY <1>1, <3>4, <3>6, <3>7, NoCallFresh, PostStep
  <2>2. CASE Ask("id", job.url)
    <3>1. PICK q \in Requests : q.kind = "id" /\ q.doc = job.url
      <4>1. [kind |-> "id", doc |-> job.url] \in Requests
        BY <1>1 DEF Requests, Jobs
      <4> QED
        BY <4>1
    <3>2. job.step = "id"
      BY <1>2 DEF GetId
    <3> QED
      BY <1>1, <2>2, <3>1, <3>2, AskFresh
  <2> QED
    BY <1>2, <2>1, <2>2 DEF GetId
<1>3. CASE GetRel
  <2> DEFINE hits == FirstFit(analysisCache, LAMBDA e : e.doc = job.doc)
  <2>0. job.step = "rel" /\ job.doc = job.url /\ job.doc \in Docs
    BY <1>1, <1>3 DEF GetRel, FreshInv, PostInv, Inv, JobInv
  <2>1. CASE \E e \in hits : Hit(WithRel(e.rel))
    <3>1. PICK e \in hits : Hit(WithRel(e.rel))
      BY <2>1
    <3>2. PICK i \in DOMAIN analysisCache : e = analysisCache[i] /\ e.doc = job.doc
      BY <3>1 DEF FirstFit
    <3>3. e.rel \in Lists(Docs)
      <4>1. analysisCache[i] \in AnalysisEntries
        BY <1>1, <3>2
      <4> QED
        BY <3>2, <4>1 DEF AnalysisEntries
    <3>4. e.rel \in Given(job.url)
      <4>1. analysisCache = watch.analysis
        BY <1>1, <2>0 DEF FreshInv, WatchInv
      <4> QED
        BY <2>0, <3>2, <4>1 DEF Given
    <3>5. /\ job' = WithRel(e.rel) /\ call' = None
          /\ UNCHANGED <<known, rels, minerCache, analysisCache, watch, outcome>>
      BY <1>1, <3>1 DEF Hit, world, caches
    <3>6. PostInv' /\ job'.step = "urls"
      BY <1>1, <2>0, <3>3, <3>4, <3>5, WithRelFresh
    <3> QED
      BY <1>1, <3>5, <3>6, NoCallFresh, PostStep
  <2>2. CASE Ask("rel", job.doc)
    <3>1. PICK q \in Requests : q.kind = "rel" /\ q.doc = job.doc
      <4>1. [kind |-> "rel", doc |-> job.doc] \in Requests
        BY <2>0 DEF Requests
      <4> QED
        BY <4>1
    <3> QED
      BY <1>1, <2>0, <2>2, <3>1, AskFresh
  <2> QED
    BY <1>3, <2>1, <2>2 DEF GetRel
<1>4. CASE GetUrl
  <2> DEFINE hits == FirstFit(minerCache, LAMBDA e : e.doc = Head(job.todo))
  <2>0. job.step = "urls" /\ job.todo # <<>> /\ Head(job.todo) \in Docs
    BY <1>1, <1>4 DEF GetUrl, Jobs
  <2>1. CASE \E e \in hits : Hit(WithUrl(e.url))
    <3>1. PICK e \in hits : Hit(WithUrl(e.url))
      BY <2>1
    <3>2. PICK i \in DOMAIN minerCache : e = minerCache[i] /\ e.doc = Head(job.todo)
      BY <3>1 DEF FirstFit
    <3>3. e.url = Head(job.todo)
      <4>1. e.doc \in {Absent, e.url}
        BY <1>1, <3>2 DEF FreshEntries
      <4> QED
        BY <2>0, <3>2, <4>1, DocsAssumption
    <3>4. /\ job' = WithUrl(Head(job.todo)) /\ call' = None
          /\ UNCHANGED <<known, rels, minerCache, analysisCache, watch, outcome>>
      BY <1>1, <3>1, <3>3 DEF Hit, world, caches
    <3>5. PostInv' /\ job'.step = "urls"
      BY <1>1, <2>0, <3>4, WithUrlFresh
    <3> QED
      BY <1>1, <3>4, <3>5, NoCallFresh, PostStep
  <2>2. CASE Ask("url", Head(job.todo))
    <3>1. PICK q \in Requests : q.kind = "url" /\ q.doc = Head(job.todo)
      <4>1. [kind |-> "url", doc |-> Head(job.todo)] \in Requests
        BY <2>0 DEF Requests
      <4> QED
        BY <4>1
    <3> QED
      BY <1>1, <2>0, <2>2, <3>1, AskFresh
  <2> QED
    BY <1>4, <2>1, <2>2 DEF GetUrl
<1>5. CASE Respond
  <2>1. /\ job' = None /\ call' = None
        /\ UNCHANGED <<known, rels, minerCache, analysisCache, watch>>
        /\ (job.step = "absent") \/ (job.step = "urls" /\ job.todo = <<>>)
        /\ outcome' = [status |-> "ok", url |-> job.url,
                       body |-> IF job.step = "absent" THEN Absent ELSE job.body]
    <3>1. job' = None /\ call' = None /\ UNCHANGED <<world, caches, watch>>
      BY <1>1, <1>5 DEF Respond
    <3> QED
      BY <1>5, <3>1 DEF Respond, world, caches
  <2>2. WatchInv' /\ PostInv'
    BY <2>1 DEF FreshInv, WatchInv, PostInv
  <2>3. AskedInv' /\ StreamInv'
    BY <2>1, NoCallFresh
  <2>4. CASE job.step = "absent"
    <3>1. AbsentIsGiven(job.url)
      BY <1>1, <2>4 DEF FreshInv, PostInv
    <3>2. outcome'.url = job.url /\ outcome'.body = Absent
      BY <2>1, <2>4
    <3>3. FreshUnlessCached'
      BY <2>1, <3>1, <3>2 DEF FreshUnlessCached, AbsentIsGiven
    <3> QED
      BY <2>2, <2>3, <3>3 DEF FreshInv
  <2>5. CASE job.step # "absent"
    <3>1. PICK s \in Given(job.url) : job.body \o job.todo = s \o s \o s
      BY <1>1, <2>1, <2>5 DEF FreshInv, PostInv
    <3>2. job.body \o job.todo = job.body /\ job.body # Absent
      <4>1. job.body \in Seq(Docs)
        BY <1>1 DEF Jobs
      <4> QED
        <5>1. job.todo = <<>>
          BY <2>1, <2>5
        <5>2. job.body \o <<>> = job.body
          BY <4>1
        <5> QED
          BY <4>1, <5>1, <5>2, DocsAssumption
    <3>3. outcome'.url = job.url /\ outcome'.body = s \o s \o s /\ s \in Given(job.url)
      BY <2>1, <2>5, <3>1, <3>2
    <3>4. /\ outcome'.body # Absent /\ outcome'.url = job.url
          /\ s \in {r[job.url] : r \in watch'.rels} \cup
                   {watch'.analysis[i].rel :
                      i \in {j \in DOMAIN watch'.analysis : watch'.analysis[j].doc = job.url}}
      BY <2>1, <2>5, <3>2, <3>3 DEF Given
    <3>5. FreshUnlessCached'
      BY <3>3, <3>4 DEF FreshUnlessCached
    <3> QED
      BY <2>2, <2>3, <3>5 DEF FreshInv
  <2> QED
    BY <2>4, <2>5
<1> QED
  BY <1>2, <1>3, <1>4, <1>5 DEF Handle

\* A list with one more entry, or without its oldest half, has entries of the same kind.
LEMMA ShrinkTyped ==
  ASSUME NEW S, NEW c \in Seq(S), NEW e \in S, NEW max \in Nat
  PROVE  Shrink(Append(c, e), max) \in Seq(S)
<1>0. Append(c, e) \in Seq(S)
  OBVIOUS
<1>1. PICK d \in Seq(S) : d = Append(c, e) /\ Len(d) \in Nat
  BY <1>0, LenProperties
<1>2. (max + 1) \div 2 \in Nat
  OBVIOUS
<1>3. SubSeq(d, (max + 1) \div 2 + 1, Len(d)) \in Seq(S)
  BY <1>1, <1>2
<1> QED
  BY <1>1, <1>3 DEF Shrink

\* The body of an answer goes into the list of its proxy, and the POST goes on with it.
LEMMA RecvBodyFresh ==
  ASSUME Inv, FreshInv, RecvBody
  PROVE  FreshInv'
<1>1. /\ call # None /\ call.at = "body" /\ conn[Here].stream # <<>> /\ call' = None
      /\ UNCHANGED <<known, rels, outcome, watch>>
  BY DEF RecvBody, world
<1>2. PICK v : v = conn[Here].stream[1].value
  OBVIOUS
<1>3. PICK r \in Requests : r = call.req
  BY <1>1, CallTyped
<1>4. /\ r.kind \in {"id", "url", "rel"} /\ r.doc \in Docs /\ v \in Right(r)
      /\ job # None /\ job \in Jobs /\ minerCache \in Seq(FreshEntries)
      /\ FreshEntries \subseteq MinerEntries
  BY <1>1, <1>2, <1>3, RecvBodyInv
     DEF Requests, Inv, JobInv, FreshInv, WatchInv, FreshEntries
<1>5. Head(conn[Here].stream) = conn[Here].stream[1] /\ 1 \in 1..Len(conn[Here].stream)
  <2>1. PICK s \in Seq(Pieces) : s = conn[Here].stream /\ s # <<>>
    BY <1>1, CallTyped DEF Conns
  <2>2. Head(s) = s[1] /\ Len(s) \in Nat /\ Len(s) # 0
    BY <2>1, EmptyIffNoLength
  <2> QED
    BY <2>1, <2>2
<1>6. IsFresh(r, v)
  <2>1. Waiting(Here) /\ Here \in Peers
    BY <1>1, CallTyped DEF Waiting
  <2> QED
    BY <1>2, <1>3, <1>5, <2>1 DEF FreshInv, StreamInv
<1>7. AskedInv' /\ StreamInv'
  BY <1>1, NoCallFresh
<1>8. CASE r.kind = "id"
  <2>1. /\ minerCache' = Shrink(Append(minerCache, [url |-> r.doc, doc |-> v]), MinerSize)
        /\ job' = WithId(v)
    BY <1>2, <1>3, <1>5, <1>8 DEF RecvBody
  <2>2. job.step = "id" /\ r.doc = job.url /\ v \in Identities
    BY <1>1, <1>3, <1>4, <1>8 DEF FreshInv, AskedInv, Right
  <2>3. v = job.url \/ (v = Absent /\ AbsentIsGiven(job.url))
    BY <1>6, <1>8, <2>2 DEF IsFresh, AbsentIsGiven
  <2>4. minerCache' \in Seq(FreshEntries)
    <3>1. [url |-> r.doc, doc |-> v] \in FreshEntries
      BY <1>4, <2>2, <2>3 DEF FreshEntries, MinerEntries
    <3> QED
      BY <1>4, <2>1, <3>1, ShrinkTyped, SizeAssumption
  <2>5. PostInv' /\ job'.step \in {"rel", "absent"}
    BY <1>1, <1>4, <2>1, <2>2, <2>3, WithIdFresh
  <2>6. analysisCache' = analysisCache
    BY <1>3, <1>8 DEF RecvBody
  <2>7. WatchInv'
    BY <1>1, <1>4, <2>2, <2>4, <2>5, <2>6 DEF FreshInv, WatchInv
  <2>8. FreshUnlessCached'
    BY <1>1, OutcomeStays DEF FreshInv, WatchGrows
  <2> QED
    BY <1>7, <2>5, <2>7, <2>8 DEF FreshInv
<1>9. CASE r.kind = "rel"
  <2>1. job' = WithRel(v) /\ minerCache' = minerCache
    BY <1>2, <1>3, <1>5, <1>9 DEF RecvBody
  <2>2. job.step = "rel" /\ r.doc = job.url /\ v \in Lists(Docs)
    BY <1>1, <1>3, <1>4, <1>9 DEF FreshInv, AskedInv, PostInv, Right
  <2>3. v \in Given(job.url)
    BY <1>6, <1>9, <2>2 DEF IsFresh, Given
  <2>4. PostInv' /\ job'.step = "urls"
    BY <1>1, <1>4, <2>1, <2>2, <2>3, WithRelFresh
  <2> QED
    BY <1>1, <1>4, <1>7, <2>1, <2>2, <2>4, PostStep
<1>10. CASE r.kind = "url"
  <2>1. /\ minerCache' = Shrink(Append(minerCache, [url |-> v, doc |-> r.doc]), MinerSize)
        /\ job' = WithUrl(v)
    BY <1>2, <1>3, <1>5, <1>10 DEF RecvBody
  <2>2. /\ job.step = "urls" /\ r.doc = Head(job.todo) /\ v = r.doc /\ job.todo # <<>>
    BY <1>1, <1>3, <1>6, <1>10 DEF FreshInv, AskedInv, IsFresh, Inv, JobInv
  <2>3. minerCache' \in Seq(FreshEntries)
    <3>1. [url |-> v, doc |-> r.doc] \in FreshEntries
      BY <1>4, <2>2 DEF FreshEntries, MinerEntries, Identities
    <3> QED
      BY <1>4, <2>1, <3>1, ShrinkTyped, SizeAssumption
  <2>4. PostInv' /\ job'.step = "urls"
    BY <1>1, <1>4, <2>1, <2>2, WithUrlFresh
  <2> QED
    BY <1>1, <1>4, <1>7, <2>2, <2>3, <2>4, PostStep
<1> QED
  BY <1>4, <1>8, <1>9, <1>10

\* A POST that arrives is told nothing yet.
LEMMA PostFresh ==
  ASSUME Inv, FreshInv, BadPost \/ \E u \in Docs : Post(u)
  PROVE  FreshInv'
<1>1. CASE BadPost
  <2>1. /\ job = None /\ outcome'.status = "rejected"
        /\ UNCHANGED <<known, rels, minerCache, analysisCache, conn, job, call, watch>>
    BY <1>1 DEF BadPost, world, caches
  <2>2. call' = None
    BY <2>1 DEF Inv, JobInv
  <2>3. WatchInv' /\ PostInv'
    BY <2>1 DEF FreshInv, WatchInv, PostInv
  <2>4. FreshUnlessCached'
    BY <2>1 DEF FreshUnlessCached
  <2> QED
    BY <2>2, <2>3, <2>4, NoCallFresh DEF FreshInv
<1>2. ASSUME NEW u \in Docs, Post(u) PROVE FreshInv'
  <2>1. /\ job = None /\ outcome'.status = None
        /\ job' = [step |-> "id", url |-> u, doc |-> None, todo |-> <<>>, body |-> <<>>]
        /\ watch' = [known |-> known, rels |-> {rels},
                     miner |-> minerCache, analysis |-> analysisCache]
        /\ UNCHANGED <<known, rels, minerCache, analysisCache, call>>
    BY <1>2 DEF Post, world, caches
  <2>2. call' = None
    BY <2>1 DEF Inv, JobInv
  <2>3. WatchInv'
    BY <2>1 DEF FreshInv, WatchInv, Inv, WorldInv, CachesInv
  <2>4. PostInv'
    BY <2>1 DEF PostInv
  <2>5. FreshUnlessCached'
    <3>1. outcome'.status # "ok"
      BY <2>1, NoneAssumption
    <3> QED
      BY <3>1 DEF FreshUnlessCached
  <2> QED
    BY <2>2, <2>3, <2>4, <2>5, NoCallFresh DEF FreshInv
<1> QED
  BY <1>1, <1>2

LEMMA FreshInit == Init => FreshInv
<1> SUFFICES ASSUME Init PROVE FreshInv
  OBVIOUS
<1>1. rels \in [Docs -> Lists(Docs)] /\ known \subseteq Docs
  BY AnalysesTyped DEF Init
<1>2. WatchInv
  BY <1>1 DEF Init, WatchInv
<1>3. PostInv /\ AskedInv /\ StreamInv
  BY DEF Init, PostInv, AskedInv, StreamInv, Waiting
<1>4. FreshUnlessCached
  BY NoneAssumption DEF Init, FreshUnlessCached
<1> QED
  BY <1>2, <1>3, <1>4 DEF FreshInv

LEMMA FreshNext ==
  ASSUME Inv, Inv', FreshInv, [Next]_vars
  PROVE  FreshInv'
<1>1. CASE Handle \/ BadPost \/ \E u \in Docs : Post(u)
  BY <1>1, HandleFresh, PostFresh
<1>2. CASE Proxy
  BY <1>2, CallFresh, RecvBodyFresh DEF Proxy
<1>3. ASSUME NEW p \in Peers,
             Serve(p) \/ Drop(p) \/ Die(p) \/ Restart(p) \/ ResetArrives(p)
      PROVE  FreshInv'
  BY <1>3, ServersFresh
<1>4. CASE (\E d \in Docs : Mirror(d)) \/ UNCHANGED vars
  <2>1. /\ UNCHANGED <<caches, job, outcome, rels, watch, conn, call>>
        /\ known \subseteq known'
    BY <1>4 DEF Mirror, vars, caches
  <2>2. \A q \in Peers : Waiting(q)' <=> Waiting(q)
    BY <2>1 DEF Waiting, Here
  <2>3. /\ watch' \in [known : SUBSET Docs, rels : SUBSET [Docs -> Lists(Docs)],
                       miner : Seq(MinerEntries), analysis : Seq(AnalysisEntries)]
        /\ rels' \in watch'.rels /\ WatchGrows /\ ConnInv'
    BY <2>1 DEF FreshInv, WatchInv, WatchGrows, Inv
  <2> QED
    BY <2>1, <2>2, <2>3, EnvironmentStep
<1> QED
  BY <1>1, <1>2, <1>3, <1>4 DEF Next

\* A reply is right at some moment since the POST arrived, or was remembered before
\* it (miner.py:105), for any articles, sizes of the lists, attempts and faults.
THEOREM FreshUnlessCachedHolds == Spec => []FreshUnlessCached
<1>1. Init => FreshInv
  BY FreshInit
<1>2. Inv /\ Inv' /\ FreshInv /\ [Next]_vars => FreshInv'
  BY FreshNext
<1>3. FreshInv => FreshUnlessCached
  BY DEF FreshInv
<1> QED
  BY <1>1, <1>2, <1>3, InvHolds, PTL DEF Spec

=============================================================================
