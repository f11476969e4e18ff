----------------------------- MODULE AppServer -----------------------------
(***************************************************************************)
(* The application server: one thread that answers POSTs, each with the    *)
(* articles recommended for the article whose url was posted.  It asks the *)
(* miner server and the article analysis server through one proxy each; a  *)
(* proxy keeps a connection that it makes again only when a send fails,    *)
(* and a list of answers that it consults first.                           *)
(*                                                                         *)
(* The two servers and the network are the environment: a server answers   *)
(* requests in order, may close a connection with a request unanswered, or *)
(* die and start again.  An article and its url are the same value; a      *)
(* DocIdentity (board and number) is one value too.                        *)
(***************************************************************************)
EXTENDS Integers, Sequences, SequencesExt

CONSTANTS
    Docs,               \* the articles of the site
    MinerSize,          \* --miner_cache_size
    AnalysisSize,       \* --article_analysis_cache_size
    Tries,              \* the attempts of send_pkg
    MaxRel,             \* bound: the length of a list of recommendations
    MaxFaults,          \* bound: how often a server dies or closes a connection
    Absent,             \* the identity -1 of an article that is not mirrored
    None, Lost, Failed

ASSUME SizeAssumption == MinerSize \in Nat /\ AnalysisSize \in Nat
ASSUME TriesAssumption == Tries \in Nat \ {0}
ASSUME BoundsAssumption == MaxRel \in Nat /\ MaxFaults \in Nat
ASSUME DocsAssumption == Absent \notin Docs /\ Absent \notin Seq(Docs) /\ None \notin Docs

VARIABLES
    known,      \* the articles the miner server has
    rels,       \* the recommendations of the running analysis server
    up,         \* the servers that are running and listening
    faults,     \* deaths and closed connections so far
    conn,       \* each proxy's connection: [state, sent, stream]
    minerCache,     \* Miner._cache: a list of [url, doc]
    analysisCache,  \* ArticleAnalysis._cache: a list of [doc, rel]
    job,        \* the POST being handled, or None
    call,       \* the proxy call in progress, or None
    out,        \* what the last proxy call came to
    outcome,    \* how the last POST ended
    watch       \* history: what was true, and cached, when the POST arrived

vars == <<known, rels, up, faults, conn, minerCache, analysisCache,
          job, call, out, outcome, watch>>
world == <<known, rels, up, faults>>
caches == <<minerCache, analysisCache>>

Peers == {"miner", "analysis"}
PeerOf(kind) == IF kind = "rel" THEN "analysis" ELSE "miner"
Requests == [kind : {"id", "url", "rel"}, doc : Docs]

\* A proxy call: what is asked, how far it is, and the attempts made.
Calls == [req : Requests, at : {"send", "sleep", "header", "body"}, tries : 0..(Tries - 1)]

ASSUME NoneAssumption == None \notin Requests /\ None \notin Calls /\ None # "ok"

\* A document is recommended with others that the miner has, at most once each.
Lists(S) == UNION {{s \in [1..n -> S] : IsInjective(s)} : n \in 0..MaxRel}
Analyses(S) == {r \in [Docs -> Lists(S)] :
                  \A d \in Docs : r[d] \in IF d \in S THEN Lists(S \ {d}) ELSE {<<>>}}

\* The answer a server gives now.
Reply(r) ==
    CASE r.kind = "id" -> IF r.doc \in known THEN r.doc ELSE Absent
      [] r.kind = "url" -> r.doc
      [] r.kind = "rel" -> rels[r.doc]

\* The states of a connection: "none" after a connect that failed, "open",
\* "fin" when the server has closed it, "doomed" when something was then sent
\* into it, "rst" once the answer to that, a reset, has arrived.
Fresh == [state |-> "open", sent |-> <<>>, stream |-> <<>>]
Unconnected == [state |-> "none", sent |-> <<>>, stream |-> <<>>]

Init ==
    /\ known \in SUBSET Docs
    /\ rels \in Analyses(known)
    /\ up = Peers
    /\ faults = 0
    /\ conn = [p \in Peers |-> Fresh]
    /\ minerCache = <<>> /\ analysisCache = <<>>
    /\ job = None /\ call = None /\ out = None
    /\ outcome = [status |-> None, url |-> None, body |-> None]
    /\ watch = [known |-> known, rels |-> {rels}, miner |-> <<>>, analysis |-> <<>>]

---------------------------------------------------------------------------
(* do_POST and handle_json *)

Post(u) ==
    /\ job = None
    /\ job' = [step |-> "id", url |-> u, doc |-> None, todo |-> <<>>, body |-> <<>>]
    /\ outcome' = [status |-> None, url |-> None, body |-> None]
    /\ watch' = [known |-> known, rels |-> {rels},
                 miner |-> minerCache, analysis |-> analysisCache]
    /\ UNCHANGED <<world, conn, caches, call, out>>

\* A POST with another path or type, or whose body has no url.
BadPost ==
    /\ job = None
    /\ outcome' = [status |-> "rejected", url |-> None, body |-> None]
    /\ UNCHANGED <<world, conn, caches, job, call, out, watch>>

\* handle_json goes on with the identity, with the list of recommended
\* documents, or with one more of their urls.  The analysts return the same
\* list three times: as positive, negative and neutral.
WithId(d) == [job EXCEPT !.doc = d, !.step = IF d = Absent THEN "absent" ELSE "rel"]
WithRel(s) == [job EXCEPT !.todo = s \o s \o s, !.step = "urls"]
WithUrl(u) == [job EXCEPT !.todo = Tail(@), !.body = Append(@, u)]

\* The first entry of a list that fits, as a set of at most one.
FirstFit(c, Fits(_)) ==
    {c[i] : i \in {j \in DOMAIN c : Fits(c[j]) /\ \A k \in 1..(j - 1) : ~Fits(c[k])}}

Ask(kind, d) ==
    /\ call' = [req |-> [kind |-> kind, doc |-> d], at |-> "send", tries |-> 0]
    /\ out' = None
    /\ UNCHANGED <<world, conn, caches, job, outcome, watch>>

Hit(next) ==
    /\ job' = next
    /\ UNCHANGED <<world, conn, caches, call, out, outcome, watch>>

GetId ==
    /\ job # None /\ call = None /\ job.step = "id"
    /\ LET hits == FirstFit(minerCache, LAMBDA e : e.url = job.url)
       IN \/ \E e \in hits : Hit(WithId(e.doc))
          \/ hits = {} /\ Ask("id", job.url)

\* Fault: the list is looked up by board only.
GetRelByBoard ==
    /\ job # None /\ call = None /\ job.step = "rel"
    /\ LET hits == FirstFit(analysisCache, LAMBDA e : TRUE)
       IN \/ \E e \in hits : Hit(WithRel(e.rel))
          \/ hits = {} /\ Ask("rel", job.doc)

GetRel ==
    /\ job # None /\ call = None /\ job.step = "rel"
    /\ LET hits == FirstFit(analysisCache, LAMBDA e : e.doc = job.doc)
       IN \/ \E e \in hits : Hit(WithRel(e.rel))
          \/ hits = {} /\ Ask("rel", job.doc)

GetUrl ==
    /\ job # None /\ call = None /\ job.step = "urls" /\ job.todo # <<>>
    /\ LET hits == FirstFit(minerCache, LAMBDA e : e.doc = Head(job.todo))
       IN \/ \E e \in hits : Hit(WithUrl(e.url))
          \/ hits = {} /\ Ask("url", Head(job.todo))

\* The reply 200: {} for an article without identity, else the three lists.
Respond ==
    /\ job # None /\ call = None
    /\ \/ job.step = "absent"
       \/ job.step = "urls" /\ job.todo = <<>>
    /\ outcome' = [status |-> "ok", url |-> job.url,
                   body |-> IF job.step = "absent" THEN Absent ELSE job.body]
    /\ job' = None
    /\ UNCHANGED <<world, conn, caches, call, out, watch>>

---------------------------------------------------------------------------
(* ProxyClient, _MinerProxy and _ArticleAnalysisProxy *)

Here == PeerOf(call.req.kind)
Stage(s) == [call EXCEPT !.at = s]

\* The call raises: handle_json does not catch it, do_POST does.
Raise ==
    /\ out' = [request |-> call.req, result |-> Failed]
    /\ call' = None
    /\ job' = None
    /\ outcome' = [status |-> "failed", url |-> job.url, body |-> None]
    /\ UNCHANGED <<world, caches, watch>>

\* Fault: the loop goes on after a send that succeeded.
SendAgain ==
    /\ call # None /\ call.at = "send"
    /\ conn[Here].state \in {"open", "fin", "doomed"}
    /\ conn' = IF conn[Here].state = "open"
               THEN [conn EXCEPT ![Here].sent = @ \o <<call.req, call.req>>]
               ELSE [conn EXCEPT ![Here].state = "doomed"]
    /\ call' = Stage("header")
    /\ UNCHANGED <<world, caches, job, out, outcome, watch>>

\* sendall succeeds as long as no reset has arrived; what is written into a
\* connection that the server has closed is lost.
Send ==
    /\ call # None /\ call.at = "send"
    /\ conn[Here].state \in {"open", "fin", "doomed"}
    /\ conn' = IF conn[Here].state = "open"
               THEN [conn EXCEPT ![Here].sent = Append(@, call.req)]
               ELSE [conn EXCEPT ![Here].state = "doomed"]
    /\ call' = Stage("header")
    /\ UNCHANGED <<world, caches, job, out, outcome, watch>>

\* Fault: a send that fails is not tried again.
SendFailsAtOnce ==
    /\ call # None /\ call.at = "send"
    /\ conn[Here].state \in {"none", "rst"}
    /\ Raise
    /\ UNCHANGED conn

\* sendall raises socket.error: the socket is closed.
SendFails ==
    /\ call # None /\ call.at = "send"
    /\ conn[Here].state \in {"none", "rst"}
    /\ conn' = [conn EXCEPT ![Here] = Unconnected]
    /\ call' = Stage("sleep")
    /\ UNCHANGED <<world, caches, job, out, outcome, watch>>

\* After the sleep, _init_sock: a refused connect raises out of send_pkg and
\* leaves a socket that is not connected; the last attempt ends in an error
\* although it has just connected.
Reconnect ==
    /\ call # None /\ call.at = "sleep"
    /\ conn' = [conn EXCEPT ![Here] = IF Here \in up THEN Fresh ELSE Unconnected]
    /\ IF Here \in up /\ call.tries + 1 < Tries
       THEN /\ call' = [call EXCEPT !.at = "send", !.tries = @ + 1]
            /\ UNCHANGED <<world, caches, job, out, outcome, watch>>
       ELSE Raise

\* recv_header and the comparison of the type.  The bytes of a body, should
\* they come first, are no header of the expected type.
RecvHeader ==
    /\ call # None /\ call.at = "header"
    /\ conn[Here].stream # <<>>
    /\ conn' = [conn EXCEPT ![Here].stream = Tail(@)]
    /\ LET h == Head(conn[Here].stream)
       IN IF h.part = "header" /\ h.req.kind = call.req.kind
          THEN /\ call' = Stage("body")
               /\ UNCHANGED <<world, caches, job, out, outcome, watch>>
          ELSE Raise

\* Fault: an empty answer of recv is not an error, the loop goes on.
RecvFailsOnError ==
    /\ call # None /\ call.at \in {"header", "body"}
    /\ conn[Here].stream = <<>>
    /\ conn[Here].state # "open"
    /\ IF conn[Here].state = "rst" THEN Raise /\ UNCHANGED conn ELSE UNCHANGED vars

\* recv returns nothing, or an error, when no byte is left of a connection
\* that the server has closed.  The connection stays as it is.
RecvFails ==
    /\ call # None /\ call.at \in {"header", "body"}
    /\ conn[Here].stream = <<>>
    /\ conn[Here].state # "open"
    /\ Raise
    /\ UNCHANGED conn

\* Fault: half of the size is rounded down.
ShrinkLess(c, max) ==
    IF Len(c) > max THEN SubSeq(c, max \div 2 + 1, Len(c)) ELSE c

\* _ensure_cached_size_acceptable: the list without its oldest half.
Shrink(c, max) ==
    IF Len(c) > max THEN SubSeq(c, (max + 1) \div 2 + 1, Len(c)) ELSE c

\* recv_all of the body: the answer goes into the list and to handle_json.
RecvBody ==
    /\ call # None /\ call.at = "body"
    /\ conn[Here].stream # <<>>
    /\ LET v == Head(conn[Here].stream).value
           r == call.req
       IN /\ out' = [request |-> r, result |-> v]
          /\ CASE r.kind = "id" ->
                  /\ minerCache' = Shrink(Append(minerCache, [url |-> r.doc, doc |-> v]), MinerSize)
                  /\ job' = WithId(v)
                  /\ UNCHANGED analysisCache
               [] r.kind = "url" ->
                  /\ minerCache' = Shrink(Append(minerCache, [url |-> v, doc |-> r.doc]), MinerSize)
                  /\ job' = WithUrl(v)
                  /\ UNCHANGED analysisCache
               [] r.kind = "rel" ->
                  /\ analysisCache' = Shrink(Append(analysisCache, [doc |-> r.doc, rel |-> v]), AnalysisSize)
                  /\ job' = WithRel(v)
                  /\ UNCHANGED minerCache
    /\ conn' = [conn EXCEPT ![Here].stream = Tail(@)]
    /\ call' = None
    /\ UNCHANGED <<world, outcome, watch>>

---------------------------------------------------------------------------
(* The servers and the network *)

\* A server answers the oldest request: a header and a body.
Serve(p) ==
    /\ p \in up /\ conn[p].state = "open" /\ conn[p].sent # <<>>
    /\ LET r == Head(conn[p].sent)
           piece(part) == [part |-> part, req |-> r, value |-> Reply(r)]
       IN conn' = [conn EXCEPT ![p].sent = Tail(@),
                               ![p].stream = @ \o <<piece("header"), piece("body")>>]
    /\ UNCHANGED <<world, caches, job, call, out, outcome, watch>>

\* A handler of the server raises: it closes the connection (server.py:187).
Drop(p) ==
    /\ faults < MaxFaults
    /\ p \in up /\ conn[p].state = "open" /\ conn[p].sent # <<>>
    /\ conn' = [conn EXCEPT ![p].state = "fin", ![p].sent = <<>>]
    /\ faults' = faults + 1
    /\ UNCHANGED <<known, rels, up, caches, job, call, out, outcome, watch>>

\* A server dies.  Part of what it was writing may arrive; when it leaves a
\* request unread, or has not accepted the connection, it is reset at once.
Die(p) ==
    /\ faults < MaxFaults
    /\ p \in up
    /\ up' = up \ {p}
    /\ faults' = faults + 1
    /\ IF conn[p].state # "open" THEN UNCHANGED conn
       ELSE \E n \in 0..Len(conn[p].stream) :
            \E s \in {"fin", "rst"} :
               conn' = [conn EXCEPT ![p] = [state |-> s, sent |-> <<>>,
                                            stream |-> SubSeq(@.stream, 1, n)]]
    /\ UNCHANGED <<known, rels, caches, job, call, out, outcome, watch>>

\* The analysis server reads the miner's documents and computes its lists
\* before it listens.
Restart(p) ==
    /\ p \notin up
    /\ up' = up \cup {p}
    /\ IF p = "miner"
       THEN UNCHANGED <<rels, watch>>
       ELSE /\ "miner" \in up
            /\ rels' \in Analyses(known)
            /\ watch' = [watch EXCEPT !.rels = @ \cup {rels'}]
    /\ UNCHANGED <<known, faults, conn, caches, job, call, out, outcome>>

\* The miner mirrors an article.
Mirror(d) ==
    /\ "miner" \in up
    /\ d \notin known
    /\ known' = known \cup {d}
    /\ UNCHANGED <<rels, up, faults, conn, caches, job, call, out, outcome, watch>>

\* The kernel of the server answers what was sent into a closed connection.
ResetArrives(p) ==
    /\ conn[p].state = "doomed"
    /\ conn' = [conn EXCEPT ![p].state = "rst"]
    /\ UNCHANGED <<world, caches, job, call, out, outcome, watch>>

---------------------------------------------------------------------------
Handle == GetId \/ GetRel \/ GetUrl \/ Respond
Proxy == Send \/ SendFails \/ Reconnect \/ RecvHeader \/ RecvFails \/ RecvBody

Next ==
    \/ \E u \in Docs : Post(u)
    \/ BadPost
    \/ Handle
    \/ Proxy
    \/ \E p \in Peers : Serve(p) \/ Drop(p) \/ Die(p) \/ Restart(p) \/ ResetArrives(p)
    \/ \E d \in Docs : Mirror(d)

Spec == Init /\ [][Next]_vars

\* The one thread runs on, a running server answers, a dead one is started
\* again, and a reset arrives.  Nobody has to post, and nothing has to fail.
Fairness ==
    /\ WF_vars(Handle \/ Proxy)
    /\ \A p \in Peers : WF_vars(Serve(p)) /\ WF_vars(Restart(p)) /\ WF_vars(ResetArrives(p))

FairSpec == Spec /\ Fairness

---------------------------------------------------------------------------
(* Properties *)

\* What each proxy call is waiting for, as Exchange sees it: the reply that
\* is read next, none yet, or one that cannot come any more.
AnswerTo(p) ==
    LET s == conn[p].stream
        size == IF call.at = "header" THEN 2 ELSE 1
    IN CASE call.at \in {"send", "sleep"} -> None
         [] call.at \in {"header", "body"} /\ Len(s) >= size -> s[size].value
         [] OTHER -> IF conn[p].state = "open" THEN None ELSE Lost

Promise == INSTANCE Exchange WITH
    Answers <- Docs \cup {Absent} \cup Lists(Docs),
    data <- [r \in Requests |-> Reply(r)],
    asked <- [p \in Peers |-> IF call # None /\ Here = p THEN call.req ELSE None],
    answer <- [p \in Peers |-> IF call # None /\ Here = p THEN AnswerTo(p) ELSE None],
    got <- out

\* Every call of a proxy returns the answer that was right at some moment
\* between the call and its return, or raises; over all the connections that
\* break, are left as they are after an error and are made again, no answer
\* is taken for that of another call (miner.py:66, proxy_client.py:36).
AnswersBelong == Promise!Spec

\* A reply says of an article what was true at some moment since the POST
\* arrived, unless the list kept by the proxy said otherwise before: only a
\* remembered -1 hides an article that is mirrored, and only a remembered
\* list of recommendations is older than the POST (miner.py:105).
FreshUnlessCached ==
    LET u == outcome.url
        rel == {r[u] : r \in watch.rels} \cup
               {watch.analysis[i].rel :
                  i \in {j \in DOMAIN watch.analysis : watch.analysis[j].doc = u}}
    IN outcome.status = "ok" =>
         IF outcome.body = Absent
         THEN u \notin watch.known \/ [url |-> u, doc |-> Absent] \in ToSet(watch.miner)
         ELSE \E s \in rel : outcome.body = s \o s \o s

\* The lists stay within the sizes given on the command line, for every size
\* but 0, for which nothing is ever deleted (miner.py:141).
CachesBounded ==
    /\ MinerSize > 0 => Len(minerCache) <= MinerSize
    /\ AnalysisSize > 0 => Len(analysisCache) <= AnalysisSize

\* A POST is answered or refused whatever happens to the servers: the one
\* thread waits for no answer that cannot come (proxy_client.py:61).
PostsEnd == (job # None) ~> (job = None)

\* Once the servers stop failing, POSTs, if they keep coming, stop failing: a
\* connection that was closed, reset or never made is replaced in the end
\* (proxy_client.py:36).
Recovers == []<>(job # None) => <>[](outcome.status # "failed")
=============================================================================
