------------------------------ MODULE Exchange ------------------------------
(***************************************************************************)
(* What a caller of a remote service may rely on: a call returns the       *)
(* answer that was right at some moment between the call and its return,   *)
(* or it raises.  It never returns the answer to another call, nor one     *)
(* that was right only before it was asked.  AppServer, whose proxies talk *)
(* over connections that break and are made again, is shown to implement   *)
(* this module.                                                            *)
(***************************************************************************)
CONSTANTS
    Peers,      \* the services that are called
    Requests,   \* what may be asked
    Answers,    \* what may be answered
    None,       \* no request, no answer yet, nothing returned
    Lost,       \* the answer will not arrive
    Failed      \* the call raised

VARIABLES
    data,       \* the right answer to each request, as of now
    asked,      \* the request each service is being asked
    answer,     \* the answer each service has given to it
    got         \* what the last call came to: the request and its result

vars == <<data, asked, answer, got>>

Data == [Requests -> Answers]

Init ==
    /\ data \in Data
    /\ asked = [p \in Peers |-> None]
    /\ answer = [p \in Peers |-> None]
    /\ got = None

Ask(p) ==
    /\ asked[p] = None
    /\ \E r \in Requests : asked' = [asked EXCEPT ![p] = r]
    /\ got' = None
    /\ UNCHANGED <<data, answer>>

\* The moment at which the answer is right.
Serve(p) ==
    /\ asked[p] # None
    /\ answer[p] = None
    /\ answer' = [answer EXCEPT ![p] = data[asked[p]]]
    /\ UNCHANGED <<data, asked, got>>

Lose(p) ==
    /\ asked[p] # None
    /\ answer' = [answer EXCEPT ![p] = Lost]
    /\ UNCHANGED <<data, asked, got>>

End(p, result) ==
    /\ got' = [request |-> asked[p], result |-> result]
    /\ asked' = [asked EXCEPT ![p] = None]
    /\ answer' = [answer EXCEPT ![p] = None]
    /\ UNCHANGED data

Return(p) ==
    /\ answer[p] \in Answers
    /\ End(p, answer[p])

Raise(p) ==
    /\ asked[p] # None
    /\ End(p, Failed)

\* The service learns something new, also while it is being asked.
Change ==
    /\ data' \in Data
    /\ UNCHANGED <<asked, answer, got>>

Next ==
    \/ \E p \in Peers : Ask(p) \/ Serve(p) \/ Lose(p) \/ Return(p) \/ Raise(p)
    \/ Change

Spec == Init /\ [][Next]_vars
=============================================================================
