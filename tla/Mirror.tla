------------------------------- MODULE Mirror -------------------------------
(***************************************************************************)
(* What the users of a board's storage rely on.  Calls add documents that  *)
(* were missing and fetch again those that are there; each stores its page *)
(* as of some moment since it began, so of two that overlap the later one  *)
(* may undo what the other has stored, but nobody brings back what was     *)
(* gone before.  What is stored stays, and the newest id is known all the  *)
(* time.  When the process dies the calls are gone, and at most the one    *)
(* document that was being written is lost, and lost for good.  Storage,   *)
(* with its threads, its lock and its files that are empty until they are  *)
(* written, is shown to implement this module.                             *)
(***************************************************************************)
EXTENDS Integers

CONSTANTS
  Adders,   \* the threads that add documents
  Ids,      \* the ids of documents, natural numbers
  MaxVer    \* bound: the newest version of a page

VARIABLES
  store,    \* the version of each document, or one of the two below
  top,      \* the id of the newest document, lost or not; -1 without any
  page,     \* the version of the pages on the server
  adding,   \* what each adder is about to store
  fetching, \* what is about to be stored again
  crashes   \* how often the process died

vars == <<store, top, page, adding, fetching, crashes>>

NotYet == 0
Lost == -1
NoCall == [id |-> -1, since |-> 0]

Init ==
  /\ store = [i \in Ids |-> NotYet]
  /\ top = -1
  /\ page = 1
  /\ adding = [a \in Adders |-> NoCall]
  /\ fetching = NoCall
  /\ crashes = 0

PageChanges ==
  /\ page < MaxVer
  /\ page' = page + 1
  /\ UNCHANGED <<store, top, adding, fetching, crashes>>

BeginAdd(a, i) ==
  /\ adding[a] = NoCall
  /\ store[i] = NotYet
  /\ adding' = [adding EXCEPT ![a] = [id |-> i, since |-> page]]
  /\ UNCHANGED <<store, top, page, fetching, crashes>>

BeginFetch(i) ==
  /\ fetching = NoCall
  /\ store[i] \notin {NotYet, Lost}
  /\ fetching' = [id |-> i, since |-> page]
  /\ UNCHANGED <<store, top, page, adding, crashes>>

\* What was read since the call began is stored.
Put(call) == \E v \in call.since..page : store' = [store EXCEPT ![call.id] = v]

Add(a) ==
  /\ adding[a] # NoCall
  /\ Put(adding[a])
  /\ top' = IF adding[a].id > top THEN adding[a].id ELSE top
  /\ adding' = [adding EXCEPT ![a] = NoCall]
  /\ UNCHANGED <<page, fetching, crashes>>

Fetch ==
  /\ fetching # NoCall
  /\ Put(fetching)
  /\ fetching' = NoCall
  /\ UNCHANGED <<top, page, adding, crashes>>

Crash ==
  /\ crashes' = crashes + 1
  /\ adding' = [a \in Adders |-> NoCall]
  /\ fetching' = NoCall
  /\ \/ UNCHANGED store
     \/ \E i \in Ids : store[i] # NotYet /\ store' = [store EXCEPT ![i] = Lost]
  /\ UNCHANGED <<top, page>>

Next ==
  \/ PageChanges
  \/ \E a \in Adders : Add(a) \/ \E i \in Ids : BeginAdd(a, i)
  \/ Fetch \/ \E i \in Ids : BeginFetch(i)
  \/ Crash

Spec == Init /\ [][Next]_vars
=============================================================================
