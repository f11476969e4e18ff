----------------------------- MODULE AppClient -----------------------------
(***************************************************************************)
(* The page script of the browser extension.  The model asks the           *)
(* application server for the recommendations of the page and fetches each *)
(* recommended document to learn its title; the view loads its own page    *)
(* first and listens to the model afterwards.  All of it is callbacks on   *)
(* one thread, in whatever order the answers arrive.                       *)
(***************************************************************************)
EXTENDS Integers, Sequences, FiniteSets

CONSTANTS
    Names,          \* the lists: positive, negative, neutral
    MaxDocs,        \* bound: documents in a list of an answer
    MaxUpdates      \* bound: calls of Model.update

ASSUME NamesAssumption == IsFiniteSet(Names)
ASSUME BoundsAssumption == MaxDocs \in Nat /\ MaxUpdates \in Nat

VARIABLES
    counter,    \* Model._updateCounter
    docs,       \* Model.positive_docs, ...: those of the last _clean
    posts,      \* updates whose POST is not answered yet
    fetches,    \* GETs that are not answered yet, with what their callback holds
    listening,  \* the view has registered for UPDATED
    shown,      \* the links in the lists of the page
    prevIdx,    \* View._prevUpdateIdx
    late        \* history: a document of this update came while the view listened

vars == <<counter, docs, posts, fetches, listening, shown, prevIdx, late>>
view == <<listening, shown, prevIdx>>

Empty == [n \in Names |-> <<>>]

\* The k-th document that the answer to update idx names for list n.
Doc == [idx : 1..MaxUpdates, name : Names, k : 1..MaxDocs]

\* What the callback of a GET holds: the document with its update, and the
\* array, named by the update that made it, of which it was given a reference.
Fetch == [doc : Doc, array : 1..MaxUpdates]

Init ==
    /\ counter = 0
    /\ docs = Empty
    /\ posts = {} /\ fetches = {}
    /\ listening = FALSE /\ shown = Empty /\ prevIdx = 0
    /\ late = FALSE

\* Model.update, called by the controller when the page has loaded.
Update ==
    /\ counter < MaxUpdates
    /\ counter' = counter + 1
    /\ docs' = Empty
    /\ posts' = posts \cup {counter'}
    /\ late' = FALSE
    /\ UNCHANGED <<fetches, view>>

\* The answer to a POST: each list of it names some documents, and a GET is
\* sent for each.  The callback does not ask whether it is the last update.
PostAnswered(idx) ==
    /\ idx \in posts
    /\ posts' = posts \ {idx}
    /\ \E size \in [Names -> 0..MaxDocs] :
          fetches' = fetches \cup
              {[doc |-> d, array |-> counter] :
                 d \in {e \in Doc : e.idx = idx /\ e.k <= size[e.name]}}
    /\ UNCHANGED <<counter, docs, view, late>>

\* A POST or GET that fails, or an answer other than 200, is ignored.
PostFails(idx) ==
    /\ idx \in posts
    /\ posts' = posts \ {idx}
    /\ UNCHANGED <<counter, docs, fetches, view, late>>

FetchFails(f) ==
    /\ f \in fetches
    /\ fetches' = fetches \ {f}
    /\ UNCHANGED <<counter, docs, posts, view, late>>

\* Fault: the lists are not emptied for another update.
SyncKeepsOld(idx, arrays) ==
    /\ shown' = [n \in Names |->
                   shown[n] \o SubSeq(arrays[n], Len(shown[n]) + 1, Len(arrays[n]))]
    /\ prevIdx' = idx

\* View._update: the lists are emptied when the update is another one, and
\* then get the documents that follow those they have.
Sync(idx, arrays) ==
    /\ shown' = [n \in Names |->
                   LET old == IF idx = prevIdx THEN shown[n] ELSE <<>>
                   IN old \o SubSeq(arrays[n], Len(old) + 1, Len(arrays[n]))]
    /\ prevIdx' = idx

\* Fault: the callback does not look at the update it belongs to.
FetchAnsweredAnyUpdate(f) ==
    /\ f \in fetches
    /\ fetches' = fetches \ {f}
    /\ docs' = IF f.array = counter
               THEN [docs EXCEPT ![f.doc.name] = Append(@, f.doc)]
               ELSE docs
    /\ IF listening THEN Sync(f.doc.idx, docs') ELSE UNCHANGED <<shown, prevIdx>>
    /\ late' = (late \/ listening)
    /\ UNCHANGED <<counter, posts, listening>>

\* The answer to a GET: the document is pushed, then the event is emitted,
\* which raises when nobody has registered yet.
FetchAnswered(f) ==
    /\ f \in fetches
    /\ fetches' = fetches \ {f}
    /\ IF f.doc.idx # counter
       THEN UNCHANGED <<docs, shown, prevIdx, late>>
       ELSE /\ docs' = IF f.array = counter
                       THEN [docs EXCEPT ![f.doc.name] = Append(@, f.doc)]
                       ELSE docs
            /\ IF listening THEN Sync(f.doc.idx, docs') ELSE UNCHANGED <<shown, prevIdx>>
            /\ late' = (late \/ listening)
    /\ UNCHANGED <<counter, posts, listening>>

\* View._initDOM has its page: the lists are there and the view registers.
ViewLoaded ==
    /\ ~listening
    /\ listening' = TRUE
    /\ UNCHANGED <<counter, docs, posts, fetches, shown, prevIdx, late>>

Next ==
    \/ Update
    \/ \E idx \in posts : PostAnswered(idx) \/ PostFails(idx)
    \/ \E f \in fetches : FetchAnswered(f) \/ FetchFails(f)
    \/ ViewLoaded

Spec == Init /\ [][Next]_vars

---------------------------------------------------------------------------
(* Properties *)

\* However the answers of several updates are delayed and overtake each
\* other, the model holds documents of the last update only, and the page
\* those of one update, each once (model.js:68).
OneUpdateAtATime ==
    \A n \in Names :
       /\ \A i \in DOMAIN docs[n] : docs[n][i].idx = counter
       /\ \A i \in DOMAIN shown[n] : shown[n][i].idx = prevIdx
       /\ \A i, j \in DOMAIN shown[n] : shown[n][i] = shown[n][j] => i = j

\* From the first document that arrives while the view listens, the page has
\* every document of the update, also those that came before the view was
\* ready; until then it keeps what it showed (view.js:94).  A list whose
\* documents have all come before is never shown.
LateDocumentShowsAll ==
    IF late THEN prevIdx = counter /\ shown = docs
    ELSE prevIdx < counter \/ shown = Empty
=============================================================================
