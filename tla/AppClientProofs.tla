-------------------------- MODULE AppClientProofs --------------------------
(***************************************************************************)
(* However many updates, lists and documents there are and in whatever     *)
(* order the answers arrive, the model and the page hold documents of one  *)
(* update, each once, and a document that arrives late shows them all.     *)
(***************************************************************************)
EXTENDS AppClient, SequenceTheorems, TLAPS

TypeInv ==
  /\ counter \in Nat /\ prevIdx \in Nat
  /\ posts \subseteq 0..counter
  /\ docs \in [Names -> Seq(Doc)] /\ shown \in [Names -> Seq(Doc)]
  /\ fetches \subseteq [doc : Doc, array : Nat]
  /\ listening \in BOOLEAN /\ late \in BOOLEAN

\* The callback of a document of the last update has a reference to the arrays
\* that this update has made.
FetchesInv ==
  \A f \in fetches : f.doc.idx <= counter /\ (f.doc.idx = counter => f.array = counter)

Uniform(a, idx) ==
  \A n \in Names :
    /\ \A i \in 1..Len(a[n]) : a[n][i].idx = idx
    /\ \A i, j \in 1..Len(a[n]) : a[n][i] = a[n][j] => i = j

\* A document is on its way or in the arrays, not both, and neither before the
\* POST of its update is answered.
DocsInv ==
  /\ Uniform(docs, counter)
  /\ \A f \in fetches, n \in Names : \A i \in 1..Len(docs[n]) : docs[n][i] # f.doc
  /\ counter \in posts => docs = Empty /\ \A f \in fetches : f.doc.idx # counter

\* The page shows everything the model has of its update, or nothing yet.
ShownInv ==
  /\ Uniform(shown, prevIdx)
  /\ prevIdx <= counter
  /\ prevIdx = counter => shown = docs \/ shown = Empty
  /\ late => listening
  /\ LateDocumentShowsAll

Inv == TypeInv /\ FetchesInv /\ DocsInv /\ ShownInv

\* Lists without documents are uniform, whatever the update.
LEMMA EmptyUniform ==
  Empty \in [Names -> Seq(Doc)] /\ \A idx : Uniform(Empty, idx)
BY DEF Empty, Uniform

LEMMA InitInv == Init => Inv
<1> SUFFICES ASSUME Init PROVE Inv
  OBVIOUS
<1> USE EmptyUniform DEF Init
<1>1. TypeInv
  BY DEF TypeInv
<1>2. FetchesInv
  BY DEF FetchesInv
<1>3. DocsInv
  BY DEF DocsInv
<1>4. ShownInv
  BY DEF ShownInv, LateDocumentShowsAll
<1> QED
  BY <1>1, <1>2, <1>3, <1>4 DEF Inv

\* Another update empties the arrays; the page keeps what it shows.
LEMMA UpdateInv == Inv /\ Update => Inv'
<1> SUFFICES ASSUME Inv, Update PROVE Inv'
  OBVIOUS
<1>1. /\ counter' = counter + 1 /\ docs' = Empty /\ posts' = posts \cup {counter'}
      /\ late' = FALSE /\ UNCHANGED <<fetches, listening, shown, prevIdx>>
  BY DEF Update, view
<1>2. TypeInv'
  <2>1. counter' \in Nat /\ posts' \subseteq 0..counter'
    BY <1>1 DEF Inv, TypeInv
  <2> QED
    BY <1>1, <2>1, EmptyUniform DEF Inv, TypeInv
<1>3. FetchesInv' /\ \A f \in fetches : f.doc.idx < counter'
  BY <1>1 DEF Inv, TypeInv, FetchesInv, Doc
<1>4. DocsInv'
  <2>1. Uniform(docs, counter)' /\ \A n \in Names : docs'[n] = <<>>
    BY <1>1, EmptyUniform DEF Uniform, Empty
  <2> QED
    BY <1>1, <1>3, <2>1 DEF DocsInv, Inv, TypeInv
<1>5. ShownInv'
  BY <1>1 DEF Inv, TypeInv, ShownInv, LateDocumentShowsAll, Uniform
<1> QED
  BY <1>2, <1>3, <1>4, <1>5 DEF Inv

\* Documents are sent for once, when the arrays of their update are empty.
LEMMA PostAnsweredInv ==
  ASSUME Inv, NEW idx \in posts, PostAnswered(idx)
  PROVE  Inv'
<1>1. /\ posts' = posts \ {idx} /\ idx \in 0..counter
      /\ UNCHANGED <<counter, docs, listening, shown, prevIdx, late>>
  BY DEF PostAnswered, view, Inv, TypeInv
<1>2. /\ fetches \subseteq fetches'
      /\ \A f \in fetches' \ fetches : /\ f \in [doc : Doc, array : Nat]
                                       /\ f.doc.idx = idx /\ f.array = counter
  BY DEF PostAnswered, Inv, TypeInv
<1>3. TypeInv'
  BY <1>1, <1>2 DEF Inv, TypeInv
<1>4. FetchesInv'
  BY <1>1, <1>2 DEF Inv, FetchesInv
<1>5. DocsInv'
  <2>1. \A f \in fetches' \ fetches, n \in Names : \A i \in 1..Len(docs[n]) : docs[n][i] # f.doc
    BY <1>1, <1>2, EmptyUniform DEF Inv, DocsInv, Uniform, Empty
  <2> QED
    BY <1>1, <1>2, <2>1 DEF Inv, DocsInv, Uniform
<1>6. ShownInv'
  BY <1>1 DEF Inv, ShownInv, LateDocumentShowsAll, Uniform
<1> QED
  BY <1>3, <1>4, <1>5, <1>6 DEF Inv

\* Fewer answers to wait for, and the view that gets ready, change nothing else.
LEMMA LessToWaitFor ==
  ASSUME Inv, posts' \subseteq posts, fetches' \subseteq fetches,
         listening' = listening \/ listening' = TRUE,
         UNCHANGED <<counter, docs, shown, prevIdx, late>>
  PROVE  Inv'
<1>1. TypeInv'
  BY DEF Inv, TypeInv
<1>2. FetchesInv'
  BY DEF Inv, FetchesInv
<1>3. DocsInv'
  BY DEF Inv, DocsInv, Uniform
<1>4. ShownInv'
  BY DEF Inv, ShownInv, LateDocumentShowsAll, Uniform
<1> QED
  BY <1>1, <1>2, <1>3, <1>4 DEF Inv

\* Sequences that follow what is there make it up to the whole.
LEMMA RestOfPrefix ==
  ASSUME NEW S, NEW s \in Seq(S), NEW t \in Seq(S), Len(s) <= Len(t),
         \A i \in 1..Len(s) : s[i] = t[i]
  PROVE  s \o SubSeq(t, Len(s) + 1, Len(t)) = t
<1> DEFINE r == SubSeq(t, Len(s) + 1, Len(t))
<1>1. r \in Seq(S) /\ Len(r) = Len(t) - Len(s) /\ \A i \in 1..Len(r) : r[i] = t[i + Len(s)]
  OBVIOUS
<1> HIDE DEF r
<1>2. s \o r \in Seq(S) /\ Len(s \o r) = Len(t)
  BY <1>1
<1>3. \A i \in 1..Len(t) : (s \o r)[i] = t[i]
  BY <1>1, <1>2
<1>4. s \o r = t
  BY <1>2, <1>3, SeqEqual
<1> QED
  BY <1>4 DEF r

\* The page gets everything the arrays have.
LEMMA SyncShowsAll ==
  ASSUME Inv, NEW d, d \in [Names -> Seq(Doc)], Sync(counter, d),
         \A n \in Names : /\ Len(docs[n]) <= Len(d[n])
                          /\ \A i \in 1..Len(docs[n]) : docs[n][i] = d[n][i]
  PROVE  shown' = d /\ prevIdx' = counter
<1> DEFINE old(n) == IF counter = prevIdx THEN shown[n] ELSE <<>>
<1>1. /\ prevIdx' = counter
      /\ shown' = [n \in Names |-> old(n) \o SubSeq(d[n], Len(old(n)) + 1, Len(d[n]))]
  BY DEF Sync
<1>2. ASSUME NEW n \in Names
      PROVE  old(n) \o SubSeq(d[n], Len(old(n)) + 1, Len(d[n])) = d[n]
  <2>1. old(n) \in Seq(Doc) /\ (old(n) = docs[n] \/ old(n) = <<>>)
    BY DEF Inv, TypeInv, ShownInv, Empty
  <2>2. Len(old(n)) <= Len(d[n]) /\ \A i \in 1..Len(old(n)) : old(n)[i] = d[n][i]
    BY <2>1
  <2> HIDE DEF old
  <2> QED
    BY <2>1, <2>2, RestOfPrefix
<1> HIDE DEF old
<1> QED
  BY <1>1, <1>2

LEMMA FetchAnsweredInv ==
  ASSUME Inv, NEW f \in fetches, FetchAnswered(f)
  PROVE  Inv'
<1>1. CASE f.doc.idx # counter
  <2>1. fetches' = fetches \ {f} /\ UNCHANGED <<counter, docs, posts, listening, shown, prevIdx, late>>
    BY <1>1 DEF FetchAnswered
  <2> QED
    BY <2>1, LessToWaitFor
<1>2. CASE f.doc.idx = counter
  <2> DEFINE m == f.doc.name
  <2>1. /\ f.array = counter /\ f.doc \in Doc /\ m \in Names /\ counter \notin posts
    BY <1>2 DEF Inv, TypeInv, FetchesInv, DocsInv, Doc
  <2>2. /\ fetches' = fetches \ {f} /\ docs' = [docs EXCEPT ![m] = Append(@, f.doc)]
        /\ IF listening THEN Sync(counter, docs') ELSE UNCHANGED <<shown, prevIdx>>
        /\ late' = (late \/ listening)
        /\ UNCHANGED <<counter, posts, listening>>
    BY <1>2, <2>1 DEF FetchAnswered
  <2>3. /\ docs' \in [Names -> Seq(Doc)]
        /\ \A n \in Names : n # m => docs'[n] = docs[n]
        /\ Len(docs[m]) \in Nat /\ Len(docs'[m]) = Len(docs[m]) + 1
        /\ docs'[m][Len(docs[m]) + 1] = f.doc
        /\ \A i \in 1..Len(docs[m]) : docs'[m][i] = docs[m][i]
    BY <2>1, <2>2 DEF Inv, TypeInv
  <2>4. listening => shown' = docs' /\ prevIdx' = counter
    <3>1. \A n \in Names : /\ Len(docs[n]) <= Len(docs'[n])
                           /\ \A i \in 1..Len(docs[n]) : docs[n][i] = docs'[n][i]
      <4>1. ASSUME NEW n \in Names
            PROVE  /\ Len(docs[n]) <= Len(docs'[n])
                   /\ \A i \in 1..Len(docs[n]) : docs[n][i] = docs'[n][i]
        <5>1. Len(docs[n]) \in Nat
          BY DEF Inv, TypeInv
        <5> QED
          BY <2>3, <5>1
      <4> QED
        BY <4>1
    <3>2. SUFFICES ASSUME listening PROVE shown' = docs' /\ prevIdx' = counter
      OBVIOUS
    <3>3. Sync(counter, docs')
      BY <2>2, <3>2
    <3>4. docs' \in [Names -> Seq(Doc)]
      BY <2>3
    <3> QED
      BY <3>1, <3>3, <3>4, SyncShowsAll
  <2>5. Uniform(docs, counter)'
    <3>1. ASSUME NEW n \in Names
          PROVE  /\ \A i \in 1..Len(docs'[n]) : docs'[n][i].idx = counter
                 /\ \A i, j \in 1..Len(docs'[n]) : docs'[n][i] = docs'[n][j] => i = j
      <4>1. CASE n # m
        BY <2>3, <4>1 DEF Inv, DocsInv, Uniform
      <4>2. CASE n = m
        <5>1. \A i \in 1..Len(docs[m]) : docs[m][i] # f.doc /\ docs[m][i].idx = counter
          BY <2>1 DEF Inv, DocsInv, Uniform
        <5>2. \A i, j \in 1..Len(docs[m]) : docs[m][i] = docs[m][j] => i = j
          BY <2>1 DEF Inv, DocsInv, Uniform
        <5>3. \A i \in 1..Len(docs'[m]) :
                i \in 1..Len(docs[m]) \/ (i = Len(docs[m]) + 1 /\ docs'[m][i] = f.doc)
          BY <2>3
        <5>4. \A i \in 1..Len(docs'[m]) : docs'[m][i].idx = counter
          BY <1>2, <2>3, <5>1, <5>3
        <5>5. \A i, j \in 1..Len(docs'[m]) : docs'[m][i] = docs'[m][j] => i = j
          BY <2>3, <5>1, <5>2, <5>3
        <5> QED
          BY <4>2, <5>4, <5>5
      <4> QED
        BY <4>1, <4>2
    <3> QED
      BY <2>2, <3>1 DEF Uniform
  <2>6. TypeInv'
    BY <2>2, <2>3, <2>4 DEF Inv, TypeInv
  <2>7. FetchesInv'
    BY <2>2 DEF Inv, FetchesInv
  <2>8. DocsInv'
    <3>1. \A g \in fetches' : g.doc # f.doc
      BY <1>2, <2>1, <2>2 DEF Inv, TypeInv, FetchesInv
    <3>2. \A g \in fetches', n \in Names : \A i \in 1..Len(docs'[n]) : docs'[n][i] # g.doc
      <4>1. SUFFICES ASSUME NEW g \in fetches', NEW n \in Names, NEW i \in 1..Len(docs'[n])
                     PROVE  docs'[n][i] # g.doc
        OBVIOUS
      <4>2. \A k \in 1..Len(docs[n]) : docs[n][k] # g.doc
        BY <2>2 DEF Inv, DocsInv
      <4> QED
        BY <2>3, <3>1, <4>2
    <3> QED
      BY <2>1, <2>2, <2>5, <3>2 DEF DocsInv
  <2>9. ShownInv'
    <3>1. CASE listening
      <4>1. /\ shown' = docs' /\ prevIdx' = counter' /\ counter' = counter /\ late' = TRUE
            /\ listening' = TRUE
        BY <2>2, <2>4, <3>1 DEF Inv, TypeInv
      <4>2. Uniform(shown, prevIdx)'
        BY <2>5, <4>1 DEF Uniform
      <4>3. prevIdx' <= counter'
        BY <4>1 DEF Inv, TypeInv
      <4> QED
        BY <4>1, <4>2, <4>3 DEF ShownInv, LateDocumentShowsAll
    <3>2. CASE ~listening
      <4>1. shown' = shown /\ prevIdx' = prevIdx /\ ~late /\ late' = FALSE
        BY <2>2, <3>2 DEF Inv, TypeInv, ShownInv
      <4>2. prevIdx = counter => shown = Empty
        BY <4>1 DEF Inv, TypeInv, ShownInv, LateDocumentShowsAll
      <4> QED
        BY <2>2, <4>1, <4>2 DEF Inv, ShownInv, LateDocumentShowsAll, Uniform
    <3> QED
      BY <3>1, <3>2
  <2> QED
    BY <2>6, <2>7, <2>8, <2>9 DEF Inv
<1> QED
  BY <1>1, <1>2

LEMMA NextInv == Inv /\ [Next]_vars => Inv'
<1> SUFFICES ASSUME Inv, [Next]_vars PROVE Inv'
  OBVIOUS
<1>1. CASE Update
  BY <1>1, UpdateInv
<1>2. ASSUME NEW idx \in posts, PostAnswered(idx) \/ PostFails(idx) PROVE Inv'
  BY <1>2, PostAnsweredInv, LessToWaitFor DEF PostFails, view
<1>3. ASSUME NEW f \in fetches, FetchAnswered(f) \/ FetchFails(f) PROVE Inv'
  BY <1>3, FetchAnsweredInv, LessToWaitFor DEF FetchFails, view
<1>4. CASE ViewLoaded
  BY <1>4, LessToWaitFor DEF ViewLoaded
<1>5. CASE UNCHANGED vars
  BY <1>5, LessToWaitFor DEF vars
<1> QED
  BY <1>1, <1>2, <1>3, <1>4, <1>5 DEF Next

-----------------------------------------------------------------------------
\* The arrays, the page and the answers still to come fit together in every
\* reachable state.
THEOREM InvHolds == Spec => []Inv
<1> QED
  BY InitInv, NextInv, PTL DEF Spec

\* The model holds documents of the last update only, the page of one update,
\* each once.
THEOREM OneUpdateHolds == Spec => []OneUpdateAtATime
<1>1. Inv => OneUpdateAtATime
  <2> SUFFICES ASSUME Inv PROVE OneUpdateAtATime
    OBVIOUS
  <2>1. ASSUME NEW n \in Names
        PROVE  /\ \A i \in DOMAIN docs[n] : docs[n][i].idx = counter
               /\ \A i \in DOMAIN shown[n] : shown[n][i].idx = prevIdx
               /\ \A i, j \in DOMAIN shown[n] : shown[n][i] = shown[n][j] => i = j
    <3>1. docs[n] \in Seq(Doc) /\ shown[n] \in Seq(Doc)
      BY DEF Inv, TypeInv
    <3>2. DOMAIN docs[n] = 1..Len(docs[n]) /\ DOMAIN shown[n] = 1..Len(shown[n])
      BY <3>1, LenProperties
    <3> QED
      BY <3>2 DEF Inv, DocsInv, ShownInv, Uniform
  <2> QED
    BY <2>1 DEF OneUpdateAtATime
<1> QED
  BY <1>1, InvHolds, PTL

\* From the first document that arrives late, the page has them all.
THEOREM LateDocumentHolds == Spec => []LateDocumentShowsAll
<1>1. Inv => LateDocumentShowsAll
  BY DEF Inv, ShownInv
<1> QED
  BY <1>1, InvHolds, PTL
=============================================================================
