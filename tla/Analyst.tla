------------------------------ MODULE Analyst ------------------------------
(***************************************************************************)
(* The two tf-idf analysts of the article analysis server, which run to    *)
(* their end before the server listens: they fetch the meta data of the    *)
(* recent documents, collect the words of those with more good than bad    *)
(* replies, score each such document against all others and keep the best  *)
(* three.  TfIdfAnalystTitle is the default; TfIdfAnalystContent differs   *)
(* in where the words come from, in one loop, in a reset and in how it     *)
(* breaks ties.                                                            *)
(*                                                                         *)
(* The words and the floating-point weights are abstract: what document l  *)
(* adds to the score of document j is any of Weights when both have words, *)
(* and 0 otherwise (the term counts of document j are 0 then).             *)
(***************************************************************************)
EXTENDS Integers, Sequences, SequencesExt, FiniteSets

CONSTANTS
    MaxDocs,        \* bound: documents the miner returns
    MaxPositive,    \* bound: those of them with an opinion > 0
    Base,           \* the lowest of their ids
    Weights,        \* what one document may add to the score of another
    SizeMod         \* 2^w of size_t

ASSUME BoundsAssumption ==
    /\ MaxDocs \in Nat /\ MaxPositive \in Nat /\ Base \in Nat
    /\ SizeMod \in Nat /\ SizeMod > MaxDocs

ASSUME WeightsAssumption == Weights \subseteq Int

VARIABLES
    impl,           \* "title" or "content"
    meta,           \* the documents that the miner returns: [positive, words]
    phase,          \* "fetch", "count", "words", "score", "pick", "serve", or "dead"
    id,             \* the index of the document (id, later l), from 0
    i,              \* the index of the word, later of the candidate
    nouns,          \* noun_num, the size of IDF_add
    idBase,         \* id_base_
    calculated,     \* file_calculated_
    score,          \* score, as the scoring of a document found and left it
    best,           \* best_index, best_idx
    recommended,    \* recommended_file_
    row             \* history: what the last scored document added to the others

vars == <<impl, meta, phase, id, i, nouns, idBase, calculated, score, best, recommended, row>>
fetched == <<impl, meta, idBase>>

Count == Len(meta)
Others(l) == 0..(Count - 1) \ {l}
Zero == [j \in 0..(Count - 1) |-> 0]

\* At most one new word per document; none, and only for a document without
\* letters outside SKIP_CHARS_ or all of whose words are known.
Meta == [positive : BOOLEAN, words : 0..1]

Init ==
    /\ impl \in {"title", "content"}
    /\ \E n \in 0..MaxDocs : meta \in [1..n -> Meta]
    /\ Cardinality({k \in DOMAIN meta : meta[k].positive}) <= MaxPositive
    /\ \A k \in DOMAIN meta : ~meta[k].positive => meta[k].words = 0
    /\ phase = "fetch"
    /\ id = 0 /\ i = 0 /\ nouns = 0 /\ idBase = 0
    /\ calculated = <<>> /\ recommended = <<>> /\ best = <<>>
    /\ score = Zero /\ row = Zero

\* id_base_ is the id of the first document.  Without one, meta_data[0] is out
\* of bounds: the process dies, or goes on with whatever it has read.
FetchMeta ==
    /\ phase = "fetch"
    /\ \/ Count > 0 /\ idBase' = Base /\ phase' = "count"
       \/ Count = 0 /\ idBase' \in {0, Base} /\ phase' \in {"count", "dead"}
    /\ UNCHANGED <<impl, meta, id, i, nouns, calculated, score, best, recommended, row>>

\* The miner closes the connection, or sends what it should not: Fatal.  The
\* content analyst asks for every positive document, both for the meta data.
MinerFails ==
    /\ \/ phase = "fetch"
       \/ phase = "words" /\ impl = "content" /\ i = 0
    /\ phase' = "dead"
    /\ UNCHANGED <<fetched, id, i, nouns, calculated, score, best, recommended, row>>

\* The body of the loop over the documents, up to the loop over the words.
CountDoc ==
    /\ phase = "count" /\ id < Count
    /\ calculated' = Append(calculated, meta[id + 1].positive)
    /\ IF meta[id + 1].positive
       THEN /\ nouns' = nouns + meta[id + 1].words
            /\ i' = 0 /\ phase' = "words" /\ UNCHANGED id
       ELSE id' = id + 1 /\ UNCHANGED <<nouns, i, phase>>
    /\ UNCHANGED <<fetched, score, best, recommended, row>>

\* Fault: the other analyst has the same loop.
CountWordById ==
    /\ phase = "words" /\ i < nouns
    /\ id' = (id + 1) % SizeMod
    /\ UNCHANGED <<fetched, i, phase, nouns, calculated, score, best, recommended, row>>

\* for (size_t i = 0; i < IDF_add.size(); ++id), and ++i in the other analyst.
CountWord ==
    /\ phase = "words" /\ i < nouns
    /\ IF impl = "title"
       THEN id' = (id + 1) % SizeMod /\ UNCHANGED i
       ELSE i' = i + 1 /\ UNCHANGED id
    /\ UNCHANGED <<fetched, phase, nouns, calculated, score, best, recommended, row>>

WordsCounted ==
    /\ phase = "words" /\ i >= nouns
    /\ id' = id + 1 /\ phase' = "count"
    /\ UNCHANGED <<fetched, i, nouns, calculated, score, best, recommended, row>>

DocsCounted ==
    /\ phase = "count" /\ id >= Count
    /\ id' = 0 /\ phase' = "score"
    /\ UNCHANGED <<fetched, i, nouns, calculated, score, best, recommended, row>>

\* What document l may add to the score of the others.
Rows(l) ==
    LET has(j) == nouns > 0 /\ calculated[j + 1]
    IN {r \in [0..(Count - 1) -> Weights \cup {0}] :
          \A j \in DOMAIN r : (j = l \/ ~has(j) \/ ~has(l)) => r[j] = 0}

\* Whether document a stays before document b, which is moved up from the end:
\* score[a] > score[b] in the title analyst, >= in the other.
Stays(s, a, b) == IF impl = "title" THEN s[a] > s[b] ELSE s[a] >= s[b]

\* push_back, the swaps from the end until one stays, and pop_back.
Insert(s, list, b) ==
    LET k == SelectLastInSeq(list, LAMBDA a : Stays(s, a, b))
    IN SubSeq(InsertAt(list, k + 1, b), 1, IF Len(list) < 3 THEN Len(list) + 1 ELSE 3)

\* Fault: neither analyst resets the scores.
ScoreGoesOn == score

\* The scores start from 0 for each document in the content analyst only.
StartScore == IF impl = "content" THEN Zero ELSE score

ScoreDoc ==
    /\ phase = "score" /\ id < Count
    /\ IF calculated[id + 1]
       THEN /\ row' \in Rows(id)
            /\ score' = [j \in DOMAIN score |-> StartScore[j] + row'[j]]
            /\ best' = <<>> /\ i' = 0 /\ phase' = "pick"
            /\ UNCHANGED <<id, recommended>>
       ELSE /\ recommended' = Append(recommended, <<>>)
            /\ id' = id + 1
            /\ UNCHANGED <<i, phase, score, best, row>>
    /\ UNCHANGED <<fetched, nouns, calculated>>

\* The loop over the other documents.
PickDoc ==
    /\ phase = "pick" /\ i < Count
    /\ best' = IF i = id THEN best ELSE Insert(score, best, i)
    /\ i' = i + 1
    /\ UNCHANGED <<fetched, phase, id, nouns, calculated, score, recommended, row>>

DocPicked ==
    /\ phase = "pick" /\ i >= Count
    /\ recommended' = Append(recommended, best)
    /\ id' = id + 1 /\ i' = 0 /\ best' = <<>> /\ phase' = "score"
    /\ UNCHANGED <<fetched, nouns, calculated, score, row>>

\* The constructor of the analyst returns; RunMainLoop begins.
Listen ==
    /\ phase = "score" /\ id >= Count
    /\ phase' = "serve"
    /\ UNCHANGED <<fetched, id, i, nouns, calculated, score, best, recommended, row>>

\* The answer to a query about a document of the one board, of any id.
GetDocRelInfo(d) ==
    LET idx == d - idBase
    IN IF 0 <= idx /\ idx < Len(recommended) /\ calculated[idx + 1]
       THEN [k \in DOMAIN recommended[idx + 1] |-> idBase + recommended[idx + 1][k]]
       ELSE <<>>

Startup ==
    \/ FetchMeta \/ CountDoc \/ CountWord \/ WordsCounted \/ DocsCounted
    \/ ScoreDoc \/ PickDoc \/ DocPicked \/ Listen

Next == Startup \/ MinerFails

Spec == Init /\ [][Next]_vars

\* The constructor runs on.
FairSpec == Spec /\ WF_vars(Startup)

---------------------------------------------------------------------------
(* Properties *)

\* The best of all other documents by score, and among equals the first for
\* the content analyst, the last for the title analyst.
Before(s, a, b) ==
    \/ s[a] > s[b]
    \/ s[a] = s[b] /\ (IF impl = "content" THEN a < b ELSE a > b)

Top3(s, l) ==
    [k \in 1..(IF Count > 3 THEN 3 ELSE Count - 1) |->
       CHOOSE a \in Others(l) :
          Cardinality({c \in Others(l) : Before(s, c, a)}) = k - 1]

\* The answer about a document, from the moment its list is there, is the
\* three others that score best against this document, whatever the documents
\* before it scored: inserting into a list of three and dropping the fourth
\* loses nothing, ties go one way, no score of another document is left over,
\* and the ids fit the indices.  The answer about any other id is empty
\* (tf_idf_analyst_content.cc:262).
AnswersBestThree ==
    /\ phase = "score" /\ id > 0 /\ calculated[id] =>
         LET a == GetDocRelInfo(idBase + id - 1)
             t == Top3(row, id - 1)
         IN Count > 0 /\ idBase = Base /\ a = [k \in DOMAIN t |-> Base + t[k]]
    /\ phase = "serve" =>
         \A d \in (Base - 1)..(Base + Count) :
            GetDocRelInfo(d) # <<>> =>
               d \in Base..(Base + Count - 1) /\ meta[d - Base + 1].positive

\* The content analyst comes to serve, or dies of the miner or of an empty
\* answer.  The title analyst, the default, does so only if no positive
\* document has a word: with one, its loop over the words counts the
\* documents instead, and the server never listens
\* (tf_idf_analyst_title.cc:142).
HasWords == \E k \in DOMAIN meta : meta[k].positive /\ meta[k].words > 0

OnlyContentServes ==
    IF impl = "title" /\ HasWords THEN [](phase # "serve")
    ELSE <>(phase \in {"serve", "dead"})
=============================================================================
