--------------------------- MODULE StorageProofs ---------------------------
(***************************************************************************)
(* Proofs about Storage, for every number of adders and readers, of        *)
(* documents, of versions and of crashes.                                  *)
(***************************************************************************)
EXTENDS Storage, FiniteSetTheorems, TLAPS

USE DEF vars, history

\* What a file holds, told apart.
LEMMA FileKinds ==
  /\ Missing # Torn /\ Missing \notin Doc /\ Torn \notin Doc
  /\ \A d \in Doc : d.ver \in 1..MaxVer /\ d.ok \in BOOLEAN
BY MaxVerAssumption DEF Missing, Torn, Doc

LEMMA IdsAreIntegers == /\ Ids \subseteq Int /\ -1 \notin Ids
                        /\ \A i \in Int : i \in Ids <=> 0 <= i /\ i <= MaxId
BY MaxIdAssumption DEF Ids

-----------------------------------------------------------------------------
\* Types.  TypeOK is inductive together with what the program counters say of the
\* other fields of a call.
AddCallOK(c) ==
  /\ c.pc \in {"crawl", "dump", "writing"} => c.id \in Ids
  /\ c.pc \in {"dump", "writing"} => c.doc \in Doc

UpdateCallOK ==
  /\ up.pc \in {"crawl", "dump", "writing"} => up.cur \in Ids
  /\ up.pc \in {"dump", "writing"} => up.doc \in Doc

QueryOK(q) ==
  /\ q.pc \in {"get", "wait"} => q.cur \in Ids
  /\ q.pc = "down" => q.cur <= q.top
  /\ q.pc \in {"down", "search"} => q.res = -1

Typed ==
  /\ TypeOK
  /\ \A a \in Adders : AddCallOK(ad[a])
  /\ UpdateCallOK
  /\ \A r \in Readers : QueryOK(rd[r])

AdderTyped == /\ ad \in [Adders -> AddCalls]
              /\ \A a \in Adders : AddCallOK(ad[a])

ReaderTyped == /\ rd \in [Readers -> Queries]
               /\ \A r \in Readers : QueryOK(rd[r])

UpdateTyped == up \in UpdateCalls /\ UpdateCallOK

HistoryTyped == /\ since \in [Adders -> 0..MaxVer] /\ raced \subseteq Adders
                /\ upSince \in 0..MaxVer /\ upRaced \in BOOLEAN

LEMMA IdleTyped == /\ NoAdd \in AddCalls /\ AddCallOK(NoAdd)
                   /\ NoUpdate \in UpdateCalls
                   /\ NoUpdate.pc = "sleep"
                   /\ Idle \in Queries /\ QueryOK(Idle) /\ Idle.res = -1
<1>1. NoAdd \in AddCalls /\ AddCallOK(NoAdd)
  BY DEF NoAdd, AddCalls, AddCallOK
<1>2. NoUpdate \in UpdateCalls /\ NoUpdate.pc = "sleep"
  BY IdsAreIntegers, MaxIdAssumption DEF NoUpdate, UpdateCalls, Ids
<1>3. Idle \in Queries /\ QueryOK(Idle) /\ Idle.res = -1
  BY DEF Idle, Queries, QueryOK
<1> QED
  BY <1>1, <1>2, <1>3

LEMMA InitTyped == Init => Typed
<1> SUFFICES ASSUME Init PROVE Typed
  OBVIOUS
<1>1. files \in [Ids -> Doc \cup {Missing, Torn}]
  BY DEF Init
<1>a. maxId \in Ids \cup {-1} /\ updated \in BOOLEAN /\ stop \in BOOLEAN
  BY DEF Init
<1>b. web \in 1..MaxVer /\ crashes \in 0..MaxCrashes
  BY MaxVerAssumption, MaxCrashesAssumption DEF Init
<1>2. AdderTyped /\ ReaderTyped /\ UpdateTyped
  BY IdleTyped DEF Init, AdderTyped, ReaderTyped, UpdateTyped, UpdateCallOK
<1>3. HistoryTyped
  <2>1. 0 \in 0..MaxVer
    BY MaxVerAssumption
  <2>2. since = [a \in Adders |-> 0] /\ raced = {} /\ upSince = 0 /\ upRaced = FALSE
    BY DEF Init
  <2>3. since \in [Adders -> 0..MaxVer]
    BY <2>1, <2>2
  <2> QED
    BY <2>1, <2>2, <2>3 DEF HistoryTyped
<1> QED
  BY <1>1, <1>2, <1>3, <1>a, <1>b DEF HistoryTyped, Typed, TypeOK, AdderTyped, ReaderTyped, UpdateTyped

\* A step of an adder leaves well-typed calls.
LEMMA AdderStepTyped ==
  ASSUME Typed, NEW a \in Adders, AdderStep(a) \/ \E i \in Ids : AddCheck(a, i)
  PROVE  AdderTyped'
<1>0. /\ ad \in [Adders -> AddCalls] /\ ad[a] \in AddCalls
      /\ \A b \in Adders : AddCallOK(ad[b])
  BY DEF Typed, TypeOK
<1>1. SUFFICES ASSUME NEW c \in AddCalls, AddCallOK(c), ad' = [ad EXCEPT ![a] = c]
               PROVE  AdderTyped'
  <2>1. CASE \E i \in Ids : AddCheck(a, i)
    <3> PICK i \in Ids : AddCheck(a, i)
      BY <2>1
    <3> DEFINE c == [NoAdd EXCEPT !.pc = IF IsFile(i) THEN "refused" ELSE "crawl",
                                  !.id = IF IsFile(i) THEN -1 ELSE i]
    <3>1. c \in AddCalls /\ AddCallOK(c)
      BY DEF NoAdd, AddCalls, AddCallOK
    <3>2. ad' = [ad EXCEPT ![a] = c]
      BY DEF AddCheck
    <3> HIDE DEF c
    <3> QED
      BY <3>1, <3>2, <1>1
  <2>2. CASE AddCrawl(a)
    <3> PICK d \in Crawled : ad' = [ad EXCEPT ![a] = [ad[a] EXCEPT !.pc = "dump", !.doc = d]]
      BY <2>2 DEF AddCrawl
    <3>1. d \in Doc /\ ad[a].pc = "crawl"
      BY <2>2 DEF Crawled, AddCrawl
    <3> DEFINE c == [ad[a] EXCEPT !.pc = "dump", !.doc = d]
    <3>2. c \in AddCalls /\ AddCallOK(c)
      BY <1>0, <3>1 DEF AddCalls, AddCallOK
    <3> HIDE DEF c
    <3> QED
      BY <3>2, <1>1 DEF c
  <2>3. CASE AddOpen(a)
    <3> DEFINE c == [ad[a] EXCEPT !.pc = "writing"]
    <3>1. c \in AddCalls /\ AddCallOK(c) /\ ad' = [ad EXCEPT ![a] = c]
      BY <1>0, <2>3 DEF AddCalls, AddCallOK, AddOpen
    <3> HIDE DEF c
    <3> QED
      BY <3>1, <1>1
  <2>4. CASE AddWrite(a)
    <3> DEFINE c == [ad[a] EXCEPT !.pc = "mark"]
    <3>1. c \in AddCalls /\ AddCallOK(c) /\ ad' = [ad EXCEPT ![a] = c]
      BY <1>0, <2>4 DEF AddCalls, AddCallOK, AddWrite
    <3> HIDE DEF c
    <3> QED
      BY <3>1, <1>1
  <2>5. CASE AddMark(a)
    <3> DEFINE c == [NoAdd EXCEPT !.pc = "added"]
    <3>1. c \in AddCalls /\ AddCallOK(c) /\ ad' = [ad EXCEPT ![a] = c]
      BY <1>0, <2>5 DEF AddCalls, AddCallOK, AddMark, NoAdd
    <3> HIDE DEF c
    <3> QED
      BY <3>1, <1>1
  <2> QED
    BY <2>1, <2>2, <2>3, <2>4, <2>5 DEF AdderStep
<1>2. ad' \in [Adders -> AddCalls]
  BY <1>0, <1>1
<1>3. ASSUME NEW b \in Adders PROVE AddCallOK(ad'[b])
  BY <1>0, <1>1
<1> QED
  BY <1>2, <1>3 DEF AdderTyped

\* The document of a failed crawl, or of a page, is a document.
LEMMA UpdateStepTyped ==
  ASSUME Typed, UpdateStep \/ \E last \in 0..MaxId : UpdateStart(last)
  PROVE  UpdateTyped'
<1>0. up \in UpdateCalls /\ UpdateCallOK /\ maxId \in Ids \cup {-1}
  BY DEF Typed, TypeOK
<1>1. CASE \E last \in 0..MaxId : UpdateStart(last)
  <2> PICK last \in 0..MaxId : UpdateStart(last)
    BY <1>1
  <2>1. up' \in UpdateCalls
    BY <1>0, IdleTyped DEF UpdateStart, UpdateCalls, NoUpdate, Ids
  <2>2. up'.pc = "walk"
    BY DEF UpdateStart, NoUpdate
  <2> QED
    BY <2>1, <2>2 DEF UpdateTyped, UpdateCallOK
<1>2. CASE UpdateWalk
  <2> DEFINE i == up.cur
  <2>0. up.pc = "walk"
    BY <1>2 DEF UpdateWalk
  <2>1. CASE i < 0
    <3>1. up' = [up EXCEPT !.pc = "end"]
      BY <1>2, <2>1 DEF UpdateWalk
    <3> QED
      BY <1>0, <3>1 DEF UpdateTyped, UpdateCallOK, UpdateCalls
  <2>2. CASE ~(i < 0) /\ ~IsFile(i)
    <3>1. up' = [up EXCEPT !.cur = i - 1]
      BY <1>2, <2>2 DEF UpdateWalk
    <3>2. i - 1 \in Ids \cup {-1}
      BY <1>0, <2>2, MaxIdAssumption DEF UpdateCalls, Ids
    <3> QED
      BY <1>0, <2>0, <3>1, <3>2 DEF UpdateTyped, UpdateCallOK, UpdateCalls
  <2>3. CASE ~(i < 0) /\ IsFile(i)
    <3>1. up' = IF files[i] = Torn THEN [NoUpdate EXCEPT !.pc = "dead"]
                ELSE IF PostTime(i, files[i]) < up.last
                THEN [up EXCEPT !.pc = "end"]
                ELSE [up EXCEPT !.pc = "crawl"]
      BY <1>2, <2>3 DEF UpdateWalk
    <3>2. i \in Ids
      BY <1>0, <2>3, MaxIdAssumption DEF UpdateCalls, Ids
    <3>3. [NoUpdate EXCEPT !.pc = "dead"] \in UpdateCalls
      BY IdleTyped DEF UpdateCalls
    <3>4. CASE up' = [NoUpdate EXCEPT !.pc = "dead"]
      BY <3>3, <3>4, IdleTyped DEF UpdateTyped, UpdateCallOK, UpdateCalls
    <3>5. CASE up' = [up EXCEPT !.pc = "end"]
      BY <1>0, <3>5 DEF UpdateTyped, UpdateCallOK, UpdateCalls
    <3>6. CASE up' = [up EXCEPT !.pc = "crawl"]
      BY <1>0, <3>2, <3>6 DEF UpdateTyped, UpdateCallOK, UpdateCalls
    <3> QED
      BY <3>1, <3>4, <3>5, <3>6
  <2> QED
    BY <2>1, <2>2, <2>3
<1>3. CASE UpdateCrawl
  <2> PICK d \in Crawled : up' = [up EXCEPT !.pc = "dump", !.doc = d]
    BY <1>3 DEF UpdateCrawl
  <2>1. d \in Doc /\ up.cur \in Ids
    BY <1>0, <1>3 DEF Crawled, UpdateCrawl, UpdateCallOK
  <2> QED
    BY <1>0, <2>1 DEF UpdateTyped, UpdateCallOK, UpdateCalls
<1>4. CASE UpdateOpen
  <2>1. up' = [up EXCEPT !.pc = "writing"] /\ up.cur \in Ids /\ up.doc \in Doc
    BY <1>0, <1>4 DEF UpdateOpen, UpdateCallOK
  <2> QED
    BY <1>0, <2>1 DEF UpdateTyped, UpdateCallOK, UpdateCalls
<1>5. CASE UpdateWrite
  <2>1. up.cur \in Ids
    BY <1>0, <1>5 DEF UpdateWrite, UpdateCallOK
  <2>2. up' = [up EXCEPT !.pc = "walk", !.cur = up.cur - 1, !.lo = up.cur, !.doc = Missing,
                         !.done = up.done \cup {up.cur}]
    BY <1>5 DEF UpdateWrite
  <2>3. up.cur - 1 \in Ids \cup {-1} /\ up.done \cup {up.cur} \in SUBSET Ids
    BY <1>0, <2>1, MaxIdAssumption DEF UpdateCalls, Ids
  <2> QED
    BY <1>0, <2>1, <2>2, <2>3 DEF UpdateTyped, UpdateCallOK, UpdateCalls
<1> QED
  BY <1>1, <1>2, <1>3, <1>4, <1>5 DEF UpdateStep

\* A query changes the call of one reader.
LEMMA OneReader ==
  ASSUME Typed, NEW r \in Readers, NEW q \in Queries, QueryOK(q), rd' = [rd EXCEPT ![r] = q]
  PROVE  ReaderTyped'
<1>1. rd' \in [Readers -> Queries]
  BY DEF Typed, TypeOK
<1>2. ASSUME NEW s \in Readers PROVE QueryOK(rd'[s])
  BY DEF Typed, TypeOK
<1> QED
  BY <1>1, <1>2 DEF ReaderTyped

\* What the end of a query by loading document i leaves.
LEMMA LoadedTyped ==
  ASSUME NEW q \in Queries, NEW i \in Ids
  PROVE  Loaded(q, i) \in Queries /\ QueryOK(Loaded(q, i))
         /\ Loaded(q, i).pc \in {"done", "failed"}
BY DEF Loaded, Queries, QueryOK

\* Queries that start at max_id.
LEMMA EndsTyped ==
  ASSUME NEW I \in Queries, I.res = -1, NEW m \in Int, m \in Ids \/ m = -1,
         NEW pc \in {"get", "done"}, pc = "get" => m \in Ids
  PROVE  LET newest == [I EXCEPT !.pc = pc, !.op = "newest", !.cur = m]
             oldest == [I EXCEPT !.pc = "down", !.op = "oldest", !.cur = m, !.top = m]
         IN  /\ newest \in Queries /\ QueryOK(newest)
             /\ oldest \in Queries /\ QueryOK(oldest)
<1>1. m <= m
  OBVIOUS
<1> QED
  BY <1>1 DEF Queries, QueryOK

LEMMA ReaderStepTyped ==
  ASSUME Typed, NEW r \in Readers, ReaderStep(r) \/ Ask(r)
  PROVE  ReaderTyped'
<1> DEFINE q == rd[r]
<1>0. q \in Queries /\ QueryOK(q) /\ maxId \in Ids \cup {-1}
  BY DEF Typed, TypeOK
<1>a. /\ q.cur \in Int /\ q.top \in Int /\ q.cur \in Ids \cup {-1} /\ q.top \in Ids \cup {-1}
      /\ \A i \in Ids : i - 1 \in Ids \cup {-1}
  BY <1>0, MaxIdAssumption DEF Queries, Ids
<1>b. maxId \in Int /\ maxId \in Ids \cup {-1} /\ (maxId >= 0 => maxId \in Ids)
  BY <1>0, IdsAreIntegers
<1>1. CASE Get(r)
  <2>1. q.cur \in Ids
    BY <1>0, <1>1 DEF Get, QueryOK
  <2>2. [q EXCEPT !.pc = "wait"] \in Queries /\ QueryOK([q EXCEPT !.pc = "wait"])
    BY <1>0, <2>1 DEF Queries, QueryOK
  <2>3. rd' = [rd EXCEPT ![r] = Loaded(q, q.cur)] \/ rd' = [rd EXCEPT ![r] = [q EXCEPT !.pc = "wait"]]
    BY <1>1 DEF Get, ReaderGoesTo
  <2> HIDE DEF q
  <2> QED
    BY <1>0, <2>1, <2>2, <2>3, LoadedTyped, OneReader
<1>2. CASE WakeUp(r)
  <2>1. q.cur \in Ids
    BY <1>0, <1>2 DEF WakeUp, QueryOK
  <2>2. [q EXCEPT !.pc = "done"] \in Queries /\ QueryOK([q EXCEPT !.pc = "done"])
    BY <1>0, <2>1 DEF Queries, QueryOK
  <2>3. rd' = [rd EXCEPT ![r] = Loaded(q, q.cur)] \/ rd' = [rd EXCEPT ![r] = [q EXCEPT !.pc = "done"]]
    BY <1>2 DEF WakeUp, ReaderGoesTo
  <2> HIDE DEF q
  <2> QED
    BY <1>0, <2>1, <2>2, <2>3, LoadedTyped, OneReader
<1>3. CASE OldestStep(r)
  <2> DEFINE i == q.cur
  <2>1. /\ [q EXCEPT !.pc = "done"] \in Queries /\ QueryOK([q EXCEPT !.pc = "done"])
    BY <1>0 DEF Queries, QueryOK
  <2>2. q.pc = "down" /\ i <= q.top
    BY <1>0, <1>3 DEF OldestStep, QueryOK
  <2>3. ASSUME ~(i < 0)
        PROVE  [q EXCEPT !.cur = i - 1] \in Queries /\ QueryOK([q EXCEPT !.cur = i - 1])
    <3>1. i - 1 \in Ids \cup {-1} /\ i - 1 <= q.top
      BY <1>a, <2>2, <2>3, MaxIdAssumption DEF Ids
    <3> QED
      BY <1>0, <2>2, <3>1 DEF Queries, QueryOK
  <2>4. ASSUME ~(i < 0), i # q.top PROVE i + 1 \in Ids
    BY <1>a, <2>2, <2>4, MaxIdAssumption DEF Ids
  <2>5. \/ rd' = [rd EXCEPT ![r] = [q EXCEPT !.pc = "done"]]
        \/ ~(i < 0) /\ rd' = [rd EXCEPT ![r] = [q EXCEPT !.cur = i - 1]]
        \/ ~(i < 0) /\ i # q.top /\ rd' = [rd EXCEPT ![r] = Loaded(q, i + 1)]
    BY <1>3 DEF OldestStep, ReaderGoesTo
  <2> HIDE DEF q, i
  <2> QED
    BY <1>0, <2>1, <2>3, <2>4, <2>5, LoadedTyped, OneReader
<1>4. CASE SearchStep(r)
  <2> DEFINE i == q.cur
  <2>0. q.pc = "search"
    BY <1>4 DEF SearchStep
  <2>1. ASSUME NEW pc \in {"done", "failed"}
        PROVE  [q EXCEPT !.pc = pc] \in Queries /\ QueryOK([q EXCEPT !.pc = pc])
    BY <1>0 DEF Queries, QueryOK
  <2>2. ASSUME ~(i < 0)
        PROVE  [q EXCEPT !.cur = i - 1] \in Queries /\ QueryOK([q EXCEPT !.cur = i - 1])
    <3>1. i - 1 \in Ids \cup {-1}
      BY <1>a, <2>2, MaxIdAssumption DEF Ids
    <3> QED
      BY <1>0, <2>0, <3>1 DEF Queries, QueryOK
  <2>3. ASSUME ~(i < 0) PROVE i \in Ids
    BY <1>a, <2>3
  <2>4. \/ \E pc \in {"done", "failed"} : rd' = [rd EXCEPT ![r] = [q EXCEPT !.pc = pc]]
        \/ ~(i < 0) /\ rd' = [rd EXCEPT ![r] = [q EXCEPT !.cur = i - 1]]
        \/ ~(i < 0) /\ rd' = [rd EXCEPT ![r] = Loaded(q, i)]
    BY <1>4 DEF SearchStep, ReaderGoesTo
  <2> HIDE DEF q, i
  <2> QED
    BY <1>0, <2>1, <2>2, <2>3, <2>4, LoadedTyped, OneReader
<1>5. CASE Ask(r)
  <2>1. ASSUME NEW i \in Ids, AskById(r, i) PROVE ReaderTyped'
    <3> DEFINE n == [Idle EXCEPT !.pc = "get", !.op = "id", !.arg = i, !.cur = i]
    <3>0. i \in Int
      BY IdsAreIntegers
    <3>1. n \in Queries /\ QueryOK(n)
      BY <3>0 DEF Idle, Queries, QueryOK
    <3>2. rd' = [rd EXCEPT ![r] = n]
      BY <2>1 DEF AskById, Begin
    <3> HIDE DEF n
    <3> QED
      BY <3>1, <3>2, OneReader
  <2>2. CASE AskNewest(r)
    <3> DEFINE n == [Idle EXCEPT !.pc = IF maxId >= 0 THEN "get" ELSE "done",
                                 !.op = "newest", !.cur = maxId]
    <3>1. n \in Queries /\ QueryOK(n)
      BY <1>b, IdleTyped, EndsTyped
    <3>2. rd' = [rd EXCEPT ![r] = n]
      BY <2>2 DEF AskNewest, Begin
    <3> HIDE DEF n
    <3> QED
      BY <3>1, <3>2, OneReader
  <2>3. CASE AskOldest(r)
    <3> DEFINE n == [Idle EXCEPT !.pc = "down", !.op = "oldest", !.cur = maxId, !.top = maxId]
    <3>1. n \in Queries /\ QueryOK(n)
      BY <1>b, IdleTyped, EndsTyped, "done" \in {"get", "done"}
    <3>2. rd' = [rd EXCEPT ![r] = n]
      BY <2>3 DEF AskOldest, Begin
    <3> HIDE DEF n
    <3> QED
      BY <3>1, <3>2, OneReader
  <2>4. ASSUME NEW i \in Ids, AskByUrl(r, Num[i]) PROVE ReaderTyped'
    <3> DEFINE h == \E j \in Ids : files[j] \in Doc /\ Num[j] = Num[i]
               n == [Idle EXCEPT !.pc = "search", !.op = "url", !.arg = Num[i], !.cur = maxId,
                                 !.had = h]
    <3>0. h \in BOOLEAN /\ Num[i] \in Int
      BY NumAssumption
    <3>2. rd' = [rd EXCEPT ![r] = n]
      BY <2>4 DEF AskByUrl, Begin
    <3> HIDE DEF h
    <3>1. n \in Queries /\ QueryOK(n)
      BY <1>0, <3>0 DEF Idle, Queries, QueryOK
    <3> HIDE DEF n
    <3> QED
      BY <3>1, <3>2, OneReader
  <2> QED
    BY <1>5, <2>1, <2>2, <2>3, <2>4 DEF Ask
<1> QED
  BY <1>1, <1>2, <1>3, <1>4, <1>5 DEF ReaderStep

\* What a step does to the fields that are not calls.
LEMMA FilesTyped ==
  ASSUME Typed, [Next]_vars
  PROVE  files' \in [Ids -> Doc \cup {Missing, Torn}] /\ maxId' \in Ids \cup {-1}
<1>0. /\ files \in [Ids -> Doc \cup {Missing, Torn}] /\ maxId \in Ids \cup {-1}
      /\ \A a \in Adders : AddCallOK(ad[a])
      /\ UpdateCallOK
  BY DEF Typed, TypeOK
<1>1. ASSUME NEW i \in Ids, NEW d \in Doc \cup {Torn}, files' = [files EXCEPT ![i] = d]
      PROVE  files' \in [Ids -> Doc \cup {Missing, Torn}]
  BY <1>0, <1>1
<1>2. ASSUME NEW a \in Adders, AdderStep(a) \/ \E i \in Ids : AddCheck(a, i)
      PROVE  files' \in [Ids -> Doc \cup {Missing, Torn}] /\ maxId' \in Ids \cup {-1}
  <2>1. CASE AddOpen(a)
    <3>1. ad[a].id \in Ids /\ files' = [files EXCEPT ![ad[a].id] = Torn] /\ maxId' = maxId
      BY <1>0, <2>1 DEF AddOpen, AddCallOK
    <3> QED
      BY <1>0, <1>1, <3>1
  <2>2. CASE AddWrite(a)
    <3>1. /\ ad[a].id \in Ids /\ ad[a].doc \in Doc
          /\ files' = [files EXCEPT ![ad[a].id] = ad[a].doc]
          /\ maxId' = maxId \/ maxId' = ad[a].id
      BY <1>0, <2>2 DEF AddWrite, AddCallOK
    <3> QED
      BY <1>0, <1>1, <3>1
  <2>3. CASE UNCHANGED <<files, maxId>>
    BY <1>0, <2>3
  <2> QED
    BY <1>2, <2>1, <2>2, <2>3 DEF AdderStep, AddCheck, AddCrawl, AddMark
<1>3. ASSUME UpdateStep \/ \E last \in 0..MaxId : UpdateStart(last)
      PROVE  files' \in [Ids -> Doc \cup {Missing, Torn}] /\ maxId' \in Ids \cup {-1}
  <2>1. CASE UpdateOpen
    <3>1. up.cur \in Ids /\ files' = [files EXCEPT ![up.cur] = Torn] /\ maxId' = maxId
      BY <1>0, <2>1 DEF UpdateOpen, UpdateCallOK
    <3> QED
      BY <1>0, <1>1, <3>1
  <2>2. CASE UpdateWrite
    <3>1. /\ up.cur \in Ids /\ up.doc \in Doc
          /\ files' = [files EXCEPT ![up.cur] = up.doc]
          /\ maxId' = maxId \/ maxId' = up.cur
      BY <1>0, <2>2 DEF UpdateWrite, UpdateCallOK
    <3> QED
      BY <1>0, <1>1, <3>1
  <2>3. CASE UNCHANGED <<files, maxId>>
    BY <1>0, <2>3
  <2> QED
    BY <1>3, <2>1, <2>2, <2>3 DEF UpdateStep, UpdateStart, UpdateWalk, UpdateCrawl
<1>4. ASSUME NEW r \in Readers, ReaderStep(r) \/ Ask(r) PROVE UNCHANGED <<files, maxId>>
  BY <1>4 DEF ReaderStep, Ask, Get, WakeUp, OldestStep, SearchStep, ReaderGoesTo, AskById,
              AskNewest, AskOldest, AskByUrl, Begin
<1>5. CASE WebChanges \/ NotifyStop \/ UNCHANGED vars
  BY <1>0, <1>5 DEF WebChanges, NotifyStop
<1>6. CASE Restart
  <2>1. PICK m \in Ids \cup {-1} : maxId' = m
    BY <1>6 DEF Restart
  <2> QED
    BY <1>0, <1>6, <2>1 DEF Restart
<1> QED
  BY <1>0, <1>2, <1>3, <1>4, <1>5, <1>6 DEF Next

LEMMA OthersTyped ==
  ASSUME Typed, [Next]_vars
  PROVE  /\ updated' \in BOOLEAN /\ stop' \in BOOLEAN /\ web' \in 1..MaxVer
         /\ crashes' \in 0..MaxCrashes
<1>0. /\ updated \in BOOLEAN /\ stop \in BOOLEAN /\ web \in 1..MaxVer
      /\ crashes \in 0..MaxCrashes
  BY DEF Typed, TypeOK
<1>1. CASE WebChanges
  BY <1>0, <1>1, MaxVerAssumption DEF WebChanges
<1>2. CASE Restart
  <2>1. crashes + 1 \in 0..MaxCrashes
    BY <1>0, <1>2, MaxCrashesAssumption DEF Restart
  <2> QED
    BY <1>0, <1>2, <2>1 DEF Restart
<1>3. CASE NotifyStop
  BY <1>0, <1>3 DEF NotifyStop
<1>4. CASE UNCHANGED vars
  BY <1>0, <1>4
<1>5. CASE UpdateStep \/ \E last \in 0..MaxId : UpdateStart(last)
  BY <1>0, <1>5 DEF UpdateStep, UpdateStart, UpdateWalk, UpdateCrawl, UpdateOpen, UpdateWrite
<1>6. ASSUME NEW r \in Readers, ReaderStep(r) \/ Ask(r)
      PROVE  UNCHANGED <<updated, stop, web, crashes>>
  BY <1>6 DEF ReaderStep, Ask, Get, WakeUp, OldestStep, SearchStep, ReaderGoesTo, AskById,
              AskNewest, AskOldest, AskByUrl, Begin
<1>7. ASSUME NEW a \in Adders, AdderStep(a) \/ \E i \in Ids : AddCheck(a, i)
      PROVE  updated' \in BOOLEAN /\ UNCHANGED <<stop, web, crashes>>
  BY <1>0, <1>7 DEF AdderStep, AddCheck, AddCrawl, AddOpen, AddWrite, AddMark
<1> QED
  BY <1>0, <1>1, <1>2, <1>3, <1>4, <1>5, <1>6, <1>7 DEF Next

\* Which calls a step touches.
LEMMA CallsTouched ==
  ASSUME [Next]_vars
  PROVE  /\ \/ \E a \in Adders : AdderStep(a) \/ \E i \in Ids : AddCheck(a, i)
            \/ Restart
            \/ UNCHANGED ad
         /\ \/ UpdateStep \/ \E last \in 0..MaxId : UpdateStart(last)
            \/ Restart
            \/ UNCHANGED up
         /\ \/ \E r \in Readers : ReaderStep(r) \/ Ask(r)
            \/ Restart
            \/ UNCHANGED rd
<1>1. ASSUME NEW a \in Adders, AdderStep(a) \/ \E i \in Ids : AddCheck(a, i)
      PROVE  UNCHANGED <<up, rd>>
  BY <1>1 DEF AdderStep, AddCheck, AddCrawl, AddOpen, AddWrite, AddMark
<1>2. ASSUME UpdateStep \/ \E last \in 0..MaxId : UpdateStart(last)
      PROVE  UNCHANGED <<ad, rd>>
  BY <1>2 DEF UpdateStep, UpdateStart, UpdateWalk, UpdateCrawl, UpdateOpen, UpdateWrite
<1>3. ASSUME NEW r \in Readers, ReaderStep(r) \/ Ask(r)
      PROVE  UNCHANGED <<ad, up>>
  BY <1>3 DEF ReaderStep, Ask, Get, WakeUp, OldestStep, SearchStep, ReaderGoesTo, AskById,
              AskNewest, AskOldest, AskByUrl, Begin
<1>4. ASSUME WebChanges \/ NotifyStop \/ UNCHANGED vars PROVE UNCHANGED <<ad, up, rd>>
  BY <1>4 DEF WebChanges, NotifyStop
<1> QED
  BY <1>1, <1>2, <1>3, <1>4 DEF Next

LEMMA HistoryStepTyped ==
  ASSUME Typed, [Next]_vars
  PROVE  HistoryTyped'
<1>0. HistoryTyped /\ web \in 0..MaxVer /\ 0 \in 0..MaxVer
  BY MaxVerAssumption DEF Typed, TypeOK, HistoryTyped
<1>1. ASSUME NEW a \in Adders, AdderStep(a) \/ \E i \in Ids : AddCheck(a, i)
      PROVE  HistoryTyped'
  <2>1. ASSUME NEW i \in Ids, AddCheck(a, i) PROVE HistoryTyped'
    <3>1. /\ UNCHANGED <<raced, upSince, upRaced>>
          /\ since' = [since EXCEPT ![a] = IF IsFile(i) THEN 0 ELSE web]
      BY <2>1 DEF AddCheck
    <3> QED
      BY <1>0, <3>1 DEF HistoryTyped
  <2>2. CASE AddOpen(a)
    <3>1. /\ since' = [since EXCEPT ![a] = 0] /\ upSince' = upSince
          /\ raced' = (raced \cup Overtaken(ad[a].id)) \ {a}
          /\ upRaced' = (upRaced \/ (Pending(up) /\ up.cur = ad[a].id))
      BY <2>2 DEF AddOpen
    <3>2. since' \in [Adders -> 0..MaxVer] /\ upSince' \in 0..MaxVer
      BY <1>0, <3>1 DEF HistoryTyped
    <3>3. raced' \subseteq Adders /\ upRaced' \in BOOLEAN
      BY <1>0, <3>1 DEF HistoryTyped, Overtaken
    <3> QED
      BY <3>2, <3>3 DEF HistoryTyped
  <2>3. CASE AddCrawl(a) \/ AddWrite(a) \/ AddMark(a)
    <3>1. UNCHANGED history
      BY <2>3 DEF AddCrawl, AddWrite, AddMark
    <3> QED
      BY <1>0, <3>1 DEF HistoryTyped
  <2> QED
    BY <1>1, <2>1, <2>2, <2>3 DEF AdderStep
<1>2. CASE UpdateWalk
  <2>1. upSince' = (IF up'.pc = "crawl" THEN web ELSE 0) /\ UNCHANGED <<since, raced, upRaced>>
    BY <1>2 DEF UpdateWalk
  <2> QED
    BY <1>0, <2>1 DEF HistoryTyped
<1>3. CASE UpdateOpen
  BY <1>0, <1>3 DEF UpdateOpen, HistoryTyped, Overtaken
<1>4. ASSUME \/ UpdateCrawl \/ UpdateWrite \/ \E last \in 0..MaxId : UpdateStart(last)
             \/ WebChanges \/ NotifyStop \/ UNCHANGED vars
      PROVE  UNCHANGED history
  BY <1>4 DEF UpdateCrawl, UpdateWrite, UpdateStart, WebChanges, NotifyStop
<1>5. ASSUME NEW r \in Readers, ReaderStep(r) \/ Ask(r) PROVE UNCHANGED history
  BY <1>5 DEF ReaderStep, Ask, Get, WakeUp, OldestStep, SearchStep, ReaderGoesTo, AskById,
              AskNewest, AskOldest, AskByUrl, Begin
<1>6. CASE Restart
  BY <1>0, <1>6 DEF Restart, HistoryTyped
<1>7. CASE UNCHANGED history
  BY <1>0, <1>7 DEF HistoryTyped
<1> QED
  BY <1>1, <1>2, <1>3, <1>4, <1>5, <1>6, <1>7 DEF Next, UpdateStep

LEMMA NextTyped == Typed /\ [Next]_vars => Typed'
<1> SUFFICES ASSUME Typed, [Next]_vars PROVE Typed'
  OBVIOUS
<1>0. AdderTyped /\ UpdateTyped /\ ReaderTyped
  BY DEF Typed, TypeOK, AdderTyped, UpdateTyped, ReaderTyped
<1>1. CASE Restart
  <2>1. AdderTyped' /\ UpdateTyped' /\ ReaderTyped'
    BY <1>1, IdleTyped DEF Restart, AdderTyped, UpdateTyped, UpdateCallOK, ReaderTyped
  <2> QED
    BY <2>1, FilesTyped, OthersTyped, HistoryStepTyped
    DEF Typed, TypeOK, AdderTyped, UpdateTyped, ReaderTyped, HistoryTyped
<1>2. CASE ~Restart
  <2>1. AdderTyped'
    BY <1>0, <1>2, CallsTouched, AdderStepTyped DEF AdderTyped
  <2>2. UpdateTyped'
    BY <1>0, <1>2, CallsTouched, UpdateStepTyped DEF UpdateTyped, UpdateCallOK
  <2>3. ReaderTyped'
    BY <1>0, <1>2, CallsTouched, ReaderStepTyped DEF ReaderTyped
  <2> QED
    BY <2>1, <2>2, <2>3, FilesTyped, OthersTyped, HistoryStepTyped
    DEF Typed, TypeOK, AdderTyped, UpdateTyped, ReaderTyped, HistoryTyped
<1> QED
  BY <1>1, <1>2

\* Every field of the storage and of the calls keeps its type.
THEOREM TypeCorrect == Spec => []TypeOK
<1>1. Typed => TypeOK
  BY DEF Typed
<1> QED
  BY InitTyped, NextTyped, <1>1, PTL DEF Spec

-----------------------------------------------------------------------------
\* The lock.  Whoever writes is alone, and the file is empty meanwhile; so what an
\* adder or the update thread does not write is complete, or was left by a crash.
Writing(c) == c.pc = "writing"

Written(i) == \/ Writing(up) /\ up.cur = i
              \/ \E a \in Adders : Writing(ad[a]) /\ ad[a].id = i

OneWriter ==
  /\ \A a, b \in Adders : Writing(ad[a]) /\ Writing(ad[b]) => a = b
  /\ \A a \in Adders : ~ (Writing(ad[a]) /\ Writing(up))

WrittenIsTorn ==
  /\ \A a \in Adders : Writing(ad[a]) => files[ad[a].id] = Torn
  /\ Writing(up) => files[up.cur] = Torn

TornIsWritten == \A i \in Ids : files[i] = Torn => crashes > 0 \/ Written(i)

\* max_id is a file, and the newest one apart from a new one being written.
MaxIdInv ==
  /\ maxId \in Ids => IsFile(maxId)
  /\ \A i \in Ids : IsFile(i) => i <= maxId \/ Written(i)

FilesInv == OneWriter /\ WrittenIsTorn /\ TornIsWritten /\ MaxIdInv

\* A step that touches neither the files nor the lock.
Quiet ==
  /\ files' = files /\ maxId' = maxId /\ crashes' = crashes
  /\ \A a \in Adders : /\ Writing(ad'[a]) <=> Writing(ad[a])
                       /\ Writing(ad[a]) => ad'[a].id = ad[a].id
  /\ Writing(up') <=> Writing(up)
  /\ Writing(up) => up'.cur = up.cur

LEMMA StepKinds ==
  ASSUME Typed, [Next]_vars
  PROVE  \/ Quiet \/ UpdateOpen \/ UpdateWrite \/ Restart
         \/ \E a \in Adders : AddOpen(a) \/ AddWrite(a)
<1>0. ad \in [Adders -> AddCalls] /\ up \in UpdateCalls
  BY DEF Typed, TypeOK
<1>1. ASSUME NEW a \in Adders, NEW c, ad' = [ad EXCEPT ![a] = c], ~Writing(ad[a]), ~Writing(c),
             UNCHANGED <<files, maxId, crashes, up>>
      PROVE  Quiet
  BY <1>0, <1>1 DEF Quiet
<1>2. ASSUME NEW a \in Adders, AdderStep(a) \/ \E i \in Ids : AddCheck(a, i)
      PROVE  Quiet \/ AddOpen(a) \/ AddWrite(a)
  <2>1. CASE \E i \in Ids : AddCheck(a, i)
    <3> PICK i \in Ids : AddCheck(a, i)
      BY <2>1
    <3> DEFINE c == [NoAdd EXCEPT !.pc = IF IsFile(i) THEN "refused" ELSE "crawl",
                                  !.id = IF IsFile(i) THEN -1 ELSE i]
    <3>1. ~Writing(c) /\ ~Writing(ad[a]) /\ ad' = [ad EXCEPT ![a] = c]
      BY DEF AddCheck, NoAdd, Writing
    <3>2. UNCHANGED <<files, maxId, crashes, up>>
      BY DEF AddCheck
    <3> HIDE DEF c
    <3> QED
      BY <1>1, <3>1, <3>2
  <2>2. CASE AddCrawl(a)
    <3> PICK d \in Crawled : ad' = [ad EXCEPT ![a] = [ad[a] EXCEPT !.pc = "dump", !.doc = d]]
      BY <2>2 DEF AddCrawl
    <3>1. ad[a] \in AddCalls /\ ~Writing(ad[a])
      BY <1>0, <2>2 DEF AddCrawl, Writing
    <3> DEFINE c == [ad[a] EXCEPT !.pc = "dump", !.doc = d]
    <3>2. ~Writing(c)
      BY <3>1 DEF Writing, AddCalls
    <3>3. UNCHANGED <<files, maxId, crashes, up>>
      BY <2>2 DEF AddCrawl
    <3> QED
      BY <1>1, <3>1, <3>2, <3>3
  <2>3. CASE AddMark(a)
    <3> DEFINE c == [NoAdd EXCEPT !.pc = "added"]
    <3>1. ~Writing(c) /\ ~Writing(ad[a]) /\ ad' = [ad EXCEPT ![a] = c]
      BY <2>3 DEF AddMark, NoAdd, Writing
    <3>2. UNCHANGED <<files, maxId, crashes, up>>
      BY <2>3 DEF AddMark
    <3> HIDE DEF c
    <3> QED
      BY <1>1, <3>1, <3>2
  <2> QED
    BY <1>2, <2>1, <2>2, <2>3 DEF AdderStep
<1>3. ASSUME NEW last \in 0..MaxId, UpdateStart(last) PROVE Quiet
  <2>1. ~Writing(up) /\ ~Writing(up') /\ UNCHANGED <<files, maxId, crashes, ad>>
    BY <1>3 DEF UpdateStart, NoUpdate, Writing
  <2> QED
    BY <2>1 DEF Quiet
<1>4. CASE UpdateWalk
  <2>1. up'.pc \in {"end", "walk", "dead", "crawl"}
    BY <1>0, <1>4 DEF UpdateWalk, UpdateCalls, NoUpdate
  <2>2. ~Writing(up) /\ ~Writing(up') /\ UNCHANGED <<files, maxId, crashes, ad>>
    BY <1>4, <2>1 DEF UpdateWalk, Writing
  <2> QED
    BY <2>2 DEF Quiet
<1>5. CASE UpdateCrawl
  <2>1. up'.pc = "dump"
    BY <1>0, <1>5 DEF UpdateCrawl, UpdateCalls
  <2>2. ~Writing(up) /\ ~Writing(up') /\ UNCHANGED <<files, maxId, crashes, ad>>
    BY <1>5, <2>1 DEF UpdateCrawl, Writing
  <2> QED
    BY <2>2 DEF Quiet
<1>6. ASSUME NEW r \in Readers, ReaderStep(r) \/ Ask(r)
      PROVE  UNCHANGED <<files, maxId, crashes, ad, up>>
  BY <1>6 DEF ReaderStep, Ask, Get, WakeUp, OldestStep, SearchStep, ReaderGoesTo, AskById,
              AskNewest, AskOldest, AskByUrl, Begin
<1>7. ASSUME WebChanges \/ NotifyStop \/ UNCHANGED vars
      PROVE  UNCHANGED <<files, maxId, crashes, ad, up>>
  BY <1>7 DEF WebChanges, NotifyStop
<1>8. ASSUME UNCHANGED <<files, maxId, crashes, ad, up>> PROVE Quiet
  BY <1>8 DEF Quiet
<1> QED
  BY <1>2, <1>3, <1>4, <1>5, <1>6, <1>7, <1>8 DEF Next, UpdateStep

LEMMA InitFiles == Init => FilesInv
<1> SUFFICES ASSUME Init PROVE FilesInv
  OBVIOUS
<1>1. /\ \A i \in Ids : files[i] = Missing
      /\ \A a \in Adders : ~Writing(ad[a])
      /\ ~Writing(up) /\ maxId \notin Ids
  BY IdsAreIntegers DEF Init, Writing, NoAdd, NoUpdate
<1> QED
  BY <1>1, FileKinds DEF FilesInv, OneWriter, WrittenIsTorn, TornIsWritten, MaxIdInv, IsFile

\* Somebody opens a file for writing.
LEMMA OpenInv ==
  ASSUME Typed, FilesInv, LockFree, NEW k \in Ids,
         files' = [files EXCEPT ![k] = Torn], maxId' = maxId, crashes' = crashes, Written(k)',
         OneWriter', \A a \in Adders : Writing(ad[a])' => ad'[a].id = k,
         Writing(up)' => up'.cur = k
  PROVE  FilesInv'
<1>0. files \in [Ids -> Doc \cup {Missing, Torn}] /\ maxId \in Ids \cup {-1}
  BY DEF Typed, TypeOK
<1>1. \A i \in Ids : ~Written(i)
  BY DEF LockFree, Written, Writing
<1>2. files'[k] = Torn /\ \A i \in Ids : i # k => files'[i] = files[i]
  BY <1>0
<1>3. WrittenIsTorn'
  BY <1>2 DEF WrittenIsTorn
<1>4. TornIsWritten'
  <2> SUFFICES ASSUME NEW i \in Ids, files'[i] = Torn, i # k PROVE crashes' > 0
    BY DEF TornIsWritten
  <2>2. crashes > 0
    BY <1>1, <1>2 DEF FilesInv, TornIsWritten
  <2> QED
    BY <2>2
<1>5. MaxIdInv'
  BY <1>1, <1>2, FileKinds DEF MaxIdInv, FilesInv, IsFile
<1> QED
  BY <1>3, <1>4, <1>5 DEF FilesInv

\* The writer of document k writes it and releases the lock.
LEMMA WriteInv ==
  ASSUME Typed, FilesInv, NEW k \in Ids, NEW d \in Doc,
         files' = [files EXCEPT ![k] = d], maxId' = IF k > maxId THEN k ELSE maxId,
         crashes' = crashes, \A i \in Ids : Written(i) => i = k,
         \A a \in Adders : ~Writing(ad[a])', ~Writing(up)'
  PROVE  FilesInv'
<1>0. files \in [Ids -> Doc \cup {Missing, Torn}] /\ maxId \in Ids \cup {-1}
  BY DEF Typed, TypeOK
<1>1. files'[k] = d /\ \A i \in Ids : i # k => files'[i] = files[i]
  BY <1>0
<1>2. \A i \in Ids : ~Written(i)'
  BY DEF Written
<1>3. OneWriter' /\ WrittenIsTorn'
  BY DEF OneWriter, WrittenIsTorn
<1>4. TornIsWritten'
  BY <1>1, FileKinds DEF TornIsWritten, FilesInv
<1>5. MaxIdInv'
  <2>1. k \in Int /\ maxId \in Int /\ maxId' \in Int /\ k <= maxId' /\ maxId <= maxId'
        /\ (maxId' = k \/ maxId' = maxId)
    BY <1>0, MaxIdAssumption DEF Ids
  <2>2. ASSUME maxId' \in Ids PROVE files'[maxId'] # Missing
    <3>1. CASE maxId' = k
      BY <1>1, <3>1, FileKinds
    <3>2. CASE maxId' = maxId /\ maxId # k
      <4>1. files[maxId] # Missing
        BY <2>2, <3>2 DEF IsFile, FilesInv, MaxIdInv
      <4>2. files'[maxId] = files[maxId]
        BY <1>1, <2>2, <3>2
      <4> QED
        BY <3>2, <4>1, <4>2
    <3> QED
      BY <2>1, <3>1, <3>2
  <2>3. ASSUME NEW i \in Ids, files'[i] # Missing PROVE i <= maxId'
    <3>1. CASE i = k
      BY <2>1, <3>1
    <3>2. CASE i # k
      <4>1. i <= maxId
        BY <1>1, <2>3, <3>2 DEF IsFile, FilesInv, MaxIdInv
      <4>2. i \in Int
        BY IdsAreIntegers
      <4> QED
        BY <2>1, <4>1, <4>2
    <3> QED
      BY <3>1, <3>2
  <2> QED
    BY <2>2, <2>3 DEF MaxIdInv, IsFile
<1> QED
  BY <1>3, <1>4, <1>5 DEF FilesInv

\* With one writer, Written is about one document.
LEMMA OnlyOneWritten ==
  ASSUME OneWriter
  PROVE  /\ \A a \in Adders, i \in Ids : Writing(ad[a]) /\ Written(i) => i = ad[a].id
         /\ \A i \in Ids : Writing(up) /\ Written(i) => i = up.cur
BY DEF OneWriter, Written

LEMMA QuietInv ==
  ASSUME FilesInv, Quiet
  PROVE  FilesInv'
<1>1. \A i \in Ids : Written(i)' <=> Written(i)
  BY DEF Quiet, Written
<1>2. OneWriter' /\ WrittenIsTorn'
  BY DEF Quiet, FilesInv, OneWriter, WrittenIsTorn
<1>3. TornIsWritten' /\ MaxIdInv'
  BY <1>1 DEF Quiet, FilesInv, TornIsWritten, MaxIdInv, IsFile
<1> QED
  BY <1>2, <1>3 DEF FilesInv

LEMMA NextFiles == Typed /\ FilesInv /\ [Next]_vars => FilesInv'
<1> SUFFICES ASSUME Typed, FilesInv, [Next]_vars PROVE FilesInv'
  OBVIOUS
<1>0. /\ ad \in [Adders -> AddCalls] /\ up \in UpdateCalls
      /\ \A a \in Adders : AddCallOK(ad[a])
      /\ UpdateCallOK
  BY DEF Typed, TypeOK
<1>1. ASSUME NEW a \in Adders, AddOpen(a) PROVE FilesInv'
  <2>1. LockFree /\ ad[a].id \in Ids /\ files' = [files EXCEPT ![ad[a].id] = Torn]
        /\ maxId' = maxId /\ crashes' = crashes /\ up' = up
        /\ ad' = [ad EXCEPT ![a] = [ad[a] EXCEPT !.pc = "writing"]]
    BY <1>0, <1>1 DEF AddOpen, AddCallOK
  <2>2. ad'[a].id = ad[a].id /\ Writing(ad'[a])
        /\ \A b \in Adders : b # a => ad'[b] = ad[b]
    BY <1>0, <2>1 DEF AddCalls, Writing
  <2>3. ~Writing(up') /\ \A b \in Adders : Writing(ad'[b]) => b = a
    BY <2>1, <2>2 DEF LockFree, Writing
  <2>4. OneWriter' /\ Written(ad[a].id)'
    BY <2>2, <2>3 DEF OneWriter, Written
  <2> QED
    BY <2>1, <2>2, <2>3, <2>4, OpenInv
<1>2. ASSUME NEW a \in Adders, AddWrite(a) PROVE FilesInv'
  <2>1. Writing(ad[a]) /\ ad[a].id \in Ids /\ ad[a].doc \in Doc
        /\ files' = [files EXCEPT ![ad[a].id] = ad[a].doc]
        /\ maxId' = (IF ad[a].id > maxId THEN ad[a].id ELSE maxId)
        /\ crashes' = crashes /\ up' = up
        /\ ad' = [ad EXCEPT ![a] = [ad[a] EXCEPT !.pc = "mark"]]
    BY <1>0, <1>2 DEF AddWrite, AddCallOK, Writing
  <2>2. ~Writing(ad'[a]) /\ \A b \in Adders : b # a => ad'[b] = ad[b]
    BY <1>0, <2>1 DEF AddCalls, Writing
  <2>3. OneWriter
    BY DEF FilesInv
  <2>4. ~Writing(up') /\ \A b \in Adders : ~Writing(ad'[b])
    BY <2>1, <2>2, <2>3 DEF OneWriter
  <2>5. \A i \in Ids : Written(i) => i = ad[a].id
    BY <2>1, <2>3, OnlyOneWritten
  <2> QED
    BY <2>1, <2>4, <2>5, WriteInv
<1>3. CASE UpdateOpen
  <2>1. LockFree /\ up.cur \in Ids /\ files' = [files EXCEPT ![up.cur] = Torn]
        /\ maxId' = maxId /\ crashes' = crashes /\ ad' = ad
        /\ up' = [up EXCEPT !.pc = "writing"]
    BY <1>0, <1>3 DEF UpdateOpen, UpdateCallOK
  <2>2. up'.cur = up.cur /\ Writing(up')
    BY <1>0, <2>1 DEF UpdateCalls, Writing
  <2>3. \A b \in Adders : ~Writing(ad'[b])
    BY <2>1 DEF LockFree, Writing
  <2>4. OneWriter' /\ Written(up.cur)'
    BY <2>2, <2>3 DEF OneWriter, Written
  <2> QED
    BY <2>1, <2>2, <2>3, <2>4, OpenInv
<1>4. CASE UpdateWrite
  <2>1. Writing(up) /\ up.cur \in Ids /\ up.doc \in Doc
        /\ files' = [files EXCEPT ![up.cur] = up.doc]
        /\ maxId' = (IF up.cur > maxId THEN up.cur ELSE maxId)
        /\ crashes' = crashes /\ ad' = ad
    BY <1>0, <1>4 DEF UpdateWrite, UpdateCallOK, Writing
  <2>2. up'.pc = "walk"
    BY <1>0, <1>4 DEF UpdateWrite, UpdateCalls
  <2>3. OneWriter
    BY DEF FilesInv
  <2>4. ~Writing(up') /\ \A b \in Adders : ~Writing(ad'[b])
    BY <2>1, <2>2, <2>3 DEF OneWriter, Writing
  <2>5. \A i \in Ids : Written(i) => i = up.cur
    BY <2>1, <2>3, OnlyOneWritten
  <2> QED
    BY <2>1, <2>4, <2>5, WriteInv
<1>5. CASE Restart
  <2>1. /\ files' = files /\ crashes' = crashes + 1 /\ crashes \in Nat
        /\ \A a \in Adders : ad'[a] = NoAdd
        /\ up' = NoUpdate
    BY <1>5, MaxCrashesAssumption DEF Restart, Typed, TypeOK
  <2>2. ~Writing(up') /\ \A a \in Adders : ~Writing(ad'[a])
    BY <2>1 DEF Writing, NoAdd, NoUpdate
  <2>3. PICK m \in Ids \cup {-1} : IsNewest(m) /\ maxId' = m
    BY <1>5 DEF Restart
  <2>4. OneWriter' /\ WrittenIsTorn' /\ MaxIdInv'
    BY <2>1, <2>2, <2>3 DEF OneWriter, WrittenIsTorn, MaxIdInv, IsNewest, IsFile
  <2>5. TornIsWritten'
    BY <2>1 DEF TornIsWritten
  <2> QED
    BY <2>4, <2>5 DEF FilesInv
<1>6. CASE Quiet
  BY <1>6, QuietInv
<1> QED
  BY <1>1, <1>2, <1>3, <1>4, <1>5, <1>6, StepKinds
-----------------------------------------------------------------------------
\* Queries.  Files are never removed, so what a query has learnt stays true.
There == {i \in Ids : IsFile(i)}

LEMMA FilesStay ==
  ASSUME Typed, [Next]_vars
  PROVE  There \subseteq There'
<1>0. /\ files \in [Ids -> Doc \cup {Missing, Torn}]
      /\ \A a \in Adders : AddCallOK(ad[a])
      /\ UpdateCallOK
  BY DEF Typed, TypeOK
<1>1. ASSUME NEW i \in Ids, NEW d \in Doc \cup {Torn}, files' = [files EXCEPT ![i] = d]
      PROVE  There \subseteq There'
  BY <1>0, <1>1, FileKinds DEF There, IsFile
<1>2. ASSUME NEW a \in Adders, AddOpen(a) \/ AddWrite(a) PROVE There \subseteq There'
  BY <1>0, <1>1, <1>2 DEF AddOpen, AddWrite, AddCallOK
<1>3. ASSUME UpdateOpen \/ UpdateWrite PROVE There \subseteq There'
  BY <1>0, <1>1, <1>3 DEF UpdateOpen, UpdateWrite, UpdateCallOK
<1>4. ASSUME Quiet \/ Restart PROVE There \subseteq There'
  <2>1. files' = files
    BY <1>4 DEF Quiet, Restart
  <2> QED
    BY <2>1 DEF There, IsFile
<1> QED
  BY <1>2, <1>3, <1>4, StepKinds

\* What a query knows while the files F are there.
NewestOK(q, F) ==
  q.op = "newest" => /\ q.pc \in {"get", "done", "failed"}
                     /\ q.pc = "get" => q.cur \in F

OldestOK(q, F) ==
  /\ q.pc = "down" => q.op = "oldest"
  /\ q.op = "oldest" =>
       /\ q.pc \in {"down", "done", "failed"}
       /\ q.pc = "down" => /\ q.top \in F \cup {-1}
                           /\ \A i \in Ids : q.cur < i /\ i <= q.top => i \in F

UrlOK(q, F) ==
  /\ q.pc = "search" => q.op = "url"
  /\ q.op = "url" =>
       /\ q.pc \in {"search", "done", "failed"}
       /\ q.pc = "search" /\ q.had /\ UrlsInOrder =>
            \E i \in F : Num[i] = q.arg /\ i <= q.cur
       /\ q.pc = "done" =>
            IF q.res = -1 THEN UrlsInOrder => ~q.had ELSE Num[q.res] = q.arg

QueryKnows(q, F) == NewestOK(q, F) /\ OldestOK(q, F) /\ UrlOK(q, F)

QueriesInv == \A r \in Readers : QueryKnows(rd[r], There)

LEMMA KnowledgeStays ==
  ASSUME NEW q \in Queries, NEW F, NEW G, F \subseteq G, QueryKnows(q, F)
  PROVE  QueryKnows(q, G)
<1>1. NewestOK(q, G)
  BY DEF QueryKnows, NewestOK
<1>2. OldestOK(q, G)
  BY DEF QueryKnows, OldestOK
<1>3. UrlOK(q, G)
  BY DEF QueryKnows, UrlOK
<1> QED
  BY <1>1, <1>2, <1>3 DEF QueryKnows

\* A query of another kind knows nothing.
LEMMA IdKnows ==
  ASSUME NEW q \in Queries, NEW F, q.op \in {"none", "id"}, q.pc \notin {"down", "search"}
  PROVE  QueryKnows(q, F)
BY DEF QueryKnows, NewestOK, OldestOK, UrlOK

\* A query that has failed knows nothing either.
LEMMA FailedKnows ==
  ASSUME NEW q \in Queries, NEW F, q.pc = "failed"
  PROVE  QueryKnows(q, F)
BY DEF QueryKnows, NewestOK, OldestOK, UrlOK

LEMMA GetKnows ==
  ASSUME Typed, QueriesInv, NEW r \in Readers, Get(r) \/ WakeUp(r)
  PROVE  \E q \in Queries : rd' = [rd EXCEPT ![r] = q] /\ QueryKnows(q, There)
<1> DEFINE q == rd[r]
<1>0. q \in Queries /\ QueryOK(q) /\ QueryKnows(q, There)
  BY DEF Typed, TypeOK, QueriesInv
<1>1. q.op \in {"id", "newest", "none"} /\ q.cur \in Ids
  BY <1>0 DEF Get, WakeUp, QueryKnows, NewestOK, OldestOK, UrlOK, Queries, QueryOK
<1>2. ASSUME NEW pc \in {"done", "wait"}, q.op = "newest" => pc = "done"
      PROVE  [q EXCEPT !.pc = pc] \in Queries /\ QueryKnows([q EXCEPT !.pc = pc], There)
  BY <1>0, <1>1, <1>2 DEF Queries, QueryKnows, NewestOK, OldestOK, UrlOK
<1>3. Loaded(q, q.cur) \in Queries /\ QueryKnows(Loaded(q, q.cur), There)
  <2>1. Loaded(q, q.cur) \in Queries /\ Loaded(q, q.cur).pc \in {"done", "failed"}
        /\ Loaded(q, q.cur).op \in {"id", "newest", "none"}
    BY <1>0, <1>1 DEF Loaded, Queries
  <2> QED
    BY <2>1 DEF QueryKnows, NewestOK, OldestOK, UrlOK
<1>4. CASE Get(r)
  <2>1. q.op = "newest" => IsFile(q.cur)
    BY <1>0, <1>4 DEF Get, QueryKnows, NewestOK, There
  <2>2. \/ rd' = [rd EXCEPT ![r] = Loaded(q, q.cur)]
        \/ ~IsFile(q.cur) /\ rd' = [rd EXCEPT ![r] = [q EXCEPT !.pc = "wait"]]
    BY <1>4 DEF Get, ReaderGoesTo
  <2> HIDE DEF q
  <2> QED
    BY <1>2, <1>3, <2>1, <2>2
<1>5. CASE WakeUp(r)
  <2>1. q.op # "newest"
    BY <1>0, <1>5 DEF WakeUp, QueryKnows, NewestOK
  <2>2. rd' = [rd EXCEPT ![r] = Loaded(q, q.cur)]
        \/ rd' = [rd EXCEPT ![r] = [q EXCEPT !.pc = "done"]]
    BY <1>5 DEF WakeUp, ReaderGoesTo
  <2> HIDE DEF q
  <2> QED
    BY <1>2, <1>3, <2>1, <2>2
<1> QED
  BY <1>4, <1>5

LEMMA OldestKnows ==
  ASSUME Typed, QueriesInv, NEW r \in Readers, OldestStep(r)
  PROVE  \E q \in Queries : rd' = [rd EXCEPT ![r] = q] /\ QueryKnows(q, There)
<1> DEFINE q == rd[r]
           i == q.cur
<1>0. q \in Queries /\ QueryOK(q) /\ QueryKnows(q, There)
  BY DEF Typed, TypeOK, QueriesInv
<1>1. /\ q.pc = "down" /\ q.op = "oldest" /\ i <= q.top
      /\ q.top \in There \cup {-1}
      /\ \A j \in Ids : i < j /\ j <= q.top => j \in There
  BY <1>0 DEF OldestStep, QueryKnows, OldestOK, QueryOK
<1>2. i \in Ids \cup {-1} /\ i \in Int /\ q.top \in Int /\ q.top \in Ids \cup {-1}
      /\ \A j \in Ids : j \in Int /\ j >= 0
  BY <1>0, MaxIdAssumption DEF Queries, Ids
<1>3. CASE i < 0 /\ rd' = [rd EXCEPT ![r] = [q EXCEPT !.pc = "done"]]
  <2>1. \A j \in Ids : j <= q.top => j \in There
    BY <1>1, <1>2, <1>3
  <2>2. [q EXCEPT !.pc = "done"] \in Queries /\ QueryKnows([q EXCEPT !.pc = "done"], There)
    BY <1>0, <1>1, <2>1 DEF Queries, QueryKnows, NewestOK, OldestOK, UrlOK
  <2> QED
    BY <1>3, <2>2
<1>4. CASE ~(i < 0) /\ IsFile(i) /\ rd' = [rd EXCEPT ![r] = [q EXCEPT !.cur = i - 1]]
  <2>0. i \in Ids /\ i \in There /\ i - 1 \in Ids \cup {-1}
    BY <1>2, <1>4, MaxIdAssumption DEF There, Ids
  <2>1. \A j \in Ids : i - 1 < j /\ j <= q.top => j \in There
    <3> SUFFICES ASSUME NEW j \in Ids, i - 1 < j, j <= q.top PROVE j \in There
      OBVIOUS
    <3>1. j = i \/ i < j
      BY <1>2
    <3> QED
      BY <1>1, <2>0, <3>1
  <2>2. [q EXCEPT !.cur = i - 1] \in Queries
    BY <1>0, <2>0 DEF Queries
  <2>3. QueryKnows([q EXCEPT !.cur = i - 1], There)
    BY <1>0, <1>1, <2>1 DEF Queries, QueryKnows, NewestOK, OldestOK, UrlOK
  <2> QED
    BY <1>4, <2>2, <2>3
<1>5. ~(~(i < 0) /\ ~IsFile(i) /\ i = q.top)
  BY <1>1, <1>2 DEF There
<1>6. CASE ~(i < 0) /\ ~IsFile(i) /\ i # q.top /\ rd' = [rd EXCEPT ![r] = Loaded(q, i + 1)]
  <2>0. i + 1 \in Ids
    BY <1>1, <1>2, <1>6, MaxIdAssumption DEF Ids
  <2>1. \A j \in Ids : i + 1 <= j /\ j <= q.top => j \in There
    BY <1>1, <1>2
  <2> DEFINE n == Loaded(q, i + 1)
  <2>2. n \in Queries /\ n.op = "oldest" /\ n.top = q.top
        /\ (n.pc = "failed" \/ (n.pc = "done" /\ n.res = i + 1))
    BY <1>0, <1>1, <2>0 DEF Loaded, Queries
  <2>3. QueryKnows(n, There)
    <3> HIDE DEF n
    <3> QED
      BY <2>1, <2>2 DEF QueryKnows, NewestOK, OldestOK, UrlOK
  <2> QED
    BY <1>6, <2>2, <2>3
<1>7. \/ i < 0 /\ rd' = [rd EXCEPT ![r] = [q EXCEPT !.pc = "done"]]
      \/ ~(i < 0) /\ IsFile(i) /\ rd' = [rd EXCEPT ![r] = [q EXCEPT !.cur = i - 1]]
      \/ ~(i < 0) /\ ~IsFile(i) /\ i = q.top
      \/ ~(i < 0) /\ ~IsFile(i) /\ i # q.top /\ rd' = [rd EXCEPT ![r] = Loaded(q, i + 1)]
  BY DEF OldestStep, ReaderGoesTo
<1> QED
  BY <1>3, <1>4, <1>5, <1>6, <1>7

LEMMA SearchKnows ==
  ASSUME Typed, QueriesInv, NEW r \in Readers, SearchStep(r)
  PROVE  \E q \in Queries : rd' = [rd EXCEPT ![r] = q] /\ QueryKnows(q, There)
<1> DEFINE q == rd[r]
           i == q.cur
           Found == \E j \in There : Num[j] = q.arg /\ j <= i
<1>0. q \in Queries /\ QueryOK(q) /\ QueryKnows(q, There)
  BY DEF Typed, TypeOK, QueriesInv
<1>1. /\ q.pc = "search" /\ q.op = "url"
      /\ q.had /\ UrlsInOrder => Found
  BY <1>0 DEF SearchStep, QueryKnows, UrlOK
<1>2. i \in Ids \cup {-1} /\ i \in Int /\ q.arg \in Int /\ q.had \in BOOLEAN
      /\ \A j \in Ids : j \in Int /\ j >= 0 /\ Num[j] \in Int
  BY <1>0, MaxIdAssumption, NumAssumption DEF Queries, Ids
<1>3. There \subseteq Ids
  BY DEF There
<1>4. ASSUME rd' = [rd EXCEPT ![r] = [q EXCEPT !.pc = "done"]],
             Found => ~UrlsInOrder, q.res = -1
      PROVE  \E n \in Queries : rd' = [rd EXCEPT ![r] = n] /\ QueryKnows(n, There)
  <2>1. UrlsInOrder => ~q.had
    BY <1>1, <1>2, <1>4
  <2> DEFINE n == [q EXCEPT !.pc = "done"]
  <2>2. n \in Queries /\ n.op = "url" /\ n.pc = "done" /\ n.res = -1 /\ n.had = q.had
    BY <1>0, <1>1, <1>4 DEF Queries
  <2> HIDE DEF n
  <2>3. QueryKnows(n, There)
    BY <2>1, <2>2 DEF QueryKnows, NewestOK, OldestOK, UrlOK
  <2> QED
    BY <1>4, <2>2, <2>3 DEF n
<1>5. ASSUME rd' = [rd EXCEPT ![r] = [q EXCEPT !.cur = i - 1]], ~(i < 0),
             ~(i \in There /\ Num[i] = q.arg)
      PROVE  \E n \in Queries : rd' = [rd EXCEPT ![r] = n] /\ QueryKnows(n, There)
  <2> DEFINE n == [q EXCEPT !.cur = i - 1]
  <2>0. i - 1 \in Ids \cup {-1}
    BY <1>2, <1>5, MaxIdAssumption DEF Ids
  <2>1. ASSUME Found PROVE \E j \in There : Num[j] = q.arg /\ j <= i - 1
    <3> PICK j \in There : Num[j] = q.arg /\ j <= i
      BY <2>1
    <3>1. j \in Int /\ j # i
      BY <1>2, <1>3, <1>5
    <3>2. j <= i - 1
      BY <1>2, <3>1
    <3> QED
      BY <3>2
  <2>2. n \in Queries /\ n.op = "url" /\ n.pc = "search" /\ n.cur = i - 1 /\ n.had = q.had
        /\ n.arg = q.arg
    BY <1>0, <1>1, <2>0 DEF Queries
  <2> HIDE DEF n
  <2>3. QueryKnows(n, There)
    BY <1>1, <2>1, <2>2 DEF QueryKnows, NewestOK, OldestOK, UrlOK
  <2> QED
    BY <1>5, <2>2, <2>3 DEF n
<1>6. ASSUME rd' = [rd EXCEPT ![r] = Loaded(q, i)], ~(i < 0), Num[i] = q.arg
      PROVE  \E n \in Queries : rd' = [rd EXCEPT ![r] = n] /\ QueryKnows(n, There)
  <2> DEFINE n == Loaded(q, i)
  <2>1. i \in Ids /\ i # -1
    BY <1>2, <1>6
  <2>2. n \in Queries /\ n.op = "url" /\ n.arg = q.arg
        /\ (n.pc = "failed" \/ (n.pc = "done" /\ n.res = i))
    BY <1>0, <1>1, <2>1 DEF Queries, Loaded
  <2> HIDE DEF n
  <2>3. QueryKnows(n, There)
    BY <1>6, <2>1, <2>2 DEF QueryKnows, NewestOK, OldestOK, UrlOK
  <2> QED
    BY <1>6, <2>2, <2>3 DEF n
<1>7. ASSUME rd' = [rd EXCEPT ![r] = [q EXCEPT !.pc = "failed"]]
      PROVE  \E n \in Queries : rd' = [rd EXCEPT ![r] = n] /\ QueryKnows(n, There)
  <2>1. [q EXCEPT !.pc = "failed"] \in Queries /\ [q EXCEPT !.pc = "failed"].pc = "failed"
    BY <1>0 DEF Queries
  <2> QED
    BY <1>7, <2>1, FailedKnows
<1>8. q.res = -1
  BY <1>0, <1>1 DEF QueryOK
<1>9. CASE i < 0
  <2>1. ~Found
    BY <1>2, <1>3, <1>9
  <2> QED
    BY <1>4, <1>8, <1>9, <2>1 DEF SearchStep, ReaderGoesTo
<1>10. CASE ~(i < 0) /\ ~IsFile(i)
  <2>1. rd' = [rd EXCEPT ![r] = [q EXCEPT !.cur = i - 1]]
    BY <1>10 DEF SearchStep, ReaderGoesTo
  <2> QED
    BY <1>5, <1>10, <2>1 DEF There
<1>11. CASE ~(i < 0) /\ IsFile(i)
  <2>1. CASE Num[i] < q.arg
    <3>1. ASSUME UrlsInOrder PROVE ~Found
      <4> SUFFICES ASSUME NEW j \in There, Num[j] = q.arg, j <= i PROVE FALSE
        OBVIOUS
      <4>0. i \in Ids /\ j \in Ids /\ j \in Int /\ Num[j] \in Int /\ Num[i] \in Int
        BY <1>2, <1>3, <1>11
      <4>1. j = i \/ j < i
        BY <1>2, <4>0
      <4>2. j < i => Num[j] < Num[i]
        BY <3>1, <4>0 DEF UrlsInOrder
      <4> QED
        BY <1>2, <2>1, <4>0, <4>1, <4>2
    <3>2. \/ rd' = [rd EXCEPT ![r] = [q EXCEPT !.pc = "failed"]]
          \/ rd' = [rd EXCEPT ![r] = [q EXCEPT !.pc = "done"]]
          \/ Num[i] = q.arg
      BY <1>11, <2>1 DEF SearchStep, ReaderGoesTo
    <3>3. Num[i] # q.arg
      BY <1>2, <1>11, <2>1
    <3> QED
      BY <1>4, <1>7, <1>8, <3>1, <3>2, <3>3
  <2>2. CASE ~(Num[i] < q.arg)
    <3>1. \/ rd' = [rd EXCEPT ![r] = [q EXCEPT !.pc = "failed"]]
          \/ Num[i] = q.arg /\ rd' = [rd EXCEPT ![r] = Loaded(q, i)]
          \/ Num[i] # q.arg /\ rd' = [rd EXCEPT ![r] = [q EXCEPT !.cur = i - 1]]
      BY <1>11, <2>2 DEF SearchStep, ReaderGoesTo
    <3> QED
      BY <1>5, <1>6, <1>7, <1>11, <3>1
  <2> QED
    BY <2>1, <2>2
<1> QED
  BY <1>9, <1>10, <1>11
\* What holds before a query begins.
LEMMA MaxIdThere ==
  ASSUME Typed, FilesInv
  PROVE  /\ maxId \in There \cup {-1}
         /\ \A i \in There : files[i] \in Doc => i <= maxId
<1>1. maxId \in There \cup {-1}
  BY DEF Typed, TypeOK, FilesInv, MaxIdInv, There
<1>2. ASSUME NEW i \in There, files[i] \in Doc PROVE i <= maxId
  <2>1. files[i] # Torn /\ i \in Ids
    BY <1>2, FileKinds DEF There
  <2>2. ~Written(i)
    BY <2>1 DEF FilesInv, WrittenIsTorn, Written
  <2> QED
    BY <2>1, <2>2 DEF FilesInv, MaxIdInv, There
<1> QED
  BY <1>1, <1>2

LEMMA AskKnows ==
  ASSUME Typed, FilesInv, NEW r \in Readers, Ask(r)
  PROVE  \E q \in Queries : /\ rd' = [rd EXCEPT ![r] = q] /\ q.pc # "failed"
                            /\ QueryKnows(q, There)
<1>0. maxId \in There \cup {-1} /\ maxId \in Ids \cup {-1} /\ maxId \in Int
      /\ There \subseteq Ids
  <2>1. maxId \in There \cup {-1}
    BY MaxIdThere
  <2>2. There \subseteq Ids
    BY DEF There
  <2> QED
    BY <2>1, <2>2, IdsAreIntegers
<1>1. ASSUME NEW n \in Queries, QueryKnows(n, There), n.pc # "failed", Begin(r, n)
      PROVE  \E q \in Queries : /\ rd' = [rd EXCEPT ![r] = q] /\ q.pc # "failed"
                            /\ QueryKnows(q, There)
  BY <1>1 DEF Begin
<1>2. ASSUME NEW i \in Ids, AskById(r, i)
      PROVE  \E q \in Queries : /\ rd' = [rd EXCEPT ![r] = q] /\ q.pc # "failed"
                            /\ QueryKnows(q, There)
  <2> DEFINE n == [Idle EXCEPT !.pc = "get", !.op = "id", !.arg = i, !.cur = i]
  <2>0. i \in Int
    BY IdsAreIntegers
  <2>1. n \in Queries /\ n.op = "id" /\ n.pc = "get"
    BY <2>0, IdleTyped DEF Queries
  <2>2. Begin(r, n)
    BY <1>2 DEF AskById
  <2> HIDE DEF n
  <2>3. QueryKnows(n, There)
    BY <2>1, IdKnows
  <2> QED
    BY <1>1, <2>1, <2>2, <2>3
<1>3. CASE AskNewest(r)
  <2> DEFINE pc == IF maxId >= 0 THEN "get" ELSE "done"
             n == [Idle EXCEPT !.pc = pc, !.op = "newest", !.cur = maxId]
  <2>1. pc \in {"get", "done"} /\ (pc = "get" => maxId \in There)
    BY <1>0
  <2>2. Begin(r, n)
    BY <1>3 DEF AskNewest
  <2> HIDE DEF pc
  <2>3. n \in Queries /\ n.op = "newest" /\ n.pc = pc /\ n.cur = maxId
    BY <1>0, <2>1, IdleTyped DEF Queries
  <2> HIDE DEF n
  <2>4. QueryKnows(n, There)
    BY <2>1, <2>3 DEF QueryKnows, NewestOK, OldestOK, UrlOK
  <2> QED
    BY <1>1, <2>1, <2>2, <2>3, <2>4
<1>4. CASE AskOldest(r)
  <2> DEFINE n == [Idle EXCEPT !.pc = "down", !.op = "oldest", !.cur = maxId, !.top = maxId]
  <2>1. n \in Queries /\ n.op = "oldest" /\ n.pc = "down" /\ n.cur = maxId /\ n.top = maxId
    BY <1>0, IdleTyped DEF Queries
  <2>2. Begin(r, n)
    BY <1>4 DEF AskOldest
  <2> HIDE DEF n
  <2>3. \A i \in Ids : ~(n.cur < i /\ i <= n.top)
    BY <1>0, <2>1, IdsAreIntegers
  <2>4. QueryKnows(n, There)
    BY <1>0, <2>1, <2>3 DEF QueryKnows, NewestOK, OldestOK, UrlOK
  <2> QED
    BY <1>1, <2>1, <2>2, <2>4
<1>5. ASSUME NEW k \in Ids, AskByUrl(r, Num[k])
      PROVE  \E q \in Queries : /\ rd' = [rd EXCEPT ![r] = q] /\ q.pc # "failed"
                            /\ QueryKnows(q, There)
  <2> DEFINE h == \E j \in Ids : files[j] \in Doc /\ Num[j] = Num[k]
             n == [Idle EXCEPT !.pc = "search", !.op = "url", !.arg = Num[k], !.cur = maxId,
                               !.had = h]
  <2>0. h \in BOOLEAN /\ Num[k] \in Int
    BY NumAssumption
  <2>1. ASSUME h PROVE \E j \in There : Num[j] = Num[k] /\ j <= maxId
    <3> PICK j \in Ids : files[j] \in Doc /\ Num[j] = Num[k]
      BY <2>1
    <3>1. j \in There
      BY FileKinds DEF There, IsFile
    <3> QED
      BY <3>1, MaxIdThere
  <2>2. Begin(r, n)
    BY <1>5 DEF AskByUrl
  <2> HIDE DEF h
  <2>3. n \in Queries /\ n.op = "url" /\ n.pc = "search" /\ n.cur = maxId /\ n.arg = Num[k]
        /\ n.had = h
    BY <1>0, <2>0, IdleTyped DEF Queries
  <2> HIDE DEF n
  <2>4. QueryKnows(n, There)
    BY <2>1, <2>3 DEF QueryKnows, NewestOK, OldestOK, UrlOK
  <2> QED
    BY <1>1, <2>2, <2>3, <2>4
<1> QED
  BY <1>2, <1>3, <1>4, <1>5 DEF Ask

LEMMA InitQueries == Init => QueriesInv
<1>1. QueryKnows(Idle, There)
  BY IdleTyped, IdKnows DEF Idle
<1> QED
  BY <1>1 DEF Init, QueriesInv

LEMMA NextQueries == Typed /\ FilesInv /\ QueriesInv /\ [Next]_vars => QueriesInv'
<1> SUFFICES ASSUME Typed, FilesInv, QueriesInv, [Next]_vars, NEW s \in Readers
             PROVE  QueryKnows(rd'[s], There')
  BY DEF QueriesInv
<1>0. rd \in [Readers -> Queries]
  BY DEF Typed, TypeOK
<1>1. SUFFICES QueryKnows(rd'[s], There) /\ rd'[s] \in Queries
  BY FilesStay, KnowledgeStays
<1>2. CASE UNCHANGED rd
  BY <1>0, <1>2 DEF QueriesInv
<1>3. CASE Restart
  <2>1. rd'[s] = Idle
    BY <1>3 DEF Restart
  <2>2. QueryKnows(Idle, There)
    BY IdleTyped, IdKnows DEF Idle
  <2> QED
    BY <2>1, <2>2, IdleTyped
<1>4. ASSUME NEW r \in Readers, ReaderStep(r) \/ Ask(r)
      PROVE  QueryKnows(rd'[s], There) /\ rd'[s] \in Queries
  <2>1. PICK q \in Queries : rd' = [rd EXCEPT ![r] = q] /\ QueryKnows(q, There)
    BY <1>4, AskKnows, GetKnows, OldestKnows, SearchKnows DEF ReaderStep
  <2> QED
    BY <1>0, <2>1 DEF QueriesInv
<1> QED
  BY <1>2, <1>3, <1>4, CallsTouched

StorageInv == Typed /\ FilesInv /\ QueriesInv

LEMMA StorageInvariant == Spec => []StorageInv
<1>1. Init => StorageInv
  BY InitTyped, InitFiles, InitQueries DEF StorageInv
<1>2. StorageInv /\ [Next]_vars => StorageInv'
  BY NextTyped, NextFiles, NextQueries DEF StorageInv
<1> QED
  BY <1>1, <1>2, PTL DEF Spec

\* While nobody is writing, max_id names the newest file, and no query for the newest
\* document ever waits for its file (max_id, newest_doc): with any number of adders
\* and crashes.
THEOREM NewestIsThere == Spec => []MaxIdIsNewest
<1>1. ASSUME StorageInv PROVE MaxIdIsNewest
  <2>1. ASSUME LockFree PROVE IsNewest(maxId)
    <3>1. \A i \in Ids : ~Written(i)
      BY <2>1 DEF LockFree, Written, Writing
    <3> QED
      BY <1>1, <3>1 DEF StorageInv, FilesInv, MaxIdInv, IsNewest
  <2>2. ASSUME NEW r \in Readers, rd[r].op = "newest" PROVE rd[r].pc # "wait"
    BY <1>1, <2>2 DEF StorageInv, QueriesInv, QueryKnows, NewestOK
  <2> QED
    BY <2>1, <2>2 DEF MaxIdIsNewest
<1> QED
  BY <1>1, StorageInvariant, PTL

\* Only a turn of the loop of oldest_doc ends it.
LEMMA OldestEnds ==
  ASSUME Typed, [Next]_vars, NEW r \in Readers, rd[r].pc = "down", rd'[r].pc = "done"
  PROVE  OldestStep(r)
<1>0. rd \in [Readers -> Queries]
  BY DEF Typed, TypeOK
<1>1. ~Restart
  BY DEF Restart, Idle
<1>2. rd' # rd
  OBVIOUS
<1>3. PICK s \in Readers : ReaderStep(s) \/ Ask(s)
  BY <1>1, <1>2, CallsTouched
<1>4. s = r
  <2>1. \E q : rd' = [rd EXCEPT ![s] = q]
    BY <1>3 DEF ReaderStep, Ask, Get, WakeUp, OldestStep, SearchStep, ReaderGoesTo, AskById,
                AskNewest, AskOldest, AskByUrl, Begin
  <2> QED
    BY <1>0, <2>1
<1> QED
  BY <1>3, <1>4 DEF ReaderStep, Ask, Get, WakeUp, SearchStep, AskById, AskNewest, AskOldest,
                    AskByUrl, Begin

\* What oldest_doc answers stands right above the newest gap of the mirror, whatever was
\* added while it was going down the ids: the listener's next fill thread begins in the gap.
THEOREM OldestAnswers == Spec => OldestIsAboveGap
<1>1. ASSUME StorageInv, [Next]_vars, NEW r \in Readers, rd[r].pc = "down", rd'[r].pc = "done"
      PROVE  /\ rd'[r].res # -1 => rd'[r].res - 1 \in Ids /\ ~IsFile(rd'[r].res - 1)
             /\ \A i \in Ids : rd'[r].res <= i /\ i <= rd[r].top => IsFile(i)
  <2> DEFINE q == rd[r]
             i == q.cur
  <2>0. /\ rd \in [Readers -> Queries] /\ q \in Queries /\ OldestOK(q, There)
        /\ q.res = -1 /\ i <= q.top
    BY <1>1 DEF StorageInv, Typed, TypeOK, QueryOK, QueriesInv, QueryKnows
  <2>1. /\ q.top \in There \cup {-1}
        /\ \A j \in Ids : i < j /\ j <= q.top => IsFile(j)
    BY <1>1, <2>0 DEF OldestOK, There
  <2>2. /\ i \in Ids \cup {-1} /\ q.top \in Ids \cup {-1} /\ i \in Int /\ q.top \in Int
        /\ \A j \in Ids : j \in Int /\ j >= 0
    BY <2>0, MaxIdAssumption DEF Queries, Ids
  <2>3. \/ i < 0 /\ rd'[r] = [q EXCEPT !.pc = "done"]
        \/ IsFile(i) /\ rd'[r] = [q EXCEPT !.cur = i - 1]
        \/ ~(i < 0) /\ ~IsFile(i) /\ i = q.top
        \/ ~(i < 0) /\ ~IsFile(i) /\ i # q.top /\ rd'[r] = Loaded(q, i + 1)
    BY <1>1, <2>0, OldestEnds DEF StorageInv, OldestStep, ReaderGoesTo
  <2>4. CASE i < 0 /\ rd'[r] = [q EXCEPT !.pc = "done"]
    <3>1. rd'[r].res = -1
      BY <2>0, <2>4 DEF Queries
    <3> QED
      BY <2>1, <2>2, <2>4, <3>1
  <2>5. ~(IsFile(i) /\ rd'[r] = [q EXCEPT !.cur = i - 1])
    BY <1>1, <2>0 DEF Queries
  <2>6. ~(~(i < 0) /\ ~IsFile(i) /\ i = q.top)
    BY <2>1, <2>2 DEF There
  <2>7. CASE ~(i < 0) /\ ~IsFile(i) /\ i # q.top /\ rd'[r] = Loaded(q, i + 1)
    <3>1. rd'[r].res = i + 1
      BY <1>1, <2>0, <2>7 DEF Loaded, Queries
    <3>2. i \in Ids /\ (i + 1) - 1 = i
      BY <2>2, <2>7
    <3>3. \A j \in Ids : i + 1 <= j => i < j
      BY <2>2
    <3> QED
      BY <2>1, <2>7, <3>1, <3>2, <3>3
  <2> QED
    BY <2>3, <2>4, <2>5, <2>6, <2>7
<1>2. StorageInv /\ [Next]_vars =>
        [\A r \in Readers :
           rd[r].pc = "down" /\ rd'[r].pc = "done" =>
             LET res == rd'[r].res
             IN  /\ res # -1 => res - 1 \in Ids /\ ~IsFile(res - 1)
                 /\ \A i \in Ids : res <= i /\ i <= rd[r].top => IsFile(i)]_vars
  BY <1>1
<1> QED
  BY <1>2, StorageInvariant, PTL DEF Spec, OldestIsAboveGap

\* A search by url never answers with another document; and when the urls are numbered
\* like the ids it finds the document that was there when it began.
THEOREM SearchAnswers == Spec => []SearchFinds
<1>1. ASSUME StorageInv PROVE SearchFinds
  BY <1>1 DEF StorageInv, QueriesInv, QueryKnows, UrlOK, SearchFinds
<1> QED
  BY <1>1, StorageInvariant, PTL
-----------------------------------------------------------------------------
\* Nothing fails while the process lives: a file is only loaded with the lock.
FailInv == crashes = 0 => up.pc # "dead" /\ \A r \in Readers : rd[r].pc # "failed"

LEMMA NoneTorn ==
  ASSUME FilesInv, LockFree, crashes = 0
  PROVE  \A i \in Ids : files[i] # Torn
BY DEF FilesInv, TornIsWritten, LockFree, Written, Writing

LEMMA NextFail == Typed /\ FilesInv /\ FailInv /\ [Next]_vars => FailInv'
<1> SUFFICES ASSUME Typed, FilesInv, FailInv, [Next]_vars, crashes' = 0
             PROVE  up'.pc # "dead" /\ \A r \in Readers : rd'[r].pc # "failed"
  BY DEF FailInv
<1>0. /\ up \in UpdateCalls /\ UpdateCallOK /\ crashes \in Nat
      /\ rd \in [Readers -> Queries]
      /\ \A r \in Readers : QueryOK(rd[r])
  BY MaxCrashesAssumption DEF Typed, TypeOK
<1>1. ~Restart
  <2>1. Restart => crashes' = crashes + 1
    BY DEF Restart
  <2> QED
    BY <1>0, <2>1
<1>2. crashes = 0
  <2>1. crashes' = crashes
    BY <1>1, StepKinds DEF Quiet, UpdateOpen, UpdateWrite, AddOpen, AddWrite
  <2> QED
    BY <2>1
<1>3. up.pc # "dead" /\ \A r \in Readers : rd[r].pc # "failed"
  BY <1>2 DEF FailInv
<1>4. up'.pc # "dead"
  <2>1. CASE UNCHANGED up
    BY <1>3, <2>1
  <2>2. CASE \E last \in 0..MaxId : UpdateStart(last)
    BY <2>2 DEF UpdateStart, NoUpdate
  <2>3. CASE UpdateWalk
    <3>1. CASE up.cur < 0 \/ ~IsFile(up.cur)
      BY <1>0, <2>3, <3>1 DEF UpdateWalk, UpdateCalls
    <3>2. CASE ~(up.cur < 0) /\ IsFile(up.cur)
      <4>1. up.cur \in Ids /\ LockFree
        BY <1>0, <2>3, <3>2, MaxIdAssumption DEF UpdateWalk, UpdateCalls, Ids
      <4>2. files[up.cur] # Torn
        BY <1>2, <4>1, NoneTorn
      <4>3. \/ up' = [up EXCEPT !.pc = "end"]
            \/ up' = [up EXCEPT !.pc = "crawl"]
        BY <2>3, <3>2, <4>2 DEF UpdateWalk
      <4> QED
        BY <1>0, <4>3 DEF UpdateCalls
    <3> QED
      BY <3>1, <3>2
  <2>4. CASE UpdateCrawl \/ UpdateOpen \/ UpdateWrite
    BY <1>0, <2>4 DEF UpdateCrawl, UpdateOpen, UpdateWrite, UpdateCalls
  <2> QED
    BY <1>1, <2>1, <2>2, <2>3, <2>4, CallsTouched DEF UpdateStep
<1>5. ASSUME NEW r \in Readers, ReaderStep(r)
      PROVE  \E q : rd' = [rd EXCEPT ![r] = q] /\ q.pc # "failed"
  <2> DEFINE q == rd[r]
             i == q.cur
  <2>1. LockFree /\ q \in Queries /\ QueryOK(q)
    BY <1>0, <1>5 DEF ReaderStep, Get, WakeUp, OldestStep, SearchStep, ReaderGoesTo
  <2>2. i \in Ids \cup {-1} /\ q.top \in Ids \cup {-1} /\ \A j \in Ids : files[j] # Torn
    BY <1>2, <2>1, NoneTorn DEF Queries
  <2>3. ASSUME NEW j \in Ids PROVE Loaded(q, j).pc = "done"
    BY <2>1, <2>2 DEF Loaded, Queries
  <2>4. ASSUME NEW pc \in {"done", "wait"} PROVE [q EXCEPT !.pc = pc].pc # "failed"
    BY <2>1 DEF Queries
  <2>5. [q EXCEPT !.cur = i - 1].pc # "failed"
    BY <1>3, <2>1 DEF Queries
  <2>6. CASE Get(r)
    <3>1. i \in Ids
      BY <2>1, <2>6 DEF Get, QueryOK
    <3>2. \/ rd' = [rd EXCEPT ![r] = Loaded(q, i)]
          \/ rd' = [rd EXCEPT ![r] = [q EXCEPT !.pc = "wait"]]
      BY <2>6 DEF Get, ReaderGoesTo
    <3> HIDE DEF q, i
    <3> QED
      BY <2>3, <2>4, <3>1, <3>2
  <2>7. CASE WakeUp(r)
    <3>1. i \in Ids
      BY <2>1, <2>7 DEF WakeUp, QueryOK
    <3>2. \/ rd' = [rd EXCEPT ![r] = Loaded(q, i)]
          \/ rd' = [rd EXCEPT ![r] = [q EXCEPT !.pc = "done"]]
      BY <2>7 DEF WakeUp, ReaderGoesTo
    <3> HIDE DEF q, i
    <3> QED
      BY <2>3, <2>4, <3>1, <3>2
  <2>8. CASE OldestStep(r)
    <3>1. i <= q.top
      BY <2>1, <2>8 DEF OldestStep, QueryOK
    <3>2. ~(i < 0) /\ i # q.top => i + 1 \in Ids
      BY <2>2, <3>1, MaxIdAssumption DEF Ids
    <3>3. \/ rd' = [rd EXCEPT ![r] = [q EXCEPT !.pc = "done"]]
          \/ rd' = [rd EXCEPT ![r] = [q EXCEPT !.cur = i - 1]]
          \/ ~(i < 0) /\ i # q.top /\ rd' = [rd EXCEPT ![r] = Loaded(q, i + 1)]
      BY <2>8 DEF OldestStep, ReaderGoesTo
    <3> HIDE DEF q, i
    <3> QED
      BY <2>3, <2>4, <2>5, <3>2, <3>3
  <2>9. CASE SearchStep(r)
    <3>1. ~(i < 0) => i \in Ids
      BY <2>2, MaxIdAssumption DEF Ids
    <3>2. \/ rd' = [rd EXCEPT ![r] = [q EXCEPT !.pc = "done"]]
          \/ rd' = [rd EXCEPT ![r] = [q EXCEPT !.cur = i - 1]]
          \/ ~(i < 0) /\ files[i] = Torn
          \/ ~(i < 0) /\ rd' = [rd EXCEPT ![r] = Loaded(q, i)]
      BY <2>9 DEF SearchStep, ReaderGoesTo
    <3> HIDE DEF q, i
    <3> QED
      BY <2>2, <2>3, <2>4, <2>5, <3>1, <3>2
  <2> QED
    BY <1>5, <2>6, <2>7, <2>8, <2>9 DEF ReaderStep
<1>6. ASSUME NEW r \in Readers, Ask(r)
      PROVE  \E q : rd' = [rd EXCEPT ![r] = q] /\ q.pc # "failed"
  BY <1>6, AskKnows
<1>7. \A r \in Readers : rd'[r].pc # "failed"
  <2>1. CASE UNCHANGED rd
    BY <1>3, <2>1
  <2>2. CASE \E r \in Readers : ReaderStep(r) \/ Ask(r)
    BY <1>0, <1>3, <1>5, <1>6, <2>2
  <2> QED
    BY <1>1, <2>1, <2>2, CallsTouched
<1> QED
  BY <1>4, <1>7

\* A file is incomplete only in the hands of its writer, or since a crash; and until a
\* crash no reader and no re-fetch ever loads an incomplete one (_update_doc, _lock).
THEOREM NoTornReads == Spec => []TornOnlyByCrash
<1>1. Init => FailInv
  BY DEF Init, FailInv, NoUpdate, Idle
<1>2. StorageInv /\ FailInv => TornOnlyByCrash
  BY DEF StorageInv, FilesInv, TornIsWritten, Written, Writing, FailInv, TornOnlyByCrash
<1>3. StorageInv /\ FailInv /\ [Next]_vars => FailInv'
  BY NextFail DEF StorageInv
<1> QED
  BY <1>1, <1>2, <1>3, StorageInvariant, PTL DEF Spec

-----------------------------------------------------------------------------
\* The walk of update_after_time: what was there when it began is below it, or done.
WalkInv ==
  /\ up.pc \in {"walk", "crawl", "dump", "writing"} =>
       \A i \in up.there : i \in There /\ (i <= up.cur \/ i \in up.done)
  /\ RecentAllRefetched

LEMMA NextWalk == Typed /\ FilesInv /\ WalkInv /\ [Next]_vars => WalkInv'
<1> SUFFICES ASSUME Typed, FilesInv, WalkInv, [Next]_vars PROVE WalkInv'
  OBVIOUS
<1>0. /\ up \in UpdateCalls /\ UpdateCallOK
      /\ up.cur \in Int /\ up.last \in Int
      /\ \A i \in Ids : i \in Int /\ 0 <= i /\ i <= MaxId
      /\ up.there \subseteq Ids
  BY MaxIdAssumption DEF Typed, TypeOK, UpdateCalls, Ids
<1>1. There \subseteq There'
  BY FilesStay
<1>2. CASE UNCHANGED up
  BY <1>1, <1>2 DEF WalkInv, RecentAllRefetched
<1>3. CASE Restart
  BY <1>3 DEF Restart, NoUpdate, WalkInv, RecentAllRefetched
<1>4. ASSUME NEW last \in 0..MaxId, UpdateStart(last) PROVE WalkInv'
  <2>1. up'.pc = "walk" /\ up'.cur = maxId /\ up'.there = {i \in Ids : files[i] \in Doc}
    BY <1>4 DEF UpdateStart, NoUpdate
  <2>2. \A i \in up'.there : i \in There /\ i <= maxId
    BY <2>1, FileKinds, MaxIdThere DEF There, IsFile
  <2> QED
    BY <1>1, <2>1, <2>2 DEF WalkInv, RecentAllRefetched
<1>5. ASSUME UpdateWalk PROVE WalkInv'
  <2>1. CASE up'.pc = "end" /\ up'.there = up.there /\ up'.done = up.done
             /\ up'.last = up.last /\ (up.cur < 0 \/ up.cur < up.last)
    <3> SUFFICES ASSUME NEW i \in up.there, up.last <= i PROVE i \in up.done
      BY <2>1 DEF WalkInv, RecentAllRefetched
    <3>1. i <= up.cur \/ i \in up.done
      BY <1>5 DEF UpdateWalk, WalkInv
    <3> QED
      BY <1>0, <2>1, <3>1
  <2>2. CASE up'.pc = "walk" /\ up' = [up EXCEPT !.cur = up.cur - 1] /\ ~IsFile(up.cur)
    <3>1. up'.there = up.there /\ up'.done = up.done /\ up'.cur = up.cur - 1
      BY <1>0, <2>2 DEF UpdateCalls
    <3>2. ASSUME NEW i \in up.there PROVE i \in There /\ (i <= up.cur - 1 \/ i \in up.done)
      <4>1. i \in There /\ (i <= up.cur \/ i \in up.done)
        BY <1>5 DEF UpdateWalk, WalkInv
      <4>2. i # up.cur
        BY <2>2, <4>1 DEF There
      <4> QED
        BY <1>0, <4>1, <4>2
    <3> QED
      BY <1>1, <2>2, <3>1, <3>2 DEF WalkInv, RecentAllRefetched
  <2>3. CASE up'.pc = "dead"
    BY <2>3 DEF WalkInv, RecentAllRefetched
  <2>4. CASE up' = [up EXCEPT !.pc = "crawl"]
    BY <1>0, <1>1, <1>5, <2>4 DEF UpdateWalk, UpdateCalls, WalkInv, RecentAllRefetched
  <2>5. CASE up.cur < 0 \/ ~IsFile(up.cur)
    BY <1>0, <1>5, <2>1, <2>2, <2>5 DEF UpdateWalk, UpdateCalls
  <2>6. CASE ~(up.cur < 0) /\ IsFile(up.cur)
    <3>1. CASE files[up.cur] = Torn
      BY <1>5, <2>3, <2>6, <3>1 DEF UpdateWalk, NoUpdate
    <3>2. CASE files[up.cur] # Torn /\ PostTime(up.cur, files[up.cur]) < up.last
      <4>1. up' = [up EXCEPT !.pc = "end"]
        BY <1>5, <2>6, <3>2 DEF UpdateWalk
      <4>2. up.last <= MaxId /\ up.last \in Int
        BY <1>0, MaxIdAssumption DEF UpdateCalls, Ids
      <4>3. up.cur < up.last
        BY <1>0, <3>2, <4>2, MaxIdAssumption DEF PostTime
      <4> QED
        BY <1>0, <2>1, <4>1, <4>3 DEF UpdateCalls
    <3>3. CASE files[up.cur] # Torn /\ ~(PostTime(up.cur, files[up.cur]) < up.last)
      BY <1>5, <2>4, <2>6, <3>3 DEF UpdateWalk
    <3> QED
      BY <3>1, <3>2, <3>3
  <2> QED
    BY <2>5, <2>6
<1>6. ASSUME UpdateCrawl \/ UpdateOpen PROVE WalkInv'
  <2>1. up'.pc \in {"dump", "writing"} /\ up'.there = up.there /\ up'.done = up.done
        /\ up'.cur = up.cur /\ up.pc \in {"crawl", "dump"}
    BY <1>0, <1>6 DEF UpdateCrawl, UpdateOpen, UpdateCalls
  <2> QED
    BY <1>1, <2>1 DEF WalkInv, RecentAllRefetched
<1>7. ASSUME UpdateWrite PROVE WalkInv'
  <2>1. up'.pc = "walk" /\ up'.there = up.there /\ up'.done = up.done \cup {up.cur}
        /\ up'.cur = up.cur - 1 /\ up.pc = "writing"
    BY <1>0, <1>7 DEF UpdateWrite, UpdateCalls
  <2>2. ASSUME NEW i \in up.there
        PROVE  i \in There /\ (i <= up.cur - 1 \/ i \in up.done \cup {up.cur})
    <3>1. i \in There /\ (i <= up.cur \/ i \in up.done)
      BY <2>1 DEF WalkInv
    <3> QED
      BY <1>0, <3>1
  <2> QED
    BY <1>1, <2>1, <2>2 DEF WalkInv, RecentAllRefetched
<1> QED
  BY <1>2, <1>3, <1>4, <1>5, <1>6, <1>7, CallsTouched DEF UpdateStep

\* A walk that reached its end has re-fetched every document that was there when it
\* began and was posted at last_time or later, however the listener and the crawls
\* failed or added in between (update_after_time).
THEOREM WalkIsComplete == Spec => []RecentAllRefetched
<1>1. Init => WalkInv
  BY DEF Init, NoUpdate, WalkInv, RecentAllRefetched
<1>2. StorageInv /\ WalkInv /\ [Next]_vars => WalkInv'
  BY NextWalk DEF StorageInv
<1>3. WalkInv => RecentAllRefetched
  BY DEF WalkInv
<1> QED
  BY <1>1, <1>2, <1>3, StorageInvariant, PTL DEF Spec
-----------------------------------------------------------------------------
\* The ways a step changes the call of an adder: c is what becomes of it.
Checks(a, c) ==
  /\ ad[a].pc \notin {"crawl", "dump", "writing"}
  /\ c.pc \in {"crawl", "refused"}
  /\ c.pc = "crawl" => c.id \in Ids /\ ~IsFile(c.id)
  /\ since' = [since EXCEPT ![a] = IF c.pc = "crawl" THEN web ELSE 0]
  /\ UNCHANGED <<files, maxId, raced, upSince, upRaced>>

Crawls(a, c) ==
  /\ ad[a].pc = "crawl" /\ c.pc = "dump" /\ c.id = ad[a].id /\ c.doc \in Crawled
  /\ UNCHANGED <<files, maxId, since, raced, upSince, upRaced>>

Opens(a, c) ==
  /\ ad[a].pc = "dump" /\ c.pc = "writing" /\ c.id = ad[a].id /\ c.doc = ad[a].doc
  /\ LockFree /\ ad[a].id \in Ids /\ ad[a].doc \in Doc
  /\ files' = [files EXCEPT ![ad[a].id] = Torn]
  /\ since' = [since EXCEPT ![a] = 0]
  /\ raced' = (raced \cup Overtaken(ad[a].id)) \ {a}
  /\ upRaced' = (upRaced \/ (Pending(up) /\ up.cur = ad[a].id))
  /\ UNCHANGED <<maxId, upSince>>

Writes(a, c) ==
  /\ ad[a].pc = "writing" /\ c.pc = "mark" /\ ad[a].id \in Ids /\ ad[a].doc \in Doc
  /\ files' = [files EXCEPT ![ad[a].id] = ad[a].doc]
  /\ maxId' = IF ad[a].id > maxId THEN ad[a].id ELSE maxId
  /\ UNCHANGED <<since, raced, upSince, upRaced>>

Marks(a, c) ==
  /\ ad[a].pc = "mark" /\ c.pc = "added"
  /\ UNCHANGED <<files, maxId, since, raced, upSince, upRaced>>

AdderMove(a, c) ==
  /\ ad' = [ad EXCEPT ![a] = c] /\ UNCHANGED <<up, web, crashes>>
  /\ Checks(a, c) \/ Crawls(a, c) \/ Opens(a, c) \/ Writes(a, c) \/ Marks(a, c)

LEMMA AdderMoves ==
  ASSUME Typed, NEW a \in Adders, AdderStep(a) \/ \E i \in Ids : AddCheck(a, i)
  PROVE  \E c \in AddCalls : AdderMove(a, c)
<1>0. ad \in [Adders -> AddCalls] /\ ad[a] \in AddCalls /\ AddCallOK(ad[a])
  BY DEF Typed, TypeOK
<1>1. ASSUME NEW i \in Ids, AddCheck(a, i) PROVE \E c \in AddCalls : AdderMove(a, c)
  <2> DEFINE c == [NoAdd EXCEPT !.pc = IF IsFile(i) THEN "refused" ELSE "crawl",
                                !.id = IF IsFile(i) THEN -1 ELSE i]
  <2>1. c \in AddCalls /\ (c.pc = "crawl" => c.id = i) /\ (c.pc = "crawl" <=> ~IsFile(i))
        /\ c.pc \in {"crawl", "refused"}
    BY DEF NoAdd, AddCalls
  <2>2. ad' = [ad EXCEPT ![a] = c] /\ UNCHANGED <<up, web, crashes>>
    BY <1>1 DEF AddCheck
  <2>3. /\ ad[a].pc \in {"idle", "added", "refused"}
        /\ since' = [since EXCEPT ![a] = IF IsFile(i) THEN 0 ELSE web]
        /\ UNCHANGED <<files, maxId, raced, upSince, upRaced>>
    BY <1>1 DEF AddCheck
  <2> HIDE DEF c
  <2>4. Checks(a, c)
    BY <2>1, <2>3 DEF Checks
  <2> QED
    BY <2>1, <2>2, <2>4 DEF AdderMove
<1>2. CASE AddCrawl(a)
  <2> PICK d \in Crawled : ad' = [ad EXCEPT ![a] = [ad[a] EXCEPT !.pc = "dump", !.doc = d]]
    BY <1>2 DEF AddCrawl
  <2> DEFINE c == [ad[a] EXCEPT !.pc = "dump", !.doc = d]
  <2>1. c \in AddCalls /\ c.pc = "dump" /\ c.id = ad[a].id /\ c.doc \in Crawled
    BY <1>0 DEF AddCalls, Crawled
  <2>2. ad' = [ad EXCEPT ![a] = c] /\ UNCHANGED <<up, web, crashes>>
        /\ UNCHANGED <<files, maxId, since, raced, upSince, upRaced>> /\ ad[a].pc = "crawl"
    BY <1>2 DEF AddCrawl
  <2> HIDE DEF c
  <2> QED
    BY <2>1, <2>2 DEF AdderMove, Crawls
<1>3. CASE AddOpen(a)
  <2> DEFINE c == [ad[a] EXCEPT !.pc = "writing"]
  <2>1. c \in AddCalls /\ c.pc = "writing" /\ c.id = ad[a].id /\ c.doc = ad[a].doc
    BY <1>0 DEF AddCalls
  <2>2. ad[a].pc = "dump" /\ ad[a].id \in Ids /\ ad[a].doc \in Doc
    BY <1>0, <1>3 DEF AddOpen, AddCallOK
  <2>3. ad' = [ad EXCEPT ![a] = c] /\ UNCHANGED <<up, web, crashes>>
    BY <1>3 DEF AddOpen
  <2> HIDE DEF c
  <2>4. Opens(a, c)
    BY <1>3, <2>1, <2>2 DEF AddOpen, Opens
  <2> QED
    BY <2>1, <2>3, <2>4 DEF AdderMove
<1>4. CASE AddWrite(a)
  <2> DEFINE c == [ad[a] EXCEPT !.pc = "mark"]
  <2>1. c \in AddCalls /\ c.pc = "mark"
    BY <1>0 DEF AddCalls
  <2>2. ad' = [ad EXCEPT ![a] = c] /\ UNCHANGED <<up, web, crashes>>
        /\ ad[a].id \in Ids /\ ad[a].doc \in Doc
    BY <1>0, <1>4 DEF AddWrite, AddCallOK
  <2> HIDE DEF c
  <2>3. Writes(a, c)
    BY <1>4, <2>1, <2>2 DEF AddWrite, Writes
  <2> QED
    BY <2>1, <2>2, <2>3 DEF AdderMove
<1>5. CASE AddMark(a)
  <2> DEFINE c == [NoAdd EXCEPT !.pc = "added"]
  <2>1. c \in AddCalls /\ c.pc = "added"
    BY IdleTyped DEF AddCalls
  <2>2. ad' = [ad EXCEPT ![a] = c] /\ UNCHANGED <<up, web, crashes>>
        /\ UNCHANGED <<files, maxId, since, raced, upSince, upRaced>> /\ ad[a].pc = "mark"
    BY <1>5 DEF AddMark
  <2> HIDE DEF c
  <2> QED
    BY <2>1, <2>2 DEF AdderMove, Marks
<1> QED
  BY <1>1, <1>2, <1>3, <1>4, <1>5 DEF AdderStep

\* The ways a step changes the call of the update thread.
Pauses ==
  /\ up.pc \notin {"crawl", "dump", "writing"} /\ up'.pc \in {"walk", "end", "dead"}
  /\ UNCHANGED <<files, maxId, since, raced, upRaced>>

Finds ==
  /\ up.pc = "walk" /\ up'.pc = "crawl" /\ up'.cur = up.cur
  /\ LockFree /\ up.cur \in Ids /\ files[up.cur] \in Doc
  /\ upSince' = web
  /\ UNCHANGED <<files, maxId, since, raced, upRaced>>

Refetches ==
  /\ up.pc = "crawl" /\ up'.pc = "dump" /\ up'.cur = up.cur /\ up'.doc \in Crawled
  /\ UNCHANGED <<files, maxId, since, raced, upSince, upRaced>>

Reopens ==
  /\ up.pc = "dump" /\ up'.pc = "writing" /\ up'.cur = up.cur /\ up'.doc = up.doc
  /\ LockFree /\ up.cur \in Ids /\ up.doc \in Doc
  /\ files' = [files EXCEPT ![up.cur] = Torn]
  /\ raced' = raced \cup Overtaken(up.cur) /\ upSince' = 0 /\ upRaced' = FALSE
  /\ UNCHANGED <<maxId, since>>

Rewrites ==
  /\ up.pc = "writing" /\ up'.pc = "walk" /\ up.cur \in Ids /\ up.doc \in Doc
  /\ files' = [files EXCEPT ![up.cur] = up.doc]
  /\ maxId' = IF up.cur > maxId THEN up.cur ELSE maxId
  /\ UNCHANGED <<since, raced, upSince, upRaced>>

UpdateMove ==
  /\ UNCHANGED <<ad, web, crashes>>
  /\ Pauses \/ Finds \/ Refetches \/ Reopens \/ Rewrites

LEMMA UpdateMoves ==
  ASSUME Typed, UpdateStep \/ \E last \in 0..MaxId : UpdateStart(last)
  PROVE  UpdateMove
<1>0. up \in UpdateCalls /\ UpdateCallOK /\ files \in [Ids -> Doc \cup {Missing, Torn}]
  BY DEF Typed, TypeOK
<1>1. ASSUME NEW last \in 0..MaxId, UpdateStart(last) PROVE UpdateMove
  <2>1. up.pc \in {"sleep", "end"} /\ up'.pc = "walk"
        /\ UNCHANGED <<files, maxId, since, raced, upRaced, ad, web, crashes>>
    BY <1>1 DEF UpdateStart, NoUpdate
  <2> QED
    BY <2>1 DEF UpdateMove, Pauses
<1>2. CASE UpdateWalk
  <2>1. up.pc = "walk" /\ UNCHANGED <<files, maxId, since, raced, upRaced, ad, web, crashes>>
        /\ upSince' = (IF up'.pc = "crawl" THEN web ELSE 0)
    BY <1>2 DEF UpdateWalk
  <2>2. CASE up.cur < 0 \/ ~IsFile(up.cur)
    <3>1. up'.pc \in {"walk", "end"}
      BY <1>0, <1>2, <2>2 DEF UpdateWalk, UpdateCalls
    <3> QED
      BY <2>1, <3>1 DEF UpdateMove, Pauses
  <2>3. CASE ~(up.cur < 0) /\ IsFile(up.cur)
    <3>1. LockFree /\ \/ up' = [NoUpdate EXCEPT !.pc = "dead"]
                      \/ up' = [up EXCEPT !.pc = "end"]
                      \/ files[up.cur] # Torn /\ up' = [up EXCEPT !.pc = "crawl"]
      BY <1>2, <2>3 DEF UpdateWalk
    <3>2. CASE up' = [NoUpdate EXCEPT !.pc = "dead"] \/ up' = [up EXCEPT !.pc = "end"]
      <4>1. up'.pc \in {"dead", "end"}
        BY <1>0, <3>2 DEF UpdateCalls, NoUpdate
      <4> QED
        BY <2>1, <4>1 DEF UpdateMove, Pauses
    <3>3. CASE files[up.cur] # Torn /\ up' = [up EXCEPT !.pc = "crawl"]
      <4>1. up'.pc = "crawl" /\ up'.cur = up.cur
        BY <1>0, <3>3 DEF UpdateCalls
      <4>2. up.cur \in Ids
        BY <1>0, <2>3, IdsAreIntegers DEF UpdateCalls
      <4>3. files[up.cur] \in Doc
        BY <1>0, <2>3, <3>3, <4>2 DEF IsFile
      <4> QED
        BY <2>1, <3>1, <4>1, <4>2, <4>3 DEF UpdateMove, Finds
    <3> QED
      BY <3>1, <3>2, <3>3
  <2> QED
    BY <2>2, <2>3
<1>3. CASE UpdateCrawl
  <2> PICK d \in Crawled : up' = [up EXCEPT !.pc = "dump", !.doc = d]
    BY <1>3 DEF UpdateCrawl
  <2>1. up.pc = "crawl" /\ UNCHANGED <<files, maxId, ad, web, crashes>>
        /\ UNCHANGED <<since, raced, upSince, upRaced>>
    BY <1>3 DEF UpdateCrawl
  <2>2. up'.pc = "dump" /\ up'.cur = up.cur /\ up'.doc \in Crawled
    BY <1>0 DEF UpdateCalls
  <2> QED
    BY <2>1, <2>2 DEF UpdateMove, Refetches
<1>4. CASE UpdateOpen
  <2>1. up.pc = "dump" /\ up.cur \in Ids /\ up.doc \in Doc
    BY <1>0, <1>4 DEF UpdateOpen, UpdateCallOK
  <2>2. up'.pc = "writing" /\ up'.cur = up.cur /\ up'.doc = up.doc
    BY <1>0, <1>4 DEF UpdateOpen, UpdateCalls
  <2> QED
    BY <1>4, <2>1, <2>2 DEF UpdateOpen, UpdateMove, Reopens
<1>5. CASE UpdateWrite
  <2>1. up.pc = "writing" /\ up.cur \in Ids /\ up.doc \in Doc
    BY <1>0, <1>5 DEF UpdateWrite, UpdateCallOK
  <2>2. up'.pc = "walk"
    BY <1>0, <1>5 DEF UpdateWrite, UpdateCalls
  <2> QED
    BY <1>5, <2>1, <2>2 DEF UpdateWrite, UpdateMove, Rewrites
<1> QED
  BY <1>1, <1>2, <1>3, <1>4, <1>5 DEF UpdateStep

\* A step that touches no document and no call that stores one.
Elsewhere ==
  /\ UNCHANGED <<files, maxId, ad, up, crashes, since, raced, upSince, upRaced>>
  /\ web' = web \/ (web < MaxVer /\ web' = web + 1)

LEMMA Moves ==
  ASSUME Typed, [Next]_vars
  PROVE  \/ \E a \in Adders : \E c \in AddCalls : AdderMove(a, c)
         \/ UpdateMove
         \/ Restart
         \/ Elsewhere
<1>1. ASSUME NEW r \in Readers, ReaderStep(r) \/ Ask(r) PROVE Elsewhere
  BY <1>1 DEF ReaderStep, Ask, Get, WakeUp, OldestStep, SearchStep, ReaderGoesTo, AskById,
              AskNewest, AskOldest, AskByUrl, Begin, Elsewhere
<1>2. WebChanges => Elsewhere
  BY DEF WebChanges, Elsewhere
<1>3. NotifyStop \/ UNCHANGED vars => Elsewhere
  BY DEF NotifyStop, Elsewhere
<1> QED
  BY <1>1, <1>2, <1>3, AdderMoves, UpdateMoves DEF Next
-----------------------------------------------------------------------------
\* Races.  A page is stored as of some moment since its call began.  The file that an
\* adder found missing stays missing, and the one that the update thread could load
\* stays as it was, until another call opens it; that is when the call is raced.
Storing(pc) == pc \in {"dump", "writing"}

AddAfterCheck(a) ==
  /\ a \in raced => Pending(ad[a])
  /\ Pending(ad[a]) => 1 <= since[a] /\ since[a] <= web
  /\ Pending(ad[a]) /\ a \notin raced => ~IsFile(ad[a].id)
  /\ ad[a].pc = "dump" => since[a] <= ad[a].doc.ver
  /\ Storing(ad[a].pc) => ad[a].doc.ver <= web

AddsAfterChecks == \A a \in Adders : AddAfterCheck(a)

RefetchesAfterLoads ==
  /\ upRaced => Pending(up)
  /\ Pending(up) => 1 <= upSince /\ upSince <= web
  /\ Pending(up) /\ ~upRaced => files[up.cur] \in Doc /\ files[up.cur].ver <= upSince
  /\ up.pc = "dump" => upSince <= up.doc.ver
  /\ Storing(up.pc) => up.doc.ver <= web

NoneFromLater == \A i \in Ids : files[i].ver <= web

RaceInv == AddsAfterChecks /\ RefetchesAfterLoads /\ NoneFromLater

LEMMA VersionsAreNumbers ==
  /\ Missing.ver = 0 /\ Torn.ver = 0
  /\ \A d \in Doc : d.ver \in Int /\ d.ver >= 1 /\ d.ver <= MaxVer
  /\ \A d \in Crawled : d \in Doc /\ d.ver = web
BY FileKinds, MaxVerAssumption DEF Missing, Torn, Doc, Crawled

LEMMA Numbers ==
  ASSUME Typed
  PROVE  /\ web \in Int /\ web >= 1 /\ web <= MaxVer /\ MaxVer \in Int
         /\ upSince \in Int /\ \A a \in Adders : since[a] \in Int
         /\ \A i \in Ids : files[i].ver \in Int
<1>1. /\ web \in 1..MaxVer /\ upSince \in 0..MaxVer /\ since \in [Adders -> 0..MaxVer]
      /\ files \in [Ids -> Doc \cup {Missing, Torn}]
  BY DEF Typed, TypeOK
<1>2. ASSUME NEW i \in Ids PROVE files[i].ver \in Int
  BY <1>1, VersionsAreNumbers
<1> QED
  BY <1>1, <1>2, MaxVerAssumption

LEMMA InitRaces == Init => RaceInv
<1> SUFFICES ASSUME Init PROVE RaceInv
  OBVIOUS
<1>1. /\ \A a \in Adders : ad[a].pc = "idle"
      /\ up.pc = "sleep" /\ raced = {} /\ upRaced = FALSE
      /\ \A i \in Ids : files[i].ver = 0
      /\ web = 1
  BY VersionsAreNumbers DEF Init, NoAdd, NoUpdate
<1> QED
  BY <1>1 DEF RaceInv, AddsAfterChecks, AddAfterCheck, RefetchesAfterLoads, NoneFromLater, Pending, Storing

LEMMA NextNoneFromLater ==
  ASSUME Typed, RaceInv, [Next]_vars
  PROVE  NoneFromLater'
<1>0. /\ files \in [Ids -> Doc \cup {Missing, Torn}]
      /\ \A i \in Ids : files[i].ver <= web /\ files[i].ver \in Int
      /\ web \in Int /\ web >= 1
  BY Numbers DEF Typed, TypeOK, RaceInv, NoneFromLater
<1>1. ASSUME NEW k \in Ids, NEW d \in Doc \cup {Torn}, d.ver <= web,
             files' = [files EXCEPT ![k] = d], web' = web
      PROVE  NoneFromLater'
  BY <1>0, <1>1 DEF NoneFromLater
<1>t. Torn.ver <= web
  BY <1>0, VersionsAreNumbers
<1>2. CASE files' = files /\ (web' = web \/ web' = web + 1)
  <2>1. web <= web' /\ web' \in Int
    BY <1>0, <1>2
  <2> QED
    BY <1>0, <1>2, <2>1 DEF NoneFromLater
<1>3. ASSUME NEW a \in Adders, NEW c \in AddCalls, AdderMove(a, c) PROVE NoneFromLater'
  <2>1. Storing(ad[a].pc) => ad[a].doc.ver <= web
    BY DEF RaceInv, AddsAfterChecks, AddAfterCheck
  <2>2. CASE Opens(a, c)
    BY <1>1, <1>3, <1>t, <2>2 DEF Opens, AdderMove
  <2>3. CASE Writes(a, c)
    BY <1>0, <1>1, <1>3, <2>1, <2>3 DEF Writes, AdderMove, Storing
  <2>4. CASE Checks(a, c) \/ Crawls(a, c) \/ Marks(a, c)
    BY <1>2, <1>3, <2>4 DEF Checks, Crawls, Marks, AdderMove
  <2> QED
    BY <1>3, <2>2, <2>3, <2>4 DEF AdderMove
<1>4. CASE UpdateMove
  <2>1. Storing(up.pc) => up.doc.ver <= web
    BY DEF RaceInv, RefetchesAfterLoads
  <2>2. CASE Reopens
    BY <1>1, <1>4, <1>t, <2>2 DEF Reopens, UpdateMove
  <2>3. CASE Rewrites
    BY <1>0, <1>1, <1>4, <2>1, <2>3 DEF Rewrites, UpdateMove, Storing
  <2>4. CASE Pauses \/ Finds \/ Refetches
    BY <1>2, <1>4, <2>4 DEF Pauses, Finds, Refetches, UpdateMove
  <2> QED
    BY <1>4, <2>2, <2>3, <2>4 DEF UpdateMove
<1>5. CASE Restart
  BY <1>2, <1>5 DEF Restart
<1>6. CASE Elsewhere
  BY <1>2, <1>6 DEF Elsewhere
<1> QED
  BY <1>3, <1>4, <1>5, <1>6, Moves

\* The step of another call: it may overtake this one.
LEMMA OthersRace ==
  ASSUME Typed, NEW b \in Adders, AddAfterCheck(b), ad'[b] = ad[b], since'[b] = since[b],
         web' = web \/ web' = web + 1,
         b \in raced => b \in raced',
         b \in raced' => b \in raced \/ Pending(ad[b]),
         Pending(ad[b]) /\ b \notin raced' => files'[ad[b].id] = files[ad[b].id]
  PROVE  AddAfterCheck(b)'
<1>1. web \in Int /\ since[b] \in Int /\ (Storing(ad[b].pc) => ad[b].doc.ver \in Int)
  <2>1. Storing(ad[b].pc) => ad[b].doc \in Doc
    BY DEF Typed, AddCallOK, Storing
  <2> QED
    BY <2>1, Numbers, VersionsAreNumbers
<1>2. Pending(ad[b])' <=> Pending(ad[b])
  BY DEF Pending
<1>3. web <= web' /\ web' \in Int
  BY <1>1
<1>4. /\ b \in raced' => Pending(ad'[b])
      /\ Pending(ad'[b]) => 1 <= since'[b] /\ since'[b] <= web'
  BY <1>1, <1>2, <1>3 DEF AddAfterCheck
<1>5. Pending(ad'[b]) /\ b \notin raced' => files'[ad'[b].id] = Missing
  BY <1>2 DEF AddAfterCheck, IsFile
<1>6. /\ ad'[b].pc = "dump" => since'[b] <= ad'[b].doc.ver
      /\ Storing(ad'[b].pc) => ad'[b].doc.ver <= web'
  BY <1>1, <1>3 DEF AddAfterCheck
<1> QED
  BY <1>4, <1>5, <1>6 DEF AddAfterCheck, IsFile

\* The adder's own step.
LEMMA OwnRace ==
  ASSUME Typed, FilesInv, NEW a \in Adders, AddAfterCheck(a), NEW c \in AddCalls, AdderMove(a, c)
  PROVE  AddAfterCheck(a)'
<1>0. /\ ad \in [Adders -> AddCalls] /\ ad'[a] = c /\ web' = web
      /\ since \in [Adders -> 0..MaxVer]
  BY DEF AdderMove, Typed, TypeOK
<1>1. web \in Int /\ web >= 1 /\ since[a] \in Int
  BY Numbers
<1>2. CASE Checks(a, c)
  <2>1. a \notin raced' /\ (c.pc = "crawl" => since'[a] = web)
    BY <1>0, <1>2 DEF Checks, AddAfterCheck, Pending
  <2>2. c.pc = "crawl" => files'[c.id] = Missing
    BY <1>2 DEF Checks, IsFile
  <2>3. c.pc \in {"crawl", "refused"}
    BY <1>2 DEF Checks
  <2> QED
    BY <1>0, <1>1, <2>1, <2>2, <2>3 DEF AddAfterCheck, Pending, Storing, IsFile
<1>3. CASE Crawls(a, c)
  <2>1. /\ ad[a].pc = "crawl" /\ c.pc = "dump" /\ c.id = ad[a].id /\ c.doc.ver = web
        /\ UNCHANGED <<files, since, raced>>
    BY <1>3, VersionsAreNumbers DEF Crawls
  <2>2. 1 <= since[a] /\ since[a] <= web /\ (a \notin raced => files[ad[a].id] = Missing)
    BY <2>1 DEF AddAfterCheck, Pending, IsFile
  <2> QED
    BY <1>0, <1>1, <2>1, <2>2 DEF AddAfterCheck, Pending, Storing, IsFile
<1>4. CASE Opens(a, c)
  <2>1. c.pc = "writing" /\ c.doc = ad[a].doc /\ ad[a].pc = "dump" /\ a \notin raced'
    BY <1>4 DEF Opens
  <2>2. ad[a].doc.ver <= web
    BY <2>1 DEF AddAfterCheck, Storing
  <2> QED
    BY <1>0, <2>1, <2>2 DEF AddAfterCheck, Pending, Storing
<1>5. CASE Writes(a, c) \/ Marks(a, c)
  <2>1. c.pc \in {"mark", "added"} /\ ad[a].pc \in {"writing", "mark"} /\ raced' = raced
    BY <1>5 DEF Writes, Marks
  <2>2. a \notin raced'
    BY <2>1 DEF AddAfterCheck, Pending
  <2> QED
    BY <1>0, <2>1, <2>2 DEF AddAfterCheck, Pending, Storing
<1> QED
  BY <1>2, <1>3, <1>4, <1>5 DEF AdderMove

LEMMA NextAddsAfterChecks ==
  ASSUME Typed, FilesInv, RaceInv, [Next]_vars
  PROVE  AddsAfterChecks'
<1> SUFFICES ASSUME NEW b \in Adders PROVE AddAfterCheck(b)'
  BY DEF AddsAfterChecks
<1>0. /\ ad \in [Adders -> AddCalls] /\ files \in [Ids -> Doc \cup {Missing, Torn}]
      /\ since \in [Adders -> 0..MaxVer] /\ raced \subseteq Adders
      /\ AddAfterCheck(b) /\ (Pending(ad[b]) => ad[b].id \in Ids)
      /\ Missing # Torn
  BY FileKinds DEF Typed, TypeOK, RaceInv, AddsAfterChecks, AddCallOK, Pending
<1>1. ASSUME NEW a \in Adders, NEW c \in AddCalls, AdderMove(a, c) PROVE AddAfterCheck(b)'
  <2>1. CASE a = b
    BY <1>0, <1>1, <2>1, OwnRace
  <2>2. CASE a # b
    <3>1. ad'[b] = ad[b] /\ web' = web
      BY <1>0, <1>1, <2>2 DEF AdderMove
    <3>2. CASE Checks(a, c) \/ Crawls(a, c) \/ Marks(a, c)
      <4>1. files' = files /\ raced' = raced /\ since'[b] = since[b]
        BY <1>0, <2>2, <3>2 DEF Checks, Crawls, Marks
      <4> QED
        BY <1>0, <3>1, <4>1, OthersRace
    <3>3. CASE Opens(a, c)
      <4>1. /\ since'[b] = since[b] /\ files' = [files EXCEPT ![ad[a].id] = Torn]
            /\ raced' = (raced \cup Overtaken(ad[a].id)) \ {a}
        BY <1>0, <2>2, <3>3 DEF Opens
      <4>2. /\ b \in raced => b \in raced'
            /\ b \in raced' => b \in raced \/ Pending(ad[b])
            /\ Pending(ad[b]) /\ ad[b].id = ad[a].id => b \in raced'
        BY <2>2, <4>1 DEF Overtaken
      <4>3. Pending(ad[b]) /\ b \notin raced' => files'[ad[b].id] = files[ad[b].id]
        BY <1>0, <4>1, <4>2
      <4> QED
        BY <1>0, <3>1, <4>1, <4>2, <4>3, OthersRace
    <3>4. CASE Writes(a, c)
      <4>1. /\ since' = since /\ raced' = raced /\ Writing(ad[a])
            /\ files' = [files EXCEPT ![ad[a].id] = ad[a].doc]
        BY <3>4 DEF Writes, Writing
      <4>2. files[ad[a].id] = Torn
        BY <4>1 DEF FilesInv, WrittenIsTorn
      <4>3. Pending(ad[b]) /\ b \notin raced' => ad[b].id # ad[a].id
        BY <1>0, <4>1, <4>2 DEF AddAfterCheck, IsFile
      <4>4. Pending(ad[b]) /\ b \notin raced' => files'[ad[b].id] = files[ad[b].id]
        BY <1>0, <4>1, <4>3
      <4> QED
        BY <1>0, <3>1, <4>1, <4>4, OthersRace
    <3> QED
      BY <1>1, <3>2, <3>3, <3>4 DEF AdderMove
  <2> QED
    BY <2>1, <2>2
<1>2. CASE UpdateMove
  <2>1. ad' = ad /\ web' = web
    BY <1>2 DEF UpdateMove
  <2>2. CASE Pauses \/ Finds \/ Refetches
    <3>1. files' = files /\ raced' = raced /\ since' = since
      BY <2>2 DEF Pauses, Finds, Refetches
    <3> QED
      BY <1>0, <2>1, <3>1, OthersRace
  <2>3. CASE Reopens
    <3>1. /\ since' = since /\ files' = [files EXCEPT ![up.cur] = Torn]
          /\ raced' = raced \cup Overtaken(up.cur)
      BY <2>3 DEF Reopens
    <3>2. /\ b \in raced => b \in raced'
          /\ b \in raced' => b \in raced \/ Pending(ad[b])
          /\ Pending(ad[b]) /\ ad[b].id = up.cur => b \in raced'
      BY <3>1 DEF Overtaken
    <3>3. Pending(ad[b]) /\ b \notin raced' => files'[ad[b].id] = files[ad[b].id]
      BY <1>0, <3>1, <3>2
    <3> QED
      BY <1>0, <2>1, <3>1, <3>2, <3>3, OthersRace
  <2>4. CASE Rewrites
    <3>1. /\ since' = since /\ raced' = raced /\ Writing(up)
          /\ files' = [files EXCEPT ![up.cur] = up.doc]
      BY <2>4 DEF Rewrites, Writing
    <3>2. files[up.cur] = Torn
      BY <3>1 DEF FilesInv, WrittenIsTorn
    <3>3. Pending(ad[b]) /\ b \notin raced' => ad[b].id # up.cur
      BY <1>0, <3>1, <3>2 DEF AddAfterCheck, IsFile
    <3>4. Pending(ad[b]) /\ b \notin raced' => files'[ad[b].id] = files[ad[b].id]
      BY <1>0, <3>1, <3>3
    <3> QED
      BY <1>0, <2>1, <3>1, <3>4, OthersRace
  <2> QED
    BY <1>2, <2>2, <2>3, <2>4 DEF UpdateMove
<1>3. CASE Restart
  <2>1. ad'[b].pc = "idle" /\ raced' = {}
    BY <1>3 DEF Restart, NoAdd
  <2> QED
    BY <2>1 DEF AddAfterCheck, Pending, Storing
<1>4. CASE Elsewhere
  BY <1>0, <1>4, OthersRace DEF Elsewhere
<1> QED
  BY <1>1, <1>2, <1>3, <1>4, Moves

\* The same of the update thread.
LEMMA OthersRaceUpdate ==
  ASSUME Typed, RefetchesAfterLoads, up' = up, upSince' = upSince,
         web' = web \/ web' = web + 1,
         upRaced => upRaced',
         upRaced' => upRaced \/ Pending(up),
         Pending(up) /\ ~upRaced' => files'[up.cur] = files[up.cur]
  PROVE  RefetchesAfterLoads'
<1>1. web \in Int /\ upSince \in Int /\ (Storing(up.pc) => up.doc.ver \in Int)
  <2>1. Storing(up.pc) => up.doc \in Doc
    BY DEF Typed, UpdateCallOK, Storing
  <2> QED
    BY <2>1, Numbers, VersionsAreNumbers
<1>2. web <= web' /\ web' \in Int
  BY <1>1
<1>3. (upRaced' => Pending(up')) /\ (Pending(up') => 1 <= upSince' /\ upSince' <= web')
  BY <1>1, <1>2 DEF RefetchesAfterLoads
<1>4. Pending(up') /\ ~upRaced' => files'[up'.cur] \in Doc /\ files'[up'.cur].ver <= upSince'
  BY DEF RefetchesAfterLoads
<1>5. /\ up'.pc = "dump" => upSince' <= up'.doc.ver
      /\ Storing(up'.pc) => up'.doc.ver <= web'
  BY <1>1, <1>2 DEF RefetchesAfterLoads
<1> QED
  BY <1>3, <1>4, <1>5 DEF RefetchesAfterLoads

LEMMA NextRefetches ==
  ASSUME Typed, FilesInv, RaceInv, [Next]_vars
  PROVE  RefetchesAfterLoads'
<1>0. /\ files \in [Ids -> Doc \cup {Missing, Torn}] /\ RefetchesAfterLoads
      /\ (Pending(up) => up.cur \in Ids) /\ Torn \notin Doc
      /\ web \in Int /\ web >= 1 /\ upSince \in Int /\ upRaced \in BOOLEAN
  BY FileKinds, Numbers DEF Typed, TypeOK, RaceInv, UpdateCallOK, Pending
<1>1. ASSUME NEW a \in Adders, NEW c \in AddCalls, AdderMove(a, c) PROVE RefetchesAfterLoads'
  <2>1. up' = up /\ web' = web
    BY <1>1 DEF AdderMove
  <2>2. CASE Checks(a, c) \/ Crawls(a, c) \/ Marks(a, c)
    <3>1. files' = files /\ upRaced' = upRaced /\ upSince' = upSince
      BY <2>2 DEF Checks, Crawls, Marks
    <3> QED
      BY <1>0, <2>1, <3>1, OthersRaceUpdate
  <2>3. CASE Opens(a, c)
    <3>1. /\ upSince' = upSince /\ files' = [files EXCEPT ![ad[a].id] = Torn]
          /\ upRaced' = (upRaced \/ (Pending(up) /\ up.cur = ad[a].id))
      BY <2>3 DEF Opens
    <3>2. Pending(up) /\ ~upRaced' => up.cur # ad[a].id
      BY <3>1
    <3>3. Pending(up) /\ ~upRaced' => files'[up.cur] = files[up.cur]
      BY <1>0, <3>1, <3>2
    <3>4. (upRaced => upRaced') /\ (upRaced' => upRaced \/ Pending(up))
      BY <3>1
    <3> QED
      BY <1>0, <2>1, <3>1, <3>3, <3>4, OthersRaceUpdate
  <2>4. CASE Writes(a, c)
    <3>1. /\ upSince' = upSince /\ upRaced' = upRaced /\ Writing(ad[a])
          /\ files' = [files EXCEPT ![ad[a].id] = ad[a].doc]
      BY <2>4 DEF Writes, Writing
    <3>2. files[ad[a].id] = Torn
      BY <3>1 DEF FilesInv, WrittenIsTorn
    <3>3. Pending(up) /\ ~upRaced' => up.cur # ad[a].id
      BY <1>0, <3>1, <3>2 DEF RefetchesAfterLoads
    <3>4. Pending(up) /\ ~upRaced' => files'[up.cur] = files[up.cur]
      BY <1>0, <3>1, <3>3
    <3> QED
      BY <1>0, <2>1, <3>1, <3>4, OthersRaceUpdate
  <2> QED
    BY <1>1, <2>2, <2>3, <2>4 DEF AdderMove
<1>2. CASE UpdateMove
  <2>0. web' = web
    BY <1>2 DEF UpdateMove
  <2>1. CASE Pauses \/ Rewrites
    <3>1. up.pc \notin {"crawl", "dump"} /\ up'.pc \in {"walk", "end", "dead"} /\ upRaced' = upRaced
      BY <2>1 DEF Pauses, Rewrites
    <3>2. ~upRaced'
      BY <1>0, <3>1 DEF RefetchesAfterLoads, Pending
    <3> QED
      BY <3>1, <3>2 DEF RefetchesAfterLoads, Pending, Storing
  <2>2. CASE Finds
    <3>1. /\ up.pc = "walk" /\ up'.pc = "crawl" /\ up'.cur = up.cur /\ upSince' = web
          /\ up.cur \in Ids /\ files[up.cur] \in Doc /\ files' = files /\ upRaced' = upRaced
      BY <2>2 DEF Finds
    <3>2. ~upRaced' /\ files[up.cur].ver <= web
      BY <1>0, <3>1 DEF RefetchesAfterLoads, Pending, RaceInv, NoneFromLater
    <3> QED
      BY <1>0, <2>0, <3>1, <3>2 DEF RefetchesAfterLoads, Pending, Storing
  <2>3. CASE Refetches
    <3>1. /\ up.pc = "crawl" /\ up'.pc = "dump" /\ up'.cur = up.cur /\ up'.doc.ver = web
          /\ UNCHANGED <<files, upSince, upRaced>>
      BY <2>3, VersionsAreNumbers DEF Refetches
    <3>2. /\ 1 <= upSince /\ upSince <= web
          /\ ~upRaced => files[up.cur] \in Doc /\ files[up.cur].ver <= upSince
      BY <1>0, <3>1 DEF RefetchesAfterLoads, Pending
    <3> QED
      BY <1>0, <2>0, <3>1, <3>2 DEF RefetchesAfterLoads, Pending, Storing
  <2>4. CASE Reopens
    <3>1. up.pc = "dump" /\ up'.pc = "writing" /\ up'.doc = up.doc /\ upRaced' = FALSE
      BY <2>4 DEF Reopens
    <3>2. up.doc.ver <= web
      BY <1>0, <3>1 DEF RefetchesAfterLoads, Storing
    <3> QED
      BY <2>0, <3>1, <3>2 DEF RefetchesAfterLoads, Pending, Storing
  <2> QED
    BY <1>2, <2>1, <2>2, <2>3, <2>4 DEF UpdateMove
<1>3. CASE Restart
  <2>1. up'.pc = "sleep" /\ upRaced' = FALSE
    BY <1>3 DEF Restart, NoUpdate
  <2> QED
    BY <2>1 DEF RefetchesAfterLoads, Pending, Storing
<1>4. CASE Elsewhere
  BY <1>0, <1>4, OthersRaceUpdate DEF Elsewhere
<1> QED
  BY <1>1, <1>2, <1>3, <1>4, Moves

LEMMA RaceInvariant == Spec => []RaceInv
<1>1. StorageInv /\ RaceInv /\ [Next]_vars => RaceInv'
  BY NextNoneFromLater, NextAddsAfterChecks, NextRefetches DEF StorageInv, RaceInv
<1> QED
  BY <1>1, InitRaces, StorageInvariant, PTL DEF Spec

\* Whatever the threads of the board listener add, and be it the same ids: add_doc writes
\* over a document, and the re-fetch replaces one by an older version of its page, only when
\* another call has opened the file since this one looked for it (add_doc, _update_doc).
THEOREM OnlyRaces == Spec => OnlyRacesOverwrite
<1>1. ASSUME Typed, RaceInv
      PROVE  /\ \A a \in Adders :
                  ad[a].pc = "dump" /\ ad'[a].pc = "writing" /\ IsFile(ad[a].id) => a \in raced
             /\ up.pc = "dump" /\ up'.pc = "writing" /\ files[up.cur].ver > up.doc.ver
                  => upRaced
  <2>1. ASSUME NEW a \in Adders, ad[a].pc = "dump", IsFile(ad[a].id) PROVE a \in raced
    BY <1>1, <2>1 DEF RaceInv, AddsAfterChecks, AddAfterCheck, Pending
  <2>2. ASSUME up.pc = "dump", ~upRaced PROVE ~(files[up.cur].ver > up.doc.ver)
    <3>1. files[up.cur].ver <= upSince /\ upSince <= up.doc.ver
      BY <1>1, <2>2 DEF RaceInv, RefetchesAfterLoads, Pending
    <3>2. files[up.cur].ver \in Int /\ upSince \in Int /\ up.doc.ver \in Int
      BY <1>1, <2>2, Numbers, VersionsAreNumbers DEF Typed, UpdateCallOK
    <3> QED
      BY <3>1, <3>2
  <2> QED
    BY <2>1, <2>2
<1>2. StorageInv /\ RaceInv =>
        [/\ \A a \in Adders :
              ad[a].pc = "dump" /\ ad'[a].pc = "writing" /\ IsFile(ad[a].id) => a \in raced
         /\ up.pc = "dump" /\ up'.pc = "writing" /\ files[up.cur].ver > up.doc.ver
              => upRaced]_vars
  BY <1>1 DEF StorageInv
<1> QED
  BY <1>2, StorageInvariant, RaceInvariant, PTL DEF OnlyRacesOverwrite
-----------------------------------------------------------------------------
\* The mirror.  The walk never climbs above max_id.
LowInv == up.pc \in {"walk", "crawl", "dump", "writing"} => up.cur <= maxId

MirrorInv == StorageInv /\ RaceInv /\ LowInv

\* max_id only grows while the process lives.
LEMMA MaxIdGrows == Typed /\ [Next]_vars => Restart \/ maxId <= maxId'
<1> SUFFICES ASSUME Typed, [Next]_vars, ~Restart PROVE maxId <= maxId'
  OBVIOUS
<1>0. /\ maxId \in Int /\ UpdateCallOK
      /\ \A a \in Adders : AddCallOK(ad[a])
  BY IdsAreIntegers DEF Typed, TypeOK
<1>1. ASSUME NEW a \in Adders, AddWrite(a) PROVE maxId <= maxId'
  <2>1. ad[a].id \in Int /\ maxId' = (IF ad[a].id > maxId THEN ad[a].id ELSE maxId)
    BY <1>0, <1>1, IdsAreIntegers DEF AddWrite, AddCallOK
  <2> QED
    BY <1>0, <2>1
<1>2. CASE UpdateWrite
  <2>1. up.cur \in Int /\ maxId' = (IF up.cur > maxId THEN up.cur ELSE maxId)
    BY <1>0, <1>2, IdsAreIntegers DEF UpdateWrite, UpdateCallOK
  <2> QED
    BY <1>0, <2>1
<1>3. CASE Quiet \/ UpdateOpen \/ \E a \in Adders : AddOpen(a)
  BY <1>0, <1>3 DEF Quiet, UpdateOpen, AddOpen
<1> QED
  BY <1>1, <1>2, <1>3, StepKinds

LEMMA NextLow == Typed /\ LowInv /\ [Next]_vars => LowInv'
<1> SUFFICES ASSUME Typed, LowInv, [Next]_vars PROVE LowInv'
  OBVIOUS
<1>a. \A i : i \in Ids \cup {-1} => i \in Int
  BY IdsAreIntegers
<1>0. up \in UpdateCalls /\ UpdateCallOK /\ maxId \in Int /\ maxId' \in Int /\ up.cur \in Int
  <2>1. up \in UpdateCalls /\ UpdateCallOK /\ maxId \in Ids \cup {-1}
    BY DEF Typed, TypeOK
  <2>2. up.cur \in Ids \cup {-1}
    BY <2>1 DEF UpdateCalls
  <2>3. maxId' \in Ids \cup {-1}
    BY FilesTyped
  <2> QED
    BY <1>a, <2>1, <2>2, <2>3
<1>1. CASE Restart
  BY <1>1 DEF Restart, NoUpdate, LowInv
<1>2. CASE ~Restart /\ up' = up
  <2>1. maxId <= maxId'
    BY <1>2, MaxIdGrows
  <2> QED
    BY <1>0, <1>2, <2>1 DEF LowInv
<1>3. ASSUME NEW last \in 0..MaxId, UpdateStart(last) PROVE LowInv'
  <2>1. up'.pc = "walk" /\ up'.cur = maxId /\ maxId' = maxId
    BY <1>3 DEF UpdateStart, NoUpdate
  <2> QED
    BY <1>0, <2>1 DEF LowInv
<1>4. CASE UpdateWalk
  <2>1. up.pc = "walk" /\ up.cur <= maxId /\ maxId' = maxId
    BY <1>4 DEF UpdateWalk, LowInv
  <2>2. \/ up' = [up EXCEPT !.pc = "end"] \/ up' = [up EXCEPT !.cur = up.cur - 1]
        \/ up' = [NoUpdate EXCEPT !.pc = "dead"] \/ up' = [up EXCEPT !.pc = "crawl"]
    BY <1>4 DEF UpdateWalk
  <2>3. up'.pc \in {"end", "dead"} \/ up'.cur \in {up.cur, up.cur - 1}
    BY <1>0, <2>2 DEF UpdateCalls, NoUpdate
  <2> QED
    BY <1>0, <2>1, <2>3 DEF LowInv
<1>5. CASE UpdateCrawl \/ UpdateOpen
  <2>1. up.pc \in {"crawl", "dump"} /\ maxId' = maxId /\ up'.cur = up.cur
    BY <1>0, <1>5 DEF UpdateCrawl, UpdateOpen, UpdateCalls
  <2> QED
    BY <2>1 DEF LowInv
<1>6. CASE UpdateWrite
  <2>1. /\ up.cur <= maxId
        /\ maxId' = (IF up.cur > maxId THEN up.cur ELSE maxId)
        /\ up'.cur = up.cur - 1 /\ up'.pc = "walk"
    BY <1>0, <1>6 DEF UpdateWrite, UpdateCalls, LowInv
  <2> QED
    BY <1>0, <2>1 DEF LowInv
<1> QED
  BY <1>1, <1>2, <1>3, <1>4, <1>5, <1>6, CallsTouched DEF UpdateStep

LEMMA MirrorInvariant == Spec => []MirrorInv
<1>1. Init => LowInv
  BY DEF Init, NoUpdate, LowInv
<1>2. StorageInv /\ LowInv /\ [Next]_vars => LowInv'
  BY NextLow DEF StorageInv
<1> QED
  BY <1>1, <1>2, RaceInvariant, StorageInvariant, PTL DEF Spec, MirrorInv

\* What Mirror sees of the documents and of the calls.
Stores == [i \in Ids |-> Version(i)]
Adding == [a \in Adders |-> ToStore(ad[a], ad[a].id, since[a])]
Fetching == ToStore(up, up.cur, upSince)

LEMMA WriterIs ==
  ASSUME OneWriter, NEW a \in Adders, Writing(ad[a])
  PROVE  AddWriting /\ Writer = a
<1>1. \A b \in Adders : ad[b].pc = "writing" => b = a
  BY DEF OneWriter, Writing
<1> QED
  BY <1>1 DEF AddWriting, Writer, Writing

LEMMA WriterIsNext ==
  ASSUME OneWriter', NEW a \in Adders, Writing(ad'[a])
  PROVE  AddWriting' /\ Writer' = a
<1>1. \A b \in Adders : ad'[b].pc = "writing" => b = a
  BY DEF OneWriter, Writing
<1> QED
  BY <1>1 DEF AddWriting, Writer, Writing

Larger(k, m) == IF k > m THEN k ELSE m

\* What is found under an id, by who is writing it.
LEMMA VersionIs ==
  ASSUME FilesInv, NEW i \in Ids
  PROVE  /\ Writing(up) /\ up.cur = i => Version(i) = up.doc.ver
         /\ \A a \in Adders : Writing(ad[a]) /\ ad[a].id = i => Version(i) = ad[a].doc.ver
         /\ ~Written(i) => Version(i) = IF files[i] = Torn THEN -1 ELSE files[i].ver
<1>1. OneWriter
  BY DEF FilesInv
<1>2. ASSUME NEW a \in Adders, Writing(ad[a]), ad[a].id = i PROVE Version(i) = ad[a].doc.ver
  <2>1. ~Writing(up) /\ AddWriting /\ Writer = a
    BY <1>1, <1>2, WriterIs DEF OneWriter
  <2> QED
    BY <1>2, <2>1 DEF Version, Writing
<1>3. ASSUME ~Written(i) PROVE Version(i) = IF files[i] = Torn THEN -1 ELSE files[i].ver
  <2>1. ~(AddWriting /\ ad[Writer].id = i)
    <3> SUFFICES ASSUME AddWriting PROVE ad[Writer].id # i
      OBVIOUS
    <3>1. PICK a \in Adders : Writing(ad[a])
      BY DEF AddWriting, Writing
    <3>2. Writer = a
      BY <1>1, <3>1, WriterIs
    <3> QED
      BY <1>3, <3>1, <3>2 DEF Written
  <2> QED
    BY <1>3, <2>1 DEF Version, Written, Writing
<1> QED
  BY <1>2, <1>3 DEF Version, Writing

LEMMA VersionIsNext ==
  ASSUME FilesInv', NEW i \in Ids
  PROVE  /\ Writing(up') /\ up'.cur = i => Version(i)' = up'.doc.ver
         /\ \A a \in Adders : Writing(ad'[a]) /\ ad'[a].id = i => Version(i)' = ad'[a].doc.ver
         /\ ~Written(i)' => Version(i)' = IF files'[i] = Torn THEN -1 ELSE files'[i].ver
<1>1. OneWriter'
  BY DEF FilesInv
<1>2. ASSUME NEW a \in Adders, Writing(ad'[a]), ad'[a].id = i PROVE Version(i)' = ad'[a].doc.ver
  <2>1. ~Writing(up') /\ AddWriting' /\ Writer' = a
    BY <1>1, <1>2, WriterIsNext DEF OneWriter
  <2> QED
    BY <1>2, <2>1 DEF Version, Writing
<1>3. ASSUME ~Written(i)' PROVE Version(i)' = IF files'[i] = Torn THEN -1 ELSE files'[i].ver
  <2>1. ~(AddWriting' /\ ad'[Writer'].id = i)
    <3> SUFFICES ASSUME AddWriting' PROVE ad'[Writer'].id # i
      OBVIOUS
    <3>1. PICK a \in Adders : Writing(ad'[a])
      BY DEF AddWriting, Writing
    <3>2. Writer' = a
      BY <1>1, <3>1, WriterIsNext
    <3> QED
      BY <1>3, <3>1, <3>2 DEF Written
  <2> QED
    BY <1>3, <2>1 DEF Version, Written, Writing
<1> QED
  BY <1>2, <1>3 DEF Version, Writing

LEMMA TopIs ==
  ASSUME OneWriter
  PROVE  /\ \A a \in Adders : Writing(ad[a]) => Top = Larger(ad[a].id, maxId)
         /\ (\A a \in Adders : ~Writing(ad[a])) => Top = maxId
BY WriterIs DEF Top, Larger, AddWriting, Writing

LEMMA TopIsNext ==
  ASSUME OneWriter'
  PROVE  /\ \A a \in Adders : Writing(ad'[a]) => Top' = Larger(ad'[a].id, maxId')
         /\ (\A a \in Adders : ~Writing(ad'[a])) => Top' = maxId'
BY WriterIsNext DEF Top, Larger, AddWriting, Writing

\* A document whose file stays and that the same call is writing, or none, is found as
\* before.
LEMMA VersionStays ==
  ASSUME FilesInv, FilesInv', NEW i \in Ids,
         files'[i] = files[i] \/ Written(i),
         Writing(up) /\ up.cur = i <=> Writing(up') /\ up'.cur = i,
         Writing(up) /\ up.cur = i => up'.doc = up.doc,
         \A a \in Adders : Writing(ad[a]) /\ ad[a].id = i <=> Writing(ad'[a]) /\ ad'[a].id = i,
         \A a \in Adders : Writing(ad[a]) /\ ad[a].id = i => ad'[a].doc = ad[a].doc
  PROVE  Version(i)' = Version(i)
<1>1. CASE Writing(up) /\ up.cur = i
  BY <1>1, VersionIs, VersionIsNext
<1>2. ASSUME NEW a \in Adders, Writing(ad[a]), ad[a].id = i PROVE Version(i)' = Version(i)
  BY <1>2, VersionIs, VersionIsNext
<1>3. CASE ~Written(i)
  <2>1. ~Written(i)' /\ files'[i] = files[i]
    BY <1>3 DEF Written
  <2> QED
    BY <1>3, <2>1, VersionIs, VersionIsNext
<1> QED
  BY <1>1, <1>2, <1>3 DEF Written

\* A step that changes neither the files nor the calls that are writing.
Still ==
  /\ files' = files /\ maxId' = maxId
  /\ Writing(up') <=> Writing(up)
  /\ Writing(up) => up' = up
  /\ \A a \in Adders : /\ Writing(ad'[a]) <=> Writing(ad[a])
                       /\ Writing(ad[a]) => ad'[a] = ad[a]

LEMMA StillMirror ==
  ASSUME FilesInv, FilesInv', Still
  PROVE  Stores' = Stores /\ Top' = Top
<1>1. ASSUME NEW i \in Ids PROVE Version(i)' = Version(i)
  BY VersionStays DEF Still
<1>2. OneWriter /\ OneWriter'
  BY DEF FilesInv
<1>3. Top' = Top
  <2>1. CASE \A a \in Adders : ~Writing(ad[a])
    <3>1. \A a \in Adders : ~Writing(ad'[a])
      BY <2>1 DEF Still
    <3> QED
      BY <1>2, <2>1, <3>1, TopIs, TopIsNext DEF Still
  <2>2. ASSUME NEW a \in Adders, Writing(ad[a]) PROVE Top' = Top
    <3>1. Writing(ad'[a]) /\ ad'[a] = ad[a] /\ maxId' = maxId
      BY <2>2 DEF Still
    <3> QED
      BY <1>2, <2>2, <3>1, TopIs, TopIsNext
  <2> QED
    BY <2>1, <2>2
<1> QED
  BY <1>1, <1>3 DEF Stores

\* An adder opens its file: from now on whoever asks for the document waits for it.
LEMMA OpensMirror ==
  ASSUME MirrorInv, FilesInv', NEW a \in Adders, NEW c \in AddCalls, AdderMove(a, c), Opens(a, c)
  PROVE  /\ Stores' = [Stores EXCEPT ![ad[a].id] = ad[a].doc.ver]
         /\ Top' = Larger(ad[a].id, Top)
<1> PICK k : k = ad[a].id
  OBVIOUS
<1>0. /\ FilesInv /\ OneWriter /\ OneWriter' /\ ad \in [Adders -> AddCalls]
      /\ files \in [Ids -> Doc \cup {Missing, Torn}]
  BY DEF MirrorInv, StorageInv, Typed, TypeOK, FilesInv
<1>1. /\ k \in Ids /\ c.pc = "writing" /\ c.id = k /\ c.doc = ad[a].doc /\ LockFree
      /\ files' = [files EXCEPT ![k] = Torn] /\ maxId' = maxId
  BY DEF Opens
<1>2. ad' = [ad EXCEPT ![a] = c] /\ up' = up
  BY DEF AdderMove
<1>3. /\ ad'[a] = c /\ Writing(ad'[a]) /\ \A b \in Adders : b # a => ad'[b] = ad[b]
      /\ \A i \in Ids : i # k => files'[i] = files[i]
  BY <1>0, <1>1, <1>2 DEF Writing
<1>4. ~Writing(up) /\ \A b \in Adders : ~Writing(ad[b])
  BY <1>1 DEF LockFree, Writing
<1>5. Version(k)' = ad[a].doc.ver
  BY <1>1, <1>3, VersionIsNext
<1>6. ASSUME NEW i \in Ids, i # k PROVE Version(i)' = Version(i)
  BY <1>0, <1>1, <1>2, <1>3, <1>4, <1>6, VersionStays
<1>7. Stores' = [Stores EXCEPT ![k] = ad[a].doc.ver]
  BY <1>5, <1>6 DEF Stores
<1>8. Top = maxId /\ Top' = Larger(k, maxId)
  BY <1>0, <1>1, <1>3, <1>4, TopIs, TopIsNext
<1> QED
  BY <1>7, <1>8

\* The adder writes its document: it was counted on before.
LEMMA WritesMirror ==
  ASSUME MirrorInv, FilesInv', NEW a \in Adders, NEW c \in AddCalls, AdderMove(a, c), Writes(a, c)
  PROVE  Stores' = Stores /\ Top' = Top
<1> PICK k : k = ad[a].id
  OBVIOUS
<1>0. /\ FilesInv /\ OneWriter /\ OneWriter' /\ ad \in [Adders -> AddCalls]
      /\ files \in [Ids -> Doc \cup {Missing, Torn}]
  BY DEF MirrorInv, StorageInv, Typed, TypeOK, FilesInv
<1>1. /\ k \in Ids /\ Writing(ad[a]) /\ c.pc = "mark" /\ ad[a].doc \in Doc
      /\ files' = [files EXCEPT ![k] = ad[a].doc] /\ maxId' = Larger(k, maxId)
  BY DEF Writes, Writing, Larger
<1>2. ad' = [ad EXCEPT ![a] = c] /\ up' = up
  BY DEF AdderMove
<1>3. /\ ~Writing(ad'[a]) /\ \A b \in Adders : b # a => ad'[b] = ad[b]
      /\ files'[k] = ad[a].doc /\ \A i \in Ids : i # k => files'[i] = files[i]
  BY <1>0, <1>1, <1>2 DEF Writing
<1>4. ~Writing(up) /\ ~Writing(up') /\ \A b \in Adders : b # a => ~Writing(ad[b])
  BY <1>0, <1>1, <1>2 DEF OneWriter
<1>5. Version(k)' = Version(k)
  <2>1. ~Written(k)'
    BY <1>3, <1>4 DEF Written
  <2>2. Version(k) = ad[a].doc.ver
    BY <1>0, <1>1, VersionIs
  <2>3. Version(k)' = IF files'[k] = Torn THEN -1 ELSE files'[k].ver
    BY <1>1, <2>1, VersionIsNext
  <2>4. files'[k] # Torn
    BY <1>1, <1>3, FileKinds
  <2> QED
    BY <1>3, <2>2, <2>3, <2>4
<1>6. ASSUME NEW i \in Ids, i # k PROVE Version(i)' = Version(i)
  BY <1>0, <1>1, <1>2, <1>3, <1>4, <1>6, VersionStays
<1>7. Stores' = Stores
  BY <1>5, <1>6 DEF Stores
<1>8. Top = Larger(k, maxId) /\ Top' = maxId'
  BY <1>0, <1>1, <1>3, <1>4, TopIs, TopIsNext
<1> QED
  BY <1>1, <1>7, <1>8

\* The same two steps of the update thread.
LEMMA ReopensMirror ==
  ASSUME MirrorInv, FilesInv', UpdateMove, Reopens
  PROVE  Stores' = [Stores EXCEPT ![up.cur] = up.doc.ver] /\ Top' = Top
<1> PICK k : k = up.cur
  OBVIOUS
<1>0. /\ FilesInv /\ OneWriter /\ OneWriter'
      /\ files \in [Ids -> Doc \cup {Missing, Torn}]
  BY DEF MirrorInv, StorageInv, Typed, TypeOK, FilesInv
<1>1. /\ k \in Ids /\ up'.pc = "writing" /\ up'.cur = k /\ up'.doc = up.doc /\ LockFree
      /\ files' = [files EXCEPT ![k] = Torn] /\ maxId' = maxId /\ ad' = ad
  BY DEF Reopens, UpdateMove
<1>2. \A i \in Ids : i # k => files'[i] = files[i]
  BY <1>0, <1>1
<1>3. ~Writing(up) /\ \A b \in Adders : ~Writing(ad[b]) /\ ~Writing(ad'[b])
  BY <1>1 DEF LockFree, Writing
<1>4. Version(k)' = up.doc.ver
  BY <1>1, VersionIsNext DEF Writing
<1>5. ASSUME NEW i \in Ids, i # k PROVE Version(i)' = Version(i)
  BY <1>0, <1>1, <1>2, <1>3, <1>5, VersionStays
<1>6. Stores' = [Stores EXCEPT ![k] = up.doc.ver]
  BY <1>4, <1>5 DEF Stores
<1>7. Top = maxId /\ Top' = maxId'
  BY <1>0, <1>3, TopIs, TopIsNext
<1> QED
  BY <1>1, <1>6, <1>7

LEMMA RewritesMirror ==
  ASSUME MirrorInv, FilesInv', UpdateMove, Rewrites
  PROVE  Stores' = Stores /\ Top' = Top
<1> PICK k : k = up.cur
  OBVIOUS
<1>0. /\ FilesInv /\ OneWriter /\ OneWriter' /\ maxId \in Int
      /\ files \in [Ids -> Doc \cup {Missing, Torn}]
  BY IdsAreIntegers DEF MirrorInv, StorageInv, Typed, TypeOK, FilesInv
<1>1. /\ k \in Ids /\ Writing(up) /\ ~Writing(up') /\ up.doc \in Doc /\ ad' = ad
      /\ files' = [files EXCEPT ![k] = up.doc] /\ maxId' = Larger(k, maxId)
  BY DEF Rewrites, UpdateMove, Writing, Larger
<1>2. files'[k] = up.doc /\ \A i \in Ids : i # k => files'[i] = files[i]
  BY <1>0, <1>1
<1>3. \A b \in Adders : ~Writing(ad[b])
  BY <1>0, <1>1 DEF OneWriter
<1>4. maxId' = maxId
  <2>1. k <= maxId /\ k \in Int
    BY <1>1, IdsAreIntegers DEF MirrorInv, LowInv, Writing
  <2> QED
    BY <1>0, <1>1, <2>1 DEF Larger
<1>5. Version(k)' = Version(k)
  <2>1. ~Written(k)'
    BY <1>1, <1>3 DEF Written
  <2>2. Version(k) = up.doc.ver
    BY <1>0, <1>1, VersionIs
  <2>3. Version(k)' = IF files'[k] = Torn THEN -1 ELSE files'[k].ver
    BY <1>1, <2>1, VersionIsNext
  <2>4. files'[k] # Torn
    BY <1>1, <1>2, FileKinds
  <2> QED
    BY <1>2, <2>2, <2>3, <2>4
<1>6. ASSUME NEW i \in Ids, i # k PROVE Version(i)' = Version(i)
  BY <1>0, <1>1, <1>2, <1>3, <1>6, VersionStays
<1>7. Stores' = Stores
  BY <1>5, <1>6 DEF Stores
<1>8. Top = maxId /\ Top' = maxId'
  BY <1>0, <1>1, <1>3, TopIs, TopIsNext
<1> QED
  BY <1>4, <1>7, <1>8

\* The process dies: only the document being written is lost, and __init__ finds the
\* newest id again.
LEMMA RestartMirror ==
  ASSUME MirrorInv, FilesInv', Restart
  PROVE  /\ Top' = Top
         /\ \/ Stores' = Stores
            \/ \E k \in Ids : Stores[k] # 0 /\ Stores' = [Stores EXCEPT ![k] = -1]
<1>0. /\ FilesInv /\ OneWriter /\ OneWriter' /\ UpdateCallOK /\ maxId \in Ids \cup {-1}
      /\ \A a \in Adders : AddCallOK(ad[a])
      /\ files \in [Ids -> Doc \cup {Missing, Torn}]
  BY DEF MirrorInv, StorageInv, Typed, TypeOK, FilesInv
<1>1. PICK m \in Ids \cup {-1} : IsNewest(m) /\ maxId' = m
  BY DEF Restart
<1>2. files' = files
  BY DEF Restart
<1>n. /\ m \in Int /\ maxId \in Int /\ \A i \in Ids : i \in Int /\ 0 <= i
      /\ m \notin Ids => m = -1
      /\ maxId \notin Ids => maxId = -1
  BY <1>0, IdsAreIntegers
<1>3. (\A i \in Ids : ~Written(i)') /\ \A a \in Adders : ~Writing(ad'[a])
  BY DEF Restart, NoAdd, NoUpdate, Written, Writing
<1>4. ASSUME NEW i \in Ids PROVE Version(i)' = IF files[i] = Torn THEN -1 ELSE files[i].ver
  BY <1>2, <1>3, VersionIsNext
<1>5. ASSUME NEW i \in Ids, ~Written(i) PROVE Version(i)' = Version(i)
  BY <1>0, <1>4, <1>5, VersionIs
<1>t. Top' = m
  BY <1>0, <1>1, <1>3, TopIsNext
<1>6. maxId <= m
  BY <1>0, <1>1, <1>n DEF IsNewest, FilesInv, MaxIdInv
<1>7. CASE \A i \in Ids : ~Written(i)
  <2>1. m <= maxId
    BY <1>0, <1>1, <1>7, <1>n DEF IsNewest, FilesInv, MaxIdInv
  <2>2. \A a \in Adders : ~Writing(ad[a])
    BY <1>0, <1>7 DEF Written, Writing, AddCallOK
  <2>3. Top = maxId
    BY <1>0, <2>2, TopIs
  <2>4. Stores' = Stores
    BY <1>5, <1>7 DEF Stores
  <2> QED
    BY <1>6, <1>n, <1>t, <2>1, <2>3, <2>4
<1>8. CASE \E i \in Ids : Written(i)
  <2>1. PICK k \in Ids : Written(k)
    BY <1>8
  <2>2. files[k] = Torn
    BY <1>0, <2>1 DEF FilesInv, WrittenIsTorn, Written
  <2>3. \A i \in Ids : i # k => ~Written(i)
    BY <1>0, <2>1 DEF FilesInv, OneWriter, Written
  <2>4. Stores' = [Stores EXCEPT ![k] = -1]
    <3>1. Version(k)' = -1
      BY <1>4, <2>2
    <3> QED
      BY <1>5, <2>3, <3>1 DEF Stores
  <2>5. k <= m
    BY <1>1, <2>2, FileKinds DEF IsNewest, IsFile
  <2>6. m = k \/ m <= maxId
    BY <1>0, <1>1, <1>n, <2>3 DEF IsNewest, FilesInv, MaxIdInv
  <2>7. m = Larger(k, maxId)
    BY <1>6, <1>n, <2>5, <2>6 DEF Larger
  <2>8. CASE Writing(up) /\ up.cur = k
    <3>1. \A a \in Adders : ~Writing(ad[a])
      BY <1>0, <2>8 DEF OneWriter
    <3>2. k <= maxId /\ Top = maxId
      BY <1>0, <2>8, <3>1, TopIs DEF MirrorInv, LowInv, Writing
    <3>3. m = maxId
      BY <1>n, <2>7, <3>2 DEF Larger
    <3>4. up.doc \in Doc /\ Version(k) = up.doc.ver
      BY <1>0, <2>8, VersionIs DEF UpdateCallOK, Writing
    <3>5. Stores[k] # 0
      BY <3>4, VersionsAreNumbers DEF Stores
    <3> QED
      BY <1>t, <2>4, <3>2, <3>3, <3>5
  <2>9. ASSUME NEW a \in Adders, Writing(ad[a]), ad[a].id = k
        PROVE  Top = Larger(k, maxId) /\ Stores[k] # 0
    <3>1. Top = Larger(k, maxId)
      BY <1>0, <2>9, TopIs
    <3>2. ad[a].doc \in Doc /\ Version(k) = ad[a].doc.ver
      BY <1>0, <2>9, VersionIs DEF AddCallOK, Writing
    <3> QED
      BY <3>1, <3>2, VersionsAreNumbers DEF Stores
  <2> QED
    BY <1>t, <2>1, <2>4, <2>7, <2>8, <2>9 DEF Written
<1> QED
  BY <1>7, <1>8

\* Steps that neither open nor write a file.
LEMMA AdderStill ==
  ASSUME Typed, NEW a \in Adders, NEW c \in AddCalls, AdderMove(a, c),
         Checks(a, c) \/ Crawls(a, c) \/ Marks(a, c)
  PROVE  Still
<1>1. ad \in [Adders -> AddCalls] /\ ad' = [ad EXCEPT ![a] = c] /\ up' = up
  BY DEF Typed, TypeOK, AdderMove
<1>2. ~Writing(ad[a]) /\ ~Writing(c) /\ files' = files /\ maxId' = maxId
  BY DEF Checks, Crawls, Marks, Writing
<1> QED
  BY <1>1, <1>2 DEF Still

LEMMA UpdateStill ==
  ASSUME UpdateMove, Pauses \/ Finds \/ Refetches
  PROVE  Still
<1>1. ad' = ad /\ files' = files /\ maxId' = maxId /\ ~Writing(up) /\ ~Writing(up')
  BY DEF UpdateMove, Pauses, Finds, Refetches, Writing
<1> QED
  BY <1>1 DEF Still

\* Every step changes at most one document: it is stored, and unless a call has been
\* overtaken by no older version; or it is lost in a crash.
Stored(j, v) == \A i \in Ids : Version(i)' = IF i = j THEN v ELSE Version(i)

LEMMA StoredIs ==
  ASSUME NEW j \in Ids, NEW v, Stores' = [Stores EXCEPT ![j] = v]
  PROVE  Stored(j, v)
<1>1. ASSUME NEW i \in Ids PROVE Version(i)' = IF i = j THEN v ELSE Version(i)
  <2>1. Stores'[i] = Version(i)' /\ Stores[i] = Version(i)
    BY DEF Stores
  <2>2. [Stores EXCEPT ![j] = v][i] = IF i = j THEN v ELSE Stores[i]
    BY DEF Stores
  <2> QED
    BY <2>1, <2>2
<1> QED
  BY <1>1 DEF Stored

LEMMA TopIsNumber == Typed => Top \in Int /\ maxId \in Int
<1> SUFFICES ASSUME Typed PROVE Top \in Int /\ maxId \in Int
  OBVIOUS
<1>1. maxId \in Int
  BY IdsAreIntegers DEF Typed, TypeOK
<1>2. ASSUME AddWriting PROVE ad[Writer].id \in Int
  <2>1. Writer \in Adders /\ ad[Writer].pc = "writing"
    BY <1>2 DEF AddWriting, Writer
  <2> QED
    BY <2>1, IdsAreIntegers DEF Typed, AddCallOK
<1> QED
  BY <1>1, <1>2 DEF Top

LEMMA StepEffects ==
  ASSUME MirrorInv, MirrorInv', [Next]_vars
  PROVE  /\ Top <= Top'
         /\ \/ /\ crashes' = crashes
               /\ \E j \in Ids : \E v \in 1..MaxVer :
                    Stored(j, v) /\ (raced = {} /\ ~upRaced => Version(j) <= v)
            \/ /\ crashes' = crashes + 1
               /\ (\A i \in Ids : Version(i)' = Version(i)) \/ (\E j \in Ids : Stored(j, -1))
            \/ /\ crashes' = crashes
               /\ \A i \in Ids : Version(i)' = Version(i)
<1>0. /\ Typed /\ FilesInv /\ FilesInv' /\ Top \in Int
      /\ ad \in [Adders -> AddCalls] /\ files \in [Ids -> Doc \cup {Missing, Torn}]
  BY TopIsNumber DEF MirrorInv, StorageInv, Typed, TypeOK
<1>1. ASSUME Still, crashes' = crashes
      PROVE  Top <= Top' /\ crashes' = crashes /\ \A i \in Ids : Version(i)' = Version(i)
  <2>1. Stores' = Stores /\ Top' = Top
    BY <1>0, <1>1, StillMirror
  <2>2. ASSUME NEW i \in Ids PROVE Stores'[i] = Version(i)' /\ Stores[i] = Version(i)
    BY DEF Stores
  <2> QED
    BY <1>0, <1>1, <2>1, <2>2
<1>2. ASSUME Stores' = Stores, Top' = Top
      PROVE  Top <= Top' /\ \A i \in Ids : Version(i)' = Version(i)
  <2>1. ASSUME NEW i \in Ids PROVE Stores'[i] = Version(i)' /\ Stores[i] = Version(i)
    BY DEF Stores
  <2> QED
    BY <1>0, <1>2, <2>1
<1>3. ASSUME NEW a \in Adders, NEW c \in AddCalls, AdderMove(a, c), Opens(a, c)
      PROVE  /\ Top <= Top' /\ crashes' = crashes
             /\ \E j \in Ids : \E v \in 1..MaxVer :
                  Stored(j, v) /\ (raced = {} /\ ~upRaced => Version(j) <= v)
  <2>1. /\ ad[a].id \in Ids /\ ad[a].doc \in Doc /\ LockFree /\ ad[a].pc = "dump"
        /\ crashes' = crashes
    BY <1>3 DEF Opens, AdderMove
  <2>2. ad[a].doc.ver \in 1..MaxVer /\ ad[a].doc.ver \in Int /\ ad[a].doc.ver >= 1
    BY <2>1, FileKinds, VersionsAreNumbers
  <2>3. Stored(ad[a].id, ad[a].doc.ver) /\ Top' = Larger(ad[a].id, Top)
    BY <1>0, <1>3, <2>1, OpensMirror, StoredIs
  <2>4. Top <= Top'
    <3>1. ad[a].id \in Int
      BY <2>1, IdsAreIntegers
    <3> QED
      BY <1>0, <2>3, <3>1 DEF Larger
  <2>5. ASSUME raced = {} PROVE Version(ad[a].id) <= ad[a].doc.ver
    <3>1. files[ad[a].id] = Missing
      BY <2>1, <2>5 DEF MirrorInv, RaceInv, AddsAfterChecks, AddAfterCheck, Pending, IsFile
    <3>2. ~Written(ad[a].id)
      BY <2>1 DEF LockFree, Written, Writing
    <3>3. Version(ad[a].id) = 0
      BY <1>0, <2>1, <3>1, <3>2, VersionIs, FileKinds, VersionsAreNumbers
    <3> QED
      BY <2>2, <3>3
  <2> QED
    BY <2>1, <2>2, <2>3, <2>4, <2>5
<1>4. ASSUME UpdateMove, Reopens
      PROVE  /\ Top <= Top' /\ crashes' = crashes
             /\ \E j \in Ids : \E v \in 1..MaxVer :
                  Stored(j, v) /\ (raced = {} /\ ~upRaced => Version(j) <= v)
  <2>1. /\ up.cur \in Ids /\ up.doc \in Doc /\ LockFree /\ up.pc = "dump" /\ crashes' = crashes
    BY <1>4 DEF Reopens, UpdateMove
  <2>2. up.doc.ver \in 1..MaxVer /\ up.doc.ver \in Int
    BY <2>1, FileKinds, VersionsAreNumbers
  <2>3. Stored(up.cur, up.doc.ver) /\ Top' = Top
    BY <1>0, <1>4, <2>1, ReopensMirror, StoredIs
  <2>4. ASSUME ~upRaced PROVE Version(up.cur) <= up.doc.ver
    <3>1. files[up.cur] \in Doc /\ files[up.cur].ver <= upSince /\ upSince <= up.doc.ver
      BY <2>1, <2>4 DEF MirrorInv, RaceInv, RefetchesAfterLoads, Pending
    <3>2. ~Written(up.cur)
      BY <2>1 DEF LockFree, Written, Writing
    <3>3. Version(up.cur) = files[up.cur].ver
      BY <1>0, <2>1, <3>1, <3>2, VersionIs, FileKinds
    <3>4. files[up.cur].ver \in Int /\ upSince \in Int
      BY <1>0, <2>1, Numbers
    <3> QED
      BY <2>2, <3>1, <3>3, <3>4
  <2> QED
    BY <1>0, <2>1, <2>2, <2>3, <2>4
<1>5. ASSUME NEW a \in Adders, NEW c \in AddCalls, AdderMove(a, c), ~Opens(a, c)
      PROVE  Top <= Top' /\ crashes' = crashes /\ \A i \in Ids : Version(i)' = Version(i)
  <2>1. crashes' = crashes
    BY <1>5 DEF AdderMove
  <2> QED
    BY <1>0, <1>1, <1>2, <1>5, <2>1, AdderStill, WritesMirror DEF AdderMove
<1>6. ASSUME UpdateMove, ~Reopens
      PROVE  Top <= Top' /\ crashes' = crashes /\ \A i \in Ids : Version(i)' = Version(i)
  <2>1. crashes' = crashes
    BY <1>6 DEF UpdateMove
  <2> QED
    BY <1>0, <1>1, <1>2, <1>6, <2>1, UpdateStill, RewritesMirror DEF UpdateMove
<1>7. CASE Restart
  <2>1. crashes' = crashes + 1
    BY <1>7 DEF Restart
  <2>2. Top' = Top
    BY <1>0, <1>7, RestartMirror
  <2>3. CASE Stores' = Stores
    BY <1>2, <2>1, <2>2, <2>3
  <2>4. ASSUME NEW k \in Ids, Stores' = [Stores EXCEPT ![k] = -1] PROVE Stored(k, -1)
    BY <2>4, StoredIs
  <2> QED
    BY <1>0, <1>7, <2>1, <2>2, <2>3, <2>4, RestartMirror
<1>8. CASE Elsewhere
  <2>1. Still /\ crashes' = crashes
    BY <1>8 DEF Elsewhere, Still
  <2> QED
    BY <1>1, <2>1
<1> QED
  BY <1>0, <1>3, <1>4, <1>5, <1>6, <1>7, <1>8, Moves

\* The calls, as Mirror sees them.
LEMMA CallIs ==
  ASSUME NEW call, NEW id, NEW ver
  PROVE  /\ Pending(call) => ToStore(call, id, ver) = [id |-> id, since |-> ver]
         /\ ~Pending(call) => ToStore(call, id, ver) = Promise!NoCall
BY DEF ToStore, Promise!NoCall

LEMMA CallsDiffer ==
  ASSUME NEW id \in Ids, NEW ver
  PROVE  [id |-> id, since |-> ver] # Promise!NoCall
<1>1. id # -1
  BY IdsAreIntegers
<1> QED
  BY <1>1 DEF Promise!NoCall

LEMMA MirrorInit == Init => Promise!Init
<1> SUFFICES ASSUME Init PROVE Promise!Init
  OBVIOUS
<1>1. FilesInv /\ \A i \in Ids : ~Written(i)
  BY InitFiles DEF Init, NoAdd, NoUpdate, Written, Writing
<1>2. ASSUME NEW i \in Ids PROVE Version(i) = 0
  <2>1. files[i] = Missing
    BY DEF Init
  <2> QED
    BY <1>1, <2>1, VersionIs, FileKinds, VersionsAreNumbers
<1>3. Top = -1
  BY DEF Init, NoAdd, Top, AddWriting
<1>4. ASSUME NEW a \in Adders PROVE ToStore(ad[a], ad[a].id, since[a]) = Promise!NoCall
  <2>1. ~Pending(ad[a])
    BY DEF Init, NoAdd, Pending
  <2> QED
    BY <2>1, CallIs
<1>5. ToStore(up, up.cur, upSince) = Promise!NoCall
  <2>1. ~Pending(up)
    BY DEF Init, NoUpdate, Pending
  <2> QED
    BY <2>1, CallIs
<1>6. web = 1 /\ crashes = 0
  BY DEF Init
<1> QED
  BY <1>2, <1>3, <1>4, <1>5, <1>6 DEF Promise!Init, Promise!NotYet

\* A step of an adder: only its own call changes.
LEMMA AddingIs ==
  ASSUME Typed, NEW a \in Adders, NEW c \in AddCalls, AdderMove(a, c)
  PROVE  /\ Adding' = [Adding EXCEPT ![a] = ToStore(c, c.id, since'[a])]
         /\ Fetching' = Fetching
         /\ Adding[a] = ToStore(ad[a], ad[a].id, since[a])
<1>1. /\ ad \in [Adders -> AddCalls] /\ ad' = [ad EXCEPT ![a] = c] /\ up' = up
      /\ since \in [Adders -> 0..MaxVer] /\ upSince' = upSince
  BY DEF Typed, TypeOK, AdderMove, Checks, Crawls, Opens, Writes, Marks
<1>2. ASSUME NEW b \in Adders, b # a PROVE ad'[b] = ad[b] /\ since'[b] = since[b]
  BY <1>1, <1>2 DEF AdderMove, Checks, Crawls, Opens, Writes, Marks
<1>3. ad'[a] = c
  BY <1>1
<1>4. Adding' = [b \in Adders |-> ToStore(ad'[b], ad'[b].id, since'[b])]
  BY DEF Adding, ToStore, Pending
<1>5. ASSUME NEW b \in Adders, b # a PROVE ToStore(ad'[b], ad'[b].id, since'[b]) = Adding[b]
  BY <1>2, <1>5 DEF Adding
<1>6. Adding' = [Adding EXCEPT ![a] = ToStore(c, c.id, since'[a])]
  BY <1>3, <1>4, <1>5 DEF Adding
<1>7. Fetching' = Fetching
  BY <1>1 DEF Fetching, ToStore, Pending
<1> QED
  BY <1>6, <1>7 DEF Adding

LEMMA SameCall ==
  ASSUME NEW a \in Adders, NEW c, c = Adding[a], Adding' = [Adding EXCEPT ![a] = c]
  PROVE  Adding' = Adding
BY DEF Adding

Stutters == UNCHANGED <<Stores, Top, web, Adding, Fetching, crashes>>

LEMMA StutterMirror == Stutters => [Promise!Next]_(Promise!vars)
BY DEF Stutters, Promise!vars, Stores, Adding, Fetching

LEMMA AdderMirror ==
  ASSUME MirrorInv, FilesInv', NEW a \in Adders, NEW c \in AddCalls, AdderMove(a, c)
  PROVE  [Promise!Next]_(Promise!vars)
<1> PICK n : n = since'[a]
  OBVIOUS
<1> PICK m : m = ToStore(c, c.id, n)
  OBVIOUS
<1>0. /\ Typed /\ FilesInv /\ web' = web /\ crashes' = crashes
      /\ Adding' = [Adding EXCEPT ![a] = m]
      /\ Adding[a] = ToStore(ad[a], ad[a].id, since[a])
      /\ Fetching' = Fetching
      /\ since \in [Adders -> 0..MaxVer]
      /\ files \in [Ids -> Doc \cup {Missing, Torn}]
  BY AddingIs DEF MirrorInv, StorageInv, AdderMove, Typed, TypeOK
<1>1. CASE Checks(a, c) /\ c.pc = "crawl"
  <2> PICK k : k = c.id
    OBVIOUS
  <2>1. /\ k \in Ids /\ files[k] = Missing /\ since'[a] = web
    BY <1>0, <1>1 DEF Checks, IsFile
  <2>2. Stores' = Stores /\ Top' = Top
    BY <1>0, <1>1, AdderStill, StillMirror
  <2>3. Stores[k] = 0
    <3>1. ~Written(k)
      BY <1>0, <2>1, FileKinds DEF FilesInv, WrittenIsTorn, Written
    <3> QED
      BY <1>0, <2>1, <3>1, VersionIs, FileKinds, VersionsAreNumbers DEF Stores
  <2>4. Adding[a] = Promise!NoCall
    <3>1. ~Pending(ad[a])
      BY <1>1 DEF Checks, Pending
    <3> QED
      BY <1>0, <3>1, CallIs
  <2>5. Adding' = [Adding EXCEPT ![a] = [id |-> k, since |-> web]]
    <3>1. Pending(c)
      BY <1>1 DEF Pending
    <3>2. m = [id |-> k, since |-> web]
      BY <2>1, <3>1, CallIs
    <3> QED
      BY <1>0, <3>2
  <2>6. Promise!BeginAdd(a, k)
    BY <1>0, <2>2, <2>3, <2>4, <2>5
    DEF Promise!BeginAdd, Promise!NotYet, Stores, Adding, Fetching
  <2> QED
    BY <2>1, <2>6 DEF Promise!Next
<1>2. CASE (Checks(a, c) /\ c.pc # "crawl") \/ Writes(a, c) \/ Marks(a, c)
  <2>1. Stores' = Stores /\ Top' = Top
    BY <1>0, <1>2, AdderStill, StillMirror, WritesMirror
  <2>2. ~Pending(ad[a]) /\ ~Pending(c)
    BY <1>2 DEF Checks, Writes, Marks, Pending
  <2>3. Adding' = Adding
    <3>1. m = Adding[a]
      BY <1>0, <2>2, CallIs
    <3> QED
      BY <1>0, <3>1, SameCall
  <2> QED
    BY <1>0, <2>1, <2>3, StutterMirror DEF Stutters
<1>3. CASE Crawls(a, c)
  <2>1. Stores' = Stores /\ Top' = Top
    BY <1>0, <1>3, AdderStill, StillMirror
  <2>2. Pending(ad[a]) /\ Pending(c) /\ c.id = ad[a].id /\ since'[a] = since[a]
    BY <1>3 DEF Crawls, Pending
  <2>3. Adding' = Adding
    <3>1. m = Adding[a]
      BY <1>0, <2>2, CallIs
    <3> QED
      BY <1>0, <3>1, SameCall
  <2> QED
    BY <1>0, <2>1, <2>3, StutterMirror DEF Stutters
<1>4. CASE Opens(a, c)
  <2> PICK k : k = ad[a].id
    OBVIOUS
  <2> PICK v : v = ad[a].doc.ver
    OBVIOUS
  <2> PICK s : s = since[a]
    OBVIOUS
  <2>1. k \in Ids /\ Pending(ad[a]) /\ ~Pending(c) /\ ad[a].pc = "dump" /\ ad[a].doc \in Doc
    BY <1>4 DEF Opens, Pending
  <2>2. Stores' = [Stores EXCEPT ![k] = v] /\ Top' = Larger(k, Top)
    BY <1>0, <1>4, OpensMirror
  <2>3. Adding[a] = [id |-> k, since |-> s] /\ Adding[a] # Promise!NoCall
    BY <1>0, <2>1, CallIs, CallsDiffer
  <2>4. Adding' = [Adding EXCEPT ![a] = Promise!NoCall]
    <3>1. m = Promise!NoCall
      BY <2>1, CallIs
    <3> QED
      BY <1>0, <3>1
  <2>5. v \in s..web
    <3>1. s <= v /\ v <= web
      BY <2>1 DEF MirrorInv, RaceInv, AddsAfterChecks, AddAfterCheck, Storing
    <3>2. s \in Int /\ v \in Int /\ web \in Int
      BY <1>0, <2>1, Numbers, VersionsAreNumbers
    <3> QED
      BY <3>1, <3>2
  <2>6. Adding[a].id = k /\ Adding[a].since = s
    BY <2>3
  <2>7. \E w \in Adding[a].since..web : Stores' = [Stores EXCEPT ![Adding[a].id] = w]
    BY <2>2, <2>5, <2>6
  <2>8. Top' = IF Adding[a].id > Top THEN Adding[a].id ELSE Top
    BY <2>2, <2>6 DEF Larger
  <2>9. Promise!Add(a)
    BY <1>0, <2>3, <2>4, <2>7, <2>8 DEF Promise!Add, Promise!Put, Stores, Adding, Fetching
  <2> QED
    BY <2>9 DEF Promise!Next
<1> QED
  BY <1>1, <1>2, <1>3, <1>4 DEF AdderMove

LEMMA UpdateMirror ==
  ASSUME MirrorInv, FilesInv', UpdateMove
  PROVE  [Promise!Next]_(Promise!vars)
<1>0. /\ Typed /\ FilesInv /\ web' = web /\ crashes' = crashes /\ ad' = ad
      /\ Fetching = ToStore(up, up.cur, upSince)
      /\ Fetching' = ToStore(up', up'.cur, upSince')
      /\ files \in [Ids -> Doc \cup {Missing, Torn}]
  BY DEF MirrorInv, StorageInv, UpdateMove, Typed, TypeOK, Fetching, ToStore, Pending
<1>1. Adding' = Adding
  <2>1. since' = since
    BY DEF UpdateMove, Pauses, Finds, Refetches, Reopens, Rewrites
  <2> QED
    BY <1>0, <2>1 DEF Adding, ToStore, Pending
<1>2. CASE Pauses \/ Rewrites
  <2>1. Stores' = Stores /\ Top' = Top
    BY <1>0, <1>2, UpdateStill, StillMirror, RewritesMirror
  <2>2. ~Pending(up) /\ ~Pending(up')
    BY <1>2 DEF Pauses, Rewrites, Pending
  <2>3. Fetching' = Fetching
    BY <1>0, <2>2, CallIs
  <2> QED
    BY <1>0, <1>1, <2>1, <2>3, StutterMirror DEF Stutters
<1>3. CASE Finds
  <2> PICK k : k = up.cur
    OBVIOUS
  <2>1. /\ k \in Ids /\ files[k] \in Doc /\ LockFree /\ up'.cur = k /\ upSince' = web
        /\ ~Pending(up) /\ Pending(up')
    BY <1>3 DEF Finds, Pending
  <2>2. Stores' = Stores /\ Top' = Top
    BY <1>0, <1>3, UpdateStill, StillMirror
  <2>3. Stores[k] \notin {0, -1}
    <3>1. ~Written(k)
      BY <2>1 DEF LockFree, Written, Writing
    <3>2. Version(k) = files[k].ver
      BY <1>0, <2>1, <3>1, VersionIs, FileKinds
    <3> QED
      BY <2>1, <3>2, VersionsAreNumbers DEF Stores
  <2>4. Fetching = Promise!NoCall /\ Fetching' = [id |-> k, since |-> web]
    BY <1>0, <2>1, CallIs
  <2>5. Promise!BeginFetch(k)
    BY <1>0, <1>1, <2>2, <2>3, <2>4
    DEF Promise!BeginFetch, Promise!NotYet, Promise!Lost, Stores, Adding, Fetching
  <2> QED
    BY <2>1, <2>5 DEF Promise!Next
<1>4. CASE Refetches
  <2>1. Stores' = Stores /\ Top' = Top
    BY <1>0, <1>4, UpdateStill, StillMirror
  <2>2. Pending(up) /\ Pending(up') /\ up'.cur = up.cur /\ upSince' = upSince
    BY <1>4 DEF Refetches, Pending
  <2>3. Fetching' = Fetching
    BY <1>0, <2>2, CallIs
  <2> QED
    BY <1>0, <1>1, <2>1, <2>3, StutterMirror DEF Stutters
<1>5. CASE Reopens
  <2> PICK k : k = up.cur
    OBVIOUS
  <2> PICK v : v = up.doc.ver
    OBVIOUS
  <2> PICK s : s = upSince
    OBVIOUS
  <2>1. k \in Ids /\ Pending(up) /\ ~Pending(up') /\ up.pc = "dump" /\ up.doc \in Doc
    BY <1>5 DEF Reopens, Pending
  <2>2. Stores' = [Stores EXCEPT ![k] = v] /\ Top' = Top
    BY <1>0, <1>5, ReopensMirror
  <2>3. Fetching = [id |-> k, since |-> s] /\ Fetching # Promise!NoCall
    BY <1>0, <2>1, CallIs, CallsDiffer
  <2>4. Fetching' = Promise!NoCall
    BY <1>0, <2>1, CallIs
  <2>5. v \in s..web
    <3>1. s <= v /\ v <= web
      BY <2>1 DEF MirrorInv, RaceInv, RefetchesAfterLoads, Storing
    <3>2. s \in Int /\ v \in Int /\ web \in Int
      BY <1>0, <2>1, Numbers, VersionsAreNumbers
    <3> QED
      BY <3>1, <3>2
  <2>6. Fetching.id = k /\ Fetching.since = s
    BY <2>3
  <2>7. \E w \in Fetching.since..web : Stores' = [Stores EXCEPT ![Fetching.id] = w]
    BY <2>2, <2>5, <2>6
  <2>8. Promise!Fetch
    BY <1>0, <1>1, <2>2, <2>3, <2>4, <2>7 DEF Promise!Fetch, Promise!Put, Stores, Adding, Fetching
  <2> QED
    BY <2>8 DEF Promise!Next
<1> QED
  BY <1>2, <1>3, <1>4, <1>5 DEF UpdateMove

LEMMA CrashMirror ==
  ASSUME MirrorInv, FilesInv', Restart
  PROVE  Promise!Crash
<1>1. /\ \A a \in Adders : ~Pending(ad'[a])
      /\ ~Pending(up') /\ crashes' = crashes + 1 /\ web' = web
  BY DEF Restart, NoAdd, NoUpdate, Pending
<1>2. Adding' = [a \in Adders |-> Promise!NoCall]
  <2>1. Adding' = [a \in Adders |-> ToStore(ad'[a], ad'[a].id, since'[a])]
    BY DEF Adding, ToStore, Pending
  <2>2. \A a \in Adders : ToStore(ad'[a], ad'[a].id, since'[a]) = Promise!NoCall
    BY <1>1, CallIs
  <2> QED
    BY <2>1, <2>2
<1>3. Fetching' = Promise!NoCall
  <2>1. Fetching' = ToStore(up', up'.cur, upSince')
    BY DEF Fetching, ToStore, Pending
  <2> QED
    BY <1>1, <2>1, CallIs
<1>4. /\ Top' = Top
      /\ \/ Stores' = Stores
         \/ \E k \in Ids : Stores[k] # Promise!NotYet
                           /\ Stores' = [Stores EXCEPT ![k] = Promise!Lost]
  BY RestartMirror DEF Promise!NotYet, Promise!Lost
<1> QED
  BY <1>1, <1>2, <1>3, <1>4 DEF Promise!Crash, Stores, Adding, Fetching

LEMMA ElsewhereMirror ==
  ASSUME MirrorInv, FilesInv', Elsewhere
  PROVE  [Promise!Next]_(Promise!vars)
<1>1. Still /\ FilesInv /\ crashes' = crashes
  BY DEF Elsewhere, Still, MirrorInv, StorageInv
<1>2. Stores' = Stores /\ Top' = Top
  BY <1>1, StillMirror
<1>3. Adding' = Adding /\ Fetching' = Fetching
  BY DEF Elsewhere, Adding, Fetching, ToStore, Pending
<1>4. CASE web' = web
  BY <1>1, <1>2, <1>3, <1>4, StutterMirror DEF Stutters
<1>5. CASE web < MaxVer /\ web' = web + 1
  <2>1. Promise!PageChanges
    BY <1>1, <1>2, <1>3, <1>5 DEF Promise!PageChanges, Stores, Adding, Fetching
  <2> QED
    BY <2>1 DEF Promise!Next
<1> QED
  BY <1>4, <1>5 DEF Elsewhere

LEMMA MirrorNext ==
  ASSUME MirrorInv, MirrorInv', [Next]_vars
  PROVE  [Promise!Next]_(Promise!vars)
<1>0. Typed /\ FilesInv'
  BY DEF MirrorInv, StorageInv
<1>1. CASE Restart
  BY <1>0, <1>1, CrashMirror DEF Promise!Next
<1> QED
  BY <1>0, <1>1, AdderMirror, UpdateMirror, ElsewhereMirror, Moves

\* The storage implements Mirror: in every interleaving of any number of adders, be it of
\* the same ids, of re-fetches, queries and crashes, what is stored is never older than the
\* page was when the call that stored it began, the newest id is known all the time, and a
\* crash costs at most one document (add_doc, update_after_time, _update_doc, __init__).
THEOREM MirrorsPagesHolds == Spec => MirrorsPages
<1>1. MirrorInv /\ MirrorInv' /\ [Next]_vars => [Promise!Next]_(Promise!vars)
  BY MirrorNext
<1> QED
  BY <1>1, MirrorInit, MirrorInvariant, PTL DEF Spec, MirrorsPages, Promise!Spec

-----------------------------------------------------------------------------
LEMMA VersionsAreIntegers ==
  ASSUME Typed, FilesInv
  PROVE  \A i \in Ids : Version(i) \in Int
<1> SUFFICES ASSUME NEW i \in Ids PROVE Version(i) \in Int
  OBVIOUS
<1>1. CASE Writing(up) /\ up.cur = i
  <2>1. up.doc \in Doc
    BY <1>1 DEF Typed, UpdateCallOK, Writing
  <2> QED
    BY <1>1, <2>1, VersionIs, VersionsAreNumbers
<1>2. ASSUME NEW a \in Adders, Writing(ad[a]), ad[a].id = i PROVE Version(i) \in Int
  <2>1. ad[a].doc \in Doc
    BY <1>2 DEF Typed, AddCallOK, Writing
  <2> QED
    BY <1>2, <2>1, VersionIs, VersionsAreNumbers
<1>3. CASE ~Written(i)
  BY <1>3, VersionIs, Numbers
<1> QED
  BY <1>1, <1>2, <1>3 DEF Written

\* What Cache takes the storage for.  As long as the process lives, a document that is
\* there stays there, the newest id never goes down, and a document gives way to an older
\* version of its page only while some call has been overtaken since it looked.
THEOREM StoredDocsStay ==
  Spec => [][crashes' = crashes =>
               /\ Top <= Top'
               /\ \A i \in Ids : Version(i) > 0 =>
                    /\ Version(i)' > 0
                    /\ Version(i)' < Version(i) => raced # {} \/ upRaced]_vars
<1>1. ASSUME MirrorInv, MirrorInv', [Next]_vars, crashes' = crashes
      PROVE  /\ Top <= Top'
             /\ \A i \in Ids : Version(i) > 0 =>
                  /\ Version(i)' > 0
                  /\ Version(i)' < Version(i) => raced # {} \/ upRaced
  <2>1. crashes \in Nat /\ crashes' # crashes + 1 /\ upRaced \in BOOLEAN
    BY <1>1, MaxCrashesAssumption DEF MirrorInv, StorageInv, Typed, TypeOK
  <2>2. Top <= Top'
    BY <1>1, StepEffects
  <2>3. CASE \A i \in Ids : Version(i)' = Version(i)
    <3>1. \A i \in Ids : Version(i) \in Int
      BY <1>1, VersionsAreIntegers DEF MirrorInv, StorageInv
    <3> QED
      BY <2>2, <2>3, <3>1
  <2>4. ASSUME NEW j \in Ids, NEW v \in 1..MaxVer, Stored(j, v),
               raced = {} /\ ~upRaced => Version(j) <= v
        PROVE  \A i \in Ids : Version(i) > 0 =>
                 /\ Version(i)' > 0
                 /\ Version(i)' < Version(i) => raced # {} \/ upRaced
    <3> SUFFICES ASSUME NEW i \in Ids, Version(i) > 0
                 PROVE  /\ Version(i)' > 0
                        /\ Version(i)' < Version(i) => raced # {} \/ upRaced
      OBVIOUS
    <3>1. Version(i) \in Int /\ v \in Int /\ v >= 1
      BY <1>1, VersionsAreIntegers, MaxVerAssumption DEF MirrorInv, StorageInv
    <3>2. CASE i = j
      <4>1. Version(i)' = v
        BY <2>4, <3>2 DEF Stored
      <4> QED
        BY <2>1, <2>4, <3>1, <3>2, <4>1
    <3>3. CASE i # j
      <4>1. Version(i)' = Version(i)
        BY <2>4, <3>3 DEF Stored
      <4> QED
        BY <3>1, <4>1
    <3> QED
      BY <3>2, <3>3
  <2> QED
    BY <1>1, <2>1, <2>2, <2>3, <2>4, StepEffects
<1>2. MirrorInv /\ MirrorInv' /\ [Next]_vars =>
        [crashes' = crashes =>
           /\ Top <= Top'
           /\ \A i \in Ids : Version(i) > 0 =>
                /\ Version(i)' > 0
                /\ Version(i)' < Version(i) => raced # {} \/ upRaced]_vars
  BY <1>1
<1> QED
  BY <1>2, MirrorInvariant, PTL DEF Spec

LostDocs == {i \in Ids : Version(i) = -1}

LEMMA LostDocsAreFinite ==
  /\ IsFiniteSet(LostDocs) /\ Cardinality(LostDocs) \in Nat
  /\ IsFiniteSet(LostDocs') /\ Cardinality(LostDocs') \in Nat
<1>1. IsFiniteSet(Ids)
  BY MaxIdAssumption, FS_Interval DEF Ids
<1>2. LostDocs \subseteq Ids /\ LostDocs' \subseteq Ids
  BY DEF LostDocs
<1> QED
  BY <1>1, <1>2, FS_Subset, FS_CardinalityType

\* Every death of the process costs at most one document, whatever its threads were doing:
\* there are never more incomplete files that nobody writes than there were crashes
\* (add_doc, update_after_time, __init__).
THEOREM LossesAreCrashes ==
  Spec => [](Cardinality(LostDocs) <= crashes)
<1>1. Init => Cardinality(LostDocs) <= crashes
  <2>1. Init => \A i \in Ids : Version(i) = 0
    <3> SUFFICES ASSUME Init, NEW i \in Ids PROVE Version(i) = 0
      OBVIOUS
    <3>1. Stores = [k \in Ids |-> 0]
      BY MirrorInit DEF Promise!Init, Promise!NotYet, Stores
    <3> QED
      BY <3>1 DEF Stores
  <2>2. Init => LostDocs = {} /\ crashes = 0
    BY <2>1 DEF LostDocs, Init
  <2>3. Cardinality({}) = 0
    BY FS_EmptySet
  <2> QED
    BY <2>2, <2>3
<1>2. MirrorInv /\ MirrorInv' /\ Cardinality(LostDocs) <= crashes /\ [Next]_vars
        => (Cardinality(LostDocs) <= crashes)'
  <2> SUFFICES ASSUME MirrorInv, MirrorInv', Cardinality(LostDocs) <= crashes, [Next]_vars
               PROVE  Cardinality(LostDocs') <= crashes'
    OBVIOUS
  <2>1. crashes \in Nat
    BY MaxCrashesAssumption DEF MirrorInv, StorageInv, Typed, TypeOK
  <2>2. CASE crashes' = crashes /\ LostDocs' \subseteq LostDocs
    <3>1. Cardinality(LostDocs') <= Cardinality(LostDocs)
      BY <2>2, LostDocsAreFinite, FS_Subset
    <3> QED
      BY <2>1, <2>2, <3>1, LostDocsAreFinite
  <2>3. CASE crashes' = crashes + 1 /\ \E j \in Ids : LostDocs' \subseteq LostDocs \cup {j}
    <3>1. PICK j \in Ids : LostDocs' \subseteq LostDocs \cup {j}
      BY <2>3
    <3>2. IsFiniteSet(LostDocs \cup {j}) /\ Cardinality(LostDocs \cup {j}) <= Cardinality(LostDocs) + 1
      <4>1. Cardinality(LostDocs \cup {j}) = IF j \in LostDocs THEN Cardinality(LostDocs) ELSE Cardinality(LostDocs) + 1
        BY LostDocsAreFinite, FS_AddElement
      <4>2. IsFiniteSet(LostDocs \cup {j})
        BY LostDocsAreFinite, FS_AddElement
      <4> QED
        BY <4>1, <4>2, LostDocsAreFinite
    <3>3. Cardinality(LostDocs') <= Cardinality(LostDocs \cup {j}) /\ Cardinality(LostDocs \cup {j}) \in Nat
      BY <3>1, <3>2, FS_Subset, FS_CardinalityType
    <3> QED
      BY <2>1, <2>3, <3>2, <3>3, LostDocsAreFinite
  <2>4. \/ crashes' = crashes /\ LostDocs' \subseteq LostDocs
        \/ crashes' = crashes + 1 /\ \E j \in Ids : LostDocs' \subseteq LostDocs \cup {j}
    <3>1. 0 \in Ids
      BY MaxIdAssumption DEF Ids
    <3>2. ASSUME NEW j \in Ids, NEW v \in 1..MaxVer, Stored(j, v) PROVE LostDocs' \subseteq LostDocs
      BY <3>2, MaxVerAssumption DEF Stored, LostDocs
    <3>3. ASSUME NEW j \in Ids, Stored(j, -1) PROVE LostDocs' \subseteq LostDocs \cup {j}
      BY <3>3 DEF Stored, LostDocs
    <3>4. ASSUME \A i \in Ids : Version(i)' = Version(i) PROVE LostDocs' \subseteq LostDocs
      BY <3>4 DEF LostDocs
    <3> QED
      BY <2>1, <3>1, <3>2, <3>3, <3>4, StepEffects
  <2> QED
    BY <2>2, <2>3, <2>4
<1> QED
  BY <1>1, <1>2, MirrorInvariant, PTL DEF Spec

=============================================================================
