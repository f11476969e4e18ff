---------------------------- MODULE CacheProofs ----------------------------
(***************************************************************************)
(* Machine-checked proofs about Cache, for every set of readers, every     *)
(* number of ids and versions, every cache size and every url assignment.  *)
(***************************************************************************)
EXTENDS Cache, TLAPS

\* What the cache's own variables satisfy between two critical sections.
CacheTypeOK ==
  /\ docs \in Seq(Doc \cup {NoDoc})
  /\ minId \in Ids
  /\ maxId \in Ids \cup {-1}
  /\ DOMAIN urlToId \subseteq Urls
  /\ \A u \in DOMAIN urlToId : urlToId[u] \in Ids

CacheInv == CacheTypeOK /\ WindowInv /\ IndexInv

\* A document never equals the empty slot, and its url is one of Urls.
LEMMA DocFacts ==
  ASSUME NEW d \in Doc
  PROVE  d # NoDoc /\ d.idid \in Ids /\ UrlOf(d) \in Urls /\ d.idid \in Int /\ d.idid >= 0
<1>1. d.idid \in Ids
  BY DEF Doc
<1>2. NoDoc.idid = -1
  BY DEF NoDoc
<1> QED
  BY <1>1, <1>2, MaxIdAssumption, UrlAssumption DEF Ids, UrlOf

\* Two documents with the same url have the same id when urls are unique.
LEMMA UniqueUrl ==
  ASSUME UrlsAreUnique, NEW c \in Doc, NEW d \in Doc, UrlOf(c) = UrlOf(d)
  PROVE  c.idid = d.idid
BY UrlAssumption DEF UrlsAreUnique, IsInjective, UrlOf, Doc

\* The cache restarts with one document.
LEMMA ResetToInv ==
  ASSUME CacheInv, NEW d \in Doc, ResetTo(d), Newer(d), ~Reachable(d)
  PROVE  CacheInv'
<1>1. docs' = <<d>> /\ Len(docs') = 1 /\ docs'[1] = d
  BY DEF ResetTo
<1>2. DOMAIN urlToId' = {UrlOf(d)} /\ urlToId'[UrlOf(d)] = d.idid
  BY DEF ResetTo, IndexWith
<1>3. CacheTypeOK'
  BY <1>1, <1>2, DocFacts DEF CacheTypeOK, ResetTo
<1>4. WindowInv'
  BY <1>1, DocFacts, CacheSizeAssumption DEF WindowInv, ResetTo
<1>5. IndexInv'
  BY <1>1, <1>2, DocFacts DEF IndexInv
<1> QED
  BY <1>3, <1>4, <1>5 DEF CacheInv

\* A document put in its slot of the window.
LEMMA FillSlotInv ==
  ASSUME CacheInv, NEW d \in Doc, FillSlot(d), InWindow(d.idid)
  PROVE  CacheInv'
<1> DEFINE s == Slot(d.idid)
<1>1. s \in 1..Len(docs) /\ d.idid = minId + s - 1
  BY DocFacts, MaxIdAssumption DEF CacheInv, CacheTypeOK, WindowInv, InWindow, Slot, Ids
<1>2. /\ docs' \in Seq(Doc \cup {NoDoc})
      /\ Len(docs') = Len(docs)
      /\ docs'[s] = d
      /\ \A p \in 1..Len(docs) : p # s => docs'[p] = docs[p]
  BY <1>1 DEF CacheInv, CacheTypeOK, FillSlot
<1>3. /\ DOMAIN urlToId' = DOMAIN urlToId \cup {UrlOf(d)}
      /\ urlToId'[UrlOf(d)] = d.idid
      /\ \A u \in DOMAIN urlToId : u # UrlOf(d) => urlToId'[u] = urlToId[u]
  BY DEF FillSlot, IndexWith
<1>4. CacheTypeOK'
  BY <1>2, <1>3, DocFacts DEF CacheInv, CacheTypeOK, FillSlot
<1>5. WindowInv'
  BY <1>1, <1>2 DEF CacheInv, WindowInv, FillSlot
<1>6. IndexInv'
  <2> SUFFICES ASSUME UrlsAreUnique PROVE IndexInv'
    BY DEF IndexInv, UrlsAreUnique
  <2>0. \A p \in 1..Len(docs) : docs[p] \in Doc \cup {NoDoc}
    BY DEF CacheInv, CacheTypeOK
  <2>1. ASSUME NEW u \in DOMAIN urlToId'
        PROVE \E p \in 1..Len(docs') :
                docs'[p] # NoDoc /\ UrlOf(docs'[p]) = u /\ docs'[p].idid = urlToId'[u]
    <3>1. CASE u = UrlOf(d)
      BY <1>1, <1>2, <1>3, <3>1, DocFacts
    <3>2. CASE u # UrlOf(d)
      <4>1. PICK p \in 1..Len(docs) :
              docs[p] # NoDoc /\ UrlOf(docs[p]) = u /\ docs[p].idid = urlToId[u]
        BY <1>3, <3>2 DEF CacheInv, IndexInv
      <4>2. docs[p] \in Doc /\ docs[p].idid = minId + p - 1
        BY <2>0, <4>1 DEF CacheInv, WindowInv
      <4>3. p # s
        BY <1>1, <4>1, <4>2, <3>2 DEF UrlOf
      <4> QED
        BY <1>2, <1>3, <3>2, <4>1, <4>3
    <3> QED
      BY <3>1, <3>2
  <2>2. ASSUME NEW p \in 1..Len(docs'), docs'[p] # NoDoc
        PROVE  UrlOf(docs'[p]) \in DOMAIN urlToId' /\ urlToId'[UrlOf(docs'[p])] = docs'[p].idid
    <3>1. CASE p = s
      BY <1>2, <1>3, <3>1
    <3>2. CASE p # s
      <4>1. docs'[p] = docs[p] /\ docs[p] \in Doc /\ p \in 1..Len(docs)
        BY <1>2, <2>0, <2>2, <3>2
      <4>2. UrlOf(docs[p]) \in DOMAIN urlToId /\ urlToId[UrlOf(docs[p])] = docs[p].idid
        BY <4>1, <2>2 DEF CacheInv, IndexInv
      <4>3. UrlOf(docs[p]) = UrlOf(d) => docs[p].idid = d.idid
        BY <4>1, UniqueUrl
      <4> QED
        BY <1>3, <4>1, <4>2, <4>3
    <3> QED
      BY <3>1, <3>2
  <2> QED
    BY <2>1, <2>2 DEF IndexInv
<1> QED
  BY <1>4, <1>5, <1>6 DEF CacheInv

\* A document below the window: the window grows down to it.
LEMMA GrowDownInv ==
  ASSUME CacheInv, NEW d \in Doc, GrowDownTo(d), ~Newer(d), FitsBelow(d)
  PROVE  CacheInv'
<1> DEFINE k == minId - d.idid
<1>0. /\ docs \in Seq(Doc \cup {NoDoc}) /\ Len(docs) = maxId - minId + 1
      /\ minId \in Int /\ maxId \in Int /\ d.idid \in Int /\ k \in Int /\ k > 0
      /\ maxId >= d.idid /\ k = minId - d.idid
  BY DocFacts, MaxIdAssumption
  DEF CacheInv, CacheTypeOK, WindowInv, FitsBelow, Newer, Ids
<1>1. Len(docs) + k \in Nat /\ Len(docs) \in Nat /\ k \in Nat /\ k >= 1
  BY <1>0
<1>2. docs' = [p \in 1..(Len(docs) + k) |->
                 IF p = 1 THEN d ELSE IF p <= k THEN NoDoc ELSE docs[p - k]]
  BY DEF GrowDownTo, GrownDown
<1> HIDE DEF k
<1>3. /\ docs' \in Seq(Doc \cup {NoDoc})
      /\ Len(docs') = Len(docs) + k
      /\ docs'[1] = d
      /\ \A p \in 2..k : docs'[p] = NoDoc
      /\ \A p \in (k + 1)..(Len(docs) + k) : p # 1 => docs'[p] = docs[p - k]
  <2>1. \A p \in 1..(Len(docs) + k) : docs'[p] \in Doc \cup {NoDoc}
    BY <1>0, <1>1, <1>2
  <2>2. docs' \in Seq(Doc \cup {NoDoc}) /\ Len(docs') = Len(docs) + k
    <3>1. Len(docs) + k \in Nat
      BY <1>1
    <3> QED
      BY <1>2, <2>1, <3>1
  <2>3. docs'[1] = d
    BY <1>1, <1>2
  <2>4. \A p \in 2..k : docs'[p] = NoDoc
    BY <1>1, <1>2
  <2>5. \A p \in (k + 1)..(Len(docs) + k) : p # 1 => docs'[p] = docs[p - k]
    BY <1>1, <1>2
  <2> QED
    BY <2>2, <2>3, <2>4, <2>5
<1>4. /\ DOMAIN urlToId' = DOMAIN urlToId \cup {UrlOf(d)}
      /\ urlToId'[UrlOf(d)] = d.idid
      /\ \A u \in DOMAIN urlToId : u # UrlOf(d) => urlToId'[u] = urlToId[u]
  BY DEF GrowDownTo, GrownDown, IndexWith
<1>5. CacheTypeOK'
  BY <1>3, <1>4, DocFacts DEF CacheInv, CacheTypeOK, GrowDownTo, GrownDown
<1>6. WindowInv'
  <2>1. minId' = d.idid /\ maxId' = maxId
    BY DEF GrowDownTo, GrownDown
  <2>2. Len(docs') = maxId' - minId' + 1
    BY <1>0, <1>3, <2>1
  <2>3. Len(docs') <= (IF CacheSize = 0 THEN 1 ELSE CacheSize)
    BY <1>0, <1>3, CacheSizeAssumption DEF FitsBelow
  <2>4. ASSUME NEW p \in 1..Len(docs')
        PROVE  docs'[p] = NoDoc \/ docs'[p].idid = minId' + p - 1
    <3>1. CASE p = 1
      BY <1>0, <1>3, <2>1, <3>1
    <3>2. CASE p # 1 /\ p <= k
      BY <1>0, <1>3, <3>2
    <3>3. CASE p # 1 /\ ~(p <= k)
      <4>0. p \in Int /\ p > k /\ p <= Len(docs) + k
        BY <1>0, <1>3, <3>3
      <4>1. p - k \in 1..Len(docs) /\ docs'[p] = docs[p - k]
        <5>1. p \in (k + 1)..(Len(docs) + k)
          BY <1>0, <4>0
        <5>2. docs'[p] = docs[p - k]
          BY <1>3, <3>3, <5>1
        <5>3. p - k \in 1..Len(docs)
          BY <1>0, <1>1, <4>0
        <5> QED
          BY <5>2, <5>3
      <4>2. docs[p - k] = NoDoc \/ docs[p - k].idid = minId + (p - k) - 1
        BY <4>1 DEF CacheInv, WindowInv
      <4>3. minId \in Int /\ k = minId - d.idid /\ d.idid \in Int
        BY <1>0
      <4>4. minId + (p - k) - 1 = d.idid + p - 1
        BY <4>0, <4>3
      <4> QED
        BY <2>1, <4>1, <4>2, <4>4
    <3> QED
      BY <3>1, <3>2, <3>3
  <2> QED
    BY <2>2, <2>3, <2>4 DEF WindowInv
<1>7. IndexInv'
  <2> SUFFICES ASSUME UrlsAreUnique PROVE IndexInv'
    BY DEF IndexInv, UrlsAreUnique
  <2>1. ASSUME NEW u \in DOMAIN urlToId'
        PROVE \E p \in 1..Len(docs') :
                docs'[p] # NoDoc /\ UrlOf(docs'[p]) = u /\ docs'[p].idid = urlToId'[u]
    <3>1. CASE u = UrlOf(d)
      BY <1>0, <1>1, <1>3, <1>4, <3>1, DocFacts
    <3>2. CASE u # UrlOf(d)
      <4>1. PICK p \in 1..Len(docs) :
              docs[p] # NoDoc /\ UrlOf(docs[p]) = u /\ docs[p].idid = urlToId[u]
        BY <1>4, <3>2 DEF CacheInv, IndexInv
      <4>2. p + k \in 1..Len(docs') /\ docs'[p + k] = docs[p]
        <5>1. p + k \in (k + 1)..(Len(docs) + k) /\ p + k # 1 /\ (p + k) - k = p
          BY <1>1
        <5>2. docs'[p + k] = docs[p]
          BY <1>3, <5>1
        <5>3. p + k \in 1..Len(docs')
          BY <1>0, <1>1, <1>3
        <5> QED
          BY <5>2, <5>3
      <4> QED
        BY <1>4, <3>2, <4>1, <4>2
    <3> QED
      BY <3>1, <3>2
  <2>2. ASSUME NEW p \in 1..Len(docs'), docs'[p] # NoDoc
        PROVE  UrlOf(docs'[p]) \in DOMAIN urlToId' /\ urlToId'[UrlOf(docs'[p])] = docs'[p].idid
    <3>1. CASE p = 1
      BY <1>3, <1>4, <3>1
    <3>2. CASE p # 1
      <4>0. p \in Int /\ p >= 1 /\ p <= Len(docs) + k /\ p > k
        <5>1. p \in Int /\ p >= 1 /\ p <= Len(docs) + k
          BY <1>0, <1>3
        <5>2. ~(p \in 2..k)
          BY <1>3, <2>2
        <5> QED
          BY <1>0, <3>2, <5>1, <5>2
      <4>1. p - k \in 1..Len(docs) /\ docs'[p] = docs[p - k]
        <5>1. p \in (k + 1)..(Len(docs) + k)
          BY <1>0, <4>0
        <5>2. docs'[p] = docs[p - k]
          BY <1>3, <3>2, <5>1
        <5>3. p - k \in 1..Len(docs)
          BY <1>0, <1>1, <4>0
        <5> QED
          BY <5>2, <5>3
      <4>2. docs[p - k] \in Doc
        BY <1>0, <2>2, <4>1
      <4>3. UrlOf(docs[p - k]) \in DOMAIN urlToId /\ urlToId[UrlOf(docs[p - k])] = docs[p - k].idid
        BY <2>2, <4>1 DEF CacheInv, IndexInv
      <4>4. UrlOf(docs[p - k]) = UrlOf(d) => docs[p - k].idid = d.idid
        BY <4>2, UniqueUrl
      <4> QED
        BY <1>4, <4>1, <4>3, <4>4
    <3> QED
      BY <3>1, <3>2
  <2> QED
    BY <2>1, <2>2 DEF IndexInv
<1> QED
  BY <1>5, <1>6, <1>7 DEF CacheInv

\* How many slots are dropped: none, or so many that the window fits again.
LEMMA NumDroppedFacts ==
  ASSUME CacheInv, NEW d \in Doc, Newer(d), Reachable(d)
  PROVE  /\ NumDropped(d) \in 0..Len(docs)
         /\ Len(docs) - NumDropped(d) + (d.idid - maxId) \in 1..CacheSize
         /\ Len(docs) - NumDropped(d) \in Nat
         /\ d.idid - maxId \in 1..CacheSize
         /\ Len(docs) = maxId - minId + 1
         /\ docs \in Seq(Doc \cup {NoDoc})
         /\ maxId \in Int /\ minId \in Nat /\ Len(docs) \in Nat /\ d.idid \in Int
<1>1. /\ maxId \in Int /\ minId \in Nat /\ Len(docs) \in Nat /\ d.idid \in Int
      /\ Len(docs) = maxId - minId + 1
      /\ docs \in Seq(Doc \cup {NoDoc})
  BY DocFacts, MaxIdAssumption DEF CacheInv, CacheTypeOK, WindowInv, Ids
<1> DEFINE k == d.idid - maxId
<1>2. k \in Int /\ k >= 1 /\ k <= CacheSize /\ CacheSize \in Int
  BY <1>1, CacheSizeAssumption DEF Newer, Reachable
<1>3. NumDropped(d) = IF Len(docs) > CacheSize - k THEN Len(docs) - (CacheSize - k) ELSE 0
  BY DEF NumDropped
<1> HIDE DEF k
<1>4. /\ NumDropped(d) \in 0..Len(docs)
      /\ Len(docs) - NumDropped(d) + k \in 1..CacheSize
      /\ Len(docs) - NumDropped(d) \in Nat
      /\ k \in 1..CacheSize
  BY <1>1, <1>2, <1>3
<1> QED
  BY <1>1, <1>4 DEF k

\* A newer document within reach: the window drops its oldest slots and grows.
LEMMA GrowUpInv ==
  ASSUME CacheInv, NEW d \in Doc, GrowUpTo(d), Newer(d), Reachable(d)
  PROVE  CacheInv'
<1> DEFINE n == NumDropped(d)
           len == Len(docs) - n + (d.idid - maxId)
<1>0. /\ n \in 0..Len(docs) /\ len \in 1..CacheSize /\ d.idid - maxId \in 1..CacheSize
      /\ Len(docs) = maxId - minId + 1 /\ docs \in Seq(Doc \cup {NoDoc})
      /\ maxId \in Int /\ minId \in Nat /\ Len(docs) \in Nat /\ d.idid \in Int
      /\ CacheSize \in Nat
  BY NumDroppedFacts, CacheSizeAssumption
<1>1. /\ docs' = [p \in 1..len |-> IF p = len THEN d
                                   ELSE IF p + n <= Len(docs) THEN docs[p + n]
                                   ELSE NoDoc]
      /\ minId' = minId + n
      /\ maxId' = d.idid
      /\ urlToId' = IndexWith(CleanUrls(1, n), d)
  BY DEF GrowUpTo
<1> HIDE DEF n, len
<1>2. /\ docs' \in Seq(Doc \cup {NoDoc})
      /\ Len(docs') = len
      /\ docs'[len] = d
      /\ \A p \in 1..(len - 1) :
           docs'[p] = IF p + n <= Len(docs) THEN docs[p + n] ELSE NoDoc
  <2>1. \A p \in 1..len : docs'[p] \in Doc \cup {NoDoc}
    BY <1>0, <1>1
  <2>2. docs' \in Seq(Doc \cup {NoDoc}) /\ Len(docs') = len
    BY <1>0, <1>1, <2>1
  <2> QED
    BY <1>0, <1>1, <2>2
<1>3. /\ \A u : u \in DOMAIN urlToId' <=>
                  \/ u = UrlOf(d)
                  \/ /\ u \in DOMAIN urlToId
                     /\ ~ \E p \in 1..n : docs[p] # NoDoc /\ UrlOf(docs[p]) = u
      /\ urlToId'[UrlOf(d)] = d.idid
      /\ \A u \in DOMAIN urlToId' : u # UrlOf(d) => urlToId'[u] = urlToId[u]
  BY <1>1 DEF IndexWith, CleanUrls, Restrict
<1>4. len = maxId' - minId' + 1
  BY <1>0, <1>1 DEF len
<1>5. CacheTypeOK'
  <2>1. minId' \in Ids
    <3>1. d.idid \in Ids /\ maxId' = d.idid /\ minId' = minId + n
      BY <1>1, DocFacts
    <3>2. minId' \in Nat /\ minId' <= d.idid
      BY <1>0, <1>4, <3>1
    <3> QED
      BY <1>0, <3>1, <3>2, MaxIdAssumption DEF Ids
  <2>2. DOMAIN urlToId' \subseteq Urls
    BY <1>3, DocFacts DEF CacheInv, CacheTypeOK
  <2>3. \A u \in DOMAIN urlToId' : urlToId'[u] \in Ids
    BY <1>3, DocFacts DEF CacheInv, CacheTypeOK
  <2> QED
    BY <1>1, <1>2, <2>1, <2>2, <2>3, DocFacts DEF CacheTypeOK
<1>6. WindowInv'
  <2>1. ASSUME NEW p \in 1..Len(docs')
        PROVE  docs'[p] = NoDoc \/ docs'[p].idid = minId' + p - 1
    <3>1. CASE p = len
      BY <1>0, <1>1, <1>2, <1>4, <3>1
    <3>2. CASE p # len /\ p + n <= Len(docs)
      <4>0. p \in Int /\ p >= 1 /\ p <= len
        BY <1>0, <1>2
      <4>1. p + n \in 1..Len(docs) /\ docs'[p] = docs[p + n]
        BY <1>0, <1>2, <3>2, <4>0
      <4>2. docs[p + n] = NoDoc \/ docs[p + n].idid = minId + (p + n) - 1
        BY <4>1 DEF CacheInv, WindowInv
      <4> QED
        BY <1>0, <1>1, <4>1, <4>2
    <3>3. CASE p # len /\ ~(p + n <= Len(docs))
      BY <1>0, <1>2, <3>3
    <3> QED
      BY <3>1, <3>2, <3>3
  <2> QED
    BY <1>0, <1>2, <1>4, <2>1 DEF WindowInv
<1>7. IndexInv'
  <2> SUFFICES ASSUME UrlsAreUnique PROVE IndexInv'
    BY DEF IndexInv, UrlsAreUnique
  <2>0. \A p \in 1..Len(docs) : docs[p] \in Doc \cup {NoDoc}
    BY <1>0
  <2>1. ASSUME NEW u \in DOMAIN urlToId'
        PROVE \E p \in 1..Len(docs') :
                docs'[p] # NoDoc /\ UrlOf(docs'[p]) = u /\ docs'[p].idid = urlToId'[u]
    <3>1. CASE u = UrlOf(d)
      BY <1>0, <1>2, <1>3, <3>1, DocFacts
    <3>2. CASE u # UrlOf(d)
      <4>1. u \in DOMAIN urlToId /\ ~ \E p \in 1..n : docs[p] # NoDoc /\ UrlOf(docs[p]) = u
        BY <1>3, <3>2
      <4>2. PICK p \in 1..Len(docs) :
              docs[p] # NoDoc /\ UrlOf(docs[p]) = u /\ docs[p].idid = urlToId[u]
        BY <4>1 DEF CacheInv, IndexInv
      <4>3. p - n \in 1..(len - 1)
        <5>1. ~(p \in 1..n)
          BY <4>1, <4>2
        <5> QED
          BY <1>0, <5>1 DEF len
      <4>4. docs'[p - n] = docs[p]
        BY <1>0, <1>2, <4>3
      <4> QED
        BY <1>0, <1>2, <1>3, <3>2, <4>2, <4>3, <4>4
    <3> QED
      BY <3>1, <3>2
  <2>2. ASSUME NEW p \in 1..Len(docs'), docs'[p] # NoDoc
        PROVE  UrlOf(docs'[p]) \in DOMAIN urlToId' /\ urlToId'[UrlOf(docs'[p])] = docs'[p].idid
    <3>1. CASE p = len
      BY <1>2, <1>3, <3>1
    <3>2. CASE p # len
      <4>1. p + n \in 1..Len(docs) /\ docs'[p] = docs[p + n]
        BY <1>0, <1>2, <2>2, <3>2
      <4>2. docs[p + n] \in Doc
        BY <2>0, <2>2, <4>1
      <4>3. UrlOf(docs[p + n]) \in DOMAIN urlToId /\ urlToId[UrlOf(docs[p + n])] = docs[p + n].idid
        BY <2>2, <4>1 DEF CacheInv, IndexInv
      <4>4. \A c \in Doc : UrlOf(c) = UrlOf(docs[p + n]) => c.idid = docs[p + n].idid
        BY <4>2, UniqueUrl
      <4>5. ~ \E q \in 1..n : docs[q] # NoDoc /\ UrlOf(docs[q]) = UrlOf(docs[p + n])
        <5> SUFFICES ASSUME NEW q \in 1..n, docs[q] # NoDoc, UrlOf(docs[q]) = UrlOf(docs[p + n])
                     PROVE  FALSE
          OBVIOUS
        <5>1. q \in 1..Len(docs) /\ docs[q] \in Doc
          BY <1>0, <2>0
        <5>2. docs[q].idid = minId + q - 1 /\ docs[p + n].idid = minId + (p + n) - 1
          BY <4>1, <4>2, <5>1, <2>2 DEF CacheInv, WindowInv
        <5> QED
          BY <1>0, <4>1, <4>4, <5>1, <5>2
      <4>6. UrlOf(docs[p + n]) = UrlOf(d) => docs[p + n].idid = d.idid
        BY <4>4
      <4> QED
        BY <1>3, <4>1, <4>3, <4>5, <4>6
    <3> QED
      BY <3>1, <3>2
  <2> QED
    BY <2>1, <2>2 DEF IndexInv
<1> QED
  BY <1>5, <1>6, <1>7 DEF CacheInv

\* With unique urls no slot of the window makes _clean_cache_entry raise.
LEMMA NoCleanFails ==
  ASSUME CacheInv, UrlsAreUnique, NEW lo \in Int, NEW hi \in Int,
         \A p \in lo..hi : p \in 1..Len(docs)
  PROVE  CleanFails(lo, hi) = {}
<1> SUFFICES ASSUME NEW p \in lo..hi, docs[p] # NoDoc,
                    \/ UrlOf(docs[p]) \notin DOMAIN urlToId
                    \/ \E q \in lo..(p - 1) : docs[q] # NoDoc /\ UrlOf(docs[q]) = UrlOf(docs[p])
             PROVE  FALSE
  BY DEF CleanFails
<1>0. docs \in Seq(Doc \cup {NoDoc}) /\ p \in 1..Len(docs)
  BY DEF CacheInv, CacheTypeOK
<1>1. UrlOf(docs[p]) \in DOMAIN urlToId
  BY <1>0 DEF CacheInv, IndexInv
<1>2. PICK q \in lo..(p - 1) : docs[q] # NoDoc /\ UrlOf(docs[q]) = UrlOf(docs[p])
  BY <1>1
<1>3. q \in lo..hi /\ q < p /\ q \in Int /\ p \in Int
  OBVIOUS
<1>4. q \in 1..Len(docs) /\ docs[p] \in Doc /\ docs[q] \in Doc
  BY <1>0, <1>2, <1>3
<1>5. docs[q].idid = minId + q - 1 /\ docs[p].idid = minId + p - 1
  BY <1>0, <1>2, <1>4 DEF CacheInv, WindowInv
<1>6. docs[q].idid = docs[p].idid
  BY <1>2, <1>4, UniqueUrl
<1>7. minId \in Int
  BY MaxIdAssumption DEF CacheInv, CacheTypeOK, Ids
<1> QED
  BY <1>3, <1>5, <1>6, <1>7

\* Cleaning a range of slots of the window.
LEMMA CleanInv ==
  ASSUME CacheInv, NEW lo \in Int, NEW hi \in Int,
         \A p \in lo..hi : p \in 1..Len(docs),
         docs' = CleanDocs(lo, hi), urlToId' = CleanUrls(lo, hi),
         minId' = minId, maxId' = maxId
  PROVE  CacheInv'
<1>0. docs \in Seq(Doc \cup {NoDoc}) /\ Len(docs) \in Nat
  BY DEF CacheInv, CacheTypeOK
<1>1. /\ docs' \in Seq(Doc \cup {NoDoc})
      /\ Len(docs') = Len(docs)
      /\ \A p \in 1..Len(docs) : docs'[p] = IF p \in lo..hi THEN NoDoc ELSE docs[p]
  BY <1>0 DEF CleanDocs
<1>2. /\ \A u : u \in DOMAIN urlToId' <=>
                  /\ u \in DOMAIN urlToId
                  /\ ~ \E p \in lo..hi : docs[p] # NoDoc /\ UrlOf(docs[p]) = u
      /\ \A u \in DOMAIN urlToId' : urlToId'[u] = urlToId[u]
  BY DEF CleanUrls, Restrict
<1>3. CacheTypeOK'
  BY <1>1, <1>2 DEF CacheInv, CacheTypeOK
<1>4. WindowInv'
  BY <1>1 DEF CacheInv, WindowInv
<1>5. IndexInv'
  <2> SUFFICES ASSUME UrlsAreUnique PROVE IndexInv'
    BY DEF IndexInv, UrlsAreUnique
  <2>1. ASSUME NEW u \in DOMAIN urlToId'
        PROVE \E p \in 1..Len(docs') :
                docs'[p] # NoDoc /\ UrlOf(docs'[p]) = u /\ docs'[p].idid = urlToId'[u]
    <3>1. PICK p \in 1..Len(docs) :
            docs[p] # NoDoc /\ UrlOf(docs[p]) = u /\ docs[p].idid = urlToId[u]
      BY <1>2 DEF CacheInv, IndexInv
    <3>2. p \notin lo..hi
      BY <1>2, <3>1
    <3> QED
      BY <1>1, <1>2, <3>1, <3>2
  <2>2. ASSUME NEW p \in 1..Len(docs'), docs'[p] # NoDoc
        PROVE  UrlOf(docs'[p]) \in DOMAIN urlToId' /\ urlToId'[UrlOf(docs'[p])] = docs'[p].idid
    <3>1. p \in 1..Len(docs) /\ p \notin lo..hi /\ docs'[p] = docs[p]
      BY <1>1, <2>2
    <3>2. UrlOf(docs[p]) \in DOMAIN urlToId /\ urlToId[UrlOf(docs[p])] = docs[p].idid
      BY <2>2, <3>1 DEF CacheInv, IndexInv
    <3>3. ~ \E q \in lo..hi : docs[q] # NoDoc /\ UrlOf(docs[q]) = UrlOf(docs[p])
      <4> SUFFICES ASSUME NEW q \in lo..hi, docs[q] # NoDoc, UrlOf(docs[q]) = UrlOf(docs[p])
                   PROVE  FALSE
        OBVIOUS
      <4>1. q \in 1..Len(docs) /\ q # p
        BY <3>1
      <4>2. docs[p] \in Doc /\ docs[q] \in Doc
        BY <1>0, <2>2, <3>1, <4>1
      <4>3. docs[q].idid = minId + q - 1 /\ docs[p].idid = minId + p - 1
        BY <2>2, <3>1, <4>1 DEF CacheInv, WindowInv
      <4>4. docs[q].idid = docs[p].idid
        BY <4>2, UniqueUrl
      <4>5. minId \in Int /\ p \in Int /\ q \in Int
        BY MaxIdAssumption DEF CacheInv, CacheTypeOK, Ids
      <4> QED
        BY <4>1, <4>3, <4>4, <4>5
    <3> QED
      BY <1>2, <3>1, <3>2, <3>3
  <2> QED
    BY <2>1, <2>2 DEF IndexInv
<1> QED
  BY <1>3, <1>4, <1>5 DEF CacheInv

\* The slots dropped before the KeyError leave a smaller window behind; with
\* unique urls this does not happen.
LEMMA GrowFailsInv ==
  ASSUME CacheInv, NEW d \in Doc, GrowFails(d), Newer(d), Reachable(d)
  PROVE  CacheInv' /\ ~UrlsAreUnique
<1> DEFINE n == NumDropped(d)
<1>0. /\ n \in 0..Len(docs) /\ Len(docs) \in Nat
      /\ Len(docs) = maxId - minId + 1 /\ docs \in Seq(Doc \cup {NoDoc})
      /\ maxId \in Int /\ minId \in Nat
  BY NumDroppedFacts
<1>1. PICK p \in 1..n :
        /\ FirstFailure(1, n, p)
        /\ docs' = SubSeq(docs, p, Len(docs))
        /\ minId' = minId + p - 1
        /\ maxId' = maxId
        /\ urlToId' = CleanUrls(1, p - 1)
  BY DEF GrowFails
<1> HIDE DEF n
<1>2. ~UrlsAreUnique
  <2>1. CleanFails(1, n) # {}
    BY <1>1 DEF FirstFailure
  <2>2. \A q \in 1..n : q \in 1..Len(docs)
    BY <1>0
  <2> QED
    BY <1>0, <2>1, <2>2, NoCleanFails
<1>3. p \in 1..Len(docs) /\ p \in Int
  BY <1>0
<1>4. /\ docs' \in Seq(Doc \cup {NoDoc})
      /\ Len(docs') = Len(docs) - p + 1
      /\ \A q \in 1..(Len(docs) - p + 1) : docs'[q] = docs[p + q - 1]
  BY <1>0, <1>1, <1>3
<1>5. CacheTypeOK'
  <2>1. /\ \A u \in DOMAIN urlToId' : u \in DOMAIN urlToId /\ urlToId'[u] = urlToId[u]
    BY <1>1 DEF CleanUrls, Restrict
  <2>2. minId' \in Ids
    <3>1. minId' \in Nat /\ minId' <= maxId
      BY <1>0, <1>1, <1>3
    <3>2. maxId \in Ids \cup {-1}
      BY DEF CacheInv, CacheTypeOK
    <3> QED
      BY <3>1, <3>2, MaxIdAssumption DEF Ids
  <2> QED
    BY <1>1, <1>4, <2>1, <2>2 DEF CacheInv, CacheTypeOK
<1>6. WindowInv'
  <2>1. Len(docs') = maxId' - minId' + 1 /\ Len(docs') <= Len(docs)
    BY <1>0, <1>1, <1>3, <1>4
  <2>2. Len(docs') <= (IF CacheSize = 0 THEN 1 ELSE CacheSize)
    BY <1>0, <1>3, <1>4, <2>1, CacheSizeAssumption DEF CacheInv, WindowInv
  <2>3. ASSUME NEW q \in 1..Len(docs')
        PROVE  docs'[q] = NoDoc \/ docs'[q].idid = minId' + q - 1
    <3>0. q \in Int /\ q >= 1 /\ q <= Len(docs) - p + 1
      BY <1>0, <1>3, <1>4
    <3>1. p + q - 1 \in 1..Len(docs) /\ docs'[q] = docs[p + q - 1]
      BY <1>0, <1>3, <1>4, <3>0
    <3>2. docs[p + q - 1] = NoDoc \/ docs[p + q - 1].idid = minId + (p + q - 1) - 1
      BY <3>1 DEF CacheInv, WindowInv
    <3>3. minId + (p + q - 1) - 1 = minId' + q - 1
      BY <1>0, <1>1, <1>3, <3>0
    <3> QED
      BY <3>1, <3>2, <3>3
  <2> QED
    BY <2>1, <2>2, <2>3 DEF WindowInv
<1> QED
  BY <1>2, <1>5, <1>6 DEF CacheInv, IndexInv, UrlsAreUnique

\* The second critical section of a query, successful or not.
LEMMA CacheDocInv ==
  ASSUME CacheInv, NEW d \in Doc,
         CacheDocIfOk(d) \/ (Newer(d) /\ Reachable(d) /\ GrowFails(d))
  PROVE  CacheInv'
<1>1. CASE Newer(d) /\ ~Reachable(d) /\ ResetTo(d)
  BY <1>1, ResetToInv
<1>2. CASE Newer(d) /\ Reachable(d) /\ GrowUpTo(d)
  BY <1>2, GrowUpInv
<1>3. CASE ~Newer(d) /\ FitsBelow(d) /\ GrowDownTo(d)
  BY <1>3, GrowDownInv
<1>4. CASE ~Newer(d) /\ InWindow(d.idid) /\ FillSlot(d)
  BY <1>4, FillSlotInv
<1>5. CASE UNCHANGED cacheVars
  BY <1>5 DEF CacheInv, CacheTypeOK, WindowInv, IndexInv, cacheVars, UrlsAreUnique
<1>6. CASE Newer(d) /\ Reachable(d) /\ GrowFails(d)
  BY <1>6, GrowFailsInv
<1> QED
  BY <1>1, <1>2, <1>3, <1>4, <1>5, <1>6 DEF CacheDocIfOk

-----------------------------------------------------------------------------
\* What a query knows between its critical sections.
QueryOK(q) ==
  /\ q.pc \in {"read", "wait"} => q.op = "id" /\ q.cur \in Ids /\ q.cur = q.arg
  /\ q.pc = "search" => q.op = "url" /\ q.arg \in Urls /\ q.ans = -1
  /\ q.pc = "cache" =>
       /\ q.got \in Doc
       /\ q.op = "id" => q.got.idid = q.arg
       /\ q.op = "url" => q.arg \in Urls /\ Num[UrlOf(q.got)] = Num[q.arg]
  /\ q.pc = "done" /\ q.op = "id" => q.ans = q.arg
  /\ q.pc = "done" /\ q.op = "url" => q.arg \in Urls

ReaderInv == \A r \in Readers : QueryOK(rd[r])

\* The inductive invariant.
Inv == TypeOK /\ WindowInv /\ IndexInv /\ NoKeyError /\ ReaderInv

\* The invariant contains what the lemmas about the cache assume.
LEMMA InvCacheInv == Inv => CacheInv
BY DEF Inv, TypeOK, CacheInv, CacheTypeOK

\* The cache starts empty and nobody has asked anything.
LEMMA InitInv == Init => Inv
<1> SUFFICES ASSUME Init PROVE Inv
  OBVIOUS
<1>1. 0 \in Ids
  BY MaxIdAssumption DEF Ids
<1>2. DOMAIN urlToId = {}
  BY DEF Init
<1>3. docs \in Seq(Doc \cup {NoDoc}) /\ Len(docs) = 0
  BY DEF Init
<1>4. TypeOK
  <2>1. Idle \in Queries
    BY DEF Idle, Queries
  <2> QED
    BY <1>1, <1>2, <1>3, <2>1, MaxVerAssumption DEF Init, TypeOK
<1>5. WindowInv
  BY <1>3, CacheSizeAssumption DEF Init, WindowInv
<1>6. IndexInv
  BY <1>2, <1>3 DEF IndexInv
<1>7. NoKeyError /\ ReaderInv
  <2>1. QueryOK(Idle) /\ Idle.pc # "failed"
    BY DEF Idle, QueryOK
  <2>2. \A r \in Readers : rd[r] = Idle
    BY DEF Init
  <2> QED
    BY <2>1, <2>2 DEF Init, NoKeyError, ReaderInv
<1> QED
  BY <1>4, <1>5, <1>6, <1>7 DEF Inv

\* A step of one reader that leaves the cache and the update thread alone.
LEMMA FrameInv ==
  ASSUME Inv, UNCHANGED <<cacheVars, storageVars, updVars>>,
         NEW r \in Readers, NEW q \in Queries,
         rd' = [rd EXCEPT ![r] = q],
         QueryOK(q),
         UrlsAreUnique => q.pc # "failed"
  PROVE  Inv'
<1>1. CacheInv'
  BY InvCacheInv DEF CacheInv, CacheTypeOK, WindowInv, IndexInv, cacheVars, UrlsAreUnique
<1>2. TypeOK'
  BY DEF Inv, TypeOK, cacheVars, storageVars, updVars
<1>3. NoKeyError'
  BY DEF Inv, NoKeyError, TypeOK, storageVars, updVars, UrlsAreUnique
<1>4. ReaderInv'
  BY DEF Inv, ReaderInv, TypeOK
<1> QED
  BY <1>1, <1>2, <1>3, <1>4 DEF Inv, CacheInv

\* A step that leaves the cache and the readers alone.
LEMMA FrameUpdInv ==
  ASSUME Inv, UNCHANGED <<cacheVars, rd>>,
         (store \in [Ids -> 0..MaxVer] /\ storeMax \in Ids \cup {-1})',
         storageStop' \in BOOLEAN,
         updStop' \in BOOLEAN,
         upd' \in {"sleep", "due", "walk", "flush", "dead", "raised", "stopped"},
         upd' = "dead" => upd = "dead",
         uCur' \in Ids \cup {-1}, uMin' \in Ids \cup {-1}, uMax' \in Ids \cup {-1}
  PROVE  Inv'
<1>1. CacheInv'
  BY InvCacheInv DEF CacheInv, CacheTypeOK, WindowInv, IndexInv, cacheVars, UrlsAreUnique
<1>2. TypeOK'
  BY DEF Inv, TypeOK, cacheVars
<1>3. NoKeyError'
  BY DEF Inv, NoKeyError, UrlsAreUnique
<1>4. ReaderInv'
  BY DEF Inv, ReaderInv
<1> QED
  BY <1>1, <1>2, <1>3, <1>4 DEF Inv, CacheInv

\* A document read from the storage.
LEMMA LoadedDoc ==
  ASSUME Inv, NEW i \in Ids, store[i] > 0
  PROVE  Loaded(i) \in Doc /\ Loaded(i).idid = i
BY MaxVerAssumption DEF Inv, TypeOK, Loaded, Doc

\* The exception of a read that raises is an answer without a document.
LEMMA RaisedOK ==
  LET q == [Idle EXCEPT !.pc = "raised"]
  IN  q \in Queries /\ QueryOK(q) /\ q.pc = "raised"
BY DEF Idle, Queries, QueryOK

\* Every step of a query, its beginning included.
LEMMA ReaderStepInv ==
  ASSUME Inv, NEW r \in Readers, Ask(r) \/ ReaderStep(r)
  PROVE  Inv'
<1>0. rd[r] \in Queries /\ QueryOK(rd[r]) /\ rd \in [Readers -> Queries]
  BY DEF Inv, TypeOK, ReaderInv
<1>1. ASSUME NEW i \in Ids, AskById(r, i) PROVE Inv'
  <2>1. CASE Cached(i)
    <3> DEFINE q == Query("done", "id", i, -1, NoDoc, docs[Slot(i)].idid)
    <3>1. docs[Slot(i)].idid = i
      <4>1. Slot(i) \in 1..Len(docs) /\ i = minId + Slot(i) - 1
        BY <2>1, MaxIdAssumption DEF Inv, TypeOK, WindowInv, Cached, InWindow, Slot, Ids
      <4> QED
        BY <2>1, <4>1 DEF Inv, WindowInv, Cached
    <3>2. q \in Queries /\ QueryOK(q) /\ q.pc # "failed"
      BY <3>1 DEF Queries, Query, QueryOK
    <3>3. rd' = [rd EXCEPT ![r] = q] /\ UNCHANGED <<cacheVars, storageVars, updVars>>
      BY <1>1, <2>1 DEF AskById
    <3> QED
      BY <3>2, <3>3, FrameInv
  <2>2. CASE ~Cached(i)
    <3> DEFINE q == Query("read", "id", i, i, NoDoc, -1)
    <3>1. q \in Queries /\ QueryOK(q) /\ q.pc # "failed"
      BY DEF Queries, Query, QueryOK
    <3>2. rd' = [rd EXCEPT ![r] = q] /\ UNCHANGED <<cacheVars, storageVars, updVars>>
      BY <1>1, <2>2 DEF AskById
    <3> QED
      BY <3>1, <3>2, FrameInv
  <2> QED
    BY <2>1, <2>2
<1>2. ASSUME NEW u \in Urls, AskByUrl(r, u) PROVE Inv'
  <2>1. CASE u \in DOMAIN urlToId
    <3> DEFINE q == Query("done", "url", u, -1, NoDoc, urlToId[u])
    <3>1. q \in Queries /\ QueryOK(q) /\ q.pc # "failed"
      BY <2>1 DEF Inv, TypeOK, Queries, Query, QueryOK
    <3>2. rd' = [rd EXCEPT ![r] = q] /\ UNCHANGED <<cacheVars, storageVars, updVars>>
      BY <1>2, <2>1 DEF AskByUrl
    <3> QED
      BY <3>1, <3>2, FrameInv
  <2>2. CASE u \notin DOMAIN urlToId
    <3> DEFINE q == Query("search", "url", u, storeMax, NoDoc, -1)
    <3>1. q \in Queries /\ QueryOK(q) /\ q.pc # "failed"
      BY DEF Inv, TypeOK, Queries, Query, QueryOK
    <3>2. rd' = [rd EXCEPT ![r] = q] /\ UNCHANGED <<cacheVars, storageVars, updVars>>
      BY <1>2, <2>2 DEF AskByUrl
    <3> QED
      BY <3>1, <3>2, FrameInv
  <2> QED
    BY <2>1, <2>2
<1>3. ASSUME Return(r) PROVE Inv'
  <2>1. Idle \in Queries /\ QueryOK(Idle) /\ Idle.pc # "failed"
    BY DEF Idle, Queries, QueryOK
  <2> QED
    BY <1>3, <2>1, FrameInv DEF Return
<1>4. ASSUME ReadStorage(r) PROVE Inv'
  <2> DEFINE c == rd[r].cur
             q == IF store[c] = 0 THEN [rd[r] EXCEPT !.pc = "wait"]
                  ELSE [rd[r] EXCEPT !.pc = "cache", !.got = Loaded(c)]
  <2>1. c \in Ids /\ rd[r].op = "id" /\ c = rd[r].arg
    BY <1>0, <1>4 DEF ReadStorage, QueryOK
  <2>2. store[c] = 0 \/ store[c] > 0
    BY <2>1 DEF Inv, TypeOK
  <2>3. q \in Queries /\ QueryOK(q) /\ q.pc # "failed"
    BY <1>0, <2>1, <2>2, LoadedDoc DEF Queries, QueryOK
  <2>4. rd' = [rd EXCEPT ![r] = q] /\ UNCHANGED <<cacheVars, storageVars, updVars>>
    BY <1>4 DEF ReadStorage
  <2> QED
    BY <2>3, <2>4, FrameInv
<1>5. ASSUME WaitOver(r) PROVE Inv'
  <2> DEFINE c == rd[r].cur
             q == IF storageStop THEN [Idle EXCEPT !.pc = "raised"]
                  ELSE [rd[r] EXCEPT !.pc = "cache", !.got = Loaded(c)]
  <2>1. c \in Ids /\ rd[r].op = "id" /\ c = rd[r].arg
    BY <1>0, <1>5 DEF WaitOver, QueryOK
  <2>2. storageStop \/ store[c] > 0
    BY <1>5 DEF WaitOver
  <2>3. q \in Queries /\ QueryOK(q) /\ q.pc # "failed"
    <3>1. CASE storageStop
      BY <3>1, RaisedOK
    <3>2. CASE ~storageStop
      BY <1>0, <2>1, <2>2, <3>2, LoadedDoc DEF Queries, QueryOK
    <3> QED
      BY <3>1, <3>2
  <2>4. rd' = [rd EXCEPT ![r] = q] /\ UNCHANGED <<cacheVars, storageVars, updVars>>
    BY <1>5 DEF WaitOver
  <2> QED
    BY <2>3, <2>4, FrameInv
<1>6. ASSUME SearchStep(r) PROVE Inv'
  <2> DEFINE i == rd[r].cur
             u == rd[r].arg
  <2>1. u \in Urls /\ rd[r].op = "url" /\ i \in Ids \cup {-1}
    BY <1>0, <1>6 DEF SearchStep, QueryOK, Queries
  <2>2. UNCHANGED <<cacheVars, storageVars, updVars>>
    BY <1>6 DEF SearchStep
  <2>3. CASE rd' = [rd EXCEPT ![r] = [rd[r] EXCEPT !.pc = "done", !.cur = -1]]
    <3> DEFINE q == [rd[r] EXCEPT !.pc = "done", !.cur = -1]
    <3>1. q \in Queries /\ QueryOK(q) /\ q.pc # "failed"
      BY <1>0, <2>1 DEF Queries, QueryOK
    <3> QED
      BY <2>2, <2>3, <3>1, FrameInv
  <2>4. CASE /\ i \in Ids /\ store[i] > 0 /\ Num[Url[i]] = Num[u]
             /\ rd' = [rd EXCEPT ![r] = [rd[r] EXCEPT !.pc = "cache", !.got = Loaded(i)]]
    <3> DEFINE q == [rd[r] EXCEPT !.pc = "cache", !.got = Loaded(i)]
    <3>1. Loaded(i) \in Doc /\ UrlOf(Loaded(i)) = Url[i]
      BY <2>4, LoadedDoc DEF UrlOf
    <3>2. q \in Queries /\ QueryOK(q) /\ q.pc # "failed"
      BY <1>0, <2>1, <2>4, <3>1 DEF Queries, QueryOK
    <3> QED
      BY <2>2, <2>4, <3>2, FrameInv
  <2>5. CASE ~(i < 0) /\ rd' = [rd EXCEPT ![r] = [rd[r] EXCEPT !.cur = i - 1]]
    <3> DEFINE q == [rd[r] EXCEPT !.cur = i - 1]
    <3>1. rd[r].cur - 1 \in Ids \cup {-1}
      BY <2>1, <2>5, MaxIdAssumption DEF Ids
    <3>2. q \in Queries /\ QueryOK(q) /\ q.pc # "failed"
      BY <1>0, <1>6, <2>1, <3>1 DEF Queries, QueryOK, SearchStep
    <3> QED
      BY <2>2, <2>5, <3>2, FrameInv
  <2> QED
    BY <1>6, <2>1, <2>3, <2>4, <2>5 DEF SearchStep
<1>7. ASSUME CacheDoc(r) PROVE Inv'
  <2> DEFINE d == rd[r].got
  <2>1. d \in Doc /\ UNCHANGED <<storageVars, updVars>>
    BY <1>0, <1>7 DEF CacheDoc, QueryOK
  <2>2. CacheInv'
    BY <1>7, <2>1, InvCacheInv, CacheDocInv DEF CacheDoc
  <2>3. PICK q : /\ rd' = [rd EXCEPT ![r] = q]
                 /\ q \in Queries /\ QueryOK(q)
                 /\ q.pc = "failed" => ~UrlsAreUnique
    <3>1. CASE rd' = [rd EXCEPT ![r] =
                        [@ EXCEPT !.pc = "done", !.cur = -1, !.got = NoDoc, !.ans = d.idid]]
      <4> DEFINE q == [rd[r] EXCEPT !.pc = "done", !.cur = -1, !.got = NoDoc, !.ans = d.idid]
      <4>1. q \in Queries /\ QueryOK(q) /\ q.pc # "failed"
        BY <1>0, <1>7, <2>1, DocFacts DEF Queries, QueryOK, CacheDoc
      <4> QED
        BY <3>1, <4>1
    <3>2. CASE /\ Newer(d) /\ Reachable(d) /\ GrowFails(d)
               /\ rd' = [rd EXCEPT ![r] = [@ EXCEPT !.pc = "failed", !.cur = -1, !.got = NoDoc]]
      <4> DEFINE q == [rd[r] EXCEPT !.pc = "failed", !.cur = -1, !.got = NoDoc]
      <4>1. q \in Queries /\ QueryOK(q)
        BY <1>0 DEF Queries, QueryOK
      <4>2. ~UrlsAreUnique
        BY <2>1, <3>2, InvCacheInv, GrowFailsInv
      <4> QED
        BY <3>2, <4>1, <4>2
    <3> QED
      BY <1>7, <3>1, <3>2 DEF CacheDoc
  <2>4. TypeOK'
    BY <1>0, <2>1, <2>2, <2>3 DEF Inv, TypeOK, CacheInv, CacheTypeOK, storageVars, updVars
  <2>5. NoKeyError'
    BY <1>0, <2>1, <2>3 DEF Inv, NoKeyError, storageVars, updVars, UrlsAreUnique
  <2>6. ReaderInv'
    BY <1>0, <2>3 DEF Inv, ReaderInv
  <2> QED
    BY <2>2, <2>4, <2>5, <2>6 DEF Inv, CacheInv
<1>8. ASSUME LoadRaises(r) PROVE Inv'
  BY <1>8, RaisedOK, FrameInv DEF LoadRaises
<1> QED
  BY <1>1, <1>2, <1>3, <1>4, <1>5, <1>6, <1>7, <1>8 DEF Ask, ReaderStep

\* The flush, also when a KeyError ends it half way.
LEMMA FlushInv ==
  ASSUME Inv, Flush
  PROVE  Inv'
<1>0. /\ minId \in Int /\ maxId \in Int /\ uMin \in Int /\ uMax \in Int
      /\ Len(docs) = maxId - minId + 1
  BY MaxIdAssumption DEF Inv, TypeOK, WindowInv, Ids
<1>1. /\ FlushLo \in Int /\ FlushHi \in Int
      /\ \A p \in FlushLo..FlushHi : p \in 1..Len(docs)
  BY <1>0 DEF FlushLo, FlushHi, Slot
<1>2. CacheInv' /\ (UrlsAreUnique => upd' # "dead")
  <2>1. CASE /\ docs' = CleanDocs(FlushLo, FlushHi)
             /\ urlToId' = CleanUrls(FlushLo, FlushHi)
             /\ upd' = "sleep"
    BY <1>1, <2>1, InvCacheInv, CleanInv DEF Flush
  <2>2. ASSUME NEW p \in FlushLo..FlushHi, FirstFailure(FlushLo, FlushHi, p),
               docs' = CleanDocs(FlushLo, p - 1), urlToId' = CleanUrls(FlushLo, p - 1)
        PROVE  CacheInv' /\ ~UrlsAreUnique
    <3>1. p - 1 \in Int /\ \A q \in FlushLo..(p - 1) : q \in 1..Len(docs)
      BY <1>1
    <3>2. CacheInv'
      BY <1>1, <2>2, <3>1, InvCacheInv, CleanInv DEF Flush
    <3>3. ~UrlsAreUnique
      BY <1>1, <2>2, InvCacheInv, NoCleanFails DEF FirstFailure
    <3> QED
      BY <3>2, <3>3
  <2> QED
    BY <2>1, <2>2 DEF Flush
<1>3. TypeOK'
  BY <1>2 DEF Flush, Inv, TypeOK, CacheInv, CacheTypeOK, storageVars
<1>4. NoKeyError'
  BY <1>2 DEF Flush, Inv, NoKeyError, storageVars, UrlsAreUnique
<1>5. ReaderInv'
  BY DEF Flush, Inv, ReaderInv
<1> QED
  BY <1>2, <1>3, <1>4, <1>5 DEF Inv, CacheInv

\* Every step of the update thread.
LEMMA UpdStepInv ==
  ASSUME Inv, UpdStep \/ RequestStop \/ NotifyStop \/ \E i \in Ids : StorageAdd(i)
  PROVE  Inv'
<1>0. TypeOK
  BY DEF Inv
<1>1. ASSUME SleepStep PROVE Inv'
  BY <1>0, <1>1, FrameUpdInv DEF SleepStep, TypeOK, storageVars
<1>2. ASSUME UpdateStart PROVE Inv'
  BY <1>0, <1>2, FrameUpdInv DEF UpdateStart, TypeOK, storageVars
<1>3. ASSUME SkipMissing PROVE Inv'
  <2>1. uCur - 1 \in Ids \cup {-1}
    BY <1>3, MaxIdAssumption DEF SkipMissing, Ids
  <2> QED
    BY <1>0, <1>3, <2>1, FrameUpdInv DEF SkipMissing, TypeOK, storageVars
<1>4. ASSUME Refetch PROVE Inv'
  <2>1. uCur \in Ids /\ uCur - 1 \in Ids \cup {-1}
    BY <1>4, MaxIdAssumption DEF Refetch, Ids
  <2>2. store' \in [Ids -> 0..MaxVer]
    BY <1>0, <1>4, <2>1, MaxVerAssumption DEF Refetch, TypeOK
  <2> QED
    BY <1>0, <1>4, <2>1, <2>2, FrameUpdInv DEF Refetch, TypeOK
<1>5. ASSUME WalkEnds PROVE Inv'
  BY <1>0, <1>5, FrameUpdInv DEF WalkEnds, TypeOK, storageVars
<1>6. ASSUME RequestStop PROVE Inv'
  BY <1>0, <1>6, FrameUpdInv DEF RequestStop, TypeOK, storageVars
<1>7. ASSUME NotifyStop PROVE Inv'
  BY <1>0, <1>7, FrameUpdInv DEF NotifyStop, TypeOK, updVars
<1>8. ASSUME NEW i \in Ids, StorageAdd(i) PROVE Inv'
  <2>1. store' \in [Ids -> 0..MaxVer] /\ storeMax' \in Ids \cup {-1}
    BY <1>0, <1>8, MaxVerAssumption DEF StorageAdd, TypeOK
  <2> QED
    BY <1>0, <1>8, <2>1, FrameUpdInv DEF StorageAdd, TypeOK, updVars
<1>9. ASSUME WalkRaises PROVE Inv'
  BY <1>0, <1>9, FrameUpdInv DEF WalkRaises, TypeOK, storageVars
<1> QED
  BY <1>1, <1>2, <1>3, <1>4, <1>5, <1>6, <1>7, <1>8, <1>9, FlushInv DEF UpdStep

\* The invariant is inductive.
LEMMA NextInv == Inv /\ [Next]_vars => Inv'
<1> SUFFICES ASSUME Inv, [Next]_vars PROVE Inv'
  OBVIOUS
<1>1. ASSUME NEW r \in Readers, Ask(r) \/ ReaderStep(r) PROVE Inv'
  BY <1>1, ReaderStepInv
<1>2. ASSUME UpdStep \/ RequestStop \/ NotifyStop \/ \E i \in Ids : StorageAdd(i) PROVE Inv'
  BY <1>2, UpdStepInv
<1>3. ASSUME UNCHANGED vars PROVE Inv'
  <2>1. UNCHANGED cacheVars /\ UNCHANGED rd /\ UNCHANGED storageVars /\ UNCHANGED updVars
    BY <1>3 DEF vars
  <2> QED
    BY <2>1, FrameUpdInv DEF Inv, TypeOK, storageVars, updVars
<1> QED
  BY <1>1, <1>2, <1>3 DEF Next

\* The inductive invariant holds in every reachable state of every instance.
THEOREM InvHolds == Spec => []Inv
BY InitInv, NextInv, PTL DEF Spec

-----------------------------------------------------------------------------
\* Every variable keeps its type: what the code assumes of its own fields.
THEOREM TypeCorrect == Spec => []TypeOK
<1>1. Inv => TypeOK
  BY DEF Inv
<1> QED
  BY <1>1, InvHolds, PTL

\* The slots are those of [min_id, max_id] and each holds its own document
\* (_cache_doc_if_ok, _shrink_cache_size), whatever the cache size.
THEOREM WindowCorrect == Spec => []WindowInv
<1>1. Inv => WindowInv
  BY DEF Inv
<1> QED
  BY <1>1, InvHolds, PTL

\* With unique urls _url_to_id indexes exactly the cached documents.
THEOREM IndexCorrect == Spec => []IndexInv
<1>1. Inv => IndexInv
  BY DEF Inv
<1> QED
  BY <1>1, InvHolds, PTL

\* With unique urls neither the update thread nor a query meets a KeyError.
THEOREM KeyErrorFree == Spec => []NoKeyError
<1>1. Inv => NoKeyError
  BY DEF Inv
<1> QED
  BY <1>1, InvHolds, PTL

\* A query by id is answered with the document of that id.
THEOREM IdAnswersCorrect == Spec => []AnswersTheId
<1>1. Inv => AnswersTheId
  BY DEF Inv, ReaderInv, QueryOK, AnswersTheId
<1> QED
  BY <1>1, InvHolds, PTL

\* A query by url is answered with the document at that url or with none, when
\* neither urls nor their time stamps repeat.
THEOREM UrlAnswersCorrect ==
  ASSUME UrlsAreUnique, NumsAreUnique
  PROVE  Spec => []AnswersTheUrl
<1>1. Init => AnswersTheUrl
  <2>1. Idle.pc # "done"
    BY DEF Idle
  <2> QED
    BY <2>1 DEF Init, AnswersTheUrl
<1>2. Inv /\ AnswersTheUrl /\ [Next]_vars => AnswersTheUrl'
  <2> SUFFICES ASSUME Inv, AnswersTheUrl, [Next]_vars PROVE AnswersTheUrl'
    OBVIOUS
  <2>0. rd \in [Readers -> Queries] /\ \A r \in Readers : QueryOK(rd[r])
    BY DEF Inv, TypeOK, ReaderInv
  <2>1. CASE UNCHANGED rd
    BY <2>1 DEF AnswersTheUrl
  <2>2. ASSUME NEW r \in Readers, NEW q, rd' = [rd EXCEPT ![r] = q],
               q.pc = "done" /\ q.op = "url" /\ q.ans # -1 => Url[q.ans] = q.arg
        PROVE  AnswersTheUrl'
    BY <2>0, <2>2 DEF AnswersTheUrl
  <2>3. ASSUME NEW r \in Readers, Ask(r) \/ ReaderStep(r)
        PROVE  AnswersTheUrl'
    <3>1. ASSUME NEW i \in Ids, AskById(r, i) PROVE AnswersTheUrl'
      BY <3>1, <2>2 DEF AskById, Query
    <3>2. ASSUME NEW u \in Urls, AskByUrl(r, u) PROVE AnswersTheUrl'
      <4>1. CASE u \in DOMAIN urlToId
        <5> DEFINE q == Query("done", "url", u, -1, NoDoc, urlToId[u])
        <5>1. Url[urlToId[u]] = u
          BY <4>1 DEF Inv, IndexInv, UrlOf
        <5>2. q.ans = urlToId[u] /\ q.arg = u
          BY DEF Query
        <5>3. rd' = [rd EXCEPT ![r] = q]
          BY <3>2, <4>1 DEF AskByUrl
        <5> HIDE DEF q
        <5> QED
          BY <2>2, <5>1, <5>2, <5>3
      <4>2. CASE u \notin DOMAIN urlToId
        BY <3>2, <4>2, <2>2 DEF AskByUrl, Query
      <4> QED
        BY <4>1, <4>2
    <3>3. ASSUME Return(r) PROVE AnswersTheUrl'
      BY <3>3, <2>2 DEF Return, Idle
    <3>4. ASSUME ReadStorage(r) PROVE AnswersTheUrl'
      <4> DEFINE c == rd[r].cur
                 q == IF store[c] = 0 THEN [rd[r] EXCEPT !.pc = "wait"]
                      ELSE [rd[r] EXCEPT !.pc = "cache", !.got = Loaded(c)]
      <4>1. q.pc # "done"
        BY <2>0 DEF Queries
      <4>2. rd' = [rd EXCEPT ![r] = q]
        BY <3>4 DEF ReadStorage
      <4> HIDE DEF q
      <4> QED
        BY <2>2, <4>1, <4>2
    <3>5. ASSUME WaitOver(r) PROVE AnswersTheUrl'
      <4> DEFINE c == rd[r].cur
                 q == IF storageStop THEN [Idle EXCEPT !.pc = "raised"]
                      ELSE [rd[r] EXCEPT !.pc = "cache", !.got = Loaded(c)]
      <4>1. q.pc # "done"
        BY <2>0 DEF Queries
      <4>2. rd' = [rd EXCEPT ![r] = q]
        BY <3>5 DEF WaitOver
      <4> HIDE DEF q
      <4> QED
        BY <2>2, <4>1, <4>2
    <3>6. ASSUME SearchStep(r) PROVE AnswersTheUrl'
      <4> DEFINE i == rd[r].cur
                 u == rd[r].arg
                 there == i \in Ids /\ store[i] > 0
                 q == IF i < 0 \/ (there /\ Num[Url[i]] < Num[u])
                      THEN [rd[r] EXCEPT !.pc = "done", !.cur = -1]
                      ELSE IF there /\ Num[Url[i]] = Num[u]
                      THEN [rd[r] EXCEPT !.pc = "cache", !.got = Loaded(i)]
                      ELSE [rd[r] EXCEPT !.cur = i - 1]
      <4>1. rd[r].ans = -1 /\ rd[r].pc = "search"
        BY <2>0, <3>6 DEF SearchStep, QueryOK
      <4>2. q.pc = "done" => q.ans = -1
        BY <2>0, <4>1 DEF Queries
      <4>3. rd' = [rd EXCEPT ![r] = q]
        BY <3>6 DEF SearchStep
      <4> HIDE DEF q
      <4> QED
        BY <2>2, <4>2, <4>3
    <3>7. ASSUME CacheDoc(r) PROVE AnswersTheUrl'
      <4> DEFINE d == rd[r].got
                 q == [rd[r] EXCEPT !.pc = "done", !.cur = -1, !.got = NoDoc, !.ans = d.idid]
                 f == [rd[r] EXCEPT !.pc = "failed", !.cur = -1, !.got = NoDoc]
      <4>1. rd' = [rd EXCEPT ![r] = q] \/ rd' = [rd EXCEPT ![r] = f]
        BY <3>7 DEF CacheDoc
      <4>2. f.pc # "done"
        BY <2>0 DEF Queries
      <4>3. q.op = "url" => Url[q.ans] = q.arg
        <5>1. q.op = rd[r].op /\ q.arg = rd[r].arg /\ q.ans = d.idid
          BY <2>0 DEF Queries
        <5>2. d \in Doc /\ (rd[r].op = "url" => rd[r].arg \in Urls /\ Num[UrlOf(d)] = Num[rd[r].arg])
          BY <2>0, <3>7 DEF CacheDoc, QueryOK
        <5>3. UrlOf(d) \in Urls /\ UrlOf(d) = Url[d.idid]
          BY <5>2, DocFacts DEF UrlOf
        <5>4. ASSUME NEW u \in Urls, NEW v \in Urls, Num[u] = Num[v] PROVE u = v
          BY <5>4, NumAssumption DEF NumsAreUnique, IsInjective
        <5> QED
          BY <5>1, <5>2, <5>3, <5>4
      <4> HIDE DEF q, f
      <4> QED
        BY <2>2, <4>1, <4>2, <4>3
    <3>8. ASSUME LoadRaises(r) PROVE AnswersTheUrl'
      BY <3>8, <2>2, RaisedOK DEF LoadRaises
    <3> QED
      BY <2>3, <3>1, <3>2, <3>3, <3>4, <3>5, <3>6, <3>7, <3>8 DEF Ask, ReaderStep
  <2>4. CASE UpdStep \/ RequestStop \/ NotifyStop \/ \E i \in Ids : StorageAdd(i)
    <3>1. UNCHANGED rd
      BY <2>4 DEF UpdStep, SleepStep, UpdateStart, SkipMissing, Refetch, WalkRaises, WalkEnds, Flush,
                  RequestStop, NotifyStop, StorageAdd
    <3> QED
      BY <2>1, <3>1
  <2> QED
    BY <2>1, <2>3, <2>4 DEF Next, vars
<1> QED
  BY <1>1, <1>2, InvHolds, PTL DEF Spec

\* A comparison of differences, for the window's arithmetic.
LEMMA NotGreater ==
  ASSUME NEW x \in Int, NEW y \in Int, NEW c \in Int, ~(x > y - c)
  PROVE  x <= y - c
OBVIOUS

\* A document of the old window keeps its place when the window grows down.
LEMMA WindowGrownDown ==
  ASSUME NEW i \in Int, NEW lo \in Int, NEW hi \in Int, NEW k \in Int, k > 0, lo <= i, i <= hi
  PROVE  i - (lo - k) + 1 = (i - lo + 1) + k /\ lo - k <= i
OBVIOUS

\* A cached document within reach of the new max_id stays cached.
LEMMA NoEviction ==
  ASSUME UrlsAreUnique, CacheInv, NEW d \in Doc, NEW i \in Ids, Cached(i), i > maxId' - CacheSize,
         CacheDocIfOk(d) \/ (Newer(d) /\ Reachable(d) /\ GrowFails(d))
  PROVE  Cached(i)'
<1> DEFINE s == Slot(i)
<1>0. /\ i \in Int /\ minId \in Int /\ maxId \in Int /\ d.idid \in Int /\ CacheSize \in Nat
      /\ Len(docs) = maxId - minId + 1 /\ Len(docs) \in Nat
      /\ docs \in Seq(Doc \cup {NoDoc}) /\ d # NoDoc
      /\ s = i - minId + 1 /\ s \in 1..Len(docs) /\ docs[s] # NoDoc
      /\ minId <= i /\ i <= maxId
  BY DocFacts, MaxIdAssumption, CacheSizeAssumption
  DEF CacheInv, CacheTypeOK, WindowInv, Cached, InWindow, Slot, Ids
<1> HIDE DEF s
<1>a. /\ i \in Int /\ minId \in Int /\ maxId \in Int /\ d.idid \in Int
      /\ s \in Int /\ s = i - minId + 1 /\ s >= 1 /\ s <= Len(docs)
      /\ Len(docs) \in Int /\ Len(docs) = maxId - minId + 1
  BY <1>0
<1>1. CASE Newer(d) /\ ~Reachable(d) /\ ResetTo(d)
  BY <1>0, <1>1 DEF Newer, Reachable, ResetTo
<1>2. CASE Newer(d) /\ Reachable(d) /\ GrowUpTo(d)
  <2> DEFINE n == NumDropped(d)
             len == Len(docs) - n + (d.idid - maxId)
  <2>1. n \in 0..Len(docs) /\ len \in 1..CacheSize /\ d.idid > maxId
    BY <1>0, <1>2, NumDroppedFacts DEF Newer
  <2>2. s - n >= 1
    <3>1. n = IF Len(docs) > CacheSize - (d.idid - maxId)
              THEN Len(docs) - (CacheSize - (d.idid - maxId)) ELSE 0
      BY DEF NumDropped
    <3>2. maxId' = d.idid
      BY <1>2 DEF GrowUpTo
    <3> HIDE DEF n
    <3> QED
      BY <1>0, <3>1, <3>2
  <2>3. /\ docs' = [p \in 1..len |-> IF p = len THEN d
                                     ELSE IF p + n <= Len(docs) THEN docs[p + n]
                                     ELSE NoDoc]
        /\ minId' = minId + n
        /\ maxId' = d.idid
    BY <1>2 DEF GrowUpTo
  <2> HIDE DEF n
  <2>4. s - n \in 1..len /\ s - n # len /\ (s - n) + n = s /\ (s - n) + n <= Len(docs)
    BY <1>a, <2>1, <2>2
  <2> HIDE DEF len
  <2>5. docs'[s - n] = docs[s]
    BY <2>3, <2>4
  <2>6. i - minId' + 1 = s - n /\ minId' <= i /\ i <= maxId'
    BY <1>0, <2>1, <2>2, <2>3
  <2> QED
    BY <1>0, <2>5, <2>6 DEF Cached, InWindow, Slot
<1>3. CASE ~Newer(d) /\ FitsBelow(d) /\ GrowDownTo(d)
  <2> DEFINE k == minId - d.idid
  <2>1. k \in Int /\ k > 0 /\ k = minId - d.idid
    BY <1>0, <1>3 DEF FitsBelow
  <2>2. /\ docs' = [p \in 1..(Len(docs) + minId - d.idid) |->
                      IF p = 1 THEN d
                      ELSE IF p <= minId - d.idid THEN NoDoc
                      ELSE docs[p - (minId - d.idid)]]
        /\ minId' = d.idid
        /\ maxId' = maxId
    BY <1>3 DEF GrowDownTo, GrownDown
  <2> HIDE DEF k
  <2>3. /\ s + k \in 1..(Len(docs) + minId - d.idid)
        /\ s + k # 1 /\ ~(s + k <= minId - d.idid) /\ (s + k) - (minId - d.idid) = s
    BY <1>a, <2>1, MaxIdAssumption DEF Ids
  <2>4. docs'[s + k] = docs[s]
    BY <2>2, <2>3
  <2>5. i - minId' + 1 = s + k /\ minId' <= i /\ i <= maxId'
    <3>1. minId' = minId - k
      BY <1>a, <2>1, <2>2
    <3>2. minId <= i /\ i <= maxId
      BY <1>0
    <3>3. i - (minId - k) + 1 = (i - minId + 1) + k /\ minId - k <= i
      <4>1. i \in Int /\ minId \in Int /\ maxId \in Int /\ k \in Int /\ k > 0
        BY <1>a, <2>1
      <4> QED
        BY <3>2, <4>1, WindowGrownDown
    <3>4. s = i - minId + 1 /\ maxId' = maxId
      BY <1>a, <2>2
    <3> QED
      BY <3>1, <3>2, <3>3, <3>4
  <2> QED
    BY <1>0, <2>4, <2>5 DEF Cached, InWindow, Slot
<1>4. CASE ~Newer(d) /\ InWindow(d.idid) /\ FillSlot(d)
  <2>1. docs'[s] # NoDoc /\ minId' = minId /\ maxId' = maxId
    BY <1>0, <1>4 DEF FillSlot
  <2> QED
    BY <1>0, <2>1 DEF Cached, InWindow, Slot
<1>5. CASE UNCHANGED cacheVars
  BY <1>0, <1>5 DEF Cached, InWindow, Slot, cacheVars
<1>6. CASE Newer(d) /\ Reachable(d) /\ GrowFails(d)
  BY <1>6, GrowFailsInv
<1> QED
  BY <1>1, <1>2, <1>3, <1>4, <1>5, <1>6 DEF CacheDocIfOk

\* With unique urls an insertion evicts only documents that are cache_size ids
\* or more behind the new max_id; a flush is the only other way out.
THEOREM EvictionCorrect ==
  ASSUME UrlsAreUnique
  PROVE  Spec => EvictsOnlyTheOldest
<1> DEFINE Kept == upd' = upd =>
                     \A i \in Ids : Cached(i) /\ ~Cached(i)' => i <= maxId' - CacheSize
<1>1. Inv /\ [Next]_vars => Kept
  <2> SUFFICES ASSUME Inv, [Next]_vars, upd' = upd, NEW i \in Ids, Cached(i), ~Cached(i)'
               PROVE  i <= maxId' - CacheSize
    OBVIOUS
  <2>1. CASE UNCHANGED cacheVars
    BY <2>1 DEF Cached, InWindow, Slot, cacheVars
  <2>2. ASSUME NEW r \in Readers, CacheDoc(r) PROVE i <= maxId' - CacheSize
    <3>1. rd[r].got \in Doc
      BY <2>2 DEF Inv, ReaderInv, QueryOK, CacheDoc
    <3>2. i \in Int /\ maxId' \in Int /\ CacheSize \in Int
      <4>1. Inv'
        BY NextInv
      <4> QED
        BY <4>1, MaxIdAssumption, CacheSizeAssumption DEF Inv, TypeOK, Ids
    <3>3. CacheDocIfOk(rd[r].got)
          \/ (Newer(rd[r].got) /\ Reachable(rd[r].got) /\ GrowFails(rd[r].got))
      BY <2>2 DEF CacheDoc
    <3>4. ~(i > maxId' - CacheSize)
      BY <3>1, <3>3, InvCacheInv, NoEviction
    <3> QED
      BY <3>2, <3>4, NotGreater
  <2>3. ASSUME NEW r \in Readers, Ask(r) \/ ReaderStep(r), ~CacheDoc(r)
        PROVE  UNCHANGED cacheVars
    BY <2>3 DEF Ask, ReaderStep, AskById, AskByUrl, Return, ReadStorage, WaitOver, LoadRaises, SearchStep
  <2>4. ~Flush
    BY DEF Flush
  <2>5. CASE UpdStep \/ RequestStop \/ NotifyStop \/ \E j \in Ids : StorageAdd(j)
    <3>1. UNCHANGED cacheVars
      BY <2>4, <2>5 DEF UpdStep, SleepStep, UpdateStart, SkipMissing, Refetch, WalkRaises, WalkEnds,
                        RequestStop, NotifyStop, StorageAdd
    <3> QED
      BY <2>1, <3>1
  <2> QED
    BY <2>1, <2>2, <2>3, <2>5 DEF Next, vars
<1>2. Inv /\ [Next]_vars => [Kept]_vars
  BY <1>1
<1> HIDE DEF Kept
<1>3. Spec => [][Kept]_vars
  BY <1>2, InvHolds, PTL DEF Spec
<1> QED
  BY <1>3 DEF EvictsOnlyTheOldest, Kept

-----------------------------------------------------------------------------
\* Stale documents.

\* The walk goes down from the newest document: what it has re-fetched lies
\* between the two ends it will return, and what comes next is not above.
WalkInv ==
  upd \in {"walk", "flush"} =>
    /\ uMin <= uMax
    /\ upd = "walk" => uCur <= uMin

\* The ids are numbers, in the variables of the update thread as well.
LEMMA UpdNumbers ==
  ASSUME Inv
  PROVE  /\ minId \in Int /\ maxId \in Int /\ uCur \in Int /\ uMin \in Int /\ uMax \in Int
         /\ Len(docs) = maxId - minId + 1 /\ \A i \in Ids : i \in Int
         /\ \A p \in 1..Len(docs) : docs[p] \in Doc \cup {NoDoc}
BY MaxIdAssumption DEF Inv, TypeOK, WindowInv, Ids

\* The two ends of the walk keep their order (update_after_time).
LEMMA WalkNext == Inv /\ WalkInv /\ [Next]_vars => WalkInv'
<1> SUFFICES ASSUME Inv, WalkInv, [Next]_vars PROVE WalkInv'
  OBVIOUS
<1>1. CASE UNCHANGED updVars
  BY <1>1 DEF WalkInv, updVars
<1>2. CASE SleepStep \/ Flush
  BY <1>2 DEF SleepStep, Flush, WalkInv
<1>3. CASE UpdateStart
  <2>1. storeMax \in Int
    BY MaxIdAssumption DEF Inv, TypeOK, Ids
  <2> QED
    BY <1>3, <2>1 DEF UpdateStart, WalkInv
<1>4. CASE SkipMissing \/ Refetch \/ WalkRaises
  BY <1>4, UpdNumbers DEF SkipMissing, Refetch, WalkRaises, WalkInv
<1>5. CASE WalkEnds
  BY <1>5 DEF WalkEnds, WalkInv
<1>6. ASSUME NEW r \in Readers, Ask(r) \/ ReaderStep(r) PROVE UNCHANGED updVars
  BY <1>6 DEF Ask, ReaderStep, AskById, AskByUrl, Return, ReadStorage, WaitOver, LoadRaises, SearchStep, CacheDoc
<1>7. CASE NotifyStop \/ \E i \in Ids : StorageAdd(i)
  BY <1>1, <1>7 DEF NotifyStop, StorageAdd
<1>8. CASE RequestStop
  BY <1>8 DEF RequestStop, WalkInv
<1>9. CASE UNCHANGED vars
  BY <1>1, <1>9 DEF vars
<1> QED
  BY <1>1, <1>2, <1>3, <1>4, <1>5, <1>6, <1>7, <1>8, <1>9 DEF Next, UpdStep

\* Caching a document moves the others with the window or drops them: none of
\* them is cached anew or in another version (_cache_doc_if_ok).
LEMMA InsertKeepsOthers ==
  ASSUME CacheInv, NEW d \in Doc, NEW i \in Ids, i # d.idid, Cached(i)',
         CacheDocIfOk(d) \/ (Newer(d) /\ Reachable(d) /\ GrowFails(d))
  PROVE  Cached(i) /\ docs'[Slot(i)'] = docs[Slot(i)]
<1>0. /\ i \in Int /\ minId \in Int /\ maxId \in Int /\ d.idid \in Int
      /\ docs \in Seq(Doc \cup {NoDoc}) /\ Len(docs) = maxId - minId + 1
  BY DocFacts, MaxIdAssumption DEF CacheInv, CacheTypeOK, WindowInv, Ids
<1> DEFINE t == i - minId' + 1
<1>1. minId' <= i /\ i <= maxId' /\ docs'[t] # NoDoc /\ Slot(i)' = t
  BY DEF Cached, InWindow, Slot
<1>2. ASSUME NEW s \in Int, s = i - minId + 1, s >= 1, s <= Len(docs), docs'[t] = docs[s]
      PROVE  Cached(i) /\ docs'[Slot(i)'] = docs[Slot(i)]
  BY <1>0, <1>1, <1>2 DEF Cached, InWindow, Slot
<1>3. CASE Newer(d) /\ ~Reachable(d) /\ ResetTo(d)
  BY <1>0, <1>1, <1>3 DEF ResetTo
<1>4. CASE Newer(d) /\ Reachable(d) /\ GrowUpTo(d)
  <2> DEFINE n == NumDropped(d)
             len == Len(docs) - n + (d.idid - maxId)
  <2>1. n \in 0..Len(docs) /\ len \in 1..CacheSize
    BY <1>4, NumDroppedFacts
  <2>2. /\ docs' = [p \in 1..len |-> IF p = len THEN d
                                     ELSE IF p + n <= Len(docs) THEN docs[p + n]
                                     ELSE NoDoc]
        /\ minId' = minId + n
        /\ maxId' = d.idid
    BY <1>4 DEF GrowUpTo
  <2> HIDE DEF n
  <2>3. PICK m \in Int : m = n /\ m >= 0
    BY <2>1
  <2>a. minId' = minId + m /\ maxId' = d.idid /\ len = d.idid - minId - m + 1
    BY <1>0, <2>2, <2>3
  <2>b. minId + m <= i /\ i < d.idid /\ t = i - (minId + m) + 1
    BY <1>0, <1>1, <2>a
  <2>4. t \in Int /\ t >= 1 /\ t + n = i - minId + 1 /\ t < len /\ t + n \in Int /\ t + n >= 1 /\ len \in Int
    <3> HIDE DEF t, len
    <3> QED
      BY <1>0, <2>3, <2>a, <2>b
  <2> HIDE DEF t, len
  <2>5. t \in 1..len /\ t # len
    BY <2>4
  <2>6. t + n <= Len(docs) /\ docs'[t] = docs[t + n]
    BY <1>1, <2>2, <2>5
  <2> QED
    BY <1>2, <2>4, <2>6
<1>5. CASE ~Newer(d) /\ FitsBelow(d) /\ GrowDownTo(d)
  <2> DEFINE k == minId - d.idid
             len == Len(docs) + minId - d.idid
  <2>1. /\ docs' = [p \in 1..len |->
                      IF p = 1 THEN d ELSE IF p <= k THEN NoDoc ELSE docs[p - k]]
        /\ minId' = d.idid
        /\ maxId' = maxId
    BY <1>5 DEF GrowDownTo, GrownDown
  <2>2. /\ k \in Int /\ k >= 1 /\ len \in Int /\ t \in Int
        /\ t - k = i - minId + 1 /\ t - k <= Len(docs) /\ t - k \in Int
        /\ t > 1 /\ t <= len
    <3>1. /\ t = i - d.idid + 1 /\ d.idid < i /\ i <= maxId /\ d.idid < minId
          /\ len = (maxId - minId + 1) + minId - d.idid /\ k = minId - d.idid
          /\ Len(docs) = maxId - minId + 1
      BY <1>0, <1>1, <1>5, <2>1 DEF FitsBelow
    <3> HIDE DEF t, k, len
    <3>2. PICK a \in Int, b \in Int, c \in Int, x \in Int :
            a = d.idid /\ b = minId /\ c = maxId /\ x = i
      BY <1>0
    <3>3. t = x - a + 1 /\ a < x /\ x <= c /\ a < b /\ len = c - a + 1 /\ k = b - a /\ Len(docs) = c - b + 1
      <4>1. len = (c - b + 1) + b - a
        BY <3>1, <3>2
      <4> QED
        BY <3>1, <3>2, <4>1
    <3>4. k \in Int /\ k >= 1 /\ len \in Int /\ t \in Int /\ t > 1 /\ t <= len
      BY <3>3
    <3>5. t - k = x - b + 1 /\ t - k <= Len(docs) /\ t - k \in Int
      BY <3>3
    <3> QED
      BY <3>2, <3>4, <3>5
  <2> HIDE DEF t, k, len
  <2>3. t \in 1..len /\ t # 1
    BY <2>2
  <2>4. ~(t <= k) /\ docs'[t] = docs[t - k]
    BY <1>1, <2>1, <2>3
  <2>5. t - k >= 1
    BY <2>2, <2>4
  <2> QED
    BY <1>2, <2>2, <2>4, <2>5
<1>6. CASE ~Newer(d) /\ InWindow(d.idid) /\ FillSlot(d)
  <2>1. /\ docs' = [docs EXCEPT ![d.idid - minId + 1] = d]
        /\ minId' = minId /\ maxId' = maxId
    BY <1>6 DEF FillSlot, Slot
  <2>2. t \in Int /\ t = i - minId + 1 /\ t >= 1 /\ t <= Len(docs) /\ t # d.idid - minId + 1
    BY <1>0, <1>1, <2>1
  <2>3. docs'[t] = docs[t]
    BY <1>0, <2>1, <2>2
  <2> QED
    BY <1>2, <2>2, <2>3
<1>7. CASE UNCHANGED cacheVars
  BY <1>7 DEF Cached, InWindow, Slot, cacheVars
<1>8. CASE Newer(d) /\ Reachable(d) /\ GrowFails(d)
  <2>1. PICK p \in 1..NumDropped(d) :
          /\ docs' = SubSeq(docs, p, Len(docs))
          /\ minId' = minId + p - 1
          /\ maxId' = maxId
    BY <1>8 DEF GrowFails
  <2>2. NumDropped(d) \in 0..Len(docs) /\ Len(docs) \in Nat
    BY <1>8, NumDroppedFacts
  <2>3. p \in Int /\ p >= 1 /\ p <= Len(docs)
    BY <2>2
  <2>4. /\ t \in Int /\ t >= 1 /\ p + t - 1 = i - minId + 1
        /\ p + t - 1 <= Len(docs) /\ p + t - 1 >= 1 /\ p + t - 1 \in Int
        /\ t \in 1..(Len(docs) - p + 1)
    BY <1>0, <1>1, <2>1, <2>2, <2>3
  <2> HIDE DEF t
  <2>5. docs'[t] = docs[p + t - 1]
    BY <1>0, <2>1, <2>2, <2>3, <2>4
  <2> QED
    BY <1>2, <2>4, <2>5
<1> QED
  BY <1>3, <1>4, <1>5, <1>6, <1>7, <1>8 DEF CacheDocIfOk

\* A flush drops every stale document of its range, unless an exception ends it,
\* and no other becomes stale by it (_update_nearest_docs).
LEMMA FlushLeavesNone ==
  ASSUME Inv, Flush, NEW i \in Ids, i \in LeftStale'
  PROVE  i \in LeftStale \cup Unflushed
<1>1. /\ minId \in Int /\ maxId \in Int /\ uMin \in Int /\ uMax \in Int /\ i \in Int
      /\ Len(docs) = maxId - minId + 1
  BY UpdNumbers
<1>2. upd = "flush" /\ UNCHANGED <<minId, maxId, store>>
  BY DEF Flush, storageVars
<1>3. /\ minId <= i /\ i <= maxId /\ docs'[Slot(i)] # NoDoc /\ docs'[Slot(i)].ver # store[i]
      /\ Slot(i)' = Slot(i)
  BY <1>2 DEF LeftStale, Stale, Cached, InWindow, Slot
<1>4. Slot(i) \in 1..Len(docs) /\ Slot(i) = i - minId + 1
  BY <1>1, <1>3 DEF Slot
<1>5. PICK hi : docs' = CleanDocs(FlushLo, hi) /\ (upd' = "dead" \/ hi = FlushHi)
  BY DEF Flush
<1>6. docs'[Slot(i)] = IF Slot(i) \in FlushLo..hi THEN NoDoc ELSE docs[Slot(i)]
  BY <1>4, <1>5 DEF CleanDocs
<1>7. Slot(i) \notin FlushLo..hi /\ docs'[Slot(i)] = docs[Slot(i)]
  BY <1>3, <1>6
<1>8. Stale(i)
  BY <1>3, <1>7 DEF Stale, Cached, InWindow
<1>9. CASE ~ (uMin <= i /\ i <= uMax)
  BY <1>8, <1>9 DEF LeftStale
<1>10. CASE uMin <= i /\ i <= uMax /\ upd' = "dead"
  BY <1>1, <1>2, <1>10 DEF Unflushed
<1>11. CASE uMin <= i /\ i <= uMax /\ hi = FlushHi
  BY <1>1, <1>3, <1>4, <1>7, <1>11 DEF FlushLo, FlushHi, Slot
<1> QED
  BY <1>5, <1>9, <1>10, <1>11

\* A step that leaves the cache alone makes a document stale only by fetching it
\* again, and then the flush on its way will drop it, or by adding it again; and
\* what an exception of the walk leaves is what it has fetched.
LEMMA UpdLeavesNone ==
  ASSUME Inv, WalkInv, UpdStep \/ RequestStop \/ NotifyStop \/ \E j \in Ids : StorageAdd(j),
         ~Flush, NEW i \in Ids, i \in LeftStale'
  PROVE  i \in LeftStale \cup Unflushed \cup AddedAgain
<1>1. /\ uMin \in Int /\ uMax \in Int /\ uCur \in Int /\ i \in Int
      /\ store \in [Ids -> 0..MaxVer] /\ UNCHANGED cacheVars
  BY UpdNumbers DEF Inv, TypeOK, UpdStep, SleepStep, UpdateStart, SkipMissing, Refetch, WalkRaises,
                    WalkEnds, RequestStop, NotifyStop, StorageAdd
<1>2. /\ Cached(i) /\ docs[Slot(i)].ver # store'[i]
      /\ ~ (upd' \in {"walk", "flush"} /\ uMin' <= i /\ i <= uMax')
  BY <1>1 DEF LeftStale, Stale, Cached, InWindow, Slot, cacheVars
<1>3. CASE store'[i] = store[i]
  <2>1. Stale(i)
    BY <1>2, <1>3 DEF Stale
  <2>2. i \in Unflushed \/ ~ (upd \in {"walk", "flush"} /\ uMin <= i /\ i <= uMax)
    <3>1. CASE SleepStep \/ UpdateStart
      BY <3>1 DEF SleepStep, UpdateStart
    <3>2. CASE SkipMissing \/ WalkEnds \/ RequestStop \/ NotifyStop \/ \E j \in Ids : StorageAdd(j)
      BY <1>2, <3>2 DEF SkipMissing, WalkEnds, RequestStop, NotifyStop, StorageAdd, updVars
    <3>3. CASE Refetch
      BY <1>1, <1>2, <3>3 DEF Refetch, WalkInv
    <3>4. CASE WalkRaises
      BY <1>1, <3>4 DEF WalkRaises, Unflushed
    <3> QED
      BY <3>1, <3>2, <3>3, <3>4 DEF UpdStep
  <2> QED
    BY <2>1, <2>2 DEF LeftStale
<1>4. CASE store'[i] # store[i]
  <2>1. CASE Refetch
    <3>1. i = uCur
      BY <1>1, <1>4, <2>1 DEF Refetch
    <3>2. upd' = "walk" /\ uMin' = i /\ uMax' = uMax /\ i <= uMax
      BY <1>1, <2>1, <3>1 DEF Refetch, WalkInv
    <3> QED
      BY <1>1, <1>2, <3>2
  <2>2. CASE \E j \in Ids : StorageAdd(j)
    BY <1>4, <2>2 DEF StorageAdd, AddedAgain, updVars
  <2>3. CASE SleepStep \/ UpdateStart \/ SkipMissing \/ WalkRaises \/ WalkEnds \/ RequestStop \/ NotifyStop
    BY <1>4, <2>3
    DEF SleepStep, UpdateStart, SkipMissing, WalkRaises, WalkEnds, RequestStop, NotifyStop, storageVars
  <2> QED
    BY <2>1, <2>2, <2>3 DEF UpdStep
<1> QED
  BY <1>3, <1>4

\* A query leaves no document behind in another version than is stored but the
\* one it has read before and caches now.
LEMMA ReaderLeavesItsOwn ==
  ASSUME Inv, NEW r \in Readers, Ask(r) \/ ReaderStep(r), NEW i \in Ids, i \in LeftStale'
  PROVE  i \in LeftStale \cup Inserted
<1>1. UNCHANGED <<storageVars, updVars>>
  BY DEF Ask, ReaderStep, AskById, AskByUrl, Return, ReadStorage, WaitOver, LoadRaises, SearchStep, CacheDoc
<1>2. CASE UNCHANGED cacheVars
  BY <1>1, <1>2 DEF LeftStale, Stale, Cached, InWindow, Slot, cacheVars, storageVars, updVars
<1>3. CASE CacheDoc(r)
  <2> DEFINE d == rd[r].got
  <2>1. d \in Doc /\ rd[r].pc = "cache" /\ rd \in [Readers -> Queries]
    BY <1>3 DEF CacheDoc, Inv, TypeOK, ReaderInv, QueryOK
  <2>2. rd'[r].pc # "cache"
    BY <1>3, <2>1 DEF CacheDoc, Queries
  <2>3. CASE i = d.idid
    BY <2>1, <2>2, <2>3 DEF Inserted
  <2>4. CASE i # d.idid
    <3>1. Cached(i)' /\ docs'[Slot(i)'].ver # store'[i]
      BY DEF LeftStale, Stale
    <3>2. CacheDocIfOk(d) \/ (Newer(d) /\ Reachable(d) /\ GrowFails(d))
      BY <1>3 DEF CacheDoc
    <3>3. Cached(i) /\ docs'[Slot(i)'] = docs[Slot(i)]
      BY <2>1, <2>4, <3>1, <3>2, InvCacheInv, InsertKeepsOthers
    <3> QED
      BY <1>1, <3>1, <3>3 DEF LeftStale, Stale, storageVars, updVars
  <2> QED
    BY <2>3, <2>4
<1> QED
  BY <1>2, <1>3 DEF Ask, ReaderStep, AskById, AskByUrl, Return, ReadStorage, WaitOver, LoadRaises, SearchStep

\* A document is left behind in another version than is stored only by a query that
\* caches what it read before, by an exception between a re-fetch and its flush, and
\* by a second add: the range of the walk covers all it has fetched, and the flush
\* drops all of the range (update_after_time, _update_nearest_docs).
THEOREM OnlyLateInserts == Spec => OnlyLateInsertsGoStale
<1> DEFINE Excused == LeftStale' \subseteq LeftStale \cup Inserted \cup Unflushed \cup AddedAgain
<1>1. Inv /\ WalkInv /\ [Next]_vars => Excused
  <2> SUFFICES ASSUME Inv, WalkInv, [Next]_vars, NEW i \in LeftStale'
               PROVE  i \in LeftStale \cup Inserted \cup Unflushed \cup AddedAgain
    OBVIOUS
  <2>0. i \in Ids
    BY DEF LeftStale
  <2>1. CASE UNCHANGED vars
    BY <2>1 DEF vars, LeftStale, Stale, Cached, InWindow, Slot, cacheVars, storageVars, updVars
  <2>2. ASSUME NEW r \in Readers, Ask(r) \/ ReaderStep(r)
        PROVE  i \in LeftStale \cup Inserted
    BY <2>0, <2>2, ReaderLeavesItsOwn
  <2>3. CASE Flush
    BY <2>0, <2>3, FlushLeavesNone
  <2>4. CASE (UpdStep \/ RequestStop \/ NotifyStop \/ \E j \in Ids : StorageAdd(j)) /\ ~Flush
    BY <2>0, <2>4, UpdLeavesNone
  <2> QED
    BY <2>1, <2>2, <2>3, <2>4 DEF Next
<1>2. Inv /\ WalkInv /\ [Next]_vars => [Excused]_vars
  BY <1>1
<1>3. Init => WalkInv
  BY DEF Init, WalkInv
<1> HIDE DEF Excused
<1>4. Spec => [][Excused]_vars
  BY <1>2, <1>3, WalkNext, InvHolds, PTL DEF Spec
<1> QED
  BY <1>4 DEF OnlyLateInsertsGoStale, Excused

=============================================================================
