------------------------ MODULE BoardListenerProofs ------------------------
(***************************************************************************)
(* Proofs about BoardListener, for every number of update threads, of      *)
(* articles, of articles on a page, of failures and of deletions; about    *)
(* PageSearch, for every board; and that what PageSearch finds is what     *)
(* BoardListener takes the search for.                                     *)
(***************************************************************************)
EXTENDS BoardListener, PageSearch, FiniteSetTheorems, SequenceTheorems, WellFoundedInduction, TLAPS

USE DEF vars, boardVars, mirrorVars, listVars, stopVars

-----------------------------------------------------------------------------
\* Numbers, sets and sequences.

\* The largest of a set of naturals that has a bound.
LEMMA BoundedSetHasMax ==
  ASSUME NEW S, S # {}, NEW b \in Nat, S \subseteq 0..b
  PROVE  /\ Max(S) \in S
         /\ \A x \in S : x <= Max(S)
<1> DEFINE R == {n \in Nat : \E x \in S : n = b - x}
<1>0. \A x \in S : x \in Int /\ 0 <= x /\ x <= b /\ b - x \in Nat
  OBVIOUS
<1>1. R \subseteq Nat /\ R # {}
  BY <1>0
<1>2. \E r \in R : \A y \in R : ~ (<<y, r>> \in OpToRel(<, Nat))
  <2> HIDE DEF R
  <2> QED
    BY <1>1, WFMin, NatLessThanWellFounded, Zenon
<1>3. PICK r \in R : \A y \in R : ~ (<<y, r>> \in OpToRel(<, Nat))
  BY <1>2
<1>7. \A y \in R : ~ (y < r)
  BY <1>3, <1>1 DEF OpToRel
<1>4. PICK m \in S : r = b - m
  OBVIOUS
<1>5. \A x \in S : m >= x
  BY <1>0, <1>7, <1>4
<1>6. Max(S) \in S /\ \A x \in S : Max(S) >= x
  BY <1>5, Zenon DEF Max
<1> QED
  BY <1>6, <1>0

\* list.remove(t) takes nothing but t from the list.
LEMMA WithoutOthers ==
  ASSUME NEW S, NEW s \in Seq(S), NEW t
  PROVE  /\ Without(s, t) \in Seq(S)
         /\ \A u \in S \ {t} : u \in ToSet(s) => u \in ToSet(Without(s, t))
<1>1. CASE t \notin ToSet(s)
  BY <1>1 DEF Without
<1>2. CASE t \in ToSet(s)
  <2>1. PICK k : /\ k = (CHOOSE j \in DOMAIN s : s[j] = t)
                 /\ k \in 1..Len(s) /\ s[k] = t
    BY <1>2, LenProperties DEF ToSet
  <2>2. Without(s, t) = SubSeq(s, 1, k - 1) \o SubSeq(s, k + 1, Len(s))
    BY <1>2, <2>1 DEF Without, RemoveAt
  <2> DEFINE a == SubSeq(s, 1, k - 1)
             b == SubSeq(s, k + 1, Len(s))
  <2>3. Len(s) \in Nat /\ \A i \in 1..Len(s) : s[i] \in S
    BY LenProperties, ElementOfSeq
  <2>4. /\ a \in Seq(S) /\ Len(a) = k - 1
        /\ \A i \in 1..(k - 1) : a[i] = s[i]
    <3>1. \A i \in 1..(k - 1) : s[i] \in S
      BY <2>1, <2>3
    <3>2. /\ a \in Seq(S) /\ Len(a) = IF 1 <= k - 1 THEN (k - 1) - 1 + 1 ELSE 0
          /\ \A i \in 1..((k - 1) - 1 + 1) : a[i] = s[1 + i - 1]
      <4> k - 1 \in Int
        BY <2>1
      <4> QED
        BY <3>1, SubSeqProperties
    <3> QED
      BY <3>2, <2>1, <2>3
  <2>5. /\ b \in Seq(S) /\ Len(b) = Len(s) - k
        /\ \A i \in 1..(Len(s) - k) : b[i] = s[k + i]
    <3>1. \A i \in (k + 1)..Len(s) : s[i] \in S
      BY <2>1, <2>3
    <3>2. /\ b \in Seq(S) /\ Len(b) = IF k + 1 <= Len(s) THEN Len(s) - (k + 1) + 1 ELSE 0
          /\ \A i \in 1..(Len(s) - (k + 1) + 1) : b[i] = s[(k + 1) + i - 1]
      <4> k + 1 \in Int /\ Len(s) \in Int
        BY <2>1, <2>3
      <4> QED
        BY <3>1, SubSeqProperties
    <3> QED
      BY <3>2, <2>1, <2>3
  <2> HIDE DEF a, b
  <2>6. /\ a \o b \in Seq(S) /\ Len(a \o b) = Len(s) - 1
        /\ \A i \in 1..(k - 1) : (a \o b)[i] = s[i]
        /\ \A i \in (k + 1)..Len(s) : (a \o b)[i - 1] = s[i]
    <3>1. /\ a \o b \in Seq(S) /\ Len(a \o b) = Len(a) + Len(b)
          /\ \A i \in 1..(Len(a) + Len(b)) : (a \o b)[i] = IF i <= Len(a) THEN a[i] ELSE b[i - Len(a)]
      BY <2>4, <2>5, ConcatProperties
    <3>2. \A i \in 1..(k - 1) : (a \o b)[i] = s[i]
      BY <3>1, <2>4, <2>5, <2>1, <2>3
    <3>3. ASSUME NEW i \in (k + 1)..Len(s) PROVE (a \o b)[i - 1] = s[i]
      <4>1. i - 1 \in 1..(Len(a) + Len(b)) /\ ~ (i - 1 <= Len(a)) /\ (i - 1) - Len(a) = i - k
        <5>1. Len(a) = k - 1 /\ Len(b) = Len(s) - k /\ k \in Nat /\ Len(s) \in Nat /\ 1 <= k
          BY <2>4, <2>5, <2>1, <2>3
        <5> QED
          BY <5>1
      <4>2. i - k \in 1..(Len(s) - k) /\ k + (i - k) = i
        BY <2>1, <2>3
      <4> QED
        BY <3>1, <4>1, <4>2, <2>5
    <3>4. Len(a) + Len(b) = Len(s) - 1
      BY <2>4, <2>5, <2>1, <2>3
    <3> QED
      BY <3>1, <3>2, <3>3, <3>4
  <2>7. ASSUME NEW u \in S \ {t}, u \in ToSet(s)
        PROVE  u \in ToSet(a \o b)
    <3>1. DOMAIN (a \o b) = 1..(Len(s) - 1) /\ DOMAIN s = 1..Len(s)
      BY <2>6, LenProperties
    <3>2. PICK i \in 1..Len(s) : s[i] = u
      BY <2>7, <3>1 DEF ToSet
    <3>3. i < k \/ i > k
      BY <3>2, <2>1
    <3>4. \E j \in 1..(Len(s) - 1) : (a \o b)[j] = u
      <4>1. CASE i < k
        <5>1. i \in 1..(k - 1) /\ i \in 1..(Len(s) - 1)
          BY <4>1, <2>1, <2>3
        <5> QED
          BY <5>1, <2>6, <3>2
      <4>2. CASE i > k
        <5>1. i \in (k + 1)..Len(s) /\ i - 1 \in 1..(Len(s) - 1)
          BY <4>2, <2>1, <2>3
        <5> QED
          BY <5>1, <2>6, <3>2
      <4> QED
        BY <3>3, <4>1, <4>2
    <3> QED
      BY <3>4, <3>1 DEF ToSet
  <2> QED
    BY <2>2, <2>6, <2>7 DEF a, b
<1> QED
  BY <1>1, <1>2

LEMMA DivFacts ==
  ASSUME NEW a \in Int, NEW b \in Nat \ {0}
  PROVE  /\ a \div b \in Int
         /\ (a \div b) * b <= a
         /\ a < (a \div b) * b + b
         /\ a >= 0 => a \div b >= 0
OBVIOUS

LEMMA TimesMonotonic ==
  ASSUME NEW p \in Int, NEW q \in Int, NEW b \in Nat, p <= q
  PROVE  p * b \in Int /\ q * b \in Int /\ p * b <= q * b
OBVIOUS

LEMMA Constants ==
  /\ MaxId \in Nat /\ MaxArt \in Nat /\ PageSize \in Nat \ {0} /\ TightPages \in Nat
  /\ InitialPosted \in 1..MaxArt /\ InitialPosted <= MaxId + 1
BY BoundsAssumption

LEMMA IdFacts == /\ \A i : i \in Ids <=> i \in Int /\ 0 <= i /\ i <= MaxId
                 /\ -1 \notin Ids
BY Constants DEF Ids

-----------------------------------------------------------------------------
\* The pages of the board.

LEMMA PageUrlsFacts ==
  ASSUME posted \in Nat, NEW p \in Int, NEW u
  PROVE  u \in PageUrls(p) <=>
           \E k \in (1..posted) \ deleted :
             u = Article(k) /\ (p - 1) * PageSize < k /\ k <= p * PageSize
<1>1. /\ (p - 1) * PageSize \in Int /\ p * PageSize \in Int
  BY Constants
<1> DEFINE lo == (p - 1) * PageSize
           hi == p * PageSize
<1>2. lo \in Int /\ hi \in Int
  BY <1>1
<1>3. PageUrls(p) = {Article(k) : k \in (1..posted) \ deleted} \cap {Article(k) : k \in (lo + 1)..hi}
  BY DEF PageUrls, Online
<1> HIDE DEF lo, hi
<1>4. \A j, k \in Int : Article(j) = Article(k) => j = k
  BY DEF Article
<1>5. ASSUME NEW k \in (1..posted) \ deleted, u = Article(k), lo < k, k <= hi
      PROVE  u \in PageUrls(p)
  <2>1. k \in (lo + 1)..hi
    BY <1>2, <1>5
  <2> QED
    BY <2>1, <1>5, <1>3
<1>6. ASSUME u \in PageUrls(p)
      PROVE  \E k \in (1..posted) \ deleted : u = Article(k) /\ lo < k /\ k <= hi
  <2>1. PICK k \in (1..posted) \ deleted : u = Article(k)
    BY <1>6, <1>3
  <2>2. PICK j \in (lo + 1)..hi : u = Article(j)
    BY <1>6, <1>3
  <2>3. j = k
    <3>1. j \in Int /\ k \in Int
      BY <1>2
    <3>2. Article(j) = Article(k)
      BY <2>1, <2>2
    <3> QED
      BY <3>1, <3>2, <1>4
  <2> QED
    BY <2>1, <2>2, <2>3, <1>2
<1>7. u \in PageUrls(p) <=> \E k \in (1..posted) \ deleted : u = Article(k) /\ lo < k /\ k <= hi
  BY <1>5, <1>6
<1> QED
  BY <1>7 DEF lo, hi

\* The page that article k is on.
Page(k) == (k - 1) \div PageSize + 1

LEMMA PageFacts ==
  ASSUME NEW k \in Nat \ {0}
  PROVE  /\ Page(k) \in Nat \ {0}
         /\ (Page(k) - 1) * PageSize < k
         /\ k <= Page(k) * PageSize
         /\ \A p \in Int : k <= p * PageSize => Page(k) <= p
<1> DEFINE d == (k - 1) \div PageSize
<1>1. d \in Int /\ d >= 0 /\ d * PageSize <= k - 1 /\ k - 1 < d * PageSize + PageSize
  BY DivFacts, Constants
<1>2. Page(k) = d + 1
  BY DEF Page
<1> HIDE DEF d
<1>3. (d + 1) * PageSize = d * PageSize + PageSize /\ d * PageSize \in Int
  BY <1>1, Constants
<1>4. ASSUME NEW p \in Int, k <= p * PageSize, ~ (d + 1 <= p)
      PROVE  FALSE
  <2>1. p <= d
    BY <1>1, <1>4
  <2>2. p * PageSize <= d * PageSize /\ p * PageSize \in Int
    BY <2>1, <1>1, TimesMonotonic, Constants
  <2> QED
    BY <2>2, <1>1, <1>3, <1>4
<1>5. (d + 1) - 1 = d
  BY <1>1
<1>6. (Page(k) - 1) * PageSize = d * PageSize /\ Page(k) * PageSize = d * PageSize + PageSize
  BY <1>2, <1>3, <1>5
<1>7. (Page(k) - 1) * PageSize < k /\ k <= Page(k) * PageSize
  BY <1>6, <1>1, <1>3, Constants
<1> QED
  BY <1>1, <1>2, <1>4, <1>7

LEMMA NumPagesFacts ==
  ASSUME posted \in Nat
  PROVE  /\ NumPages \in Nat
         /\ posted <= NumPages * PageSize
         /\ (NumPages - 1) * PageSize < posted \/ NumPages = 0
<1>1. posted + PageSize - 1 \in Int /\ posted + PageSize - 1 >= 0
  BY Constants
<1>2. /\ NumPages \in Nat
      /\ NumPages * PageSize <= posted + PageSize - 1
      /\ posted + PageSize - 1 < NumPages * PageSize + PageSize
  BY <1>1, DivFacts, Constants DEF NumPages
<1>3. (NumPages - 1) * PageSize = NumPages * PageSize - PageSize /\ NumPages * PageSize \in Int
  BY <1>2, Constants
<1> QED
  BY <1>2, <1>3, Constants

\* When a round sees the board hold still and none of the articles above m is
\* deleted, the tight estimate counts exactly the articles above m.
LEMMA EstimateIsExact ==
  ASSUME posted \in Nat, NEW m \in 0..posted, NEW url \in Int,
         \A k \in deleted : k <= m,
         url = IF m = 0 THEN -1 ELSE Article(m),
         NEW p \in PageOf(url, NumPages), NumPages - p <= TightPages
  PROVE  NumUrls(url, p, NumPages) = posted - m
<1> DEFINE A == {u \in PageUrls(p) : u > url}
           B == UNION {PageUrls(q) : q \in (p + 1)..NumPages}
           C == {Article(k) : k \in (m + 1)..posted}
<1>1. /\ p \in 1..NumPages /\ NumPages \in Nat /\ posted <= NumPages * PageSize
      /\ \A q \in 1..NumPages : \A u \in PageUrls(q) :
           (q < p => u < url) /\ (q > p => u > url)
  BY NumPagesFacts DEF PageOf
<1>2. /\ \A k \in Int : Article(k) \in Int
      /\ \A j, k \in Int : Article(j) = Article(k) => j = k
      /\ \A k \in Nat \ {0} : Article(k) > url <=> k > m
  BY DEF Article
<1>3. ASSUME NEW k \in (m + 1)..posted
      PROVE  Article(k) \in A \cup B
  <2>1. k \in (1..posted) \ deleted /\ k \in Nat \ {0} /\ k > m
    OBVIOUS
  <2>2. /\ Page(k) \in 1..NumPages
        /\ (Page(k) - 1) * PageSize < k /\ k <= Page(k) * PageSize
    <3>1. k <= NumPages * PageSize
      <4>1. NumPages * PageSize \in Int /\ k <= posted
        BY <1>1, Constants
      <4> QED
        BY <4>1, <1>1, <2>1
    <3>2. /\ Page(k) \in Nat \ {0} /\ Page(k) <= NumPages
          /\ (Page(k) - 1) * PageSize < k /\ k <= Page(k) * PageSize
      BY <3>1, <1>1, <2>1, PageFacts
    <3> QED
      BY <3>2, <1>1
  <2>3. Article(k) \in PageUrls(Page(k))
    BY <2>1, <2>2, PageUrlsFacts
  <2>4. Article(k) > url
    BY <1>2, <2>1
  <2>5. ~ (Page(k) < p)
    BY <1>1, <2>2, <2>3, <2>4, <1>2, <2>1
  <2>6. CASE Page(k) = p
    BY <2>6, <2>3, <2>4
  <2>7. CASE Page(k) > p
    <3>1. Page(k) \in (p + 1)..NumPages
      BY <2>7, <2>2, <1>1
    <3> QED
      BY <3>1, <2>3
  <2> QED
    BY <2>5, <2>6, <2>7, <2>2, <1>1
<1>4. ASSUME NEW q \in 1..NumPages, NEW u \in PageUrls(q), u > url
      PROVE  u \in C
  <2>1. PICK k \in (1..posted) \ deleted : u = Article(k)
    BY PageUrlsFacts
  <2>2. k > m /\ k \in Nat \ {0}
    BY <2>1, <1>4, <1>2
  <2>3. k \in (m + 1)..posted
    BY <2>2
  <2> QED
    BY <2>3, <2>1
<1>5. ASSUME NEW u \in B
      PROVE  u > url /\ \E q \in 1..NumPages : u \in PageUrls(q) /\ q >= p + 1
  <2>1. PICK q \in (p + 1)..NumPages : u \in PageUrls(q)
    OBVIOUS
  <2>2. q \in 1..NumPages /\ q > p /\ q >= p + 1
    BY <1>1
  <2> QED
    BY <2>1, <2>2, <1>1
<1>6. A \cup B = C
  <2>1. A \subseteq C
    BY <1>4, <1>1
  <2>2. B \subseteq C
    <3> SUFFICES ASSUME NEW u \in B PROVE u \in C
      OBVIOUS
    <3> QED
      BY <1>4, <1>5
  <2> QED
    BY <1>3, <2>1, <2>2
<1>7. A \cap B = {}
  <2> SUFFICES ASSUME NEW u, u \in PageUrls(p), u \in B PROVE FALSE
    OBVIOUS
  <2>1. PICK q \in 1..NumPages : u \in PageUrls(q) /\ q >= p + 1
    BY <1>5
  <2>2. PICK k \in (1..posted) \ deleted : u = Article(k) /\ k <= p * PageSize
    BY <1>1, PageUrlsFacts
  <2>3. PICK j \in (1..posted) \ deleted : u = Article(j) /\ (q - 1) * PageSize < j
    BY <2>1, PageUrlsFacts
  <2>4. j = k /\ k \in Int
    <3>1. j \in Int /\ k \in Int /\ Article(j) = Article(k)
      BY <2>2, <2>3
    <3> QED
      BY <3>1, <1>2
  <2>5. /\ p * PageSize <= (q - 1) * PageSize
        /\ p * PageSize \in Int /\ (q - 1) * PageSize \in Int
    <3>1. p \in Int /\ q - 1 \in Int /\ p <= q - 1
      BY <1>1, <2>1
    <3> QED
      BY <3>1, TimesMonotonic, Constants
  <2> QED
    BY <2>2, <2>3, <2>4, <2>5
<1>8. IsFiniteSet(C) /\ Cardinality(C) = posted - m
  <2> DEFINE f == [k \in (m + 1)..posted |-> Article(k)]
  <2>1. f \in Bijection((m + 1)..posted, C)
    <3>1. f \in [(m + 1)..posted -> C] /\ \A u \in C : \E k \in (m + 1)..posted : f[k] = u
      OBVIOUS
    <3>2. \A j, k \in (m + 1)..posted : f[j] = f[k] => j = k
      BY <1>2
    <3> HIDE DEF f, C
    <3> QED
      BY <3>1, <3>2 DEF Bijection, Injection, Surjection, IsInjective
  <2>2. /\ IsFiniteSet((m + 1)..posted)
        /\ Cardinality((m + 1)..posted) = IF m + 1 > posted THEN 0 ELSE posted - (m + 1) + 1
    <3>1. m + 1 \in Int /\ posted \in Int
      OBVIOUS
    <3> QED
      BY <3>1, FS_Interval
  <2>3. ExistsBijection((m + 1)..posted, C)
    <3> HIDE DEF C
    <3> QED
      BY <2>1 DEF ExistsBijection
  <2> HIDE DEF C
  <2>4. IsFiniteSet(C) /\ Cardinality(C) = Cardinality((m + 1)..posted)
    BY <2>2, <2>3, FS_Bijection
  <2> QED
    BY <2>2, <2>4
<1>9. NumUrls(url, p, NumPages) = Cardinality(A) + Cardinality(B)
  <2>1. ~ (NumPages - p > TightPages)
    BY <1>1, Constants
  <2> QED
    BY <2>1 DEF NumUrls
<1> HIDE DEF A, B, C
<1>10. IsFiniteSet(A) /\ IsFiniteSet(B)
  <2>1. A \in SUBSET C /\ B \in SUBSET C
    BY <1>6
  <2> QED
    BY <2>1, <1>8, FS_Subset
<1>11. /\ Cardinality(A) \in Nat /\ Cardinality(B) \in Nat
       /\ Cardinality(C) = Cardinality(A) + Cardinality(B) - 0
  BY <1>6, <1>7, <1>10, FS_Union, FS_EmptySet, FS_CardinalityType
<1> QED
  BY <1>8, <1>9, <1>11

-----------------------------------------------------------------------------
\* The inductive invariant.  TypeInv and StopInv hold whatever happens; the others
\* say what the board, the mirror, the threads and the round know of each other as
\* long as nothing mixed up ids and urls.

UrlNums == 0..(2 * MaxArt + 1)

ThreadType ==
  [pc : {"next", "adding", "dying", "done"}, id : Ids \cup {-1}, min : UrlNums \cup {-1},
   page : Nat, urls : SUBSET UrlNums, prev : UrlNums, url : UrlNums, stop : BOOLEAN]

RoundType ==
  [pc : {"top", "newest", "oldest", "pages", "estimate", "fetch", "fill", "complete",
         "sleep", "end"},
   id : Ids \cup {-1}, num : UrlNums \cup {-1}, top : Ids \cup {-1}, old : Ids \cup {-1},
   oldUrl : UrlNums, maxPage : Nat, n : Int]

\* A thread that runs has an id to add; both ends that the storage answers with
\* are documents.
TypeInv ==
  /\ posted \in 1..MaxArt /\ deleted \subseteq 1..posted /\ mixedUp \in BOOLEAN
  /\ mirror \in [Ids -> UrlNums \cup {Missing}] /\ maxId \in Ids \cup {-1}
  /\ ln \in RoundType /\ thr \in [Threads -> ThreadType]
  /\ listed \in Seq(Threads) /\ died \subseteq Threads
  /\ stopFlag \in BOOLEAN /\ stopper \in Int
  /\ maxId # -1 => IsFile(maxId)
  /\ ln.top # -1 => IsFile(ln.top)
  /\ ln.old # -1 => ln.old >= 1
  /\ ln.pc = "fetch" => ln.n > 0
  /\ \A t \in Threads : thr[t].pc \in {"next", "adding"} => thr[t].id # -1

\* Every thread that is not done is in the list that stop() goes through, and
\* those it has joined are done.
StopInv ==
  /\ stopFlag <=> stopper # 0
  /\ stopper = -1 => listed = <<>>
  /\ stopper >= -1
  /\ \A t \in Threads : thr[t].pc # "done" => t \in ToSet(listed)
  /\ \A k \in 1..Len(listed) : k < stopper => thr[listed[k]].pc = "done"

\* Document i is article i + 1, and what was deleted is mirrored.
FileInv ==
  /\ \A i \in Ids : IsFile(i) => mirror[i] = Article(i + 1) /\ i + 1 <= posted /\ i <= maxId
  /\ \A k \in deleted : k - 1 \in Ids /\ IsFile(k - 1)

\* The articles that thread c has still to hand out are 1..Left(c).
Left(c) == IF c.pc = "next" THEN c.id + 1 ELSE c.id

\* Each of them is among its urls, or mirrored, or on a page it has not turned to
\* and older than all its urls.
Covered(c, k) ==
  \/ Article(k) \in c.urls
  \/ IsFile(k - 1)
  \/ k <= (c.page - 1) * PageSize /\ \A u \in c.urls : Article(k) < u

ThreadKnows(c) ==
  /\ c.id + 1 <= posted
  /\ \A u \in c.urls : \E k \in 1..Left(c) : u = Article(k)
  /\ \A k \in 1..Left(c) : Covered(c, k)
  /\ c.min = -1 \/ \E m \in Ids : m < Left(c) /\ IsFile(m) /\ c.min = Article(m + 1)
  /\ c.pc = "next" => IF c.prev = Bad THEN Article(c.id + 1) \in c.urls
                      ELSE c.prev = Article(c.id + 2)
  /\ c.pc = "adding" => c.url = Article(c.id + 1) /\ c.prev = Article(c.id + 1)

ThreadsInv == \A t \in Threads : thr[t].pc \in {"next", "adding"} => ThreadKnows(thr[t])

\* What a round has read is still true where the rest of the round relies on it.
NewestKnown(l) ==
  /\ l.id = -1 => l.num = -1
  /\ l.id # -1 => IsFile(l.id) /\ l.num = Article(l.id + 1)
OldestKnown(l) ==
  IF l.old = -1 THEN \A i \in 0..l.id : IsFile(i)
  ELSE IsFile(l.old) /\ l.oldUrl = Article(l.old + 1)

RoundKnows(l) ==
  /\ l.pc \in {"newest", "oldest", "pages", "estimate", "fetch", "fill", "complete"} => NewestKnown(l)
  /\ l.pc \in {"newest", "oldest", "pages", "estimate", "fetch"} => \A k \in deleted : k <= l.id + 1
  /\ l.pc = "oldest" => l.id <= l.top
  /\ l.pc \in {"newest", "oldest"} => l.old = -1
  /\ l.pc \in {"pages", "estimate", "fetch", "fill", "complete"} => OldestKnown(l)
  /\ l.pc \in {"estimate", "fetch"} => l.maxPage = NumPages
  /\ l.pc = "fetch" => l.n = posted - (l.id + 1)
  /\ l.pc = "fill" /\ l.old # -1 => l.old + 1 <= l.maxPage * PageSize
  /\ l.pc = "complete" => l.old = -1

OrderInv == FileInv /\ ThreadsInv /\ RoundKnows(ln)

Inv == TypeInv /\ StopInv /\ (~mixedUp => OrderInv)

-----------------------------------------------------------------------------
\* Types.

LEMMA UrlFacts ==
  /\ \A k \in Int : k >= 0 /\ k <= MaxArt => Article(k) \in UrlNums
  /\ \A u \in UrlNums : u \in Int /\ u >= 0 /\ Placeholder(u) \in UrlNums
  /\ Bad \in UrlNums /\ -1 \notin UrlNums /\ Missing \notin UrlNums
<1>1. /\ \A k \in Int : k >= 0 /\ k <= MaxArt => Article(k) \in UrlNums
      /\ Bad \in UrlNums /\ -1 \notin UrlNums /\ Missing \notin UrlNums
  BY Constants DEF Article, UrlNums, Bad, Missing
<1>2. ASSUME NEW u \in UrlNums
      PROVE  u \in Int /\ u >= 0 /\ Placeholder(u) \in UrlNums
  BY Constants DEF UrlNums, Placeholder, Low, Bad
<1> QED
  BY <1>1, <1>2

LEMMA PageUrlsTyped ==
  ASSUME TypeInv, NEW p \in Int
  PROVE  /\ PageUrls(p) \subseteq UrlNums
         /\ \A number : OlderOnPage(p, number) \subseteq UrlNums
<1>1. posted \in Nat /\ posted <= MaxArt
  BY Constants DEF TypeInv
<1>2. ASSUME NEW u \in PageUrls(p) PROVE u \in UrlNums
  <2>1. PICK k \in 1..posted : u = Article(k)
    BY <1>1, PageUrlsFacts
  <2>2. k \in Int /\ k >= 0 /\ k <= MaxArt
    BY <1>1, Constants
  <2> QED
    BY <2>1, <2>2, UrlFacts
<1> QED
  BY <1>2 DEF OlderOnPage

\* A file stays a file.
FilesStay == \A i \in Ids : IsFile(i) => IsFile(i)'

LEMMA MirrorKept ==
  ASSUME UNCHANGED mirror
  PROVE  FilesStay /\ \A i : IsFile(i)' <=> IsFile(i)
BY DEF FilesStay, IsFile

LEMMA NoThreadTyped == NoThread \in ThreadType /\ NoThread.pc = "done"
BY UrlFacts DEF NoThread, ThreadType

LEMMA TypeStep ==
  ASSUME TypeInv, NEW t \in Threads, NEW c \in ThreadType,
         thr' = [thr EXCEPT ![t] = c], c.pc \in {"next", "adding"} => c.id # -1
  PROVE  /\ thr' \in [Threads -> ThreadType]
         /\ \A s \in Threads : thr[s]'.pc \in {"next", "adding"} => thr[s]'.id # -1
         /\ thr'[t] = c /\ \A s \in Threads \ {t} : thr'[s] = thr[s]
BY DEF TypeInv

LEMMA StartTyped ==
  ASSUME TypeInv, NEW id \in Ids, NEW min \in UrlNums \cup {-1}, NEW page \in Nat,
         NEW urls \in SUBSET UrlNums, NEW prev \in UrlNums,
         StartThread(id, min, page, urls, prev)
  PROVE  /\ thr' \in [Threads -> ThreadType]
         /\ \A s \in Threads : thr[s]'.pc \in {"next", "adding"} => thr[s]'.id # -1
         /\ listed' \in Seq(Threads)
<1>1. CASE ~ MayStart
  BY <1>1 DEF StartThread, TypeInv
<1>2. CASE MayStart
  <2> DEFINE c == [NoThread EXCEPT !.pc = "next", !.id = id, !.min = min,
                                   !.page = page, !.urls = urls, !.prev = prev]
  <2>1. PICK t \in Threads : /\ thr' = [thr EXCEPT ![t] = c]
                             /\ listed' = Append(Without(listed, t), t)
    BY <1>2, Zenon DEF StartThread
  <2>2. c \in ThreadType /\ c.id # -1
    BY UrlFacts, IdFacts DEF NoThread, ThreadType
  <2>3. listed' \in Seq(Threads)
    <3>1. listed \in Seq(Threads)
      BY DEF TypeInv
    <3>2. Without(listed, t) \in Seq(Threads)
      BY <3>1, WithoutOthers
    <3> QED
      BY <3>2, <2>1
  <2> HIDE DEF c
  <2> QED
    BY <2>1, <2>2, <2>3, TypeStep
<1> QED
  BY <1>1, <1>2

\* The parts of TypeInv that a step may disturb.
BoardType == posted \in 1..MaxArt /\ deleted \subseteq 1..posted /\ mixedUp \in BOOLEAN
MirrorType == /\ mirror \in [Ids -> UrlNums \cup {Missing}] /\ maxId \in Ids \cup {-1}
              /\ maxId # -1 => IsFile(maxId)
LnType == /\ ln \in RoundType
          /\ ln.top # -1 => IsFile(ln.top)
          /\ ln.old # -1 => ln.old >= 1
          /\ ln.pc = "fetch" => ln.n > 0
ThrType == /\ thr \in [Threads -> ThreadType]
           /\ \A t \in Threads : thr[t].pc \in {"next", "adding"} => thr[t].id # -1
ListType == listed \in Seq(Threads) /\ died \subseteq Threads
StopType == stopFlag \in BOOLEAN /\ stopper \in Int

LEMMA TypeParts ==
  TypeInv <=> BoardType /\ MirrorType /\ LnType /\ ThrType /\ ListType /\ StopType
BY DEF TypeInv, BoardType, MirrorType, LnType, ThrType, ListType, StopType

LEMMA TypePartsNext ==
  BoardType' /\ MirrorType' /\ LnType' /\ ThrType' /\ ListType' /\ StopType' => TypeInv'
BY DEF TypeInv, BoardType, MirrorType, LnType, ThrType, ListType, StopType

LEMMA BoardTypeKept == BoardType /\ UNCHANGED boardVars => BoardType'
BY DEF BoardType
LEMMA MirrorTypeKept == MirrorType /\ UNCHANGED mirrorVars => MirrorType'
BY DEF MirrorType, IsFile
LEMMA LnTypeKept == LnType /\ UNCHANGED <<ln, mirrorVars>> => LnType'
BY DEF LnType, IsFile
LEMMA ThrTypeKept == ThrType /\ UNCHANGED thr => ThrType'
BY DEF ThrType
LEMMA ListTypeKept == ListType /\ UNCHANGED listVars => ListType'
BY DEF ListType
LEMMA StopTypeKept == StopType /\ UNCHANGED stopVars => StopType'
BY DEF StopType

LEMMA TypeInit == Init => TypeInv
<1> SUFFICES ASSUME Init PROVE TypeInv
  OBVIOUS
<1>1. PICK lo \in 0..InitialPosted :
        /\ mirror = [i \in Ids |-> IF i \in lo..(InitialPosted - 1) THEN Article(i + 1) ELSE Missing]
        /\ maxId = IF lo = InitialPosted THEN -1 ELSE InitialPosted - 1
  BY Zenon DEF Init
<1>2. ASSUME NEW i \in Ids, i \in lo..(InitialPosted - 1)
      PROVE  Article(i + 1) \in UrlNums /\ Article(i + 1) # Missing
  <2>1. i + 1 \in Int /\ i + 1 >= 0 /\ i + 1 <= MaxArt
    BY <1>2, Constants
  <2> QED
    BY <2>1, UrlFacts
<1>3. BoardType
  BY Constants DEF Init, BoardType
<1>4. MirrorType
  <2>1. mirror \in [Ids -> UrlNums \cup {Missing}]
    BY <1>1, <1>2
  <2>2. CASE lo = InitialPosted
    BY <1>1, <2>1, <2>2 DEF MirrorType
  <2>3. CASE lo # InitialPosted
    <3>1. maxId = InitialPosted - 1 /\ maxId \in Ids /\ maxId \in lo..(InitialPosted - 1)
      BY <1>1, <2>3, Constants, IdFacts
    <3>2. mirror[maxId] # Missing
      BY <3>1, <1>1, <1>2
    <3> QED
      BY <3>1, <3>2, <2>1 DEF MirrorType, IsFile
  <2> QED
    BY <2>2, <2>3
<1>5. LnType
  BY UrlFacts, IdFacts DEF Init, NewRound, LnType, RoundType
<1>6. ThrType
  BY NoThreadTyped DEF Init, ThrType
<1>7. ListType /\ StopType
  <2>1. <<>> \in Seq(Threads)
    BY EmptySeq
  <2>2. listed = <<>> /\ died = {}
    BY DEF Init
  <2>3. stopFlag = FALSE /\ stopper = 0
    BY DEF Init
  <2>4. stopper \in Int
    BY <2>3
  <2> QED
    BY <2>1, <2>2, <2>3, <2>4, Zenon DEF ListType, StopType
<1> QED
  BY <1>3, <1>4, <1>5, <1>6, <1>7, TypeParts

\* A thread record that a step of thread t writes has its type.
LEMMA ThrTypeStep ==
  ASSUME TypeInv, NEW t \in Threads, NEW c \in ThreadType,
         thr' = [thr EXCEPT ![t] = c], c.pc \in {"next", "adding"} => c.id # -1
  PROVE  ThrType'
BY TypeStep DEF ThrType

LEMMA ThreadStepsTyped ==
  ASSUME TypeInv, NEW t \in Threads,
         ThreadStep(t) \/ PageFails(t)
  PROVE  TypeInv'
<1> USE TypeParts, TypePartsNext
<1>0. /\ thr[t] \in ThreadType
      /\ thr[t].pc \in {"next", "adding"} => thr[t].id \in Ids
  BY IdFacts DEF TypeInv, ThreadType
<1>1. CASE PageBefore(t)
  <2>1. thr[t].page - 1 \in Nat /\ thr[t].page - 1 \in Int
    BY <1>0, <1>1 DEF PageBefore, ThreadType
  <2>2. PICK c : c = [thr[t] EXCEPT !.page = thr[t].page - 1, !.urls = PageUrls(thr[t].page - 1)]
    OBVIOUS
  <2>3. c \in ThreadType /\ c.pc = thr[t].pc /\ c.id = thr[t].id
    BY <2>1, <2>2, <1>0, PageUrlsTyped DEF ThreadType
  <2>4. thr' = [thr EXCEPT ![t] = c] /\ UNCHANGED <<posted, deleted, mirrorVars, ln, listVars, stopVars>>
    BY <1>1, <2>2, Zenon DEF PageBefore
  <2>5. ThrType'
    BY <2>3, <2>4, ThrTypeStep DEF TypeInv
  <2>6. BoardType'
    BY <1>1 DEF PageBefore, BoardType
  <2> QED
    BY <2>4, <2>5, <2>6, MirrorTypeKept, LnTypeKept, ListTypeKept, StopTypeKept
<1>2. CASE PageFails(t)
  <2>1. PICK c : c = [thr[t] EXCEPT !.pc = "dying"]
    OBVIOUS
  <2>2. c \in ThreadType /\ c.pc = "dying"
    BY <2>1, <1>0 DEF ThreadType
  <2>3. thr' = [thr EXCEPT ![t] = c] /\ UNCHANGED <<boardVars, mirrorVars, ln, listVars, stopVars>>
    BY <1>2, <2>1 DEF PageFails
  <2>4. ThrType'
    BY <2>2, <2>3, ThrTypeStep
  <2> QED
    BY <2>3, <2>4, BoardTypeKept, MirrorTypeKept, LnTypeKept, ListTypeKept, StopTypeKept
<1>3. CASE NextUrl(t)
  <2> DEFINE curr == Max(thr[t].urls)
             isNew == thr[t].urls # {} /\ curr > thr[t].min
  <2>1. thr[t].urls # {} => curr \in UrlNums
    <3>1. thr[t].urls \subseteq 0..(2 * MaxArt + 1) /\ 2 * MaxArt + 1 \in Nat
      BY <1>0, Constants DEF ThreadType, UrlNums
    <3> QED
      BY <3>1, <1>0, BoundedSetHasMax DEF ThreadType
  <2>2. PICK c : c = IF IsFile(thr[t].id) THEN NoThread
                     ELSE [thr[t] EXCEPT !.pc = "adding",
                             !.urls = IF thr[t].urls = {} THEN {} ELSE thr[t].urls \ {curr},
                             !.prev = IF isNew THEN curr ELSE thr[t].prev,
                             !.url = IF isNew THEN curr ELSE Placeholder(thr[t].prev)]
    OBVIOUS
  <2>3. thr' = [thr EXCEPT ![t] = c] /\ UNCHANGED <<boardVars, mirrorVars, ln, listVars, stopVars>>
    BY <1>3, <2>2 DEF NextUrl
  <2>4. c \in ThreadType /\ (c.pc \in {"next", "adding"} => c.id # -1)
    <3>1. CASE IsFile(thr[t].id)
      BY <3>1, <2>2, NoThreadTyped
    <3>2. CASE ~ IsFile(thr[t].id)
      <4>1. Placeholder(thr[t].prev) \in UrlNums
        BY <1>0, UrlFacts DEF ThreadType
      <4>2. (IF isNew THEN curr ELSE thr[t].prev) \in UrlNums
        BY <2>1, <1>0 DEF ThreadType
      <4>3. (IF isNew THEN curr ELSE Placeholder(thr[t].prev)) \in UrlNums
        BY <2>1, <4>1
      <4>4. (IF thr[t].urls = {} THEN {} ELSE thr[t].urls \ {curr}) \subseteq UrlNums
        BY <1>0 DEF ThreadType
      <4>5. thr[t].id # -1
        BY <1>3 DEF NextUrl, TypeInv
      <4> HIDE DEF isNew, curr
      <4> QED
        BY <3>2, <2>2, <1>0, <4>2, <4>3, <4>4, <4>5 DEF ThreadType
    <3> QED
      BY <3>1, <3>2
  <2>5. ThrType'
    BY <2>3, <2>4, ThrTypeStep
  <2> QED
    BY <2>3, <2>5, BoardTypeKept, MirrorTypeKept, LnTypeKept, ListTypeKept, StopTypeKept
<1>4. CASE AddDoc(t)
  <2>1. PICK c : c = IF thr[t].id = 0 \/ thr[t].stop THEN NoThread
                     ELSE [thr[t] EXCEPT !.pc = "next", !.id = thr[t].id - 1]
    OBVIOUS
  <2>2. /\ thr[t].id \in Ids /\ thr[t].url \in UrlNums /\ thr[t].pc = "adding"
        /\ mirror' = [mirror EXCEPT ![thr[t].id] = thr[t].url]
        /\ maxId' = IF thr[t].id > maxId THEN thr[t].id ELSE maxId
        /\ thr' = [thr EXCEPT ![t] = c]
        /\ UNCHANGED <<boardVars, ln, listVars, stopVars>>
    BY <1>4, <1>0, <2>1 DEF AddDoc, ThreadType
  <2>3. c \in ThreadType /\ (c.pc \in {"next", "adding"} => c.id # -1)
    <3>1. CASE thr[t].id = 0 \/ thr[t].stop
      BY <3>1, <2>1, NoThreadTyped
    <3>2. CASE ~ (thr[t].id = 0 \/ thr[t].stop)
      <4>1. thr[t].id - 1 \in Ids
        <5>1. thr[t].id \in Int /\ 0 <= thr[t].id /\ thr[t].id <= MaxId /\ thr[t].id # 0
          BY <3>2, <2>2, IdFacts
        <5>2. thr[t].id - 1 \in Int /\ 0 <= thr[t].id - 1 /\ thr[t].id - 1 <= MaxId
          BY <5>1, Constants
        <5> QED
          BY <5>2, IdFacts
      <4> QED
        BY <3>2, <4>1, <2>1, <1>0, IdFacts DEF ThreadType
    <3> QED
      BY <3>1, <3>2
  <2>4. ThrType'
    BY <2>2, <2>3, ThrTypeStep
  <2>5. /\ mirror' \in [Ids -> UrlNums \cup {Missing}]
        /\ mirror'[thr[t].id] # Missing
        /\ \A i \in Ids : mirror[i] # Missing => mirror'[i] # Missing
    BY <2>2, UrlFacts DEF TypeInv
  <2>6. MirrorType'
    BY <2>2, <2>5 DEF MirrorType, TypeInv, IsFile
  <2>7. LnType'
    <3>1. ln'.top # -1 => IsFile(ln.top)'
      BY <2>2, <2>5 DEF LnType, RoundType, IsFile
    <3> QED
      BY <3>1, <2>2 DEF LnType
  <2> QED
    BY <2>2, <2>4, <2>6, <2>7, BoardTypeKept, ListTypeKept, StopTypeKept
<1>5. CASE DiedCallback(t)
  <2>1. /\ thr' = [thr EXCEPT ![t] = NoThread]
        /\ UNCHANGED <<boardVars, mirrorVars, ln, stopVars>>
        /\ \/ UNCHANGED listVars
           \/ died' = died \cup {t} /\ listed' = Without(listed, t)
    BY <1>5 DEF DiedCallback
  <2>2. ThrType'
    BY <2>1, NoThreadTyped, ThrTypeStep
  <2>3. ListType'
    <3>1. Without(listed, t) \in Seq(Threads)
      BY WithoutOthers DEF TypeInv
    <3> QED
      BY <3>1, <2>1 DEF ListType
  <2> QED
    BY <2>1, <2>2, <2>3, BoardTypeKept, MirrorTypeKept, LnTypeKept, StopTypeKept
<1> QED
  BY <1>1, <1>2, <1>3, <1>4, <1>5 DEF ThreadStep

LEMMA NumUrlsTyped ==
  ASSUME TypeInv, NEW number, NEW p \in Int, NEW maxPage \in Int
  PROVE  NumUrls(number, p, maxPage) \in Int
<1>1. IsFiniteSet(UrlNums)
  BY Constants, FS_Interval DEF UrlNums
<1>2. \A q \in Int : PageUrls(q) \in SUBSET UrlNums
  BY PageUrlsTyped
<1>3. {u \in PageUrls(p) : u > number} \in SUBSET UrlNums
  BY <1>2
<1>4. UNION {PageUrls(q) : q \in (p + 1)..maxPage} \in SUBSET UrlNums
  BY <1>2
<1>5. /\ Cardinality({u \in PageUrls(p) : u > number}) \in Int
      /\ Cardinality(UNION {PageUrls(q) : q \in (p + 1)..maxPage}) \in Int
  <2>1. \A S \in SUBSET UrlNums : Cardinality(S) \in Int
    BY <1>1, FS_Subset, FS_CardinalityType
  <2> QED
    BY <2>1, <1>3, <1>4
<1>6. (maxPage - p) * PageSize \in Int
  BY Constants
<1> QED
  BY <1>5, <1>6 DEF NumUrls

LEMMA ListenerStepsTyped ==
  ASSUME TypeInv, ListenerStep \/ RoundFails
  PROVE  TypeInv'
<1> USE TypeParts, TypePartsNext
<1>0. ln \in RoundType /\ ln.id \in Int /\ ln.top \in Int /\ ln.old \in Int
  BY IdFacts DEF TypeInv, RoundType
<1>1. ASSUME NEW l \in RoundType, ListenerGoesTo(l),
             l.top # -1 => IsFile(l.top), l.old # -1 => l.old >= 1, l.pc # "fetch"
      PROVE  TypeInv'
  <2>1. LnType'
    BY <1>1 DEF ListenerGoesTo, LnType, IsFile
  <2> QED
    BY <1>1, <2>1, BoardTypeKept, MirrorTypeKept, ThrTypeKept, ListTypeKept, StopTypeKept
    DEF ListenerGoesTo
<1>2. ASSUME NEW s \in {"end", "sleep", "complete", "estimate", "pages"},
             ListenerGoesTo([ln EXCEPT !.pc = s])
      PROVE  TypeInv'
  <2>1. PICK l : l = [ln EXCEPT !.pc = s]
    OBVIOUS
  <2>2. /\ l \in RoundType /\ l.pc = s /\ l.top = ln.top /\ l.old = ln.old
    BY <2>1, <1>0 DEF RoundType
  <2> QED
    BY <2>1, <2>2, <1>1, <1>2 DEF TypeInv
<1>3. CASE ReadNewest
  <2>1. CASE stopFlag
    BY <2>1, <1>2, <1>3 DEF ReadNewest
  <2>2. CASE ~ stopFlag
    <3>1. PICK l : l = [NewRound EXCEPT !.pc = "newest", !.id = maxId,
                                        !.num = IF maxId >= 0 THEN mirror[maxId] ELSE -1]
      OBVIOUS
    <3>2. (IF maxId >= 0 THEN mirror[maxId] ELSE -1) \in UrlNums \cup {-1}
      BY IdFacts DEF TypeInv, IsFile
    <3>3. l \in RoundType /\ l.pc = "newest" /\ l.top = -1 /\ l.old = -1
      <4>1. PICK number : number = IF maxId >= 0 THEN mirror[maxId] ELSE -1
        OBVIOUS
      <4>2. /\ l = [NewRound EXCEPT !.pc = "newest", !.id = maxId, !.num = number]
            /\ number \in UrlNums \cup {-1} /\ maxId \in Ids \cup {-1}
        BY <3>1, <3>2, <4>1 DEF TypeInv
      <4>3. NewRound \in RoundType /\ NewRound.top = -1 /\ NewRound.old = -1
        BY UrlFacts, IdFacts DEF NewRound, RoundType
      <4> QED
        BY <4>2, <4>3 DEF RoundType
    <3> QED
      BY <3>1, <3>3, <1>1, <1>3, <2>2 DEF ReadNewest
  <2> QED
    BY <2>1, <2>2
<1>4. CASE ReadTop
  <2>1. PICK l : l = [ln EXCEPT !.pc = "oldest", !.top = maxId]
    OBVIOUS
  <2>2. l \in RoundType /\ l.pc = "oldest" /\ l.top = maxId /\ l.old = ln.old
    BY <2>1, <1>0 DEF RoundType, TypeInv
  <2> QED
    BY <2>1, <2>2, <1>1, <1>4 DEF ReadTop, TypeInv
<1>5. CASE ReadOldest
  <2> DEFINE gaps == {i \in 0..ln.top : ~IsFile(i)}
  <2>1. CASE gaps = {}
    BY <2>1, <1>2, <1>5 DEF ReadOldest
  <2>2. CASE gaps # {}
    <3>1. Max(gaps) \in gaps /\ \A i \in gaps : i <= Max(gaps)
      <4>1. gaps \subseteq 0..ln.top /\ ln.top \in Nat
        BY <2>2, <1>0
      <4> HIDE DEF gaps
      <4> QED
        BY <4>1, <2>2, BoundedSetHasMax
    <3>2. PICK m : m = Max(gaps)
      OBVIOUS
    <3>3. m \in Int /\ 0 <= m /\ m <= ln.top /\ m # ln.top /\ ln.top \in Ids
      BY <3>1, <3>2, <1>0 DEF TypeInv, RoundType
    <3>4. m + 1 \in Ids /\ m + 1 \in 0..ln.top /\ m + 1 \notin gaps
      <4>1. m + 1 \in 0..ln.top /\ ln.top \in Int /\ 0 <= ln.top /\ ln.top <= MaxId
        BY <3>3, IdFacts
      <4>2. m + 1 \notin gaps
        BY <3>1, <3>2, <3>3
      <4> QED
        BY <4>1, <4>2, Constants DEF Ids
    <3>5. mirror[m + 1] \in UrlNums
      BY <3>4 DEF TypeInv, IsFile
    <3>6. PICK l : l = [ln EXCEPT !.pc = "pages", !.old = Max(gaps) + 1,
                                  !.oldUrl = mirror[Max(gaps) + 1]]
      OBVIOUS
    <3>7. l = [ln EXCEPT !.pc = "pages", !.old = m + 1, !.oldUrl = mirror[m + 1]]
      BY <3>2, <3>6
    <3>8. l \in RoundType /\ l.pc = "pages" /\ l.top = ln.top /\ l.old >= 1
      <4>1. PICK o, u : o = m + 1 /\ u = mirror[m + 1]
        OBVIOUS
      <4>2. o \in Ids /\ u \in UrlNums /\ o >= 1
        BY <4>1, <3>4, <3>5, <3>3
      <4> QED
        BY <3>7, <4>1, <4>2, <1>0 DEF RoundType
    <3>9. ListenerGoesTo(l)
      BY <3>6, <2>2, <1>5, Zenon DEF ReadOldest
    <3> QED
      BY <3>8, <3>9, <1>1 DEF TypeInv
  <2> QED
    BY <2>1, <2>2
<1>6. CASE GetMaxPageIdx
  <2>1. NumPages \in Nat
    BY NumPagesFacts DEF TypeInv
  <2>2. PICK l : l = [ln EXCEPT !.pc = "estimate", !.maxPage = NumPages]
    OBVIOUS
  <2>3. l \in RoundType /\ l.pc = "estimate" /\ l.top = ln.top /\ l.old = ln.old
    BY <2>1, <2>2, <1>0 DEF RoundType
  <2> QED
    BY <2>2, <2>3, <1>1, <1>6 DEF GetMaxPageIdx, TypeInv
<1>7. CASE Estimate
  <2>1. CASE ln.num = Bad /\ ListenerGoesTo([ln EXCEPT !.pc = "sleep"])
    BY <2>1, <1>2
  <2>2. CASE ~ (ln.num = Bad /\ ListenerGoesTo([ln EXCEPT !.pc = "sleep"]))
    <3>1. PICK p \in PageOf(ln.num, ln.maxPage) :
            /\ ln' = [ln EXCEPT !.pc = IF NumUrls(ln.num, p, ln.maxPage) > 0 THEN "fetch" ELSE "fill",
                                !.n = NumUrls(ln.num, p, ln.maxPage)]
            /\ mixedUp' = (mixedUp \/ ln.maxPage - p > TightPages)
      BY <1>7, <2>2 DEF Estimate
    <3>2. UNCHANGED <<posted, deleted, mirrorVars, thr, listVars, stopVars>>
      BY <1>7, <2>2 DEF Estimate
    <3>3. PICK n : n = NumUrls(ln.num, p, ln.maxPage)
      OBVIOUS
    <3>4. n \in Int
      BY <3>3, NumUrlsTyped, <1>0 DEF RoundType, PageOf
    <3>5. ln' = [ln EXCEPT !.pc = IF n > 0 THEN "fetch" ELSE "fill", !.n = n]
      BY <3>1, <3>3
    <3>6. LnType'
      BY <3>2, <3>4, <3>5, <1>0 DEF LnType, RoundType, IsFile
    <3>7. BoardType'
      BY <3>1, <3>2 DEF BoardType
    <3> QED
      BY <3>2, <3>6, <3>7, MirrorTypeKept, ThrTypeKept, ListTypeKept, StopTypeKept
  <2> QED
    BY <2>1, <2>2
<1>8. ASSUME NEW s \in {"fill", "sleep"}, ln' = [ln EXCEPT !.pc = s],
             UNCHANGED <<boardVars, mirrorVars, stopVars>>, ThrType', ListType'
      PROVE  TypeInv'
  <2>1. LnType'
    BY <1>8, <1>0 DEF LnType, RoundType, IsFile
  <2> QED
    BY <1>8, <2>1, BoardTypeKept, MirrorTypeKept, StopTypeKept
<1>9. CASE FetchNewDocs
  <2>1. PICK id, urls : id = ln.id + ln.n /\ urls = PageUrls(ln.maxPage)
    OBVIOUS
  <2>2. id \in Ids
    <3>1. ln.n \in Int /\ ln.n > 0 /\ ln.id >= -1 /\ ln.id + ln.n <= MaxId
      BY <1>0, <1>9, IdFacts DEF FetchNewDocs, TypeInv, RoundType
    <3> QED
      BY <3>1, <2>1, <1>0, Constants DEF Ids
  <2>3. urls \in SUBSET UrlNums /\ ln.num \in UrlNums \cup {-1} /\ ln.maxPage \in Nat /\ Bad \in UrlNums
    BY <2>1, <1>0, PageUrlsTyped, UrlFacts DEF RoundType
  <2>4. StartThread(id, ln.num, ln.maxPage, urls, Bad)
    BY <2>1, <1>9 DEF FetchNewDocs
  <2>5. PICK number, page : number = ln.num /\ page = ln.maxPage
    OBVIOUS
  <2>6. ThrType' /\ listed' \in Seq(Threads)
    <3>1. StartThread(id, number, page, urls, Bad) /\ number \in UrlNums \cup {-1} /\ page \in Nat
      BY <2>3, <2>4, <2>5
    <3> QED
      BY <3>1, <2>2, <2>3, StartTyped DEF ThrType
  <2> QED
    BY <2>6, <1>8, <1>9 DEF FetchNewDocs, ListType
<1>10. CASE NothingToFill
  BY <1>2, <1>10 DEF NothingToFill
<1>11. CASE FillOldDocs
  <2>1. PICK p \in PageOf(ln.oldUrl, ln.maxPage) :
          StartThread(ln.old - 1, -1, ln.maxPage, OlderOnPage(p, ln.oldUrl), ln.oldUrl)
    BY <1>11 DEF FillOldDocs
  <2>2. PICK id, page, urls, prev : /\ id = ln.old - 1 /\ page = ln.maxPage
                                    /\ urls = OlderOnPage(p, ln.oldUrl) /\ prev = ln.oldUrl
    OBVIOUS
  <2>3. id \in Ids
    <3>1. ln.old >= 1 /\ ln.old \in Int /\ ln.old <= MaxId
      BY <1>0, <1>11, IdFacts DEF FillOldDocs, TypeInv, RoundType
    <3> QED
      BY <3>1, <2>2, Constants DEF Ids
  <2>4. urls \in SUBSET UrlNums /\ page \in Nat /\ prev \in UrlNums
    BY <2>2, <1>0, PageUrlsTyped DEF RoundType, PageOf
  <2>5. StartThread(id, -1, page, urls, prev)
    BY <2>1, <2>2
  <2>6. ThrType' /\ listed' \in Seq(Threads)
    BY <2>3, <2>4, <2>5, StartTyped DEF ThrType
  <2> QED
    BY <2>6, <1>8, <1>11 DEF FillOldDocs, ListType
<1>12. CASE RoundFails
  BY <1>8, <1>12, ThrTypeKept, ListTypeKept DEF RoundFails
<1>13. CASE Sleep
  <2>1. NewRound \in RoundType /\ NewRound.top = -1 /\ NewRound.old = -1 /\ NewRound.pc = "top"
    BY UrlFacts, IdFacts DEF NewRound, RoundType
  <2>2. /\ ln' = [ln EXCEPT !.pc = "end"] \/ ln' = NewRound
        /\ died' = died \/ died' = {}
        /\ UNCHANGED <<boardVars, mirrorVars, thr, listed, stopVars>>
    BY <1>13 DEF Sleep
  <2>3. LnType'
    BY <2>1, <2>2, <1>0 DEF LnType, RoundType, IsFile
  <2>4. ListType'
    BY <2>2 DEF ListType
  <2> QED
    BY <2>2, <2>3, <2>4, BoardTypeKept, MirrorTypeKept, ThrTypeKept, StopTypeKept
<1> QED
  BY <1>3, <1>4, <1>5, <1>6, <1>7, <1>9, <1>10, <1>11, <1>12, <1>13 DEF ListenerStep

LEMMA StopStepsTyped ==
  ASSUME TypeInv, Stop \/ Joined \/ StopReturns
  PROVE  TypeInv'
<1> USE TypeParts, TypePartsNext
<1>1. ASSUME NEW k \in Int, TellToStop(k), k >= 1
      PROVE  ThrType'
  <2>1. CASE k <= Len(listed)
    <3>1. listed[k] \in Threads
      BY <1>1, <2>1, ElementOfSeq, LenProperties DEF TypeInv
    <3>2. PICK t \in Threads : t = listed[k]
      BY <3>1
    <3>3. thr' = [thr EXCEPT ![t].stop = TRUE]
      BY <1>1, <2>1, <3>2 DEF TellToStop
    <3>4. thr' = [thr EXCEPT ![t] = [thr[t] EXCEPT !.stop = TRUE]]
      BY <3>3
    <3>5. PICK c : c = [thr[t] EXCEPT !.stop = TRUE]
      OBVIOUS
    <3>6. c \in ThreadType /\ c.pc = thr[t].pc /\ c.id = thr[t].id
      <4>1. thr[t] \in ThreadType
        BY DEF TypeInv
      <4> QED
        BY <4>1, <3>5 DEF ThreadType
    <3> QED
      BY <3>4, <3>5, <3>6, ThrTypeStep DEF TypeInv
  <2>2. CASE ~ (k <= Len(listed))
    BY <1>1, <2>2, ThrTypeKept DEF TellToStop
  <2> QED
    BY <2>1, <2>2
<1>2. CASE Stop
  <2>1. ThrType'
    BY <1>1, <1>2 DEF Stop
  <2>2. stopFlag' = TRUE /\ stopper' \in Int /\ UNCHANGED <<boardVars, mirrorVars, ln, listVars>>
    BY <1>2 DEF Stop
  <2>3. StopType'
    BY <2>2, Zenon DEF StopType
  <2> QED
    BY <2>1, <2>2, <2>3, BoardTypeKept, MirrorTypeKept, LnTypeKept, ListTypeKept
<1>3. CASE Joined
  <2>1. stopper \in Int /\ stopper >= 1 /\ TellToStop(stopper + 1)
    BY <1>3 DEF Joined, TypeInv
  <2>2. PICK k \in Int : k = stopper + 1 /\ k >= 1
    BY <2>1
  <2>3. ThrType'
    BY <1>1, <2>1, <2>2
  <2>4. stopper' = k /\ UNCHANGED <<stopFlag, boardVars, mirrorVars, ln, listVars>>
    BY <1>3, <2>2 DEF Joined
  <2>5. StopType'
    BY <2>4, Zenon DEF StopType
  <2> QED
    BY <2>3, <2>4, <2>5, BoardTypeKept, MirrorTypeKept, LnTypeKept, ListTypeKept
<1>4. CASE StopReturns
  <2>1. /\ listed' = <<>> /\ died' = {} /\ stopper' = -1
        /\ UNCHANGED <<stopFlag, boardVars, mirrorVars, ln, thr>>
    BY <1>4 DEF StopReturns
  <2>2. <<>> \in Seq(Threads) /\ stopper' \in Int
    BY <2>1, EmptySeq
  <2>3. ListType' /\ StopType'
    BY <2>1, <2>2, Zenon DEF ListType, StopType
  <2> QED
    BY <2>1, <2>3, BoardTypeKept, MirrorTypeKept, LnTypeKept, ThrTypeKept
<1> QED
  BY <1>2, <1>3, <1>4

LEMMA BoardStepsTyped ==
  ASSUME TypeInv, Post \/ \E k \in Arts : Delete(k)
  PROVE  TypeInv'
<1> USE TypeParts, TypePartsNext
<1>1. CASE Post
  <2>1. /\ posted' = posted + 1 /\ posted < MaxArt /\ mixedUp' = (mixedUp \/ Looking)
        /\ UNCHANGED <<deleted, mirrorVars, ln, thr, listVars, stopVars>>
    BY <1>1 DEF Post
  <2>2. posted' \in 1..MaxArt /\ deleted' \subseteq 1..posted'
    BY <2>1, Constants DEF TypeInv
  <2>3. mixedUp' \in BOOLEAN
    BY <2>1
  <2>4. BoardType'
    BY <2>2, <2>3 DEF BoardType
  <2> QED
    BY <2>1, <2>4, MirrorTypeKept, LnTypeKept, ThrTypeKept, ListTypeKept, StopTypeKept
<1>2. ASSUME NEW k \in Arts, Delete(k)
      PROVE  TypeInv'
  <2>1. /\ k \in 1..posted /\ deleted' = deleted \cup {k} /\ posted' = posted
        /\ mixedUp' = (mixedUp \/ Looking \/ ~Mirrored(Article(k)))
        /\ UNCHANGED <<mirrorVars, ln, thr, listVars, stopVars>>
    BY <1>2 DEF Delete
  <2>2. BoardType'
    BY <2>1 DEF BoardType, TypeInv
  <2> QED
    BY <2>1, <2>2, MirrorTypeKept, LnTypeKept, ThrTypeKept, ListTypeKept, StopTypeKept
<1> QED
  BY <1>1, <1>2

LEMMA TypeNext == TypeInv /\ [Next]_vars => TypeInv'
<1> SUFFICES ASSUME TypeInv, [Next]_vars PROVE TypeInv'
  OBVIOUS
<1>1. CASE UNCHANGED vars
  BY <1>1, TypeParts, TypePartsNext, BoardTypeKept, MirrorTypeKept, LnTypeKept, ThrTypeKept,
     ListTypeKept, StopTypeKept
<1>2. CASE Next
  BY <1>2, ListenerStepsTyped, ThreadStepsTyped, StopStepsTyped, BoardStepsTyped DEF Next
<1> QED
  BY <1>1, <1>2

-----------------------------------------------------------------------------
\* stop() and the list of threads.

LEMMA StopInit == Init => StopInv
<1> SUFFICES ASSUME Init PROVE StopInv
  OBVIOUS
<1>1. /\ stopFlag = FALSE /\ stopper = 0 /\ listed = <<>>
      /\ \A t \in Threads : thr[t].pc = "done"
  BY NoThreadTyped DEF Init
<1>2. \A k \in 1..Len(listed) : FALSE
  BY <1>1
<1> QED
  BY <1>1, <1>2 DEF StopInv

\* A step that leaves the list and stop() alone and wakes no thread.
LEMMA StopKept ==
  ASSUME TypeInv, StopInv, UNCHANGED <<listed, stopFlag, stopper>>,
         \A t \in Threads : thr[t].pc = "done" => thr'[t].pc = "done"
  PROVE  StopInv'
<1>1. \A k \in 1..Len(listed) : listed[k] \in Threads
  BY ElementOfSeq, LenProperties DEF TypeInv
<1>2. \A k \in 1..Len(listed) : k < stopper => thr'[listed[k]].pc = "done"
  BY <1>1 DEF StopInv
<1> QED
  BY <1>2 DEF StopInv

\* While stop() was not called, a step that leaves thread t alone in the list.
LEMMA ListKept ==
  ASSUME TypeInv, StopInv, ~stopFlag, UNCHANGED <<stopFlag, stopper>>,
         \A t \in Threads : thr'[t].pc # "done" => t \in ToSet(listed')
  PROVE  StopInv'
<1>1. stopper = 0 /\ ~ stopFlag' /\ stopper' = 0
  BY DEF StopInv, TypeInv
<1>2. \A k \in 1..Len(listed') : ~ (k < stopper')
  BY <1>1
<1> QED
  BY <1>1, <1>2 DEF StopInv

LEMMA AppendFacts ==
  ASSUME NEW S, NEW s \in Seq(S), NEW t \in S
  PROVE  /\ t \in ToSet(Append(s, t))
         /\ \A u \in ToSet(s) : u \in ToSet(Append(s, t))
<1>1. /\ Append(s, t) \in Seq(S) /\ Len(Append(s, t)) = Len(s) + 1 /\ Len(s) \in Nat
      /\ Append(s, t)[Len(s) + 1] = t
      /\ \A i \in 1..Len(s) : Append(s, t)[i] = s[i]
  BY AppendProperties, LenProperties
<1>2. DOMAIN Append(s, t) = 1..(Len(s) + 1) /\ DOMAIN s = 1..Len(s)
  BY <1>1, LenProperties
<1>3. \A i \in 1..Len(s) : i \in 1..(Len(s) + 1)
  BY <1>1
<1> QED
  BY <1>1, <1>2, <1>3 DEF ToSet

LEMMA StartListed ==
  ASSUME TypeInv, StopInv, UNCHANGED <<stopFlag, stopper>>,
         NEW id, NEW min, NEW page, NEW urls, NEW prev,
         StartThread(id, min, page, urls, prev)
  PROVE  StopInv'
<1>1. CASE ~ MayStart
  BY <1>1, StopKept DEF StartThread
<1>2. CASE MayStart
  <2>1. PICK t \in Threads : /\ \E c : thr' = [thr EXCEPT ![t] = c]
                             /\ listed' = Append(Without(listed, t), t)
    BY <1>2, Zenon DEF StartThread
  <2>2. ASSUME NEW s \in Threads, thr'[s].pc # "done"
        PROVE  s \in ToSet(listed')
    <3>1. listed \in Seq(Threads) /\ Without(listed, t) \in Seq(Threads)
      BY WithoutOthers DEF TypeInv
    <3>2. CASE s = t
      BY <3>1, <3>2, <2>1, AppendFacts
    <3>3. CASE s # t
      <4>1. thr'[s] = thr[s]
        BY <2>1, <3>3 DEF TypeInv
      <4>2. s \in ToSet(listed)
        BY <4>1, <2>2 DEF StopInv
      <4>3. s \in ToSet(Without(listed, t))
        BY <4>2, <3>1, <3>3, WithoutOthers
      <4> QED
        BY <4>3, <3>1, <2>1, AppendFacts
    <3> QED
      BY <3>2, <3>3
  <2> QED
    BY <1>2, <2>2, ListKept DEF MayStart
<1> QED
  BY <1>1, <1>2

LEMMA StopNext == TypeInv /\ StopInv /\ [Next]_vars => StopInv'
<1> SUFFICES ASSUME TypeInv, StopInv, [Next]_vars PROVE StopInv'
  OBVIOUS
<1>1. CASE UNCHANGED vars
  BY <1>1, StopKept
<1>3. ASSUME NEW t \in Threads, PageBefore(t) \/ PageFails(t) \/ NextUrl(t) \/ AddDoc(t)
      PROVE  StopInv'
  <2>1. /\ thr[t].pc # "done" /\ UNCHANGED <<listed, stopFlag, stopper>>
        /\ \A s \in Threads \ {t} : thr'[s] = thr[s]
    BY <1>3 DEF PageBefore, PageFails, NextUrl, AddDoc, TypeInv
  <2> QED
    BY <2>1, StopKept
<1>4. ASSUME NEW t \in Threads, DiedCallback(t)
      PROVE  StopInv'
  <2>1. /\ thr[t].pc # "done" /\ UNCHANGED <<stopFlag, stopper>>
        /\ thr'[t].pc = "done" /\ \A s \in Threads \ {t} : thr'[s] = thr[s]
    BY <1>4, NoThreadTyped DEF DiedCallback, TypeInv
  <2>2. CASE stopFlag
    BY <2>1, <2>2, <1>4, StopKept DEF DiedCallback
  <2>3. CASE ~ stopFlag
    <3>1. listed' = Without(listed, t) /\ listed \in Seq(Threads)
      BY <2>3, <1>4 DEF DiedCallback, TypeInv
    <3>2. \A s \in Threads : thr'[s].pc # "done" => s # t /\ s \in ToSet(listed)
      BY <2>1 DEF StopInv
    <3>3. \A s \in Threads : thr'[s].pc # "done" => s \in ToSet(listed')
      BY <3>1, <3>2, WithoutOthers
    <3> QED
      BY <2>1, <2>3, <3>3, ListKept
  <2> QED
    BY <2>2, <2>3
<1>5. CASE RoundFails \/ Sleep \/ Post \/ \E k \in Arts : Delete(k)
  BY <1>5, StopKept DEF RoundFails, Sleep, Post, Delete
<1>6. CASE ReadNewest \/ ReadTop \/ ReadOldest \/ GetMaxPageIdx \/ Estimate \/ NothingToFill
  BY <1>6, StopKept
  DEF ReadNewest, ReadTop, ReadOldest, GetMaxPageIdx, Estimate, NothingToFill, ListenerGoesTo
<1>7. CASE FetchNewDocs
  <2>1. PICK id, min, page, urls : StartThread(id, min, page, urls, Bad)
    BY <1>7, Zenon DEF FetchNewDocs
  <2> QED
    BY <2>1, <1>7, StartListed DEF FetchNewDocs
<1>8. CASE FillOldDocs
  <2>1. PICK id, page, urls, prev : StartThread(id, -1, page, urls, prev)
    BY <1>8, Zenon DEF FillOldDocs
  <2> QED
    BY <2>1, <1>8, StartListed DEF FillOldDocs
<1>9. ASSUME NEW k \in Int, TellToStop(k), k >= 1
      PROVE  \A t \in Threads : thr'[t].pc = thr[t].pc
  <2>1. CASE k <= Len(listed)
    <3>1. listed[k] \in Threads
      BY <1>9, <2>1, ElementOfSeq, LenProperties DEF TypeInv
    <3>2. PICK t \in Threads : t = listed[k]
      BY <3>1
    <3>3. thr' = [thr EXCEPT ![t].stop = TRUE]
      BY <1>9, <2>1, <3>2 DEF TellToStop
    <3> QED
      BY <3>3 DEF TypeInv, ThreadType
  <2>2. CASE ~ (k <= Len(listed))
    BY <1>9, <2>2 DEF TellToStop
  <2> QED
    BY <2>1, <2>2
<1>10. CASE Stop
  <2>1. stopFlag' = TRUE /\ stopper' = 1 /\ listed' = listed /\ stopper = 0
    BY <1>10 DEF Stop
  <2>2. \A t \in Threads : thr'[t].pc = thr[t].pc
    BY <1>9, <1>10 DEF Stop
  <2>3. \A k \in 1..Len(listed') : ~ (k < stopper')
    BY <2>1
  <2> QED
    BY <2>1, <2>2, <2>3 DEF StopInv
<1>11. CASE Joined
  <2>1. /\ stopper \in 1..Len(listed) /\ thr[listed[stopper]].pc = "done"
        /\ stopper' = stopper + 1 /\ TellToStop(stopper + 1)
        /\ UNCHANGED <<listed, stopFlag>>
    BY <1>11 DEF Joined
  <2>2. PICK k \in Int : k = stopper + 1 /\ k >= 1
    BY <2>1 DEF TypeInv
  <2>3. \A t \in Threads : thr'[t].pc = thr[t].pc
    BY <1>9, <2>1, <2>2
  <2>4. \A j \in 1..Len(listed) : j < k => thr[listed[j]].pc = "done"
    <3> SUFFICES ASSUME NEW j \in 1..Len(listed), j < k PROVE thr[listed[j]].pc = "done"
      OBVIOUS
    <3>1. j < stopper \/ j = stopper
      BY <2>2 DEF TypeInv
    <3> QED
      BY <3>1, <2>1 DEF StopInv
  <2>5. \A j \in 1..Len(listed) : listed[j] \in Threads
    BY ElementOfSeq, LenProperties DEF TypeInv
  <2>6. stopper # 0 /\ stopper' # 0 /\ stopper' # -1 /\ stopper' >= -1
    BY <2>1, <2>2 DEF TypeInv
  <2>7. \A j \in 1..Len(listed') : j < stopper' => thr'[listed'[j]].pc = "done"
    BY <2>1, <2>2, <2>3, <2>4, <2>5
  <2> QED
    BY <2>1, <2>3, <2>6, <2>7 DEF StopInv
<1>12. CASE StopReturns
  <2>1. /\ stopper = Len(listed) + 1 /\ stopper' = -1 /\ listed' = <<>>
        /\ UNCHANGED <<thr, stopFlag>>
    BY <1>12 DEF StopReturns
  <2>2. Len(listed) \in Nat /\ DOMAIN listed = 1..Len(listed)
    BY LenProperties DEF TypeInv
  <2>3. \A t \in Threads : thr'[t].pc = "done"
    <3> SUFFICES ASSUME NEW t \in Threads, thr[t].pc # "done" PROVE FALSE
      BY <2>1
    <3>1. PICK k \in 1..Len(listed) : listed[k] = t
      BY <2>2 DEF StopInv, ToSet
    <3>2. k < stopper
      BY <2>1, <2>2
    <3> QED
      BY <3>1, <3>2 DEF StopInv
  <2>4. stopFlag' /\ stopper' # 0 /\ stopper' >= -1
    BY <2>1, <2>2 DEF StopInv
  <2>5. \A k \in 1..Len(listed') : ~ (k < stopper')
    BY <2>1
  <2> QED
    BY <2>1, <2>3, <2>4, <2>5 DEF StopInv
<1> QED
  BY <1>1, <1>3, <1>4, <1>5, <1>6, <1>7, <1>8, <1>10, <1>11, <1>12
  DEF Next, ListenerStep, ThreadStep

-----------------------------------------------------------------------------
\* What the board, the mirror, the threads and the round know of each other.

LEMMA FileKept ==
  ASSUME TypeInv, FileInv, UNCHANGED <<deleted, mirror, maxId>>, posted' \in Int, posted <= posted'
  PROVE  FileInv'
BY IdFacts DEF FileInv, IsFile, TypeInv

LEMMA ThreadKept ==
  ASSUME TypeInv, FilesStay, posted' \in Int, posted <= posted',
         NEW c \in ThreadType, c.pc \in {"next", "adding"}, c.id # -1, ThreadKnows(c)
  PROVE  ThreadKnows(c)'
<1>1. c.id \in Int /\ c.id \in Ids /\ posted \in Int
  BY IdFacts DEF ThreadType, TypeInv
<1>2. Left(c) \in Int /\ Left(c) <= c.id + 1
  BY <1>1 DEF Left
<1>3. ASSUME NEW k \in 1..Left(c) PROVE Covered(c, k)'
  <2>1. k - 1 \in Ids
    <3>1. c.id \in Int /\ k - 1 \in Int /\ 0 <= k - 1 /\ k - 1 <= c.id /\ c.id <= MaxId
      BY <1>1, <1>2, IdFacts
    <3> QED
      BY <3>1, Constants DEF Ids
  <2>2. Covered(c, k)
    BY DEF ThreadKnows
  <2> QED
    BY <2>1, <2>2 DEF Covered, FilesStay
<1>4. c.id + 1 <= posted'
  BY <1>1 DEF ThreadKnows
<1>5. c.min = -1 \/ \E m \in Ids : m < Left(c) /\ IsFile(m)' /\ c.min = Article(m + 1)
  BY DEF ThreadKnows, FilesStay
<1> QED
  BY <1>3, <1>4, <1>5 DEF ThreadKnows

LEMMA KnowsSame ==
  ASSUME NEW t \in Threads, NEW d, d = thr'[t], ThreadKnows(d)'
  PROVE  ThreadKnows(thr[t])'
BY DEF ThreadKnows, Covered, Left, IsFile

\* The threads that a step leaves alone know what they knew.
LEMMA ThreadsKept ==
  ASSUME TypeInv, ThreadsInv, FilesStay, posted' \in Int, posted <= posted', UNCHANGED thr
  PROVE  ThreadsInv'
<1> SUFFICES ASSUME NEW t \in Threads, thr'[t].pc \in {"next", "adding"}
             PROVE  ThreadKnows(thr[t])'
  BY DEF ThreadsInv
<1>1. PICK d \in ThreadType : d = thr[t]
  BY DEF TypeInv
<1>2. d = thr'[t] /\ d.id # -1 /\ ThreadKnows(d)
  BY <1>1 DEF TypeInv, ThreadsInv
<1>3. ThreadKnows(d)'
  BY <1>1, <1>2, ThreadKept
<1> QED
  BY <1>2, <1>3, KnowsSame

LEMMA ThreadsStep ==
  ASSUME TypeInv, ThreadsInv, FilesStay, posted' \in Int, posted <= posted',
         NEW t \in Threads, NEW c \in ThreadType, thr' = [thr EXCEPT ![t] = c],
         c.pc \in {"next", "adding"} => ThreadKnows(c)'
  PROVE  ThreadsInv'
<1> SUFFICES ASSUME NEW s \in Threads, thr'[s].pc \in {"next", "adding"}
             PROVE  ThreadKnows(thr[s])'
  BY DEF ThreadsInv
<1>1. CASE s = t
  <2>1. c = thr'[s]
    BY <1>1 DEF TypeInv
  <2> QED
    BY <2>1, KnowsSame
<1>2. CASE s # t
  <2>1. PICK d \in ThreadType : d = thr[s]
    BY DEF TypeInv
  <2>2. d = thr'[s]
    BY <1>2, <2>1 DEF TypeInv
  <2>3. d.id # -1 /\ ThreadKnows(d)
    BY <2>1, <2>2 DEF TypeInv, ThreadsInv
  <2>4. ThreadKnows(d)'
    BY <2>2, <2>3, ThreadKept
  <2> QED
    BY <2>2, <2>4, KnowsSame
<1> QED
  BY <1>1, <1>2

LEMMA RoundKept ==
  ASSUME TypeInv, RoundKnows(ln), UNCHANGED ln, FilesStay, UNCHANGED <<posted, deleted>>
  PROVE  RoundKnows(ln)'
<1>1. PICK l \in RoundType : l = ln
  BY DEF TypeInv
<1>2. l.id \in Ids \cup {-1} /\ l.id \in Int /\ l.old \in Ids \cup {-1}
  BY <1>1, IdFacts DEF RoundType
<1>3. NewestKnown(l) => NewestKnown(l)'
  BY <1>2 DEF NewestKnown, FilesStay
<1>4. OldestKnown(l) => OldestKnown(l)'
  <2>1. \A i \in 0..l.id : i \in Ids
    <3>1. CASE l.id = -1
      BY <3>1
    <3>2. CASE l.id \in Ids
      BY <3>2, Constants DEF Ids
    <3> QED
      BY <3>1, <3>2, <1>2
  <2> QED
    BY <2>1, <1>2 DEF OldestKnown, FilesStay
<1>5. NumPages' = NumPages
  BY DEF NumPages
<1>6. RoundKnows(l) => RoundKnows(l)'
  BY <1>3, <1>4, <1>5 DEF RoundKnows
<1>7. RoundKnows(l)' => RoundKnows(ln)'
  BY <1>1 DEF RoundKnows, NewestKnown, OldestKnown, IsFile
<1> QED
  BY <1>1, <1>6, <1>7

LEMMA OrderInit == Init => OrderInv
<1> SUFFICES ASSUME Init PROVE OrderInv
  OBVIOUS
<1>1. PICK lo \in 0..InitialPosted :
        /\ mirror = [i \in Ids |-> IF i \in lo..(InitialPosted - 1) THEN Article(i + 1) ELSE Missing]
        /\ maxId = IF lo = InitialPosted THEN -1 ELSE InitialPosted - 1
  BY Zenon DEF Init
<1>2. posted = InitialPosted /\ deleted = {} /\ ln = NewRound
  BY DEF Init
<1>3. FileInv
  BY <1>1, <1>2, IdFacts, Constants DEF FileInv, IsFile, Article
<1>4. ThreadsInv
  BY NoThreadTyped DEF Init, ThreadsInv
<1>5. RoundKnows(ln)
  BY <1>2 DEF NewRound, RoundKnows
<1> QED
  BY <1>3, <1>4, <1>5 DEF OrderInv

LEMMA BoardOrder ==
  ASSUME TypeInv, OrderInv, ~mixedUp', Post \/ \E k \in Arts : Delete(k)
  PROVE  OrderInv'
<1>0. posted \in Int /\ FilesStay
  BY MirrorKept DEF TypeInv, Post, Delete
<1>1. CASE Post
  <2>1. /\ posted' = posted + 1 /\ ~ Looking
        /\ UNCHANGED <<deleted, mirrorVars, ln, thr>>
    BY <1>1 DEF Post
  <2>2. posted' \in Int /\ posted <= posted'
    BY <1>0, <2>1
  <2>3. RoundKnows(ln)'
    BY <2>1 DEF OrderInv, RoundKnows, Looking, NewestKnown, OldestKnown, IsFile
  <2> QED
    BY <1>0, <2>1, <2>2, <2>3, FileKept, ThreadsKept DEF OrderInv
<1>2. ASSUME NEW k \in Arts, Delete(k)
      PROVE  OrderInv'
  <2>1. /\ k \in 1..posted /\ deleted' = deleted \cup {k} /\ ~ Looking /\ Mirrored(Article(k))
        /\ UNCHANGED <<posted, mirrorVars, ln, thr>>
    BY <1>2 DEF Delete
  <2>2. PICK i \in Ids : mirror[i] = Article(k)
    BY <2>1 DEF Mirrored
  <2>3. k \in Int /\ k >= 1 /\ i \in Int
    BY <2>1, <1>0, IdFacts
  <2>4. mirror[i] # Missing
    BY <2>2, <2>3 DEF Article, Missing
  <2>5. k = i + 1
    BY <2>2, <2>3, <2>4 DEF OrderInv, FileInv, IsFile, Article
  <2>6. k - 1 = i
    BY <2>3, <2>5
  <2>7. FileInv'
    BY <2>1, <2>2, <2>4, <2>6 DEF OrderInv, FileInv, IsFile
  <2>8. RoundKnows(ln)'
    BY <2>1 DEF OrderInv, RoundKnows, Looking, NewestKnown, OldestKnown, IsFile
  <2> QED
    BY <1>0, <2>1, <2>7, <2>8, ThreadsKept DEF OrderInv
<1> QED
  BY <1>1, <1>2

\* What the listener learns in a step of a round.
LEMMA LooksOrder ==
  ASSUME TypeInv, OrderInv, NEW l \in RoundType, ln' = l,
         UNCHANGED <<posted, deleted, mirrorVars, thr>>, RoundKnows(l)
  PROVE  OrderInv'
<1>1. FileInv'
  BY FileKept DEF OrderInv, TypeInv
<1>2. ThreadsInv'
  BY ThreadsKept, MirrorKept DEF OrderInv, TypeInv
<1>3. RoundKnows(ln)'
  BY DEF RoundKnows, NewestKnown, OldestKnown, IsFile, NumPages
<1> QED
  BY <1>1, <1>2, <1>3 DEF OrderInv

LEMMA SleepsOrder ==
  ASSUME TypeInv, OrderInv, NEW s \in {"end", "sleep"}, ln' = [ln EXCEPT !.pc = s],
         UNCHANGED <<posted, deleted, mirrorVars, thr>>
  PROVE  OrderInv'
<1>1. PICK l : l = [ln EXCEPT !.pc = s]
  OBVIOUS
<1>2. l \in RoundType /\ l.pc = s
  BY <1>1 DEF TypeInv, RoundType
<1>3. RoundKnows(l)
  BY <1>2 DEF RoundKnows
<1> QED
  BY <1>1, <1>2, <1>3, LooksOrder

LEMMA ReadNewestOrder ==
  ASSUME TypeInv, OrderInv, ReadNewest
  PROVE  OrderInv'
<1>1. CASE stopFlag
  BY <1>1, SleepsOrder DEF ReadNewest, ListenerGoesTo
<1>2. CASE ~ stopFlag
  <2>1. PICK l : l = [NewRound EXCEPT !.pc = "newest", !.id = maxId,
                                      !.num = IF maxId >= 0 THEN mirror[maxId] ELSE -1]
    OBVIOUS
  <2>2. /\ l.pc = "newest" /\ l.id = maxId /\ l.old = -1
        /\ l.num = IF maxId >= 0 THEN mirror[maxId] ELSE -1
    BY <2>1 DEF NewRound
  <2>3. ln' = l /\ UNCHANGED <<posted, deleted, mirrorVars, thr>>
    BY <2>1, <1>2 DEF ReadNewest, ListenerGoesTo
  <2>4. l \in RoundType
    BY <2>3, ListenerStepsTyped DEF ListenerStep, TypeInv
  <2>5. NewestKnown(l)
    BY <2>2, IdFacts DEF NewestKnown, TypeInv, OrderInv, FileInv
  <2>6. \A k \in deleted : k <= l.id + 1
    <3> SUFFICES ASSUME NEW k \in deleted PROVE k <= maxId + 1
      BY <2>2
    <3>1. k - 1 \in Ids /\ k - 1 <= maxId
      BY DEF OrderInv, FileInv
    <3>2. k \in Int /\ maxId \in Int
      BY IdFacts DEF TypeInv
    <3> QED
      BY <3>1, <3>2
  <2>7. RoundKnows(l)
    BY <2>2, <2>5, <2>6 DEF RoundKnows
  <2> QED
    BY <2>3, <2>4, <2>7, LooksOrder
<1> QED
  BY <1>1, <1>2

LEMMA ReadTopOrder ==
  ASSUME TypeInv, OrderInv, ReadTop
  PROVE  OrderInv'
<1>1. PICK l : l = [ln EXCEPT !.pc = "oldest", !.top = maxId]
  OBVIOUS
<1>2. /\ l \in RoundType /\ l.pc = "oldest" /\ l.top = maxId
      /\ l.id = ln.id /\ l.num = ln.num /\ l.old = ln.old
  BY <1>1 DEF TypeInv, RoundType
<1>3. NewestKnown(l) /\ (\A k \in deleted : k <= l.id + 1) /\ l.old = -1
  BY <1>2 DEF ReadTop, OrderInv, RoundKnows, NewestKnown
<1>4. l.id <= l.top
  <2>1. l.id \in Ids \cup {-1} /\ maxId \in Ids \cup {-1}
    BY <1>2 DEF RoundType, TypeInv
  <2>2. CASE l.id = -1
    BY <2>1, <2>2, <1>2, IdFacts
  <2>3. CASE l.id # -1
    BY <2>1, <2>3, <1>2, <1>3 DEF NewestKnown, OrderInv, FileInv
  <2> QED
    BY <2>2, <2>3
<1>5. RoundKnows(l)
  BY <1>2, <1>3, <1>4 DEF RoundKnows
<1>6. ln' = l /\ UNCHANGED <<posted, deleted, mirrorVars, thr>>
  BY <1>1 DEF ReadTop, ListenerGoesTo
<1> QED
  BY <1>2, <1>5, <1>6, LooksOrder

LEMMA ReadOldestOrder ==
  ASSUME TypeInv, OrderInv, ReadOldest
  PROVE  OrderInv'
<1> DEFINE gaps == {i \in 0..ln.top : ~IsFile(i)}
<1>1. /\ ln.top \in Int /\ ln.id \in Int /\ ln.id <= ln.top /\ ln.pc = "oldest" /\ ln.old = -1
      /\ NewestKnown(ln) /\ \A k \in deleted : k <= ln.id + 1
  BY IdFacts DEF ReadOldest, OrderInv, RoundKnows, TypeInv, RoundType
<1>2. PICK l : ln' = l
  OBVIOUS
<1>3. /\ l = IF gaps = {} THEN [ln EXCEPT !.pc = "pages"]
             ELSE [ln EXCEPT !.pc = "pages", !.old = Max(gaps) + 1, !.oldUrl = mirror[Max(gaps) + 1]]
      /\ UNCHANGED <<posted, deleted, mirrorVars, thr>>
  BY <1>2 DEF ReadOldest, ListenerGoesTo
<1>4. l \in RoundType
  BY <1>2, ListenerStepsTyped DEF ListenerStep, TypeInv
<1>5. l.pc = "pages" /\ l.id = ln.id /\ l.num = ln.num
  <2> HIDE DEF gaps
  <2> QED
    BY <1>3 DEF TypeInv, RoundType
<1>6. OldestKnown(l)
  <2>1. CASE gaps = {}
    <3>1. l.old = -1
      BY <1>1, <1>3, <2>1 DEF TypeInv, RoundType
    <3>2. \A i \in 0..l.id : IsFile(i)
      BY <1>1, <1>5, <2>1
    <3> QED
      BY <3>1, <3>2 DEF OldestKnown
  <2>2. CASE gaps # {}
    <3>1. Max(gaps) \in gaps /\ \A i \in gaps : i <= Max(gaps)
      <4>1. gaps \subseteq 0..ln.top /\ ln.top \in Nat
        BY <2>2, <1>1
      <4> HIDE DEF gaps
      <4> QED
        BY <4>1, <2>2, BoundedSetHasMax
    <3>2. PICK m : m = Max(gaps)
      OBVIOUS
    <3>3. m \in Int /\ 0 <= m /\ m <= ln.top /\ m # ln.top /\ ln.top <= MaxId
      BY <3>1, <3>2, <1>1, IdFacts DEF TypeInv, RoundType
    <3>4. m + 1 \in 0..ln.top /\ m + 1 \notin gaps /\ m + 1 \in Ids
      <4>1. m + 1 \in 0..ln.top /\ m + 1 \notin gaps
        BY <3>1, <3>2, <3>3, <1>1
      <4> QED
        BY <4>1, <3>3, <1>1, Constants DEF Ids
    <3>5. IsFile(m + 1) /\ mirror[m + 1] = Article((m + 1) + 1)
      BY <3>4 DEF OrderInv, FileInv
    <3>6. l.old = m + 1 /\ l.oldUrl = mirror[m + 1] /\ l.old # -1
      <4> HIDE DEF gaps
      <4>1. l = [ln EXCEPT !.pc = "pages", !.old = m + 1, !.oldUrl = mirror[m + 1]]
        BY <2>2, <1>3, <3>2
      <4> QED
        BY <4>1, <3>3 DEF TypeInv, RoundType
    <3> QED
      BY <3>5, <3>6 DEF OldestKnown
  <2> QED
    BY <2>1, <2>2
<1>7. NewestKnown(l)
  BY <1>1, <1>5 DEF NewestKnown
<1>8. RoundKnows(l)
  BY <1>1, <1>5, <1>6, <1>7 DEF RoundKnows
<1> QED
  BY <1>2, <1>3, <1>4, <1>8, LooksOrder

LEMMA GetMaxPageIdxOrder ==
  ASSUME TypeInv, OrderInv, GetMaxPageIdx
  PROVE  OrderInv'
<1>1. PICK l : l = [ln EXCEPT !.pc = "estimate", !.maxPage = NumPages]
  OBVIOUS
<1>2. ln' = l /\ UNCHANGED <<posted, deleted, mirrorVars, thr>> /\ ln.pc = "pages"
  BY <1>1 DEF GetMaxPageIdx, ListenerGoesTo
<1>3. l \in RoundType
  BY <1>2, ListenerStepsTyped DEF ListenerStep, TypeInv
<1>4. /\ l.pc = "estimate" /\ l.maxPage = NumPages /\ l.id = ln.id /\ l.num = ln.num
      /\ l.old = ln.old /\ l.oldUrl = ln.oldUrl
  BY <1>1 DEF TypeInv, RoundType
<1>5. RoundKnows(l)
  BY <1>2, <1>4 DEF OrderInv, RoundKnows, NewestKnown, OldestKnown
<1> QED
  BY <1>2, <1>3, <1>5, LooksOrder

\* The pages that a round has counted reach up to the document above the gap.
LEMMA OldestIsOnBoard ==
  ASSUME TypeInv, OrderInv, ln.old # -1, OldestKnown(ln), ln.maxPage = NumPages
  PROVE  ln.old + 1 <= ln.maxPage * PageSize
<1>1. ln.old \in Ids /\ ln.old + 1 <= posted
  BY DEF TypeInv, RoundType, OldestKnown, OrderInv, FileInv
<1>2. posted \in Nat /\ posted <= NumPages * PageSize /\ NumPages \in Nat
  BY NumPagesFacts DEF TypeInv
<1>3. NumPages * PageSize \in Int /\ ln.old \in Int
  BY <1>1, <1>2, IdFacts, Constants
<1>4. ln.old + 1 <= NumPages * PageSize
  BY <1>1, <1>2, <1>3
<1> QED
  BY <1>4

LEMMA EstimateOrder ==
  ASSUME TypeInv, OrderInv, Estimate, ~mixedUp'
  PROVE  OrderInv'
<1>1. CASE ln.num = Bad /\ ListenerGoesTo([ln EXCEPT !.pc = "sleep"])
  BY <1>1, SleepsOrder DEF ListenerGoesTo
<1>2. CASE ~ (ln.num = Bad /\ ListenerGoesTo([ln EXCEPT !.pc = "sleep"]))
  <2>1. PICK p \in PageOf(ln.num, ln.maxPage) :
          /\ ln' = [ln EXCEPT !.pc = IF NumUrls(ln.num, p, ln.maxPage) > 0 THEN "fetch" ELSE "fill",
                              !.n = NumUrls(ln.num, p, ln.maxPage)]
          /\ mixedUp' = (mixedUp \/ ln.maxPage - p > TightPages)
    BY <1>2 DEF Estimate
  <2>2. UNCHANGED <<posted, deleted, mirrorVars, thr>> /\ ln.pc = "estimate"
    BY <1>2 DEF Estimate
  <2>3. /\ NewestKnown(ln) /\ OldestKnown(ln) /\ ln.maxPage = NumPages
        /\ \A k \in deleted : k <= ln.id + 1
    BY <2>2 DEF OrderInv, RoundKnows
  <2>4. PICK m \in 0..posted : /\ m = ln.id + 1
                               /\ ln.num = IF m = 0 THEN -1 ELSE Article(m)
    <3>1. posted \in Int /\ posted >= 1
      BY DEF TypeInv
    <3>2. CASE ln.id = -1
      BY <3>1, <3>2, <2>3 DEF NewestKnown
    <3>3. CASE ln.id # -1
      <4>1. ln.id \in Ids /\ ln.id + 1 <= posted /\ ln.num = Article(ln.id + 1)
        BY <3>3, <2>3 DEF NewestKnown, OrderInv, FileInv, TypeInv, RoundType
      <4>2. ln.id \in Int /\ ln.id >= 0
        BY <4>1, IdFacts
      <4> QED
        BY <4>1, <4>2, <3>1
    <3> QED
      BY <3>2, <3>3
  <2>5. NumUrls(ln.num, p, ln.maxPage) = posted - m
    <3>1. PICK number \in Int : number = ln.num
      BY UrlFacts DEF TypeInv, RoundType
    <3>2. p \in PageOf(number, NumPages) /\ posted \in Nat
      BY <3>1, <2>3 DEF TypeInv
    <3>3. NumPages - p <= TightPages
      <4>1. ~ (NumPages - p > TightPages)
        BY <2>1, <2>3
      <4>2. NumPages \in Int /\ p \in Int
        BY <3>2, NumPagesFacts DEF PageOf
      <4> QED
        BY <4>1, <4>2, Constants
    <3>4. NumUrls(number, p, NumPages) = posted - m
      BY <3>1, <3>2, <3>3, <2>3, <2>4, EstimateIsExact
    <3> QED
      BY <3>1, <3>4, <2>3
  <2>6. PICK n : n = posted - m
    OBVIOUS
  <2>7. PICK l : l = [ln EXCEPT !.pc = IF n > 0 THEN "fetch" ELSE "fill", !.n = n]
    OBVIOUS
  <2>8. ln' = l
    BY <2>1, <2>5, <2>6, <2>7
  <2>9. l \in RoundType
    BY <2>8, ListenerStepsTyped DEF ListenerStep, TypeInv
  <2>10. /\ l.pc \in {"fetch", "fill"} /\ l.n = posted - (l.id + 1) /\ l.id = ln.id /\ l.num = ln.num
         /\ l.old = ln.old /\ l.oldUrl = ln.oldUrl /\ l.maxPage = ln.maxPage
    BY <2>6, <2>7, <2>4 DEF TypeInv, RoundType
  <2>11. l.old # -1 => l.old + 1 <= l.maxPage * PageSize
    BY <2>3, <2>10, OldestIsOnBoard
  <2>12. NewestKnown(l) /\ OldestKnown(l)
    BY <2>3, <2>10 DEF NewestKnown, OldestKnown
  <2>13. RoundKnows(l)
    BY <2>3, <2>10, <2>11, <2>12 DEF RoundKnows
  <2> QED
    BY <2>2, <2>8, <2>9, <2>13, LooksOrder
<1> QED
  BY <1>1, <1>2

LEMMA RestOfRoundOrder ==
  ASSUME TypeInv, OrderInv, NothingToFill \/ RoundFails \/ Sleep
  PROVE  OrderInv'
<1>1. CASE NothingToFill
  <2>1. CASE ln.old # -1
    BY <1>1, <2>1, SleepsOrder DEF NothingToFill, ListenerGoesTo
  <2>2. CASE ln.old = -1
    <3>1. PICK l : l = [ln EXCEPT !.pc = "complete"]
      OBVIOUS
    <3>2. /\ l \in RoundType /\ l.pc = "complete" /\ l.id = ln.id /\ l.num = ln.num
          /\ l.old = ln.old /\ l.oldUrl = ln.oldUrl
      BY <3>1 DEF TypeInv, RoundType
    <3>3. ln' = l /\ UNCHANGED <<posted, deleted, mirrorVars, thr>> /\ ln.pc = "fill"
      BY <1>1, <2>2, <3>1 DEF NothingToFill, ListenerGoesTo
    <3>4. RoundKnows(l)
      BY <2>2, <3>2, <3>3 DEF OrderInv, RoundKnows, NewestKnown, OldestKnown
    <3> QED
      BY <3>2, <3>3, <3>4, LooksOrder
  <2> QED
    BY <2>1, <2>2
<1>2. CASE RoundFails
  BY <1>2, SleepsOrder DEF RoundFails
<1>3. CASE Sleep
  <2>1. CASE stopFlag
    BY <1>3, <2>1, SleepsOrder DEF Sleep
  <2>2. CASE ~ stopFlag
    <3>1. NewRound \in RoundType /\ NewRound.pc = "top"
      BY UrlFacts, IdFacts DEF NewRound, RoundType
    <3>2. RoundKnows(NewRound)
      BY <3>1 DEF RoundKnows
    <3> QED
      BY <1>3, <2>2, <3>1, <3>2, LooksOrder DEF Sleep
  <2> QED
    BY <2>1, <2>2
<1> QED
  BY <1>1, <1>2, <1>3

-----------------------------------------------------------------------------
\* A thread that starts knows its part of the board.

LEMMA StartOrder ==
  ASSUME TypeInv, OrderInv, UNCHANGED <<posted, deleted, mirrorVars>>,
         ln' = [ln EXCEPT !.pc = "fill"] \/ ln' = [ln EXCEPT !.pc = "sleep"],
         ln'.pc = "fill" => ln.pc = "fetch",
         NEW id \in Ids, NEW min \in UrlNums \cup {-1}, NEW page \in Nat,
         NEW urls \in SUBSET UrlNums, NEW prev \in UrlNums, StartThread(id, min, page, urls, prev),
         NEW c, c = [NoThread EXCEPT !.pc = "next", !.id = id, !.min = min,
                                     !.page = page, !.urls = urls, !.prev = prev],
         ThreadKnows(c)
  PROVE  OrderInv'
<1>0. FilesStay /\ posted \in Int
  BY MirrorKept DEF TypeInv
<1>1. FileInv'
  BY <1>0, FileKept DEF OrderInv
<1>2. ThreadsInv'
  <2>1. CASE ~ MayStart
    BY <2>1, <1>0, ThreadsKept DEF StartThread, OrderInv
  <2>2. CASE MayStart
    <3>1. PICK t \in Threads : thr' = [thr EXCEPT ![t] = c]
      BY <2>2, Zenon DEF StartThread
    <3>2. c \in ThreadType /\ c.id # -1 /\ c.pc = "next"
      BY UrlFacts, IdFacts DEF NoThread, ThreadType
    <3>3. posted' \in Int /\ posted <= posted'
      BY <1>0
    <3>4. ThreadKnows(c)'
      BY <3>2, <3>3, <1>0, ThreadKept
    <3>5. ThreadsInv
      BY DEF OrderInv
    <3> QED
      BY <3>1, <3>2, <3>3, <3>4, <3>5, <1>0, ThreadsStep
  <2> QED
    BY <2>1, <2>2
<1>3. RoundKnows(ln)'
  <2>1. CASE ln' = [ln EXCEPT !.pc = "sleep"]
    BY <2>1 DEF RoundKnows, TypeInv, RoundType
  <2>2. CASE ln' = [ln EXCEPT !.pc = "fill"]
    <3>1. /\ ln'.pc = "fill" /\ ln.pc = "fetch" /\ ln'.id = ln.id /\ ln'.num = ln.num
          /\ ln'.old = ln.old /\ ln'.oldUrl = ln.oldUrl /\ ln'.maxPage = ln.maxPage
      BY <2>2 DEF TypeInv, RoundType
    <3>2. NewestKnown(ln) /\ OldestKnown(ln) /\ ln.maxPage = NumPages
      BY <3>1 DEF OrderInv, RoundKnows
    <3>3. ln.old # -1 => ln.old + 1 <= ln.maxPage * PageSize
      BY <3>2, OldestIsOnBoard
    <3>4. NewestKnown(ln)' /\ OldestKnown(ln)'
      BY <3>1, <3>2 DEF NewestKnown, OldestKnown, IsFile
    <3> QED
      BY <3>1, <3>3, <3>4 DEF RoundKnows
  <2> QED
    BY <2>1, <2>2
<1> QED
  BY <1>1, <1>2, <1>3 DEF OrderInv

\* The thread for the new documents starts at the last page with all its urls.
LEMMA FetchNewDocsOrder ==
  ASSUME TypeInv, OrderInv, FetchNewDocs
  PROVE  OrderInv'
<1>1. /\ ln.pc = "fetch" /\ ln.n > 0 /\ ln.n = posted - (ln.id + 1) /\ ln.maxPage = NumPages
      /\ NewestKnown(ln) /\ \A k \in deleted : k <= ln.id + 1
  BY DEF FetchNewDocs, TypeInv, OrderInv, RoundKnows
<1>2. posted \in Nat /\ posted <= MaxArt /\ ln.id \in Int /\ ln.id + 1 < posted /\ ln.id >= -1
  <2>1. ln.id \in Int /\ ln.id >= -1 /\ posted \in Nat /\ posted <= MaxArt
    BY IdFacts, Constants DEF TypeInv, RoundType
  <2> QED
    BY <2>1, <1>1
<1>3. PICK id, min, page, urls : /\ id = ln.id + ln.n /\ min = ln.num /\ page = ln.maxPage
                                 /\ urls = PageUrls(ln.maxPage)
  OBVIOUS
<1>4. id = posted - 1 /\ id \in Ids
  <2>1. id = posted - 1 /\ id <= MaxId
    BY <1>1, <1>2, <1>3 DEF FetchNewDocs
  <2> QED
    BY <2>1, <1>2, Constants DEF Ids
<1>5. /\ page \in Nat /\ min \in UrlNums \cup {-1} /\ urls \in SUBSET UrlNums /\ Bad \in UrlNums
      /\ page = NumPages /\ urls = PageUrls(page)
  BY <1>1, <1>3, PageUrlsTyped, UrlFacts DEF TypeInv, RoundType
<1>6. PICK c : c = [NoThread EXCEPT !.pc = "next", !.id = id, !.min = min,
                                    !.page = page, !.urls = urls, !.prev = Bad]
  OBVIOUS
<1>7. /\ c.pc = "next" /\ c.id = posted - 1 /\ c.min = min /\ c.page = page
      /\ c.urls = urls /\ c.prev = Bad /\ Left(c) = posted
  BY <1>2, <1>4, <1>6 DEF NoThread, Left
<1> DEFINE before == (page - 1) * PageSize
<1>8. before \in Int /\ before < posted /\ posted <= page * PageSize
  BY <1>2, <1>5, NumPagesFacts, Constants
<1>9. \A u : u \in urls <=> \E k \in (1..posted) \ deleted : u = Article(k) /\ before < k /\ k <= page * PageSize
  BY <1>2, <1>5, PageUrlsFacts
<1>10. page * PageSize \in Int
  BY <1>5, Constants
<1>11. \A k \in 1..Left(c) : Covered(c, k)
  <2> SUFFICES ASSUME NEW k \in 1..posted PROVE Covered(c, k)
    BY <1>7
  <2> HIDE DEF before
  <2>1. CASE k \in deleted
    BY <2>1 DEF Covered, OrderInv, FileInv
  <2>2. CASE k \notin deleted /\ before < k
    <3>1. k <= page * PageSize
      BY <1>8, <1>10, <1>2
    <3> QED
      BY <2>2, <3>1, <1>9, <1>7 DEF Covered
  <2>3. CASE ~ (before < k)
    <3>1. k <= (page - 1) * PageSize
      BY <2>3, <1>8, <1>2 DEF before
    <3>2. \A u \in urls : Article(k) < u
      <4> SUFFICES ASSUME NEW u \in urls PROVE Article(k) < u
        OBVIOUS
      <4>1. PICK j \in 1..posted : u = Article(j) /\ before < j
        BY <1>9
      <4>2. k < j
        BY <4>1, <2>3, <1>8, <1>2
      <4> QED
        BY <4>1, <4>2, <1>2 DEF Article
    <3> QED
      BY <3>1, <3>2, <1>7 DEF Covered
  <2> QED
    BY <2>1, <2>2, <2>3
<1>12. \A u \in c.urls : \E k \in 1..Left(c) : u = Article(k)
  BY <1>7, <1>9
<1>13. c.min = -1 \/ \E m \in Ids : m < Left(c) /\ IsFile(m) /\ c.min = Article(m + 1)
  <2>1. CASE ln.id = -1
    BY <2>1, <1>1, <1>3, <1>7 DEF NewestKnown
  <2>2. CASE ln.id # -1
    <3>1. ln.id \in Ids /\ ln.id < posted
      BY <2>2, <1>2 DEF TypeInv, RoundType
    <3> QED
      BY <2>2, <3>1, <1>1, <1>3, <1>7 DEF NewestKnown
  <2> QED
    BY <2>1, <2>2
<1>14. Article(c.id + 1) \in c.urls
  <2>1. c.id + 1 = posted /\ posted \in 1..posted /\ posted \notin deleted
    BY <1>1, <1>2, <1>7
  <2> QED
    BY <2>1, <1>7, <1>8, <1>9
<1>15. ThreadKnows(c)
  <2>1. c.id + 1 <= posted
    BY <1>2, <1>7
  <2> QED
    BY <2>1, <1>7, <1>11, <1>12, <1>13, <1>14 DEF ThreadKnows
<1>16. /\ StartThread(id, min, page, urls, Bad)
       /\ ln' = [ln EXCEPT !.pc = "fill"] /\ UNCHANGED <<posted, deleted, mirrorVars>>
  BY <1>3 DEF FetchNewDocs
<1> QED
  BY <1>1, <1>4, <1>5, <1>6, <1>15, <1>16, StartOrder

\* The thread for the old documents starts at the last page with the older urls of
\* the page that the document above the gap is on.
LEMMA FillOldDocsOrder ==
  ASSUME TypeInv, OrderInv, FillOldDocs
  PROVE  OrderInv'
<1>1. /\ ln.pc = "fill" /\ ln.old # -1 /\ OldestKnown(ln)
      /\ ln.old + 1 <= ln.maxPage * PageSize /\ ln.old >= 1
  BY DEF FillOldDocs, TypeInv, OrderInv, RoundKnows
<1>2. /\ ln.old \in Ids /\ ln.old \in Int /\ ln.old <= MaxId /\ ln.old + 1 <= posted
      /\ ln.oldUrl = Article(ln.old + 1) /\ posted \in Nat /\ posted <= MaxArt
  BY <1>1, IdFacts, Constants DEF TypeInv, RoundType, OldestKnown, OrderInv, FileInv
<1>3. PICK p \in PageOf(ln.oldUrl, ln.maxPage) :
        StartThread(ln.old - 1, -1, ln.maxPage, OlderOnPage(p, ln.oldUrl), ln.oldUrl)
  BY DEF FillOldDocs
<1>4. PICK id, page, urls, prev : /\ id = ln.old - 1 /\ page = ln.maxPage
                                  /\ urls = OlderOnPage(p, ln.oldUrl) /\ prev = ln.oldUrl
  OBVIOUS
<1>5. id \in Ids /\ id \in Int /\ id + 1 = ln.old
  BY <1>1, <1>2, <1>4, Constants DEF Ids
<1>6. /\ page \in Nat /\ prev \in UrlNums /\ urls \in SUBSET UrlNums /\ p \in 1..page
      /\ prev = Article(id + 2) /\ prev # Bad
      /\ \A q \in 1..page : \A u \in PageUrls(q) : (q < p => u < prev) /\ (q > p => u > prev)
      /\ urls = {u \in PageUrls(p) : u < prev}
  <2>1. page \in Nat /\ prev \in UrlNums /\ p \in 1..page
    BY <1>4 DEF TypeInv, RoundType, PageOf
  <2>2. urls \in SUBSET UrlNums
    BY <2>1, <1>4, PageUrlsTyped
  <2>3. prev = Article(id + 2) /\ prev # Bad
    BY <1>2, <1>4, <1>5 DEF Article, Bad
  <2> QED
    BY <2>1, <2>2, <2>3, <1>4 DEF PageOf, OlderOnPage
<1>7. PICK c : c = [NoThread EXCEPT !.pc = "next", !.id = id, !.min = -1,
                                    !.page = page, !.urls = urls, !.prev = prev]
  OBVIOUS
<1>8. /\ c.pc = "next" /\ c.id = id /\ c.min = -1 /\ c.page = page
      /\ c.urls = urls /\ c.prev = prev /\ Left(c) = id + 1
  BY <1>7 DEF NoThread, Left
<1>9. \A k \in Int : (Article(k) < prev <=> k <= id + 1)
  BY <1>5, <1>6 DEF Article
<1>10. ASSUME NEW k \in 1..(id + 1) PROVE Covered(c, k)
  <2>1. /\ k \in Nat \ {0} /\ k \in 1..posted /\ k <= page * PageSize
    <3>1. page * PageSize \in Int /\ id + 2 <= page * PageSize
      BY <1>1, <1>2, <1>4, <1>5, <1>6, Constants
    <3> QED
      BY <3>1, <1>2, <1>5
  <2>2. /\ Page(k) \in 1..page /\ (Page(k) - 1) * PageSize < k /\ k <= Page(k) * PageSize
    BY <2>1, <1>6, PageFacts
  <2>3. CASE k \in deleted
    BY <2>3 DEF Covered, OrderInv, FileInv
  <2>4. CASE k \notin deleted
    <3>1. Article(k) \in PageUrls(Page(k)) /\ Article(k) < prev
      <4>1. Page(k) \in Int
        BY <2>2
      <4> QED
        BY <4>1, <2>1, <2>2, <2>4, <1>2, <1>9, PageUrlsFacts
    <3>2. ~ (Page(k) > p)
      <4>1. Article(k) \in Int /\ prev \in Int
        BY <2>1, <1>6, UrlFacts DEF Article
      <4> QED
        BY <4>1, <3>1, <2>2, <1>6
    <3>3. CASE Page(k) = p
      BY <3>1, <3>3, <1>6, <1>8 DEF Covered
    <3>4. CASE Page(k) < p
      <4>1. k <= (p - 1) * PageSize
        <5>1. Page(k) * PageSize <= (p - 1) * PageSize /\ (p - 1) * PageSize \in Int /\ Page(k) * PageSize \in Int
          <6>1. Page(k) \in Int /\ p - 1 \in Int /\ Page(k) <= p - 1
            BY <3>4, <2>2, <1>6
          <6> QED
            BY <6>1, TimesMonotonic, Constants
        <5> QED
          BY <5>1, <2>1, <2>2
      <4>2. k <= (page - 1) * PageSize
        <5>1. (p - 1) * PageSize <= (page - 1) * PageSize /\ (p - 1) * PageSize \in Int /\ (page - 1) * PageSize \in Int
          <6>1. p - 1 \in Int /\ page - 1 \in Int /\ p - 1 <= page - 1
            BY <1>6
          <6> QED
            BY <6>1, TimesMonotonic, Constants
        <5> QED
          BY <5>1, <4>1, <2>1
      <4>3. \A u \in urls : Article(k) < u
        <5> SUFFICES ASSUME NEW u \in urls PROVE Article(k) < u
          OBVIOUS
        <5>1. PICK j \in 1..posted : u = Article(j) /\ (p - 1) * PageSize < j
          <6>1. u \in PageUrls(p) /\ p \in Int
            BY <1>6
          <6> QED
            BY <6>1, <1>2, PageUrlsFacts
        <5>2. k < j
          <6>1. (p - 1) * PageSize \in Int
            BY <1>6, Constants
          <6> QED
            BY <6>1, <4>1, <5>1, <2>1, <1>2
        <5> QED
          BY <5>1, <5>2, <2>1, <1>2 DEF Article
      <4> QED
        BY <4>2, <4>3, <1>8 DEF Covered
    <3> QED
      BY <3>2, <3>3, <3>4, <2>2, <1>6
  <2> QED
    BY <2>3, <2>4
<1>11. ASSUME NEW u \in urls PROVE \E k \in 1..(id + 1) : u = Article(k)
  <2>1. PICK k \in 1..posted : u = Article(k)
    <3>1. u \in PageUrls(p) /\ p \in Int
      BY <1>6
    <3> QED
      BY <3>1, <1>2, PageUrlsFacts
  <2>2. u < prev /\ k \in Int /\ k >= 1
    BY <2>1, <1>2, <1>6
  <2>3. k \in 1..(id + 1)
    BY <2>1, <2>2, <1>9, <1>5
  <2> QED
    BY <2>1, <2>3
<1>12. ThreadKnows(c)
  <2>1. c.id + 1 <= posted
    BY <1>2, <1>5, <1>8
  <2>2. c.prev = Article(c.id + 2) /\ c.prev # Bad
    BY <1>6, <1>8
  <2> QED
    BY <2>1, <2>2, <1>8, <1>10, <1>11 DEF ThreadKnows
<1>13. /\ StartThread(id, -1, page, urls, prev) /\ ln' = [ln EXCEPT !.pc = "sleep"]
       /\ ln'.pc = "sleep" /\ UNCHANGED <<posted, deleted, mirrorVars>>
  BY <1>3, <1>4 DEF FillOldDocs, TypeInv, RoundType
<1> QED
  BY <1>5, <1>6, <1>7, <1>12, <1>13, StartOrder

-----------------------------------------------------------------------------
\* What an update thread hands out next is the article of its id.

LEMMA PageBeforeOrder ==
  ASSUME TypeInv, OrderInv, NEW t \in Threads, PageBefore(t), ~mixedUp'
  PROVE  OrderInv'
<1>1. PICK c \in ThreadType : c = thr[t]
  BY DEF TypeInv
<1>2. /\ c.pc = "next" /\ c.urls = {} /\ c.page > 1 /\ ThreadKnows(c)
      /\ c.id \in Ids /\ c.id \in Int /\ c.page \in Nat /\ c.id + 1 <= posted /\ posted \in Nat
  <2>1. c.pc = "next" /\ c.urls = {} /\ c.page > 1 /\ ThreadKnows(c)
    BY <1>1 DEF PageBefore, OrderInv, ThreadsInv
  <2>2. c.id \in Ids \cup {-1} /\ c.page \in Nat
    BY DEF ThreadType
  <2>3. posted \in Nat /\ c.id # -1
    BY <1>1, <2>1 DEF TypeInv
  <2> QED
    BY <2>1, <2>2, <2>3, IdFacts DEF ThreadKnows
<1>3. PICK page, urls : page = c.page - 1 /\ urls = PageUrls(c.page - 1)
  OBVIOUS
<1>4. page \in Nat /\ page \in Int /\ urls \in SUBSET UrlNums /\ urls = PageUrls(page)
  BY <1>2, <1>3, PageUrlsTyped
<1>5. PICK d : d = [c EXCEPT !.page = page, !.urls = urls]
  OBVIOUS
<1>6. /\ d \in ThreadType /\ d.pc = "next" /\ d.id = c.id /\ d.min = c.min /\ d.page = page
      /\ d.urls = urls /\ d.prev = c.prev /\ Left(d) = c.id + 1 /\ Left(c) = c.id + 1
  BY <1>2, <1>4, <1>5 DEF ThreadType, Left
<1>7. /\ thr' = [thr EXCEPT ![t] = d] /\ UNCHANGED <<posted, deleted, mirrorVars, ln>>
      /\ mixedUp' = (mixedUp \/ (c.prev # Bad /\ \E u \in urls : c.prev <= u))
  BY <1>1, <1>3, <1>5 DEF PageBefore
<1>8. c.prev = Article(c.id + 2) /\ c.prev # Bad /\ \A u \in urls : ~ (c.prev <= u)
  BY <1>2, <1>7 DEF ThreadKnows
<1> DEFINE before == (page - 1) * PageSize
<1>9. before \in Int /\ page * PageSize \in Int /\ (c.page - 1) * PageSize = page * PageSize
  BY <1>2, <1>3, <1>4, Constants
<1>10. \A u : u \in urls <=> \E k \in (1..posted) \ deleted : u = Article(k) /\ before < k /\ k <= page * PageSize
  BY <1>2, <1>4, PageUrlsFacts
<1>11. ASSUME NEW u \in urls PROVE \E k \in 1..Left(d) : u = Article(k)
  <2>1. PICK k \in 1..posted : u = Article(k)
    BY <1>10
  <2>2. ~ (Article(c.id + 2) <= Article(k))
    BY <1>8, <2>1
  <2>3. k \in 1..(c.id + 1)
    BY <2>2, <1>2 DEF Article
  <2> QED
    BY <2>1, <2>3, <1>6
<1>12. ASSUME NEW k \in 1..Left(d) PROVE Covered(d, k)
  <2> HIDE DEF before
  <2>1. k \in 1..posted /\ k \in Int
    BY <1>2, <1>6
  <2>2. IsFile(k - 1) \/ k <= page * PageSize
    BY <1>2, <1>6, <1>9 DEF ThreadKnows, Covered
  <2>3. CASE IsFile(k - 1)
    BY <2>3 DEF Covered
  <2>4. CASE k \in deleted
    BY <2>4 DEF Covered, OrderInv, FileInv
  <2>5. CASE k <= page * PageSize /\ k \notin deleted /\ before < k
    BY <2>1, <2>5, <1>6, <1>10 DEF Covered
  <2>6. CASE ~ (before < k)
    <3>1. k <= (page - 1) * PageSize
      BY <2>1, <2>6, <1>9 DEF before
    <3>2. \A u \in urls : Article(k) < u
      <4> SUFFICES ASSUME NEW u \in urls PROVE Article(k) < u
        OBVIOUS
      <4>1. PICK j \in 1..posted : u = Article(j) /\ before < j
        BY <1>10
      <4>2. k < j
        BY <4>1, <2>1, <2>6, <1>9, <1>2
      <4> QED
        BY <4>1, <4>2, <2>1, <1>2 DEF Article
    <3> QED
      BY <3>1, <3>2, <1>6 DEF Covered
  <2> QED
    BY <2>2, <2>3, <2>4, <2>5, <2>6
<1>13. ThreadKnows(d)
  <2>1. d.min = -1 \/ \E m \in Ids : m < Left(d) /\ IsFile(m) /\ d.min = Article(m + 1)
    BY <1>2, <1>6 DEF ThreadKnows
  <2>2. d.id + 1 <= posted /\ d.prev = Article(d.id + 2) /\ d.prev # Bad
    BY <1>2, <1>6, <1>8
  <2> QED
    BY <2>1, <2>2, <1>6, <1>11, <1>12 DEF ThreadKnows
<1>14. FilesStay /\ posted' \in Int /\ posted <= posted' /\ d.id # -1
  BY <1>2, <1>6, <1>7, MirrorKept, IdFacts
<1>15. ThreadKnows(d)'
  BY <1>6, <1>13, <1>14, ThreadKept
<1>16. ThreadsInv'
  BY <1>6, <1>7, <1>14, <1>15, ThreadsStep DEF OrderInv
<1> QED
  BY <1>7, <1>14, <1>16, FileKept, RoundKept DEF OrderInv

\* A thread that ends.
LEMMA ThreadEndsOrder ==
  ASSUME TypeInv, OrderInv, NEW t \in Threads, NEW c \in ThreadType,
         c.pc \in {"dying", "done"}, thr' = [thr EXCEPT ![t] = c],
         UNCHANGED <<posted, deleted, mirrorVars, ln>>
  PROVE  OrderInv'
<1>1. FilesStay /\ posted' \in Int /\ posted <= posted'
  BY MirrorKept DEF TypeInv
<1>2. ThreadsInv'
  BY <1>1, ThreadsStep DEF OrderInv
<1> QED
  BY <1>1, <1>2, FileKept, RoundKept DEF OrderInv

LEMMA NextUrlOrder ==
  ASSUME TypeInv, OrderInv, NEW t \in Threads, NextUrl(t)
  PROVE  OrderInv'
<1>1. PICK c \in ThreadType : c = thr[t]
  BY DEF TypeInv
<1>2. /\ c.pc = "next" /\ (c.urls # {} \/ c.page <= 1) /\ ThreadKnows(c)
      /\ c.id \in Ids /\ c.id \in Int /\ c.id >= 0 /\ c.page \in Nat /\ posted \in Nat
      /\ c.urls \subseteq UrlNums /\ Left(c) = c.id + 1
      /\ UNCHANGED <<posted, deleted, mirrorVars, ln>>
  BY <1>1, IdFacts DEF NextUrl, OrderInv, ThreadsInv, TypeInv, ThreadType, Left
<1>3. CASE IsFile(c.id)
  <2>1. thr' = [thr EXCEPT ![t] = NoThread]
    BY <1>1, <1>3 DEF NextUrl
  <2> QED
    BY <2>1, <1>2, NoThreadTyped, ThreadEndsOrder
<1>4. CASE ~ IsFile(c.id)
  <2> DEFINE k == c.id + 1
             curr == Max(c.urls)
  <2>1. k \in 1..Left(c) /\ k - 1 = c.id /\ Covered(c, k)
    BY <1>2 DEF ThreadKnows
  <2>2. Article(k) \in c.urls
    <3>1. CASE c.urls = {}
      <4>1. c.page - 1 <= 0 /\ c.page - 1 \in Int
        BY <1>2, <3>1
      <4>2. (c.page - 1) * PageSize <= 0 * PageSize /\ 0 * PageSize = 0 /\ (c.page - 1) * PageSize \in Int
        BY <4>1, TimesMonotonic, Constants
      <4>3. ~ (k <= (c.page - 1) * PageSize)
        BY <4>2, <1>2
      <4> QED
        BY <4>3, <2>1, <1>4 DEF Covered
    <3>2. CASE c.urls # {}
      <4>1. PICK u \in c.urls : TRUE
        BY <3>2
      <4>2. PICK j \in 1..k : u = Article(j)
        BY <4>1, <1>2 DEF ThreadKnows
      <4>3. ~ (Article(k) < u)
        BY <4>2, <1>2 DEF Article
      <4> QED
        BY <4>1, <4>3, <2>1, <1>4 DEF Covered
    <3> QED
      BY <3>1, <3>2
  <2>3. \A u \in c.urls : u <= Article(k)
    <3> SUFFICES ASSUME NEW u \in c.urls PROVE u <= Article(k)
      OBVIOUS
    <3>1. PICK j \in 1..k : u = Article(j)
      BY <1>2 DEF ThreadKnows
    <3> QED
      BY <3>1, <1>2 DEF Article
  <2>4. curr = Article(k)
    <3>1. c.urls # {} /\ c.urls \subseteq 0..(2 * MaxArt + 1) /\ 2 * MaxArt + 1 \in Nat
      BY <2>2, <1>2, Constants DEF UrlNums
    <3>2. curr \in c.urls /\ \A u \in c.urls : u <= curr
      BY <3>1, BoundedSetHasMax
    <3>3. curr <= Article(k) /\ Article(k) <= curr /\ curr \in Int /\ Article(k) \in Int
      BY <3>1, <3>2, <2>2, <2>3, <1>2, UrlFacts
    <3> HIDE DEF curr
    <3> QED
      BY <3>3
  <2>5. Article(k) > c.min
    <3>1. CASE c.min = -1
      BY <3>1, <1>2 DEF Article
    <3>2. CASE c.min # -1
      <4>1. PICK m \in Ids : m < k /\ IsFile(m) /\ c.min = Article(m + 1)
        BY <3>2, <1>2 DEF ThreadKnows
      <4>2. m # c.id /\ m \in Int
        BY <4>1, <1>4, IdFacts
      <4>3. m + 1 < k
        BY <4>1, <4>2, <1>2
      <4> QED
        BY <4>1, <4>2, <4>3, <1>2 DEF Article
    <3> QED
      BY <3>1, <3>2
  <2>6. PICK d : d = [c EXCEPT !.pc = "adding", !.urls = c.urls \ {Article(k)},
                               !.prev = Article(k), !.url = Article(k)]
    OBVIOUS
  <2>7. thr' = [thr EXCEPT ![t] = d]
    <3>1. c.urls # {} /\ curr > c.min
      BY <2>2, <2>4, <2>5
    <3>2. thr' = [thr EXCEPT ![t] = [c EXCEPT !.pc = "adding", !.urls = c.urls \ {curr},
                                              !.prev = curr, !.url = curr]]
      BY <3>1, <1>1, <1>4 DEF NextUrl
    <3> QED
      BY <3>2, <2>4, <2>6
  <2>8. /\ d \in ThreadType /\ d.pc = "adding" /\ d.id = c.id /\ d.min = c.min /\ d.page = c.page
        /\ d.urls = c.urls \ {Article(k)} /\ d.prev = Article(k) /\ d.url = Article(k)
        /\ Left(d) = c.id
    <3>1. Article(k) \in UrlNums
      BY <2>2, <1>2
    <3> QED
      BY <3>1, <2>6, <1>2 DEF ThreadType, Left
  <2>9. \A u \in d.urls : \E j \in 1..Left(d) : u = Article(j)
    <3> SUFFICES ASSUME NEW u \in c.urls, u # Article(k)
                 PROVE  \E j \in 1..c.id : u = Article(j)
      BY <2>8
    <3>1. PICK j \in 1..k : u = Article(j)
      BY <1>2 DEF ThreadKnows
    <3>2. j \in 1..c.id
      BY <3>1, <1>2
    <3> QED
      BY <3>1, <3>2
  <2>10. \A j \in 1..Left(d) : Covered(d, j)
    <3> SUFFICES ASSUME NEW j \in 1..c.id PROVE Covered(d, j)
      BY <2>8
    <3>1. j \in 1..Left(c) /\ Article(j) # Article(k)
      BY <1>2 DEF Article
    <3>2. Covered(c, j)
      BY <3>1, <1>2 DEF ThreadKnows
    <3> QED
      BY <3>1, <3>2, <2>8 DEF Covered
  <2>11. d.min = -1 \/ \E m \in Ids : m < Left(d) /\ IsFile(m) /\ d.min = Article(m + 1)
    <3>1. \A m \in Ids : m < c.id + 1 /\ IsFile(m) => m < c.id
      BY <1>2, <1>4, IdFacts
    <3> QED
      BY <3>1, <1>2, <2>8 DEF ThreadKnows
  <2>12. ThreadKnows(d)
    <3>1. d.id + 1 <= posted
      BY <1>2, <2>8 DEF ThreadKnows
    <3> QED
      BY <3>1, <2>8, <2>9, <2>10, <2>11 DEF ThreadKnows
  <2>13. FilesStay /\ posted' \in Int /\ posted <= posted' /\ d.id # -1
    BY <1>2, <2>8, MirrorKept, IdFacts
  <2>14. ThreadKnows(d)'
    BY <2>8, <2>12, <2>13, ThreadKept
  <2>15. ThreadsInv'
    BY <2>7, <2>8, <2>13, <2>14, ThreadsStep DEF OrderInv
  <2> QED
    BY <1>2, <2>13, <2>15, FileKept, RoundKept DEF OrderInv
<1> QED
  BY <1>3, <1>4

LEMMA AddDocOrder ==
  ASSUME TypeInv, OrderInv, NEW t \in Threads, AddDoc(t)
  PROVE  OrderInv'
<1>1. PICK c \in ThreadType : c = thr[t]
  BY DEF TypeInv
<1>2. c.pc = "adding" /\ ThreadKnows(c) /\ c.url = Article(c.id + 1) /\ c.prev = Article(c.id + 1)
  BY <1>1 DEF AddDoc, OrderInv, ThreadsInv, ThreadKnows
<1>3. /\ c.id \in Ids /\ c.id \in Int /\ c.id >= 0 /\ c.id <= MaxId /\ posted \in Nat
      /\ c.id + 1 <= posted /\ Left(c) = c.id
  BY <1>1, <1>2, IdFacts DEF TypeInv, ThreadType, ThreadKnows, Left
<1>4. /\ mirror' = [mirror EXCEPT ![c.id] = Article(c.id + 1)]
      /\ maxId' = IF c.id > maxId THEN c.id ELSE maxId
      /\ UNCHANGED <<posted, deleted, ln>>
  BY <1>1, <1>2 DEF AddDoc
<1>5. Article(c.id + 1) # Missing
  BY <1>3 DEF Article, Missing
<1>6. FilesStay
  BY <1>4, <1>5 DEF FilesStay, IsFile, TypeInv
<1>7. FileInv'
  <2>1. maxId \in Int /\ maxId <= maxId' /\ c.id <= maxId'
    BY <1>3, <1>4, IdFacts DEF TypeInv
  <2>2. ASSUME NEW i \in Ids, IsFile(i)'
        PROVE  mirror'[i] = Article(i + 1) /\ i + 1 <= posted' /\ i <= maxId'
    <3>1. CASE i = c.id
      BY <3>1, <1>3, <1>4, <2>1 DEF TypeInv
    <3>2. CASE i # c.id
      <4>1. mirror'[i] = mirror[i] /\ IsFile(i)
        BY <2>2, <3>2, <1>4 DEF TypeInv, IsFile
      <4>2. mirror[i] = Article(i + 1) /\ i + 1 <= posted /\ i <= maxId /\ i \in Int
        BY <4>1, IdFacts DEF OrderInv, FileInv
      <4>3. maxId' \in Int /\ i <= maxId'
        BY <4>2, <2>1, <1>3, <1>4
      <4> QED
        BY <4>1, <4>2, <4>3, <1>4
    <3> QED
      BY <3>1, <3>2
  <2>3. \A k \in deleted' : k - 1 \in Ids /\ IsFile(k - 1)'
    BY <1>4, <1>6 DEF OrderInv, FileInv, FilesStay
  <2> QED
    BY <2>2, <2>3 DEF FileInv
<1>8. RoundKnows(ln)'
  BY <1>4, <1>6, RoundKept DEF OrderInv
<1>9. posted' \in Int /\ posted <= posted'
  BY <1>3, <1>4
<1>10. CASE c.id = 0 \/ c.stop
  <2>1. thr' = [thr EXCEPT ![t] = NoThread]
    BY <1>1, <1>10 DEF AddDoc
  <2>2. ThreadsInv'
    BY <2>1, <1>6, <1>9, NoThreadTyped, ThreadsStep DEF OrderInv
  <2> QED
    BY <2>2, <1>7, <1>8 DEF OrderInv
<1>11. CASE ~ (c.id = 0 \/ c.stop)
  <2>1. PICK d : d = [c EXCEPT !.pc = "next", !.id = c.id - 1]
    OBVIOUS
  <2>2. thr' = [thr EXCEPT ![t] = d]
    BY <1>1, <1>11, <2>1 DEF AddDoc
  <2>3. c.id - 1 \in Ids /\ (c.id - 1) + 1 = c.id /\ (c.id - 1) + 2 = c.id + 1 /\ c.id - 1 # -1
    BY <1>3, <1>11, Constants DEF Ids
  <2>4. /\ d \in ThreadType /\ d.pc = "next" /\ d.id = c.id - 1 /\ d.id # -1 /\ Left(d) = c.id
        /\ d.min = c.min /\ d.page = c.page /\ d.urls = c.urls /\ d.prev = Article(d.id + 2)
    BY <2>1, <2>3, <1>2 DEF ThreadType, Left
  <2>5. ThreadKnows(d)
    <3>1. d.prev # Bad /\ d.id + 1 <= posted
      BY <2>3, <2>4, <1>3 DEF Article, Bad
    <3>2. \A k \in 1..Left(d) : Covered(d, k)
      BY <2>4, <1>2, <1>3 DEF ThreadKnows, Covered
    <3>3. /\ \A u \in d.urls : \E k \in 1..Left(d) : u = Article(k)
          /\ d.min = -1 \/ \E m \in Ids : m < Left(d) /\ IsFile(m) /\ d.min = Article(m + 1)
      BY <2>4, <1>2, <1>3 DEF ThreadKnows
    <3> QED
      BY <3>1, <3>2, <3>3, <2>4 DEF ThreadKnows
  <2>6. ThreadKnows(d)'
    BY <2>4, <2>5, <1>6, <1>9, ThreadKept
  <2>7. ThreadsInv'
    BY <2>2, <2>4, <2>6, <1>6, <1>9, ThreadsStep DEF OrderInv
  <2> QED
    BY <2>7, <1>7, <1>8 DEF OrderInv
<1> QED
  BY <1>10, <1>11

LEMMA OrderNext ==
  ASSUME TypeInv, ~mixedUp => OrderInv, [Next]_vars, ~mixedUp'
  PROVE  OrderInv'
<1>1. OrderInv
  <2>1. mixedUp => mixedUp'
    BY DEF Next, ListenerStep, ThreadStep, ReadNewest, ReadTop, ReadOldest, GetMaxPageIdx, Estimate,
       FetchNewDocs, NothingToFill, FillOldDocs, Sleep, RoundFails, PageBefore, NextUrl, AddDoc,
       DiedCallback, PageFails, Stop, Joined, StopReturns, Post, Delete, ListenerGoesTo
  <2> QED
    BY <2>1
<1>2. CASE UNCHANGED <<boardVars, mirrorVars, ln, thr>>
  BY <1>1, <1>2, MirrorKept, FileKept, ThreadsKept, RoundKept DEF OrderInv, TypeInv
<1>3. CASE ListenerStep \/ RoundFails
  BY <1>1, <1>3, ReadNewestOrder, ReadTopOrder, ReadOldestOrder, GetMaxPageIdxOrder, EstimateOrder,
     FetchNewDocsOrder, FillOldDocsOrder, RestOfRoundOrder DEF ListenerStep
<1>4. ASSUME NEW t \in Threads, PageFails(t) \/ DiedCallback(t)
      PROVE  OrderInv'
  <2>1. CASE DiedCallback(t)
    BY <2>1, <1>1, NoThreadTyped, ThreadEndsOrder DEF DiedCallback
  <2>2. CASE PageFails(t)
    <3>1. PICK c : c = [thr[t] EXCEPT !.pc = "dying"]
      OBVIOUS
    <3>2. c \in ThreadType /\ c.pc = "dying"
      <4>1. thr[t] \in ThreadType
        BY DEF TypeInv
      <4> QED
        BY <4>1, <3>1 DEF ThreadType
    <3> QED
      BY <3>1, <3>2, <2>2, <1>1, ThreadEndsOrder DEF PageFails
  <2> QED
    BY <1>4, <2>1, <2>2
<1>5. ASSUME NEW t \in Threads, ThreadStep(t)
      PROVE  OrderInv'
  BY <1>1, <1>4, <1>5, PageBeforeOrder, NextUrlOrder, AddDocOrder DEF ThreadStep
<1>6. CASE Post \/ \E k \in Arts : Delete(k)
  BY <1>1, <1>6, BoardOrder
<1>7. ASSUME NEW k \in Int, k >= 1, TellToStop(k), UNCHANGED <<boardVars, mirrorVars, ln>>
      PROVE  OrderInv'
  <2>1. CASE k <= Len(listed)
    <3>1. listed[k] \in Threads
      BY <1>7, <2>1, ElementOfSeq, LenProperties DEF TypeInv
    <3>2. PICK t \in Threads : t = listed[k]
      BY <3>1
    <3>3. thr' = [thr EXCEPT ![t] = [thr[t] EXCEPT !.stop = TRUE]]
      BY <1>7, <2>1, <3>2 DEF TellToStop
    <3>4. PICK c, d : c = thr[t] /\ d = [c EXCEPT !.stop = TRUE]
      OBVIOUS
    <3>5. c \in ThreadType
      BY <3>4 DEF TypeInv
    <3>6. /\ d \in ThreadType /\ d.pc = c.pc /\ d.id = c.id /\ d.min = c.min /\ d.page = c.page
          /\ d.urls = c.urls /\ d.prev = c.prev /\ d.url = c.url
      BY <3>4, <3>5 DEF ThreadType
    <3>7. FilesStay /\ posted' \in Int /\ posted <= posted'
      BY <1>7, MirrorKept DEF TypeInv
    <3>8. ASSUME d.pc \in {"next", "adding"} PROVE ThreadKnows(d)'
      <4>1. ThreadKnows(c) /\ d.id # -1
        BY <3>4, <3>6, <3>8, <1>1 DEF OrderInv, ThreadsInv, TypeInv
      <4>2. ThreadKnows(d)
        BY <4>1, <3>6 DEF ThreadKnows, Left, Covered
      <4> QED
        BY <4>1, <4>2, <3>6, <3>7, <3>8, ThreadKept
    <3>9. thr' = [thr EXCEPT ![t] = d]
      BY <3>3, <3>4
    <3>10. ThreadsInv'
      BY <3>6, <3>7, <3>8, <3>9, <1>1, ThreadsStep DEF OrderInv
    <3> QED
      BY <3>7, <3>10, <1>1, <1>7, FileKept, RoundKept DEF OrderInv
  <2>2. CASE ~ (k <= Len(listed))
    BY <1>2, <1>7, <2>2 DEF TellToStop
  <2> QED
    BY <2>1, <2>2
<1>8. CASE Stop \/ Joined \/ StopReturns
  <2>1. CASE Stop
    BY <2>1, <1>7 DEF Stop
  <2>2. CASE Joined
    <3>1. PICK k \in Int : k = stopper + 1 /\ k >= 1
      BY <2>2 DEF Joined, TypeInv
    <3> QED
      BY <3>1, <2>2, <1>7 DEF Joined
  <2>3. CASE StopReturns
    BY <2>3, <1>2 DEF StopReturns
  <2> QED
    BY <1>8, <2>1, <2>2, <2>3
<1> QED
  BY <1>2, <1>3, <1>4, <1>5, <1>6, <1>8 DEF Next

-----------------------------------------------------------------------------
\* The theorems.

\* The inductive invariant holds in every execution.
THEOREM InvHolds == Spec => []Inv
<1>1. Init => Inv
  BY TypeInit, StopInit, OrderInit DEF Inv
<1>2. Inv /\ [Next]_vars => Inv'
  BY TypeNext, StopNext, OrderNext DEF Inv
<1> QED
  BY <1>1, <1>2, PTL DEF Spec

\* Every field of the listener, of its threads and of the mirror has its type, and
\* both ends of the mirror are documents (board_listener.py, storage.py:43).
THEOREM TypeCorrect == Spec => []TypeInv
<1>1. Inv => TypeInv
  BY DEF Inv
<1> QED
  BY <1>1, InvHolds, PTL

\* Once stop() has returned no update thread runs (board_listener.py:121), with any
\* number of threads and whichever of them die while they are joined.
THEOREM NoThreadAfterStopHolds == Spec => []NoThreadAfterStop
<1>1. Inv => NoThreadAfterStop
  <2> SUFFICES ASSUME Inv, stopper = -1, NEW t \in Threads, thr[t].pc # "done"
               PROVE  FALSE
    BY DEF NoThreadAfterStop
  <2>1. t \in ToSet(listed) /\ listed = <<>>
    BY DEF Inv, StopInv
  <2>2. DOMAIN listed = 1..0
    BY <2>1
  <2> QED
    BY <2>1, <2>2 DEF ToSet
<1> QED
  BY <1>1, InvHolds, PTL

\* Urls grow with the ids of their documents (board_listener.py:75), for any number of
\* overlapping threads, of pages and of failures.
THEOREM MirrorInOrderHolds == Spec => []MirrorInOrder
<1>1. Inv => MirrorInOrder
  BY IdFacts DEF Inv, MirrorInOrder, OrderInv, FileInv, Article
<1> QED
  BY <1>1, InvHolds, PTL

\* No article on the board lies between two documents of consecutive ids.
THEOREM NothingSkippedHolds == Spec => []NothingSkipped
<1>1. Inv => NothingSkipped
  <2> SUFFICES ASSUME Inv, ~mixedUp, NEW i \in Ids \ {MaxId}, IsFile(i), IsFile(i + 1),
                      NEW u \in Online, mirror[i] < u, u < mirror[i + 1]
               PROVE  FALSE
    BY DEF NothingSkipped
  <2>1. i \in Int /\ i + 1 \in Ids
    <3>1. i \in Int /\ 0 <= i /\ i <= MaxId /\ i # MaxId
      BY IdFacts
    <3> QED
      BY <3>1, Constants DEF Ids
  <2>2. mirror[i] = Article(i + 1) /\ mirror[i + 1] = Article((i + 1) + 1)
    BY <2>1 DEF Inv, OrderInv, FileInv
  <2>3. PICK k \in 1..posted : u = Article(k)
    BY DEF Online
  <2>4. k \in Int
    BY DEF Inv, TypeInv
  <2> QED
    BY <2>1, <2>2, <2>3, <2>4 DEF Article
<1> QED
  BY <1>1, InvHolds, PTL

\* When a round finds nothing to fill, every article up to the newest document it saw is
\* mirrored (board_listener.py:167).
THEOREM CompleteIsCompleteHolds == Spec => []CompleteIsComplete
<1>1. Inv => CompleteIsComplete
  <2> SUFFICES ASSUME Inv, ~mixedUp, ln.pc = "complete", NEW u \in Online, u <= ln.num
               PROVE  Mirrored(u)
    BY DEF CompleteIsComplete
  <2>1. PICK k \in 1..posted : u = Article(k)
    BY DEF Online
  <2>2. k \in Int /\ k >= 1
    BY <2>1 DEF Inv, TypeInv
  <2>3. NewestKnown(ln) /\ \A i \in 0..ln.id : IsFile(i)
    BY DEF Inv, OrderInv, RoundKnows, OldestKnown
  <2>4. ln.id # -1
    BY <2>1, <2>2, <2>3 DEF NewestKnown, Article
  <2>5. ln.id \in Ids /\ ln.id \in Int /\ ln.id <= MaxId
    BY <2>4, IdFacts DEF Inv, TypeInv, RoundType
  <2>6. k - 1 \in 0..ln.id
    BY <2>1, <2>2, <2>3, <2>4, <2>5 DEF NewestKnown, Article
  <2>7. k - 1 \in Ids /\ IsFile(k - 1) /\ (k - 1) + 1 = k
    BY <2>2, <2>3, <2>5, <2>6, Constants DEF Ids
  <2>8. mirror[k - 1] = Article(k)
    BY <2>7 DEF Inv, OrderInv, FileInv
  <2> QED
    BY <2>1, <2>7, <2>8 DEF Mirrored
<1> QED
  BY <1>1, InvHolds, PTL

-----------------------------------------------------------------------------
\* The search for a page.  It finds the right one on every board, whatever the number
\* of pages, however many articles are deleted before and during the search, and
\* whatever pages it tries at random.

\* What the search has ruled out: nothing before page lower is newer than
\* url_num and nothing after page upper is older.  Once the range is a single
\* page, or empty, that page is the answer.
RangeInv ==
  /\ \A p \in Pages : p < lower => \A u \in pages[p] : u <= num
  /\ \A p \in Pages : upper < p => \A u \in pages[p] : num <= u
  /\ lower <= upper + 1
  /\ pc = "look" => lower < upper /\ lower <= mid /\ mid <= upper
  /\ pc \in {"read", "done"} => upper <= lower

SearchInv == TypeOK /\ InOrder(pages) /\ RangeInv

\* Nothing is ruled out at the beginning.
LEMMA SearchInitInv == SearchInit => SearchInv
<1> SUFFICES ASSUME SearchInit PROVE SearchInv
  OBVIOUS
<1>1. pages \in [Pages -> SUBSET Nums] /\ InOrder(pages)
  BY DEF SearchInit, BoardInit, WholeRange
<1>2. num \in Nums /\ lower = 1 /\ upper = MaxPage /\ mid = 1 /\ pc = "loop" /\ deletes = 0
  BY DEF SearchInit, BoardInit, WholeRange
<1>3. TypeOK
  BY <1>1, <1>2, MaxPageAssumption, MaxDeletesAssumption DEF TypeOK, Pages
<1>4. RangeInv
  BY <1>2, MaxPageAssumption DEF RangeInv, Pages
<1> QED
  BY <1>1, <1>3, <1>4 DEF SearchInv

\* The middle of a range of two pages or more lies in it.
LEMMA MiddleInRange ==
  ASSUME NEW a \in Int, NEW b \in Int, a < b
  PROVE  a <= (a + b) \div 2 /\ (a + b) \div 2 <= b
OBVIOUS

\* A page whose articles are all newer: nothing after it is older.
LEMMA NewerAbove ==
  ASSUME SearchInv, NEW m \in Pages, pages[m] # {}, Before(m), NEW p \in Pages, m <= p
  PROVE  \A u \in pages[p] : num <= u
<1>0. pages[m] \subseteq Int /\ pages[p] \subseteq Int /\ num \in Int
  BY NumsAssumption DEF SearchInv, TypeOK
<1>1. CASE p = m
  BY <1>0, <1>1 DEF Before
<1>2. CASE m < p
  <2>1. PICK v \in pages[m] : TRUE
    OBVIOUS
  <2>2. \A u \in pages[p] : v <= u
    BY <1>2, <2>1 DEF SearchInv, InOrder
  <2> QED
    BY <1>0, <2>1, <2>2 DEF Before
<1> QED
  BY <1>1, <1>2 DEF Pages

\* A page whose articles are all older: nothing before it is newer.
LEMMA OlderBelow ==
  ASSUME SearchInv, NEW m \in Pages, pages[m] # {}, After(m), NEW p \in Pages, p <= m
  PROVE  \A u \in pages[p] : u <= num
<1>0. pages[m] \subseteq Int /\ pages[p] \subseteq Int /\ num \in Int
  BY NumsAssumption DEF SearchInv, TypeOK
<1>1. CASE p = m
  BY <1>0, <1>1 DEF After
<1>2. CASE p < m
  <2>1. PICK v \in pages[m] : TRUE
    OBVIOUS
  <2>2. \A u \in pages[p] : u <= v
    BY <1>2, <2>1 DEF SearchInv, InOrder
  <2> QED
    BY <1>0, <2>1, <2>2 DEF After
<1> QED
  BY <1>1, <1>2 DEF Pages

\* A page that has an article at or above url_num: nothing after it is older.
LEMMA NewerAboveHit ==
  ASSUME SearchInv, NEW m \in Pages, ~After(m), NEW p \in Pages, m < p
  PROVE  \A u \in pages[p] : num <= u
<1>1. PICK v \in pages[m] : ~(v < num)
  BY DEF After
<1>2. pages[m] \subseteq Int /\ pages[p] \subseteq Int /\ num \in Int
  BY NumsAssumption DEF SearchInv, TypeOK
<1>3. \A u \in pages[p] : v <= u
  BY <1>1 DEF SearchInv, InOrder
<1> QED
  BY <1>1, <1>2, <1>3

\* A page that has an article at or below url_num: nothing before it is newer.
LEMMA OlderBelowHit ==
  ASSUME SearchInv, NEW m \in Pages, ~Before(m), NEW p \in Pages, p < m
  PROVE  \A u \in pages[p] : u <= num
<1>1. PICK v \in pages[m] : ~(num < v)
  BY DEF Before
<1>2. pages[m] \subseteq Int /\ pages[p] \subseteq Int /\ num \in Int
  BY NumsAssumption DEF SearchInv, TypeOK
<1>3. \A u \in pages[p] : u <= v
  BY <1>1 DEF SearchInv, InOrder
<1> QED
  BY <1>1, <1>2, <1>3

\* The comparison with the articles of a page that has some.
LEMMA NarrowInv ==
  ASSUME SearchInv, Narrow
  PROVE  SearchInv'
<1> USE DEF Narrow
<1>1. mid \in Pages /\ lower <= mid /\ mid <= upper /\ lower < upper /\ pages[mid] # {}
  BY DEF SearchInv, TypeOK, RangeInv
<1>2. MaxPage \in Nat /\ lower \in Int /\ upper \in Int /\ mid \in Int
      /\ 1 <= lower /\ upper <= MaxPage /\ 1 <= mid /\ mid <= MaxPage
  BY <1>1, MaxPageAssumption DEF SearchInv, TypeOK, Pages
<1>3. TypeOK'
  BY <1>1, <1>2 DEF SearchInv, TypeOK, Pages
<1>4. \A p \in Pages : p < lower' => \A u \in pages[p] : u <= num
  <2>1. CASE Before(mid)
    BY <2>1 DEF SearchInv, RangeInv
  <2>2. CASE ~Before(mid) /\ After(mid)
    <3>1. \A p \in Pages : p < lower' => p <= mid
      BY <1>2, <2>2 DEF Pages
    <3> QED
      BY <3>1, <2>2, <1>1, OlderBelow
  <2>3. CASE ~Before(mid) /\ ~After(mid)
    BY <2>3, <1>1, OlderBelowHit
  <2> QED
    BY <2>1, <2>2, <2>3
<1>5. \A p \in Pages : upper' < p => \A u \in pages[p] : num <= u
  <2>1. CASE Before(mid)
    <3>1. \A p \in Pages : upper' < p => mid <= p
      BY <1>2, <2>1 DEF Pages
    <3> QED
      BY <3>1, <2>1, <1>1, NewerAbove
  <2>2. CASE ~Before(mid) /\ After(mid)
    BY <2>2 DEF SearchInv, RangeInv
  <2>3. CASE ~Before(mid) /\ ~After(mid)
    BY <2>3, <1>1, NewerAboveHit
  <2> QED
    BY <2>1, <2>2, <2>3
<1>6. lower' <= upper' + 1
  BY <1>1, <1>2
<1>7. RangeInv'
  BY <1>4, <1>5, <1>6 DEF RangeInv
<1>8. InOrder(pages)'
  BY DEF SearchInv, InOrder
<1> QED
  BY <1>3, <1>7, <1>8 DEF SearchInv

\* An empty page at an end of the range: nothing is on it.
LEMMA DropEndInv ==
  ASSUME SearchInv, DropEnd
  PROVE  SearchInv'
<1> USE DEF DropEnd
<1>1. mid \in Pages /\ lower < upper /\ pages[mid] = {}
  BY DEF SearchInv, TypeOK, RangeInv
<1>2. MaxPage \in Nat /\ lower \in Int /\ upper \in Int
      /\ 1 <= lower /\ upper <= MaxPage
  BY <1>1, MaxPageAssumption DEF SearchInv, TypeOK, Pages
<1>3. TypeOK'
  BY <1>1, <1>2 DEF SearchInv, TypeOK, Pages
<1>4. \A p \in Pages : p < lower' => \A u \in pages[p] : u <= num
  <2>1. \A p \in Pages : p < lower' => p < lower \/ p = mid
    BY <1>2 DEF Pages
  <2> QED
    BY <2>1, <1>1 DEF SearchInv, RangeInv
<1>5. \A p \in Pages : upper' < p => \A u \in pages[p] : num <= u
  <2>1. \A p \in Pages : upper' < p => upper < p \/ p = mid
    BY <1>2 DEF Pages
  <2> QED
    BY <2>1, <1>1 DEF SearchInv, RangeInv
<1>6. lower' <= upper' + 1
  BY <1>1, <1>2
<1>7. RangeInv'
  BY <1>4, <1>5, <1>6 DEF RangeInv
<1>8. InOrder(pages)'
  BY DEF SearchInv, InOrder
<1> QED
  BY <1>3, <1>7, <1>8 DEF SearchInv

\* The invariant is inductive.
LEMMA SearchNextInv == SearchInv /\ [SearchNext]_searchVars => SearchInv'
<1> SUFFICES ASSUME SearchInv, [SearchNext]_searchVars PROVE SearchInv'
  OBVIOUS
<1>1. CASE Loop
  <2>1. lower \in Int /\ upper \in Int /\ 1 <= lower /\ upper <= MaxPage /\ MaxPage \in Nat
    BY MaxPageAssumption DEF SearchInv, TypeOK
  <2>2. CASE lower < upper
    <3>1. lower <= mid' /\ mid' <= upper /\ mid' \in Int
      BY <1>1, <2>1, <2>2, MiddleInRange DEF Loop
    <3>2. mid' \in Pages
      BY <3>1, <2>1 DEF Pages
    <3> QED
      BY <1>1, <2>2, <3>1, <3>2 DEF Loop, SearchInv, TypeOK, RangeInv, InOrder
  <2>3. CASE ~(lower < upper)
    BY <1>1, <2>1, <2>3 DEF Loop, SearchInv, TypeOK, RangeInv, InOrder
  <2> QED
    BY <2>2, <2>3
<1>2. CASE DropEnd
  BY <1>2, DropEndInv
<1>3. CASE Narrow
  BY <1>3, NarrowInv
<1>4. CASE ReadResult
  BY <1>4 DEF ReadResult, SearchInv, TypeOK, RangeInv, InOrder
<1>5. ASSUME NEW m \in Pages, TryAnother(m) PROVE SearchInv'
  <2>1. lower <= m /\ m <= upper
    BY <1>5 DEF TryAnother, SearchInv, TypeOK
  <2> QED
    BY <1>5, <2>1 DEF TryAnother, SearchInv, TypeOK, RangeInv, InOrder
<1>6. ASSUME NEW p \in Pages, DeleteUrl(p) PROVE SearchInv'
  <2>1. PICK u \in pages[p] : pages' = [pages EXCEPT ![p] = pages[p] \ {u}]
    BY <1>6 DEF DeleteUrl
  <2>2. \A q \in Pages : pages'[q] \subseteq pages[q]
    BY <2>1 DEF SearchInv, TypeOK
  <2>3. pages' \in [Pages -> SUBSET Nums] /\ deletes' \in 0..MaxDeletes
    BY <1>6, <2>1, MaxDeletesAssumption DEF DeleteUrl, SearchInv, TypeOK
  <2>4. TypeOK'
    BY <1>6, <2>3 DEF DeleteUrl, SearchInv, TypeOK
  <2>5. RangeInv'
    BY <1>6, <2>2 DEF DeleteUrl, SearchInv, RangeInv
  <2>6. InOrder(pages)'
    BY <2>2 DEF SearchInv, InOrder
  <2> QED
    BY <2>4, <2>5, <2>6 DEF SearchInv
<1>7. CASE UNCHANGED searchVars
  BY <1>7 DEF searchVars, SearchInv, TypeOK, RangeInv, InOrder
<1> QED
  BY <1>1, <1>2, <1>3, <1>4, <1>5, <1>6, <1>7 DEF SearchNext, SearchStep

\* The inductive invariant holds in every reachable state.
THEOREM SearchInvHolds == SearchSpec => []SearchInv
BY SearchInitInv, SearchNextInv, PTL DEF SearchSpec

\* Every variable keeps its type; in particular the search never looks at a page
\* outside 1..max_page_idx.
THEOREM SearchTypeCorrect == SearchSpec => []TypeOK
<1>1. SearchInv => TypeOK
  BY DEF SearchInv
<1> QED
  BY <1>1, SearchInvHolds, PTL

\* The answer of the search is right: no older article is on a later page and no
\* newer one on an earlier page.
THEOREM FoundPageCorrect == SearchSpec => []FoundPage
<1>1. SearchInv => FoundPage
  <2> SUFFICES ASSUME SearchInv, pc = "done", NEW p \in Pages, NEW u \in pages[p]
               PROVE  (u < num => p <= lower) /\ (num < u => lower <= p)
    BY DEF FoundPage
  <2>1. u \in Int /\ num \in Int /\ p \in Int /\ lower \in Int /\ upper \in Int /\ upper <= lower
    BY NumsAssumption DEF SearchInv, TypeOK, RangeInv, Pages
  <2>2. p < lower => u <= num
    BY DEF SearchInv, RangeInv
  <2>3. upper < p => num <= u
    BY DEF SearchInv, RangeInv
  <2> QED
    BY <2>1, <2>2, <2>3
<1> QED
  BY <1>1, SearchInvHolds, PTL

\* The search cannot go on for ever over what it has looked at (the safety half of
\* SearchEnds): each page that is compared, or empty at an end, makes the range smaller,
\* and nothing else touches the range (board_listener.py:230-256).
THEOREM SearchShrinks ==
  SearchSpec => [][IF Narrow \/ DropEnd THEN upper' - lower' < upper - lower
                   ELSE UNCHANGED <<lower, upper>>]_searchVars
<1>1. SearchInv /\ [SearchNext]_searchVars =>
        [IF Narrow \/ DropEnd THEN upper' - lower' < upper - lower
         ELSE UNCHANGED <<lower, upper>>]_searchVars
  <2> SUFFICES ASSUME SearchInv, SearchNext
               PROVE  IF Narrow \/ DropEnd THEN upper' - lower' < upper - lower
                      ELSE UNCHANGED <<lower, upper>>
    OBVIOUS
  <2>1. /\ lower \in Int /\ upper \in Int /\ mid \in Int
        /\ pc = "look" => lower < upper /\ lower <= mid /\ mid <= upper
    BY DEF SearchInv, TypeOK, RangeInv, Pages
  <2>2. CASE Narrow
    BY <2>1, <2>2 DEF Narrow
  <2>3. CASE DropEnd
    BY <2>1, <2>3 DEF DropEnd
  <2>4. CASE ~Narrow /\ ~DropEnd
    BY <2>4 DEF SearchNext, SearchStep, Loop, ReadResult, TryAnother, DeleteUrl
  <2> QED
    BY <2>2, <2>3, <2>4
<1> QED
  BY <1>1, SearchInvHolds, PTL DEF SearchSpec

\* The hypothesis of SearchEnds.
NewestNotOlder == \E u \in pages[MaxPage] : num <= u

\* As long as the last page has an article that is not older than the one looked for, the
\* search stays on the board, and so does not ask for a page that does not exist again
\* and again (_get_page_contain_url_num).
THEOREM SearchStaysOnBoard == SearchSpec => [](NewestNotOlder => lower \in Pages)
<1> DEFINE I == SearchInv /\ (NewestNotOlder => lower \in Pages)
<1>1. SearchInit => I
  <2>1. SearchInit => lower \in Pages
    BY MaxPageAssumption DEF SearchInit, WholeRange, Pages
  <2> QED
    BY <2>1, SearchInitInv
<1>2. I /\ [SearchNext]_searchVars => I'
  <2> SUFFICES ASSUME SearchInv, NewestNotOlder => lower \in Pages,
                      [SearchNext]_searchVars, NewestNotOlder'
               PROVE  lower' \in Pages
    BY SearchNextInv
  <2>1. /\ MaxPage \in Nat \ {0} /\ MaxPage \in Pages /\ mid \in Pages
        /\ num \in Int /\ \A u \in pages[MaxPage] : u \in Int
    BY MaxPageAssumption, NumsAssumption DEF SearchInv, TypeOK, Pages
  <2>2. NewestNotOlder /\ num' = num
    <3>1. ASSUME NEW p \in Pages, DeleteUrl(p) PROVE pages'[MaxPage] \subseteq pages[MaxPage] /\ num' = num
      <4>1. PICK u \in pages[p] : pages' = [pages EXCEPT ![p] = pages[p] \ {u}]
        BY <3>1 DEF DeleteUrl
      <4> QED
        BY <4>1, <3>1, <2>1 DEF DeleteUrl, SearchInv, TypeOK
    <3>2. (\E p \in Pages : DeleteUrl(p)) \/ UNCHANGED <<pages, num>>
      BY DEF SearchNext, SearchStep, Loop, DropEnd, Narrow, ReadResult, TryAnother, searchVars
    <3> QED
      BY <3>1, <3>2 DEF NewestNotOlder
  <2>3. lower \in Pages
    BY <2>2
  <2>4. CASE Narrow
    <3>1. After(mid) => mid # MaxPage
      <4>1. PICK u \in pages[MaxPage] : num <= u
        BY <2>2 DEF NewestNotOlder
      <4> QED
        BY <4>1, <2>1 DEF After
    <3> QED
      BY <3>1, <2>1, <2>3, <2>4 DEF Narrow, Pages
  <2>5. CASE DropEnd
    <3>1. mid # MaxPage
      BY <2>2, <2>5 DEF DropEnd, NewestNotOlder
    <3> QED
      BY <3>1, <2>1, <2>3, <2>5 DEF DropEnd, Pages
  <2>6. CASE ~Narrow /\ ~DropEnd
    BY <2>3, <2>6 DEF SearchNext, SearchStep, Loop, ReadResult, TryAnother, DeleteUrl, searchVars
  <2> QED
    BY <2>4, <2>5, <2>6
<1>3. I => (NewestNotOlder => lower \in Pages)
  OBVIOUS
<1> QED
  BY <1>1, <1>2, <1>3, PTL DEF SearchSpec

\* On a board where no two pages have the same number, the search rules out the number
\* itself, too.
Apart == \A p, q \in Pages : p # q => pages[p] \cap pages[q] = {}

StrictRange ==
  /\ \A p \in Pages : p < lower => \A u \in pages[p] : u < num
  /\ \A p \in Pages : upper < p => \A u \in pages[p] : num < u
  /\ pc = "done" => lower \in Pages

StrictInv == SearchInv /\ Apart /\ StrictRange

\* A later page has greater numbers.
LEMMA LaterIsGreater ==
  ASSUME SearchInv, Apart
  PROVE  /\ num \in Int /\ \A p \in Pages : \A u \in pages[p] : u \in Int
         /\ \A p, q \in Pages : p < q => \A u \in pages[p], v \in pages[q] : u < v
<1>1. num \in Int /\ \A p \in Pages : \A u \in pages[p] : u \in Int
  BY NumsAssumption DEF SearchInv, TypeOK
<1>2. ASSUME NEW p \in Pages, NEW q \in Pages, p < q, NEW u \in pages[p], NEW v \in pages[q]
      PROVE  u < v
  <2>1. u <= v
    BY <1>2 DEF SearchInv, InOrder
  <2>2. p # q
    BY <1>2 DEF Pages
  <2>3. u # v
    BY <2>2 DEF Apart
  <2> QED
    BY <1>1, <2>1, <2>3
<1> QED
  BY <1>1, <1>2

LEMMA NarrowStrict ==
  ASSUME StrictInv, Narrow
  PROVE  StrictRange'
<1> USE DEF Narrow
<1>1. /\ mid \in Pages /\ pages[mid] # {} /\ lower \in Int /\ upper \in Int /\ mid \in Int
      /\ \A p \in Pages : p \in Int
  BY DEF StrictInv, SearchInv, TypeOK, Pages
<1>2. /\ num \in Int /\ \A p \in Pages : \A u \in pages[p] : u \in Int
      /\ \A p, q \in Pages : p < q => \A u \in pages[p], v \in pages[q] : u < v
  BY LaterIsGreater DEF StrictInv
<1>3. ASSUME NEW p \in Pages, p < lower', NEW u \in pages[p]
      PROVE  u < num
  <2>1. CASE Before(mid)
    BY <1>3, <2>1 DEF StrictInv, StrictRange
  <2>2. CASE ~Before(mid) /\ After(mid)
    <3>1. PICK v \in pages[mid] : v < num
      BY <1>1, <2>2 DEF After
    <3>2. p = mid \/ p < mid
      BY <1>1, <1>3, <2>2
    <3>3. p < mid => u < v
      BY <1>1, <1>2
    <3> QED
      BY <1>1, <1>2, <2>2, <3>1, <3>2, <3>3 DEF After
  <2>3. CASE ~Before(mid) /\ ~After(mid)
    <3>1. PICK v \in pages[mid] : ~(num < v)
      BY <2>3 DEF Before
    <3>2. u < v
      BY <1>1, <1>2, <1>3, <2>3
    <3> QED
      BY <1>1, <1>2, <3>1, <3>2
  <2> QED
    BY <2>1, <2>2, <2>3
<1>4. ASSUME NEW p \in Pages, upper' < p, NEW u \in pages[p]
      PROVE  num < u
  <2>1. CASE Before(mid)
    <3>1. PICK v \in pages[mid] : num < v
      BY <1>1, <2>1 DEF Before
    <3>2. p = mid \/ mid < p
      BY <1>1, <1>4, <2>1
    <3>3. mid < p => v < u
      BY <1>1, <1>2
    <3> QED
      BY <1>1, <1>2, <2>1, <3>1, <3>2, <3>3 DEF Before
  <2>2. CASE ~Before(mid) /\ After(mid)
    BY <1>4, <2>2 DEF StrictInv, StrictRange
  <2>3. CASE ~Before(mid) /\ ~After(mid)
    <3>1. PICK v \in pages[mid] : ~(v < num)
      BY <2>3 DEF After
    <3>2. v < u
      BY <1>1, <1>2, <1>4, <2>3
    <3> QED
      BY <1>1, <1>2, <3>1, <3>2
  <2> QED
    BY <2>1, <2>2, <2>3
<1> QED
  BY <1>3, <1>4 DEF StrictRange

LEMMA StrictNext == StrictInv /\ [SearchNext]_searchVars => StrictInv'
<1> SUFFICES ASSUME StrictInv, [SearchNext]_searchVars PROVE StrictInv'
  OBVIOUS
<1>1. SearchInv'
  BY SearchNextInv DEF StrictInv
<1>2. Apart'
  <2>1. \A q \in Pages : pages'[q] \subseteq pages[q]
    <3>1. ASSUME NEW p \in Pages, DeleteUrl(p) PROVE \A q \in Pages : pages'[q] \subseteq pages[q]
      <4>1. PICK u \in pages[p] : pages' = [pages EXCEPT ![p] = pages[p] \ {u}]
        BY <3>1 DEF DeleteUrl
      <4> QED
        BY <4>1 DEF StrictInv, SearchInv, TypeOK
    <3>2. (\E p \in Pages : DeleteUrl(p)) \/ UNCHANGED pages
      BY DEF SearchNext, SearchStep, Loop, DropEnd, Narrow, ReadResult, TryAnother, searchVars
    <3> QED
      BY <3>1, <3>2
  <2> QED
    BY <2>1 DEF StrictInv, Apart
<1>3. StrictRange'
  <2>1. CASE Loop
    BY <2>1 DEF Loop, StrictInv, StrictRange
  <2>2. CASE DropEnd
    <3>1. mid \in Pages /\ pages[mid] = {} /\ lower \in Int /\ upper \in Int /\ mid \in Int
      BY <2>2 DEF DropEnd, StrictInv, SearchInv, TypeOK, Pages
    <3>2. /\ \A p \in Pages : p < lower' => p < lower \/ p = mid
          /\ \A p \in Pages : upper' < p => upper < p \/ p = mid
      BY <2>2, <3>1 DEF DropEnd, Pages
    <3> QED
      BY <2>2, <3>1, <3>2 DEF DropEnd, StrictInv, StrictRange
  <2>3. CASE Narrow
    BY <2>3, NarrowStrict
  <2>4. CASE ReadResult
    BY <2>4 DEF ReadResult, StrictInv, StrictRange
  <2>5. ASSUME NEW m \in Pages, TryAnother(m) PROVE StrictRange'
    BY <2>5 DEF TryAnother, StrictInv, StrictRange
  <2>6. ASSUME NEW p \in Pages, DeleteUrl(p) PROVE StrictRange'
    <3>1. PICK u \in pages[p] : pages' = [pages EXCEPT ![p] = pages[p] \ {u}]
      BY <2>6 DEF DeleteUrl
    <3>2. \A q \in Pages : pages'[q] \subseteq pages[q]
      BY <3>1 DEF StrictInv, SearchInv, TypeOK
    <3> QED
      BY <2>6, <3>2 DEF DeleteUrl, StrictInv, StrictRange
  <2>7. CASE UNCHANGED searchVars
    BY <2>7 DEF searchVars, StrictInv, StrictRange
  <2> QED
    BY <2>1, <2>2, <2>3, <2>4, <2>5, <2>6, <2>7 DEF SearchNext, SearchStep
<1> QED
  BY <1>1, <1>2, <1>3 DEF StrictInv

-----------------------------------------------------------------------------
\* BoardListener and PageSearch together.

\* The board of BoardListener is one that PageSearch searches: its pages are in the order
\* of their numbers, and no two have the same.
LEMMA BoardIsSearched ==
  ASSUME posted \in Nat, pages = [p \in Pages |-> PageUrls(p)]
  PROVE  InOrder(pages) /\ Apart
<1>1. ASSUME NEW p \in Pages, NEW q \in Pages, p < q, NEW u \in PageUrls(p), NEW v \in PageUrls(q)
      PROVE  u \in Int /\ v \in Int /\ u < v
  <2>0. p \in Int /\ q \in Int /\ 1 <= p
    BY DEF Pages
  <2>1. PICK k \in (1..posted) \ deleted : u = Article(k) /\ k <= p * PageSize
    BY <2>0, PageUrlsFacts
  <2>2. PICK j \in (1..posted) \ deleted : v = Article(j) /\ (q - 1) * PageSize < j
    BY <2>0, PageUrlsFacts
  <2>3. p * PageSize <= (q - 1) * PageSize
    <3>1. p \in Nat /\ q - 1 \in Nat /\ p <= q - 1
      BY <2>0, <1>1
    <3> QED
      BY <3>1, Constants, TimesMonotonic
  <2>4. k < j
    <3>1. PICK a \in Int, b \in Int : a = p * PageSize /\ b = (q - 1) * PageSize
      BY <2>0, Constants
    <3> QED
      BY <3>1, <2>1, <2>2, <2>3
  <2> QED
    BY <2>1, <2>2, <2>4 DEF Article
<1>2. InOrder(pages)
  BY <1>1 DEF InOrder
<1>3. \A p, q \in Pages : p # q => p < q \/ q < p
  BY DEF Pages
<1>4. Apart
  BY <1>1, <1>3 DEF Apart
<1> QED
  BY <1>2, <1>4

\* What BoardListener takes the search for is what the search finds: on a board like that of
\* BoardListener, when the search is done and the pages are those of BoardListener, the
\* page found is one of PageOf, whatever was deleted meanwhile
\* (board_listener.py:226-257).
THEOREM SearchGivesPageOf ==
  SearchSpec /\ Apart =>
    [](pc = "done" /\ (\A q \in Pages : pages[q] = PageUrls(q)) => lower \in PageOf(num, MaxPage))
<1>1. SearchInit /\ Apart => StrictInv
  <2> SUFFICES ASSUME SearchInit, Apart PROVE StrictInv
    OBVIOUS
  <2>1. lower = 1 /\ upper = MaxPage /\ pc = "loop"
    BY DEF SearchInit, WholeRange
  <2>2. StrictRange
    BY <2>1, MaxPageAssumption DEF StrictRange, Pages
  <2> QED
    BY <2>2, SearchInitInv DEF StrictInv
<1>2. StrictInv => (pc = "done" /\ (\A q \in Pages : pages[q] = PageUrls(q)) => lower \in PageOf(num, MaxPage))
  <2> SUFFICES ASSUME StrictInv, pc = "done", \A q \in Pages : pages[q] = PageUrls(q)
               PROVE  lower \in PageOf(num, MaxPage)
    OBVIOUS
  <2>1. lower \in Pages /\ upper <= lower /\ upper \in Int /\ lower \in Int
    BY DEF StrictInv, StrictRange, SearchInv, RangeInv, TypeOK, Pages
  <2>2. /\ \A q \in Pages : q < lower => \A u \in pages[q] : u < num
        /\ \A q \in Pages : upper < q => \A u \in pages[q] : num < u
    BY DEF StrictInv, StrictRange
  <2>3. num \in Int /\ \A q \in Pages : \A u \in pages[q] : u \in Int
    BY LaterIsGreater DEF StrictInv
  <2>4. ASSUME NEW q \in Pages, NEW u \in PageUrls(q)
        PROVE  (q < lower => u < num) /\ (q > lower => u > num)
    <3>1. u \in pages[q] /\ u \in Int /\ q \in Int
      BY <2>3 DEF Pages
    <3>2. q > lower => upper < q
      BY <2>1, <3>1
    <3> QED
      BY <2>2, <2>3, <3>1, <3>2
  <2> QED
    BY <2>1, <2>4 DEF PageOf, Pages
<1> QED
  BY <1>1, <1>2, StrictNext, PTL DEF SearchSpec

=============================================================================
