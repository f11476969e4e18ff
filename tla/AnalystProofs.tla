--------------------------- MODULE AnalystProofs ---------------------------
(***************************************************************************)
(* Proofs about Analyst, for every number of documents and all weights.    *)
(***************************************************************************)
EXTENDS Analyst, FiniteSetTheorems, SequenceTheorems, WellFoundedInduction, TLAPS

Impls == {"title", "content"}

-----------------------------------------------------------------------------
\* The order of the documents.

\* No document is before itself, the order is transitive and it is total.
LEMMA BeforeIsAnOrder ==
  ASSUME impl \in Impls, NEW n \in Nat, NEW s \in [0..(n - 1) -> Int]
  PROVE  \A a, b \in 0..(n - 1) :
           /\ ~Before(s, a, a)
           /\ Before(s, a, b) => ~Before(s, b, a)
           /\ a # b => Before(s, a, b) \/ Before(s, b, a)
           /\ \A c \in 0..(n - 1) : Before(s, a, b) /\ Before(s, b, c) => Before(s, a, c)
<1> SUFFICES ASSUME NEW a \in 0..(n - 1), NEW b \in 0..(n - 1)
             PROVE  /\ ~Before(s, a, a)
                    /\ Before(s, a, b) => ~Before(s, b, a)
                    /\ a # b => Before(s, a, b) \/ Before(s, b, a)
                    /\ \A c \in 0..(n - 1) : Before(s, a, b) /\ Before(s, b, c) => Before(s, a, c)
  OBVIOUS
<1>1. s[a] \in Int /\ s[b] \in Int /\ \A c \in 0..(n - 1) : s[c] \in Int
  OBVIOUS
<1> QED
  BY <1>1 DEF Before, Impls

\* A document stays before a later one if it is before it in the order.
LEMMA StaysIsBefore ==
  ASSUME impl \in Impls, NEW n \in Nat, NEW s \in [0..(n - 1) -> Int],
         NEW a \in 0..(n - 1), NEW b \in 0..(n - 1), a < b
  PROVE  Stays(s, a, b) <=> Before(s, a, b)
<1>1. s[a] \in Int /\ s[b] \in Int
  OBVIOUS
<1> QED
  BY <1>1 DEF Before, Stays, Impls

-----------------------------------------------------------------------------
\* The list of the best.

\* The largest of a set of naturals that has a bound.
LEMMA BoundedSetHasMax ==
  ASSUME NEW S, S # {}, NEW b \in Nat, S \subseteq 0..b
  PROVE  /\ Max(S) \in S
         /\ \A x \in S : x <= Max(S)
<1> DEFINE R == {n \in Nat : \E x \in S : n = b - x}
<1>1. \A x \in S : x \in Int /\ 0 <= x /\ x <= b /\ b - x \in Nat
  OBVIOUS
<1>2. R \subseteq Nat /\ R # {}
  BY <1>1
<1>3. PICK r \in R : \A y \in R : ~ (<<y, r>> \in OpToRel(<, Nat))
  <2> HIDE DEF R
  <2> QED
    BY <1>2, WFMin, NatLessThanWellFounded, Zenon
<1>4. \A y \in R : ~ (y < r)
  BY <1>3, <1>2 DEF OpToRel
<1>5. PICK m \in S : r = b - m
  OBVIOUS
<1>6. \A x \in S : m >= x
  BY <1>1, <1>4, <1>5
<1>7. Max(S) \in S /\ \A x \in S : Max(S) >= x
  BY <1>6, Zenon DEF Max
<1> QED
  BY <1>7, <1>1

\* The position after which a document is inserted.
LastStay(s, list, b) ==
  LET I == {p \in 1..Len(list) : Stays(s, list[p], b)}
  IN  IF I # {} THEN Max(I) ELSE 0

LEMMA InsertsAtLastStay ==
  ASSUME NEW s, NEW list, NEW b
  PROVE  Insert(s, list, b) =
           SubSeq(InsertAt(list, LastStay(s, list, b) + 1, b), 1,
                  IF Len(list) < 3 THEN Len(list) + 1 ELSE 3)
BY DEF Insert, LastStay, SelectLastInSeq

LEMMA LastStays ==
  ASSUME NEW s, NEW S, NEW list \in Seq(S), NEW b, NEW k, k = LastStay(s, list, b)
  PROVE  /\ k \in 0..Len(list)
         /\ k > 0 => Stays(s, list[k], b)
         /\ \A p \in 1..Len(list) : k < p => ~Stays(s, list[p], b)
<1> DEFINE I == {p \in 1..Len(list) : Stays(s, list[p], b)}
<1>1. k = IF I # {} THEN Max(I) ELSE 0
  BY DEF LastStay
<1>2. Len(list) \in Nat
  OBVIOUS
<1>3. I \subseteq 0..Len(list) /\ \A p \in I : p \in 1..Len(list) /\ Stays(s, list[p], b)
  BY <1>2
<1>4. \A p \in 1..Len(list) : p \notin I => ~Stays(s, list[p], b)
  OBVIOUS
<1> HIDE DEF I
<1>5. CASE I = {}
  <2>1. k = 0
    BY <1>1, <1>5
  <2> QED
    BY <2>1, <1>2, <1>4, <1>5
<1>6. CASE I # {}
  <2>1. k = Max(I)
    BY <1>1, <1>6
  <2>2. k \in I /\ \A x \in I : x <= k
    BY <1>2, <1>3, <1>6, <2>1, BoundedSetHasMax
  <2>3. k \in 1..Len(list) /\ Stays(s, list[k], b)
    BY <2>2, <1>3
  <2>4. \A p \in 1..Len(list) : k < p => p \notin I
    BY <2>2, <2>3
  <2> QED
    BY <2>3, <2>4, <1>4
<1> QED
  BY <1>5, <1>6

\* What Insert makes of a list of at most three.
LEMMA InsertIs ==
  ASSUME NEW s, NEW S, NEW list \in Seq(S), Len(list) <= 3, NEW b \in S
  PROVE  LET m == IF Len(list) < 3 THEN Len(list) + 1 ELSE 3
         IN \E k \in 0..Len(list) :
              /\ k > 0 => Stays(s, list[k], b)
              /\ \A p \in 1..Len(list) : k < p => ~Stays(s, list[p], b)
              /\ Insert(s, list, b) \in Seq(S)
              /\ Len(Insert(s, list, b)) = m
              /\ \A p \in 1..m : Insert(s, list, b)[p] =
                   IF p <= k THEN list[p] ELSE IF p = k + 1 THEN b ELSE list[p - 1]
<1> DEFINE m == IF Len(list) < 3 THEN Len(list) + 1 ELSE 3
<1>1. PICK k : k = LastStay(s, list, b)
  OBVIOUS
<1>2. /\ k \in 0..Len(list)
      /\ k > 0 => Stays(s, list[k], b)
      /\ \A p \in 1..Len(list) : k < p => ~Stays(s, list[p], b)
  BY <1>1, LastStays
<1>3. Len(list) \in Nat /\ k \in Nat /\ m \in Nat /\ m <= Len(list) + 1
  BY <1>2
<1> DEFINE long == SubSeq(list, 1, k) \o <<b>> \o SubSeq(list, k + 1, Len(list))
<1>4. Insert(s, list, b) = SubSeq(long, 1, m)
  <2>1. (k + 1) - 1 = k
    BY <1>3
  <2>2. InsertAt(list, k + 1, b) = long
    <3>1. InsertAt(list, k + 1, b)
            = SubSeq(list, 1, (k + 1) - 1) \o <<b>> \o SubSeq(list, k + 1, Len(list))
      BY Zenon DEF InsertAt
    <3> QED
      BY <3>1, <2>1, Zenon
  <2>3. Insert(s, list, b) = SubSeq(InsertAt(list, k + 1, b), 1, m)
    BY <1>1, InsertsAtLastStay
  <2> QED
    BY <2>2, <2>3
<1>5. /\ long \in Seq(S) /\ Len(long) = Len(list) + 1
      /\ \A p \in 1..Len(long) : long[p] =
           IF p <= k THEN list[p] ELSE IF p = k + 1 THEN b ELSE list[p - 1]
  <2>1. /\ SubSeq(list, 1, k) \in Seq(S) /\ Len(SubSeq(list, 1, k)) = k
        /\ \A p \in 1..k : SubSeq(list, 1, k)[p] = list[p]
    BY <1>2, <1>3
  <2>2. /\ SubSeq(list, k + 1, Len(list)) \in Seq(S)
        /\ Len(SubSeq(list, k + 1, Len(list))) = Len(list) - k
        /\ \A p \in 1..(Len(list) - k) : SubSeq(list, k + 1, Len(list))[p] = list[k + p]
    BY <1>2, <1>3
  <2> DEFINE x == SubSeq(list, 1, k)
             y == SubSeq(list, k + 1, Len(list))
  <2> HIDE DEF x, y
  <2>3. /\ x \in Seq(S) /\ Len(x) = k /\ \A p \in 1..k : x[p] = list[p]
        /\ y \in Seq(S) /\ Len(y) = Len(list) - k
        /\ \A p \in 1..(Len(list) - k) : y[p] = list[k + p]
        /\ long = x \o <<b>> \o y
    BY <2>1, <2>2 DEF x, y
  <2>4. /\ x \o <<b>> \in Seq(S) /\ Len(x \o <<b>>) = k + 1
        /\ \A p \in 1..(k + 1) : (x \o <<b>>)[p] = IF p <= k THEN list[p] ELSE b
    BY <2>3, <1>3
  <2> DEFINE z == x \o <<b>>
  <2> HIDE DEF z
  <2>5. /\ z \in Seq(S) /\ Len(z) = k + 1 /\ long = z \o y
        /\ \A p \in 1..(k + 1) : z[p] = IF p <= k THEN list[p] ELSE b
    BY <2>3, <2>4 DEF z
  <2>6. /\ long \in Seq(S) /\ Len(long) = Len(list) + 1
        /\ \A p \in 1..Len(long) : long[p] = IF p <= k + 1 THEN z[p] ELSE y[p - (k + 1)]
    <3> HIDE DEF long
    <3>1. Len(z) + Len(y) = Len(list) + 1
      BY <2>3, <2>5, <1>2, <1>3
    <3>2. /\ z \o y \in Seq(S) /\ Len(z \o y) = Len(z) + Len(y)
          /\ \A p \in 1..(Len(z) + Len(y)) : (z \o y)[p] = IF p <= Len(z) THEN z[p] ELSE y[p - Len(z)]
      BY <2>3, <2>5, ConcatProperties
    <3>3. long = z \o y /\ Len(z) = k + 1
      BY <2>5
    <3> QED
      BY <3>1, <3>2, <3>3, Zenon
  <2>7. ASSUME NEW p \in 1..Len(long)
        PROVE  long[p] = IF p <= k THEN list[p] ELSE IF p = k + 1 THEN b ELSE list[p - 1]
    <3> HIDE DEF long
    <3>0. p \in Int /\ 1 <= p /\ p <= Len(list) + 1
      BY <2>6, <1>3
    <3>1. CASE p <= k + 1
      BY <3>0, <3>1, <2>5, <2>6, <1>2, <1>3
    <3>2. CASE p > k + 1
      <4>1. p - (k + 1) \in 1..(Len(list) - k) /\ k + (p - (k + 1)) = p - 1
        BY <3>0, <3>2, <1>2, <1>3
      <4>2. long[p] = list[p - 1]
        <5>1. long[p] = y[p - (k + 1)]
          BY <3>0, <3>2, <2>6, <1>3
        <5> QED
          BY <5>1, <4>1, <2>3
      <4> QED
        BY <4>2, <3>0, <3>2, <1>3
    <3> QED
      BY <3>0, <3>1, <3>2, <1>3
  <2> QED
    BY <2>6, <2>7
<1> HIDE DEF long
<1>6. /\ SubSeq(long, 1, m) \in Seq(S) /\ Len(SubSeq(long, 1, m)) = m
      /\ \A p \in 1..m : SubSeq(long, 1, m)[p] = long[p]
  BY <1>3, <1>5
<1>7. \A p \in 1..m : p \in 1..Len(long)
  BY <1>3, <1>5
<1>8. /\ Insert(s, list, b) \in Seq(S)
      /\ Len(Insert(s, list, b)) = m
      /\ \A p \in 1..m : Insert(s, list, b)[p] =
           IF p <= k THEN list[p] ELSE IF p = k + 1 THEN b ELSE list[p - 1]
  BY <1>4, <1>5, <1>6, <1>7
<1> QED
  BY <1>2, <1>8

\* The list of the best of the documents below n, but for document l: it is
\* ordered, and it leaves one out only if it has three and this one is after them.
BestSoFar(s, list, l, n) ==
  /\ list \in Seq(Nat) /\ Len(list) <= 3
  /\ \A p \in 1..Len(list) : list[p] \in 0..(n - 1) \ {l}
  /\ \A p, q \in 1..Len(list) : p < q => Before(s, list[p], list[q])
  /\ \A c \in 0..(n - 1) \ {l} :
       (\E p \in 1..Len(list) : list[p] = c) \/ (Len(list) = 3 /\ Before(s, list[3], c))

\* Nothing was looked at, and nothing is in the list.
LEMMA EmptyIsBest ==
  ASSUME NEW s, NEW l
  PROVE  BestSoFar(s, <<>>, l, 0)
<1>1. <<>> \in Seq(Nat) /\ Len(<<>>) = 0
  OBVIOUS
<1> QED
  BY <1>1 DEF BestSoFar

\* The document itself is passed over.
LEMMA SelfIsPassed ==
  ASSUME NEW s, NEW list, NEW n \in Nat, BestSoFar(s, list, n, n)
  PROVE  BestSoFar(s, list, n, n + 1)
<1>1. 0..((n + 1) - 1) \ {n} = 0..(n - 1) \ {n}
  OBVIOUS
<1> QED
  BY <1>1, Zenon DEF BestSoFar

\* Inserting the next document keeps the list the best.
LEMMA InsertKeepsBest ==
  ASSUME impl \in Impls, NEW n \in Nat, NEW s \in [0..(n - 1) -> Int],
         NEW list, NEW l, NEW b \in 0..(n - 1), b # l, BestSoFar(s, list, l, b)
  PROVE  BestSoFar(s, Insert(s, list, b), l, b + 1)
<1> DEFINE m == IF Len(list) < 3 THEN Len(list) + 1 ELSE 3
           new == Insert(s, list, b)
<1>0. \A x, y \in 0..(n - 1) :
        /\ Before(s, x, y) => ~Before(s, y, x)
        /\ x # y => Before(s, x, y) \/ Before(s, y, x)
        /\ \A z \in 0..(n - 1) : Before(s, x, y) /\ Before(s, y, z) => Before(s, x, z)
        /\ x < y => (Stays(s, x, y) <=> Before(s, x, y))
  BY BeforeIsAnOrder, StaysIsBefore
<1>1. /\ list \in Seq(Nat) /\ Len(list) <= 3 /\ Len(list) \in Nat /\ b \in Nat
      /\ \A p \in 1..Len(list) : list[p] \in 0..(b - 1) \ {l} /\ list[p] \in 0..(n - 1) /\ list[p] < b
  BY DEF BestSoFar
<1>2. PICK k \in 0..Len(list) :
        /\ k > 0 => Stays(s, list[k], b)
        /\ \A p \in 1..Len(list) : k < p => ~Stays(s, list[p], b)
        /\ new \in Seq(Nat) /\ Len(new) = m
        /\ \A p \in 1..m : new[p] =
             IF p <= k THEN list[p] ELSE IF p = k + 1 THEN b ELSE list[p - 1]
  BY <1>1, InsertIs
<1> HIDE DEF new
<1>3. /\ m \in Nat /\ m <= 3 /\ m <= Len(list) + 1 /\ Len(list) <= m /\ k \in Nat /\ k <= Len(list)
      /\ m = 3 \/ m = Len(list) + 1
  <2>1. k \in 0..Len(list)
    BY <1>2
  <2> QED
    BY <2>1, <1>1
<1>4. ASSUME NEW p \in 1..Len(list), p <= k
      PROVE  Before(s, list[p], b)
  <2>1. k \in 1..Len(list)
    BY <1>3, <1>4
  <2>2. Before(s, list[k], b)
    <3>1. Stays(s, list[k], b) /\ list[k] \in 0..(n - 1) /\ list[k] < b
      BY <2>1, <1>1, <1>2
    <3> QED
      BY <3>1, <1>0
  <2>3. CASE p = k
    BY <2>2, <2>3
  <2>4. CASE p < k
    <3>1. Before(s, list[p], list[k])
      BY <2>1, <2>4 DEF BestSoFar
    <3> QED
      BY <3>1, <2>1, <2>2, <1>0, <1>1
  <2> QED
    BY <2>3, <2>4, <1>3, <1>4
<1>5. ASSUME NEW p \in 1..Len(list), k < p
      PROVE  Before(s, b, list[p])
  <2>1. ~Before(s, list[p], b)
    BY <1>5, <1>0, <1>1, <1>2
  <2> QED
    BY <2>1, <1>0, <1>1
<1>6. ASSUME NEW p \in 1..m
      PROVE  \/ p <= k /\ p \in 1..Len(list) /\ new[p] = list[p]
             \/ p = k + 1 /\ new[p] = b
             \/ p > k + 1 /\ p - 1 \in 1..Len(list) /\ new[p] = list[p - 1]
  <2>1. new[p] = IF p <= k THEN list[p] ELSE IF p = k + 1 THEN b ELSE list[p - 1]
    BY <1>2
  <2> HIDE DEF m
  <2> QED
    BY <2>1, <1>3
<1> HIDE DEF m
<1>7. ASSUME NEW p \in 1..m PROVE new[p] \in 0..((b + 1) - 1) \ {l}
  <2>1. \A c \in 0..(b - 1) \ {l} : c \in 0..((b + 1) - 1) \ {l}
    BY <1>1
  <2>2. b \in 0..((b + 1) - 1) \ {l}
    BY <1>1
  <2> QED
    BY <2>1, <2>2, <1>1, <1>6
<1>8. ASSUME NEW p \in 1..m, NEW q \in 1..m, p < q PROVE Before(s, new[p], new[q])
  <2>1. CASE p <= k /\ p \in 1..Len(list) /\ new[p] = list[p]
    <3>1. CASE q <= k /\ q \in 1..Len(list) /\ new[q] = list[q]
      BY <2>1, <3>1, <1>8 DEF BestSoFar
    <3>2. CASE q = k + 1 /\ new[q] = b
      BY <2>1, <3>2, <1>4
    <3>3. CASE q > k + 1 /\ q - 1 \in 1..Len(list) /\ new[q] = list[q - 1]
      <4>1. p < q - 1
        BY <2>1, <3>3, <1>3
      <4> QED
        BY <4>1, <2>1, <3>3 DEF BestSoFar
    <3> QED
      BY <3>1, <3>2, <3>3, <1>6
  <2>2. CASE p = k + 1 /\ new[p] = b
    <3>1. q - 1 \in 1..Len(list) /\ new[q] = list[q - 1] /\ k < q - 1
      BY <2>2, <1>3, <1>6, <1>8
    <3> QED
      BY <3>1, <2>2, <1>5
  <2>3. CASE p > k + 1 /\ p - 1 \in 1..Len(list) /\ new[p] = list[p - 1]
    <3>1. q - 1 \in 1..Len(list) /\ new[q] = list[q - 1] /\ p - 1 < q - 1
      BY <2>3, <1>3, <1>6, <1>8
    <3> QED
      BY <3>1, <2>3 DEF BestSoFar
  <2> QED
    BY <2>1, <2>2, <2>3, <1>6
<1>9. ASSUME NEW c \in 0..((b + 1) - 1) \ {l}
      PROVE  (\E p \in 1..m : new[p] = c) \/ (m = 3 /\ Before(s, new[3], c))
  <2>0. (new[3] \in 0..(n - 1) /\ c \in 0..(n - 1)) \/ m # 3
    BY <1>1, <1>3, <1>7
  <2>1. CASE c = b
    <3>1. CASE k + 1 <= m
      BY <3>1, <2>1, <1>2, <1>3 DEF m
    <3>2. CASE k + 1 > m
      <4>1. m = 3 /\ k = 3 /\ 3 \in 1..Len(list)
        BY <3>2, <1>1, <1>3
      <4>2. new[3] = list[3]
        BY <4>1, <1>6
      <4> QED
        BY <4>1, <4>2, <2>1, <1>4
    <3> QED
      BY <3>1, <3>2, <1>3
  <2>2. CASE c # b
    <3>1. c \in 0..(b - 1) \ {l}
      BY <2>2, <1>1
    <3>2. CASE \E p \in 1..Len(list) : list[p] = c
      <4>1. PICK p \in 1..Len(list) : list[p] = c
        BY <3>2
      <4>2. CASE p <= k
        <5>1. p \in 1..m /\ new[p] = list[p]
          BY <4>2, <1>2, <1>3 DEF m
        <5> QED
          BY <4>1, <5>1
      <4>3. CASE k < p /\ p + 1 <= m
        <5>1. p + 1 \in 1..m /\ p + 1 > k + 1 /\ (p + 1) - 1 = p
          BY <4>3, <1>3
        <5>2. new[p + 1] = list[p]
          BY <5>1, <1>6, <1>3
        <5> QED
          BY <4>1, <5>1, <5>2
      <4>4. CASE k < p /\ p + 1 > m
        <5>1. m = 3 /\ p = 3 /\ Len(list) = 3
          <6>1. p \in Int /\ 1 <= p /\ p <= Len(list) /\ p + 1 > m
            BY <4>4, <1>1
          <6>2. Len(list) \in Nat /\ Len(list) <= 3
            BY <1>1
          <6>3. m \in Nat /\ m <= 3 /\ m <= Len(list) + 1 /\ (m = 3 \/ m = Len(list) + 1)
            BY <1>3
          <6>4. ~(m = Len(list) + 1)
            BY <6>1, <6>2
          <6>5. m = 3 /\ Len(list) = 3
            BY <6>1, <6>2, <6>3, <6>4
          <6> QED
            BY <6>1, <6>5
        <5>2. CASE k = 2
          <6>1. new[3] = b
            BY <5>1, <5>2, <1>2 DEF m
          <6> QED
            BY <6>1, <5>1, <5>2, <4>1, <1>5
        <5>3. CASE k < 2
          <6>1. new[3] = list[2] /\ 2 \in 1..Len(list)
            <7>1. 3 \in 1..m /\ ~(3 <= k) /\ ~(3 = k + 1)
              BY <5>1, <5>3, <1>3
            <7>2. new[3] = list[3 - 1]
              BY <7>1, <1>6, <1>3
            <7> QED
              BY <7>2, <5>1
          <6>2. Before(s, list[2], list[3])
            BY <5>1 DEF BestSoFar
          <6> QED
            BY <6>1, <6>2, <5>1, <4>1
        <5> QED
          BY <5>1, <5>2, <5>3, <4>4, <1>3
      <4> QED
        BY <4>2, <4>3, <4>4, <1>3
    <3>3. CASE Len(list) = 3 /\ Before(s, list[3], c)
      <4>1. m = 3 /\ 3 \in 1..m /\ 3 \in 1..Len(list)
        BY <3>3 DEF m
      <4>2. CASE new[3] = list[3]
        BY <4>1, <4>2, <3>3
      <4>3. CASE new[3] = b /\ k = 2
        <5>1. Before(s, b, list[3])
          BY <4>1, <4>3, <1>5
        <5> QED
          BY <5>1, <4>1, <4>3, <3>3, <2>0, <1>0, <1>1
      <4>4. CASE new[3] = list[2]
        <5>1. Before(s, list[2], list[3])
          BY <3>3 DEF BestSoFar
        <5> QED
          BY <5>1, <4>1, <4>4, <3>3, <2>0, <1>0, <1>1
      <4>5. new[3] = list[3] \/ (new[3] = b /\ k = 2) \/ new[3] = list[2]
        <5>1. CASE 3 <= k
          BY <5>1, <4>1, <1>6, <1>3
        <5>2. CASE 3 = k + 1
          BY <5>2, <4>1, <1>6, <1>3
        <5>3. CASE 3 > k + 1
          <6>1. new[3] = list[3 - 1]
            BY <5>3, <4>1, <1>6, <1>3
          <6> QED
            BY <6>1
        <5> QED
          BY <5>1, <5>2, <5>3, <1>3
      <4> QED
        BY <4>2, <4>3, <4>4, <4>5
    <3> QED
      BY <3>1, <3>2, <3>3 DEF BestSoFar
  <2> QED
    BY <2>1, <2>2
<1>10. new \in Seq(Nat) /\ Len(new) = m
  BY <1>2 DEF m
<1>11. BestSoFar(s, new, l, b + 1)
  BY <1>10, <1>3, <1>7, <1>8, <1>9, Zenon DEF BestSoFar
<1> QED
  BY <1>11 DEF new

\* How many others are before a document tells its place: the places of two are
\* as the two are ordered.
LEMMA BelowGrows ==
  ASSUME impl \in Impls, NEW n \in Nat, NEW s \in [0..(n - 1) -> Int], NEW O, O \subseteq 0..(n - 1),
         NEW a \in O, NEW b \in O, Before(s, a, b)
  PROVE  Cardinality({c \in O : Before(s, c, a)}) < Cardinality({c \in O : Before(s, c, b)})
<1> DEFINE A == {c \in O : Before(s, c, a)}
           B == {c \in O : Before(s, c, b)}
<1>1. IsFiniteSet(0..(n - 1))
  BY FS_Interval
<1>2. IsFiniteSet(O)
  BY <1>1, FS_Subset
<1>3. IsFiniteSet(B)
  BY <1>2, FS_Subset
<1>4. A \subseteq B
  BY BeforeIsAnOrder
<1>5. a \in B /\ a \notin A
  BY BeforeIsAnOrder
<1>6. Cardinality(A) <= Cardinality(B) /\ (Cardinality(B) = Cardinality(A) => B = A)
  BY <1>3, <1>4, FS_Subset
<1>7. Cardinality(A) \in Nat /\ Cardinality(B) \in Nat
  BY <1>3, <1>4, FS_Subset, FS_CardinalityType
<1> QED
  BY <1>5, <1>6, <1>7

\* The documents before the one at place k of the list of the best are those at
\* the places before k.
LEMMA PlaceInBest ==
  ASSUME impl \in Impls, NEW n \in Nat, NEW s \in [0..(n - 1) -> Int], NEW l,
         NEW list, BestSoFar(s, list, l, n), NEW k \in 1..Len(list)
  PROVE  Cardinality({c \in 0..(n - 1) \ {l} : Before(s, c, list[k])}) = k - 1
<1> DEFINE O == 0..(n - 1) \ {l}
           B == {c \in O : Before(s, c, list[k])}
           f == [p \in 1..(k - 1) |-> list[p]]
<1>0. \A x, y \in 0..(n - 1) :
        /\ ~Before(s, x, x)
        /\ Before(s, x, y) => ~Before(s, y, x)
        /\ \A z \in 0..(n - 1) : Before(s, x, y) /\ Before(s, y, z) => Before(s, x, z)
  BY BeforeIsAnOrder
<1>1. /\ Len(list) \in Nat /\ Len(list) <= 3 /\ \A p \in 1..Len(list) : list[p] \in O
      /\ \A p, q \in 1..Len(list) : p < q => Before(s, list[p], list[q])
      /\ \A c \in O : (\E p \in 1..Len(list) : list[p] = c) \/ (Len(list) = 3 /\ Before(s, list[3], c))
  BY DEF BestSoFar
<1>2. \A p \in 1..(k - 1) : p \in 1..Len(list) /\ p < k
  BY <1>1
<1>3. f \in [1..(k - 1) -> B]
  BY <1>1, <1>2
<1>4. \A c \in B : \E p \in 1..(k - 1) : f[p] = c
  <2> SUFFICES ASSUME NEW c \in B PROVE \E p \in 1..(k - 1) : f[p] = c
    OBVIOUS
  <2>1. c \in O /\ Before(s, c, list[k]) /\ list[k] \in O
    BY <1>1
  <2>2. ~(Len(list) = 3 /\ Before(s, list[3], c))
    <3>1. SUFFICES ASSUME Len(list) = 3, Before(s, list[3], c) PROVE FALSE
      OBVIOUS
    <3>2. 3 \in 1..Len(list) /\ list[3] \in O
      BY <3>1, <1>1
    <3>3. Before(s, list[3], list[k])
      BY <3>1, <3>2, <2>1, <1>0
    <3>4. k < 3 \/ k = 3
      BY <3>1, <1>1
    <3>5. ~Before(s, list[3], list[k])
      <4>1. CASE k < 3
        <5>1. Before(s, list[k], list[3])
          BY <4>1, <3>2, <1>1
        <5> QED
          BY <5>1, <3>2, <2>1, <1>0
      <4>2. CASE k = 3
        BY <4>2, <3>2, <1>0
      <4> QED
        BY <4>1, <4>2, <3>4
    <3> QED
      BY <3>3, <3>5
  <2>3. PICK p \in 1..Len(list) : list[p] = c
    BY <2>1, <2>2, <1>1
  <2>4. p < k
    <3>1. p # k
      BY <2>1, <2>3, <1>0
    <3>2. ~(k < p)
      <4>1. SUFFICES ASSUME k < p PROVE FALSE
        OBVIOUS
      <4>2. Before(s, list[k], c)
        BY <4>1, <2>3, <1>1
      <4> QED
        BY <4>2, <2>1, <1>0
    <3> QED
      BY <3>1, <3>2, <1>1
  <2> QED
    BY <2>3, <2>4, <1>1
<1>5. \A p, q \in 1..(k - 1) : f[p] = f[q] => p = q
  <2> SUFFICES ASSUME NEW p \in 1..(k - 1), NEW q \in 1..(k - 1), f[p] = f[q] PROVE p = q
    OBVIOUS
  <2>1. list[p] = list[q] /\ list[p] \in O
    BY <1>1, <1>2
  <2>2. ~(p < q) /\ ~(q < p)
    BY <2>1, <1>0, <1>1, <1>2
  <2> QED
    BY <2>2
<1>6. ExistsBijection(1..(k - 1), B)
  <2> HIDE DEF f, B
  <2>1. f \in Bijection(1..(k - 1), B)
    BY <1>3, <1>4, <1>5, Zenon DEF Bijection, Injection, Surjection, IsInjective
  <2> QED
    BY <2>1, Zenon DEF ExistsBijection
<1>7. k - 1 \in Nat
  BY <1>1
<1> QED
  BY <1>6, <1>7, FS_CountingElements

\* When all documents were looked at, the list is that of the three best of the others.
LEMMA BestIsTop3 ==
  ASSUME impl \in Impls, Count \in Nat, NEW s \in [0..(Count - 1) -> Int],
         NEW l \in 0..(Count - 1), NEW list, BestSoFar(s, list, l, Count)
  PROVE  list = Top3(s, l)
<1>1. PICK n \in Nat : n = Count
  OBVIOUS
<1> DEFINE O == 0..(n - 1) \ {l}
           Place(a) == Cardinality({c \in O : Before(s, c, a)})
<1>2. s \in [0..(n - 1) -> Int] /\ l \in 0..(n - 1) /\ BestSoFar(s, list, l, n) /\ Others(l) = O
  BY <1>1 DEF Others
<1>3. /\ list \in Seq(Nat) /\ Len(list) \in Nat /\ Len(list) <= 3
      /\ \A p \in 1..Len(list) : list[p] \in O
      /\ \A p, q \in 1..Len(list) : p < q => Before(s, list[p], list[q])
      /\ \A c \in O : (\E p \in 1..Len(list) : list[p] = c) \/ Len(list) = 3
  <2>1. /\ list \in Seq(Nat) /\ Len(list) <= 3
        /\ \A p \in 1..Len(list) : list[p] \in O
        /\ \A p, q \in 1..Len(list) : p < q => Before(s, list[p], list[q])
        /\ \A c \in O : (\E p \in 1..Len(list) : list[p] = c) \/ (Len(list) = 3 /\ Before(s, list[3], c))
    BY <1>2, Zenon DEF BestSoFar
  <2>2. Len(list) \in Nat
    BY <2>1
  <2> QED
    BY <2>1, <2>2, Zenon
<1>4. \A p \in 1..Len(list) : Place(list[p]) = p - 1
  BY <1>2, PlaceInBest
<1>5. \A a, b \in O : a # b => Place(a) # Place(b)
  <2> SUFFICES ASSUME NEW a \in O, NEW b \in O, a # b PROVE Place(a) # Place(b)
    OBVIOUS
  <2>1. Before(s, a, b) \/ Before(s, b, a)
    BY <1>2, BeforeIsAnOrder
  <2>2. /\ Before(s, a, b) => Place(a) < Place(b)
        /\ Before(s, b, a) => Place(b) < Place(a)
    <3>1. O \subseteq 0..(n - 1)
      OBVIOUS
    <3> HIDE DEF O
    <3>2. ASSUME Before(s, a, b) PROVE Place(a) < Place(b)
      BY <3>1, <3>2, <1>2, BelowGrows
    <3>3. ASSUME Before(s, b, a) PROVE Place(b) < Place(a)
      BY <3>1, <3>3, <1>2, BelowGrows
    <3> QED
      BY <3>2, <3>3
  <2>3. IsFiniteSet(O)
    <3>1. IsFiniteSet(0..(n - 1))
      BY FS_Interval
    <3> QED
      BY <3>1, FS_Subset
  <2>4. Place(a) \in Nat /\ Place(b) \in Nat
    BY <2>3, FS_Subset, FS_CardinalityType
  <2> QED
    BY <2>1, <2>2, <2>4
<1>6. Len(list) = IF n > 3 THEN 3 ELSE n - 1
  <2>1. IsFiniteSet(O) /\ Cardinality(O) = n - 1
    <3> DEFINE D == 0..(n - 1)
    <3>1. IsFiniteSet(D) /\ Cardinality(D) = IF 0 > n - 1 THEN 0 ELSE (n - 1) - 0 + 1
      <4>1. 0 \in Int /\ n - 1 \in Int
        OBVIOUS
      <4> QED
        BY <4>1, FS_Interval
    <3>2. l \in D /\ Cardinality(D) = n
      BY <3>1, <1>2
    <3> HIDE DEF D
    <3>3. IsFiniteSet(D \ {l}) /\ Cardinality(D \ {l}) = n - 1
      BY <3>1, <3>2, FS_RemoveElement
    <3> QED
      BY <3>3 DEF D
  <2>2. \A p, q \in 1..Len(list) : list[p] = list[q] => p = q
    <3> SUFFICES ASSUME NEW p \in 1..Len(list), NEW q \in 1..Len(list), list[p] = list[q]
                 PROVE  p = q
      OBVIOUS
    <3>1. p - 1 = q - 1
      BY <1>4
    <3> QED
      BY <3>1
  <2> DEFINE f == [p \in 1..Len(list) |-> list[p]]
  <2>3. f \in Injection(1..Len(list), O)
    BY <2>2, <1>3 DEF Injection, IsInjective
  <2>4. IsFiniteSet(1..Len(list)) /\ Cardinality(1..Len(list)) = Len(list)
    <3>1. PICK m \in Nat : m = Len(list)
      BY <1>3
    <3>2. IsFiniteSet(1..m) /\ Cardinality(1..m) = IF 1 > m THEN 0 ELSE m - 1 + 1
      <4>1. 1 \in Int /\ m \in Int
        OBVIOUS
      <4> QED
        BY <4>1, FS_Interval
    <3>3. Cardinality(1..m) = m
      BY <3>2
    <3> QED
      BY <3>1, <3>2, <3>3
  <2>5. /\ Len(list) <= n - 1
        /\ Len(list) = n - 1 <=> f \in Surjection(1..Len(list), O)
    <3> HIDE DEF f, O
    <3> QED
      BY <2>1, <2>3, <2>4, FS_Injection
  <2>6. Len(list) # 3 => f \in Surjection(1..Len(list), O)
    BY <2>3, <1>3 DEF Surjection, Injection
  <2>7. n - 1 \in Nat /\ Len(list) \in Nat /\ Len(list) <= 3 /\ Len(list) <= n - 1
        /\ (Len(list) # 3 => Len(list) = n - 1)
    BY <2>5, <2>6, <1>2, <1>3
  <2> QED
    BY <2>7
<1> DEFINE t == Top3(s, l)
<1>7. t = [k \in 1..Len(list) |-> CHOOSE a \in O : Place(a) = k - 1]
  BY <1>1, <1>2, <1>6 DEF Top3
<1>8. \A k \in 1..Len(list) : (CHOOSE a \in O : Place(a) = k - 1) = list[k]
  <2> SUFFICES ASSUME NEW k \in 1..Len(list) PROVE (CHOOSE a \in O : Place(a) = k - 1) = list[k]
    OBVIOUS
  <2> HIDE DEF Place, O
  <2>1. list[k] \in O /\ Place(list[k]) = k - 1
    BY <1>3, <1>4
  <2>2. \A a \in O : Place(a) = k - 1 => a = list[k]
    BY <2>1, <1>5
  <2> QED
    BY <2>1, <2>2, Zenon
<1>9. t = [k \in 1..Len(list) |-> list[k]]
  BY <1>7, <1>8
<1>10. list = [k \in 1..Len(list) |-> list[k]]
  BY <1>3
<1> QED
  BY <1>9, <1>10

-----------------------------------------------------------------------------
\* The invariant.

Typed ==
  /\ impl \in Impls
  /\ meta \in Seq(Meta)
  /\ phase \in {"fetch", "count", "words", "score", "pick", "serve", "dead"}
  /\ id \in Nat /\ i \in Nat /\ nouns \in Nat
  /\ calculated \in Seq(BOOLEAN)
  /\ score \in [0..(Count - 1) -> Int] /\ row \in [0..(Count - 1) -> Int]
  /\ idBase \in Int
  /\ idBase = Base \/ Count = 0 \/ phase \in {"fetch", "dead"}

\* Which documents were looked at.  The loop of the title analyst over the words
\* counts the documents, and ends only when there is no word.
Counted ==
  /\ \A k \in 1..Len(calculated) : k <= Count /\ calculated[k] = meta[k].positive
  /\ nouns = 0 => \A k \in 1..Len(calculated) : meta[k].positive => meta[k].words = 0
  /\ phase = "fetch" => id = 0 /\ i = 0 /\ nouns = 0 /\ calculated = <<>>
  /\ phase = "count" => id = Len(calculated)
  /\ phase = "words" =>
       /\ Len(calculated) > 0
       /\ impl = "title" => i = 0
       /\ impl = "content" \/ nouns = 0 => id + 1 = Len(calculated)
  /\ phase \in {"count", "score", "pick", "serve"} /\ impl = "title" => nouns = 0
  /\ phase \in {"score", "pick", "serve"} => Len(calculated) = Count

\* Which documents have their list.  The title analyst does not set its scores to
\* 0, but has no score other than 0 when it comes here.
Picked ==
  /\ phase \in {"fetch", "count", "words"} => recommended = <<>>
  /\ impl = "title" => score = Zero
  /\ recommended \in Seq(Seq(Nat))
  /\ phase = "score" => id <= Count /\ Len(recommended) = id
  /\ phase = "serve" => Len(recommended) = Count
  /\ phase = "pick" =>
       /\ id < Count /\ Len(recommended) = id /\ i <= Count
       /\ score = row
       /\ BestSoFar(score, best, id, i)
  /\ phase = "score" /\ id > 0 /\ calculated[id] =>
       BestSoFar(row, recommended[id], id - 1, Count)

Inv == Typed /\ Counted /\ Picked

LEMMA InitInv == Init => Inv
<1> SUFFICES ASSUME Init PROVE Inv
  OBVIOUS
<1>1. meta \in Seq(Meta)
  <2>1. PICK n \in 0..MaxDocs : meta \in [1..n -> Meta]
    BY DEF Init
  <2> QED
    BY <2>1, BoundsAssumption
<1>2. Count \in Nat /\ Zero \in [0..(Count - 1) -> Int]
  BY <1>1 DEF Count, Zero
<1>3. Typed
  BY <1>1, <1>2 DEF Init, Typed, Impls
<1>4. Counted
  BY DEF Init, Counted
<1>5. Picked
  BY DEF Init, Picked
<1> QED
  BY <1>3, <1>4, <1>5 DEF Inv

\* A list stays what it is in a step that leaves the analyst what it is.
LEMMA BestStays ==
  ASSUME impl' = impl, NEW s, NEW list, NEW l, NEW n, BestSoFar(s, list, l, n)
  PROVE  BestSoFar(s, list, l, n)'
BY Zenon DEF BestSoFar, Before

\* What Inv says in the places where it is used.
LEMMA InvFacts ==
  ASSUME Inv
  PROVE  /\ Count \in Nat /\ Zero \in [0..(Count - 1) -> Int]
         /\ Len(calculated) \in Nat /\ Len(recommended) \in Nat
         /\ \A k \in 1..Count : meta[k] \in Meta
BY DEF Inv, Typed, Picked, Count, Zero

LEMMA FetchMetaInv == ASSUME Inv, FetchMeta PROVE Inv'
<1> USE DEF FetchMeta
<1>1. Typed'
  BY BoundsAssumption DEF Inv, Typed, Count
<1>2. Counted'
  BY DEF Inv, Counted, Count
<1>3. Picked'
  BY DEF Inv, Picked, Count, Zero
<1> QED
  BY <1>1, <1>2, <1>3 DEF Inv

LEMMA MinerFailsInv == ASSUME Inv, MinerFails PROVE Inv'
<1> USE DEF MinerFails, fetched
<1>1. Typed'
  BY DEF Inv, Typed, Count
<1>2. Counted'
  BY DEF Inv, Counted, Count
<1>3. Picked'
  BY DEF Inv, Picked, Count, Zero
<1> QED
  BY <1>1, <1>2, <1>3 DEF Inv

LEMMA CountDocInv == ASSUME Inv, CountDoc PROVE Inv'
<1> USE DEF CountDoc, fetched
<1>1. /\ id = Len(calculated) /\ id \in Nat /\ id < Count /\ Count \in Nat /\ phase = "count"
      /\ id + 1 \in 1..Count /\ meta[id + 1] \in Meta
      /\ meta[id + 1].positive \in BOOLEAN /\ meta[id + 1].words \in 0..1
  <2>1. id = Len(calculated) /\ id \in Nat /\ id < Count /\ Count \in Nat /\ phase = "count"
    BY InvFacts DEF Inv, Typed, Counted
  <2>2. id + 1 \in 1..Count
    BY <2>1
  <2>3. meta[id + 1] \in Meta
    BY <2>2, InvFacts
  <2> QED
    BY <2>1, <2>2, <2>3 DEF Meta
<1>2. /\ calculated' \in Seq(BOOLEAN) /\ Len(calculated') = id + 1
      /\ \A k \in 1..(id + 1) : calculated'[k] = IF k = id + 1 THEN meta[id + 1].positive ELSE calculated[k]
  <2>1. calculated \in Seq(BOOLEAN)
    BY DEF Inv, Typed
  <2>2. PICK x \in BOOLEAN : x = meta[id + 1].positive
    BY <1>1
  <2>3. calculated' = Append(calculated, x)
    BY <2>2
  <2>4. /\ Append(calculated, x) \in Seq(BOOLEAN)
        /\ Len(Append(calculated, x)) = Len(calculated) + 1
        /\ \A k \in 1..Len(calculated) : Append(calculated, x)[k] = calculated[k]
        /\ Append(calculated, x)[Len(calculated) + 1] = x
    BY <2>1, AppendProperties
  <2>5. \A k \in 1..(id + 1) : k = id + 1 \/ k \in 1..Len(calculated)
    BY <1>1
  <2>6. calculated'[id + 1] = meta[id + 1].positive
    BY <1>1, <2>2, <2>3, <2>4, Zenon
  <2>7. \A k \in 1..(id + 1) : k # id + 1 => calculated'[k] = calculated[k]
    BY <2>3, <2>4, <2>5, Zenon
  <2> QED
    BY <1>1, <2>3, <2>4, <2>6, <2>7, Zenon
<1>3. \A k \in 1..(id + 1) : k \in 1..Len(calculated) \/ k = id + 1
  BY <1>1
<1>4. \A k \in 1..Len(calculated') : k <= Count /\ calculated'[k] = meta[k].positive
  BY <1>1, <1>2, <1>3 DEF Inv, Counted
<1>5. CASE meta[id + 1].positive
  <2>1. nouns' = nouns + meta[id + 1].words /\ i' = 0 /\ phase' = "words" /\ id' = id
    BY <1>5
  <2>2. nouns' \in Nat /\ (nouns' = 0 => nouns = 0 /\ meta[id + 1].words = 0)
    <3>1. nouns \in Nat /\ meta[id + 1].words \in 0..1
      BY <1>1 DEF Inv, Typed
    <3> QED
      BY <2>1, <3>1
  <2>3. Typed'
    BY <1>1, <1>2, <2>1, <2>2 DEF Inv, Typed, Count
  <2>4. nouns' = 0 => \A k \in 1..Len(calculated') : meta[k].positive => meta[k].words = 0
    BY <1>1, <1>2, <1>3, <2>2 DEF Inv, Counted
  <2>5. Counted'
    BY <1>1, <1>2, <1>4, <2>1, <2>4 DEF Counted, Count
  <2>6. Picked'
    BY <1>1, <2>1 DEF Inv, Picked, Count, Zero
  <2> QED
    BY <2>3, <2>5, <2>6 DEF Inv
<1>6. CASE ~meta[id + 1].positive
  <2>1. nouns' = nouns /\ i' = i /\ phase' = phase /\ id' = id + 1
    BY <1>6
  <2>2. Typed'
    BY <1>1, <1>2, <2>1 DEF Inv, Typed, Count
  <2>3. nouns' = 0 => \A k \in 1..Len(calculated') : meta[k].positive => meta[k].words = 0
    BY <1>1, <1>2, <1>3, <1>6, <2>1 DEF Inv, Counted
  <2>4. impl = "title" => nouns = 0
    BY <1>1 DEF Inv, Counted
  <2>5. Counted'
    BY <1>1, <1>2, <1>4, <2>1, <2>3, <2>4 DEF Counted, Count
  <2>6. Picked'
    BY <1>1, <2>1 DEF Inv, Picked, Count, Zero
  <2> QED
    BY <2>2, <2>5, <2>6 DEF Inv
<1> QED
  BY <1>5, <1>6

\* The words of a document: in the title analyst the loop goes on for ever.
LEMMA WordsInv == ASSUME Inv, CountWord \/ WordsCounted PROVE Inv'
<1>1. /\ phase = "words" /\ id \in Nat /\ i \in Nat /\ nouns \in Nat /\ impl \in Impls
      /\ impl = "title" => i = 0
      /\ impl = "content" \/ nouns = 0 => id + 1 = Len(calculated)
      /\ Len(calculated) > 0
  BY DEF Inv, Typed, Counted, CountWord, WordsCounted
<1>2. CASE CountWord
  <2> USE DEF CountWord, fetched
  <2>1. id' \in Nat /\ i' \in Nat
    BY <1>1, <1>2, BoundsAssumption
  <2>2. nouns # 0
    BY <1>1, <1>2
  <2>3. Typed'
    BY <1>2, <2>1 DEF Inv, Typed, Count
  <2>4. Counted'
    BY <1>1, <1>2, <2>2 DEF Inv, Counted, Count, Impls
  <2>5. Picked'
    BY <1>1, <1>2 DEF Inv, Picked, Count, Zero
  <2> QED
    BY <2>3, <2>4, <2>5 DEF Inv
<1>3. CASE WordsCounted
  <2> USE DEF WordsCounted, fetched
  <2>1. id' \in Nat
    BY <1>1, <1>3
  <2>2. impl = "title" => nouns = 0
    BY <1>1, <1>3
  <2>3. id + 1 = Len(calculated)
    BY <1>1, <2>2 DEF Impls
  <2>4. Typed'
    BY <1>3, <2>1 DEF Inv, Typed, Count
  <2>5. Counted'
    BY <1>1, <1>3, <2>2, <2>3 DEF Inv, Counted, Count
  <2>6. Picked'
    BY <1>1, <1>3 DEF Inv, Picked, Count, Zero
  <2> QED
    BY <2>4, <2>5, <2>6 DEF Inv
<1> QED
  BY <1>2, <1>3

LEMMA DocsCountedInv == ASSUME Inv, DocsCounted PROVE Inv'
<1> USE DEF DocsCounted, fetched
<1>1. id = Len(calculated) /\ Len(calculated) = Count /\ Count \in Nat /\ phase = "count"
  <2>1. /\ id = Len(calculated) /\ id >= Count /\ Count \in Nat /\ phase = "count"
        /\ \A k \in 1..Len(calculated) : k <= Count
    BY InvFacts DEF Inv, Counted
  <2>2. Len(calculated) \in Nat /\ (Len(calculated) > 0 => Len(calculated) \in 1..Len(calculated))
    BY InvFacts
  <2> QED
    BY <2>1, <2>2
<1>2. Typed'
  BY DEF Inv, Typed, Count
<1>3. Counted'
  BY <1>1 DEF Inv, Counted, Count
<1>4. Picked'
  BY <1>1 DEF Inv, Picked, Count, Zero
<1> QED
  BY <1>2, <1>3, <1>4 DEF Inv

\* A document is scored: the scores are those it adds, also where they are not
\* set to 0 before.
LEMMA ScoreDocInv == ASSUME Inv, ScoreDoc PROVE Inv'
<1> USE DEF ScoreDoc, fetched
<1>0. /\ phase = "score" /\ id < Count /\ id \in Nat /\ Count \in Nat /\ nouns \in Nat
      /\ Zero \in [0..(Count - 1) -> Int]
      /\ Len(recommended) = id /\ Len(calculated) = Count /\ impl \in Impls
      /\ score \in [0..(Count - 1) -> Int] /\ row \in [0..(Count - 1) -> Int]
      /\ recommended \in Seq(Seq(Nat)) /\ calculated \in Seq(BOOLEAN)
  BY InvFacts DEF Inv, Typed, Counted, Picked
<1>1. CASE calculated[id + 1]
  <2>1. /\ row' \in Rows(id) /\ score' = [j \in DOMAIN score |-> StartScore[j] + row'[j]]
        /\ best' = <<>> /\ i' = 0 /\ phase' = "pick" /\ id' = id /\ recommended' = recommended
        /\ UNCHANGED <<impl, meta, idBase, nouns, calculated>>
    BY <1>1
  <2>2. row' \in [0..(Count - 1) -> Int]
    <3>1. \A r \in Rows(id) : r \in [0..(Count - 1) -> Weights \cup {0}]
      BY DEF Rows
    <3> QED
      BY <2>1, <3>1, WeightsAssumption
  <2>3. \A j \in 0..(Count - 1) : StartScore[j] = 0
    BY <1>0 DEF StartScore, Zero, Inv, Picked, Impls
  <2>4. score' = row'
    <3>1. PICK r : r = row'
      OBVIOUS
    <3>2. r \in [0..(Count - 1) -> Int] /\ DOMAIN score = 0..(Count - 1)
      BY <1>0, <2>2, <3>1
    <3>3. score' = [j \in 0..(Count - 1) |-> StartScore[j] + r[j]]
      BY <2>1, <3>1, <3>2
    <3>4. \A j \in 0..(Count - 1) : StartScore[j] + r[j] = r[j]
      BY <2>3, <3>2
    <3>5. score' = [j \in 0..(Count - 1) |-> r[j]]
      BY <3>3, <3>4
    <3> QED
      BY <3>1, <3>2, <3>5
  <2>5. impl = "title" => row' = Zero
    <3>1. SUFFICES ASSUME impl = "title" PROVE row' = Zero
      OBVIOUS
    <3>2. nouns = 0
      BY <1>0, <3>1 DEF Inv, Counted
    <3>3. \A j \in 0..(Count - 1) : row'[j] = 0
      BY <2>1, <2>2, <3>2 DEF Rows
    <3> QED
      BY <2>2, <3>3 DEF Zero
  <2>6. Typed'
    BY <1>0, <2>1, <2>2, <2>4 DEF Inv, Typed, Count
  <2>7. Counted'
    BY <1>0, <2>1 DEF Inv, Counted, Count
  <2>8. BestSoFar(score, best, id, i)'
    <3>1. PICK s : s = score'
      OBVIOUS
    <3>2. PICK l : l = id
      OBVIOUS
    <3>3. BestSoFar(s, <<>>, l, 0)'
      BY <2>1, EmptyIsBest, BestStays
    <3> QED
      BY <2>1, <3>1, <3>2, <3>3 DEF BestSoFar, Before
  <2>9. Picked'
    BY <1>0, <2>1, <2>4, <2>5, <2>8 DEF Inv, Picked, Count, Zero
  <2> QED
    BY <2>6, <2>7, <2>9 DEF Inv
<1>2. CASE ~calculated[id + 1]
  <2>1. /\ recommended' = Append(recommended, <<>>) /\ id' = id + 1
        /\ UNCHANGED <<i, phase, score, best, row, impl, meta, idBase, nouns, calculated>>
    BY <1>2
  <2>2. recommended' \in Seq(Seq(Nat)) /\ Len(recommended') = id + 1
    <3>1. <<>> \in Seq(Nat)
      OBVIOUS
    <3> QED
      BY <1>0, <2>1, <3>1, AppendProperties
  <2>3. Typed'
    BY <1>0, <2>1 DEF Inv, Typed, Count
  <2>4. Counted'
    BY <1>0, <2>1 DEF Inv, Counted, Count
  <2>5. Picked'
    BY <1>0, <1>2, <2>1, <2>2 DEF Inv, Picked, Count, Zero
  <2> QED
    BY <2>3, <2>4, <2>5 DEF Inv
<1> QED
  BY <1>1, <1>2

LEMMA PickDocInv == ASSUME Inv, PickDoc PROVE Inv'
<1> USE DEF PickDoc, fetched
<1>0. /\ phase = "pick" /\ i < Count /\ i \in Nat /\ id < Count /\ id \in Nat /\ Count \in Nat
      /\ impl \in Impls /\ score \in [0..(Count - 1) -> Int]
      /\ BestSoFar(score, best, id, i)
      /\ UNCHANGED <<impl, meta, idBase, phase, id, nouns, calculated, score, recommended, row>>
      /\ i' = i + 1
  BY InvFacts DEF Inv, Typed, Picked
<1>1. PICK n \in Nat : n = Count
  BY <1>0
<1>2. PICK s \in [0..(n - 1) -> Int] : s = score
  BY <1>0, <1>1
<1>3. PICK l \in Nat : l = id
  BY <1>0
<1>4. PICK b \in 0..(n - 1) : b = i
  BY <1>0, <1>1
<1>5. PICK list : list = best
  OBVIOUS
<1>6. PICK new : new = best'
  OBVIOUS
<1>7. BestSoFar(s, new, l, b + 1)
  <2>1. BestSoFar(s, list, l, b)
    BY <1>0, <1>2, <1>3, <1>4, <1>5
  <2>2. CASE b = l
    <3>1. new = list
      BY <1>3, <1>4, <1>5, <1>6, <2>2
    <3> QED
      BY <2>1, <2>2, <3>1, SelfIsPassed
  <2>3. CASE b # l
    <3>1. new = Insert(s, list, b)
      BY <1>2, <1>3, <1>4, <1>5, <1>6, <2>3
    <3>2. BestSoFar(s, Insert(s, list, b), l, b + 1)
      BY <1>0, <2>1, <2>3, InsertKeepsBest
    <3> QED
      BY <3>1, <3>2
  <2> QED
    BY <2>2, <2>3
<1>8. BestSoFar(s, new, l, b + 1)'
  BY <1>0, <1>7, BestStays
<1>9. BestSoFar(score, best, id, i)'
  BY <1>0, <1>2, <1>3, <1>4, <1>6, <1>8 DEF BestSoFar, Before
<1>10. Typed'
  BY <1>0 DEF Inv, Typed, Count
<1>11. Counted'
  BY <1>0 DEF Inv, Counted, Count
<1>12. Picked'
  BY <1>0, <1>9 DEF Inv, Picked, Count, Zero
<1> QED
  BY <1>10, <1>11, <1>12 DEF Inv

LEMMA DocPickedInv == ASSUME Inv, DocPicked PROVE Inv'
<1> USE DEF DocPicked, fetched
<1>0. /\ phase = "pick" /\ i = Count /\ id < Count /\ id \in Nat /\ Count \in Nat
      /\ Len(recommended) = id /\ recommended \in Seq(Seq(Nat))
      /\ score = row /\ BestSoFar(score, best, id, i)
      /\ UNCHANGED <<impl, meta, idBase, nouns, calculated, score, row>>
      /\ phase' = "score" /\ id' = id + 1 /\ i' = 0 /\ recommended' = Append(recommended, best)
  BY InvFacts DEF Inv, Typed, Picked
<1>1. best \in Seq(Nat)
  BY <1>0 DEF BestSoFar
<1>2. recommended' \in Seq(Seq(Nat)) /\ Len(recommended') = id + 1 /\ recommended'[id + 1] = best
  BY <1>0, <1>1
<1>3. BestSoFar(row, recommended[id], id - 1, Count)'
  <2>1. PICK s : s = row
    OBVIOUS
  <2>2. PICK l : l = id
    OBVIOUS
  <2>3. PICK n : n = Count
    OBVIOUS
  <2>4. PICK list : list = best
    OBVIOUS
  <2>5. BestSoFar(s, list, l, n)'
    BY <1>0, <2>1, <2>2, <2>3, <2>4, BestStays
  <2>6. row' = s /\ recommended'[id'] = list /\ id' - 1 = l /\ Count' = n
    BY <1>0, <1>2, <2>1, <2>2, <2>3, <2>4 DEF Count
  <2> QED
    BY <2>5, <2>6 DEF BestSoFar, Before
<1>4. Typed'
  BY <1>0 DEF Inv, Typed, Count
<1>5. Counted'
  BY <1>0 DEF Inv, Counted, Count
<1>6. Picked'
  BY <1>0, <1>2, <1>3 DEF Inv, Picked, Count, Zero
<1> QED
  BY <1>4, <1>5, <1>6 DEF Inv

LEMMA ListenInv == ASSUME Inv, Listen PROVE Inv'
<1> USE DEF Listen, fetched
<1>1. Count \in Nat /\ id \in Nat /\ phase = "score"
  BY InvFacts DEF Inv, Typed
<1>2. Typed'
  BY DEF Inv, Typed, Count
<1>3. Counted'
  BY <1>1 DEF Inv, Counted, Count
<1>4. Picked'
  BY <1>1 DEF Inv, Picked, Count, Zero
<1> QED
  BY <1>2, <1>3, <1>4 DEF Inv

LEMMA NextInv == Inv /\ [Next]_vars => Inv'
<1> SUFFICES ASSUME Inv, [Next]_vars PROVE Inv'
  OBVIOUS
<1>1. CASE UNCHANGED vars
  <2>1. Typed'
    BY <1>1 DEF Inv, vars, Typed, Count
  <2>2. Counted'
    BY <1>1 DEF Inv, vars, Counted, Count
  <2>3. Picked'
    BY <1>1 DEF Inv, vars, Picked, Count, Zero, BestSoFar, Before
  <2> QED
    BY <2>1, <2>2, <2>3 DEF Inv
<1> QED
  BY <1>1, FetchMetaInv, MinerFailsInv, CountDocInv, WordsInv, DocsCountedInv,
     ScoreDocInv, PickDocInv, DocPickedInv, ListenInv DEF Next, Startup

\* The inductive invariant holds in every reachable state.
THEOREM InvHolds == Spec => []Inv
BY InitInv, NextInv, PTL DEF Spec

\* The answer about a document is the three others that score best against it,
\* whatever the documents before it scored, and an answer is only about a
\* document with more good than bad replies.
THEOREM AnswersAreTheBest == Spec => []AnswersBestThree
<1>1. Inv => AnswersBestThree
  <2> SUFFICES ASSUME Inv PROVE AnswersBestThree
    OBVIOUS
  <2>0. /\ Count \in Nat /\ Len(calculated) \in Nat /\ Len(recommended) \in Nat
        /\ id \in Nat /\ impl \in Impls /\ row \in [0..(Count - 1) -> Int]
        /\ idBase = Base \/ Count = 0 \/ phase \in {"fetch", "dead"}
        /\ Base \in Int
    BY InvFacts, BoundsAssumption DEF Inv, Typed
  <2>1. ASSUME phase = "score", id > 0, calculated[id]
        PROVE  LET a == GetDocRelInfo(idBase + id - 1)
                   t == Top3(row, id - 1)
               IN Count > 0 /\ idBase = Base /\ a = [k \in DOMAIN t |-> Base + t[k]]
    <3>1. id <= Count /\ Len(recommended) = id /\ BestSoFar(row, recommended[id], id - 1, Count)
      BY <2>1 DEF Inv, Picked
    <3>2. Count > 0 /\ idBase = Base /\ id - 1 \in 0..(Count - 1)
      BY <2>0, <2>1, <3>1
    <3>3. recommended[id] = Top3(row, id - 1)
      BY <2>0, <3>1, <3>2, BestIsTop3
    <3>4. /\ (idBase + id - 1) - idBase = id - 1 /\ 0 <= id - 1 /\ id - 1 < Len(recommended)
          /\ (id - 1) + 1 = id
      BY <2>0, <2>1, <3>1, <3>2
    <3>5. GetDocRelInfo(idBase + id - 1) = [k \in DOMAIN recommended[id] |-> idBase + recommended[id][k]]
      BY <3>4, <2>1 DEF GetDocRelInfo
    <3> QED
      BY <3>2, <3>3, <3>5
  <2>2. ASSUME phase = "serve", NEW d \in (Base - 1)..(Base + Count), GetDocRelInfo(d) # <<>>
        PROVE  d \in Base..(Base + Count - 1) /\ meta[d - Base + 1].positive
    <3>1. 0 <= d - idBase /\ d - idBase < Len(recommended) /\ calculated[(d - idBase) + 1]
      BY <2>2 DEF GetDocRelInfo
    <3>2. Len(recommended) = Count /\ Len(calculated) = Count
      BY <2>2 DEF Inv, Picked, Counted
    <3>3. idBase = Base
      <4>1. CASE Count = 0
        <5>1. idBase \in Int
          BY DEF Inv, Typed
        <5> QED
          BY <4>1, <5>1, <3>1, <3>2
      <4> QED
        BY <4>1, <2>0, <2>2
    <3>4. d - Base + 1 \in 1..Count /\ d \in Base..(Base + Count - 1)
      BY <2>0, <3>1, <3>2, <3>3
    <3>5. calculated[d - Base + 1] = meta[d - Base + 1].positive
      BY <3>2, <3>4 DEF Inv, Counted
    <3> QED
      BY <3>1, <3>3, <3>4, <3>5
  <2> QED
    BY <2>1, <2>2, Zenon DEF AnswersBestThree
<1> QED
  BY <1>1, InvHolds, PTL

\* The title analyst never comes to serve once a document with good replies has a
\* word.  (The other half of OnlyContentServes, that the content analyst does come to
\* serve, is liveness.)
THEOREM TitleWithWordsNeverServes ==
  Spec => [](impl = "title" /\ HasWords => phase # "serve")
<1>1. Inv => (impl = "title" /\ HasWords => phase # "serve")
  <2> SUFFICES ASSUME Inv, impl = "title", phase = "serve", NEW k \in DOMAIN meta,
                      meta[k].positive, meta[k].words > 0
               PROVE  FALSE
    BY DEF HasWords
  <2>1. nouns = 0 /\ Len(calculated) = Count
    BY DEF Inv, Counted
  <2>2. k \in 1..Count
    BY DEF Inv, Typed, Count
  <2>3. meta[k].words = 0
    BY <2>1, <2>2 DEF Inv, Counted
  <2> QED
    BY <2>3
<1> QED
  BY <1>1, InvHolds, PTL
-----------------------------------------------------------------------------
\* What is served, when all lists are made.

\* At most three documents, each once, and none of them document l.
OthersOnce(list, l) ==
  /\ list \in Seq(Nat) /\ Len(list) <= 3
  /\ \A p \in 1..Len(list) : list[p] \in Others(l)
  /\ \A p, q \in 1..Len(list) : p # q => list[p] # list[q]

ListsInv == \A k \in 1..Len(recommended) : OthersOnce(recommended[k], k - 1)

LEMMA EmptyIsOthers == ASSUME NEW l PROVE OthersOnce(<<>>, l)
<1>1. <<>> \in Seq(Nat) /\ Len(<<>>) = 0
  OBVIOUS
<1> QED
  BY <1>1 DEF OthersOnce

\* A list of the best names nothing twice, since nothing is before itself.
LEMMA BestIsOthers ==
  ASSUME Inv, NEW list, NEW l, BestSoFar(score, list, l, Count)
  PROVE  OthersOnce(list, l)
<1>1. \A p \in 1..Len(list) : list[p] \in Others(l) /\ list[p] \in 0..(Count - 1)
  BY DEF BestSoFar, Others
<1>2. \A a \in 0..(Count - 1) : ~Before(score, a, a)
  BY InvFacts, BeforeIsAnOrder DEF Inv, Typed
<1>3. Len(list) \in Nat
  BY DEF BestSoFar
<1>4. ASSUME NEW p \in 1..Len(list), NEW q \in 1..Len(list), p < q PROVE list[p] # list[q]
  BY <1>1, <1>2, <1>4, Zenon DEF BestSoFar
<1>5. ASSUME NEW p \in 1..Len(list), NEW q \in 1..Len(list), p # q PROVE list[p] # list[q]
  <2>1. p < q \/ q < p
    BY <1>3, <1>5
  <2> QED
    BY <2>1, <1>4
<1> QED
  BY <1>1, <1>5 DEF BestSoFar, OthersOnce

\* The lists stay when the list of one more document is put behind them.
LEMMA AppendKeepsLists ==
  ASSUME Inv, ListsInv, meta' = meta, NEW list, OthersOnce(list, Len(recommended)),
         recommended' = Append(recommended, list)
  PROVE  ListsInv'
<1>1. recommended \in Seq(Seq(Nat)) /\ list \in Seq(Nat) /\ Len(recommended) \in Nat
  BY InvFacts DEF Inv, Picked, OthersOnce
<1>2. /\ Len(recommended') = Len(recommended) + 1
      /\ \A k \in 1..Len(recommended) : recommended'[k] = recommended[k]
      /\ recommended'[Len(recommended) + 1] = list
  BY <1>1
<1>3. ASSUME NEW k \in 1..Len(recommended') PROVE OthersOnce(recommended'[k], k - 1)
  <2>1. CASE k \in 1..Len(recommended)
    BY <2>1, <1>2 DEF ListsInv
  <2>2. CASE k = Len(recommended) + 1
    <3>1. k - 1 = Len(recommended)
      BY <1>1, <2>2
    <3> QED
      BY <1>2, <2>2, <3>1
  <2> QED
    BY <1>1, <1>2, <2>1, <2>2
<1>4. Others(0)' = Others(0) /\ Count' = Count
  BY DEF Others, Count
<1> QED
  BY <1>3, <1>4 DEF ListsInv, OthersOnce, Others, Count

LEMMA ListsNext == Inv /\ ListsInv /\ [Next]_vars => ListsInv'
<1> SUFFICES ASSUME Inv, ListsInv, [Next]_vars PROVE ListsInv'
  OBVIOUS
<1>1. CASE UNCHANGED <<meta, recommended>>
  BY <1>1 DEF ListsInv, OthersOnce, Others, Count
<1>2. CASE ScoreDoc
  <2>1. \/ UNCHANGED <<meta, recommended>>
        \/ meta' = meta /\ recommended' = Append(recommended, <<>>)
    BY <1>2 DEF ScoreDoc, fetched
  <2> QED
    BY <1>1, <2>1, EmptyIsOthers, AppendKeepsLists
<1>3. CASE DocPicked
  <2>1. meta' = meta /\ recommended' = Append(recommended, best) /\ phase = "pick" /\ i >= Count
    BY <1>3 DEF DocPicked, fetched
  <2>2. Len(recommended) = id /\ i = Count /\ BestSoFar(score, best, id, i)
    BY <2>1, InvFacts DEF Inv, Typed, Picked
  <2>3. OthersOnce(best, Len(recommended))
    BY <2>2, BestIsOthers
  <2> QED
    BY <2>1, <2>3, AppendKeepsLists
<1>4. UNCHANGED <<meta, recommended>> \/ ScoreDoc \/ DocPicked
  BY DEF Next, Startup, FetchMeta, MinerFails, CountDoc, CountWord, WordsCounted, DocsCounted,
         PickDoc, Listen, fetched, vars
<1> QED
  BY <1>1, <1>2, <1>3, <1>4

\* Whatever query is answered when the server listens, the answer is of at most three
\* documents of the board, none of them twice and none of them the one that was asked
\* about, and the answer is empty if that one has no more good than bad replies
\* (GetDocRelInfo, id_base_, recommended_file_).
THEOREM ServedAreOthers ==
  Spec => [](phase = "serve" =>
               \A d \in Int :
                 LET a == GetDocRelInfo(d)
                 IN /\ Len(a) <= 3
                    /\ \A p \in 1..Len(a) : a[p] \in Base..(Base + Count - 1) \ {d}
                    /\ \A p, q \in 1..Len(a) : p # q => a[p] # a[q])
<1> DEFINE Served == phase = "serve" =>
               \A d \in Int :
                 LET a == GetDocRelInfo(d)
                 IN /\ Len(a) <= 3
                    /\ \A p \in 1..Len(a) : a[p] \in Base..(Base + Count - 1) \ {d}
                    /\ \A p, q \in 1..Len(a) : p # q => a[p] # a[q]
<1>1. Init => ListsInv
  BY DEF Init, ListsInv
<1>2. Inv /\ ListsInv => Served
  <2> SUFFICES ASSUME Inv, ListsInv, phase = "serve", NEW d \in Int
               PROVE  LET a == GetDocRelInfo(d)
                      IN /\ Len(a) <= 3
                         /\ \A p \in 1..Len(a) : a[p] \in Base..(Base + Count - 1) \ {d}
                         /\ \A p, q \in 1..Len(a) : p # q => a[p] # a[q]
    OBVIOUS
  <2>1. /\ Count \in Nat /\ Len(recommended) = Count /\ idBase \in Int /\ Base \in Int
        /\ idBase = Base \/ Count = 0
    BY InvFacts, BoundsAssumption DEF Inv, Typed, Picked
  <2>2. CASE GetDocRelInfo(d) = <<>>
    BY <2>2
  <2>3. CASE GetDocRelInfo(d) # <<>>
    <3> DEFINE l == d - idBase
               list == recommended[l + 1]
    <3>1. /\ 0 <= l /\ l < Count
          /\ GetDocRelInfo(d) = [k \in DOMAIN list |-> idBase + list[k]]
      BY <2>1, <2>3 DEF GetDocRelInfo
    <3>2. idBase = Base /\ l \in Int /\ d = Base + l
      BY <2>1, <3>1
    <3>3. OthersOnce(list, l)
      <4>1. l + 1 \in 1..Len(recommended) /\ (l + 1) - 1 = l
        BY <2>1, <3>1, <3>2
      <4> QED
        BY <4>1 DEF ListsInv
    <3> HIDE DEF l, list
    <3>4. /\ list \in Seq(Nat) /\ Len(list) <= 3 /\ Len(list) \in Nat /\ DOMAIN list = 1..Len(list)
          /\ \A p \in 1..Len(list) : list[p] \in 0..(Count - 1) /\ list[p] # l /\ list[p] \in Int
          /\ \A p, q \in 1..Len(list) : p # q => list[p] # list[q]
      BY <3>3, <2>1 DEF OthersOnce, Others
    <3>5. PICK a : a = GetDocRelInfo(d)
      OBVIOUS
    <3>6. Len(a) = Len(list) /\ \A p \in 1..Len(list) : a[p] = Base + list[p]
      <4>1. a = [k \in 1..Len(list) |-> Base + list[k]]
        BY <3>1, <3>2, <3>4, <3>5
      <4>2. \A k \in 1..Len(list) : Base + list[k] \in Int
        BY <2>1, <3>4
      <4>3. a \in [1..Len(list) -> Int]
        BY <4>1, <4>2
      <4>4. Len(a) = Len(list)
        BY <4>3, <3>4, LenProperties
      <4> QED
        BY <4>1, <4>4
    <3> QED
      BY <2>1, <3>2, <3>4, <3>5, <3>6
  <2> QED
    BY <2>2, <2>3
<1> HIDE DEF Served
<1>3. Spec => []Served
  BY <1>1, <1>2, ListsNext, InvHolds, PTL DEF Spec
<1> QED
  BY <1>3 DEF Served

=============================================================================
