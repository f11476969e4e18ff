-------------------------- MODULE FirstMinerProofs --------------------------
(***************************************************************************)
(* What the first generation miner serves, for any number of articles, of  *)
(* pages and of crawls, whatever is skipped, fails or is killed.           *)
(***************************************************************************)
EXTENDS FirstMiner, SequenceTheorems, WellFoundedInduction, TLAPS

FieldNames == {"author", "board", "title", "time"}
Names == FieldNames \cup {"name"}
Metas == [Names -> Nat \cup {Unbound}]
Entries == [id : Nat, has : 0..4, crawl : Nat, meta : [Names -> Nat]]
Directories == {"board", "fetch"}
ArticleFiles == [dir : Directories, name : Nat, crawl : Nat, whole : BOOLEAN]

TypeOK ==
  /\ relative \in BOOLEAN /\ titles \in [1..MaxRows -> Themes]
  /\ phase \in {"down", "crawl", "row", "build", "serve"}
  /\ crawl \in Nat /\ page \in Nat /\ row \in Nat /\ nextId \in Nat
  /\ cwd \in Directories /\ post \in Nat \cup {Unbound} /\ meta \in Metas
  /\ arr \in Seq(Entries) /\ data \in Seq(Entries) /\ files \subseteq ArticleFiles
  /\ metaFile # Unbound => metaFile \in Seq(Entries)

\* The file that the crawl of an entry wrote for it in the directory of the board.
Own(e) == [dir |-> "board", name |-> e.meta.name, crawl |-> e.crawl, whole |-> TRUE]

\* The fields the page of an entry has are its own, the others are older.
OwnFields(e) ==
  \A j \in 1..4 : IF j <= e.has THEN e.meta[Fields[j]] = e.meta.name
                  ELSE e.meta[Fields[j]] < e.meta.name

\* A list of entries as one crawl makes it.
ListInv(s) ==
  /\ \A k \in 1..Len(s) :
       /\ s[k].id = k /\ s[k].crawl = s[1].crawl /\ OwnFields(s[k])
       /\ Own(s[k]) \in files <=> (relative \/ k = 1)
  /\ \A j, k \in 1..Len(s) : j < k => s[j].meta.name < s[k].meta.name

\* What a crawl has read and written belongs to the rows it has looked at.
CrawlInv ==
  phase \in {"crawl", "row"} =>
    /\ metaFile = Unbound /\ nextId = Len(arr) + 1 /\ ListInv(arr)
    /\ \A k \in 1..Len(arr) : arr[k].crawl = crawl /\ arr[k].meta.name <= row
    /\ \A f \in Names : meta[f] # Unbound => meta[f] <= row
    /\ \A f \in files : f.crawl = crawl => f.name <= row
    /\ cwd = "board" <=> (relative \/ arr = <<>>)

\* A directory has one file of a name, and no file is from a later crawl.
FilesInv ==
  /\ \A f \in files : f.crawl <= crawl
  /\ \A f, g \in files : f.dir = g.dir /\ f.name = g.name => f = g

ServedInv ==
  /\ metaFile # Unbound => ListInv(metaFile)
  /\ phase = "serve" => metaFile # Unbound /\ data = metaFile

Inv == TypeOK /\ CrawlInv /\ FilesInv /\ ServedInv

-----------------------------------------------------------------------------
\* The fields of a header.

LEMMA FieldsAre == /\ Fields \in Seq(FieldNames) /\ Len(Fields) = 4
                   /\ \A k \in 1..4 : Fields[k] \in FieldNames
                   /\ \A k, l \in 1..4 : Fields[k] = Fields[l] => k = l
                   /\ \A f \in FieldNames : \E k \in 1..4 : Fields[k] = f
<1>1. Len(Fields) = 4 /\ Fields[1] = "author" /\ Fields[2] = "board" /\ Fields[3] = "title" /\ Fields[4] = "time"
  BY DEF Fields
<1>2. \A k \in 1..4 : k = 1 \/ k = 2 \/ k = 3 \/ k = 4
  OBVIOUS
<1>3. Fields \in Seq(FieldNames)
  BY DEF Fields, FieldNames
<1>4. \A k \in 1..4 : Fields[k] \in FieldNames
  BY <1>1, <1>2 DEF FieldNames
<1>5. \A k, l \in 1..4 : Fields[k] = Fields[l] => k = l
  BY <1>1, <1>2
<1>6. \A f \in FieldNames : \E k \in 1..4 : Fields[k] = f
  BY <1>1 DEF FieldNames
<1> QED
  BY <1>1, <1>3, <1>4, <1>5, <1>6

\* The first n fields are those with a position up to n.
LEMMA FirstFields ==
  ASSUME NEW n \in 0..4, NEW j \in 1..4
  PROVE  Fields[j] \in ToSet(SubSeq(Fields, 1, n)) <=> j <= n
<1>1. SubSeq(Fields, 1, n) = [k \in 1..n |-> Fields[k]]
  <2>1. PICK s \in Seq(FieldNames) : s = Fields /\ Len(s) = 4
    BY FieldsAre
  <2>2. SubSeq(s, 1, n) = [k \in 1..n |-> s[k]]
    BY <2>1
  <2> QED
    BY <2>1, <2>2
<1>2. DOMAIN SubSeq(Fields, 1, n) = 1..n /\ \A k \in 1..n : SubSeq(Fields, 1, n)[k] = Fields[k] /\ k \in 1..4
  BY <1>1
<1>3. ToSet(SubSeq(Fields, 1, n)) = {Fields[k] : k \in 1..n}
  BY <1>2 DEF ToSet
<1> QED
  BY <1>2, <1>3, FieldsAre

LEMMA MetaDomain == ToSet(Fields) \cup {"name"} = Names
<1>1. DOMAIN Fields = 1..4
  BY FieldsAre, LenProperties
<1>2. ToSet(Fields) = FieldNames
  BY <1>1, FieldsAre DEF ToSet
<1> QED
  BY <1>2 DEF Names

LEMMA UnreadTyped == Unread \in Metas /\ \A f \in Names : Unread[f] = Unbound
  BY MetaDomain DEF Unread, Metas

\* What is known of the fields after the first n have been read.
LEMMA ReadFacts ==
  ASSUME TypeOK, NEW n \in 0..4, Read(n), row' \in Nat
  PROVE  /\ meta' \in Metas /\ meta'["name"] = row'
         /\ \A j \in 1..4 : meta'[Fields[j]] = IF j <= n THEN row' ELSE meta[Fields[j]]
         /\ \A f \in Names : meta'[f] = row' \/ meta'[f] = meta[f]
<1>1. DOMAIN meta = Names /\ \A f \in Names : meta[f] \in Nat \cup {Unbound}
  BY DEF TypeOK, Metas
<1>2. meta' = [f \in Names |->
                 IF f = "name" \/ f \in ToSet(SubSeq(Fields, 1, n)) THEN row' ELSE meta[f]]
  BY <1>1 DEF Read
<1>3. meta' \in Metas /\ \A f \in Names : meta'[f] = row' \/ meta'[f] = meta[f]
  BY <1>1, <1>2 DEF Metas
<1>4. "name" \in Names /\ \A j \in 1..4 : Fields[j] \in Names /\ Fields[j] # "name"
  BY FieldsAre DEF Names, FieldNames
<1>5. ASSUME NEW j \in 1..4
      PROVE  meta'[Fields[j]] = IF j <= n THEN row' ELSE meta[Fields[j]]
  <2>1. Fields[j] \in ToSet(SubSeq(Fields, 1, n)) <=> j <= n
    BY FirstFields
  <2>2. PICK f \in Names : f = Fields[j] /\ f # "name"
    BY <1>4
  <2> QED
    BY <1>2, <2>1, <2>2
<1> QED
  BY <1>2, <1>3, <1>4, <1>5

-----------------------------------------------------------------------------
\* The files.

LEMMA InitInv == Init => Inv
<1> SUFFICES ASSUME Init PROVE Inv
  OBVIOUS
<1>1. TypeOK
  BY UnreadTyped DEF Init, TypeOK, Directories
<1>2. CrawlInv /\ FilesInv /\ ServedInv
  BY DEF Init, CrawlInv, FilesInv, ServedInv
<1> QED
  BY <1>1, <1>2 DEF Inv

\* open() replaces the file of this name in the working directory only.
LEMMA WriteFileFacts ==
  ASSUME TypeOK, FilesInv, NEW w \in BOOLEAN, WriteFile(w), row' = row + 1,
         \A f \in files : f.crawl = crawl => f.name <= row
  PROVE  /\ files' \subseteq ArticleFiles
         /\ \A f \in files' : f.crawl <= crawl
         /\ \A f \in files' : f.crawl = crawl => f.name <= row'
         /\ \A f, g \in files' : f.dir = g.dir /\ f.name = g.name => f = g
         /\ \A g : g.name # row' => (g \in files' <=> g \in files)
         /\ \A g : g.name = row' /\ g.crawl = crawl =>
              (g \in files' <=> g = [dir |-> cwd, name |-> row', crawl |-> crawl, whole |-> w])
<1>1. PICK h : h = [dir |-> cwd, name |-> row', crawl |-> crawl, whole |-> w]
  OBVIOUS
<1>2. /\ h \in ArticleFiles /\ h.name = row' /\ h.crawl = crawl /\ h.dir = cwd
      /\ crawl \in Nat /\ row \in Nat /\ row' \in Nat /\ row < row'
  BY <1>1 DEF TypeOK, ArticleFiles
<1>3. \A g : g \in files' <=> (g \in files /\ (g.dir # cwd \/ g.name # row')) \/ g = h
  BY <1>1 DEF WriteFile
<1>4. \A f \in files : f \in ArticleFiles /\ f.name \in Nat /\ f.crawl \in Nat /\ f.crawl <= crawl
  BY DEF TypeOK, FilesInv, ArticleFiles
<1>5. files' \subseteq ArticleFiles /\ \A f \in files' : f.crawl <= crawl
  BY <1>2, <1>3, <1>4
<1>6. ASSUME NEW f \in files', f.crawl = crawl PROVE f.name <= row'
  BY <1>2, <1>3, <1>4, <1>6
<1>7. \A f, g \in files' : f.dir = g.dir /\ f.name = g.name => f = g
  BY <1>2, <1>3 DEF FilesInv
<1>8. \A g : g.name # row' => (g \in files' <=> g \in files)
  BY <1>2, <1>3
<1>9. ASSUME NEW g, g.name = row', g.crawl = crawl
      PROVE  g \in files' <=> g = h
  <2>1. ~ (row' <= row)
    BY <1>2
  <2>2. g \notin files
    BY <1>9, <2>1
  <2> QED
    BY <1>3, <2>2
<1> QED
  BY <1>1, <1>5, <1>6, <1>7, <1>8, <1>9

\* A list keeps what is known of it as long as the files of its entries stay.
LEMMA ListStays ==
  ASSUME NEW s, ListInv(s), relative' = relative,
         \A k \in 1..Len(s) : Own(s[k]) \in files' <=> Own(s[k]) \in files
  PROVE  ListInv(s)'
BY DEF ListInv, OwnFields, Own

\* A row that makes no entry.
LEMMA NoEntryStep ==
  ASSUME Inv, phase = "row", row' = row + 1, UNCHANGED <<site, metaFile, crawl, cwd, nextId, arr, data, page>>,
         phase' \in {"down", "row"}, post' \in Nat \cup {Unbound},
         meta' \in Metas, \A f \in Names : meta'[f] = row' \/ meta'[f] = meta[f],
         files' = files \/ \E w \in BOOLEAN : WriteFile(w)
  PROVE  Inv'
<1>1. /\ row \in Nat /\ row' \in Nat /\ row <= row' /\ metaFile = Unbound
      /\ \A f \in files : f.crawl = crawl => f.name <= row
      /\ TypeOK /\ CrawlInv /\ FilesInv /\ ListInv(arr) /\ relative' = relative
  BY DEF Inv, TypeOK, CrawlInv, site
<1>2. /\ files' \subseteq ArticleFiles
      /\ \A f \in files' : f.crawl <= crawl
      /\ \A f \in files' : f.crawl = crawl => f.name <= row'
      /\ \A f, g \in files' : f.dir = g.dir /\ f.name = g.name => f = g
      /\ \A g : g.name # row' => (g \in files' <=> g \in files)
  <2>1. CASE files' = files
    <3>1. ASSUME NEW f \in files, f.crawl = crawl PROVE f.name <= row'
      <4>1. f.name \in Nat
        BY <1>1 DEF TypeOK, ArticleFiles
      <4> QED
        BY <1>1, <3>1, <4>1
    <3> QED
      BY <1>1, <2>1, <3>1 DEF TypeOK, FilesInv
  <2> QED
    BY <1>1, <2>1, WriteFileFacts
<1>3. PICK s : s = arr /\ s \in Seq(Entries)
  BY <1>1 DEF TypeOK
<1>4. ListInv(s)'
  <2>1. ASSUME NEW k \in 1..Len(s) PROVE Own(s[k]) \in files' <=> Own(s[k]) \in files
    <3>1. s[k] \in Entries /\ s[k].meta.name <= row
      BY <1>1, <1>3 DEF Inv, CrawlInv
    <3>2. Own(s[k]).name = s[k].meta.name /\ s[k].meta.name \in Nat
      BY <3>1 DEF Own, Entries, Names
    <3>3. Own(s[k]).name # row'
      BY <1>1, <3>1, <3>2
    <3> QED
      BY <1>2, <3>3
  <2> QED
    BY <1>1, <1>3, <2>1, ListStays
<1>5. ListInv(arr)'
  BY <1>3, <1>4 DEF ListInv, OwnFields, Own
<1>6. TypeOK'
  BY <1>1, <1>2 DEF TypeOK, site
<1>7. CrawlInv'
  <2>1. metaFile' = Unbound /\ nextId' = Len(arr') + 1 /\ (cwd' = "board" <=> relative' \/ arr' = <<>>)
    BY <1>1 DEF CrawlInv
  <2>2. ASSUME NEW k \in 1..Len(arr) PROVE arr[k].crawl = crawl /\ arr[k].meta.name <= row'
    <3>1. arr[k] \in Entries /\ arr[k].crawl = crawl /\ arr[k].meta.name <= row
      BY <1>1 DEF TypeOK, CrawlInv
    <3>2. arr[k].meta.name \in Nat
      BY <3>1 DEF Entries, Names
    <3> QED
      BY <1>1, <3>1, <3>2
  <2>3. ASSUME NEW f \in Names, meta'[f] # Unbound PROVE meta'[f] <= row'
    <3>1. CASE meta'[f] = row'
      BY <1>1, <3>1
    <3>2. CASE meta'[f] = meta[f]
      <4>1. meta[f] \in Nat /\ meta[f] <= row
        BY <1>1, <2>3, <3>2 DEF TypeOK, Metas, CrawlInv
      <4> QED
        BY <1>1, <3>2, <4>1
    <3> QED
      BY <3>1, <3>2
  <2> QED
    BY <1>2, <1>5, <2>1, <2>2, <2>3 DEF CrawlInv
<1>8. FilesInv' /\ ServedInv'
  BY <1>1, <1>2 DEF FilesInv, ServedInv
<1> QED
  BY <1>6, <1>7, <1>8 DEF Inv

LEMMA RowInv ==
  ASSUME Inv, RowBroken \/ PostFails \/ PostUnwritten \/ PostUnread
  PROVE  Inv'
<1>1. /\ phase = "row" /\ row' = row + 1 /\ row' \in Nat /\ meta \in Metas
      /\ post \in Nat \cup {Unbound} /\ files \subseteq ArticleFiles
  <2>1. phase = "row" /\ row' = row + 1
    <3>1. NextRow
      BY DEF RowBroken, PostFails, PostUnwritten, PostUnread
    <3> QED
      BY <3>1 DEF NextRow
  <2>2. row \in Nat /\ meta \in Metas /\ post \in Nat \cup {Unbound} /\ files \subseteq ArticleFiles
    BY DEF Inv, TypeOK
  <2> QED
    BY <2>1, <2>2
<1>2. CASE RowBroken
  BY <1>1, <1>2, NoEntryStep DEF RowBroken, disk
<1>3. CASE PostFails
  BY <1>1, <1>3, NoEntryStep DEF PostFails, disk
<1>4. CASE PostUnwritten
  <2>1. /\ post' = row' /\ WriteFile(FALSE) /\ phase' \in {"down", "row"}
        /\ UNCHANGED <<site, metaFile, crawl, page, cwd, nextId, meta, arr, data>>
    BY <1>1, <1>4 DEF PostUnwritten
  <2> QED
    BY <1>1, <2>1, NoEntryStep
<1>5. CASE PostUnread
  <2>1. /\ post' = row' /\ WriteFile(TRUE)
        /\ UNCHANGED <<site, phase, metaFile, crawl, page, cwd, nextId, arr, data>>
    BY <1>5 DEF PostUnread
  <2>2. PICK n \in 0..4 : Read(n)
    BY <1>5 DEF PostUnread
  <2>3. meta' \in Metas /\ \A f \in Names : meta'[f] = row' \/ meta'[f] = meta[f]
    BY <1>1, <2>2, ReadFacts DEF Inv
  <2> QED
    BY <1>1, <2>1, <2>3, NoEntryStep
<1> QED
  BY <1>2, <1>3, <1>4, <1>5

\* An article that was read makes the next entry: its own file is where the first
\* one of a crawl is, or all of them are when the path is relative.
LEMMA PostReadInv ==
  ASSUME Inv, NEW n \in 0..4, PostRead(n)
  PROVE  Inv'
<1>1. /\ row \in Nat /\ row' \in Nat /\ row < row' /\ metaFile = Unbound /\ row' = row + 1
      /\ \A f \in files : f.crawl = crawl => f.name <= row
      /\ TypeOK /\ CrawlInv /\ FilesInv /\ ListInv(arr) /\ phase = "row"
      /\ nextId = Len(arr) + 1 /\ crawl \in Nat /\ arr \in Seq(Entries)
      /\ (cwd = "board") <=> (relative \/ arr = <<>>)
  BY DEF PostRead, NextRow, Inv, TypeOK, CrawlInv
<1>2. /\ WriteFile(TRUE) /\ Read(n) /\ post' = row' /\ AppendEntry(n)
      /\ cwd' = (IF relative THEN cwd ELSE "fetch")
      /\ UNCHANGED <<relative, titles, metaFile, crawl, page, data>>
  BY DEF PostRead, site
<1>3. /\ meta' \in Metas /\ meta'["name"] = row'
      /\ \A j \in 1..4 : meta'[Fields[j]] = IF j <= n THEN row' ELSE meta[Fields[j]]
      /\ \A f \in Names : meta'[f] = row' \/ meta'[f] = meta[f]
  BY <1>1, <1>2, ReadFacts
<1>4. /\ files' \subseteq ArticleFiles
      /\ \A f \in files' : f.crawl <= crawl
      /\ \A f \in files' : f.crawl = crawl => f.name <= row'
      /\ \A f, g \in files' : f.dir = g.dir /\ f.name = g.name => f = g
      /\ \A g : g.name # row' => (g \in files' <=> g \in files)
      /\ \A g : g.name = row' /\ g.crawl = crawl =>
           (g \in files' <=> g = [dir |-> cwd, name |-> row', crawl |-> crawl, whole |-> TRUE])
  BY <1>1, <1>2, WriteFileFacts
<1>5. cwd' \in Directories
  BY <1>1, <1>2 DEF TypeOK, Directories
<1>6. FilesInv' /\ (ServedInv' \/ phase' = "serve")
  BY <1>1, <1>2, <1>4 DEF FilesInv, ServedInv
<1>7. CASE \E f \in DOMAIN meta : meta'[f] = Unbound
  <2>1. phase' = "down" /\ UNCHANGED <<nextId, arr>>
    BY <1>2, <1>7 DEF AppendEntry
  <2>2. TypeOK'
    BY <1>1, <1>2, <1>3, <1>4, <1>5, <2>1 DEF TypeOK
  <2> QED
    BY <1>6, <2>1, <2>2 DEF Inv, CrawlInv
<1>8. CASE ~ \E f \in DOMAIN meta : meta'[f] = Unbound
  <2>1. PICK e : e = [id |-> nextId, has |-> n, crawl |-> crawl, meta |-> meta']
    OBVIOUS
  <2>2. arr' = Append(arr, e) /\ nextId' = nextId + 1 /\ phase' = "row"
    BY <1>1, <1>2, <1>8, <2>1 DEF AppendEntry
  <2>3. \A f \in Names : meta'[f] \in Nat /\ meta'[f] <= row'
    <3> SUFFICES ASSUME NEW f \in Names PROVE meta'[f] \in Nat /\ meta'[f] <= row'
      OBVIOUS
    <3>1. meta'[f] \in Nat
      <4>1. DOMAIN meta = Names
        BY <1>1 DEF TypeOK, Metas
      <4> QED
        BY <1>3, <1>8, <4>1 DEF Metas
    <3>2. CASE meta'[f] = row'
      BY <1>1, <3>2
    <3>3. CASE meta'[f] = meta[f]
      <4>1. meta[f] <= row
        BY <1>1, <3>1, <3>3, UnboundAssumption DEF CrawlInv
      <4> QED
        BY <1>1, <3>1, <3>3, <4>1
    <3> QED
      BY <1>3, <3>2, <3>3
  <2>4. /\ e \in Entries /\ e.id = nextId /\ e.has = n /\ e.crawl = crawl /\ e.meta = meta'
        /\ e.meta.name = row'
    <3>1. meta' \in [Names -> Nat]
      BY <1>3, <2>3 DEF Metas
    <3>2. nextId \in Nat
      BY <1>1 DEF TypeOK
    <3> QED
      BY <1>1, <1>3, <2>1, <3>1, <3>2 DEF Entries
  <2>5. OwnFields(e)
    <3> SUFFICES ASSUME NEW j \in 1..4
                 PROVE  IF j <= e.has THEN e.meta[Fields[j]] = e.meta.name
                        ELSE e.meta[Fields[j]] < e.meta.name
      BY DEF OwnFields
    <3>1. CASE j <= n
      BY <1>3, <2>4, <3>1
    <3>2. CASE ~ (j <= n)
      <4>1. PICK f \in Names : f = Fields[j]
        BY FieldsAre DEF Names
      <4>2. meta'[f] = meta[f] /\ meta'[f] \in Nat
        BY <1>3, <2>3, <3>2, <4>1
      <4>3. meta[f] <= row
        BY <1>1, <4>2, UnboundAssumption DEF CrawlInv
      <4> QED
        BY <1>1, <2>4, <3>2, <4>1, <4>2, <4>3
    <3> QED
      BY <3>1, <3>2
  <2>6. Own(e) \in files' <=> (relative \/ Len(arr) = 0)
    <3>1. PICK g : g = Own(e)
      OBVIOUS
    <3>2. g = [dir |-> "board", name |-> row', crawl |-> crawl, whole |-> TRUE]
      BY <2>4, <3>1 DEF Own
    <3>3. g.name = row' /\ g.crawl = crawl
      BY <3>2
    <3>4. g \in files' <=> cwd = "board"
      <4>1. g \in files' <=> g = [dir |-> cwd, name |-> row', crawl |-> crawl, whole |-> TRUE]
        BY <1>4, <3>3
      <4> QED
        BY <3>2, <4>1
    <3>5. arr = <<>> <=> Len(arr) = 0
      BY <1>1, EmptySeq
    <3> QED
      BY <1>1, <3>1, <3>4, <3>5
  <2>7. /\ arr' \in Seq(Entries) /\ Len(arr') = Len(arr) + 1 /\ Len(arr) \in Nat
        /\ arr'[Len(arr) + 1] = e /\ \A k \in 1..Len(arr) : arr'[k] = arr[k]
    BY <1>1, <2>2, <2>4, AppendProperties, LenProperties
  <2>8. ASSUME NEW k \in 1..Len(arr)
        PROVE  /\ arr[k] \in Entries /\ arr[k].id = k /\ arr[k].crawl = crawl /\ OwnFields(arr[k])
               /\ arr[k].meta.name \in Nat /\ arr[k].meta.name <= row
               /\ Own(arr[k]) \in files' <=> (relative \/ k = 1)
    <3>1. arr[k] \in Entries /\ arr[k].crawl = crawl /\ arr[k].meta.name <= row
      BY <1>1 DEF CrawlInv
    <3>2. arr[k].meta.name \in Nat /\ Own(arr[k]).name = arr[k].meta.name
      BY <3>1 DEF Own, Entries, Names
    <3>3. Own(arr[k]).name # row'
      BY <1>1, <3>1, <3>2
    <3>4. Own(arr[k]) \in files' <=> Own(arr[k]) \in files
      BY <1>4, <3>3
    <3>5. /\ arr[k].id = k /\ OwnFields(arr[k])
          /\ Own(arr[k]) \in files <=> (relative \/ k = 1)
      BY <1>1 DEF ListInv
    <3> QED
      BY <3>1, <3>2, <3>4, <3>5
  <2>9. ASSUME NEW k \in 1..Len(arr')
        PROVE  /\ arr'[k].id = k /\ arr'[k].crawl = crawl /\ OwnFields(arr'[k])
               /\ arr'[k].meta.name <= row'
               /\ Own(arr'[k]) \in files' <=> (relative \/ k = 1)
    <3>1. CASE k = Len(arr) + 1
      <4>1. arr'[k] = e /\ k = nextId /\ (Len(arr) = 0 <=> k = 1)
        BY <1>1, <2>7, <3>1
      <4> QED
        BY <1>1, <2>4, <2>5, <2>6, <4>1
    <3>2. CASE k # Len(arr) + 1
      <4>1. k \in 1..Len(arr) /\ arr'[k] = arr[k]
        BY <2>7, <3>2
      <4>2. arr[k].meta.name <= row'
        BY <1>1, <2>8, <4>1
      <4> QED
        BY <2>8, <4>1, <4>2
    <3> QED
      BY <3>1, <3>2
  <2>10. ASSUME NEW j \in 1..Len(arr'), NEW k \in 1..Len(arr'), j < k
         PROVE  arr'[j].meta.name < arr'[k].meta.name
    <3>1. j \in 1..Len(arr) /\ arr'[j] = arr[j]
      BY <2>7, <2>10
    <3>2. CASE k = Len(arr) + 1
      BY <1>1, <2>4, <2>7, <2>8, <3>1, <3>2
    <3>3. CASE k # Len(arr) + 1
      <4>1. k \in 1..Len(arr) /\ arr'[k] = arr[k]
        BY <2>7, <3>3
      <4> QED
        BY <1>1, <2>10, <3>1, <4>1 DEF ListInv
    <3> QED
      BY <3>2, <3>3
  <2>11. ListInv(arr)'
    <3>1. 1 \in 1..Len(arr')
      BY <2>7
    <3>2. PICK s : s = arr'
      OBVIOUS
    <3>3. relative' = relative
      BY <1>2
    <3> QED
      BY <2>9, <2>10, <3>1, <3>3 DEF ListInv, OwnFields, Own
  <2>12. cwd' = "board" <=> (relative' \/ arr' = <<>>)
    <3>1. arr' # <<>>
      BY <2>7
    <3> QED
      BY <1>1, <1>2, <3>1
  <2>13. TypeOK'
    <3>1. nextId' \in Nat
      BY <1>1, <2>2 DEF TypeOK
    <3> QED
      BY <1>1, <1>2, <1>3, <1>4, <1>5, <2>2, <2>7, <3>1 DEF TypeOK
  <2>14. CrawlInv'
    <3>1. metaFile' = Unbound /\ nextId' = Len(arr') + 1
      BY <1>1, <1>2, <2>2, <2>7
    <3>2. \A k \in 1..Len(arr') : arr'[k].crawl = crawl' /\ arr'[k].meta.name <= row'
      BY <1>2, <2>9
    <3>3. \A f \in files' : f.crawl = crawl' => f.name <= row'
      BY <1>2, <1>4
    <3> QED
      BY <2>3, <2>11, <2>12, <3>1, <3>2, <3>3 DEF CrawlInv
  <2> QED
    BY <1>6, <2>2, <2>13, <2>14 DEF Inv
<1> QED
  BY <1>7, <1>8

-----------------------------------------------------------------------------
\* The steps that look at no row.

LEMMA StartInv ==
  ASSUME Inv, StartMining
  PROVE  Inv'
<1>1. /\ crawl' = crawl + 1 /\ crawl \in Nat /\ phase' = "crawl" /\ metaFile' = Unbound
      /\ page' = 1 /\ row' = 0 /\ cwd' = "board" /\ post' = Unbound /\ nextId' = 1
      /\ meta' = Unread /\ arr' = <<>> /\ UNCHANGED <<relative, titles, files, data>>
      /\ TypeOK /\ FilesInv
  BY DEF StartMining, FreshLocals, site, Inv, TypeOK
<1>2. TypeOK'
  BY <1>1, UnreadTyped DEF TypeOK, Directories
<1>3. ASSUME NEW f \in files PROVE f.crawl <= crawl' /\ f.crawl # crawl'
  <2>1. f.crawl \in Nat /\ f.crawl <= crawl
    BY <1>1 DEF TypeOK, FilesInv, ArticleFiles
  <2> QED
    BY <1>1, <2>1
<1>4. Len(arr') = 0
  BY <1>1
<1>5. ListInv(arr)'
  BY <1>4 DEF ListInv
<1>6. CrawlInv'
  BY <1>1, <1>3, <1>4, <1>5, UnreadTyped DEF CrawlInv
<1>7. FilesInv' /\ ServedInv'
  BY <1>1, <1>3 DEF FilesInv, ServedInv
<1> QED
  BY <1>2, <1>6, <1>7 DEF Inv

LEMMA PageInv ==
  ASSUME Inv, ReadPage \/ PageDone
  PROVE  Inv'
<1>1. /\ phase \in {"crawl", "row"} /\ phase' \in {"crawl", "row"} /\ page' \in Nat
      /\ UNCHANGED <<relative, titles, metaFile, files, crawl, row, cwd, post, nextId, meta, arr, data>>
  BY DEF ReadPage, PageDone, site, disk, Inv, TypeOK
<1>2. TypeOK'
  BY <1>1 DEF Inv, TypeOK
<1>3. ListInv(arr)'
  BY <1>1 DEF Inv, CrawlInv, ListInv, OwnFields, Own
<1>4. CrawlInv'
  BY <1>1, <1>3 DEF Inv, CrawlInv
<1>5. FilesInv' /\ ServedInv'
  BY <1>1 DEF Inv, CrawlInv, FilesInv, ServedInv
<1> QED
  BY <1>2, <1>4, <1>5 DEF Inv

LEMMA CrawlDoneInv ==
  ASSUME Inv, CrawlDone
  PROVE  Inv'
<1>1. /\ phase = "crawl" /\ phase' = "build" /\ metaFile' = arr /\ ListInv(arr)
      /\ UNCHANGED <<relative, titles, files, crawl, page, row, cwd, post, nextId, meta, arr, data>>
  BY DEF CrawlDone, site, locals, Inv, CrawlInv
<1>2. TypeOK'
  BY <1>1 DEF Inv, TypeOK
<1>3. ListInv(metaFile)'
  BY <1>1 DEF ListInv, OwnFields, Own
<1>4. CrawlInv' /\ FilesInv' /\ ServedInv'
  BY <1>1, <1>3 DEF Inv, CrawlInv, FilesInv, ServedInv
<1> QED
  BY <1>2, <1>4 DEF Inv

\* Starting without a crawl, building the data and being killed.
LEMMA ServeInv ==
  ASSUME Inv, StartOnly \/ Build \/ Kill
  PROVE  Inv'
<1>1. /\ phase' \in {"down", "build", "serve"} /\ data' \in Seq(Entries)
      /\ phase' = "serve" => metaFile # Unbound /\ data' = metaFile
      /\ UNCHANGED <<relative, titles, metaFile, files, crawl, page, row, cwd, post, nextId, meta, arr>>
  <2>1. CASE StartOnly
    BY <2>1 DEF StartOnly, site, disk, locals, Inv, TypeOK
  <2>2. CASE Build
    BY <2>2 DEF Build, site, disk, locals, Inv, TypeOK
  <2>3. CASE Kill
    BY <2>3 DEF Kill, site, disk, locals, Inv, TypeOK
  <2> QED
    BY <2>1, <2>2, <2>3
<1>2. TypeOK'
  BY <1>1 DEF Inv, TypeOK
<1>3. metaFile' # Unbound => ListInv(metaFile)'
  BY <1>1 DEF Inv, ServedInv, ListInv, OwnFields, Own
<1>4. CrawlInv' /\ FilesInv' /\ ServedInv'
  BY <1>1, <1>3 DEF Inv, CrawlInv, FilesInv, ServedInv
<1> QED
  BY <1>2, <1>4 DEF Inv

LEMMA NextInv == Inv /\ [Next]_vars => Inv'
<1> SUFFICES ASSUME Inv, [Next]_vars PROVE Inv'
  OBVIOUS
<1>1. CASE StartMining
  BY <1>1, StartInv
<1>2. CASE ReadPage \/ PageDone
  BY <1>2, PageInv
<1>3. CASE CrawlDone
  BY <1>3, CrawlDoneInv
<1>4. CASE RowBroken \/ PostFails \/ PostUnwritten \/ PostUnread
  BY <1>4, RowInv
<1>5. CASE \E n \in 0..Len(Fields) : PostRead(n)
  BY <1>5, PostReadInv, FieldsAre
<1>6. CASE StartOnly \/ Build \/ Kill
  BY <1>6, ServeInv
<1>7. CASE UNCHANGED vars
  <2>1. UNCHANGED <<relative, titles, phase, metaFile, files, crawl, page, row, cwd, post, nextId, meta, arr, data>>
    BY <1>7 DEF vars
  <2>2. TypeOK'
    BY <2>1 DEF Inv, TypeOK
  <2>3. (ListInv(arr)' <=> ListInv(arr)) /\ (ListInv(metaFile)' <=> ListInv(metaFile))
    BY <2>1 DEF ListInv, OwnFields, Own
  <2>4. CrawlInv' /\ FilesInv' /\ ServedInv'
    BY <2>1, <2>3 DEF Inv, CrawlInv, FilesInv, ServedInv
  <2> QED
    BY <2>2, <2>4 DEF Inv
<1> QED
  BY <1>1, <1>2, <1>3, <1>4, <1>5, <1>6, <1>7 DEF Next

-----------------------------------------------------------------------------
\* The theorems.

\* Whatever a crawl skips, fails at or is killed in, its entries count from one
\* without gaps, each with its own name and later than the one before; nothing
\* but that crawl has written their files (mining.py:287).
THEOREM InvHolds == Spec => []Inv
<1> QED
  BY InitInv, NextInv, PTL DEF Spec

\* The names of files, fields and entries stay what they are taken for.
THEOREM TypeCorrect == Spec => []TypeOK
<1>1. Inv => TypeOK
  BY DEF Inv
<1> QED
  BY <1>1, InvHolds, PTL

\* What is served of an article is from its own page, or left over from an
\* earlier article of the same crawl (mining.py:287).
THEOREM FieldsOfItsPageHolds == Spec => []FieldsOfItsPage
<1>1. ASSUME Inv PROVE FieldsOfItsPage
  <2> SUFFICES ASSUME phase = "serve", NEW k \in DOMAIN data
               PROVE  /\ data[k].crawl = data[1].crawl
                      /\ \A j \in DOMAIN Fields :
                           IF j <= data[k].has THEN data[k].meta[Fields[j]] = data[k].meta.name
                           ELSE data[k].meta[Fields[j]] < data[k].meta.name
    BY DEF FieldsOfItsPage
  <2>1. ListInv(data) /\ k \in 1..Len(data) /\ DOMAIN Fields = 1..4
    BY <1>1, FieldsAre DEF Inv, ServedInv, TypeOK
  <2> QED
    BY <2>1 DEF ListInv, OwnFields
<1> QED
  BY <1>1, InvHolds, PTL

-----------------------------------------------------------------------------
\* The queries.

\* What is served is the list of one crawl.
LEMMA Served ==
  ASSUME Inv, phase = "serve"
  PROVE  /\ data \in Seq(Entries) /\ ListInv(data)
         /\ \A k \in 1..Len(data) : data[k] \in Entries /\ data[k].id = k
BY DEF Inv, TypeOK, ServedInv, ListInv

LEMMA WithIdIs ==
  ASSUME data \in Seq(Entries), \A k \in 1..Len(data) : data[k].id = k
  PROVE  /\ \A i \in 0..(Len(data) - 1) :
              WithId(i) = {data[i + 1]} /\ UrlById(i) = {data[i + 1].meta.name}
         /\ WithId(Len(data)) = {}
<1>1. ToSet(data) = {data[k] : k \in 1..Len(data)}
  BY DEF ToSet
<1>2. ASSUME NEW i \in 0..(Len(data) - 1)
      PROVE  WithId(i) = {data[i + 1]} /\ UrlById(i) = {data[i + 1].meta.name}
  <2>1. i + 1 \in 1..Len(data)
    OBVIOUS
  <2>2. WithId(i) = {data[i + 1]}
    BY <1>1, <2>1 DEF WithId
  <2> QED
    BY <2>2 DEF UrlById
<1>3. WithId(Len(data)) = {}
  <2>1. Len(data) \in Nat
    OBVIOUS
  <2> QED
    BY <1>1, <2>1 DEF WithId
<1> QED
  BY <1>2, <1>3

\* The loop over the entries keeps those from the asked id on, in their order.
LEMMA AfterIs ==
  ASSUME NEW E, data \in Seq(E), \A k \in 1..Len(data) : data[k].id = k,
         NEW i \in 0..Len(data)
  PROVE  AfterId(i) = SubSeq(data, i + 1, Len(data))
<1> DEFINE N == Len(data)
           R(F) == [k \in 0..N |-> IF k = 0 THEN <<>>
                                   ELSE IF data[k].id >= i + 1 THEN Append(F[k - 1], data[k])
                                   ELSE F[k - 1]]
           W == [k \in 0..N |-> SubSeq(data, i + 1, k)]
<1>1. AfterId(i) = (CHOOSE F : F = R(F))[N]
  BY DEF AfterId
<1>2. N \in Nat /\ i \in Nat /\ i <= N /\ \A k \in 1..N : data[k] \in E
  OBVIOUS
<1>3. ASSUME NEW k \in 1..N
      PROVE  SubSeq(data, i + 1, k) =
               IF k >= i + 1 THEN Append(SubSeq(data, i + 1, k - 1), data[k])
               ELSE SubSeq(data, i + 1, k - 1)
  <2> DEFINE a == SubSeq(data, i + 1, k)
             b == SubSeq(data, i + 1, k - 1)
  <2>1. /\ a \in Seq(E) /\ Len(a) = (IF i + 1 <= k THEN k - (i + 1) + 1 ELSE 0)
        /\ \A l \in 1..(k - (i + 1) + 1) : a[l] = data[(i + 1) + l - 1]
    <3>1. \A l \in (i + 1)..k : data[l] \in E
      BY <1>2
    <3> QED
      BY <1>2, <3>1, SubSeqProperties
  <2>2. /\ b \in Seq(E) /\ Len(b) = (IF i + 1 <= k - 1 THEN (k - 1) - (i + 1) + 1 ELSE 0)
        /\ \A l \in 1..((k - 1) - (i + 1) + 1) : b[l] = data[(i + 1) + l - 1]
    <3>1. \A l \in (i + 1)..(k - 1) : data[l] \in E
      BY <1>2
    <3>2. k - 1 \in Int /\ i + 1 \in Int
      BY <1>2
    <3> QED
      BY <3>1, <3>2, SubSeqProperties
  <2> HIDE DEF a, b
  <2>3. CASE k >= i + 1
    <3>1. data[k] \in E
      BY <1>2
    <3>2. /\ Append(b, data[k]) \in Seq(E) /\ Len(Append(b, data[k])) = Len(b) + 1
          /\ Append(b, data[k])[Len(b) + 1] = data[k]
          /\ \A l \in 1..Len(b) : Append(b, data[k])[l] = b[l]
      BY <2>2, <3>1, AppendProperties
    <3>3. Len(b) = k - 1 - i /\ Len(a) = k - i /\ k - i \in Nat
      BY <1>2, <2>1, <2>2, <2>3
    <3>4. ASSUME NEW l \in 1..Len(a) PROVE a[l] = Append(b, data[k])[l]
      <4>1. CASE l = k - i
        <5>1. a[l] = data[k]
          BY <1>2, <2>1, <3>3, <4>1
        <5> QED
          BY <1>2, <3>2, <3>3, <4>1, <5>1
      <4>2. CASE l # k - i
        <5>1. a[l] = data[(i + 1) + l - 1] /\ b[l] = data[(i + 1) + l - 1] /\ l \in 1..Len(b)
          BY <1>2, <2>1, <2>2, <3>3, <4>2
        <5> QED
          BY <3>2, <5>1
      <4> QED
        BY <4>1, <4>2
    <3>5. Len(a) = Len(Append(b, data[k]))
      BY <1>2, <3>2, <3>3
    <3>6. a = Append(b, data[k])
      BY <2>1, <3>2, <3>4, <3>5, SeqEqual
    <3> QED
      BY <2>3, <3>6 DEF a, b
  <2>4. CASE ~ (k >= i + 1)
    <3>1. Len(a) = 0 /\ Len(b) = 0
      BY <1>2, <2>1, <2>2, <2>4
    <3>2. a = b
      BY <2>1, <2>2, <3>1, EmptySeq
    <3> QED
      BY <2>4, <3>2 DEF a, b
  <2> QED
    BY <2>3, <2>4
<1>4. W = R(W)
  <2>1. SubSeq(data, i + 1, 0) = <<>>
    <3>1. SubSeq(data, i + 1, 0) \in Seq(E) /\ Len(SubSeq(data, i + 1, 0)) = 0
      <4>1. \A l \in (i + 1)..0 : data[l] \in E
        BY <1>2
      <4>2. i + 1 \in Int /\ 0 \in Int /\ ~ (i + 1 <= 0)
        BY <1>2
      <4> QED
        BY <4>1, <4>2, SubSeqProperties
    <3> QED
      BY <3>1, EmptySeq
  <2>2. \A k \in 0..N : W[k] = R(W)[k]
    <3> SUFFICES ASSUME NEW k \in 0..N PROVE W[k] = R(W)[k]
      OBVIOUS
    <3>1. CASE k = 0
      BY <2>1, <3>1
    <3>2. CASE k # 0
      <4>1. k \in 1..N /\ k - 1 \in 0..N /\ data[k].id = k
        BY <1>2, <3>2
      <4> QED
        BY <1>3, <3>2, <4>1
    <3> QED
      BY <3>1, <3>2
  <2> QED
    BY <2>2
<1>5. ASSUME NEW F, F = R(F) PROVE F = W
  <2> DEFINE T == {k \in 0..N : F[k] # W[k]}
  <2>1. SUFFICES ASSUME T # {} PROVE FALSE
    <3>1. DOMAIN F = 0..N /\ F = [k \in DOMAIN F |-> F[k]]
      BY <1>5
    <3> QED
      BY <2>1, <3>1
  <2>2. \E m \in T : \A l \in T : ~ (<<l, m>> \in OpToRel(<, Nat))
    <3>1. T \subseteq Nat
      OBVIOUS
    <3> HIDE DEF T
    <3> QED
      BY <2>1, <3>1, WFMin, NatLessThanWellFounded, Zenon
  <2>3. PICK m \in T : \A l \in T : ~ (l < m)
    <3>1. T \subseteq Nat
      OBVIOUS
    <3> HIDE DEF T
    <3>2. PICK m \in T : \A l \in T : ~ (<<l, m>> \in OpToRel(<, Nat))
      BY <2>2
    <3>3. \A l \in T : ~ (l < m)
      BY <3>1, <3>2 DEF OpToRel
    <3> QED
      BY <3>3
  <2>4. m # 0
    BY <1>4, <1>5, <2>3
  <2>5. m - 1 \in 0..N /\ F[m - 1] = W[m - 1]
    <3>1. m \in Int /\ m - 1 \in 0..N /\ m - 1 < m
      BY <1>2, <2>3, <2>4
    <3>2. ~ (m - 1 \in T)
      BY <2>3, <3>1
    <3> HIDE DEF W
    <3> QED
      BY <3>1, <3>2
  <2>6. F[m] = R(F)[m] /\ W[m] = R(W)[m]
    BY <1>4, <1>5
  <2>7. R(F)[m] = R(W)[m]
    <3> HIDE DEF W
    <3> QED
      BY <2>3, <2>4, <2>5
  <2> QED
    BY <2>3, <2>6, <2>7
<1> HIDE DEF W, R
<1>6. (CHOOSE F : F = R(F)) = W
  BY <1>4, <1>5
<1>7. W[N] = SubSeq(data, i + 1, N)
  BY <1>2 DEF W
<1> QED
  BY <1>1, <1>6, <1>7

\* An article that is served has its content, as its own crawl wrote it, if
\* and only if the path is relative or it is the first (mining.py:283).
THEOREM ContentIsServedHolds == Spec => []ContentIsServed
<1>1. ASSUME Inv PROVE ContentIsServed
  <2> SUFFICES ASSUME phase = "serve", NEW k \in DOMAIN data
               PROVE  RealData(k - 1) = {Own(data[k])} <=> (relative \/ k = 1)
    BY DEF ContentIsServed, Own
  <2>1. /\ data \in Seq(Entries) /\ ListInv(data) /\ k \in 1..Len(data)
        /\ \A l \in 1..Len(data) : data[l] \in Entries /\ data[l].id = l
    BY <1>1, Served
  <2>2. PICK i \in 0..(Len(data) - 1) : i = k - 1 /\ i + 1 = k
    BY <2>1
  <2>3. UrlById(i) = {data[k].meta.name}
    BY <2>1, <2>2, WithIdIs
  <2>4. RealData(i) = {f \in files : f.dir = "board" /\ f.name = data[k].meta.name}
    BY <2>3 DEF RealData
  <2>5. Own(data[k]).dir = "board" /\ Own(data[k]).name = data[k].meta.name
    BY DEF Own
  <2>6. RealData(i) = {Own(data[k])} <=> Own(data[k]) \in files
    BY <1>1, <2>4, <2>5 DEF Inv, FilesInv
  <2>7. Own(data[k]) \in files <=> (relative \/ k = 1)
    BY <2>1 DEF ListInv
  <2> QED
    BY <2>2, <2>6, <2>7
<1> QED
  BY <1>1, InvHolds, PTL

\* The positions in the list of the articles of a title.
LEMMA ThemeIs ==
  ASSUME data \in Seq(Entries), \A k \in 1..Len(data) : data[k].id = k,
         NEW i \in 0..(Len(data) - 1)
  PROVE  Theme(i) = {k \in 1..Len(data) :
                       titles[data[k].meta.title] = titles[data[i + 1].meta.title]}
<1>1. ToSet(data) = {data[k] : k \in 1..Len(data)} /\ WithId(i) = {data[i + 1]}
  BY WithIdIs DEF ToSet
<1> QED
  BY <1>1 DEF Theme

\* The series of an entry is answered one off, and not at all if it has the
\* last entry (build.py:96).
LEMMA SeriesIs ==
  ASSUME data \in Seq(Entries), \A k \in 1..Len(data) : data[k].id = k,
         NEW i \in 0..(Len(data) - 1)
  PROVE  LET OfTheme(k) == titles[data[k].meta.title] = titles[data[i + 1].meta.title]
         IN /\ Series(i) = {} <=> OfTheme(Len(data))
            /\ \A answer \in Series(i) :
                 \A k \in 1..Len(data) : data[k] \in answer <=> (k > 1 /\ OfTheme(k - 1))
<1> DEFINE T == {k \in 1..Len(data) : titles[data[k].meta.title] = titles[data[i + 1].meta.title]}
<1>1. Theme(i) = T /\ DOMAIN data = 1..Len(data) /\ Len(data) \in Nat /\ Len(data) \in 1..Len(data)
  BY ThemeIs, LenProperties
<1>2. T \subseteq 1..Len(data)
  OBVIOUS
<1>3. ASSUME NEW k \in 1..Len(data)
      PROVE  k \in T <=> titles[data[k].meta.title] = titles[data[i + 1].meta.title]
  OBVIOUS
<1> HIDE DEF T
<1>4. (\A x \in T : x + 1 \in 1..Len(data)) <=> Len(data) \notin T
  BY <1>1, <1>2
<1>5. Series(i) = IF Len(data) \notin T THEN {{data[x + 1] : x \in T}} ELSE {}
  BY <1>1, <1>4 DEF Series
<1>6. ASSUME Len(data) \notin T, NEW k \in 1..Len(data)
      PROVE  data[k] \in {data[x + 1] : x \in T} <=> (k > 1 /\ k - 1 \in T)
  <2>1. ASSUME NEW x \in T, data[k] = data[x + 1] PROVE k > 1 /\ k - 1 \in T
    <3>1. x \in Nat /\ x >= 1 /\ x + 1 \in 1..Len(data)
      BY <1>1, <1>2, <1>6
    <3>2. k = x + 1
      BY <2>1, <3>1
    <3>3. k - 1 = x
      BY <3>1, <3>2
    <3> QED
      BY <2>1, <3>1, <3>2, <3>3
  <2>2. ASSUME k > 1, k - 1 \in T PROVE \E x \in T : data[k] = data[x + 1]
    <3>1. (k - 1) + 1 = k
      OBVIOUS
    <3> QED
      BY <2>2, <3>1
  <2> QED
    BY <2>1, <2>2
<1>7. \A k \in 1..Len(data) : k > 1 => k - 1 \in 1..Len(data)
  BY <1>1
<1>8. Series(i) = {} <=> titles[data[Len(data)].meta.title] = titles[data[i + 1].meta.title]
  BY <1>1, <1>3, <1>5
<1>9. ASSUME NEW answer \in Series(i), NEW k \in 1..Len(data)
      PROVE  data[k] \in answer <=>
               (k > 1 /\ titles[data[k - 1].meta.title] = titles[data[i + 1].meta.title])
  <2>1. Len(data) \notin T /\ answer = {data[x + 1] : x \in T}
    BY <1>5
  <2>2. data[k] \in answer <=> (k > 1 /\ k - 1 \in T)
    BY <1>6, <2>1
  <2> QED
    BY <1>3, <1>7, <2>2
<1> QED
  BY <1>8, <1>9

\* The ids in answers count the entries from one, those asked for from zero,
\* and a series is answered one entry off (build.py:61, :96).
THEOREM IdsAreOneApartHolds == Spec => []IdsAreOneApart
<1>1. ASSUME Inv PROVE IdsAreOneApart
  <2> SUFFICES ASSUME phase = "serve" PROVE IdsAreOneApart
    BY DEF IdsAreOneApart
  <2>1. /\ data \in Seq(Entries) /\ ListInv(data) /\ Len(data) \in Nat /\ DOMAIN data = 1..Len(data)
        /\ \A k \in 1..Len(data) : data[k] \in Entries /\ data[k].id = k
    BY <1>1, Served, LenProperties
  <2>2. ASSUME NEW i \in 0..Len(data)
        PROVE  /\ WithId(i) = IF i < Len(data) THEN {data[i + 1]} ELSE {}
               /\ AfterId(i) = SubSeq(data, i + 1, Len(data))
    <3>1. AfterId(i) = SubSeq(data, i + 1, Len(data))
      BY <2>1, AfterIs
    <3>2. i = Len(data) \/ (i \in 0..(Len(data) - 1) /\ i < Len(data))
      <4>1. PICK N \in Nat : N = Len(data)
        BY <2>1
      <4> QED
        BY <4>1
    <3>3. data \in Seq(Entries) /\ Len(data) \in Nat /\ \A k \in 1..Len(data) : data[k].id = k
      BY <2>1
    <3>4. i = Len(data) => WithId(i) = {} /\ ~ (i < Len(data))
      BY <3>3, WithIdIs
    <3>5. i # Len(data) => WithId(i) = {data[i + 1]} /\ i < Len(data)
      BY <3>2, <3>3, WithIdIs
    <3> QED
      BY <3>1, <3>4, <3>5
  <2>3. ASSUME NEW j \in 1..Len(data), NEW k \in 1..Len(data), j # k
        PROVE  UrlById(j - 1) # UrlById(k - 1)
    <3>1. /\ j - 1 \in 0..(Len(data) - 1) /\ (j - 1) + 1 = j
          /\ k - 1 \in 0..(Len(data) - 1) /\ (k - 1) + 1 = k
      <4>1. PICK N \in Nat : N = Len(data)
        BY <2>1
      <4> QED
        BY <4>1
    <3>2. UrlById(j - 1) = {data[j].meta.name} /\ UrlById(k - 1) = {data[k].meta.name}
      BY <2>1, <3>1, WithIdIs
    <3>3. \A l \in 1..Len(data) : data[l].meta.name \in Nat
      BY <2>1 DEF Entries, Names
    <3>4. data[j].meta.name # data[k].meta.name
      BY <2>1, <2>3, <3>3 DEF ListInv
    <3> QED
      BY <3>2, <3>4
  <2>4. ASSUME NEW i \in 0..(Len(data) - 1)
        PROVE  LET OfTheme(k) == titles[data[k].meta.title] = titles[data[i + 1].meta.title]
               IN /\ Series(i) = {} <=> OfTheme(Len(data))
                  /\ \A answer \in Series(i) :
                       \A k \in 1..Len(data) : data[k] \in answer <=> (k > 1 /\ OfTheme(k - 1))
    <3>1. data \in Seq(Entries) /\ \A k \in 1..Len(data) : data[k].id = k
      BY <2>1
    <3> QED
      BY <3>1, SeriesIs
  <2> QED
    BY <2>1, <2>2, <2>3, <2>4 DEF IdsAreOneApart, MaxId
<1> QED
  BY <1>1, InvHolds, PTL

=============================================================================
