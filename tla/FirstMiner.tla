----------------------------- MODULE FirstMiner -----------------------------
(***************************************************************************)
(* The first generation of the miner, which main.py runs unless it is      *)
(* given --miner2: BBSCrawler fetches pages of a board and writes a file   *)
(* for each article, and Metadata_json at the end; BuildData reads that    *)
(* file when the process starts and answers the queries.  The process may  *)
(* be killed, and started again with or without --mining.                  *)
(*                                                                         *)
(* An article is the number of its row, and a field the article whose page *)
(* it was read from.  All articles are of the one board that is crawled.   *)
(***************************************************************************)
EXTENDS Integers, Sequences, SequencesExt

CONSTANTS
    Pages,          \* --number: pages 1 to Pages - 1 are read
    Themes,         \* the titles, without "Re:"
    MaxRows,        \* bound: articles on all pages
    MaxCrawls,      \* bound: crawls
    Unbound         \* a variable without a value, a file that cannot be read

ASSUME BoundsAssumption == Pages \in Nat /\ MaxRows \in Nat /\ MaxCrawls \in Nat
ASSUME UnboundAssumption == Unbound \notin Nat

VARIABLES
    relative,   \* --fetch_path is "./", else an absolute path
    titles,     \* the titles of the articles on the site
    phase,      \* "down", "crawl", "row", "build", "serve"
    metaFile,   \* the entries in Metadata_json, or Unbound when it cannot be read
    files,      \* the files of the articles: [dir, name, crawl, whole]
    crawl,      \* history: the number of the last crawl
    page,       \* indexP
    row,        \* the rows looked at
    cwd,        \* the working directory: "board", or "fetch" above it
    post,       \* post_id
    nextId,     \* ID
    meta,       \* metaName, metaAuthor, metaBoard, metaTitle, metaTime
    arr,        \* self.arr
    data        \* BuildData.jsondata

vars == <<relative, titles, phase, metaFile, files, crawl, page, row, cwd, post,
          nextId, meta, arr, data>>
site == <<relative, titles>>
disk == <<metaFile, files>>
locals == <<page, row, cwd, post, nextId, meta, arr>>

\* The fields of a header, in their order.
Fields == <<"author", "board", "title", "time">>
Unread == [f \in ToSet(Fields) \cup {"name"} |-> Unbound]

\* getContent starts.
FreshLocals ==
    /\ page' = 1 /\ row' = 0 /\ cwd' = "board" /\ post' = Unbound /\ nextId' = 1
    /\ meta' = Unread /\ arr' = <<>>

Init ==
    /\ relative \in BOOLEAN
    /\ titles \in [1..MaxRows -> Themes]
    /\ phase = "down" /\ metaFile = Unbound /\ files = {} /\ crawl = 0
    /\ page = 1 /\ row = 0 /\ cwd = "board" /\ post = Unbound /\ nextId = 1
    /\ meta = Unread /\ arr = <<>> /\ data = <<>>

---------------------------------------------------------------------------
(* BBSCrawler *)

\* Fault: Metadata_json is not opened before it is written.
StartMiningKeeps ==
    /\ phase = "down" /\ crawl < MaxCrawls
    /\ phase' = "crawl" /\ crawl' = crawl + 1
    /\ FreshLocals
    /\ UNCHANGED <<site, disk, data>>

\* main() with --mining: the crawler goes to the directory of the board, and
\* getContent opens Metadata_json for writing.
StartMining ==
    /\ phase = "down" /\ crawl < MaxCrawls
    /\ phase' = "crawl" /\ crawl' = crawl + 1
    /\ metaFile' = Unbound
    /\ FreshLocals
    /\ UNCHANGED <<site, files, data>>

\* A page of the index is read, or skipped when it cannot be.
ReadPage ==
    /\ phase = "crawl" /\ page < Pages
    /\ \/ phase' = "row" /\ UNCHANGED page
       \/ page' = page + 1 /\ UNCHANGED phase
    /\ UNCHANGED <<site, disk, crawl, row, cwd, post, nextId, meta, arr, data>>

PageDone ==
    /\ phase = "row"
    /\ phase' = "crawl" /\ page' = page + 1
    /\ UNCHANGED <<site, disk, crawl, row, cwd, post, nextId, meta, arr, data>>

NextRow == phase = "row" /\ row < MaxRows /\ row' = row + 1

\* A row without a link, that of a deleted article.  The handler of the
\* exception names post_id, and raises when there was none before.
RowBroken ==
    /\ NextRow
    /\ phase' = IF post = Unbound THEN "down" ELSE "row"
    /\ UNCHANGED <<site, disk, crawl, page, cwd, post, nextId, meta, arr, data>>

\* The article cannot be fetched.
PostFails ==
    /\ NextRow /\ post' = row'
    /\ UNCHANGED <<site, phase, disk, crawl, page, cwd, nextId, meta, arr, data>>

\* open(post_id, 'w') in the working directory.
WriteFile(whole) ==
    files' = {f \in files : f.dir # cwd \/ f.name # row'}
               \cup {[dir |-> cwd, name |-> row', crawl |-> crawl, whole |-> whole]}

\* The content cannot be written.  The handler of the exception names
\* metaName, and raises when there was none before.
PostUnwritten ==
    /\ NextRow /\ post' = row'
    /\ WriteFile(FALSE)
    /\ phase' = IF meta.name = Unbound THEN "down" ELSE "row"
    /\ UNCHANGED <<site, metaFile, crawl, page, cwd, nextId, meta, arr, data>>

\* The name and the first n fields, read one after the other.
Read(n) == meta' = [f \in DOMAIN meta |->
                      IF f = "name" \/ f \in ToSet(SubSeq(Fields, 1, n)) THEN row' ELSE meta[f]]

\* The author, the title or the time cannot be read.
PostUnread ==
    /\ NextRow /\ post' = row'
    /\ WriteFile(TRUE)
    /\ \E n \in {0, 2, 3} : Read(n)
    /\ UNCHANGED <<site, phase, metaFile, crawl, page, cwd, nextId, arr, data>>

\* Fault: an article gets the number of its row.
AppendEntryByRow(n) ==
    IF \E f \in DOMAIN meta : meta'[f] = Unbound
    THEN phase' = "down" /\ UNCHANGED <<nextId, arr>>
    ELSE /\ arr' = Append(arr, [id |-> row', has |-> n, crawl |-> crawl, meta |-> meta'])
         /\ nextId' = row' + 1
         /\ UNCHANGED phase

\* Fault: the entry is made before the fields are read.
AppendEntryEarly(n) ==
    IF \E f \in DOMAIN meta : meta'[f] = Unbound
    THEN phase' = "down" /\ UNCHANGED <<nextId, arr>>
    ELSE /\ arr' = Append(arr, [id |-> nextId, has |-> n, crawl |-> crawl,
                                meta |-> [meta EXCEPT !.name = row']])
         /\ nextId' = nextId + 1
         /\ UNCHANGED phase

\* The entry has what the header did not give from an earlier article, or
\* raises when there was none.  has and crawl are history.
AppendEntry(n) ==
    IF \E f \in DOMAIN meta : meta'[f] = Unbound
    THEN phase' = "down" /\ UNCHANGED <<nextId, arr>>
    ELSE /\ arr' = Append(arr, [id |-> nextId, has |-> n, crawl |-> crawl, meta |-> meta'])
         /\ nextId' = nextId + 1
         /\ UNCHANGED phase

\* An article whose header has n fields.  os.chdir(fetch_path) leaves the
\* directory of the board when the path is absolute.
PostRead(n) ==
    /\ NextRow /\ post' = row'
    /\ WriteFile(TRUE)
    /\ Read(n)
    /\ cwd' = IF relative THEN cwd ELSE "fetch"
    /\ AppendEntry(n)
    /\ UNCHANGED <<site, metaFile, crawl, page, data>>

\* json.dump
CrawlDone ==
    /\ phase = "crawl" /\ page >= Pages
    /\ metaFile' = arr
    /\ phase' = "build"
    /\ UNCHANGED <<site, files, crawl, locals, data>>

---------------------------------------------------------------------------
(* BuildData *)

StartOnly ==
    /\ phase = "down"
    /\ phase' = "build"
    /\ UNCHANGED <<site, disk, crawl, locals, data>>

\* json.load raises when the file is not there or has no end.
Build ==
    /\ phase = "build"
    /\ IF metaFile = Unbound
       THEN phase' = "down" /\ UNCHANGED data
       ELSE phase' = "serve" /\ data' = metaFile
    /\ UNCHANGED <<site, disk, crawl, locals>>

\* The process is killed or interrupted.
Kill ==
    /\ phase \in {"crawl", "row", "serve"}
    /\ phase' = "down" /\ data' = <<>>
    /\ UNCHANGED <<site, disk, crawl, locals>>

\* get_max_id, get_doc_meta_data_after_id, get_url_by_id, get_doc_real_data
\* and get_doc_meta_data_series.  The ids in answers are those of the entries,
\* the id asked for is one less; an answer of none is an exception later.
MaxId == Len(data)
AfterId(i) ==
    LET ansList[k \in 0..Len(data)] ==
          IF k = 0 THEN <<>>
          ELSE IF data[k].id >= i + 1 THEN Append(ansList[k - 1], data[k])
          ELSE ansList[k - 1]
    IN ansList[Len(data)]
WithId(i) == {e \in ToSet(data) : e.id = i + 1}
UrlById(i) == {e.meta.name : e \in WithId(i)}
RealData(i) == {f \in files : f.dir = "board" /\ f.name \in UrlById(i)}

\* self.d has the ids of the articles of a title, counted from 1; metadata is
\* indexed with them from 0, and raises for the last.
Theme(i) == {e.id : e \in {d \in ToSet(data) :
                 \E w \in WithId(i) : titles[d.meta.title] = titles[w.meta.title]}}
Series(i) == IF \A x \in Theme(i) : x + 1 \in DOMAIN data
             THEN {{data[x + 1] : x \in Theme(i)}} ELSE {}

Next ==
    \/ StartMining \/ ReadPage \/ PageDone \/ CrawlDone
    \/ RowBroken \/ PostFails \/ PostUnwritten \/ PostUnread
    \/ \E n \in 0..Len(Fields) : PostRead(n)
    \/ StartOnly \/ Build \/ Kill

Spec == Init /\ [][Next]_vars

---------------------------------------------------------------------------
(* Properties *)

\* Each entry that is served has the fields its page has, from its own page;
\* the others are left over from an earlier article of the same crawl, never
\* from a later one or from another crawl (mining.py:287).
FieldsOfItsPage ==
    phase = "serve" => \A k \in DOMAIN data :
      LET e == data[k] IN
        /\ e.crawl = data[1].crawl
        /\ \A j \in DOMAIN Fields :
             IF j <= e.has THEN e.meta[Fields[j]] = e.meta.name
                           ELSE e.meta[Fields[j]] < e.meta.name

\* With "./" every article that is served has its content, as the crawl of
\* its entry wrote it; with an absolute path the first article only, however
\* often the crawl is repeated, killed, or run into an error (mining.py:283).
ContentIsServed ==
    phase = "serve" => \A k \in DOMAIN data :
      LET own == [dir |-> "board", name |-> data[k].meta.name,
                  crawl |-> data[k].crawl, whole |-> TRUE]
      IN RealData(k - 1) = {own} <=> (relative \/ k = 1)

\* The ids in answers count the entries from 1 to get_max_id without gaps,
\* whatever was skipped, but a query answers each id it is asked for with the
\* entry after it: one never has the first entry with the id of an answer, and
\* none answers the id get_max_id gives, of which backend_interface.py:18 and
\* :29 say that it is a document's, and that documents from it on are answered.
\* A series is answered one entry off, so that the first is in none and the
\* newest article has none (build.py:61, :96).
IdsAreOneApart ==
    phase = "serve" =>
      /\ \A k \in DOMAIN data : data[k].id = k
      /\ \A i \in 0..MaxId :
           /\ WithId(i) = IF i < MaxId THEN {data[i + 1]} ELSE {}
           /\ AfterId(i) = SubSeq(data, i + 1, MaxId)
      /\ \A j, k \in DOMAIN data : j # k => UrlById(j - 1) # UrlById(k - 1)
      /\ \A i \in 0..(MaxId - 1) :
           LET OfTheme(k) == titles[data[k].meta.title] = titles[data[i + 1].meta.title]
           IN /\ Series(i) = {} <=> OfTheme(MaxId)
              /\ \A answer \in Series(i) :
                   \A k \in DOMAIN data : data[k] \in answer <=> (k > 1 /\ OfTheme(k - 1))
=============================================================================
